SPECIFICATION CoreSpec
CONSTANTS
    Key = {1, 8, 15, 2, 9}
    Value = {a, b}
    Free = Free
    Hash <- MCHash
    PrimeList <- MCPrimeList
    MinBatch = 4
    Reserves = {2, 5}
    Anchor = {h1, h2}
    Item = {i1, i2, i3}
    NoWalk = NoWalk
    Address = {a1, a2, a3}
    FieldsMaximum = 4
    PrintLevel = 1
    Name = {"code", "message", "payload", "scope"}
    Type = {"signed", "unsigned"}
    MaxCalls = 3
    Exit = Exit
    Module = {"core", "executor", "storage"}
    Depends <- MCDepends
    Factories <- MCFactories
    Fork = {f1, f2}
    Library = {l1, l2, l3}
    Plugged = "storage"
    MaxLaunches = 2
    MaxReloads = 1
    Input = {in1}
    Output = {out1}
    Sizes = {0, 1, 2, 3}
    StartCapacity = 2
    MaxBytes = 6
    NULL = NULL
SYMMETRY Symmetry
INVARIANTS
    MapInv
    ListsInv
    EventsInv
    RaisedIsOwn
    ContextAgrees
    LibrariesAlive
    BytesKept
CHECK_DEADLOCK FALSE

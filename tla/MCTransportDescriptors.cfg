SPECIFICATION LiveSpec
CONSTANTS
    c1 = c1
    c2 = c2
    c3 = c3
    Channels = {c1, c2, c3}
    MaxFd = 2
    Openings <- MCOpenings
    MaxPending = 1
CHECK_DEADLOCK FALSE
CONSTRAINT Sound
INVARIANTS
    DeliveredToOwner
    OwnsDescriptor
    ServersInv
PROPERTY
    EveryCloseEnds

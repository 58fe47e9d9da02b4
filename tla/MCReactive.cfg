SPECIFICATION ReactiveSpec
CONSTANTS
    Sizes <- MCSizes
    FrameMaxSize = 2
    FragmentSize = 2
    ChunksLimit = 2
    Infinity = 9
    Grants = {1, 9}
    MaxGrants = 2
    Frames <- MCFrames
    MaxFrames = 2
INVARIANTS
    
    CreditsInv
    FramesInSync
PROPERTIES
    CreditIsUsed
    CloseSettles
CHECK_DEADLOCK FALSE

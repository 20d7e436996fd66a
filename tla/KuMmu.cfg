CONSTANTS
    Pids <- MCPids
    Addrs <- MCAddrs
    NFrames = 4
    NSlots = 3
SPECIFICATION Spec
INVARIANTS
    TypeOK
    FrameExclusive
    FramesAccounted
    SlotsAccounted
    SwapOnlyWhenFull
    OsFrameReserved
    FaultResolved
    NoEarlyFailure
    IInv
PROPERTIES
    NoPageLost
    ImplementsPaging

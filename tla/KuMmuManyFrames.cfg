CONSTANTS
    Pids <- OrderedPids
    Addrs <- OrderedAddrs
    NFrames = 66
    NSlots = 2
SPECIFICATION OrderedSpec
INVARIANT OsFrameReserved

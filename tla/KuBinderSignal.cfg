CONSTANTS
    r1 = r1
    r2 = r2
    c1 = c1
    c2 = c2
    Readers <- MCReaders
    Senders <- MCSenders
    Snums <- TwoSnums
    ServedBy <- OneEach
    MaxSends = 1
    MaxSignals = 1
SPECIFICATION QueueSpec
INVARIANT NoEmptyTake
CHECK_DEADLOCK FALSE

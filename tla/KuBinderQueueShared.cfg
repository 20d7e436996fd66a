CONSTANTS
    r1 = r1
    r2 = r2
    c1 = c1
    c2 = c2
    Readers <- MCReaders
    Senders <- MCSenders
    Snums <- OneSnum
    ServedBy <- Shared
    MaxSends = 2
    MaxSignals = 1
SPECIFICATION QueueSpec
INVARIANTS
    Fifo
    NoLostWakeup
CHECK_DEADLOCK FALSE

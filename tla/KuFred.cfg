CONSTANTS
    Programs = {"threads", "processes"}
    Top = 6
    MaxWorkers = 3
    QueuesMax = 3
    Settings <- MCSettings
    Garbage <- MCGarbage
    Leftovers <- MCLeftovers
SPECIFICATION Spec
INVARIANTS
    TypeOK
    NoLostUpdate
    ShareInOrder
    NoQueueLeft
    FDCorrect
PROPERTIES
    Finishes

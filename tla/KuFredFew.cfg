CONSTANTS
    Programs = {"threads"}
    Top = 6
    MaxWorkers = 3
    QueuesMax = 3
    Settings <- MCFewNumbers
    Garbage <- MCGarbage
    Leftovers <- MCNoLeftovers
SPECIFICATION Spec
INVARIANTS
    FDCorrect

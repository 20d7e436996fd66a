CONSTANTS
    Programs = {"processes"}
    Top = 6
    MaxWorkers = 3
    QueuesMax = 2
    Settings <- MCOneEach
    Garbage <- MCGarbage
    Leftovers <- MCNoLeftovers
SPECIFICATION Spec
PROPERTIES
    Finishes
CHECK_DEADLOCK FALSE

CONSTANTS
    Drivers <- MCDrivers
    Readers = {"r1", "r2"}
    Writers = {"w1", "w2"}
    BlockProcs = {"r1", "r2", "w1"}
    Walkers = {"r1"}
    Lab3Calls = 4
    BlockCalls = 3
    BlockSignals = 1
    Amounts = {1, 2}
    MaxWrites = 2
    NIds = 3
    AskedIds = {2, 3, 4}
    MaxUpdates = 2
    MaxOpens = 3
    MaxEdges = 3
    Works = {"work1", "work2"}
    ContextSets <- MCContextSets
    WaiterSets <- MCWaiterSets
SPECIFICATION Spec
INVARIANTS
    TypeOK
    BlockNoLostWakeup
    NoUseAfterFree
    NoLeak
    MessagesOnce
    SensorFollowsOpen
    ReadsConsistent
    NothingLost
    NothingAfterUnload
    ReadyWhenUsed
    EchoMeasured
PROPERTIES
    CallsEnd
    LightFollows
CHECK_DEADLOCK FALSE

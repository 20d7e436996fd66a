CONSTANTS
    s1 = s1
    s2 = s2
    c1 = c1
    Servers <- MCServers
    Clients <- MCClients
    Readers <- MCServers
    Senders <- MCClients
    Names <- MCNames
    NameOf <- MCNameOf
    SNUM_MAX = 2
    Snums <- MCSnums
    ServedBy <- AnySnum
    MaxRegistering = 1
    MaxSends = 2
    MaxSignals = 1
    MaxRestarts = 1
SPECIFICATION SysSpec
INVARIANTS
    TypeOK
    NumberMeansName
    RightServer
    AppliedInOrder
    Survives
PROPERTIES
    TableGrows
    ImplementsBus
CHECK_DEADLOCK FALSE

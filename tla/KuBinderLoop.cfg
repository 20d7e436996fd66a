CONSTANTS
    s1 = s1
    s2 = s2
    c1 = c1
    Servers <- MCServers
    Clients <- MCClients
    Readers <- MCServers
    Senders <- MCClients
    Names <- MCNames
    NameOf <- MCNameOf
    SNUM_MAX = 2
    Snums <- MCSnums
    ServedBy <- AnySnum
    MaxRegistering = 1
    MaxSends = 2
    MaxSignals = 0
    MaxRestarts = 0
SPECIFICATION LoopSpec
PROPERTIES
    RequestsApplied
CHECK_DEADLOCK FALSE

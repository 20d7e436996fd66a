CONSTANTS
    s1 = s1
    s2 = s2
    s3 = s3
    c1 = c1
    Servers <- MCServers
    Clients <- MCClients
    Names <- MCNames
    NameOf <- MCNameOf
    SNUM_MAX = 2
    MaxRegistering = 2
SPECIFICATION RegSpec
INVARIANT NumberMeansName

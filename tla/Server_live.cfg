SPECIFICATION FairSpec
CONSTANTS
    c1 = c1
    c2 = c2
    d1 = d1
    d2 = d2
    Clients <- MCClients
    Devices <- MCOneDevice
    Cuts <- MCWhole
    Commands = {"dev-set", "r", "dev-new", "dev-del", "dev-ls", "open", "quit"}
    MaxRequests = 2
PROPERTY Served
CHECK_DEADLOCK FALSE

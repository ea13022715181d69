SPECIFICATION Spec
CONSTANTS
    c1 = c1
    c2 = c2
    d1 = d1
    d2 = d2
    Clients <- MCClients
    Devices <- MCDevices
    Cuts <- MCCut
    Commands = {"dev-set", "dev-ls"}
    MaxRequests = 3
SYMMETRY MCSymmetry
INVARIANTS TypeOK AllocatorsIsolated BatchKeepsDevice RunOnceInOrder
CHECK_DEADLOCK FALSE

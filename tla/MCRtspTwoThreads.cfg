CONSTANTS
    Clients = {c1, c2}
    Conns = {k1, k2}
    NoClient = NoClient
    NoConn = NoConn
    NumSubs = 1
    MaxOpens = 1
SPECIFICATION Spec
INVARIANT OneThreadInLibrary

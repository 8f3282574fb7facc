CONSTANTS
    Clients = {c1, c2}
    Conns = {k1, k2}
    NoClient = NoClient
    NoConn = NoConn
    NumSubs = 2
    MaxOpens = 1
SPECIFICATION FairSpec
INVARIANTS HandlerFindsClient AnswerFitsState UpcallsFindClient NoConnectionLeaks
PROPERTIES Freed

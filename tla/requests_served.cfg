SPECIFICATION FairSpec
CONSTANTS
    c1 = c1
    c2 = c2
    k1 = k1
    Client = {c1, c2}
    Reader = {c1}
    Controller = {k1}
    None = None
    MaxQueue = 1
    MaxSocket = 1
    Ops <- MC_Ops
    MaxRequest <- MC_MaxRequest
    MaxEnquire = 1
INVARIANTS TypeOK OneResponseEach NoOtherStandstill
PROPERTY Answered
CHECK_DEADLOCK FALSE

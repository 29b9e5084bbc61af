CONSTANTS
  f1 = f1
  f2 = f2
  c1 = c1
  c2 = c2
  c3 = c3
  t1 = t1
  t2 = t2
  FD = {f1, f2}
  Conn = {c1, c2, c3}
  Thread = {t1, t2}
  None = None
  MaxQueue = 3
  CreateFails = {TRUE, FALSE}
SPECIFICATION FairSpec
INVARIANTS TypeOK OneClaim OpenIsClaimed JoinOnce DisconnectLast NoOtherStandstill
PROPERTIES ServiceSpec AcceptedServedOne ThreadJoinedOne
CHECK_DEADLOCK FALSE

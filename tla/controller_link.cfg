CONSTANTS
  f1 = f1
  f2 = f2
  f3 = f3
  c1 = c1
  c2 = c2
  l1 = l1
  l2 = l2
  i1 = i1
  FD = {f1, f2, f3}
  Client = {c1}
  Link = {l1, l2}
  Id = {}
  Main = Main
  Enq = Enq
  None = None
  MaxQueue = 1
  Direct = {TRUE}
  Reachable = {TRUE, FALSE}
  CreateFails = {TRUE, FALSE}
SPECIFICATION FairSpec
INVARIANTS LinkDenotesCenter LinkHeld
PROPERTY LinkRestored

CONSTANTS
  f1 = f1
  f2 = f2
  f3 = f3
  c1 = c1
  c2 = c2
  l1 = l1
  l2 = l2
  i1 = i1
  FD = {f1, f2}
  Client = {c1, c2}
  Link = {l1}
  Id = {i1}
  Main = Main
  Enq = Enq
  None = None
  MaxQueue = 1
  Direct = {TRUE, FALSE}
  Reachable = {FALSE}
  CreateFails = {TRUE, FALSE}
SPECIFICATION Spec
INVARIANTS TypeOK OneRowPerId StaleRowNoticed
PROPERTY UnbindsOnlyClosed

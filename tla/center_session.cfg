CONSTANTS
  f1 = f1
  f2 = f2
  c1 = c1
  c2 = c2
  i1 = i1
  i2 = i2
  FD = {f1, f2}
  Conn = {c1, c2}
  Id = {i1, i2}
  None = None
  MaxQueue = 1
  MaxWire = 1
  SqlFails = {TRUE, FALSE}
SPECIFICATION Spec
SYMMETRY Sym
INVARIANTS TypeOK EventOrigin RouteToBinder OneHandlerPerDescriptor
PROPERTY DropOnlyOwing

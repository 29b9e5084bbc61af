CONSTANTS
  p1 = p1
  p2 = p2
  Proc = {p1, p2}
  None = None
  MaxTerm = 2
  Stops = {TRUE, FALSE}
SPECIFICATION FairSpec
INVARIANTS TypeOK ChildrenWatched ServiceHasQueue
PROPERTIES ReplacedOne TermEndsBoth
CHECK_DEADLOCK FALSE

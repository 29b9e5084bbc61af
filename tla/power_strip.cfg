CONSTANTS
  t1 = t1
  t2 = t2
  w1 = w1
  p1 = p1
  p2 = p2
  Thread = {t1, t2}
  Wire = {w1}
  Port = {p1, p2}
  None = None
  Tries = 2
  MaxAir = 1
SPECIFICATION FairSpec
INVARIANT TypeOK
PROPERTIES StripSpec Answered

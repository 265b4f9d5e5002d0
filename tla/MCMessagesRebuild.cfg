SPECIFICATION Spec
CONSTANTS
  a1 = a1
  a2 = a2
  s1 = s1
  s2 = s2
  Actors = {a1, a2}
  Segments = {s1, s2}
  SegmentOf <- SegmentEach
  Chunks = {c1}
  Blocks = {b1}
  Cells = {k1}
  Msgs = {m1, m2, m3}
  CountSize = 8
  MaxWire = 1
  MaxParts = 2
  Reuse = {"rebuild"}
  None = None
CHECK_DEADLOCK FALSE
INVARIANTS HandleIsWhereItSays

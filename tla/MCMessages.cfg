SPECIFICATION Spec
CONSTANTS
  a1 = a1
  a2 = a2
  s1 = s1
  s2 = s2
  Actors = {a1, a2}
  Segments = {s1}
  SegmentOf <- OneSegment
  Chunks = {c1, c2}
  Blocks = {b1}
  Cells = {k1}
  Msgs = {m1, m2, m3}
  CountSize = 8
  MaxWire = 1
  MaxParts = 2
  Reuse = {}
  None = None
INVARIANTS
  MessagesTypeOK
  CountsAreExact
  BlockReturnedOnce
  OneCountPerBlock
PROPERTIES
  KeepsBlockLife
SYMMETRY Symmetry
CHECK_DEADLOCK FALSE

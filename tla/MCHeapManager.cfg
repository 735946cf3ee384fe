SPECIFICATION Spec
CONSTANTS
  RingSize = 2
  Addresses = {a1, a2, a3, a4}
  Null = Null
  Lengths = {1, 3}
  ShownWords = 3
  ShownChars = 4
  MaxAllocs = 4
  MaxResizes = 1
SYMMETRY Symmetry
INVARIANTS HandlerReads LiveTracked
CHECK_DEADLOCK FALSE

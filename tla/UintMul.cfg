SPECIFICATION Spec
CONSTANTS
  WordBits = 3
  ByteBits = 1
  Limbs = 3
  MantBytes = 2
  N = 3
  NibbleBits = 2
  Precision = 6
  Coarsest = 2
  Finest = 11
  EpsInverse = 16
  SumShift = 3
  HN = 2
  DN = 6
  DNibbleBits = 1
  RotA = 1
  RotB = 2
  Shl = 1
  Numbers <- MCNumbers
  Seconds <- MCSeconds
  Entries = {0, 1, 3}
  Leaves = {1, 2, 3, 4, 5, 6}
  CWordBits = 6
  CByteBits = 2
  CMantBytes = 2
INVARIANTS MulFlagExact
CHECK_DEADLOCK FALSE

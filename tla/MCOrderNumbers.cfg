SPECIFICATION Spec
CONSTANTS
  n1 = n1
  n2 = n2
  n3 = n3
  Calls = {n1, n2, n3}
  DayLength = 3
  KeyLife = 6
  MaxStall = 1
  MaxSkew = 1
  SequenceSpace = 3
  Horizon = 9
SYMMETRY Alike
INVARIANTS
  UniqueNumbers
  CounterKept
CHECK_DEADLOCK FALSE

SPECIFICATION HeapSpec
CONSTANTS
  Block = {r1, r2, r3, r4}
  Id = {1, 2}
  Serial = {zero, s1, s2}
  ZeroSerial = zero
  NULL = NULL
SYMMETRY MCSymmetry
VIEW MCView
INVARIANTS HeapTypeOK OneOwner ToldStayValid
PROPERTY ListIsSequence

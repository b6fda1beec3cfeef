SPECIFICATION Spec
CONSTANTS
  i1 = i1  i2 = i2
  None = None  Absent = Absent  Torn = Torn
  Intents <- MCIntents
  OfferedFee <- MCOfferedFee
  c1 = c1  c2 = c2
  Cycles <- MCCycles
  Capacity = 2
  MaxId = 2
  Top = 1
  MaxSplit = 1
INVARIANTS VectorsMatch EmbeddedIsIndexed
PROPERTY IdsAreFresh
SYMMETRY MCSymmetry

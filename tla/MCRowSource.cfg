CONSTANTS
  k1 = k1
  k2 = k2
  k3 = k3
  v1 = v1
  v2 = v2
  NoValue = NoValue
  Keys <- MCKeys
  Values <- MCValues
  Dimension <- MCDimension
  HotLimit = 1
  ColdLimit = 1
  Callers = {1, 2}
  Cases <- MCCases
SPECIFICATION Spec
INVARIANTS TypeOK CacheSound RowsDealt
PROPERTY CallsReturn

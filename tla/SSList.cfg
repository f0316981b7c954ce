\* Four elements, five keys.
SPECIFICATION Spec
CONSTANTS
  k1 = k1
  k2 = k2
  k3 = k3
  k4 = k4
  k5 = k5
  Keys = {k1, k2, k3, k4, k5}
  NoKey = nokey
  size = 4
  Garbage = {nokey}
  MaxInserts = 8
INVARIANTS ListSound QueriesBracket CountsAddUp
PROPERTY ImplementsSpaceSaving

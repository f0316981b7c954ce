\* New elements may hold a key of the stream: four elements, five keys.
SPECIFICATION Spec
CONSTANTS
  k1 = k1
  k2 = k2
  k3 = k3
  k4 = k4
  k5 = k5
  Keys = {k1, k2, k3, k4, k5}
  NoKey = nokey
  size = 4
  Garbage = {nokey, k1}
  MaxInserts = 8
PROPERTY ImplementsSpaceSaving

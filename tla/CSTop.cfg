\* Four keys in two buckets of the first layer and in one word of the second one, any
\* number of zeros, and one pause between the keys.
SPECIFICATION FairSpec
CONSTANTS
  Keys = {k1, k2, k3, k4}
  Zero = zero
  Stale = stale
  Buckets = {0, 1}
  bucket <- TwoBuckets
  Buckets2 = {0}
  lowbits <- DropTheBit
  Threshold1 = 1
  Threshold2 = 1
  DataDepth = 16
  Spacing = 3
  MaxKeys = 2
  MaxPauses = 1
  k1 = k1
  k2 = k2
  k3 = k3
  k4 = k4
  Start <- EarlierKeys
INVARIANTS Conserved NeverFull EscapesAreJustified
PROPERTY KeysLeave

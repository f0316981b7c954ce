\* Keys of one bucket at least four entries apart.
SPECIFICATION CSFairSpec
CONSTANTS
  Keys = {k1, k2, k3}
  Zero = zero
  Stale = stale
  Buckets = {0, 1}
  bucket <- TwoBuckets
  k3 = k3
  ErrorThreshold = 1
  DataDepth = 16
  InKeyAlf = {FALSE}
  Spacing = 3
  MaxKeys = 6
INVARIANT NeverFull
INVARIANT WordsSound
PROPERTIES ServesAsPromised KeysAreServed

\* Two keys of one bucket, as close together as the input allows.
SPECIFICATION CSSpec
CONSTANTS
  Keys = {k1, k2}
  Zero = zero
  Stale = stale
  Buckets = {0}
  bucket <- OneBucket
  k3 = k3
  ErrorThreshold = 1
  DataDepth = 16
  InKeyAlf = {FALSE}
  Spacing = 0
  MaxKeys = 6
INVARIANT EveryKeyCounted

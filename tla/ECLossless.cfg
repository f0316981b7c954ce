\* No filter threshold, two layers, no mirrored copy is lost.
SPECIFICATION FairSpec
CONSTANTS
  k1 = k1
  k2 = k2
  k3 = k3
  Keys = {k1, k2, k3}
  ZeroID = zero
  num_layers = 2
  length <- OneBucket
  max_col <- SmallMaxCol
  index <- AllCollide
  filter_length = 1
  index_cf <- CollideInFilter
  cf_threshold = 0
  MirrorMayDrop = FALSE
  MaxPackets = 9
\* The traffic of a run ends.
CHECK_DEADLOCK FALSE
INVARIANT ExhaustedIsAnnounced
PROPERTY ExhaustedGetsLocked

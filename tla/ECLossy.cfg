\* A filter with shared counters, two layers, mirrored copies may be lost.
SPECIFICATION Spec
CONSTANTS
  k1 = k1
  k2 = k2
  k3 = k3
  Keys = {k1, k2, k3}
  ZeroID = zero
  num_layers = 2
  length <- OneBucket
  max_col <- SmallMaxCol
  index <- AllCollide
  filter_length = 2
  index_cf <- SplitFilter
  cf_threshold = 2
  MirrorMayDrop = TRUE
  MaxPackets = 11
\* The traffic of a run ends.
CHECK_DEADLOCK FALSE
INVARIANTS TypeOK NoNegativeLead ShareCovered LeadSound LockedMeansExhausted NothingBelow AbsorbedBounded
PROPERTY LockedIsFinal

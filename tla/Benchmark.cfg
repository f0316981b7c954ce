\* Two rows of two columns, one heavy bucket of two counters, all hash functions.
SPECIFICATION Spec
CONSTANTS
  k0 = k0
  k1 = k1
  k2 = k2
  k3 = k3
  Keys = {k0, k1, k2, k3}
  ZeroKey = k0
  num_hash = 2
  row_size = 2
  HashRange = 2
  heavy_num_bkt = 1
  light_num_bkt = 2
  MAX_VALID_COUNTER = 2
  Lambda = 1
  LightMax = 3
  MaxLevels = 4
  RS_BUCKET_SIZE = 2
  Budgets = {0, 1, 2, 3, 5, 8, 13, 20, 21, 34}
  Thresholds = {0, 1, 2, 3, 5, 7, 10, 22}
  Rates <- SmallRates
  MaxStream = 8
SYMMETRY KeySymmetry
INVARIANT CountersSound
INVARIANT ElasticNeverInvents
INVARIANT ElasticSound
INVARIANT PipeSound
INVARIANT SampledSound
INVARIANT LevelsFitBudgets

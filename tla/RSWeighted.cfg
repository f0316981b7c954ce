\* The weighted insertion behind a filter.
SPECIFICATION WSpec
CONSTANTS
  Keys = {k0, k1}
  ZeroKey = k0
  rs_level = 1
  rs_row_size <- SmallRows
  rs_err_bound <- SmallBounds
  mf_n_hash = 2
  mf_row_size = 2
  mf_err_bound = 2
  KeyValue <- SmallValues
  Weights = {1, 5}
  MaxStream = 9
INVARIANT WeightedErrorWithinThreshold

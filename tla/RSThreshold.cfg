\* The levels construct_rs builds for a first threshold of 1 and r_l = 2.
SPECIFICATION Spec
CONSTANTS
  Keys = {k0, k1, k2, k3}
  ZeroKey = k0
  rs_level = 3
  rs_row_size <- TinyRows
  rs_err_bound <- TinyBounds
  mf_n_hash = 2
  mf_row_size = 0
  mf_err_bound = 3
  MaxStream = 8
INVARIANT ErrorWithinThreshold

\* A mice filter in front of two levels.
SPECIFICATION Spec
CONSTANTS
  Keys = {k0, k1, k2}
  ZeroKey = k0
  rs_level = 2
  rs_row_size <- FilterRows
  rs_err_bound <- FilterBounds
  mf_n_hash = 2
  mf_row_size = 2
  mf_err_bound = 2
  MaxStream = 11
SYMMETRY KeySymmetry
INVARIANTS TypeOK NeverUnderestimates LowerBoundSound RangeBounded HeavyHitterComplete

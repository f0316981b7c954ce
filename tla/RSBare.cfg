\* No filter, three levels, both insertions.
SPECIFICATION WSpec
CONSTANTS
  Keys = {k0, k1, k2, k3}
  ZeroKey = k0
  rs_level = 3
  rs_row_size <- BareRows
  rs_err_bound <- BareBounds
  mf_n_hash = 2
  mf_row_size = 0
  mf_err_bound = 3
  KeyValue <- NoValues
  Weights = {0, 2, 5}
  MaxStream = 9
INVARIANTS NeverUnderestimates LowerBoundSound NothingBelowTheStop NoDuplicateReport
INVARIANTS DropsAreVisible MixedRangeBounded
PROPERTY LockedIsFinal

\* Two overlapping calls; a process may end before it has indexed.
SPECIFICATION Spec
CONSTANTS
  Workers = {w1, w2}
  MaxRevision = 4
  MaxComments = 2
  MayCrash = TRUE
INVARIANTS
  NeverAhead
  LoneWorkRefreshes
SYMMETRY MCWorkerSymmetry
CHECK_DEADLOCK FALSE

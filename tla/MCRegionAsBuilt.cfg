\* inc_vma_limit as it is: it reports success and moves nothing.
SPECIFICATION Spec
CONSTANTS
  RgId = {r0, r1}
  Sizes = {1, 2}
  Rounding = {0}
  MaxBrk = 4
  AsBuilt = TRUE
INVARIANTS
  LiveApart
CHECK_DEADLOCK FALSE

\* Three regions of up to two bytes, rounding of zero or one, a break of at most 6.
SPECIFICATION Spec
CONSTANTS
  RgId = {r0, r1, r2}
  Sizes = {0, 1, 2}
  Rounding = {0, 1}
  MaxBrk = 6
  AsBuilt = FALSE
SYMMETRY RgSymmetry
INVARIANTS
  TypeOK
  NoOverlap
  NothingLost
PROPERTIES
  ImplementsAllocator

\* Two CPUs allocate at the same time, one from a cache (libmem.c:716 takes no lock).
SPECIFICATION Spec
CONSTANTS
  cpu0 = cpu0
  cpu1 = cpu1
  Thread = {cpu0, cpu1}
  Nobody = nobody
  NumRg = 2
  KRg = 1
  PoolId = {0}
  Shapes <- OneShape
  Sizes = {2}
  Rounding = {0}
  MaxBrk = 11
  PageSz = 2
  UserPageSz = 2
  RamFree <- Frames
  Copies <- SomeCopies
  OpsOf <- OnlyCaches
  Alone = FALSE
  OneMm = TRUE
  None = none
  Swapped = swapped
INVARIANTS
  NoOverlap

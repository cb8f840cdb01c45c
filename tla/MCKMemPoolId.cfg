\* A pool takes the entry of a region that a process has from __kmalloc (libmem.c:637).
SPECIFICATION Spec
CONSTANTS
  cpu0 = cpu0
  cpu1 = cpu1
  Thread = {cpu0, cpu1}
  Nobody = nobody
  NumRg = 2
  KRg = 1
  PoolId = {1}
  Shapes <- OneShape
  Sizes = {2}
  Rounding = {0}
  MaxBrk = 7
  PageSz = 2
  UserPageSz = 2
  RamFree <- Frames
  Copies <- SomeCopies
  OpsOf <- KernelOnly
  Alone = TRUE
  OneMm = FALSE
  None = none
  Swapped = swapped
PROPERTIES
  PoolLeavesRegions

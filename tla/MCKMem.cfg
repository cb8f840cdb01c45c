\* Two CPUs, two registers, one pool of three bytes aligned to two, pages of two bytes,
\* three frames of which __kmalloc gets frame 0 first.
SPECIFICATION Spec
CONSTANTS
  cpu0 = cpu0
  cpu1 = cpu1
  Thread = {cpu0, cpu1}
  Nobody = nobody
  NumRg = 2
  KRg = 1
  PoolId = {0}
  Shapes <- OneShape
  Sizes = {2}
  Rounding = {0}
  MaxBrk = 7
  PageSz = 2
  UserPageSz = 2
  RamFree <- Frames
  Copies <- SomeCopies
  OpsOf <- OneCopies
  Alone = TRUE
  OneMm = TRUE
  None = none
  Swapped = swapped
INVARIANTS
  TypeOK
  NoOverlap
  NothingLost
  FramesKnown
  SlotWhole
  CopyInside
PROPERTIES
  CallsReturn

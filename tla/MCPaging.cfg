\* Two threads, three pages of which the first is never mapped, two frames of RAM to
\* map, up to two in swap; every access is locked.
SPECIFICATION Spec
CONSTANTS
  Thread = {cpu0, cpu1}
  Nobody = nobody
  Page = {1, 2, 3}
  Given = {1}
  NoPage = 0
  Val = {zero, one}
  Zero = zero
  RamFrame <- RamFrames
  SwpFrame <- SwpFrames
  RamFree <- RamList
  SwpFree <- SwpList
  Ops = {"__read_user_mem", "__write_user_mem", "__write"}
  Running = {cpu0, cpu1}
  KeepsPresent = FALSE
  Unmapped = unmapped
  NoCall = nocall
  Pending = pending
  Done = done
  Failed = failed
INVARIANTS
  TypeOK
  RamOwned
  SwapOwned
  FifoExact
  FrameIsPages
PROPERTIES
  ImplementsMemory
  LockReleased

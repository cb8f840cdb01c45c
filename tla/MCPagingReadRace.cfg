\* __read takes no lock, __write does.  The model ends where a __read has a page fault.
SPECIFICATION SafeSpec
CONSTANTS
  Thread = {cpu0, cpu1}
  Nobody = nobody
  Page = {1, 2, 3}
  Given = {1}
  NoPage = 0
  Val = {zero, one}
  Zero = zero
  RamFrame <- RamFrames
  SwpFrame <- SwpFrames
  RamFree <- RamList
  SwpFree <- SwpList
  Ops = {"__read", "__write"}
  Running = {cpu0, cpu1}
  KeepsPresent = FALSE
  Unmapped = unmapped
  NoCall = nocall
  Pending = pending
  Done = done
  Failed = failed
INVARIANTS
  FrameIsPages
CHECK_DEADLOCK FALSE

\* pte_set_swap as it is: a page in swap is PRESENT.
SPECIFICATION Spec
CONSTANTS
  Thread = {cpu0, cpu1}
  Nobody = nobody
  Page = {1, 2, 3}
  Given = {1}
  NoPage = 0
  Val = {zero, one}
  Zero = zero
  RamFrame <- RamFrames
  SwpFrame <- SwpFrames
  RamFree <- RamList
  SwpFree <- SwpList
  Ops = {"__read_user_mem", "__write_user_mem", "__write"}
  Running = {cpu0, cpu1}
  KeepsPresent = TRUE
  Unmapped = unmapped
  NoCall = nocall
  Pending = pending
  Done = done
  Failed = failed
PROPERTIES
  ImplementsMemory

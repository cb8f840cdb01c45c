\* A CPU left idle never stops (os.c:65).
SPECIFICATION Spec
CONSTANTS
  Cpu = {cpu0, cpu1}
  Ld = ld
  Nobody = nobody
  NumProcesses = 4
  Size <- Sizes
  StartTime <- Starts
  TimeSlot = 2
  AsBuilt = FALSE
  Horizon = 4
PROPERTIES
  CpusStop

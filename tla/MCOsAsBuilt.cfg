\* The scheduler of the repository as it is: the lock is never released.
SPECIFICATION Spec
CONSTANTS
  Cpu = {cpu0, cpu1}
  Ld = ld
  Nobody = nobody
  NumProcesses = 4
  Size <- Sizes
  StartTime <- Starts
  TimeSlot = 2
  AsBuilt = TRUE
  Horizon = 4
PROPERTIES
  SomeFinishes
CHECK_DEADLOCK FALSE

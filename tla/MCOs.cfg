\* Three CPUs share four processes with a quantum of two slots.
SPECIFICATION Spec
CONSTANTS
  Cpu = {cpu0, cpu1, cpu2}
  Ld = ld
  Nobody = nobody
  NumProcesses = 4
  Size <- Sizes
  StartTime <- Starts
  TimeSlot = 2
  AsBuilt = FALSE
  Horizon = 4
INVARIANTS
  TypeOK
  OnePlace
  FullQuantum
  NotBeforeStart
  NoneAbandoned
  IdleOnlyForNew
  IInv
PROPERTIES
  OncePerSlot
  AllFinish

\* timer.c, safety and liveness, and its refinement of the slot clock: three
\* devices, two slots each.
SPECIFICATION Spec
CONSTANTS
  Device = {cpu0, cpu1, ld}
  MaxSlot = 2
INVARIANTS
  TypeOK
  NoTickWhileWorking
  NoDoneRace
  Lockstep
  TimerEndsLast
  NoLostWakeup
  IInv
PROPERTIES
  TimeStep
  NextSlotReturns
  Ends
  ImplementsClock

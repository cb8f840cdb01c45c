-------------------------------- MODULE Timer --------------------------------
(***************************************************************************)
(* timer.c: the timer thread, the devices attached to it (the CPUs and the *)
(* loader of os.c, each a thread) and the main thread that attaches them,  *)
(* starts the timer, joins the devices and stops the timer.                *)
(*                                                                         *)
(* Every device has two mutexes, each with a condition variable.  done is  *)
(* set by the device under event_lock and cleared by the timer under       *)
(* timer_lock: no single mutex protects it.  A step here is a mutex        *)
(* acquisition, or a critical section up to the unlock or to the           *)
(* pthread_cond_wait that ends it; a waiter is woken by a signal or        *)
(* spuriously, as POSIX allows, and must reacquire its mutex.              *)
(*                                                                         *)
(* Definitions marked "mutant" are wrong on purpose and no action uses     *)
(* them: the checks put one in the place of the definition that follows    *)
(* it, to see the property fail.                                           *)
(***************************************************************************)
EXTENDS Naturals, Sequences

CONSTANTS Device,   \* the threads attached to the timer
          MaxSlot   \* bound: a device detaches at slot MaxSlot at the latest

ASSUME DeviceAssumption == Device # {}   \* main always attaches the loader
ASSUME MaxSlotAssumption == MaxSlot \in Nat

VARIABLES
  dev_list,                  \* the attached devices, in the timer's order
  done, fsh,                 \* the two flags of a timer_id_t
  event_lock, timer_lock,    \* its mutexes: "free", or held by "device" or "timer"
  time,                      \* _time
  timer_started, timer_stop,
  tpc, temp, nfsh, nevent,   \* timer_routine: control, cursor, locals fsh and event
  dpc,                       \* dpc[d]: the control state of device d
  slot                       \* history: the time slots d has completed

listVars == <<dev_list, timer_started, timer_stop>>
timerVars == <<tpc, temp, nfsh, nevent, time>>
deviceVars == <<dpc, slot>>
vars == <<dev_list, done, fsh, event_lock, timer_lock, time, timer_started,
          timer_stop, tpc, temp, nfsh, nevent, dpc, slot>>

TimerPC == {"off", "check", "collect", "test", "wait", "woken",
            "tick", "release", "clear", "exit"}
DevicePC == {"unattached", "work", "setdone", "locktimer", "testdone",
             "wait", "woken", "setfsh", "exit"}

Init ==
  /\ dev_list = <<>>
  /\ done = [d \in Device |-> FALSE]
  /\ fsh = [d \in Device |-> FALSE]
  /\ event_lock = [d \in Device |-> "free"]
  /\ timer_lock = [d \in Device |-> "free"]
  /\ time = 0
  /\ timer_started = FALSE
  /\ timer_stop = FALSE
  /\ tpc = "off" /\ temp = 1 /\ nfsh = 0 /\ nevent = 0
  /\ dpc = [d \in Device |-> "unattached"]
  /\ slot = [d \in Device |-> 0]

Move(d, to) == dpc' = [dpc EXCEPT ![d] = to]

\* The device the cursor temp stands at.
Cur == dev_list[temp]
\* mutant of AtEnd: the walk stops one device short.
SkipsLast == temp >= Len(dev_list)
\* temp == NULL
AtEnd == temp > Len(dev_list)

\* mutant of Reported: the wait does not look at fsh.
IgnoresFsh(d) == done[d]
\* What the timer waits for at a device.
Reported(d) == done[d] \/ fsh[d]
\* mutant of Released: next_slot does not wait.
NotAwaited(d) == TRUE
\* What a device waits for in next_slot.
Released(d) == ~done[d]

\* mutant of AllFinished: one finished device is enough.
SomeFinished == nfsh > 0
\* The test that ends the timer thread.
AllFinished == nfsh = nevent

-----------------------------------------------------------------------------
(* The main thread *)

AttachEvent(d) ==
  /\ ~timer_started
  /\ dpc[d] = "unattached"
  /\ dev_list' = <<d>> \o dev_list
  /\ Move(d, "work")
  /\ UNCHANGED <<done, fsh, event_lock, timer_lock, timer_started, timer_stop,
                 timerVars, slot>>

\* main starts the timer when every device is attached; the device threads
\* are created after that.
StartTimer ==
  /\ ~timer_started
  /\ \A d \in Device : dpc[d] # "unattached"
  /\ timer_started' = TRUE
  /\ tpc' = "check"
  /\ UNCHANGED <<dev_list, done, fsh, event_lock, timer_lock, timer_stop,
                 time, temp, nfsh, nevent, deviceVars>>

\* main has joined the device threads.
StopTimer ==
  /\ timer_started /\ ~timer_stop
  /\ \A d \in Device : dpc[d] = "exit"
  /\ timer_stop' = TRUE
  /\ UNCHANGED <<dev_list, done, fsh, event_lock, timer_lock, timer_started,
                 timerVars, deviceVars>>

\* ... and then the timer thread: destroy and free the list.
FreeDevices ==
  /\ timer_stop /\ tpc = "exit"
  /\ dev_list # <<>>
  /\ dev_list' = <<>>
  /\ UNCHANGED <<done, fsh, event_lock, timer_lock, timer_started, timer_stop,
                 timerVars, deviceVars>>

-----------------------------------------------------------------------------
(* timer_routine *)

\* mutant of BeginSlot: the cursor starts before the first device.
StartsBeforeList ==
  /\ tpc = "check"
  /\ tpc' = IF timer_stop THEN "exit" ELSE "collect"
  /\ temp' = 0 /\ nfsh' = 0 /\ nevent' = 0
  /\ UNCHANGED <<listVars, done, fsh, event_lock, timer_lock, time, deviceVars>>

BeginSlot ==
  /\ tpc = "check"
  /\ tpc' = IF timer_stop THEN "exit" ELSE "collect"
  /\ temp' = 1 /\ nfsh' = 0 /\ nevent' = 0
  /\ UNCHANGED <<listVars, done, fsh, event_lock, timer_lock, time, deviceVars>>

LockEvent ==
  /\ \/ tpc = "collect" /\ ~AtEnd
     \/ tpc = "woken"
  /\ event_lock[Cur] = "free"
  /\ event_lock' = [event_lock EXCEPT ![Cur] = "timer"]
  /\ tpc' = "test"
  /\ UNCHANGED <<listVars, done, fsh, timer_lock, time, temp, nfsh, nevent, deviceVars>>

WaitEvent ==
  /\ tpc = "test"
  /\ ~Reported(Cur)
  /\ event_lock' = [event_lock EXCEPT ![Cur] = "free"]
  /\ tpc' = "wait"
  /\ UNCHANGED <<listVars, done, fsh, timer_lock, time, temp, nfsh, nevent, deviceVars>>

CountEvent ==
  /\ tpc = "test"
  /\ Reported(Cur)
  /\ nfsh' = IF fsh[Cur] THEN nfsh + 1 ELSE nfsh
  /\ nevent' = nevent + 1
  /\ event_lock' = [event_lock EXCEPT ![Cur] = "free"]
  /\ temp' = temp + 1
  /\ tpc' = "collect"
  /\ UNCHANGED <<listVars, done, fsh, timer_lock, time, deviceVars>>

EndCollect ==
  /\ tpc = "collect" /\ AtEnd
  /\ tpc' = "tick"
  /\ UNCHANGED <<listVars, done, fsh, event_lock, timer_lock, time, temp, nfsh,
                 nevent, deviceVars>>

Tick ==
  /\ tpc = "tick"
  /\ time' = time + 1
  /\ temp' = 1
  /\ tpc' = "release"
  /\ UNCHANGED <<listVars, done, fsh, event_lock, timer_lock, nfsh, nevent, deviceVars>>

LockTimer ==
  /\ tpc = "release" /\ ~AtEnd
  /\ timer_lock[Cur] = "free"
  /\ timer_lock' = [timer_lock EXCEPT ![Cur] = "timer"]
  /\ tpc' = "clear"
  /\ UNCHANGED <<listVars, done, fsh, event_lock, time, temp, nfsh, nevent, deviceVars>>

ClearDone ==
  /\ tpc = "clear"
  /\ done' = [done EXCEPT ![Cur] = FALSE]
  /\ IF dpc[Cur] = "wait" THEN Move(Cur, "woken") ELSE dpc' = dpc
  /\ timer_lock' = [timer_lock EXCEPT ![Cur] = "free"]
  /\ temp' = temp + 1
  /\ tpc' = "release"
  /\ UNCHANGED <<listVars, fsh, event_lock, time, nfsh, nevent, slot>>

EndSlot ==
  /\ tpc = "release" /\ AtEnd
  /\ tpc' = IF AllFinished THEN "exit" ELSE "check"
  /\ UNCHANGED <<listVars, done, fsh, event_lock, timer_lock, time, temp, nfsh,
                 nevent, deviceVars>>

SpuriousTimer ==
  /\ tpc = "wait"
  /\ tpc' = "woken"
  /\ UNCHANGED <<listVars, done, fsh, event_lock, timer_lock, time, temp, nfsh,
                 nevent, deviceVars>>

-----------------------------------------------------------------------------
(* A device thread *)

\* The device's own work ends in a call of next_slot ("setdone") or of
\* detach_event ("setfsh"), which both lock event_lock first.
LockOwnEvent(d) ==
  /\ timer_started /\ dpc[d] = "work"
  /\ event_lock[d] = "free"
  /\ event_lock' = [event_lock EXCEPT ![d] = "device"]
  /\ \/ slot[d] < MaxSlot /\ Move(d, "setdone")
     \/ Move(d, "setfsh")
  /\ UNCHANGED <<listVars, done, fsh, timer_lock, timerVars, slot>>

\* mutant of SignalEvent: the device unlocks without a signal.
UnlockOnly(d) == tpc' = tpc /\ event_lock' = [event_lock EXCEPT ![d] = "free"]

\* pthread_cond_signal(event_cond) and unlock.
SignalEvent(d) ==
  /\ tpc' = IF tpc = "wait" /\ Cur = d THEN "woken" ELSE tpc
  /\ event_lock' = [event_lock EXCEPT ![d] = "free"]

SetDone(d) ==
  /\ dpc[d] = "setdone"
  /\ done' = [done EXCEPT ![d] = TRUE]
  /\ SignalEvent(d)
  /\ Move(d, "locktimer")
  /\ UNCHANGED <<listVars, fsh, timer_lock, time, temp, nfsh, nevent, slot>>

SetFsh(d) ==
  /\ dpc[d] = "setfsh"
  /\ fsh' = [fsh EXCEPT ![d] = TRUE]
  /\ SignalEvent(d)
  /\ Move(d, "exit")
  /\ UNCHANGED <<listVars, done, timer_lock, time, temp, nfsh, nevent, slot>>

LockOwnTimer(d) ==
  /\ dpc[d] \in {"locktimer", "woken"}
  /\ timer_lock[d] = "free"
  /\ timer_lock' = [timer_lock EXCEPT ![d] = "device"]
  /\ Move(d, "testdone")
  /\ UNCHANGED <<listVars, done, fsh, event_lock, timerVars, slot>>

WaitSlot(d) ==
  /\ dpc[d] = "testdone" /\ ~Released(d)
  /\ timer_lock' = [timer_lock EXCEPT ![d] = "free"]
  /\ Move(d, "wait")
  /\ UNCHANGED <<listVars, done, fsh, event_lock, timerVars, slot>>

ReturnFromSlot(d) ==
  /\ dpc[d] = "testdone" /\ Released(d)
  /\ timer_lock' = [timer_lock EXCEPT ![d] = "free"]
  /\ Move(d, "work")
  /\ slot' = [slot EXCEPT ![d] = @ + 1]
  /\ UNCHANGED <<listVars, done, fsh, event_lock, timerVars>>

SpuriousDevice(d) ==
  /\ dpc[d] = "wait"
  /\ Move(d, "woken")
  /\ UNCHANGED <<listVars, done, fsh, event_lock, timer_lock, timerVars, slot>>

-----------------------------------------------------------------------------
MainStep == StartTimer \/ StopTimer \/ FreeDevices \/ \E d \in Device : AttachEvent(d)

TimerStep ==
  \/ BeginSlot \/ LockEvent \/ WaitEvent \/ CountEvent \/ EndCollect
  \/ Tick \/ LockTimer \/ ClearDone \/ EndSlot

DeviceStep(d) ==
  \/ LockOwnEvent(d) \/ SetDone(d) \/ SetFsh(d)
  \/ LockOwnTimer(d) \/ WaitSlot(d) \/ ReturnFromSlot(d)

Spurious == SpuriousTimer \/ \E d \in Device : SpuriousDevice(d)

\* The simulator is over: main has freed the list and returns.
Finished == timer_stop /\ dev_list = <<>>
Terminated == Finished /\ UNCHANGED vars

Next ==
  MainStep \/ TimerStep \/ (\E d \in Device : DeviceStep(d)) \/ Spurious \/ Terminated

SafeSpec == Init /\ [][Next]_vars

\* Every thread runs, and spurious wake-ups do not go on for ever.
Spec ==
  /\ SafeSpec
  /\ WF_vars(MainStep) /\ WF_vars(TimerStep)
  /\ \A d \in Device : WF_vars(DeviceStep(d))
  /\ <>[][~Spurious]_vars

-----------------------------------------------------------------------------
(* Properties *)

TypeOK ==
  /\ dev_list \in Seq(Device)
  /\ done \in [Device -> BOOLEAN] /\ fsh \in [Device -> BOOLEAN]
  /\ event_lock \in [Device -> {"free", "device", "timer"}]
  /\ timer_lock \in [Device -> {"free", "device", "timer"}]
  /\ time \in Nat /\ timer_started \in BOOLEAN /\ timer_stop \in BOOLEAN
  /\ tpc \in TimerPC /\ temp \in Nat \ {0} /\ nfsh \in Nat /\ nevent \in Nat
  /\ dpc \in [Device -> DevicePC]
  /\ slot \in [Device -> Nat]

Working == {"work", "setdone", "setfsh"}
Parked == {"locktimer", "testdone", "wait", "woken"}

\* _time is read without a lock by current_time (the loader's wait for a start
\* time): the increment must never be enabled while a device works.
NoTickWhileWorking == tpc = "tick" => \A d \in Device : dpc[d] \notin Working

\* done is written by the device under event_lock and by the timer under
\* timer_lock: the two writes must never be enabled together.
NoDoneRace ==
  \A d \in Device : ~(dpc[d] = "setdone" /\ tpc = "clear" /\ Cur = d)

\* A device works in every slot exactly once: when it works it has completed
\* as many slots as the clock has counted, and it is never more than one behind.
Lockstep ==
  \A d \in Device :
    /\ dpc[d] \in Working => slot[d] = time
    /\ dpc[d] \in Parked => slot[d] \in {time, time - 1}

\* The timer thread ends only after every device has detached: the counts of
\* timer_routine never match while a device still needs the clock.
TimerEndsLast == tpc = "exit" => \A d \in Device : fsh[d]

\* No lost wake-up: whoever sleeps on a condition variable still waits for what
\* its signaller has yet to do.
NoLostWakeup ==
  /\ tpc = "wait" => ~done[Cur] /\ ~fsh[Cur]
  /\ \A d \in Device : dpc[d] = "wait" => done[d]

\* The slots of a device that ran to the end are the slots it was alive for:
\* time only grows, one slot at a time, and never while a next_slot of an
\* earlier slot has not returned.
TimeStep ==
  [][time' # time => /\ time' = time + 1
                     /\ \A d \in Device : ~fsh[d] => slot[d] = time]_vars

\* next_slot returns, and the simulator ends.
NextSlotReturns == \A d \in Device : dpc[d] = "locktimer" ~> dpc[d] = "work"
Ends == <>Finished

-----------------------------------------------------------------------------
(* timer.c implements the slot clock. *)

\* A device that still waits although time has moved on is released: its done
\* is clear, or the timer has yet to clear it.
ModeOf(d) ==
  CASE dpc[d] = "exit" -> "left"
    [] dpc[d] \in Parked -> IF slot[d] = time THEN "parked" ELSE "released"
    [] OTHER -> "work"

Clock == INSTANCE SlotClock WITH mode <- [d \in Device |-> ModeOf(d)]

\* The threads of timer.c, with their mutexes and condition variables, show
\* their clients the behaviour of the slot clock, its progress included.
ImplementsClock == Clock!Spec
=============================================================================

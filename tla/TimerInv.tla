------------------------------ MODULE TimerInv ------------------------------
(***************************************************************************)
(* The inductive invariant of Timer.  The safety properties of Timer are   *)
(* not inductive by themselves: they follow from where the timer's cursor  *)
(* stands, from who holds which mutex, and from which devices the timer    *)
(* has already counted and not yet released.                               *)
(***************************************************************************)
EXTENDS Timer

Collecting == {"collect", "test", "wait", "woken"}
Releasing == {"release", "clear"}

\* The list holds each attached device once; nothing runs before start_timer,
\* and main stops the timer after every device has detached.
ListOK ==
  /\ \A i, j \in DOMAIN dev_list : dev_list[i] = dev_list[j] => i = j
  /\ ~Finished =>
       \A d \in Device : dpc[d] # "unattached" <=> \E i \in DOMAIN dev_list : dev_list[i] = d
  /\ IF timer_started THEN tpc # "off" /\ \A d \in Device : dpc[d] # "unattached"
                      ELSE /\ tpc = "off" /\ time = 0
                           /\ \A d \in Device : dpc[d] \in {"unattached", "work"}
  /\ timer_stop => timer_started /\ \A d \in Device : dpc[d] = "exit"
  /\ Finished => tpc = "exit"

\* Where the cursor is.
CursorOK ==
  /\ tpc \in {"test", "wait", "woken", "clear"} => temp <= Len(dev_list)
  /\ tpc \in {"collect", "release"} => temp <= Len(dev_list) + 1
  /\ tpc = "tick" => AtEnd

\* Who holds which mutex.
LockOK ==
  \A d \in Device :
    /\ event_lock[d] = "device" <=> dpc[d] \in {"setdone", "setfsh"}
    /\ event_lock[d] = "timer" <=> tpc = "test" /\ Cur = d
    /\ timer_lock[d] = "device" <=> dpc[d] = "testdone"
    /\ timer_lock[d] = "timer" <=> tpc = "clear" /\ Cur = d

\* The timer has counted d in the current round and has not released it yet.
Pending(d) ==
  \/ tpc \in Collecting /\ \E i \in DOMAIN dev_list : i < temp /\ dev_list[i] = d
  \/ tpc = "tick"
  \/ tpc \in Releasing /\ \E i \in DOMAIN dev_list : i >= temp /\ dev_list[i] = d

\* Time has moved on, and d has not been released into the new slot.
Late(d) == tpc \in Releasing /\ Pending(d)

\* Flags and slots of a device agree with its control state.
DeviceOK ==
  \A d \in Device :
    /\ fsh[d] <=> dpc[d] = "exit"
    /\ done[d] => dpc[d] \in Parked
    /\ dpc[d] = "wait" => done[d]
    /\ Pending(d) => done[d] \/ fsh[d]
    /\ dpc[d] = "unattached" => slot[d] = 0
    /\ dpc[d] \in Working => slot[d] = time
    /\ dpc[d] \in Parked =>
         slot[d] = IF done[d] /\ ~Late(d) THEN time ELSE time - 1
    /\ tpc = "wait" /\ Cur = d => ~done[d] /\ ~fsh[d]

\* The counts of timer_routine agree only when every device counted is finished.
CountOK ==
  /\ nfsh <= nevent
  /\ tpc \in Collecting /\ nfsh = nevent =>
       \A i \in DOMAIN dev_list : i < temp => fsh[dev_list[i]]
  /\ tpc \in {"tick"} \cup Releasing /\ nfsh = nevent => \A d \in Device : fsh[d]
  /\ tpc = "exit" => \A d \in Device : fsh[d]

\* The inductive invariant: it relates the timer's progress along the device
\* list to the flags, mutexes and slots of every device.
IInv == TypeOK /\ ListOK /\ CursorOK /\ LockOK /\ DeviceOK /\ CountOK
=============================================================================

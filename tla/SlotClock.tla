------------------------------ MODULE SlotClock ------------------------------
(***************************************************************************)
(* What timer.c promises its clients: a clock that runs in lockstep with   *)
(* the devices attached to it (the CPUs and the loader of os.c).  A device *)
(* works in the current time slot, then parks until the next one           *)
(* (next_slot) or leaves for good (detach_event).  The clock advances only *)
(* when everybody has parked or left, and the advance releases every       *)
(* parked device into the new slot, which each enters when its next_slot   *)
(* returns.  How the promise is kept, with mutexes and condition           *)
(* variables, is module Timer; module Os is written against this one.      *)
(***************************************************************************)
EXTENDS Naturals

CONSTANT Device   \* the threads attached to the timer

VARIABLES time,   \* _time
          mode    \* mode[d]: "work", "parked" or "released" in next_slot, or "left"

clockVars == <<time, mode>>

Init == time = 0 /\ mode = [d \in Device |-> "work"]

\* next_slot: the device has done its job in the current slot.
Park(d) == mode[d] = "work" /\ mode' = [mode EXCEPT ![d] = "parked"]

\* detach_event
Leave(d) == mode[d] = "work" /\ mode' = [mode EXCEPT ![d] = "left"]

\* next_slot returns.
Resume(d) == mode[d] = "released" /\ mode' = [mode EXCEPT ![d] = "work"]

\* Everybody has parked or left: all who have parked may go on.
Release ==
  /\ \A d \in Device : mode[d] \in {"parked", "left"}
  /\ mode' = [d \in Device |-> IF mode[d] = "parked" THEN "released" ELSE "left"]

Tick == Release /\ time' = time + 1

DeviceStep(d) == (Park(d) \/ Leave(d) \/ Resume(d)) /\ UNCHANGED time

Next == Tick \/ \E d \in Device : DeviceStep(d)

SafeSpec == Init /\ [][Next]_clockVars

\* The clock serves whoever waits for it: a tick for a parked device and the
\* return of next_slot are not put off for ever.
Spec ==
  /\ SafeSpec
  /\ WF_clockVars(Tick /\ \E d \in Device : mode[d] = "parked")
  /\ \A d \in Device : WF_clockVars(Resume(d) /\ UNCHANGED time)
=============================================================================

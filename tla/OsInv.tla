--------------------------------- MODULE OsInv ---------------------------------
(***************************************************************************)
(* The inductive invariants of Os: IInv for a scheduler as its TODO        *)
(* comments ask for (AsBuilt = FALSE), Stuck for it as it is.  MCOs checks *)
(* IInv, OsProofs proves both.                                             *)
(***************************************************************************)
EXTENDS Os

\* OnePlace, said without counting.
PlaceOK ==
  \A p \in Process :
    /\ p < next <=> p \in ready \/ p \in freed \/ \E c \in Cpu : Holds(c, p)
    /\ p \notin ready \/ p \notin freed
    /\ \A c \in Cpu : Holds(c, p) =>
         p \notin ready /\ p \notin freed /\ \A d \in Cpu : Holds(d, p) => c = d

\* Where a CPU has a process, and where it may wait for the next slot
ControlOK ==
  \A c \in Cpu :
    /\ cpc[c] \in {"get_idle", "stopped"} => proc[c] = NULL
    /\ cpc[c] \in {"put", "run"} => proc[c] # NULL
    /\ mode[c] \in {"parked", "released"} => cpc[c] = "top"
    /\ mode[c] = "left" <=> cpc[c] = "stopped"

\* A CPU that has its process in this slot: the slots it has had and the slots it
\* has left make a quantum.
InQuantum(c) ==
  proc[c] # NULL /\ (cpc[c] \in {"top", "put", "run"} \/ (cpc[c] = "check" /\ time_left[c] # 0))

QuantumOK ==
  \A c \in Cpu :
    /\ proc[c] = NULL \/ cpc[c] \in {"put", "get"} => time_left[c] = 0
    /\ InQuantum(c) => used[proc[c]] + time_left[c] = TimeSlot

\* A process that has run in this slot is on a CPU that waits for the next one.
RanOK ==
  \A p \in ran : \E c \in Cpu : proc[c] = p /\ cpc[c] = "top" /\ mode[c] = "parked"

\* What is loaded was due, and nothing else has run.
StartOK ==
  \A p \in Process :
    /\ p < next => StartTime[p] <= time
    /\ pc[p] > 0 => p < next

\* A CPU that has found the queue empty and will stop if done is set.
GivesUp(c) == cpc[c] = "stopped" \/ (cpc[c] = "check" /\ proc[c] = NULL)

\* As long as something is queued some CPU goes on.  The loader may queue a process
\* behind the back of CPUs that give up, but then done is not set in this slot.
StopOK ==
  /\ done <=> mode[Ld] = "left"
  /\ done => next = NumProcesses + 1
  /\ \A c \in Cpu : cpc[c] = "stopped" => done
  /\ ready # {} /\ mode[Ld] # "parked" => \E c \in Cpu : ~GivesUp(c)

\* An idle CPU that has not yet stopped or skipped the slot, or is skipping it
Idles(c) == proc[c] = NULL /\ (cpc[c] = "check" \/ mode[c] = "parked")

\* Whoever idles has seen the queue empty in this slot.  Since then a CPU that puts
\* a process back is about to take one, and the loader adds at most one.
IdleOK ==
  (\E c \in Cpu : Idles(c)) =>
    Cardinality(ready) <= Cardinality({c \in Cpu : cpc[c] = "get"})
                          + (IF mode[Ld] = "parked" THEN 1 ELSE 0)

\* os.c: the invariant from which the safety properties of Os follow; it ties the
\* place of each process, its quantum and the flag done to the control of the CPUs.
IInv ==
  /\ TypeOK /\ queue_lock = Nobody
  /\ PlaceOK /\ ControlOK /\ QuantumOK /\ RanOK /\ StartOK /\ StopOK /\ IdleOK

-----------------------------------------------------------------------------
(* A quantum of zero: time_left is -1 after the first slot and 0 never again. *)

\* A process that is back at the head of the loop has had a slot.
HadSlot == \A c \in Cpu : cpc[c] = "top" /\ proc[c] # NULL => used[proc[c]] > 0

\* A CPU never puts its process back, and takes another one when it is finished.
NeverPutBack == \A c \in Cpu : cpc[c] # "put" /\ (cpc[c] = "get" => Finished(proc[c]))

\* The CPU that runs a process first runs it to its end.
RunsToEnd ==
  [][\A c \in Cpu : proc[c] # NULL /\ proc'[c] # proc[c] => Finished(proc[c])]_vars

-----------------------------------------------------------------------------
(* The scheduler as built (AsBuilt = TRUE) *)

\* Nothing gets into the queue or out of it, and no CPU gets past get_proc.
NothingRuns ==
  /\ ready = {} /\ freed = {} /\ ran = {}
  /\ \A c \in Cpu : cpc[c] \in {"top", "get_idle"} /\ proc[c] = NULL
  /\ \A p \in Process : pc[p] = 0

\* The one CPU that has had queue_lock waits for the end of the slot, the others wait
\* for the lock; if the slot ends all the same, the one waits for itself in the next.
LockKept ==
  \/ /\ time = 0
     /\ \A c \in Cpu : mode[c] = IF queue_lock = c THEN "parked" ELSE "work"
  \/ /\ time <= 1 /\ queue_lock # Nobody
     /\ \A c \in Cpu : mode[c] \in {"released", "work"}

\* What the scheduler as built lets happen.
Stuck == TypeOK /\ NothingRuns /\ LockKept
=============================================================================

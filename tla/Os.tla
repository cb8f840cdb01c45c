---------------------------------- MODULE Os ----------------------------------
(***************************************************************************)
(* os.c: the CPU threads (cpu_routine) and the loader thread (ld_routine)  *)
(* over the slot clock of timer.c and the multilevel queue of sched.c.     *)
(*                                                                         *)
(* sched.c and queue.c are stubs in this repository: get_mlq_proc takes    *)
(* queue_lock, never releases it and returns NULL; enqueue does nothing.   *)
(* AsBuilt = TRUE is that code.  AsBuilt = FALSE is what its TODO comments *)
(* ask for and its callers assume: enqueue adds, get_mlq_proc takes some   *)
(* queued process (which one is the policy: any) and releases the lock.    *)
(*                                                                         *)
(* Definitions marked "mutant" are wrong on purpose and no action uses     *)
(* them: the checks put one in the place of the definition that follows    *)
(* it, to see the property fail.                                           *)
(***************************************************************************)
EXTENDS Integers, FiniteSets

CONSTANTS
  Cpu, Ld,      \* the CPU threads and the loader thread
  Nobody,       \* the holder of a free lock
  NumProcesses, \* processes 1 .. NumProcesses, in the order of the config file
  Size,         \* Size[p]: proc->code->size
  StartTime,    \* StartTime[p]: when the loader may add p
  TimeSlot,     \* time_slot, the quantum
  AsBuilt,
  Horizon       \* bound: time stops counting there, no process starts later

Process == 1 .. NumProcesses
NULL == 0
Thread == Cpu \cup {Ld}

ASSUME OsAssumption ==
  /\ NumProcesses \in Nat /\ TimeSlot \in Nat /\ AsBuilt \in BOOLEAN
  /\ IsFiniteSet(Cpu) /\ Ld \notin Cpu /\ Nobody \notin Thread
  /\ Size \in [Process -> Nat]
  /\ StartTime \in [Process -> 0 .. Horizon] /\ Horizon \in Nat

VARIABLES
  time, mode,               \* the slot clock
  queue_lock,               \* its holder
  ready,                    \* the processes in mlq_ready_queue
  done,                     \* the loader has loaded everything
  next,                     \* ld_routine: the process to load (i + 1)
  cpc, proc, time_left,     \* cpu_routine, for each CPU: control and locals
  pc, freed,                \* proc->pc; the processes freed
  used, ran                 \* history: slots p has had since it was dispatched;
                            \* processes run in the current slot

clockVars == <<time, mode>>
schedVars == <<queue_lock, ready>>
cpuVars == <<cpc, proc, time_left>>
procVars == <<pc, freed, used, ran>>
vars == <<time, mode, queue_lock, ready, done, next, cpc, proc, time_left, pc,
          freed, used, ran>>

Clock == INSTANCE SlotClock WITH Device <- Thread

Init ==
  /\ Clock!Init
  /\ queue_lock = Nobody /\ ready = {}
  /\ done = FALSE /\ next = 1
  /\ cpc = [c \in Cpu |-> "top"]
  /\ proc = [c \in Cpu |-> NULL]
  /\ time_left = [c \in Cpu |-> 0]
  /\ pc = [p \in Process |-> 0] /\ freed = {}
  /\ used = [p \in Process |-> 0] /\ ran = {}

\* proc->pc == proc->code->size
Finished(p) == pc[p] = Size[p]

\* mutant of Due: one slot too early.
DueEarly == time + 1 >= StartTime[next]
\* ld_routine: the start time has come.
Due == time >= StartTime[next]
\* mutant of AllLoaded: the last process is not loaded.
AllButOneLoaded == next >= NumProcesses
\* ld_routine: nothing is left to load.
AllLoaded == next > NumProcesses

At(c, l) == mode[c] = "work" /\ cpc[c] = l
Goto(c, l) == cpc' = [cpc EXCEPT ![c] = l]

-----------------------------------------------------------------------------
(* sched.c, called by thread t; each call waits for queue_lock. *)

\* mutant of Enqueue: the process is not added.
EnqueueNothing(p) == queue_lock = Nobody /\ UNCHANGED schedVars

\* put_mlq_proc and add_mlq_proc
Enqueue(p) ==
  /\ queue_lock = Nobody
  /\ ready' = IF AsBuilt THEN ready ELSE ready \cup {p}
  /\ UNCHANGED queue_lock

\* mutant of GetProc: the process stays in the queue.
GetProcLeavesItQueued(t, p) ==
  /\ queue_lock = Nobody
  /\ p \in IF ready = {} THEN {NULL} ELSE ready
  /\ UNCHANGED schedVars

\* get_mlq_proc returns p
GetProc(t, p) ==
  /\ queue_lock = Nobody
  /\ queue_lock' = IF AsBuilt THEN t ELSE Nobody
  /\ p \in IF AsBuilt \/ ready = {} THEN {NULL} ELSE ready
  /\ ready' = ready \ {p}

-----------------------------------------------------------------------------
(* cpu_routine *)

\* mutant of ResetQuantum: the next process gets what is left of the quantum.
KeepQuantum(c) == UNCHANGED time_left
\* Forget the quantum of a process that has finished.
ResetQuantum(c) == time_left' = [time_left EXCEPT ![c] = 0]

\* The head of the loop: no process, a finished one, or one out of quantum.
Top(c) ==
  /\ At(c, "top")
  /\ LET p == proc[c] IN
       \/ /\ p = NULL
          /\ Goto(c, "get_idle")
          /\ UNCHANGED <<time_left, freed>>
       \/ /\ p # NULL /\ Finished(p)
          /\ freed' = freed \cup {p}
          /\ ResetQuantum(c)
          /\ Goto(c, "get")
       \/ /\ p # NULL /\ ~Finished(p)
          /\ Goto(c, IF time_left[c] = 0 THEN "put" ELSE "check")
          /\ UNCHANGED <<time_left, freed>>
  /\ UNCHANGED <<clockVars, schedVars, done, next, proc, pc, used, ran>>

\* mutant of GetIdle: an idle CPU skips the slot first and asks in the next one.
SkipsFirst(c) ==
  /\ At(c, "get_idle")
  /\ queue_lock = Nobody
  /\ Clock!Park(c) /\ Goto(c, "get")
  /\ UNCHANGED <<time, schedVars, done, next, proc, time_left, procVars>>

\* An idle CPU asks for a process; if there is none it skips the slot and starts
\* over without looking at done.
GetIdle(c) ==
  /\ At(c, "get_idle")
  /\ \E p \in Process \cup {NULL} :
       /\ GetProc(c, p)
       /\ proc' = [proc EXCEPT ![c] = p]
       /\ IF p = NULL THEN Clock!Park(c) /\ Goto(c, "top")
                      ELSE mode' = mode /\ Goto(c, "check")
  /\ UNCHANGED <<time, done, next, time_left, procVars>>

Put(c) ==
  /\ At(c, "put")
  /\ Enqueue(proc[c])
  /\ Goto(c, "get")
  /\ UNCHANGED <<clockVars, done, next, proc, time_left, procVars>>

\* Take the next process after the last one finished or was put back.
Get(c) ==
  /\ At(c, "get")
  /\ \E p \in Process \cup {NULL} :
       GetProc(c, p) /\ proc' = [proc EXCEPT ![c] = p]
  /\ Goto(c, "check")
  /\ UNCHANGED <<clockVars, done, next, time_left, procVars>>

\* Stop, skip the slot, or go on to run the process.
Check(c) ==
  /\ At(c, "check")
  /\ \/ /\ proc[c] = NULL
        /\ IF done THEN Clock!Leave(c) /\ Goto(c, "stopped")
                   ELSE Clock!Park(c) /\ Goto(c, "top")
        /\ UNCHANGED <<time_left, used>>
     \/ /\ proc[c] # NULL
        /\ IF time_left[c] = 0
             THEN /\ time_left' = [time_left EXCEPT ![c] = TimeSlot]
                  /\ used' = [used EXCEPT ![proc[c]] = 0]
             ELSE UNCHANGED <<time_left, used>>
        /\ Goto(c, "run")
        /\ UNCHANGED mode
  /\ UNCHANGED <<time, schedVars, done, next, proc, pc, freed, ran>>

\* mutant of Step: no test for the end of the code.
StepUnchecked(p) == pc' = [pc EXCEPT ![p] = @ + 1]
\* run executes one instruction, if there is one left.
Step(p) == pc' = IF pc[p] < Size[p] THEN [pc EXCEPT ![p] = @ + 1] ELSE pc

\* mutant of EndOfSlot: the CPU goes on in the same slot.
StayInSlot(c) == UNCHANGED mode
\* next_slot, after the instruction.
EndOfSlot(c) == Clock!Park(c)

Run(c) ==
  /\ At(c, "run")
  /\ LET p == proc[c] IN
       /\ Step(p)
       /\ used' = [used EXCEPT ![p] = @ + 1]
       /\ ran' = ran \cup {p}
  /\ time_left' = [time_left EXCEPT ![c] = @ - 1]
  /\ EndOfSlot(c) /\ Goto(c, "top")
  /\ UNCHANGED <<time, schedVars, done, next, proc, freed>>

-----------------------------------------------------------------------------
(* ld_routine *)

WaitStart ==
  /\ mode[Ld] = "work" /\ ~AllLoaded
  /\ ~Due
  /\ Clock!Park(Ld)
  /\ UNCHANGED <<time, schedVars, done, next, cpuVars, procVars>>

AddProc ==
  /\ mode[Ld] = "work" /\ ~AllLoaded
  /\ Due
  /\ Enqueue(next)
  /\ next' = next + 1
  /\ Clock!Park(Ld)
  /\ UNCHANGED <<time, done, cpuVars, procVars>>

\* done is a plain global: a CPU in the same slot may read it before or after.
FinishLoading ==
  /\ mode[Ld] = "work" /\ AllLoaded
  /\ done' = TRUE
  /\ Clock!Leave(Ld)
  /\ UNCHANGED <<time, schedVars, next, cpuVars, procVars>>

-----------------------------------------------------------------------------
(* The slot clock *)

Tick ==
  /\ Clock!Release
  /\ \E t \in Thread : mode[t] = "parked"
  /\ time' = IF time < Horizon THEN time + 1 ELSE time
  /\ ran' = {}
  /\ UNCHANGED <<schedVars, done, next, cpuVars, pc, freed, used>>

Resume(t) ==
  /\ Clock!Resume(t)
  /\ UNCHANGED <<time, schedVars, done, next, cpuVars, procVars>>

\* Every thread has left: main stops the timer and returns.
Terminated == (\A t \in Thread : mode[t] = "left") /\ UNCHANGED vars

CpuStep(c) == Top(c) \/ GetIdle(c) \/ Put(c) \/ Get(c) \/ Check(c) \/ Run(c)
LoaderStep == WaitStart \/ AddProc \/ FinishLoading

Next ==
  \/ \E c \in Cpu : CpuStep(c)
  \/ LoaderStep
  \/ Tick
  \/ \E t \in Thread : Resume(t)
  \/ Terminated

SafeSpec == Init /\ [][Next]_vars

\* Every thread runs, and the clock keeps the promise of SlotClock.
Fairness ==
  /\ \A c \in Cpu : WF_vars(CpuStep(c))
  /\ WF_vars(LoaderStep)
  /\ WF_vars(Tick)
  /\ \A t \in Thread : WF_vars(Resume(t))

Spec == SafeSpec /\ Fairness

-----------------------------------------------------------------------------
(* Properties *)

TypeOK ==
  /\ time \in 0 .. Horizon
  /\ mode \in [Thread -> {"work", "parked", "released", "left"}]
  /\ queue_lock \in Cpu \cup {Nobody}
  /\ ready \subseteq Process /\ freed \subseteq Process /\ ran \subseteq Process
  /\ done \in BOOLEAN /\ next \in 1 .. NumProcesses + 1
  /\ cpc \in [Cpu -> {"top", "get_idle", "put", "get", "check", "run", "stopped"}]
  /\ proc \in [Cpu -> Process \cup {NULL}]
  /\ time_left \in [Cpu -> Int]
  /\ pc \in [Process -> Nat] /\ \A p \in Process : pc[p] <= Size[p]
  /\ used \in [Process -> Nat]

\* c may still use its process: after put_proc or free it only overwrites it.
Holds(c, p) == proc[c] = p /\ cpc[c] # "get"

\* A loaded process is in exactly one place: in the ready queue, on one CPU, or
\* freed.  So no two CPUs run one process and none is used after its free.
OnePlace ==
  \A p \in Process :
    Cardinality({c \in Cpu : Holds(c, p)})
      + (IF p \in ready THEN 1 ELSE 0) + (IF p \in freed THEN 1 ELSE 0)
    = IF p < next THEN 1 ELSE 0

\* No process runs twice in one time slot, not even on two CPUs that pass it on
\* through the ready queue within the slot.
OncePerSlot ==
  [][\A c \in Cpu, p \in Process : Run(c) /\ proc[c] = p => p \notin ran]_vars

\* A process goes back to the ready queue exactly when it has used up its quantum,
\* and no dispatch starts with the remainder of another process's quantum.
FullQuantum ==
  /\ \A c \in Cpu : At(c, "put") => used[proc[c]] = TimeSlot
  /\ \A c \in Cpu : proc[c] = NULL => time_left[c] = 0

\* No process runs before its start time.
NotBeforeStart == \A p \in Process : pc[p] > 0 => StartTime[p] <= time

\* A CPU stops on an empty queue and a flag it reads afterwards, without a lock.
\* Even so no process is left behind: when every CPU has stopped, all are done.
NoneAbandoned ==
  (\A c \in Cpu : cpc[c] = "stopped") => freed = Process

\* A CPU spends a slot without a process only for want of one: the queue has been
\* empty in that slot, so at its end it holds at most the process that the loader
\* has added since.
IdleOnlyForNew ==
  (\A t \in Thread : mode[t] \in {"parked", "left"})
    /\ (\E c \in Cpu : mode[c] = "parked" /\ proc[c] = NULL)
  => Cardinality(ready) <= 1

\* Every process of the config file is loaded, runs to its end and is freed.
AllFinish == <>(freed = Process)

\* What the expected outputs show: some process finishes.
SomeFinishes == <>(freed # {})

\* os.c:84, "No process to run, exit": a CPU with nothing left to run stops.
CpusStop == <>(\A c \in Cpu : cpc[c] = "stopped")
=============================================================================

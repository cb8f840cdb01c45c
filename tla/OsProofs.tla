-------------------------------- MODULE OsProofs --------------------------------
(***************************************************************************)
(* Proofs about Os for any number of CPUs and processes, any sizes, start  *)
(* times and quantum: for a scheduler as its TODO comments ask for, and    *)
(* for it as it is, which runs nothing.                                    *)
(***************************************************************************)
EXTENDS OsInv, FiniteSetTheorems, TLAPS

Modes == {"work", "parked", "released", "left"}
Labels == {"top", "get_idle", "put", "get", "check", "run", "stopped"}

\* What the steps have to say for TypeOK, variable by variable
LEMMA TypeFacts ==
  ASSUME TypeOK
  PROVE  /\ ready \subseteq Process /\ freed \subseteq Process /\ ran \subseteq Process
         /\ mode \in [Thread -> Modes] /\ cpc \in [Cpu -> Labels]
         /\ proc \in [Cpu -> Process \cup {NULL}] /\ time_left \in [Cpu -> Int]
         /\ used \in [Process -> Nat] /\ Cpu \subseteq Thread
         /\ \A c \in Cpu : proc[c] # NULL => proc[c] \in Process
BY DEF TypeOK, Modes, Labels, Thread

\* Types, and nobody keeps queue_lock.
LEMMA TypeStep ==
  ASSUME AsBuilt = FALSE, IInv, [Next]_vars
  PROVE  TypeOK' /\ queue_lock' = Nobody
<1> USE DEF Modes, Labels, clockVars, schedVars, cpuVars, procVars, Goto, At
<1>0. TypeOK /\ queue_lock = Nobody BY DEF IInv
<1>1. ASSUME NEW c \in Cpu, Top(c) PROVE TypeOK' /\ queue_lock' = Nobody
  <2>1. freed' \in SUBSET Process
    <3>1. freed' = freed \/ (proc[c] # NULL /\ freed' = freed \cup {proc[c]}) BY <1>1 DEF Top
    <3> QED BY <1>0, <3>1, TypeFacts
  <2>2. cpc' \in [Cpu -> Labels]
    <3>1. \/ cpc' = [cpc EXCEPT ![c] = "get_idle"] \/ cpc' = [cpc EXCEPT ![c] = "get"]
          \/ cpc' = [cpc EXCEPT ![c] = "put"] \/ cpc' = [cpc EXCEPT ![c] = "check"]
      BY <1>1 DEF Top
    <3> QED BY <1>0, <3>1, TypeFacts
  <2>3. time_left' \in [Cpu -> Int]
    <3>1. time_left' = time_left \/ time_left' = [time_left EXCEPT ![c] = 0]
      BY <1>1 DEF Top, ResetQuantum
    <3> QED BY <1>0, <3>1, TypeFacts
  <2>4. UNCHANGED <<clockVars, schedVars, done, next, proc, pc, used, ran>> BY <1>1 DEF Top
  <2> QED BY <1>0, <2>1, <2>2, <2>3, <2>4 DEF TypeOK
<1>2. ASSUME NEW c \in Cpu, GetIdle(c) PROVE TypeOK' /\ queue_lock' = Nobody
  BY <1>0, <1>2 DEF GetIdle, GetProc, Clock!Park, TypeOK, Thread
<1>3. ASSUME NEW c \in Cpu, Put(c) PROVE TypeOK' /\ queue_lock' = Nobody
  <2>1. proc[c] \in Process BY <1>0, <1>3, TypeFacts DEF Put, IInv, ControlOK
  <2> QED BY <1>0, <1>3, <2>1 DEF Put, Enqueue, TypeOK
<1>4. ASSUME NEW c \in Cpu, Get(c) PROVE TypeOK' /\ queue_lock' = Nobody
  BY <1>0, <1>4 DEF Get, GetProc, TypeOK
<1>5. ASSUME NEW c \in Cpu, Check(c) PROVE TypeOK' /\ queue_lock' = Nobody
  <2>1. mode' \in [Thread -> Modes]
    <3>1. \/ mode' = mode \/ mode' = [mode EXCEPT ![c] = "left"]
          \/ mode' = [mode EXCEPT ![c] = "parked"]
      BY <1>5 DEF Check, Clock!Park, Clock!Leave
    <3> QED BY <1>0, <3>1, TypeFacts
  <2>2. cpc' \in [Cpu -> Labels]
    <3>1. \/ cpc' = [cpc EXCEPT ![c] = "stopped"] \/ cpc' = [cpc EXCEPT ![c] = "top"]
          \/ cpc' = [cpc EXCEPT ![c] = "run"]
      BY <1>5 DEF Check
    <3> QED BY <1>0, <3>1, TypeFacts
  <2>3. time_left' \in [Cpu -> Int] /\ used' \in [Process -> Nat]
    <3>1. \/ time_left' = time_left /\ used' = used
          \/ /\ time_left' = [time_left EXCEPT ![c] = TimeSlot] /\ proc[c] # NULL
             /\ used' = [used EXCEPT ![proc[c]] = 0]
      BY <1>5 DEF Check
    <3>2. TimeSlot \in Int BY OsAssumption DEF OsAssumption
    <3> QED BY <1>0, <3>1, <3>2, TypeFacts
  <2>4. UNCHANGED <<time, schedVars, done, next, proc, pc, freed, ran>> BY <1>5 DEF Check
  <2> QED BY <1>0, <2>1, <2>2, <2>3, <2>4 DEF TypeOK
<1>6. ASSUME NEW c \in Cpu, Run(c) PROVE TypeOK' /\ queue_lock' = Nobody
  <2>1. proc[c] \in Process BY <1>0, <1>6, TypeFacts DEF Run, IInv, ControlOK
  <2>2. pc' = pc \/ (pc[proc[c]] < Size[proc[c]] /\ pc' = [pc EXCEPT ![proc[c]] = @ + 1])
    BY <1>6 DEF Run, Step
  <2>3. pc' \in [Process -> Nat] /\ \A p \in Process : pc'[p] <= Size[p]
    <3>1. Size \in [Process -> Nat] BY OsAssumption DEF OsAssumption
    <3>2. pc \in [Process -> Nat] /\ \A p \in Process : pc[p] <= Size[p] BY <1>0 DEF TypeOK
    <3> QED BY <2>1, <2>2, <3>1, <3>2
  <2>4. used' \in [Process -> Nat]
    <3>1. used' = [used EXCEPT ![proc[c]] = @ + 1] BY <1>6 DEF Run
    <3> QED BY <1>0, <2>1, <3>1, TypeFacts
  <2>5. mode' \in [Thread -> Modes] /\ cpc' \in [Cpu -> Labels]
    <3>1. mode' = [mode EXCEPT ![c] = "parked"] /\ cpc' = [cpc EXCEPT ![c] = "top"]
      BY <1>6 DEF Run, EndOfSlot, Clock!Park
    <3> QED BY <1>0, <3>1, TypeFacts
  <2>6. ran' \subseteq Process /\ time_left' \in [Cpu -> Int]
    <3>1. ran' = ran \cup {proc[c]} /\ time_left' = [time_left EXCEPT ![c] = @ - 1]
      BY <1>6 DEF Run
    <3> QED BY <1>0, <2>1, <3>1, TypeFacts
  <2>7. UNCHANGED <<time, schedVars, done, next, proc, freed>> BY <1>6 DEF Run
  <2> QED BY <1>0, <2>3, <2>4, <2>5, <2>6, <2>7 DEF TypeOK
<1>7. CASE WaitStart BY <1>0, <1>7 DEF WaitStart, Clock!Park, TypeOK
<1>8. CASE AddProc
  <2>0. NumProcesses \in Nat BY OsAssumption DEF OsAssumption
  <2>1. next \in Process /\ next + 1 \in 1 .. NumProcesses + 1
    BY <1>0, <1>8, <2>0 DEF AddProc, AllLoaded, TypeOK, Process
  <2>2. ready' \subseteq Process
    <3>1. ready' = ready \cup {next} BY <1>8 DEF AddProc, Enqueue
    <3> QED BY <1>0, <2>1, <3>1, TypeFacts
  <2>3. mode' \in [Thread -> Modes]
    <3>1. mode' = [mode EXCEPT ![Ld] = "parked"] BY <1>8 DEF AddProc, Clock!Park
    <3> QED BY <1>0, <3>1, TypeFacts
  <2>4. next' = next + 1 /\ UNCHANGED <<time, done, cpuVars, procVars, queue_lock>>
    BY <1>8 DEF AddProc, Enqueue
  <2> QED BY <1>0, <2>1, <2>2, <2>3, <2>4 DEF TypeOK
<1>9. CASE FinishLoading BY <1>0, <1>9 DEF FinishLoading, Clock!Leave, TypeOK
<1>10. CASE Tick
  <2>1. mode' \in [Thread -> Modes] BY <1>0, <1>10 DEF Tick, Clock!Release
  <2>2. time' \in 0 .. Horizon
    <3>1. Horizon \in Nat BY OsAssumption DEF OsAssumption
    <3> QED BY <1>0, <1>10, <3>1 DEF Tick, TypeOK
  <2> QED BY <1>0, <1>10, <2>1, <2>2 DEF Tick, TypeOK
<1>11. ASSUME NEW t \in Thread, Resume(t) PROVE TypeOK' /\ queue_lock' = Nobody
  BY <1>0, <1>11 DEF Resume, Clock!Resume, TypeOK
<1>12. CASE UNCHANGED vars BY <1>0, <1>12 DEF vars, TypeOK
<1> QED BY <1>1, <1>2, <1>3, <1>4, <1>5, <1>6, <1>7, <1>8, <1>9, <1>10, <1>11, <1>12
        DEF Next, CpuStep, LoaderStep, Terminated

\* A CPU that takes p from the queue, or nothing if p is NULL, holds p and no other.
LEMMA PlaceTake ==
  ASSUME IInv, NEW c \in Cpu, NEW p \in Process \cup {NULL},
         GetProc(c, p), AsBuilt = FALSE,
         proc' = [proc EXCEPT ![c] = p], UNCHANGED <<next, freed>>,
         \A d \in Cpu \ {c} : cpc'[d] = cpc[d], cpc'[c] # "get",
         \A q \in Process : ~Holds(c, q)
  PROVE  PlaceOK'
<1>1. \A d \in Cpu, q \in Process : Holds(d, q)' <=> IF d = c THEN q = p ELSE Holds(d, q)
  BY DEF Holds, IInv, TypeOK
<1>2. \A q \in Process : q \in ready' <=> q \in ready /\ q # p
  BY DEF GetProc
<1>3. p \in Process => p \in ready BY DEF GetProc, Process, NULL
<1>4. PlaceOK BY DEF IInv
<1> QED BY <1>1, <1>2, <1>3, <1>4 DEF PlaceOK

\* A step that leaves the places alone.
LEMMA PlaceSame ==
  ASSUME IInv, UNCHANGED <<next, freed, ready>>,
         \A d \in Cpu, q \in Process : Holds(d, q)' <=> Holds(d, q)
  PROVE  PlaceOK'
<1>1. PlaceOK BY DEF IInv
<1> QED BY <1>1 DEF PlaceOK

\* Every step keeps each process in one place.
LEMMA PlaceStep ==
  ASSUME AsBuilt = FALSE, IInv, [Next]_vars
  PROVE  PlaceOK'
<1> USE DEF TypeOK, Thread, Process, NULL, clockVars, schedVars, cpuVars, procVars, Goto, At
<1>1. ASSUME NEW c \in Cpu, Top(c) PROVE PlaceOK'
  <2>1. CASE proc[c] # NULL /\ Finished(proc[c])
    <3> DEFINE p == proc[c]
    <3>1. p \in Process /\ Holds(c, p) BY <1>1, <2>1 DEF Top, Holds, IInv
    <3>2. freed' = freed \cup {p} /\ next' = next /\ ready' = ready BY <1>1, <2>1 DEF Top
    <3>3. \A d \in Cpu, q \in Process : Holds(d, q)' <=> d # c /\ Holds(d, q)
      BY <1>1, <2>1 DEF Top, Holds, IInv
    <3>4. \A q \in Process : Holds(c, q) <=> q = p BY <1>1 DEF Holds, Top
    <3>5. PlaceOK BY DEF IInv
    <3> HIDE DEF p
    <3> QED BY <3>1, <3>2, <3>3, <3>4, <3>5 DEF PlaceOK
  <2>2. CASE ~(proc[c] # NULL /\ Finished(proc[c]))
    <3>1. UNCHANGED <<next, freed, ready>> BY <1>1, <2>2 DEF Top
    <3>2. \A d \in Cpu, q \in Process : Holds(d, q)' <=> Holds(d, q)
      BY <1>1, <2>2 DEF Top, Holds, IInv
    <3> QED BY <3>1, <3>2, PlaceSame
  <2> QED BY <2>1, <2>2
<1>2. ASSUME NEW c \in Cpu, GetIdle(c) PROVE PlaceOK'
  <2>1. PICK p \in Process \cup {NULL} : GetProc(c, p) /\ proc' = [proc EXCEPT ![c] = p]
    BY <1>2 DEF GetIdle
  <2>2. \A q \in Process : ~Holds(c, q) BY <1>2 DEF GetIdle, Holds, ControlOK, IInv
  <2>3. UNCHANGED <<next, freed>> BY <1>2 DEF GetIdle
  <2>4. (\A d \in Cpu \ {c} : cpc'[d] = cpc[d]) /\ cpc'[c] # "get" BY <1>2 DEF GetIdle, IInv
  <2> QED BY <2>1, <2>2, <2>3, <2>4, PlaceTake
<1>3. ASSUME NEW c \in Cpu, Put(c) PROVE PlaceOK'
  <2> DEFINE p == proc[c]
  <2>1. p \in Process /\ Holds(c, p) BY <1>3 DEF Put, Holds, IInv, ControlOK
  <2>2. ready' = ready \cup {p} /\ next' = next /\ freed' = freed BY <1>3 DEF Put, Enqueue
  <2>3. \A d \in Cpu, q \in Process : Holds(d, q)' <=> d # c /\ Holds(d, q)
    BY <1>3 DEF Put, Holds, IInv
  <2>4. \A q \in Process : Holds(c, q) <=> q = p BY <1>3 DEF Holds, Put
  <2>5. PlaceOK BY DEF IInv
  <2> HIDE DEF p
  <2> QED BY <2>1, <2>2, <2>3, <2>4, <2>5 DEF PlaceOK
<1>4. ASSUME NEW c \in Cpu, Get(c) PROVE PlaceOK'
  <2>1. PICK p \in Process \cup {NULL} : GetProc(c, p) /\ proc' = [proc EXCEPT ![c] = p]
    BY <1>4 DEF Get
  <2>2. \A q \in Process : ~Holds(c, q) BY <1>4 DEF Get, Holds
  <2>3. UNCHANGED <<next, freed>> BY <1>4 DEF Get
  <2>4. (\A d \in Cpu \ {c} : cpc'[d] = cpc[d]) /\ cpc'[c] # "get" BY <1>4 DEF Get, IInv
  <2> QED BY <2>1, <2>2, <2>3, <2>4, PlaceTake
<1>5. ASSUME NEW c \in Cpu, Check(c) PROVE PlaceOK'
  <2>1. UNCHANGED <<next, freed, ready, proc>> BY <1>5 DEF Check
  <2>2. \A d \in Cpu : cpc'[d] = "get" <=> cpc[d] = "get"
    <3>1. \/ cpc' = [cpc EXCEPT ![c] = "stopped"] \/ cpc' = [cpc EXCEPT ![c] = "top"]
          \/ cpc' = [cpc EXCEPT ![c] = "run"]
      BY <1>5 DEF Check
    <3> QED BY <1>5, <3>1 DEF Check, IInv
  <2> QED BY <2>1, <2>2, PlaceSame DEF Holds
<1>6. ASSUME NEW c \in Cpu, Run(c) PROVE PlaceOK'
  <2>1. UNCHANGED <<next, freed, ready, proc>> BY <1>6 DEF Run
  <2>2. \A d \in Cpu : cpc'[d] = "get" <=> cpc[d] = "get" BY <1>6 DEF Run, IInv
  <2> QED BY <2>1, <2>2, PlaceSame DEF Holds
<1>7. CASE WaitStart BY <1>7, PlaceSame DEF WaitStart, Holds
<1>8. CASE AddProc
  <2>0. NumProcesses \in Nat BY OsAssumption DEF OsAssumption
  <2>1. next \in Process BY <1>8, <2>0 DEF AddProc, AllLoaded, IInv
  <2>2. ready' = ready \cup {next} /\ next' = next + 1 /\ freed' = freed
    BY <1>8 DEF AddProc, Enqueue
  <2>3. \A d \in Cpu, q \in Process : Holds(d, q)' <=> Holds(d, q) BY <1>8 DEF AddProc, Holds
  <2>4. PlaceOK BY DEF IInv
  <2>5. \A q \in Process : q < next' <=> q < next \/ q = next BY <2>1, <2>2
  <2>6. ~(next < next) BY <2>1
  <2> QED BY <2>1, <2>2, <2>3, <2>4, <2>5, <2>6 DEF PlaceOK
<1>9. CASE FinishLoading BY <1>9, PlaceSame DEF FinishLoading, Holds
<1>10. CASE Tick BY <1>10, PlaceSame DEF Tick, Holds
<1>11. ASSUME NEW t \in Thread, Resume(t) PROVE PlaceOK' BY <1>11, PlaceSame DEF Resume, Holds
<1>12. CASE UNCHANGED vars BY <1>12, PlaceSame DEF vars, Holds
<1> QED BY <1>1, <1>2, <1>3, <1>4, <1>5, <1>6, <1>7, <1>8, <1>9, <1>10, <1>11, <1>12
        DEF Next, CpuStep, LoaderStep, Terminated

\* Every step keeps the control of a CPU in step with its process and its slot.
LEMMA ControlStep ==
  ASSUME AsBuilt = FALSE, IInv, [Next]_vars
  PROVE  ControlOK'
<1> USE DEF IInv, TypeOK, ControlOK, Thread, Process, NULL,
            clockVars, schedVars, cpuVars, procVars, Goto, At
<1>0. Ld \notin Cpu BY OsAssumption DEF OsAssumption
<1>1. ASSUME NEW c \in Cpu, Top(c) PROVE ControlOK'
  BY <1>1 DEF Top
<1>2. ASSUME NEW c \in Cpu, GetIdle(c) PROVE ControlOK'
  BY <1>2 DEF GetIdle, GetProc, Clock!Park
<1>3. ASSUME NEW c \in Cpu, Put(c) PROVE ControlOK'
  BY <1>3 DEF Put, Enqueue
<1>4. ASSUME NEW c \in Cpu, Get(c) PROVE ControlOK'
  BY <1>4 DEF Get, GetProc
<1>5. ASSUME NEW c \in Cpu, Check(c) PROVE ControlOK'
  BY <1>5 DEF Check, Clock!Park, Clock!Leave
<1>6. ASSUME NEW c \in Cpu, Run(c) PROVE ControlOK'
  BY <1>6 DEF Run, EndOfSlot, Clock!Park
<1>7. CASE WaitStart BY <1>0, <1>7 DEF WaitStart, Clock!Park
<1>8. CASE AddProc BY <1>0, <1>8 DEF AddProc, Clock!Park
<1>9. CASE FinishLoading BY <1>0, <1>9 DEF FinishLoading, Clock!Leave
<1>10. CASE Tick BY <1>10 DEF Tick, Clock!Release
<1>11. ASSUME NEW t \in Thread, Resume(t) PROVE ControlOK' BY <1>11 DEF Resume, Clock!Resume
<1>12. CASE UNCHANGED vars BY <1>12 DEF vars
<1> QED BY <1>1, <1>2, <1>3, <1>4, <1>5, <1>6, <1>7, <1>8, <1>9, <1>10, <1>11, <1>12
        DEF Next, CpuStep, LoaderStep, Terminated

\* Every step keeps the account of the quantum; no other CPU has the same process.
LEMMA QuantumStep ==
  ASSUME AsBuilt = FALSE, IInv, [Next]_vars
  PROVE  QuantumOK'
<1> USE DEF IInv, TypeOK, QuantumOK, InQuantum, Thread, Process, NULL,
            clockVars, schedVars, cpuVars, procVars, Goto, At
<1>t. TimeSlot \in Nat BY OsAssumption DEF OsAssumption
<1>0. \A c, d \in Cpu :
         proc[c] = proc[d] /\ proc[c] # NULL /\ cpc[c] # "get" /\ cpc[d] # "get" => c = d
  BY DEF PlaceOK, Holds
<1>1. ASSUME NEW c \in Cpu, Top(c) PROVE QuantumOK'
  BY <1>1 DEF Top, ResetQuantum
<1>2. ASSUME NEW c \in Cpu, GetIdle(c) PROVE QuantumOK'
  BY <1>2 DEF GetIdle, GetProc, ControlOK
<1>3. ASSUME NEW c \in Cpu, Put(c) PROVE QuantumOK'
  BY <1>3 DEF Put
<1>4. ASSUME NEW c \in Cpu, Get(c) PROVE QuantumOK'
  BY <1>4 DEF Get, GetProc
<1>5. ASSUME NEW c \in Cpu, Check(c) PROVE QuantumOK'
  <2>1. CASE proc[c] = NULL \/ time_left[c] # 0
    <3>1. UNCHANGED <<proc, time_left, used>> BY <1>5, <2>1 DEF Check
    <3>2. \A d \in Cpu \ {c} : cpc'[d] = cpc[d] BY <1>5 DEF Check
    <3>3. cpc'[c] \in {"stopped", "top", "run"} /\ cpc[c] = "check" BY <1>5 DEF Check
    <3>4. \A d \in Cpu : InQuantum(d)' => InQuantum(d) BY <2>1, <3>1, <3>2, <3>3
    <3>5. \A d \in Cpu : cpc'[d] \in {"put", "get"} => cpc[d] \in {"put", "get"}
      BY <3>2, <3>3
    <3> QED BY <3>1, <3>4, <3>5
  <2>2. CASE proc[c] # NULL /\ time_left[c] = 0
    <3>1. /\ cpc' = [cpc EXCEPT ![c] = "run"] /\ proc' = proc
          /\ time_left' = [time_left EXCEPT ![c] = TimeSlot]
          /\ used' = [used EXCEPT ![proc[c]] = 0]
      BY <1>5, <2>2 DEF Check
    <3>2. proc[c] \in Process /\ cpc[c] = "check" BY <1>5, <2>2 DEF Check
    <3>3. \A d \in Cpu \ {c} : InQuantum(d)' => InQuantum(d) /\ proc[d] # proc[c]
      BY <1>0, <3>1, <3>2
    <3>4. used'[proc[c]] = 0 /\ time_left'[c] = TimeSlot BY <3>1, <3>2
    <3>5. used'[proc[c]] + time_left'[c] = TimeSlot BY <1>t, <3>4
    <3>6. ASSUME NEW d \in Cpu \ {c}, InQuantum(d)'
          PROVE  used'[proc'[d]] + time_left'[d] = TimeSlot
      BY <3>1, <3>3, <3>6
    <3>7. \A d \in Cpu : proc'[d] = NULL \/ cpc'[d] \in {"put", "get"} => time_left'[d] = 0
      BY <3>1, <3>2
    <3> QED BY <3>1, <3>5, <3>6, <3>7
  <2> QED BY <2>1, <2>2
<1>6. ASSUME NEW c \in Cpu, Run(c) PROVE QuantumOK'
  <2>1. proc[c] \in Process /\ InQuantum(c) BY <1>6 DEF Run, ControlOK
  <2>2. /\ cpc' = [cpc EXCEPT ![c] = "top"] /\ proc' = proc
        /\ time_left' = [time_left EXCEPT ![c] = @ - 1]
        /\ used' = [used EXCEPT ![proc[c]] = @ + 1]
    BY <1>6 DEF Run
  <2>3. \A d \in Cpu \ {c} : InQuantum(d)' => InQuantum(d) /\ proc[d] # proc[c]
    BY <1>0, <1>6, <2>1, <2>2 DEF Run
  <2>4. used'[proc[c]] + time_left'[c] = TimeSlot 
    <3>1. /\ used'[proc[c]] = used[proc[c]] + 1 /\ time_left'[c] = time_left[c] - 1
          /\ used[proc[c]] \in Nat /\ time_left[c] \in Int
      BY <2>1, <2>2
    <3>2. used[proc[c]] + time_left[c] = TimeSlot BY <2>1
    <3> QED BY <1>t, <3>1, <3>2
  <2>5. ASSUME NEW d \in Cpu \ {c}, InQuantum(d)' PROVE used'[proc'[d]] + time_left'[d] = TimeSlot
    BY <2>2, <2>3, <2>5
  <2>6. \A d \in Cpu : proc'[d] = NULL \/ cpc'[d] \in {"put", "get"} => time_left'[d] = 0
    BY <2>1, <2>2
  <2> QED BY <2>2, <2>4, <2>5, <2>6
<1>7. CASE WaitStart BY <1>7 DEF WaitStart
<1>8. CASE AddProc BY <1>8 DEF AddProc
<1>9. CASE FinishLoading BY <1>9 DEF FinishLoading
<1>10. CASE Tick BY <1>10 DEF Tick
<1>11. ASSUME NEW t \in Thread, Resume(t) PROVE QuantumOK' BY <1>11 DEF Resume
<1>12. CASE UNCHANGED vars BY <1>12 DEF vars
<1> QED BY <1>1, <1>2, <1>3, <1>4, <1>5, <1>6, <1>7, <1>8, <1>9, <1>10, <1>11, <1>12
        DEF Next, CpuStep, LoaderStep, Terminated

\* The processes that have run in this slot stay on their CPUs until it ends.
LEMMA RanStep ==
  ASSUME AsBuilt = FALSE, IInv, [Next]_vars
  PROVE  RanOK'
<1> USE DEF Thread, clockVars, schedVars, cpuVars, procVars, Goto, At
<1>0. TypeOK /\ RanOK /\ Ld \notin Cpu BY OsAssumption DEF IInv, OsAssumption
<1>1. ASSUME NEW c \in Cpu, mode[c] = "work", ran' = ran,
             \A d \in Cpu \ {c} : proc'[d] = proc[d] /\ cpc'[d] = cpc[d] /\ mode'[d] = mode[d]
      PROVE  RanOK'
  <2>1. ASSUME NEW p \in ran
        PROVE  \E d \in Cpu : proc'[d] = p /\ cpc'[d] = "top" /\ mode'[d] = "parked"
    <3>1. PICK d \in Cpu : proc[d] = p /\ cpc[d] = "top" /\ mode[d] = "parked"
      BY <1>0 DEF RanOK
    <3>2. d # c BY <1>1, <3>1
    <3> QED BY <1>1, <3>1, <3>2
  <2> QED BY <1>1, <2>1 DEF RanOK
<1>2. ASSUME NEW c \in Cpu, Top(c) \/ GetIdle(c) \/ Put(c) \/ Get(c) \/ Check(c) PROVE RanOK'
  <2>1. mode[c] = "work" /\ ran' = ran BY <1>2 DEF Top, GetIdle, Put, Get, Check
  <2>2. \A d \in Cpu \ {c} : cpc'[d] = cpc[d]
    BY <1>0, <1>2 DEF Top, GetIdle, Put, Get, Check, TypeOK
  <2>3. \A d \in Cpu \ {c} : proc'[d] = proc[d]
    BY <1>0, <1>2 DEF Top, GetIdle, Put, Get, Check, TypeOK
  <2>4. \A d \in Cpu \ {c} : mode'[d] = mode[d]
    BY <1>0, <1>2 DEF Top, GetIdle, Put, Get, Check, Clock!Park, Clock!Leave, TypeOK
  <2> QED BY <1>1, <2>1, <2>2, <2>3, <2>4
<1>3. ASSUME NEW c \in Cpu, Run(c) PROVE RanOK'
  <2>1. /\ ran' = ran \cup {proc[c]} /\ proc' = proc
        /\ cpc' = [cpc EXCEPT ![c] = "top"] /\ mode' = [mode EXCEPT ![c] = "parked"]
    BY <1>3 DEF Run, EndOfSlot, Clock!Park
  <2>2. proc'[c] = proc[c] /\ cpc'[c] = "top" /\ mode'[c] = "parked"
    BY <1>0, <2>1 DEF TypeOK
  <2>3. ASSUME NEW p \in ran
        PROVE  \E d \in Cpu : proc'[d] = p /\ cpc'[d] = "top" /\ mode'[d] = "parked"
    BY <1>0, <2>1 DEF RanOK, TypeOK
  <2> QED BY <2>1, <2>2, <2>3 DEF RanOK
<1>4. CASE LoaderStep
  <2>1. UNCHANGED <<ran, proc, cpc>> BY <1>4 DEF LoaderStep, WaitStart, AddProc, FinishLoading
  <2>2. \A d \in Cpu : mode'[d] = mode[d]
    BY <1>0, <1>4
    DEF LoaderStep, WaitStart, AddProc, FinishLoading, Clock!Park, Clock!Leave, TypeOK
  <2> QED BY <1>0, <2>1, <2>2 DEF RanOK
<1>5. CASE Tick BY <1>5 DEF Tick, RanOK
<1>6. ASSUME NEW t \in Thread, Resume(t) PROVE RanOK'
  <2>1. UNCHANGED <<ran, proc, cpc>> BY <1>6 DEF Resume
  <2>2. \A d \in Cpu : mode[d] = "parked" => mode'[d] = "parked"
    BY <1>0, <1>6 DEF Resume, Clock!Resume, TypeOK
  <2> QED BY <1>0, <2>1, <2>2 DEF RanOK
<1>7. CASE UNCHANGED vars BY <1>0, <1>7 DEF vars, RanOK
<1> QED BY <1>2, <1>3, <1>4, <1>5, <1>6, <1>7 DEF Next, CpuStep, Terminated

\* Time does not run backwards, and the loader adds what is due.
LEMMA StartStep ==
  ASSUME AsBuilt = FALSE, IInv, [Next]_vars
  PROVE  StartOK'
<1> USE DEF clockVars, schedVars, cpuVars, procVars
<1>0. /\ time \in Int /\ next \in Int /\ StartTime \in [Process -> Int] /\ Process \subseteq Int
      /\ StartOK /\ pc \in [Process -> Nat] /\ NumProcesses \in Nat
  BY OsAssumption DEF OsAssumption, IInv, TypeOK, Process
<1>1. ASSUME UNCHANGED <<next, pc>>, time' \in Int, time' >= time PROVE StartOK'
  BY <1>0, <1>1 DEF StartOK
<1>2. ASSUME NEW c \in Cpu, Top(c) \/ GetIdle(c) \/ Put(c) \/ Get(c) \/ Check(c) PROVE StartOK'
  <2>1. UNCHANGED <<time, next, pc>> BY <1>2 DEF Top, GetIdle, Put, Get, Check
  <2> QED BY <1>0, <1>1, <2>1
<1>3. ASSUME NEW c \in Cpu, Run(c) PROVE StartOK'
  <2>1. /\ UNCHANGED <<time, next>>
        /\ pc' = pc \/ pc' = [pc EXCEPT ![proc[c]] = @ + 1]
    BY <1>3 DEF Run, Step
  <2>2. proc[c] \in Process /\ proc[c] < next
    BY <1>3 DEF Run, At, IInv, TypeOK, ControlOK, PlaceOK, Holds, NULL
  <2> QED BY <1>0, <2>1, <2>2 DEF StartOK
<1>4. CASE WaitStart \/ FinishLoading
  <2>1. UNCHANGED <<time, next, pc>> BY <1>4 DEF WaitStart, FinishLoading
  <2> QED BY <1>0, <1>1, <2>1
<1>5. CASE AddProc
  <2>1. UNCHANGED <<time, pc>> /\ next' = next + 1 /\ time >= StartTime[next]
    BY <1>5 DEF AddProc, Due
  <2> QED BY <1>0, <2>1 DEF StartOK
<1>6. CASE Tick
  <2>1. UNCHANGED <<next, pc>> /\ (time' = time \/ time' = time + 1) BY <1>6 DEF Tick
  <2> QED BY <1>0, <1>1, <2>1
<1>7. ASSUME NEW t \in Thread, Resume(t) PROVE StartOK'
  BY <1>0, <1>1, <1>7 DEF Resume
<1>8. CASE UNCHANGED vars BY <1>0, <1>1, <1>8 DEF vars
<1> QED BY <1>2, <1>3, <1>4, <1>5, <1>6, <1>7, <1>8 DEF Next, CpuStep, LoaderStep, Terminated

\* As long as something is queued some CPU goes on: one that takes nothing has seen
\* the queue empty, and one that puts a process back asks again in the same slot.
LEMMA StopStep ==
  ASSUME AsBuilt = FALSE, Cpu # {}, IInv, [Next]_vars
  PROVE  StopOK'
<1> USE DEF Thread, clockVars, schedVars, cpuVars, procVars, Goto, At
<1>0. /\ TypeOK /\ ControlOK /\ StopOK /\ Ld \notin Cpu /\ Ld \in Thread
      /\ NumProcesses \in Nat /\ next \in 1 .. NumProcesses + 1
  BY OsAssumption DEF IInv, OsAssumption, TypeOK
<1>1. ASSUME UNCHANGED <<done, next>>, mode'[Ld] = mode[Ld],
             NEW c \in Cpu, cpc'[c] # "stopped", ~(cpc'[c] = "check" /\ proc'[c] = NULL),
             \A d \in Cpu \ {c} : cpc'[d] = cpc[d]
      PROVE  StopOK'
  <2>1. ~GivesUp(c)' BY <1>1 DEF GivesUp
  <2>2. \A d \in Cpu : cpc'[d] = "stopped" => done' BY <1>0, <1>1 DEF StopOK
  <2> QED BY <1>0, <1>1, <2>1, <2>2 DEF StopOK
<1>2. ASSUME UNCHANGED <<done, next>>, mode'[Ld] = mode[Ld], ready' = {},
             \A d \in Cpu : cpc'[d] = "stopped" => cpc[d] = "stopped"
      PROVE  StopOK'
  BY <1>0, <1>2 DEF StopOK
<1>3. ASSUME NEW c \in Cpu, Top(c) \/ Put(c) \/ Run(c) PROVE StopOK'
  <2>1. UNCHANGED <<done, next>> BY <1>3 DEF Top, Put, Run
  <2>2. mode'[Ld] = mode[Ld] BY <1>0, <1>3 DEF Top, Put, Run, EndOfSlot, Clock!Park, TypeOK
  <2>3. /\ \A d \in Cpu \ {c} : cpc'[d] = cpc[d]
        /\ cpc'[c] # "stopped" /\ ~(cpc'[c] = "check" /\ proc'[c] = NULL)
    BY <1>0, <1>3 DEF Top, Put, Run, TypeOK
  <2> QED BY <1>1, <2>1, <2>2, <2>3
<1>4. ASSUME NEW c \in Cpu, GetIdle(c) \/ Get(c) PROVE StopOK'
  <2>1. PICK p \in Process \cup {NULL} : GetProc(c, p) /\ proc' = [proc EXCEPT ![c] = p]
    BY <1>4 DEF GetIdle, Get
  <2>2. UNCHANGED <<done, next>> BY <1>4 DEF GetIdle, Get
  <2>3. mode'[Ld] = mode[Ld] BY <1>0, <1>4 DEF GetIdle, Get, Clock!Park, TypeOK
  <2>4. cpc' = [cpc EXCEPT ![c] = "top"] \/ cpc' = [cpc EXCEPT ![c] = "check"]
    BY <1>4 DEF GetIdle, Get
  <2>5. CASE p = NULL
    <3>1. ready' = {} BY <1>0, <2>1, <2>5 DEF GetProc, TypeOK, Process, NULL
    <3> QED BY <1>0, <1>2, <2>2, <2>3, <2>4, <3>1 DEF TypeOK
  <2>6. CASE p # NULL
    <3>1. proc'[c] # NULL BY <1>0, <2>1, <2>6 DEF TypeOK
    <3> QED BY <1>0, <1>1, <2>2, <2>3, <2>4, <3>1 DEF TypeOK
  <2> QED BY <2>5, <2>6
<1>5. ASSUME NEW c \in Cpu, Check(c) PROVE StopOK'
  <2>1. UNCHANGED <<done, next, ready, proc>> BY <1>5 DEF Check
  <2>2. mode'[Ld] = mode[Ld] BY <1>0, <1>5 DEF Check, Clock!Park, Clock!Leave, TypeOK
  <2>3. CASE proc[c] = NULL /\ done
    <3>1. cpc' = [cpc EXCEPT ![c] = "stopped"] BY <1>5, <2>3 DEF Check
    <3>2. GivesUp(c) BY <1>5, <2>3 DEF Check, GivesUp
    <3>3. \A d \in Cpu : GivesUp(d)' => GivesUp(d)
      BY <1>0, <2>1, <3>1, <3>2 DEF GivesUp, TypeOK
    <3> QED BY <1>0, <2>1, <2>2, <2>3, <3>3 DEF StopOK
  <2>4. CASE ~(proc[c] = NULL /\ done)
    <3>1. cpc' = [cpc EXCEPT ![c] = "top"] \/ cpc' = [cpc EXCEPT ![c] = "run"]
      BY <1>5, <2>4 DEF Check
    <3> QED BY <1>0, <1>1, <2>1, <2>2, <3>1 DEF TypeOK
  <2> QED BY <2>3, <2>4
<1>6. CASE WaitStart \/ AddProc
  <2>1. UNCHANGED <<done, cpc, proc>> /\ mode' = [mode EXCEPT ![Ld] = "parked"]
    BY <1>6 DEF WaitStart, AddProc, Clock!Park
  <2>2. mode[Ld] = "work" BY <1>6 DEF WaitStart, AddProc
  <2>3. ~done /\ mode'[Ld] = "parked" BY <1>0, <2>1, <2>2 DEF StopOK, TypeOK
  <2> QED BY <1>0, <2>1, <2>3 DEF StopOK
<1>7. CASE FinishLoading
  <2>1. /\ UNCHANGED <<ready, next, cpc, proc>> /\ mode[Ld] = "work"
        /\ done' /\ mode' = [mode EXCEPT ![Ld] = "left"]
    BY <1>7 DEF FinishLoading, Clock!Leave
  <2>2. next = NumProcesses + 1 BY <1>0, <1>7 DEF FinishLoading, AllLoaded
  <2>3. mode'[Ld] = "left" BY <1>0, <2>1 DEF TypeOK
  <2>4. ready # {} => \E c \in Cpu : ~GivesUp(c) BY <1>0, <2>1 DEF StopOK
  <2> QED BY <1>0, <2>1, <2>2, <2>3, <2>4 DEF StopOK, GivesUp
<1>8. CASE Tick
  <2>1. UNCHANGED <<done, next, ready, cpc, proc>> BY <1>8 DEF Tick
  <2>2. /\ \A t \in Thread : mode[t] \in {"parked", "left"}
        /\ mode'[Ld] = IF mode[Ld] = "parked" THEN "released" ELSE "left"
    BY <1>0, <1>8 DEF Tick, Clock!Release
  <2>3. CASE mode[Ld] = "parked"
    <3>1. ~done /\ mode'[Ld] = "released" BY <1>0, <2>2, <2>3 DEF StopOK
    <3>2. \A c \in Cpu : cpc[c] = "top" BY <1>0, <2>2, <3>1 DEF StopOK, ControlOK
    <3> QED BY <2>1, <3>1, <3>2 DEF StopOK, GivesUp
  <2>4. CASE mode[Ld] = "left"
    <3>1. mode'[Ld] = "left" BY <2>2, <2>4
    <3>2. ready # {} => \E c \in Cpu : ~GivesUp(c) BY <1>0, <2>4 DEF StopOK
    <3> QED BY <1>0, <2>1, <2>4, <3>1, <3>2 DEF StopOK, GivesUp
  <2> QED BY <1>0, <2>2, <2>3, <2>4
<1>9. ASSUME NEW t \in Thread, Resume(t) PROVE StopOK'
  <2>1. UNCHANGED <<done, next, ready, cpc, proc>> BY <1>9 DEF Resume
  <2>2. /\ mode'[Ld] = "left" <=> mode[Ld] = "left"
        /\ mode'[Ld] = "parked" <=> mode[Ld] = "parked"
    BY <1>0, <1>9 DEF Resume, Clock!Resume, TypeOK
  <2> QED BY <1>0, <2>1, <2>2 DEF StopOK, GivesUp
<1>10. CASE UNCHANGED vars BY <1>0, <1>10 DEF vars, StopOK, GivesUp
<1> QED BY <1>3, <1>4, <1>5, <1>6, <1>7, <1>8, <1>9, <1>10
        DEF Next, CpuStep, LoaderStep, Terminated

-----------------------------------------------------------------------------
(* Counting the queue *)

\* The CPUs that are about to take a process from the queue
Getting == {c \in Cpu : cpc[c] = "get"}

\* Whatever subsets they are, they are finite.
LEMMA CountFacts ==
  /\ \A S : S \subseteq Process => IsFiniteSet(S) /\ Cardinality(S) \in Nat
  /\ \A S : S \subseteq Cpu => IsFiniteSet(S) /\ Cardinality(S) \in Nat
<1>1. IsFiniteSet(Process)
  <2>1. NumProcesses \in Int BY OsAssumption DEF OsAssumption
  <2> QED BY <2>1, FS_Interval DEF Process
<1>2. IsFiniteSet(Cpu) BY OsAssumption DEF OsAssumption
<1> QED BY <1>1, <1>2, FS_Subset, FS_CardinalityType

\* What IdleOK compares
Waiting == IF mode[Ld] = "parked" THEN 1 ELSE 0

\* A step that adds nothing to the queue and leaves the CPUs that ask for a process.
LEMMA IdleLess ==
  ASSUME IInv, TypeOK', ready' \subseteq ready, Getting \subseteq Getting',
         mode[Ld] = "parked" => mode'[Ld] = "parked",
         \A c \in Cpu : Idles(c)' => Idles(c)
  PROVE  IdleOK'
<1>1. TypeOK /\ IdleOK BY DEF IInv
<1>2. /\ IsFiniteSet(ready) /\ Cardinality(ready) \in Nat /\ Cardinality(ready') \in Nat
      /\ IsFiniteSet(Getting') /\ Cardinality(Getting) \in Nat /\ Cardinality(Getting') \in Nat
  BY <1>1, CountFacts DEF Getting, TypeOK
<1>3. Cardinality(ready') <= Cardinality(ready) BY <1>2, FS_Subset
<1>4. Cardinality(Getting) <= Cardinality(Getting') BY <1>2, FS_Subset
<1>5. (\E c \in Cpu : Idles(c)) => Cardinality(ready) <= Cardinality(Getting) + Waiting
  BY <1>1 DEF IdleOK, Getting, Waiting
<1>6. Waiting \in Nat /\ Waiting' \in Nat /\ Waiting <= Waiting' BY DEF Waiting
<1>7. (\E c \in Cpu : Idles(c)') => Cardinality(ready') <= Cardinality(Getting') + Waiting'
  BY <1>2, <1>3, <1>4, <1>5, <1>6
<1> QED BY <1>7 DEF IdleOK, Getting, Waiting

\* A step that empties the queue, or finds it empty.
LEMMA IdleEmpty ==
  ASSUME TypeOK', ready' = {}
  PROVE  IdleOK'
<1>1. Cardinality(ready') = 0 BY FS_EmptySet
<1>2. Cardinality(Getting') \in Nat BY CountFacts DEF Getting
<1>3. Waiting' \in Nat BY DEF Waiting
<1>4. Cardinality(ready') <= Cardinality(Getting') + Waiting' BY <1>1, <1>2, <1>3
<1> QED BY <1>4 DEF IdleOK, Getting, Waiting

\* The queue grows only by a process whose CPU is about to ask for one, and by the
\* loader's.
LEMMA IdleStep ==
  ASSUME AsBuilt = FALSE, IInv, TypeOK', [Next]_vars
  PROVE  IdleOK'
<1> USE DEF Thread, clockVars, schedVars, cpuVars, procVars, Goto, At
<1>0. /\ TypeOK /\ ControlOK /\ IdleOK /\ Ld \notin Cpu /\ Ld \in Thread
  BY OsAssumption DEF IInv, OsAssumption
<1>a. /\ IsFiniteSet(ready) /\ Cardinality(ready) \in Nat
      /\ IsFiniteSet(Getting) /\ Cardinality(Getting) \in Nat
  BY <1>0, CountFacts DEF Getting, TypeOK
<1>b. (\E c \in Cpu : Idles(c)) => Cardinality(ready) <= Cardinality(Getting) + Waiting
  BY <1>0 DEF IdleOK, Getting, Waiting
<1>1. ASSUME NEW c \in Cpu, Top(c) PROVE IdleOK'
  <2>1. UNCHANGED <<ready, mode, proc>> BY <1>1 DEF Top
  <2>2. /\ cpc[c] = "top" /\ mode[c] = "work" /\ \A d \in Cpu \ {c} : cpc'[d] = cpc[d]
        /\ cpc'[c] = "check" => proc[c] # NULL
    BY <1>0, <1>1 DEF Top, TypeOK
  <2>3. Getting \subseteq Getting' BY <2>2 DEF Getting
  <2>4. \A d \in Cpu : Idles(d)' => Idles(d) BY <2>1, <2>2 DEF Idles
  <2> QED BY <2>1, <2>3, <2>4, IdleLess
<1>2. ASSUME NEW c \in Cpu, GetIdle(c) PROVE IdleOK'
  <2>1. PICK p \in Process \cup {NULL} : GetProc(c, p) /\ proc' = [proc EXCEPT ![c] = p]
    BY <1>2 DEF GetIdle
  <2>2. CASE p = NULL
    <3>1. ready' = {} BY <1>0, <2>1, <2>2 DEF GetProc, TypeOK, Process, NULL
    <3> QED BY <3>1, IdleEmpty
  <2>3. CASE p # NULL
    <3>1. proc'[c] # NULL /\ ready' \subseteq ready /\ cpc[c] = "get_idle"
      BY <1>0, <1>2, <2>1, <2>3 DEF GetIdle, GetProc, TypeOK
    <3>2. mode' = mode /\ cpc' = [cpc EXCEPT ![c] = "check"]
      BY <1>0, <1>2, <3>1 DEF GetIdle, TypeOK
    <3>3. Getting \subseteq Getting' BY <1>0, <3>1, <3>2 DEF Getting, TypeOK
    <3>4. \A d \in Cpu : Idles(d)' => Idles(d)
      BY <1>0, <2>1, <3>1, <3>2 DEF Idles, TypeOK
    <3> QED BY <3>1, <3>2, <3>3, <3>4, IdleLess
  <2> QED BY <2>2, <2>3
<1>3. ASSUME NEW c \in Cpu, Put(c) PROVE IdleOK'
  <2>1. /\ ready' = ready \cup {proc[c]} /\ UNCHANGED <<mode, proc>>
        /\ cpc[c] = "put" /\ cpc' = [cpc EXCEPT ![c] = "get"] /\ mode[c] = "work"
    BY <1>3 DEF Put, Enqueue
  <2>2. Getting' = Getting \cup {c} /\ c \notin Getting BY <1>0, <2>1 DEF Getting, TypeOK
  <2>3. \A d \in Cpu : Idles(d)' => Idles(d) BY <1>0, <2>1 DEF Idles, TypeOK
  <2>4. Cardinality(Getting') = Cardinality(Getting) + 1 BY <1>a, <2>2, FS_AddElement
  <2>5. \/ Cardinality(ready') = Cardinality(ready)
        \/ Cardinality(ready') = Cardinality(ready) + 1
    BY <1>a, <2>1, FS_AddElement
  <2>6. Waiting' = Waiting /\ Waiting \in Nat BY <2>1 DEF Waiting
  <2>7. (\E d \in Cpu : Idles(d)') => Cardinality(ready') <= Cardinality(Getting') + Waiting'
    BY <1>a, <1>b, <2>3, <2>4, <2>5, <2>6
  <2> QED BY <2>7 DEF IdleOK, Getting, Waiting
<1>4. ASSUME NEW c \in Cpu, Get(c) PROVE IdleOK'
  <2>1. PICK p \in Process \cup {NULL} : GetProc(c, p) /\ proc' = [proc EXCEPT ![c] = p]
    BY <1>4 DEF Get
  <2>2. CASE p = NULL
    <3>1. ready' = {} BY <1>0, <2>1, <2>2 DEF GetProc, TypeOK, Process, NULL
    <3> QED BY <3>1, IdleEmpty
  <2>3. CASE p # NULL
    <3>1. p \in ready /\ ready' = ready \ {p} BY <2>1, <2>3 DEF GetProc
    <3>2. /\ UNCHANGED mode /\ cpc[c] = "get" /\ mode[c] = "work"
          /\ cpc' = [cpc EXCEPT ![c] = "check"]
      BY <1>4 DEF Get
    <3>3. Getting' = Getting \ {c} /\ c \in Getting BY <1>0, <3>2 DEF Getting, TypeOK
    <3>4. \A d \in Cpu : Idles(d)' => Idles(d)
      BY <1>0, <2>1, <2>3, <3>2 DEF Idles, TypeOK
    <3>5. Cardinality(Getting') = Cardinality(Getting) - 1 BY <1>a, <3>3, FS_RemoveElement
    <3>6. Cardinality(ready') = Cardinality(ready) - 1 BY <1>a, <3>1, FS_RemoveElement
    <3>7. Waiting' = Waiting /\ Waiting \in Nat BY <3>2 DEF Waiting
    <3>8. (\E d \in Cpu : Idles(d)') => Cardinality(ready') <= Cardinality(Getting') + Waiting'
      BY <1>a, <1>b, <3>4, <3>5, <3>6, <3>7
    <3> QED BY <3>8 DEF IdleOK, Getting, Waiting
  <2> QED BY <2>2, <2>3
<1>5. ASSUME NEW c \in Cpu, Check(c) PROVE IdleOK'
  <2>1. UNCHANGED <<ready, proc>> /\ mode[c] = "work" /\ cpc[c] = "check" BY <1>5 DEF Check
  <2>2. /\ cpc'[c] \in {"stopped", "top", "run"} /\ \A d \in Cpu \ {c} : cpc'[d] = cpc[d]
        /\ \A t \in Thread \ {c} : mode'[t] = mode[t]
        /\ proc[c] # NULL => mode' = mode
    BY <1>0, <1>5 DEF Check, Clock!Park, Clock!Leave, TypeOK
  <2>3. Getting \subseteq Getting' BY <2>1, <2>2 DEF Getting
  <2>4. \A d \in Cpu : Idles(d)' => Idles(d) BY <2>1, <2>2 DEF Idles
  <2>5. mode'[Ld] = mode[Ld] BY <1>0, <2>2
  <2> QED BY <2>1, <2>3, <2>4, <2>5, IdleLess
<1>6. ASSUME NEW c \in Cpu, Run(c) PROVE IdleOK'
  <2>1. /\ UNCHANGED <<ready, proc>> /\ cpc[c] = "run" /\ cpc' = [cpc EXCEPT ![c] = "top"]
        /\ mode' = [mode EXCEPT ![c] = "parked"]
    BY <1>6 DEF Run, EndOfSlot, Clock!Park
  <2>2. proc[c] # NULL BY <1>0, <2>1 DEF ControlOK
  <2>3. Getting \subseteq Getting' BY <1>0, <2>1 DEF Getting, TypeOK
  <2>4. \A d \in Cpu : Idles(d)' => Idles(d) BY <1>0, <2>1, <2>2 DEF Idles, TypeOK
  <2>5. mode'[Ld] = mode[Ld] BY <1>0, <2>1 DEF TypeOK
  <2> QED BY <2>1, <2>3, <2>4, <2>5, IdleLess
<1>7. CASE WaitStart \/ FinishLoading
  <2>1. UNCHANGED <<ready, proc, cpc>> /\ mode[Ld] = "work"
    BY <1>7 DEF WaitStart, FinishLoading
  <2>2. \A d \in Cpu : mode'[d] = mode[d]
    BY <1>0, <1>7 DEF WaitStart, FinishLoading, Clock!Park, Clock!Leave, TypeOK
  <2>3. Getting \subseteq Getting' BY <2>1 DEF Getting
  <2>4. \A d \in Cpu : Idles(d)' => Idles(d) BY <2>1, <2>2 DEF Idles
  <2> QED BY <2>1, <2>3, <2>4, IdleLess
<1>8. CASE AddProc
  <2>1. /\ ready' = ready \cup {next} /\ UNCHANGED <<proc, cpc>> /\ mode[Ld] = "work"
        /\ mode' = [mode EXCEPT ![Ld] = "parked"]
    BY <1>8 DEF AddProc, Enqueue, Clock!Park
  <2>2. \A d \in Cpu : Idles(d)' => Idles(d) BY <1>0, <2>1 DEF Idles, TypeOK
  <2>3. Waiting = 0 /\ Waiting' = 1 BY <1>0, <2>1 DEF Waiting, TypeOK
  <2>4. \/ Cardinality(ready') = Cardinality(ready)
        \/ Cardinality(ready') = Cardinality(ready) + 1
    BY <1>a, <2>1, FS_AddElement
  <2>5. Getting' = Getting BY <2>1 DEF Getting
  <2>6. (\E d \in Cpu : Idles(d)') => Cardinality(ready') <= Cardinality(Getting') + Waiting'
    BY <1>a, <1>b, <2>2, <2>3, <2>4, <2>5
  <2> QED BY <2>6 DEF IdleOK, Getting, Waiting
<1>9. CASE Tick
  <2>1. UNCHANGED cpc BY <1>9 DEF Tick
  <2>2. \A c \in Cpu : mode[c] \in {"parked", "left"} /\ mode'[c] # "parked"
    BY <1>9 DEF Tick, Clock!Release
  <2>3. \A c \in Cpu : cpc[c] # "check" BY <1>0, <2>2 DEF ControlOK
  <2>4. \A c \in Cpu : ~Idles(c)' BY <2>1, <2>2, <2>3 DEF Idles
  <2> QED BY <2>4 DEF IdleOK
<1>10. ASSUME NEW t \in Thread, Resume(t) PROVE IdleOK'
  <2>1. UNCHANGED <<ready, proc, cpc>> BY <1>10 DEF Resume
  <2>2. \A u \in Thread : mode'[u] = "parked" <=> mode[u] = "parked"
    BY <1>0, <1>10 DEF Resume, Clock!Resume, TypeOK
  <2>3. Getting \subseteq Getting' BY <2>1 DEF Getting
  <2>4. \A d \in Cpu : Idles(d)' => Idles(d) BY <2>1, <2>2 DEF Idles
  <2> QED BY <1>0, <2>1, <2>2, <2>3, <2>4, IdleLess
<1>11. CASE UNCHANGED vars
  BY <1>11, IdleLess DEF vars, Getting, Idles
<1> QED BY <1>1, <1>2, <1>3, <1>4, <1>5, <1>6, <1>7, <1>8, <1>9, <1>10, <1>11
        DEF Next, CpuStep, LoaderStep, Terminated

-----------------------------------------------------------------------------
(* The theorems *)

\* It holds before the first slot.
LEMMA InitIInv == ASSUME Init PROVE IInv
<1> USE DEF Init, Clock!Init, Thread
<1>1. /\ NumProcesses \in Nat /\ Horizon \in Nat /\ Ld \notin Cpu
      /\ Size \in [Process -> Nat] /\ \A p \in Process : p >= 1 /\ p \in Int
  BY OsAssumption DEF OsAssumption, Process
<1>2. TypeOK
  <2>1. time \in 0 .. Horizon /\ next \in 1 .. NumProcesses + 1 BY <1>1
  <2>2. mode \in [Thread -> Modes] /\ cpc \in [Cpu -> Labels] BY DEF Modes, Labels
  <2>3. proc \in [Cpu -> Process \cup {NULL}] /\ time_left \in [Cpu -> Int] BY DEF NULL
  <2>4. /\ pc \in [Process -> Nat] /\ used \in [Process -> Nat]
        /\ \A p \in Process : pc[p] <= Size[p]
    BY <1>1
  <2>5. queue_lock = Nobody /\ ready = {} /\ freed = {} /\ ran = {} /\ done = FALSE OBVIOUS
  <2> QED BY <2>1, <2>2, <2>3, <2>4, <2>5 DEF TypeOK, Modes, Labels
<1>3. PlaceOK BY <1>1 DEF PlaceOK, Holds, NULL
<1>4. ControlOK /\ QuantumOK BY <1>1 DEF ControlOK, QuantumOK, InQuantum
<1>5. RanOK BY DEF RanOK
<1>6. StartOK BY <1>1 DEF StartOK
<1>7. StopOK BY <1>1 DEF StopOK
<1>8. IdleOK
  <2>1. \A c \in Cpu : ~Idles(c) BY DEF Idles
  <2> QED BY <2>1 DEF IdleOK
<1> QED BY <1>2, <1>3, <1>4, <1>5, <1>6, <1>7, <1>8 DEF IInv

\* Every step of a CPU, the loader or the clock preserves it.
LEMMA IInvStep ==
  ASSUME AsBuilt = FALSE, Cpu # {}, IInv, [Next]_vars
  PROVE  IInv'
<1>1. TypeOK' /\ queue_lock' = Nobody BY TypeStep
<1>2. IdleOK' BY <1>1, IdleStep
<1> QED BY <1>1, <1>2, PlaceStep, ControlStep, QuantumStep, RanStep, StartStep, StopStep
        DEF IInv

\* The invariant of os.c with a working scheduler: the place, the quantum and the
\* control of every process and CPU stay in step.
THEOREM Inductive ==
  ASSUME AsBuilt = FALSE, Cpu # {}
  PROVE  Spec => []IInv
<1>1. Init => IInv BY InitIInv
<1>2. IInv /\ [Next]_vars => IInv' BY IInvStep
<1> QED BY <1>1, <1>2, PTL DEF Spec, SafeSpec

\* The variables of os.c and its scheduler keep their types.
THEOREM Typing ==
  ASSUME AsBuilt = FALSE, Cpu # {}
  PROVE  Spec => []TypeOK
<1>1. IInv => TypeOK BY DEF IInv
<1> QED BY <1>1, Inductive, PTL

\* put_proc, get_proc and free: a loaded process is queued, on one CPU or freed, and
\* never two of these, however many CPUs pass processes on.
THEOREM ProcessInOnePlace ==
  ASSUME AsBuilt = FALSE, Cpu # {}
  PROVE  Spec => []OnePlace
<1>1. ASSUME IInv PROVE OnePlace
  <2>1. ASSUME NEW p \in Process
        PROVE  Cardinality({c \in Cpu : Holds(c, p)})
                 + (IF p \in ready THEN 1 ELSE 0) + (IF p \in freed THEN 1 ELSE 0)
               = IF p < next THEN 1 ELSE 0
    <3>0. PlaceOK BY <1>1 DEF IInv
    <3> DEFINE H == {c \in Cpu : Holds(c, p)}
               n == Cardinality(H)
    <3> SUFFICES n + (IF p \in ready THEN 1 ELSE 0) + (IF p \in freed THEN 1 ELSE 0)
                 = IF p < next THEN 1 ELSE 0
      OBVIOUS
    <3>1. CASE H = {}
      <4>1. n = 0 BY <3>1, FS_EmptySet
      <4>2. \A c \in Cpu : ~Holds(c, p) BY <3>1
      <4>3. /\ p < next <=> p \in ready \/ p \in freed
            /\ p \notin ready \/ p \notin freed
        BY <3>0, <4>2 DEF PlaceOK
      <4> HIDE DEF n
      <4> QED BY <4>1, <4>3
    <3>2. CASE H # {}
      <4>1. PICK c \in Cpu : Holds(c, p) BY <3>2
      <4>2. /\ p < next /\ p \notin ready /\ p \notin freed
            /\ \A d \in Cpu : Holds(d, p) => c = d
        BY <3>0, <4>1 DEF PlaceOK
      <4>3. H = {c} BY <4>1, <4>2
      <4>4. n = 1 BY <4>3, FS_Singleton
      <4> HIDE DEF n
      <4> QED BY <4>2, <4>4
    <3> QED BY <3>1, <3>2
  <2> QED BY <2>1 DEF OnePlace
<1> QED BY <1>1, Inductive, PTL

\* cpu_routine: a process is put back exactly when its quantum is used up, and the
\* next one starts with a quantum of its own.
THEOREM WholeQuantum ==
  ASSUME AsBuilt = FALSE, Cpu # {}
  PROVE  Spec => []FullQuantum
<1>1. ASSUME IInv PROVE FullQuantum
  <2>1. ASSUME NEW c \in Cpu, At(c, "put") PROVE used[proc[c]] = TimeSlot
    <3>1. cpc[c] = "put" /\ proc[c] # NULL /\ time_left[c] = 0 /\ proc[c] \in Process
      BY <1>1, <2>1 DEF At, IInv, ControlOK, QuantumOK, TypeOK
    <3>2. used[proc[c]] + time_left[c] = TimeSlot
      BY <1>1, <3>1 DEF IInv, QuantumOK, InQuantum
    <3>3. used[proc[c]] \in Nat BY <1>1, <3>1 DEF IInv, TypeOK
    <3> QED BY <3>1, <3>2, <3>3
  <2>2. \A c \in Cpu : proc[c] = NULL => time_left[c] = 0 BY <1>1 DEF IInv, QuantumOK
  <2> QED BY <2>1, <2>2 DEF FullQuantum
<1> QED BY <1>1, Inductive, PTL

\* ld_routine: no process runs before its start time.
THEOREM StartsOnTime ==
  ASSUME AsBuilt = FALSE, Cpu # {}
  PROVE  Spec => []NotBeforeStart
<1>1. IInv => NotBeforeStart BY DEF IInv, StartOK, NotBeforeStart
<1> QED BY <1>1, Inductive, PTL

\* cpu_routine reads done without a lock after it has found the queue empty, and yet
\* when all CPUs have stopped every process has been run to its end.
THEOREM NobodyLeft ==
  ASSUME AsBuilt = FALSE, Cpu # {}
  PROVE  Spec => []NoneAbandoned
<1>1. ASSUME IInv, \A c \in Cpu : cpc[c] = "stopped" PROVE freed = Process
  <2>1. TypeOK /\ PlaceOK /\ ControlOK /\ StopOK BY <1>1 DEF IInv
  <2>2. done /\ mode[Ld] = "left" /\ next = NumProcesses + 1 BY <1>1, <2>1 DEF StopOK
  <2>3. ready = {} BY <1>1, <2>1, <2>2 DEF StopOK, GivesUp
  <2>4. ASSUME NEW p \in Process PROVE p \in freed
    <3>1. p < next
      <4>1. NumProcesses \in Nat BY OsAssumption DEF OsAssumption
      <4> QED BY <2>2, <4>1 DEF Process
    <3>2. \A c \in Cpu : ~Holds(c, p)
      <4>1. p # NULL BY DEF Process, NULL
      <4> QED BY <1>1, <2>1, <4>1 DEF Holds, ControlOK
    <3> QED BY <2>1, <2>3, <3>1, <3>2 DEF PlaceOK
  <2> QED BY <2>1, <2>4 DEF TypeOK
<1>2. IInv => NoneAbandoned BY <1>1 DEF NoneAbandoned
<1> QED BY <1>2, Inductive, PTL

\* cpu_routine: a slot is wasted only for want of a process; at its end the queue
\* holds at most what the loader has added in it.
THEOREM IdlesForWant ==
  ASSUME AsBuilt = FALSE, Cpu # {}
  PROVE  Spec => []IdleOnlyForNew
<1>1. ASSUME IInv, \A t \in Thread : mode[t] \in {"parked", "left"},
             NEW c \in Cpu, mode[c] = "parked", proc[c] = NULL
      PROVE  Cardinality(ready) <= 1
  <2>1. TypeOK /\ ControlOK /\ IdleOK BY <1>1 DEF IInv
  <2>2. Getting = {} BY <1>1, <2>1 DEF Getting, ControlOK, Thread
  <2>3. Cardinality(Getting) = 0 BY <2>2, FS_EmptySet
  <2>4. Cardinality(ready) <= Cardinality(Getting) + Waiting
    BY <1>1, <2>1 DEF IdleOK, Idles, Getting, Waiting
  <2>5. Waiting \in {0, 1} BY DEF Waiting
  <2>6. Cardinality(ready) \in Nat BY <2>1, CountFacts DEF TypeOK
  <2> QED BY <2>3, <2>4, <2>5, <2>6
<1>2. IInv => IdleOnlyForNew BY <1>1 DEF IdleOnlyForNew
<1> QED BY <1>2, Inductive, PTL

\* cpu_routine: a process that one CPU puts back and another takes in the same slot
\* does not run in it a second time.
THEOREM RunsOncePerSlot ==
  ASSUME AsBuilt = FALSE, Cpu # {}
  PROVE  Spec => OncePerSlot
<1>1. ASSUME IInv, NEW c \in Cpu, NEW p \in Process, Run(c), proc[c] = p
      PROVE  p \notin ran
  <2>1. SUFFICES ASSUME p \in ran PROVE FALSE OBVIOUS
  <2>2. PICK d \in Cpu : proc[d] = p /\ cpc[d] = "top" /\ mode[d] = "parked"
    BY <1>1, <2>1 DEF IInv, RanOK
  <2>3. cpc[c] = "run" BY <1>1 DEF Run, At
  <2>4. Holds(c, p) /\ Holds(d, p) BY <1>1, <2>2, <2>3 DEF Holds
  <2>5. c = d BY <1>1, <2>4 DEF IInv, PlaceOK
  <2> QED BY <2>2, <2>3, <2>5
<1>2. IInv => \A c \in Cpu, p \in Process : Run(c) /\ proc[c] = p => p \notin ran BY <1>1
<1> QED BY <1>2, Inductive, PTL DEF OncePerSlot, Spec, SafeSpec

-----------------------------------------------------------------------------
(* A quantum of zero *)

\* Only the CPU that holds a process counts its slots.
LEMMA HadSlotStep ==
  ASSUME AsBuilt = FALSE, IInv, HadSlot, [Next]_vars
  PROVE  HadSlot'
<1> USE DEF clockVars, schedVars, cpuVars, procVars, Goto, At
<1>0. /\ TypeOK /\ cpc \in [Cpu -> Labels] /\ proc \in [Cpu -> Process \cup {NULL}]
      /\ used \in [Process -> Nat] /\ NULL \notin Process
      /\ \A c \in Cpu : proc[c] # NULL => proc[c] \in Process
  BY TypeFacts DEF IInv, Process, NULL
<1>1. ASSUME NEW c \in Cpu, Top(c) PROVE HadSlot'
  <2>1. /\ UNCHANGED <<proc, used>>
        /\ \E l \in {"get_idle", "get", "put", "check"} : cpc' = [cpc EXCEPT ![c] = l]
    BY <1>1 DEF Top
  <2>2. cpc'[c] # "top" /\ \A d \in Cpu \ {c} : cpc'[d] = cpc[d] BY <1>0, <2>1
  <2> QED BY <2>1, <2>2 DEF HadSlot
<1>2. ASSUME NEW c \in Cpu, GetIdle(c) \/ Put(c) \/ Get(c) PROVE HadSlot'
  <2>1. /\ used' = used /\ \A d \in Cpu \ {c} : cpc'[d] = cpc[d] /\ proc'[d] = proc[d]
        /\ cpc'[c] = "top" => proc'[c] = NULL
    BY <1>0, <1>2 DEF GetIdle, Put, Get
  <2> QED BY <2>1 DEF HadSlot
<1>3. ASSUME NEW c \in Cpu, Check(c) PROVE HadSlot'
  <2>1. cpc[c] = "check" /\ proc' = proc BY <1>3 DEF Check
  <2>2. CASE proc[c] = NULL
    <3>1. used' = used /\ \A d \in Cpu \ {c} : cpc'[d] = cpc[d] BY <1>0, <1>3, <2>2 DEF Check
    <3> QED BY <2>1, <2>2, <3>1 DEF HadSlot
  <2>3. CASE proc[c] # NULL
    <3>1. cpc' = [cpc EXCEPT ![c] = "run"] /\ (used' = used \/ used' = [used EXCEPT ![proc[c]] = 0])
      BY <1>3, <2>3 DEF Check
    <3>2. cpc'[c] = "run" /\ \A d \in Cpu \ {c} : cpc'[d] = cpc[d] BY <1>0, <3>1
    <3>3. ASSUME NEW d \in Cpu \ {c}, cpc[d] = "top", proc[d] # NULL PROVE proc[d] # proc[c]
      <4>1. SUFFICES ASSUME proc[d] = proc[c] PROVE FALSE OBVIOUS
      <4>2. Holds(c, proc[c]) /\ Holds(d, proc[c]) BY <2>1, <3>3, <4>1 DEF Holds
      <4> QED BY <1>0, <2>3, <4>2 DEF IInv, PlaceOK
    <3>4. \A d \in Cpu \ {c} : cpc[d] = "top" /\ proc[d] # NULL => used'[proc[d]] = used[proc[d]]
      BY <1>0, <3>1, <3>3
    <3> QED BY <2>1, <3>2, <3>4 DEF HadSlot
  <2> QED BY <2>2, <2>3
<1>4. ASSUME NEW c \in Cpu, Run(c) PROVE HadSlot'
  <2>1. /\ cpc[c] = "run" /\ proc' = proc /\ cpc' = [cpc EXCEPT ![c] = "top"]
        /\ used' = [used EXCEPT ![proc[c]] = @ + 1]
    BY <1>4 DEF Run
  <2>2. proc[c] \in Process BY <1>0, <2>1 DEF IInv, ControlOK
  <2>3. used'[proc[c]] = used[proc[c]] + 1 /\ \A p \in Process \ {proc[c]} : used'[p] = used[p]
    BY <1>0, <2>1, <2>2
  <2>4. used[proc[c]] \in Nat /\ \A d \in Cpu \ {c} : cpc'[d] = cpc[d] BY <1>0, <2>1, <2>2
  <2>5. ASSUME NEW d \in Cpu, cpc'[d] = "top", proc[d] # NULL PROVE used'[proc[d]] > 0
    <3>1. CASE proc[d] = proc[c] BY <2>3, <2>4, <3>1
    <3>2. CASE proc[d] # proc[c]
      <4>1. d # c /\ cpc[d] = "top" BY <2>4, <2>5, <3>2
      <4>2. used[proc[d]] > 0 BY <2>5, <4>1 DEF HadSlot
      <4> QED BY <1>0, <2>3, <2>5, <3>2, <4>2
    <3> QED BY <3>1, <3>2
  <2> QED BY <2>1, <2>5 DEF HadSlot
<1>5. CASE LoaderStep \/ Tick \/ (\E t \in Thread : Resume(t)) \/ UNCHANGED vars
  <2>1. UNCHANGED <<cpc, proc, used>>
    BY <1>5 DEF LoaderStep, WaitStart, AddProc, FinishLoading, Tick, Resume, vars
  <2> QED BY <2>1 DEF HadSlot
<1> QED BY <1>1, <1>2, <1>3, <1>4, <1>5 DEF Next, CpuStep, Terminated

\* With no slots in a quantum, the test for the end of one comes too late for ever.
LEMMA NeverPutBackStep ==
  ASSUME AsBuilt = FALSE, TimeSlot = 0, IInv, HadSlot, NeverPutBack, [Next]_vars
  PROVE  NeverPutBack'
<1> USE DEF clockVars, schedVars, cpuVars, procVars, Goto, At
<1>0. /\ TypeOK /\ cpc \in [Cpu -> Labels] /\ proc \in [Cpu -> Process \cup {NULL}]
      /\ time_left \in [Cpu -> Int] /\ used \in [Process -> Nat] /\ pc \in [Process -> Nat]
      /\ \A c \in Cpu : proc[c] # NULL => proc[c] \in Process
  BY TypeFacts DEF IInv, TypeOK
<1>1. ASSUME NEW c \in Cpu, Top(c) PROVE NeverPutBack'
  <2>1. cpc[c] = "top" /\ UNCHANGED <<proc, pc>> BY <1>1 DEF Top
  <2>2. \E l : cpc' = [cpc EXCEPT ![c] = l] BY <1>1 DEF Top
  <2>3. \A d \in Cpu \ {c} : cpc'[d] = cpc[d] BY <1>0, <2>2
  <2>4. proc[c] = NULL \/ Finished(proc[c]) \/ time_left[c] # 0
    <3>1. SUFFICES ASSUME proc[c] # NULL, time_left[c] = 0 PROVE FALSE OBVIOUS
    <3>2. used[proc[c]] > 0 /\ used[proc[c]] \in Nat BY <1>0, <2>1, <3>1 DEF HadSlot
    <3>3. used[proc[c]] + time_left[c] = 0 BY <2>1, <3>1 DEF IInv, QuantumOK, InQuantum
    <3> QED BY <3>1, <3>2, <3>3
  <2>5. cpc'[c] # "put" /\ (cpc'[c] = "get" => Finished(proc[c]))
    BY <1>0, <1>1, <2>4 DEF Top
  <2> QED BY <2>1, <2>3, <2>5 DEF NeverPutBack, Finished
<1>2. ASSUME NEW c \in Cpu, GetIdle(c) \/ Put(c) \/ Get(c) \/ Check(c) PROVE NeverPutBack'
  <2>1. /\ pc' = pc /\ \A d \in Cpu \ {c} : cpc'[d] = cpc[d] /\ proc'[d] = proc[d]
    BY <1>0, <1>2 DEF GetIdle, Put, Get, Check
  <2>2. ~Put(c) BY DEF NeverPutBack, Put
  <2>3. cpc'[c] \notin {"put", "get"} BY <1>0, <1>2, <2>2 DEF GetIdle, Get, Check
  <2> QED BY <2>1, <2>3 DEF NeverPutBack, Finished
<1>3. ASSUME NEW c \in Cpu, Run(c) PROVE NeverPutBack'
  <2>1. /\ cpc[c] = "run" /\ proc' = proc /\ cpc' = [cpc EXCEPT ![c] = "top"]
        /\ pc' = pc \/ (pc[proc[c]] < Size[proc[c]] /\ pc' = [pc EXCEPT ![proc[c]] = @ + 1])
    BY <1>3 DEF Run, Step
  <2>2. \A d \in Cpu : cpc'[d] \in {"put", "get"} => cpc'[d] = cpc[d] BY <1>0, <2>1
  <2>3. ASSUME NEW d \in Cpu, cpc[d] = "get" PROVE Finished(proc[d])'
    <3>1. pc[proc[d]] = Size[proc[d]] BY <2>3 DEF NeverPutBack, Finished
    <3>2. pc'[proc[d]] = pc[proc[d]]
      <4>1. CASE pc' = pc BY <4>1
      <4>2. CASE pc[proc[c]] < Size[proc[c]] /\ pc' = [pc EXCEPT ![proc[c]] = @ + 1]
        <5>1. proc[c] # NULL /\ proc[c] \in Process BY <1>0, <2>1 DEF IInv, ControlOK
        <5>2. pc[proc[c]] # Size[proc[c]]
          <6>1. pc[proc[c]] \in Int /\ Size[proc[c]] \in Int
            BY <1>0, <5>1, OsAssumption DEF OsAssumption
          <6> QED BY <4>2, <6>1
        <5>3. proc[d] # proc[c] BY <3>1, <5>2
        <5> QED BY <1>0, <4>2, <5>3
      <4> QED BY <2>1, <4>1, <4>2
    <3> QED BY <2>1, <3>1, <3>2 DEF Finished
  <2> QED BY <2>2, <2>3 DEF NeverPutBack
<1>4. CASE LoaderStep \/ Tick \/ (\E t \in Thread : Resume(t)) \/ UNCHANGED vars
  <2>1. UNCHANGED <<cpc, proc, pc>>
    BY <1>4 DEF LoaderStep, WaitStart, AddProc, FinishLoading, Tick, Resume, vars
  <2> QED BY <2>1 DEF NeverPutBack, Finished
<1> QED BY <1>1, <1>2, <1>3, <1>4 DEF Next, CpuStep, Terminated

\* time_slot is read from the config file unchecked: with 0 in it no process is ever
\* put back, although others wait.
THEOREM ZeroQuantum ==
  ASSUME AsBuilt = FALSE, Cpu # {}, TimeSlot = 0
  PROVE  Spec => []NeverPutBack
<1> DEFINE ZInv == IInv /\ HadSlot /\ NeverPutBack
<1>1. Init => ZInv
  <2>1. SUFFICES ASSUME Init PROVE HadSlot /\ NeverPutBack BY InitIInv
  <2>2. \A c \in Cpu : cpc[c] = "top" /\ proc[c] = NULL BY <2>1 DEF Init
  <2> QED BY <2>2 DEF HadSlot, NeverPutBack
<1>2. ZInv /\ [Next]_vars => ZInv' BY IInvStep, HadSlotStep, NeverPutBackStep
<1>3. ZInv => NeverPutBack OBVIOUS
<1> HIDE DEF ZInv
<1> QED BY <1>1, <1>2, <1>3, PTL DEF Spec, SafeSpec

\* The CPU that a process is dispatched to first runs it to its end.
THEOREM ZeroQuantumRunsToEnd ==
  ASSUME AsBuilt = FALSE, Cpu # {}, TimeSlot = 0
  PROVE  Spec => RunsToEnd
<1>1. ASSUME IInv, NeverPutBack, [Next]_vars, NEW c \in Cpu, proc[c] # NULL, proc'[c] # proc[c]
      PROVE  Finished(proc[c])
  <2>1. proc \in [Cpu -> Process \cup {NULL}] BY <1>1 DEF IInv, TypeOK
  <2>2. PICK d \in Cpu : GetIdle(d) \/ Get(d)
    BY <1>1 DEF Next, CpuStep, Top, Put, Check, Run, LoaderStep, WaitStart, AddProc,
       FinishLoading, Tick, Resume, Terminated, vars, cpuVars
  <2>3. d = c BY <1>1, <2>1, <2>2 DEF GetIdle, Get
  <2>4. ~GetIdle(c) BY <1>1 DEF GetIdle, At, IInv, ControlOK
  <2>5. cpc[c] = "get" BY <2>2, <2>3, <2>4 DEF Get, At
  <2> QED BY <1>1, <2>5 DEF NeverPutBack
<1>2. IInv /\ NeverPutBack /\ [Next]_vars =>
        [\A c \in Cpu : proc[c] # NULL /\ proc'[c] # proc[c] => Finished(proc[c])]_vars
  BY <1>1
<1> QED BY <1>2, Inductive, ZeroQuantum, PTL DEF Spec, SafeSpec, RunsToEnd

-----------------------------------------------------------------------------
(* The scheduler as built *)

\* At the start nobody has asked for a process.
LEMMA InitStuck == ASSUME Init PROVE Stuck
<1>1. TypeOK BY InitIInv DEF IInv
<1>2. /\ ready = {} /\ freed = {} /\ ran = {} /\ time = 0 /\ queue_lock = Nobody
      /\ \A c \in Cpu : cpc[c] = "top" /\ proc[c] = NULL /\ mode[c] = "work" /\ c # Nobody
      /\ \A p \in Process : pc[p] = 0
  BY OsAssumption DEF Init, Clock!Init, Thread, OsAssumption
<1> QED BY <1>1, <1>2 DEF Stuck, NothingRuns, LockKept

\* get_mlq_proc keeps the lock and returns NULL, and enqueue adds nothing.
LEMMA StuckStep ==
  ASSUME AsBuilt = TRUE, Cpu # {}, Stuck, [Next]_vars
  PROVE  Stuck'
<1> USE DEF clockVars, schedVars, cpuVars, procVars, Goto, At
<1>0. /\ TypeOK /\ NothingRuns /\ LockKept /\ Cpu \subseteq Thread /\ Ld \notin Cpu
      /\ cpc \in [Cpu -> Labels] /\ proc \in [Cpu -> Process \cup {NULL}]
      /\ mode \in [Thread -> Modes] /\ NULL \notin Process /\ Nobody \notin Cpu
      /\ next \in 1 .. NumProcesses + 1 /\ NumProcesses \in Nat /\ time \in 0 .. Horizon
      /\ Horizon \in Nat /\ queue_lock \in Cpu \cup {Nobody}
  <2>1. TypeOK /\ NothingRuns /\ LockKept BY DEF Stuck
  <2>2. /\ Cpu \subseteq Thread /\ Ld \notin Cpu /\ Nobody \notin Cpu
        /\ NumProcesses \in Nat /\ Horizon \in Nat
    BY OsAssumption DEF OsAssumption, Thread
  <2>3. NULL \notin Process BY DEF NULL, Process
  <2>4. /\ next \in 1 .. NumProcesses + 1 /\ time \in 0 .. Horizon /\ queue_lock \in Cpu \cup {Nobody}
    BY <2>1 DEF TypeOK
  <2> QED BY <2>1, <2>2, <2>3, <2>4, TypeFacts
<1>1. ASSUME NEW c \in Cpu, CpuStep(c) PROVE Stuck'
  <2>0. cpc[c] \in {"top", "get_idle"} /\ proc[c] = NULL BY <1>0 DEF NothingRuns
  <2>1. Top(c) \/ GetIdle(c) BY <1>1, <2>0 DEF CpuStep, Put, Get, Check, Run
  <2>2. CASE Top(c)
    <3>1. /\ cpc' = [cpc EXCEPT ![c] = "get_idle"]
          /\ UNCHANGED <<time, mode, queue_lock, ready, done, next, proc, time_left, pc, freed, used, ran>>
      BY <2>0, <2>2 DEF Top
    <3>2. cpc' \in [Cpu -> Labels] /\ \A d \in Cpu : cpc'[d] \in {"top", "get_idle"}
      BY <1>0, <3>1 DEF Labels, NothingRuns
    <3> QED BY <1>0, <3>1, <3>2 DEF Stuck, TypeOK, Labels, NothingRuns, LockKept
  <2>3. CASE GetIdle(c)
    <3>1. /\ queue_lock = Nobody /\ queue_lock' = c /\ ready' = ready \ {NULL}
          /\ proc' = [proc EXCEPT ![c] = NULL] /\ cpc' = [cpc EXCEPT ![c] = "top"]
          /\ mode[c] = "work" /\ mode' = [mode EXCEPT ![c] = "parked"]
          /\ UNCHANGED <<time, done, next, time_left, pc, freed, used, ran>>
      BY <2>3 DEF GetIdle, GetProc, Clock!Park
    <3>2. cpc' \in [Cpu -> Labels] /\ \A d \in Cpu : cpc'[d] \in {"top", "get_idle"}
      BY <1>0, <3>1 DEF Labels, NothingRuns
    <3>3. ready' = {} /\ proc' = proc BY <1>0, <2>0, <3>1 DEF NothingRuns
    <3>4. mode' \in [Thread -> Modes] BY <1>0, <3>1 DEF Modes
    <3>5. LockKept'
      <4>1. time = 0 /\ \A d \in Cpu : mode[d] = "work" BY <1>0, <3>1 DEF LockKept
      <4>2. \A d \in Cpu : mode'[d] = IF c = d THEN "parked" ELSE "work" BY <1>0, <3>1, <4>1
      <4> QED BY <3>1, <4>1, <4>2 DEF LockKept
    <3> QED BY <1>0, <3>1, <3>2, <3>3, <3>4, <3>5 DEF Stuck, TypeOK, Labels, Modes, NothingRuns
  <2> QED BY <2>1, <2>2, <2>3
<1>2. CASE LoaderStep
  <2>1. UNCHANGED <<time, queue_lock, ready, cpc, proc, time_left, pc, freed, used, ran>>
    BY <1>2 DEF LoaderStep, WaitStart, AddProc, FinishLoading, Enqueue
  <2>2. /\ mode' = [mode EXCEPT ![Ld] = "parked"] \/ mode' = [mode EXCEPT ![Ld] = "left"]
        /\ done' \in BOOLEAN
    BY <1>0, <1>2 DEF LoaderStep, WaitStart, AddProc, FinishLoading, Clock!Park, Clock!Leave, TypeOK
  <2>3. mode' \in [Thread -> Modes] /\ \A c \in Cpu : mode'[c] = mode[c]
    BY <1>0, <2>2 DEF Modes
  <2>4. next' \in 1 .. NumProcesses + 1
    <3>1. next' = next \/ (next <= NumProcesses /\ next' = next + 1)
      BY <1>0, <1>2 DEF LoaderStep, WaitStart, AddProc, FinishLoading, AllLoaded
    <3> QED BY <1>0, <3>1
  <2>5. TypeOK' BY <1>0, <2>1, <2>2, <2>3, <2>4 DEF TypeOK, Modes
  <2>6. NothingRuns' BY <1>0, <2>1 DEF NothingRuns
  <2>7. LockKept' BY <1>0, <2>1, <2>3 DEF LockKept
  <2> QED BY <2>5, <2>6, <2>7 DEF Stuck
<1>3. CASE Tick
  <2>1. /\ \A t \in Thread : mode[t] \in {"parked", "left"}
        /\ mode' = [t \in Thread |-> IF mode[t] = "parked" THEN "released" ELSE "left"]
        /\ time' = IF time < Horizon THEN time + 1 ELSE time
        /\ ran' = {}
        /\ UNCHANGED <<queue_lock, ready, done, next, cpc, proc, time_left, pc, freed, used>>
    BY <1>3 DEF Tick, Clock!Release
  <2>2. time = 0 /\ \A c \in Cpu : queue_lock = c /\ mode[c] = "parked"
    BY <1>0, <2>1 DEF LockKept
  <2>3. LockKept'
    <3>1. time' <= 1 /\ queue_lock # Nobody BY <1>0, <2>1, <2>2
    <3>2. \A c \in Cpu : mode'[c] = "released" BY <1>0, <2>1, <2>2
    <3> QED BY <2>1, <3>1, <3>2 DEF LockKept
  <2>4. mode' \in [Thread -> Modes] /\ time' \in 0 .. Horizon BY <1>0, <2>1 DEF Modes
  <2> QED BY <1>0, <2>1, <2>3, <2>4 DEF Stuck, TypeOK, Modes, NothingRuns
<1>4. ASSUME NEW t \in Thread, Resume(t) PROVE Stuck'
  <2>1. /\ mode[t] = "released" /\ mode' = [mode EXCEPT ![t] = "work"]
        /\ UNCHANGED <<time, queue_lock, ready, done, next, cpc, proc, time_left, pc, freed, used, ran>>
    BY <1>4 DEF Resume, Clock!Resume
  <2>2. mode' \in [Thread -> Modes] BY <1>0, <2>1 DEF Modes
  <2>3. LockKept'
    <3>1. CASE \E c \in Cpu : mode[c] = "released"
      <4>1. /\ time <= 1 /\ queue_lock # Nobody /\ \A c \in Cpu : mode[c] \in {"released", "work"}
        BY <1>0, <3>1 DEF LockKept
      <4>2. \A c \in Cpu : mode'[c] \in {"released", "work"} BY <1>0, <2>1, <4>1
      <4> QED BY <2>1, <4>1, <4>2 DEF LockKept
    <3>2. CASE ~\E c \in Cpu : mode[c] = "released"
      <4>1. \A c \in Cpu : mode'[c] = mode[c] BY <1>0, <2>1, <3>2
      <4> QED BY <1>0, <2>1, <4>1 DEF LockKept
    <3> QED BY <3>1, <3>2
  <2> QED BY <1>0, <2>1, <2>2, <2>3 DEF Stuck, TypeOK, Modes, NothingRuns
<1>5. CASE UNCHANGED vars BY <1>0, <1>5 DEF vars, Stuck, TypeOK, NothingRuns, LockKept
<1> QED BY <1>1, <1>2, <1>3, <1>4, <1>5 DEF Next, Terminated

\* sched.c and queue.c as they are: the first call of get_mlq_proc is the last that
\* returns, no process ever runs, and the clock does not get past slot 1.
THEOREM AsBuiltStuck ==
  ASSUME AsBuilt = TRUE, Cpu # {}
  PROVE  Spec => []Stuck
<1>1. Init => Stuck BY InitStuck
<1>2. Stuck /\ [Next]_vars => Stuck' BY StuckStep
<1> QED BY <1>1, <1>2, PTL DEF Spec, SafeSpec

\* What the expected outputs show does not happen, whatever the config file says.
THEOREM AsBuiltNoneFinishes ==
  ASSUME AsBuilt = TRUE, Cpu # {}
  PROVE  Spec => ~SomeFinishes
<1>1. Stuck => ~(freed # {}) BY DEF Stuck, NothingRuns
<1> QED BY <1>1, AsBuiltStuck, PTL DEF SomeFinishes

\* Nor does any CPU stop.
THEOREM AsBuiltNoneStops ==
  ASSUME AsBuilt = TRUE, Cpu # {}
  PROVE  Spec => ~CpusStop
<1>1. Stuck => ~(\A c \in Cpu : cpc[c] = "stopped") BY DEF Stuck, NothingRuns
<1> QED BY <1>1, AsBuiltStuck, PTL DEF CpusStop
=============================================================================

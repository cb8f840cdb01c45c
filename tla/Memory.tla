-------------------------------- MODULE Memory --------------------------------
(***************************************************************************)
(* What the paging code of libmem.c promises the CPUs: a page keeps its    *)
(* value wherever it is, a read returns it, a write replaces it, and a     *)
(* call that fails changes nothing.                                        *)
(***************************************************************************)
CONSTANTS Thread, Page, Val,
          Unmapped,               \* a page that has no value yet
          NoCall,                 \* a thread that is not in a call
          Pending, Done, Failed   \* results of a call, besides the value read

VARIABLES mem,     \* the value of each page
          call,    \* the call each thread is in
          ret      \* its result

vars == <<mem, call, ret>>

Calls == [reads : BOOLEAN, pgn : Page, val : Val]

\* Some pages may be there from the start.
Init ==
  /\ mem \in [Page -> Val \cup {Unmapped}]
  /\ call = [t \in Thread |-> NoCall]
  /\ ret = [t \in Thread |-> Pending]

\* A page comes into being with some value.
Map(p) ==
  /\ mem[p] = Unmapped
  /\ \E v \in Val : mem' = [mem EXCEPT ![p] = v]
  /\ UNCHANGED <<call, ret>>

Call(t) ==
  /\ call[t] = NoCall
  /\ \E c \in Calls : call' = [call EXCEPT ![t] = c]
  /\ UNCHANGED <<mem, ret>>

Read(t) ==
  /\ ret[t] = Pending /\ call[t] # NoCall /\ call[t].reads
  /\ mem[call[t].pgn] # Unmapped
  /\ ret' = [ret EXCEPT ![t] = mem[call[t].pgn]]
  /\ UNCHANGED <<mem, call>>

Write(t) ==
  /\ ret[t] = Pending /\ call[t] # NoCall /\ ~call[t].reads
  /\ mem[call[t].pgn] # Unmapped
  /\ mem' = [mem EXCEPT ![call[t].pgn] = call[t].val]
  /\ ret' = [ret EXCEPT ![t] = Done]
  /\ UNCHANGED call

Fail(t) ==
  /\ ret[t] = Pending /\ call[t] # NoCall
  /\ ret' = [ret EXCEPT ![t] = Failed]
  /\ UNCHANGED <<mem, call>>

Return(t) ==
  /\ ret[t] # Pending
  /\ ret' = [ret EXCEPT ![t] = Pending]
  /\ call' = [call EXCEPT ![t] = NoCall]
  /\ UNCHANGED mem

Next ==
  \/ \E p \in Page : Map(p)
  \/ \E t \in Thread : Call(t) \/ Read(t) \/ Write(t) \/ Fail(t) \/ Return(t)

Spec == Init /\ [][Next]_vars
=============================================================================

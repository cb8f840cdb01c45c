---------------------------- MODULE FreeListProofs ----------------------------
(***************************************************************************)
(* What get_free_vmrg_area and enlist_vm_freerg_list do to the list, for   *)
(* lists of any length.                                                    *)
(***************************************************************************)
EXTENDS FreeList, TLAPS

\* Taking size bytes from node i leaves, for each node of the new list, a node of
\* the old list that it is the end of; no two new nodes share one, and what is left
\* of node i starts after the bytes taken.
LEMMA TakeFacts ==
  ASSUME NEW s \in Seq(Rg), NEW i \in DOMAIN s, NEW size \in Nat, Fits(s[i], size)
  PROVE  /\ Take(s, i, size) \in Seq(Rg)
         /\ \E f \in [DOMAIN Take(s, i, size) -> DOMAIN s] :
              /\ \A j, k \in DOMAIN Take(s, i, size) : f[j] = f[k] => j = k
              /\ \A j \in DOMAIN Take(s, i, size) :
                   /\ s[f[j]].start <= Take(s, i, size)[j].start
                   /\ Take(s, i, size)[j].end = s[f[j]].end
                   /\ f[j] = i => s[i].start + size <= Take(s, i, size)[j].start
<1> DEFINE t == Take(s, i, size)
<1>0. Len(s) \in Nat /\ DOMAIN s = 1 .. Len(s) /\ \A j \in 1 .. Len(s) : s[j] \in Rg
  OBVIOUS
<1>1. CASE s[i].start + size < s[i].end
  <2>1. t = [s EXCEPT ![i] = [start |-> s[i].start + size, end |-> s[i].end]] BY <1>1 DEF Take
  <2>2. [start |-> s[i].start + size, end |-> s[i].end] \in Rg BY <1>0, <1>1 DEF Rg
  <2>3. t \in Seq(Rg) /\ DOMAIN t = DOMAIN s BY <2>1, <2>2
  <2>4. \A j \in DOMAIN s :
          t[j] = IF j = i THEN [start |-> s[i].start + size, end |-> s[i].end] ELSE s[j]
    BY <2>1
  <2> DEFINE f == [j \in DOMAIN s |-> j]
  <2>5. \A j \in DOMAIN t : /\ s[f[j]].start <= t[j].start /\ t[j].end = s[f[j]].end
                            /\ f[j] = i => s[i].start + size <= t[j].start
    <3> SUFFICES ASSUME NEW j \in DOMAIN t
                 PROVE  /\ s[j].start <= t[j].start /\ t[j].end = s[j].end
                        /\ j = i => s[i].start + size <= t[j].start
      BY <2>3
    <3>1. j \in DOMAIN s /\ s[j] \in Rg /\ s[i] \in Rg BY <1>0, <2>3
    <3> HIDE DEF t, f
    <3>2. CASE j = i BY <2>4, <3>1, <3>2 DEF Rg
    <3>3. CASE j # i BY <2>4, <3>1, <3>3 DEF Rg
    <3> QED BY <3>2, <3>3
  <2>6. f \in [DOMAIN t -> DOMAIN s] /\ \A j, k \in DOMAIN t : f[j] = f[k] => j = k BY <2>3
  <2> HIDE DEF t, f
  <2> QED BY <2>3, <2>5, <2>6 DEF t
<1>2. CASE ~(s[i].start + size < s[i].end) /\ i < Len(s)
  <2>1. t = [j \in 1 .. Len(s) - 1 |-> IF j < i THEN s[j] ELSE s[j + 1]] BY <1>2 DEF Take, Unlink
  <2>2. \A j \in 1 .. Len(s) - 1 : j \in 1 .. Len(s) /\ j + 1 \in 1 .. Len(s) BY <1>0
  <2>3. t \in Seq(Rg) /\ DOMAIN t = 1 .. Len(s) - 1 BY <1>0, <1>2, <2>1, <2>2
  <2> DEFINE f == [j \in 1 .. Len(s) - 1 |-> IF j < i THEN j ELSE j + 1]
  <2>4. f \in [DOMAIN t -> DOMAIN s] BY <1>0, <2>2, <2>3
  <2>5. \A j, k \in DOMAIN t : f[j] = f[k] => j = k BY <1>0, <2>3
  <2>6. \A j \in DOMAIN t : f[j] # i /\ t[j] = s[f[j]] BY <1>0, <2>1, <2>3
  <2> HIDE DEF t, f
  <2>7. \A j \in DOMAIN t : s[f[j]].start <= t[j].start
    <3> SUFFICES ASSUME NEW j \in DOMAIN t PROVE s[f[j]].start <= t[j].start OBVIOUS
    <3>1. s[f[j]] \in Rg BY <1>0, <2>4
    <3> QED BY <2>6, <3>1 DEF Rg
  <2> QED BY <2>3, <2>4, <2>5, <2>6, <2>7 DEF t
<1>3. CASE ~(s[i].start + size < s[i].end) /\ i = Len(s)
  <2>1. t = [s EXCEPT ![i] = [start |-> s[i].end, end |-> s[i].end]] BY <1>3 DEF Take, Unlink
  <2>2. [start |-> s[i].end, end |-> s[i].end] \in Rg BY <1>0 DEF Rg
  <2>3. t \in Seq(Rg) /\ DOMAIN t = DOMAIN s BY <2>1, <2>2
  <2>4. \A j \in DOMAIN s : t[j] = IF j = i THEN [start |-> s[i].end, end |-> s[i].end] ELSE s[j]
    BY <2>1
  <2> DEFINE f == [j \in DOMAIN s |-> j]
  <2>5. \A j \in DOMAIN t : /\ s[f[j]].start <= t[j].start /\ t[j].end = s[f[j]].end
                            /\ f[j] = i => s[i].start + size <= t[j].start
    <3> SUFFICES ASSUME NEW j \in DOMAIN t
                 PROVE  /\ s[j].start <= t[j].start /\ t[j].end = s[j].end
                        /\ j = i => s[i].start + size <= t[j].start
      BY <2>3
    <3>1. j \in DOMAIN s /\ s[j] \in Rg /\ s[i] \in Rg BY <1>0, <2>3
    <3> HIDE DEF t, f
    <3>2. CASE j = i BY <2>4, <3>1, <3>2 DEF Rg, Fits
    <3>3. CASE j # i BY <2>4, <3>1, <3>3 DEF Rg
    <3> QED BY <3>2, <3>3
  <2>6. f \in [DOMAIN t -> DOMAIN s] /\ \A j, k \in DOMAIN t : f[j] = f[k] => j = k BY <2>3
  <2> HIDE DEF t, f
  <2> QED BY <2>3, <2>5, <2>6 DEF t
<1>4. i < Len(s) \/ i = Len(s) BY <1>0
<1> HIDE DEF t
<1> QED BY <1>1, <1>2, <1>3, <1>4

\* No byte of the list is dropped: it is among the bytes taken or in the new list.
LEMMA TakeKeeps ==
  ASSUME NEW s \in Seq(Rg), NEW i \in DOMAIN s, NEW size \in Nat, Fits(s[i], size),
         NEW k \in DOMAIN s, NEW a \in Bytes(s[k])
  PROVE  \/ a \in Bytes([start |-> s[i].start, end |-> s[i].start + size])
         \/ \E j \in DOMAIN Take(s, i, size) : a \in Bytes(Take(s, i, size)[j])
<1> DEFINE t == Take(s, i, size)
<1>0. Len(s) \in Nat /\ DOMAIN s = 1 .. Len(s) /\ \A j \in 1 .. Len(s) : s[j] \in Rg
  OBVIOUS
<1>1. CASE s[i].start + size < s[i].end
  <2>1. t = [s EXCEPT ![i] = [start |-> s[i].start + size, end |-> s[i].end]] BY <1>1 DEF Take
  <2>2. DOMAIN t = DOMAIN s BY <2>1
  <2>3. CASE k = i
    <3>1. t[i] = [start |-> s[i].start + size, end |-> s[i].end] BY <2>1
    <3> HIDE DEF t
    <3>2. a \in Bytes(t[i]) \/ a \in Bytes([start |-> s[i].start, end |-> s[i].start + size])
      BY <1>0, <2>3, <3>1 DEF Bytes, Rg
    <3> QED BY <2>2, <3>2 DEF t
  <2>4. CASE k # i
    <3>1. t[k] = s[k] BY <2>1, <2>4
    <3> QED BY <2>2, <3>1 DEF t
  <2> QED BY <2>3, <2>4
<1>2. CASE ~(s[i].start + size < s[i].end) /\ k = i
  BY <1>0, <1>2 DEF Bytes, Rg, Fits
<1>3. CASE ~(s[i].start + size < s[i].end) /\ k # i /\ i < Len(s)
  <2>1. t = [j \in 1 .. Len(s) - 1 |-> IF j < i THEN s[j] ELSE s[j + 1]] BY <1>3 DEF Take, Unlink
  <2>2. CASE k < i
    <3>1. k \in 1 .. Len(s) - 1 BY <1>0, <2>2
    <3>2. k \in DOMAIN t /\ t[k] = s[k] BY <2>1, <2>2, <3>1
    <3> QED BY <3>2 DEF t
  <2>3. CASE k > i
    <3>1. k - 1 \in 1 .. Len(s) - 1 /\ ~(k - 1 < i) /\ (k - 1) + 1 = k BY <1>0, <2>3
    <3>2. k - 1 \in DOMAIN t /\ t[k - 1] = s[k] BY <2>1, <3>1
    <3> QED BY <3>2 DEF t
  <2> QED BY <1>0, <1>3, <2>2, <2>3
<1>4. CASE ~(s[i].start + size < s[i].end) /\ k # i /\ i = Len(s)
  <2>1. t = [s EXCEPT ![i] = [start |-> s[i].end, end |-> s[i].end]] BY <1>4 DEF Take, Unlink
  <2>2. DOMAIN t = DOMAIN s /\ t[k] = s[k] BY <1>4, <2>1
  <2> QED BY <2>2 DEF t
<1>5. i < Len(s) \/ i = Len(s) BY <1>0
<1> QED BY <1>1, <1>2, <1>3, <1>4, <1>5

\* Putting a region at the head of the list shifts the nodes by one.
LEMMA PrependFacts ==
  ASSUME NEW s \in Seq(Rg), NEW g \in Rg
  PROVE  LET t == <<g>> \o s
         IN  /\ t \in Seq(Rg)
             /\ \A j \in DOMAIN t : (j = 1 /\ t[j] = g) \/ (j - 1 \in DOMAIN s /\ t[j] = s[j - 1])
             /\ 1 \in DOMAIN t /\ t[1] = g
             /\ \A j \in DOMAIN s : j + 1 \in DOMAIN t /\ t[j + 1] = s[j]
  OBVIOUS

\* Regions that are apart have no address in common.
LEMMA ApartBytes ==
  ASSUME NEW g \in Rg, NEW h \in Rg, Apart(g, h)
  PROVE  Bytes(g) \cap Bytes(h) = {}
  BY DEF Apart, Bytes, Rg
=============================================================================

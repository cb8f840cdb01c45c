----------------------------- MODULE RegionProofs -----------------------------
(***************************************************************************)
(* Proofs about Region for any number of regions, sizes and roundings:     *)
(* what holds if the break moves (AsBuilt = FALSE), and what is left of it *)
(* while it does not.                                                      *)
(***************************************************************************)
EXTENDS Region, FreeListProofs

-----------------------------------------------------------------------------
(* The steps *)

\* What a region served from the free list looks like: the node it is cut from,
\* the list left behind and the claim.
LEMMA AllocFreeFacts ==
  ASSUME TypeOK, NEW r \in RgId, NEW size \in Sizes, AllocFree(r, size)
  PROVE  /\ sbrk' = sbrk /\ lost' = lost /\ ~Used(r)
         /\ \E i \in DOMAIN freerg :
              /\ Fits(freerg[i], size)
              /\ freerg' = Take(freerg, i, size)
              /\ symrg' = [symrg EXCEPT ![r] =
                   [start |-> freerg[i].start, end |-> freerg[i].start + size]]
  BY DEF AllocFree, FirstFit, Claim

\* Every step keeps the types.
LEMMA TypeStep ==
  ASSUME TypeOK, [Next]_vars
  PROVE  TypeOK'
<1>1. ASSUME NEW r \in RgId, NEW size \in Sizes, AllocFree(r, size) PROVE TypeOK'
  <2>1. PICK i \in DOMAIN freerg :
          /\ Fits(freerg[i], size)
          /\ freerg' = Take(freerg, i, size)
          /\ symrg' = [symrg EXCEPT ![r] =
               [start |-> freerg[i].start, end |-> freerg[i].start + size]]
    BY <1>1, AllocFreeFacts
  <2>2. freerg' \in Seq(Rg) BY <2>1, TakeFacts, RegionAssumption DEF TypeOK, RegionAssumption
  <2>3. freerg[i] \in Rg BY DEF TypeOK
  <2>4. size \in Nat BY RegionAssumption DEF RegionAssumption
  <2>5. [start |-> freerg[i].start, end |-> freerg[i].start + size] \in Rg BY <2>3, <2>4 DEF Rg
  <2> QED BY <1>1, <2>1, <2>2, <2>5, AllocFreeFacts DEF TypeOK
<1>2. ASSUME NEW r \in RgId, NEW size \in Sizes, AllocBreak(r, size) PROVE TypeOK'
  <2>1. \/ UNCHANGED <<sbrk, lost>>
        \/ \E extra \in Rounding : /\ sbrk' = sbrk + size + extra
                                   /\ lost' = lost \cup (sbrk + size) .. (sbrk' - 1)
    BY <1>2 DEF AllocBreak
  <2>2. size \in Nat /\ Rounding \subseteq Nat BY RegionAssumption DEF RegionAssumption
  <2>3. sbrk' \in Nat /\ lost' \subseteq Nat
    <3>1. CASE UNCHANGED <<sbrk, lost>> BY <3>1 DEF TypeOK
    <3>2. ASSUME NEW extra \in Rounding, sbrk' = sbrk + size + extra,
                 lost' = lost \cup (sbrk + size) .. (sbrk' - 1)
          PROVE  sbrk' \in Nat /\ lost' \subseteq Nat
      <4>1. extra \in Nat /\ sbrk + size \in Nat BY <2>2 DEF TypeOK
      <4>2. sbrk' \in Nat BY <2>2, <3>2, <4>1
      <4>3. (sbrk + size) .. (sbrk' - 1) \subseteq Nat BY <4>1, <4>2
      <4> QED BY <3>2, <4>2, <4>3 DEF TypeOK
    <3> QED BY <2>1, <3>1, <3>2
  <2>4. [start |-> sbrk, end |-> sbrk + size] \in Rg BY <2>2 DEF TypeOK, Rg
  <2>5. symrg' = [symrg EXCEPT ![r] = [start |-> sbrk, end |-> sbrk + size]] /\ freerg' = freerg
    BY <1>2 DEF AllocBreak, Claim
  <2> QED BY <2>3, <2>4, <2>5 DEF TypeOK
<1>3. ASSUME NEW r \in RgId, Free(r) PROVE TypeOK'
  <2>1. Empty \in Rg BY DEF Empty, Rg
  <2>2. symrg[r] \in Rg BY DEF TypeOK
  <2>3. freerg' \in Seq(Rg) BY <1>3, <2>2, PrependFacts DEF TypeOK, Free
  <2> QED BY <1>3, <2>1, <2>3 DEF TypeOK, Free, ResetEntry
<1> QED BY <1>1, <1>2, <1>3 DEF Next, vars, TypeOK

\* Every step keeps regions, free list and break apart.  A claim cut from a node
\* is part of it, so it is apart from all the node was apart from, and the rest of
\* the node starts behind it.
LEMMA OverlapStep ==
  ASSUME AsBuilt = FALSE, TypeOK, NoOverlap, [Next]_vars
  PROVE  NoOverlap'
<1>0. TypeOK' BY TypeStep
<1>1. ASSUME NEW r \in RgId, NEW size \in Sizes, AllocFree(r, size) PROVE NoOverlap'
  <2>1. PICK i \in DOMAIN freerg :
          /\ Fits(freerg[i], size)
          /\ freerg' = Take(freerg, i, size)
          /\ symrg' = [symrg EXCEPT ![r] =
               [start |-> freerg[i].start, end |-> freerg[i].start + size]]
    BY <1>1, AllocFreeFacts
  <2> DEFINE c == [start |-> freerg[i].start, end |-> freerg[i].start + size]
  <2>2. PICK f \in [DOMAIN freerg' -> DOMAIN freerg] :
          /\ \A j, k \in DOMAIN freerg' : f[j] = f[k] => j = k
          /\ \A j \in DOMAIN freerg' :
               /\ freerg[f[j]].start <= freerg'[j].start
               /\ freerg'[j].end = freerg[f[j]].end
               /\ f[j] = i => freerg[i].start + size <= freerg'[j].start
    BY <2>1, TakeFacts, RegionAssumption DEF TypeOK, RegionAssumption
  <2>3. /\ \A j \in DOMAIN freerg : freerg[j] \in Rg
        /\ \A q \in RgId : symrg[q] \in Rg
        /\ \A j \in DOMAIN freerg' : freerg'[j] \in Rg /\ f[j] \in DOMAIN freerg
        /\ \A q \in RgId : symrg'[q] \in Rg
    BY <1>0, <2>2 DEF TypeOK
  <2>4. /\ symrg'[r] = c
        /\ \A q \in RgId : q # r => symrg'[q] = symrg[q]
    BY <2>1 DEF TypeOK
  <2>5. c \in Rg /\ c.start = freerg[i].start /\ c.end = freerg[i].start + size
        /\ c.end <= freerg[i].end
    BY <2>1, <2>3, <2>4 DEF Fits
  <2> HIDE DEF c
  <2>6. \A q \in RgId : q # r => Apart(symrg[q], c) /\ Apart(c, symrg[q])
    <3> SUFFICES ASSUME NEW q \in RgId, q # r PROVE Apart(symrg[q], c) /\ Apart(c, symrg[q])
      OBVIOUS
    <3>1. Apart(symrg[q], freerg[i]) BY DEF NoOverlap
    <3> QED BY <2>3, <2>5, <3>1 DEF Apart, Rg
  <2>7. \A p, q \in RgId : p # q => Apart(symrg'[p], symrg'[q])
    BY <2>4, <2>6 DEF NoOverlap
  <2>8. \A q \in RgId, j \in DOMAIN freerg' : Apart(symrg'[q], freerg'[j])
    <3> SUFFICES ASSUME NEW q \in RgId, NEW j \in DOMAIN freerg'
                 PROVE  Apart(symrg'[q], freerg'[j])
      OBVIOUS
    <3>1. CASE q # r
      <4>1. Apart(symrg[q], freerg[f[j]]) BY <2>3 DEF NoOverlap
      <4> QED BY <2>2, <2>3, <2>4, <3>1, <4>1 DEF Apart, Rg
    <3>2. CASE q = r /\ f[j] = i
      BY <2>2, <2>4, <2>5, <3>2 DEF Apart
    <3>3. CASE q = r /\ f[j] # i
      <4>1. Apart(freerg[i], freerg[f[j]]) BY <2>3, <3>3 DEF NoOverlap
      <4> QED BY <2>2, <2>3, <2>4, <2>5, <3>3, <4>1 DEF Apart, Rg
    <3> QED BY <3>1, <3>2, <3>3
  <2>9. \A j, k \in DOMAIN freerg' : j # k => Apart(freerg'[j], freerg'[k])
    <3> SUFFICES ASSUME NEW j \in DOMAIN freerg', NEW k \in DOMAIN freerg', j # k
                 PROVE  Apart(freerg'[j], freerg'[k])
      OBVIOUS
    <3>1. Apart(freerg[f[j]], freerg[f[k]]) BY <2>2, <2>3 DEF NoOverlap
    <3> QED BY <2>2, <2>3, <3>1 DEF Apart, Rg
  <2>10. \A q \in RgId : symrg'[q].end <= sbrk'
    <3>1. sbrk' = sbrk BY <1>1, AllocFreeFacts
    <3>2. c.end <= sbrk BY <2>3, <2>5 DEF NoOverlap, Rg, TypeOK
    <3> QED BY <2>4, <3>1, <3>2 DEF NoOverlap
  <2>11. \A j \in DOMAIN freerg' : freerg'[j].end <= sbrk'
    BY <1>1, <2>2, <2>3, AllocFreeFacts DEF NoOverlap
  <2> QED BY <2>7, <2>8, <2>9, <2>10, <2>11 DEF NoOverlap
<1>2. ASSUME NEW r \in RgId, NEW size \in Sizes, AllocBreak(r, size) PROVE NoOverlap'
  <2>0. /\ size \in Nat /\ Rounding \subseteq Nat /\ sbrk \in Nat
    BY RegionAssumption DEF RegionAssumption, TypeOK
  <2>1. /\ sbrk' \in Nat /\ sbrk + size <= sbrk' /\ sbrk <= sbrk'
        /\ freerg' = freerg
        /\ symrg' = [symrg EXCEPT ![r] = [start |-> sbrk, end |-> sbrk + size]]
    BY <1>2, <2>0 DEF AllocBreak, Claim
  <2>2. /\ symrg'[r] = [start |-> sbrk, end |-> sbrk + size]
        /\ \A q \in RgId : q # r => symrg'[q] = symrg[q]
    BY <2>1 DEF TypeOK
  <2>3. /\ \A j \in DOMAIN freerg : freerg[j] \in Rg
        /\ \A q \in RgId : symrg[q] \in Rg
    BY DEF TypeOK
  <2>4. \A p, q \in RgId : p # q => Apart(symrg'[p], symrg'[q])
    BY <2>2 DEF NoOverlap, Apart
  <2>5. \A q \in RgId, j \in DOMAIN freerg : Apart(symrg'[q], freerg[j])
    BY <2>2 DEF NoOverlap, Apart
  <2>6. \A q \in RgId : symrg'[q].end <= sbrk'
    BY <2>0, <2>1, <2>2, <2>3 DEF NoOverlap, Rg
  <2>7. \A j \in DOMAIN freerg : freerg[j].end <= sbrk'
    BY <2>0, <2>1, <2>3 DEF NoOverlap, Rg
  <2> QED BY <2>1, <2>4, <2>5, <2>6, <2>7 DEF NoOverlap
<1>3. ASSUME NEW r \in RgId, Free(r) PROVE NoOverlap'
  <2>1. /\ sbrk' = sbrk
        /\ symrg'[r] = Empty
        /\ \A q \in RgId : q # r => symrg'[q] = symrg[q]
    BY <1>3 DEF Free, ResetEntry, TypeOK
  <2>2. /\ \A j \in DOMAIN freerg : freerg[j] \in Rg
        /\ \A q \in RgId : symrg[q] \in Rg
    BY DEF TypeOK
  <2>3. /\ \A p, q \in RgId : p # q => Apart(symrg'[p], symrg'[q])
        /\ \A q \in RgId : symrg'[q].end <= sbrk'
    BY <2>1 DEF NoOverlap, Apart, Empty, TypeOK
  <2>4. CASE ~Used(r)
    <3>1. freerg' = freerg BY <1>3, <2>4 DEF Free
    <3>2. \A q \in RgId, k \in DOMAIN freerg : Apart(symrg'[q], freerg[k])
      BY <2>1 DEF NoOverlap, Apart, Empty
    <3> QED BY <2>1, <2>3, <3>1, <3>2 DEF NoOverlap
  <2>5. CASE Used(r)
    <3>1. freerg' = <<symrg[r]>> \o freerg BY <1>3, <2>5 DEF Free
    <3>2. \A j \in DOMAIN freerg' :
            \/ j = 1 /\ freerg'[j] = symrg[r]
            \/ j - 1 \in DOMAIN freerg /\ freerg'[j] = freerg[j - 1]
      BY <2>2, <3>1, PrependFacts DEF TypeOK
    <3>3. \A k \in DOMAIN freerg : Apart(symrg[r], freerg[k]) /\ Apart(freerg[k], symrg[r])
      BY <2>2 DEF NoOverlap, Apart, Rg
    <3>4. \A q \in RgId, j \in DOMAIN freerg' : Apart(symrg'[q], freerg'[j])
      BY <2>1, <3>2 DEF NoOverlap, Apart, Empty
    <3>5. \A j, k \in DOMAIN freerg' : j # k => Apart(freerg'[j], freerg'[k])
      <4> SUFFICES ASSUME NEW j \in DOMAIN freerg', NEW k \in DOMAIN freerg', j # k
                   PROVE  Apart(freerg'[j], freerg'[k])
        OBVIOUS
      <4>1. j \in Nat /\ k \in Nat /\ freerg'[1] = symrg[r]
        BY <1>0, <2>2, <3>1, PrependFacts DEF TypeOK
      <4>2. CASE j = 1 /\ k # 1 BY <3>2, <3>3, <4>1, <4>2
      <4>4. CASE j # 1 /\ k = 1 BY <3>2, <3>3, <4>1, <4>4
      <4>3. CASE j # 1 /\ k # 1
        <5>1. /\ j - 1 \in DOMAIN freerg /\ freerg'[j] = freerg[j - 1]
              /\ k - 1 \in DOMAIN freerg /\ freerg'[k] = freerg[k - 1]
          BY <3>2, <4>3
        <5>2. j - 1 # k - 1 BY <4>1
        <5> QED BY <5>1, <5>2 DEF NoOverlap
      <4> QED BY <4>2, <4>3, <4>4
    <3>6. \A j \in DOMAIN freerg' : freerg'[j].end <= sbrk'
      BY <2>1, <3>2 DEF NoOverlap
    <3> QED BY <2>3, <3>4, <3>5, <3>6 DEF NoOverlap
  <2> QED BY <2>4, <2>5
<1>4. CASE UNCHANGED vars BY <1>4 DEF NoOverlap, vars
<1> QED BY <1>1, <1>2, <1>3, <1>4 DEF Next

\* Every step keeps each byte below the break accounted for.
LEMMA KeepStep ==
  ASSUME AsBuilt = FALSE, TypeOK, NothingLost, [Next]_vars
  PROVE  NothingLost'
<1>0. TypeOK' BY TypeStep
<1> SUFFICES ASSUME NEW a \in 0 .. (sbrk' - 1)
             PROVE  \/ \E r \in RgId : a \in Bytes(symrg'[r])
                    \/ \E i \in DOMAIN freerg' : a \in Bytes(freerg'[i])
                    \/ a \in lost'
  BY DEF NothingLost
<1>1. ASSUME NEW r \in RgId, NEW size \in Sizes, AllocFree(r, size)
      PROVE  \/ \E q \in RgId : a \in Bytes(symrg'[q])
             \/ \E i \in DOMAIN freerg' : a \in Bytes(freerg'[i])
             \/ a \in lost'
  <2>1. PICK i \in DOMAIN freerg :
          /\ Fits(freerg[i], size)
          /\ freerg' = Take(freerg, i, size)
          /\ symrg' = [symrg EXCEPT ![r] =
               [start |-> freerg[i].start, end |-> freerg[i].start + size]]
    BY <1>1, AllocFreeFacts
  <2>2. /\ symrg'[r] = [start |-> freerg[i].start, end |-> freerg[i].start + size]
        /\ \A q \in RgId : q # r => symrg'[q] = symrg[q]
    BY <2>1 DEF TypeOK
  <2>3. sbrk' = sbrk /\ lost' = lost /\ ~Used(r) BY <1>1, AllocFreeFacts
  <2>4. \A x : x \notin Bytes(symrg[r])
    BY <2>3 DEF Used, Bytes, TypeOK, Rg
  <2>5. size \in Nat BY RegionAssumption DEF RegionAssumption
  <2>6. CASE \E q \in RgId : a \in Bytes(symrg[q])
    BY <2>2, <2>4, <2>6
  <2>7. CASE \E k \in DOMAIN freerg : a \in Bytes(freerg[k])
    <3>1. PICK k \in DOMAIN freerg : a \in Bytes(freerg[k]) BY <2>7
    <3>2. \/ a \in Bytes([start |-> freerg[i].start, end |-> freerg[i].start + size])
          \/ \E j \in DOMAIN freerg' : a \in Bytes(freerg'[j])
      BY <2>1, <2>5, <3>1, TakeKeeps DEF TypeOK
    <3> QED BY <2>2, <3>2
  <2>8. CASE a \in lost BY <2>3, <2>8
  <2> QED BY <2>3, <2>6, <2>7, <2>8 DEF NothingLost
<1>2. ASSUME NEW r \in RgId, NEW size \in Sizes, AllocBreak(r, size)
      PROVE  \/ \E q \in RgId : a \in Bytes(symrg'[q])
             \/ \E i \in DOMAIN freerg' : a \in Bytes(freerg'[i])
             \/ a \in lost'
  <2>1. /\ freerg' = freerg /\ ~Used(r)
        /\ lost' = lost \cup (sbrk + size) .. (sbrk' - 1)
        /\ symrg' = [symrg EXCEPT ![r] = [start |-> sbrk, end |-> sbrk + size]]
    BY <1>2 DEF AllocBreak, Claim
  <2>2. /\ symrg'[r] = [start |-> sbrk, end |-> sbrk + size]
        /\ \A q \in RgId : q # r => symrg'[q] = symrg[q]
    BY <2>1 DEF TypeOK
  <2>3. \A x : x \notin Bytes(symrg[r])
    BY <2>1 DEF Used, Bytes, TypeOK, Rg
  <2>4. size \in Nat /\ sbrk \in Nat /\ sbrk' \in Nat
    BY <1>0, RegionAssumption DEF RegionAssumption, TypeOK
  <2>5. CASE a \in 0 .. (sbrk - 1) BY <2>1, <2>2, <2>3, <2>5 DEF NothingLost
  <2>6. CASE a \in sbrk .. (sbrk + size - 1)
    <3>1. symrg'[r].start = sbrk /\ symrg'[r].end = sbrk + size BY <2>2
    <3>2. a \in Bytes(symrg'[r]) BY <2>4, <2>6, <3>1 DEF Bytes
    <3> QED BY <3>2
  <2>7. CASE a \in (sbrk + size) .. (sbrk' - 1) BY <2>1, <2>7
  <2> QED BY <2>4, <2>5, <2>6, <2>7
<1>3. ASSUME NEW r \in RgId, Free(r)
      PROVE  \/ \E q \in RgId : a \in Bytes(symrg'[q])
             \/ \E i \in DOMAIN freerg' : a \in Bytes(freerg'[i])
             \/ a \in lost'
  <2>1. /\ sbrk' = sbrk /\ lost' = lost
        /\ \A q \in RgId : q # r => symrg'[q] = symrg[q]
        /\ freerg' = IF Used(r) THEN <<symrg[r]>> \o freerg ELSE freerg
    BY <1>3 DEF Free, ResetEntry, TypeOK
  <2>2. symrg[r] \in Rg BY DEF TypeOK
  <2>3. \A k \in DOMAIN freerg : \E j \in DOMAIN freerg' : freerg'[j] = freerg[k]
    <3>1. CASE ~Used(r) BY <2>1, <3>1
    <3>2. CASE Used(r)
      <4>1. \A k \in DOMAIN freerg : k + 1 \in DOMAIN freerg' /\ freerg'[k + 1] = freerg[k]
        BY <2>1, <2>2, <3>2, PrependFacts DEF TypeOK
      <4> QED BY <4>1
    <3> QED BY <3>1, <3>2
  <2>4. CASE a \in Bytes(symrg[r])
    <3>1. Used(r) BY <2>2, <2>4 DEF Used, Bytes, Rg
    <3>2. 1 \in DOMAIN freerg' /\ freerg'[1] = symrg[r]
      BY <2>1, <2>2, <3>1, PrependFacts DEF TypeOK
    <3> QED BY <2>4, <3>2
  <2>5. CASE a \notin Bytes(symrg[r]) BY <2>1, <2>3, <2>5 DEF NothingLost
  <2> QED BY <2>4, <2>5
<1>4. CASE UNCHANGED vars BY <1>4 DEF NothingLost, vars
<1> QED BY <1>1, <1>2, <1>3, <1>4 DEF Next

\* A region gets its addresses while it has none, and they are nobody else's.
LEMMA ClaimIsAlloc ==
  ASSUME TypeOK, TypeOK', NoOverlap', NEW r \in RgId, ~Used(r),
         \A q \in RgId : q # r => symrg'[q] = symrg[q]
  PROVE  Abstract!Alloc(r)
<1> DEFINE owned == [q \in RgId |-> Bytes(symrg[q])]
           next == [q \in RgId |-> Bytes(symrg'[q])]
<1>1. owned[r] = {} BY DEF Used, Bytes, TypeOK, Rg
<1>2. \A q \in RgId : owned[q] \cap next[r] = {}
  <2> SUFFICES ASSUME NEW q \in RgId PROVE owned[q] \cap next[r] = {} OBVIOUS
  <2>1. CASE q = r BY <1>1, <2>1
  <2>2. CASE q # r
    <3>1. symrg'[q] \in Rg /\ symrg'[r] \in Rg /\ Apart(symrg'[q], symrg'[r])
      BY <2>2 DEF TypeOK, NoOverlap
    <3> QED BY <2>2, <3>1, ApartBytes
  <2> QED BY <2>1, <2>2
<1>3. next = [owned EXCEPT ![r] = next[r]] OBVIOUS
<1> QED BY <1>1, <1>2, <1>3 DEF Abstract!Alloc

\* Every step is an Alloc, a Free or a stutter of the abstract allocator.
LEMMA AllocatorStep ==
  ASSUME AsBuilt = FALSE, TypeOK, NoOverlap, [Next]_vars
  PROVE  Abstract!Next \/ UNCHANGED [r \in RgId |-> Bytes(symrg[r])]
<1>0. TypeOK' /\ NoOverlap' BY TypeStep, OverlapStep
<1>1. ASSUME NEW r \in RgId, NEW size \in Sizes, AllocFree(r, size) \/ AllocBreak(r, size)
      PROVE  Abstract!Alloc(r)
  <2>1. ~Used(r) /\ \A q \in RgId : q # r => symrg'[q] = symrg[q]
    BY <1>1 DEF AllocFree, AllocBreak, Claim, TypeOK
  <2> QED BY <1>0, <2>1, ClaimIsAlloc
<1>2. ASSUME NEW r \in RgId, Free(r) PROVE Abstract!Free(r)
  <2>1. symrg' = [symrg EXCEPT ![r] = Empty] BY <1>2 DEF Free, ResetEntry
  <2>2. Bytes(Empty) = {} BY DEF Bytes, Empty
  <2>3. [q \in RgId |-> Bytes(symrg'[q])] =
          [[q \in RgId |-> Bytes(symrg[q])] EXCEPT ![r] = {}]
    BY <2>1, <2>2 DEF TypeOK
  <2> QED BY <2>3 DEF Abstract!Free
<1>3. CASE UNCHANGED vars BY <1>3 DEF vars
<1> QED BY <1>1, <1>2, <1>3 DEF Next, Abstract!Next

\* A process starts with well-formed regions.
LEMMA InitTypes == ASSUME Init PROVE TypeOK
<1>1. Empty \in Rg BY DEF Empty, Rg
<1> QED BY <1>1 DEF Init, TypeOK

-----------------------------------------------------------------------------
(* The results *)

\* As long as the break moves when asked to, types hold and no address is in two
\* regions, in a region and on the free list, or twice on the free list (__alloc
\* and __free of libmem.c).
THEOREM Invariance ==
  ASSUME AsBuilt = FALSE
  PROVE  Spec => [](TypeOK /\ NoOverlap)
<1>1. Init => TypeOK /\ NoOverlap
  <2> SUFFICES ASSUME Init PROVE TypeOK /\ NoOverlap OBVIOUS
  <2>1. NoOverlap BY DEF Init, NoOverlap, Apart, Empty
  <2> QED BY <2>1, InitTypes
<1>2. TypeOK /\ NoOverlap /\ [Next]_vars => (TypeOK /\ NoOverlap)' BY TypeStep, OverlapStep
<1> QED BY <1>1, <1>2, PTL DEF Spec

\* Regions, free nodes and the break stay well formed, whether the break moves or not:
\* no interval ends before it starts.
THEOREM Typing == Spec => []TypeOK
<1>1. Init => TypeOK BY InitTypes
<1>2. TypeOK /\ [Next]_vars => TypeOK' BY TypeStep
<1> QED BY <1>1, <1>2, PTL DEF Spec

\* No two owners of one address.
THEOREM NoOverlapHolds ==
  ASSUME AsBuilt = FALSE
  PROVE  Spec => []NoOverlap
BY Invariance, PTL

\* No address below the break is ever lost: __alloc and __free only move addresses
\* between the regions and the free list.
THEOREM NothingLostHolds ==
  ASSUME AsBuilt = FALSE
  PROVE  Spec => []NothingLost
<1>1. Init => NothingLost BY DEF Init, NothingLost
<1>2. TypeOK /\ NothingLost /\ [Next]_vars => NothingLost' BY KeepStep
<1> QED BY <1>1, <1>2, Typing, PTL DEF Spec

\* The regions implement the abstract allocator: addresses are handed to a region
\* that has none, are nobody else's, and return only when it is freed.
THEOREM RegionImplementsAllocator ==
  ASSUME AsBuilt = FALSE
  PROVE  Spec => ImplementsAllocator
<1>1. Init => Abstract!Init
  <2>1. Bytes(Empty) = {} BY DEF Bytes, Empty
  <2> QED BY <2>1 DEF Init, Abstract!Init
<1>2. TypeOK /\ NoOverlap /\ [Next]_vars
        => Abstract!Next \/ UNCHANGED [r \in RgId |-> Bytes(symrg[r])]
  BY AllocatorStep
<1> QED BY <1>1, <1>2, Invariance, PTL DEF Spec, Abstract!Spec, ImplementsAllocator

-----------------------------------------------------------------------------
(* With inc_vma_limit as it is *)

\* Everything a process is given lies in the first b bytes.
Low(b) ==
  /\ sbrk = 0
  /\ \A r \in RgId : symrg[r].end <= b
  /\ \A i \in DOMAIN freerg : freerg[i].end <= b

\* A request past the break is served from address 0, one from the free list from what
\* such a request was given.
LEMMA LowStep ==
  ASSUME AsBuilt = TRUE, NEW b \in Nat, \A size \in Sizes : size <= b,
         TypeOK, Low(b), [Next]_vars
  PROVE  Low(b)'
<1>0. TypeOK' BY TypeStep
<1>1. ASSUME NEW r \in RgId, NEW size \in Sizes, AllocFree(r, size) PROVE Low(b)'
  <2>1. sbrk' = sbrk BY <1>1, AllocFreeFacts
  <2>2. PICK i \in DOMAIN freerg :
          /\ Fits(freerg[i], size)
          /\ freerg' = Take(freerg, i, size)
          /\ symrg' = [symrg EXCEPT ![r] =
               [start |-> freerg[i].start, end |-> freerg[i].start + size]]
    BY <1>1, AllocFreeFacts
  <2>3. \A j \in DOMAIN freerg' : \E k \in DOMAIN freerg : freerg'[j].end = freerg[k].end
    BY <2>2, TakeFacts, RegionAssumption DEF TypeOK, RegionAssumption
  <2>4. freerg[i].start + size <= b
    <3>1. freerg[i] \in Rg /\ size \in Nat BY RegionAssumption DEF TypeOK, RegionAssumption
    <3> QED BY <2>2, <3>1 DEF Fits, Low, Rg
  <2>5. \A q \in RgId : symrg'[q].end <= b BY <2>2, <2>4 DEF TypeOK, Low
  <2> QED BY <2>1, <2>3, <2>5 DEF Low
<1>2. ASSUME NEW r \in RgId, NEW size \in Sizes, AllocBreak(r, size) PROVE Low(b)'
  <2>1. /\ sbrk' = 0 /\ freerg' = freerg
        /\ symrg' = [symrg EXCEPT ![r] = [start |-> 0, end |-> 0 + size]]
    BY <1>2 DEF AllocBreak, Claim, Low
  <2>2. 0 + size = size /\ size <= b BY RegionAssumption DEF RegionAssumption
  <2> QED BY <2>1, <2>2 DEF Low, TypeOK
<1>3. ASSUME NEW r \in RgId, Free(r) PROVE Low(b)'
  <2>1. /\ sbrk' = sbrk /\ symrg' = [symrg EXCEPT ![r] = Empty]
        /\ freerg' = IF Used(r) THEN <<symrg[r]>> \o freerg ELSE freerg
    BY <1>3 DEF Free, ResetEntry
  <2>2. \A q \in RgId : symrg'[q].end <= b BY <2>1 DEF TypeOK, Low, Empty
  <2>3. \A j \in DOMAIN freerg' : freerg'[j].end <= b
    <3>1. CASE ~Used(r) BY <2>1, <3>1 DEF Low
    <3>2. CASE Used(r)
      <4>1. symrg[r] \in Rg /\ symrg[r].end <= b BY DEF TypeOK, Low
      <4>2. \A j \in DOMAIN freerg' :
              freerg'[j] = symrg[r] \/ (j - 1 \in DOMAIN freerg /\ freerg'[j] = freerg[j - 1])
        BY <2>1, <3>2, <4>1, PrependFacts DEF TypeOK
      <4> QED BY <4>1, <4>2 DEF Low
    <3> QED BY <3>1, <3>2
  <2> QED BY <2>1, <2>2, <2>3 DEF Low
<1>4. CASE UNCHANGED vars BY <1>4 DEF Low, vars
<1> QED BY <1>1, <1>2, <1>3, <1>4 DEF Next

\* As built the break stays at 0, so that all the regions of a process together have
\* no more addresses than its largest request: two requests of that size that are
\* alive together are given the same ones, whatever was freed before.
THEOREM BuiltStaysLow ==
  ASSUME AsBuilt = TRUE, NEW b \in Nat, \A size \in Sizes : size <= b
  PROVE  Spec => []Low(b)
<1>1. Init => Low(b) BY DEF Init, Low, Empty
<1>2. TypeOK /\ Low(b) /\ [Next]_vars => Low(b)' BY LowStep
<1> QED BY <1>1, <1>2, Typing, PTL DEF Spec
=============================================================================

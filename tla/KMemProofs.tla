------------------------------ MODULE KMemProofs ------------------------------
(***************************************************************************)
(* Proofs about KMem for any number of CPUs, registers, pools, sizes and   *)
(* frames, with one mm or two.  What concerns the regions, the frames and  *)
(* the copies is stated for CPUs of which no other allocates during a      *)
(* cache allocation (Exclusion): the code's unlocked searches of the free  *)
(* list can break it, and a search is one step of the model.               *)
(***************************************************************************)
EXTENDS KMemInv, FreeListProofs

(* Intervals as sets of addresses *)

\* Intervals with no address in common are apart.
LEMMA BytesApart ==
  ASSUME NEW g \in Rg, NEW h \in Rg, Bytes(g) \cap Bytes(h) = {}
  PROVE  Apart(g, h)
<1>1. g.start \in Nat /\ g.end \in Nat /\ h.start \in Nat /\ h.end \in Nat BY DEF Rg
<1>2. SUFFICES ASSUME g.end > h.start, h.end > g.start, g.start < g.end, h.start < h.end
               PROVE  FALSE
  BY <1>1 DEF Apart
<1>3. CASE g.start <= h.start
  <2>1. h.start \in Bytes(g) /\ h.start \in Bytes(h) BY <1>1, <1>2, <1>3 DEF Bytes
  <2> QED BY <2>1
<1>4. CASE h.start <= g.start
  <2>1. g.start \in Bytes(g) /\ g.start \in Bytes(h) BY <1>1, <1>2, <1>4 DEF Bytes
  <2> QED BY <2>1
<1> QED BY <1>1, <1>3, <1>4

\* An interval by its ends
LEMMA SpanBytes ==
  ASSUME NEW start \in Nat, NEW size \in Nat
  PROVE  LET g == [start |-> start, end |-> start + size]
         IN g \in Rg /\ g.end = start + size /\ Bytes(g) = Span(start, size)
BY DEF Rg, Bytes, Span

\* Taking bytes from the first of a list of disjoint nodes: the bytes taken are those
\* of one node, and the new nodes are disjoint parts of the old ones without them.
LEMMA TakeDisjoint ==
  ASSUME NEW s \in Seq(Rg), NEW i \in DOMAIN s, NEW size \in Nat, Fits(s[i], size), NEW top \in Nat,
         \A j \in DOMAIN s : s[j].end <= top,
         \A j, k \in DOMAIN s : j # k => Bytes(s[j]) \cap Bytes(s[k]) = {}
  PROVE  LET n == Take(s, i, size)
             c == Span(s[i].start, size)
         IN /\ n \in Seq(Rg) /\ s[i].start \in Nat /\ s[i].start + size <= top
            /\ c \subseteq Bytes(s[i])
            /\ \A j \in DOMAIN n : n[j].end <= top /\ Bytes(n[j]) \cap c = {}
            /\ \A j \in DOMAIN n : \E k \in DOMAIN s : Bytes(n[j]) \subseteq Bytes(s[k])
            /\ \A j, k \in DOMAIN n : j # k => Bytes(n[j]) \cap Bytes(n[k]) = {}
<1> DEFINE n == Take(s, i, size)
           c == Span(s[i].start, size)
<1>0. \A j \in DOMAIN s : s[j] \in Rg /\ s[j].start \in Nat /\ s[j].end \in Nat BY DEF Rg
<1>1. n \in Seq(Rg) BY TakeFacts
<1>2. PICK f \in [DOMAIN n -> DOMAIN s] :
        /\ \A j, k \in DOMAIN n : f[j] = f[k] => j = k
        /\ \A j \in DOMAIN n :
             /\ s[f[j]].start <= n[j].start
             /\ n[j].end = s[f[j]].end
             /\ f[j] = i => s[i].start + size <= n[j].start
  BY TakeFacts
<1> HIDE DEF n, c
<1>3. s[i].start \in Nat /\ s[i].start + size <= s[i].end /\ s[i].end <= top
  BY <1>0 DEF Fits
<1>4. s[i].start + size <= top BY <1>0, <1>3
<1>5. c \subseteq Bytes(s[i]) BY <1>0, <1>3 DEF c, Span, Bytes
<1>6. \A j \in DOMAIN n : n[j] \in Rg /\ n[j].start \in Nat /\ n[j].end \in Nat /\ f[j] \in DOMAIN s
  BY <1>1, <1>2 DEF Rg
<1>7. \A j \in DOMAIN n : Bytes(n[j]) \subseteq Bytes(s[f[j]]) BY <1>0, <1>2, <1>6 DEF Bytes
<1>8. ASSUME NEW j \in DOMAIN n PROVE n[j].end <= top /\ Bytes(n[j]) \cap c = {}
  <2>1. n[j].end <= top BY <1>2, <1>6
  <2>2. CASE f[j] = i
    <3>1. s[i].start + size <= n[j].start BY <1>2, <2>2
    <3> QED BY <1>3, <1>6, <2>1, <3>1 DEF c, Span, Bytes
  <2>3. CASE f[j] # i
    <3>1. Bytes(s[f[j]]) \cap Bytes(s[i]) = {} BY <1>6, <2>3
    <3> QED BY <1>5, <1>7, <2>1, <3>1
  <2> QED BY <2>2, <2>3
<1>9. ASSUME NEW j \in DOMAIN n, NEW k \in DOMAIN n, j # k
      PROVE  Bytes(n[j]) \cap Bytes(n[k]) = {}
  <2>1. Bytes(s[f[j]]) \cap Bytes(s[f[k]]) = {} BY <1>2, <1>6, <1>9
  <2> QED BY <1>7, <2>1
<1>10. \A j \in DOMAIN n : \E k \in DOMAIN s : Bytes(n[j]) \subseteq Bytes(s[k]) BY <1>6, <1>7
<1> QED BY <1>1, <1>3, <1>4, <1>5, <1>8, <1>9, <1>10 DEF n, c

-----------------------------------------------------------------------------
(* Module Region in terms of this one *)

\* The types of the regions
LEMMA RegionTypes ==
  R!TypeOK <=> /\ symrg \in [RgId -> Rg] /\ freerg \in Seq(Rg)
               /\ sbrk \in Nat /\ lost \subseteq Nat
<1>1. R!Rg = Rg BY DEF R!Rg, Rg
<1> QED BY <1>1 DEF R!TypeOK

\* __alloc from the free list takes the bytes of a node and records them.
LEMMA AllocFreeOps ==
  ASSUME NEW r, NEW size, R!AllocFree(r, size)
  PROVE  /\ ~R!Used(r) /\ UNCHANGED <<sbrk, lost>>
         /\ \E i \in DOMAIN freerg :
              /\ Fits(freerg[i], size) /\ freerg' = Take(freerg, i, size)
              /\ R!Claim(r, freerg[i].start, size)
<1>1. PICK i \in DOMAIN freerg : /\ R!FirstFit(freerg, i, size)
                                 /\ R!Claim(r, freerg[i].start, size)
                                 /\ freerg' = R!Take(freerg, i, size)
  BY DEF R!AllocFree
<1>2. ~R!Used(r) /\ UNCHANGED <<sbrk, lost>> BY DEF R!AllocFree
<1>3. R!Take(freerg, i, size) = Take(freerg, i, size) BY DEF R!Take, Take, R!Unlink, Unlink
<1>4. Fits(freerg[i], size) BY <1>1 DEF R!FirstFit, R!Fits, Fits
<1> QED BY <1>1, <1>2, <1>3, <1>4

\* The regions are apart exactly if they have no address in common.
Disjoint ==
  /\ \A q, r \in RgId : q # r => Bytes(symrg[q]) \cap Bytes(symrg[r]) = {}
  /\ \A r \in RgId, i \in DOMAIN freerg : Bytes(symrg[r]) \cap Bytes(freerg[i]) = {}
  /\ \A i, j \in DOMAIN freerg : i # j => Bytes(freerg[i]) \cap Bytes(freerg[j]) = {}
  /\ \A r \in RgId : symrg[r].end <= sbrk
  /\ \A i \in DOMAIN freerg : freerg[i].end <= sbrk

\* Disjoint is NoOverlap of Region.
LEMMA RegionsDisjoint ==
  ASSUME symrg \in [RgId -> Rg], freerg \in Seq(Rg)
  PROVE  R!NoOverlap <=> Disjoint
<1>0. (\A r \in RgId : symrg[r] \in Rg) /\ (\A i \in DOMAIN freerg : freerg[i] \in Rg) OBVIOUS
<1>1. \A g, h : R!Apart(g, h) <=> Apart(g, h) BY DEF R!Apart, Apart
<1>2. \A g, h \in Rg : Apart(g, h) <=> Bytes(g) \cap Bytes(h) = {} BY ApartBytes, BytesApart
<1>3. ASSUME R!NoOverlap PROVE Disjoint
  BY <1>0, <1>1, <1>2, <1>3 DEF R!NoOverlap, Disjoint
<1>4. ASSUME Disjoint PROVE R!NoOverlap
  BY <1>0, <1>1, <1>2, <1>4 DEF R!NoOverlap, Disjoint
<1> QED BY <1>3, <1>4

\* The same after a step
LEMMA RegionsDisjointNext ==
  ASSUME symrg' \in [RgId -> Rg], freerg' \in Seq(Rg), Disjoint'
  PROVE  R!NoOverlap'
<1>0. (\A r \in RgId : symrg'[r] \in Rg) /\ (\A i \in DOMAIN freerg' : freerg'[i] \in Rg) OBVIOUS
<1>1. \A g, h : R!Apart(g, h) <=> Apart(g, h) BY DEF R!Apart, Apart
<1>2. \A g, h \in Rg : Apart(g, h) <=> Bytes(g) \cap Bytes(h) = {} BY ApartBytes, BytesApart
<1> QED BY <1>0, <1>1, <1>2 DEF R!NoOverlap, Disjoint

\* The types of the regions after a step
LEMMA RegionTypesNext ==
  R!TypeOK' <=> /\ symrg' \in [RgId -> Rg] /\ freerg' \in Seq(Rg)
                /\ sbrk' \in Nat /\ lost' \subseteq Nat
<1>1. R!Rg = Rg BY DEF R!Rg, Rg
<1> QED BY <1>1 DEF R!TypeOK

-----------------------------------------------------------------------------
(* Types of the calls *)

Labels == {"idle", "region", "map", "push", "find", "search", "grow", "claim",
           "check", "user", "kernel"}

\* The arguments and locals of a call
Acc == [op : AllOps \cup {""}, rg : Reg, size : Nat, id : Nat, align : Nat,
        start : Nat, i : Nat, urg : Reg, offset : Nat, seen : Rg]

\* The types that the steps below need
LEMMA TypeFacts ==
  ASSUME TypeOK
  PROVE  /\ acc \in [Thread -> Acc] /\ pc \in [Thread -> Labels]
         /\ symrg \in [RgId -> Rg] /\ freerg \in Seq(Rg) /\ sbrk \in Nat /\ lost \subseteq Nat
         /\ \A t \in Thread : acc[t] \in Acc
         /\ \A r \in RgId : symrg[r] \in Rg
         /\ \A i \in DOMAIN freerg : freerg[i] \in Rg /\ freerg[i].start \in Nat /\ freerg[i].end \in Nat
<1>1. /\ acc \in [Thread -> Acc] /\ pc \in [Thread -> Labels]
      /\ symrg \in [RgId -> Rg] /\ freerg \in Seq(Rg) /\ sbrk \in Nat /\ lost \subseteq Nat
  BY RegionTypes DEF TypeOK, Acc, Labels
<1>2. \A i \in DOMAIN freerg : freerg[i] \in Rg BY <1>1
<1>3. \A g \in Rg : g.start \in Nat /\ g.end \in Nat BY DEF Rg
<1> QED BY <1>1, <1>2, <1>3

\* The entries of the two symbol tables
LEMMA Registers ==
  ASSUME NEW r \in Reg
  PROVE  UserRg(r) \in RgId /\ KernelRg(r) \in RgId
BY DEF UserRg, KernelRg, RgId

\* The fields of the locals
LEMMA AccFields ==
  ASSUME NEW a \in Acc
  PROVE  /\ a.rg \in Reg /\ a.urg \in Reg /\ a.seen \in Rg
         /\ a.size \in Nat /\ a.id \in Nat /\ a.align \in Nat /\ a.start \in Nat
         /\ a.i \in Nat /\ a.i + 1 \in Nat /\ a.offset \in Nat
<1> DEFINE N == Nat
<1>1. /\ a.rg \in Reg /\ a.urg \in Reg /\ a.seen \in Rg
      /\ a.size \in N /\ a.id \in N /\ a.align \in N /\ a.start \in N
      /\ a.i \in N /\ a.offset \in N
  <2>1. a \in [op : AllOps \cup {""}, rg : Reg, size : N, id : N, align : N,
               start : N, i : N, urg : Reg, offset : N, seen : Rg]
    BY DEF Acc
  <2> HIDE DEF N
  <2> QED BY <2>1
<1> QED BY <1>1

\* The entry that a kernel allocation writes
LEMMA TargetType ==
  ASSUME NEW t \in Thread, acc[t] \in Acc
  PROVE  Target(t) \in RgId
BY AccFields, Registers DEF Target

\* The locals of a CPU that is in no call
LEMMA IdleType == Idle \in Acc
<1>1. 0 \in Reg BY KMemAssumption DEF KMemAssumption, Reg
<1>2. Empty \in Rg BY DEF Empty, Rg
<1> QED BY <1>1, <1>2 DEF Idle, Acc

\* A slot has a size, holds an object and is a multiple of the alignment.
LEMMA SlotFacts ==
  ASSUME NEW s, s.size \in Nat, s.align \in Nat, s.align > 0
  PROVE  /\ SlotSize(s) \in Nat /\ SlotSize(s) >= s.size /\ SlotSize(s) % s.align = 0
<1> DEFINE n == s.size
           a == s.align
           q == (n + a - 1) \div a
<1>1. n \in Nat /\ a \in Nat \ {0} /\ n + a - 1 \in Nat OBVIOUS
<1> HIDE DEF n, a
<1>2. q \in Nat BY <1>1
<1>3. n + a - 1 < q * a + a BY <1>1
<1> HIDE DEF q
<1>4. q * a \in Nat BY <1>1, <1>2
<1>5. (q * a) % a = 0 BY <1>1, <1>2
<1>6. q * a >= n BY <1>1, <1>3, <1>4
<1>7. SlotSize(s) = q * a BY DEF SlotSize, q, n, a
<1> QED BY <1>4, <1>5, <1>6, <1>7 DEF n, a

\* The page of each turn of the loop of __kmalloc is below the break.
LEMMA PageOfTurn ==
  ASSUME NEW start \in Nat, NEW size \in Nat, NEW i \in Nat, i < PageCount(size)
  PROVE  start \div PageSz + i \in Nat /\ start \div PageSz + i < start + size
<1> DEFINE P == PageSz
<1>1. P \in Nat \ {0} BY KMemAssumption DEF KMemAssumption
<1>2. i < (size + P - 1) \div P BY DEF PageCount
<1> HIDE DEF P
<1>3. i < size BY <1>1, <1>2
<1>4. start \div P \in Nat /\ start \div P <= start BY <1>1
<1>5. start \div P + i \in Nat /\ start \div P + i < start + size BY <1>3, <1>4
<1> QED BY <1>5 DEF P

-----------------------------------------------------------------------------
(* Who acts *)

\* A CPU keeps mmvm_lock while another one acts.
LEMMA LockKept ==
  ASSUME NEW t \in Thread, NEW u \in Thread, u # t, mmvm_lock = u, Call(t) \/ Step(t)
  PROVE  mmvm_lock' = u
<1>1. mmvm_lock # t /\ mmvm_lock # Nobody BY KMemAssumption DEF KMemAssumption
<1>2. End(t) => mmvm_lock' = u BY <1>1 DEF End, Unlock
<1>3. ASSUME NEW label, NEW args, Begin(t, label, args) PROVE mmvm_lock' = u
  BY <1>1, <1>3 DEF Begin
<1>4. ASSUME Call(t) PROVE mmvm_lock' = u
  <2>1. \A r, size : ~Alloc(t, r, size) /\ ~Free(t, r) BY <1>1 DEF Alloc, Free, UserStep
  <2> QED BY <1>3, <1>4, <2>1 DEF Call, BeginKmalloc, BeginCacheAlloc, BeginPoolCreate, BeginCopy
<1>5. ASSUME Kmalloc(t) PROVE mmvm_lock' = u
  BY <1>1, <1>2, <1>5
     DEF Kmalloc, TakeNode, TakeBreak, MapPage, OutOfFrames, AllMapped, PushPool, Unlock
<1>6. ASSUME CacheAlloc(t) PROVE mmvm_lock' = u
  BY <1>2, <1>6 DEF CacheAlloc, FindPool, NoPool, CacheNode, SaveBreak, CacheGrow, CacheClaim
<1>7. ASSUME Copy(t) PROVE mmvm_lock' = u
  <2>1. CASE CheckCopy(t) BY <1>2, <2>1 DEF CheckCopy
  <2>2. CASE UserByte(t) BY <1>1, <2>2 DEF UserByte
  <2>3. CASE UserFails(t) \/ UserOutside(t) BY <1>1, <2>3 DEF UserFails, UserOutside
  <2>4. CASE KernelByte(t) BY <1>2, <2>4 DEF KernelByte, NextByte
  <2> QED BY <1>7, <2>1, <2>2, <2>3, <2>4 DEF Copy
<1> QED BY <1>4, <1>5, <1>6, <1>7 DEF Step

\* While a CPU is in a cache allocation that excludes the others, none of them
\* allocates.
LEMMA Excluded ==
  ASSUME Exclusion, LocalsOK, NEW t \in Thread, NEW u \in Thread, u # t, InCache(u)
  PROVE  /\ \A r, size : ~Alloc(t, r, size)
         /\ ~InCache(t) /\ ~TakeNode(t) /\ ~TakeBreak(t)
         /\ ~CacheNode(t) /\ ~CacheGrow(t) /\ ~CacheClaim(t)
<1>0. CallOK(t) /\ CallOK(u) BY DEF LocalsOK
<1>1. CASE Alone
  <2>1. mmvm_lock = u /\ mmvm_lock # t /\ mmvm_lock # Nobody
    BY <1>0, <1>1, KMemAssumption DEF CallOK, KMemAssumption
  <2>2. ~InCache(t) /\ ~InKmalloc(t) BY <1>0, <1>1, <2>1 DEF CallOK
  <2> QED BY <2>1, <2>2
          DEF Alloc, UserStep, TakeNode, TakeBreak, CacheNode, CacheGrow, CacheClaim, At,
              InCache, InKmalloc
<1>2. CASE ~Alone
  <2>1. "cache_alloc" \in OpsOf[u] BY <1>0 DEF CallOK
  <2>2. OpsOf[t] \cap {"__alloc", "kmalloc", "pool_create", "cache_alloc"} = {}
    BY <1>2, <2>1 DEF Exclusion
  <2>3. ~InCache(t) /\ ~InKmalloc(t) BY <1>0, <2>2 DEF CallOK
  <2> QED BY <2>2, <2>3
          DEF Alloc, UserStep, TakeNode, TakeBreak, CacheNode, CacheGrow, CacheClaim, At,
              InCache, InKmalloc
<1> QED BY <1>1, <1>2

\* What the steps of a call do to its locals
LEMMA SetAcc ==
  ASSUME acc \in [Thread -> Acc], NEW t \in Thread, NEW x, NEW y
  PROVE  /\ x \in Nat => /\ [acc EXCEPT ![t].start = x] \in [Thread -> Acc]
                         /\ [acc EXCEPT ![t].i = x] \in [Thread -> Acc]
         /\ x \in Rg => [acc EXCEPT ![t].seen = x] \in [Thread -> Acc]
         /\ x \in Nat /\ y \in Nat =>
              [acc EXCEPT ![t].size = x, ![t].align = y] \in [Thread -> Acc]
<1> DEFINE O == AllOps \cup {""}
           N == Nat
<1>1. acc \in [Thread -> [op : O, rg : Reg, size : N, id : N, align : N, start : N, i : N,
                          urg : Reg, offset : N, seen : Rg]]
  BY DEF Acc
<1>2. [Thread -> Acc] = [Thread -> [op : O, rg : Reg, size : N, id : N, align : N, start : N,
                                    i : N, urg : Reg, offset : N, seen : Rg]]
  BY DEF Acc
<1> HIDE DEF O, N
<1> DEFINE A == [Thread -> [op : O, rg : Reg, size : N, id : N, align : N, start : N,
                           i : N, urg : Reg, offset : N, seen : Rg]]
<1>3. x \in N => [acc EXCEPT ![t].start = x] \in A BY <1>1
<1>4. x \in N => [acc EXCEPT ![t].i = x] \in A BY <1>1
<1>5. x \in Rg => [acc EXCEPT ![t].seen = x] \in A BY <1>1
<1>6. x \in N /\ y \in N => [acc EXCEPT ![t].size = x, ![t].align = y] \in A BY <1>1
<1> QED BY <1>2, <1>3, <1>4, <1>5, <1>6 DEF N

\* A call begins with arguments of their types.
LEMMA BeginTypes ==
  ASSUME NEW t \in Thread
  PROVE  /\ \A r \in Reg, size \in Sizes : BeginKmalloc(t, r, size) =>
              \E a \in Acc : Begin(t, "region", a) /\ a = [Idle EXCEPT !.op = "kmalloc", !.rg = r, !.size = size]
         /\ \A id \in PoolId, r \in Reg : BeginCacheAlloc(t, id, r) =>
              \E a \in Acc : Begin(t, "find", a) /\ a = [Idle EXCEPT !.op = "cache_alloc", !.id = id, !.rg = r]
         /\ \A id \in PoolId, s \in Shapes : BeginPoolCreate(t, id, s) =>
              \E a \in Acc : /\ Begin(t, "region", a)
                             /\ a = [Idle EXCEPT !.op = "pool_create", !.rg = PoolRg(id), !.id = id,
                                                 !.size = s.size, !.align = s.align]
         /\ \A c \in Copies : BeginCopy(t, c) =>
              \E a \in Acc : /\ Begin(t, "check", a)
                             /\ a = [Idle EXCEPT !.op = c.op, !.urg = c.urg, !.rg = c.rg,
                                                 !.offset = c.offset, !.size = c.size]
<1>1. /\ Sizes \subseteq Nat /\ PoolId \subseteq Nat /\ Shapes \subseteq [size : Nat, align : Nat]
      /\ Copies \subseteq [op : {"copy_from_user", "copy_to_user"}, urg : Reg, rg : Reg,
                           offset : Nat, size : Nat]
      /\ NumRg \in Nat \ {0}
  BY KMemAssumption DEF KMemAssumption
<1>2. ASSUME NEW r \in Reg, NEW size \in Sizes
      PROVE  [Idle EXCEPT !.op = "kmalloc", !.rg = r, !.size = size] \in Acc
  BY <1>1, IdleType DEF Acc, AllOps
<1>3. ASSUME NEW id \in PoolId, NEW r \in Reg
      PROVE  [Idle EXCEPT !.op = "cache_alloc", !.id = id, !.rg = r] \in Acc
  BY <1>1, IdleType DEF Acc, AllOps
<1>4. ASSUME NEW id \in PoolId, NEW s \in Shapes, PoolRg(id) >= 0
      PROVE  [Idle EXCEPT !.op = "pool_create", !.rg = PoolRg(id), !.id = id,
                          !.size = s.size, !.align = s.align] \in Acc
  <2>1. PoolRg(id) \in Reg BY <1>1, <1>4 DEF PoolRg, Reg
  <2> QED BY <1>1, <2>1, IdleType DEF Acc, AllOps
<1>5. ASSUME NEW c \in Copies
      PROVE  [Idle EXCEPT !.op = c.op, !.urg = c.urg, !.rg = c.rg,
                          !.offset = c.offset, !.size = c.size] \in Acc
  <2>1. c \in [op : {"copy_from_user", "copy_to_user"}, urg : Reg, rg : Reg,
               offset : Nat, size : Nat]
    BY <1>1
  <2> QED BY <2>1, IdleType DEF Acc, AllOps
<1> QED BY <1>2, <1>3, <1>4, <1>5 DEF BeginKmalloc, BeginCacheAlloc, BeginPoolCreate, BeginCopy

\* The pools of the list
LEMMA PoolFields ==
  ASSUME TypeOK, PoolsOK, NEW k \in DOMAIN kcpooltbl
  PROVE  /\ kcpooltbl[k].size \in Nat /\ kcpooltbl[k].align \in Nat /\ kcpooltbl[k].align > 0
         /\ kcpooltbl[k].id \in PoolId
         /\ [size |-> kcpooltbl[k].size, align |-> kcpooltbl[k].align] \in Shapes
<1> DEFINE S == [id : PoolId, size : Nat, align : Nat]
<1>0. kcpooltbl \in Seq(S) BY DEF TypeOK
<1> HIDE DEF S
<1>1. kcpooltbl[k] \in S BY <1>0
<1> USE DEF S
<1>2. ShapeOK(kcpooltbl[k]) BY DEF PoolsOK
<1> QED BY <1>1, <1>2 DEF ShapeOK

\* Every step keeps the types of control and locals, and those of the other CPUs.
LEMMA MoveStep ==
  ASSUME TypeOK, LocalsOK, PoolsOK, NEW t \in Thread, Call(t) \/ Step(t)
  PROVE  /\ pc' \in [Thread -> Labels] /\ acc' \in [Thread -> Acc]
         /\ mmvm_lock' \in Thread \cup {Nobody}
         /\ \A u \in Thread : u # t => pc'[u] = pc[u] /\ acc'[u] = acc[u]
<1> USE DEF At, Goto, Set
<1> DEFINE Moved == /\ pc' \in [Thread -> Labels] /\ acc' \in [Thread -> Acc]
                    /\ mmvm_lock' \in Thread \cup {Nobody}
                    /\ \A u \in Thread : u # t => pc'[u] = pc[u] /\ acc'[u] = acc[u]
<1>0. /\ acc \in [Thread -> Acc] /\ pc \in [Thread -> Labels]
      /\ mmvm_lock \in Thread \cup {Nobody} /\ acc[t] \in Acc
      /\ symrg \in [RgId -> Rg] /\ sbrk \in Nat
      /\ \A i \in DOMAIN freerg : freerg[i] \in Rg /\ freerg[i].start \in Nat
  BY TypeFacts DEF TypeOK
<1>1. ASSUME NEW label \in Labels, pc' = [pc EXCEPT ![t] = label],
             acc' \in [Thread -> Acc], \A u \in Thread : u # t => acc'[u] = acc[u],
             mmvm_lock' \in Thread \cup {Nobody}
      PROVE  Moved
  BY <1>0, <1>1
<1>2. ASSUME End(t) PROVE Moved
  <2>1. /\ pc' = [pc EXCEPT ![t] = "idle"] /\ acc' = [acc EXCEPT ![t] = Idle]
        /\ mmvm_lock' \in Thread \cup {Nobody}
    BY <1>0, <1>2 DEF End, Unlock
  <2>2. acc' \in [Thread -> Acc] /\ \A u \in Thread : u # t => acc'[u] = acc[u]
    BY <1>0, <2>1, IdleType
  <2>3. "idle" \in Labels BY DEF Labels
  <2> QED BY <1>1, <2>1, <2>2, <2>3
<1>3. ASSUME NEW label \in Labels, NEW a \in Acc, Begin(t, label, a) PROVE Moved
  <2>1. /\ pc' = [pc EXCEPT ![t] = label] /\ acc' = [acc EXCEPT ![t] = a]
        /\ mmvm_lock' \in Thread \cup {Nobody}
    BY <1>0, <1>3 DEF Begin
  <2>2. acc' \in [Thread -> Acc] /\ \A u \in Thread : u # t => acc'[u] = acc[u]
    BY <1>0, <2>1
  <2> QED BY <1>1, <2>1, <2>2
<1>4. ASSUME NEW label \in Labels, NEW x \in Nat, NEW y \in Nat,
             pc' = [pc EXCEPT ![t] = label], mmvm_lock' = mmvm_lock,
             \/ acc' = acc \/ acc' = [acc EXCEPT ![t].start = x] \/ acc' = [acc EXCEPT ![t].i = x]
             \/ acc' = [acc EXCEPT ![t].size = x, ![t].align = y]
      PROVE  Moved
  <2>1. acc' \in [Thread -> Acc]
    <3>1. CASE acc' = acc BY <1>0, <3>1
    <3>2. CASE acc' = [acc EXCEPT ![t].start = x] BY <1>0, <3>2, SetAcc
    <3>3. CASE acc' = [acc EXCEPT ![t].i = x] BY <1>0, <3>3, SetAcc
    <3>4. CASE acc' = [acc EXCEPT ![t].size = x, ![t].align = y] BY <1>0, <3>4, SetAcc
    <3> QED BY <1>4, <3>1, <3>2, <3>3, <3>4
  <2>2. \A u \in Thread : u # t => acc'[u] = acc[u] BY <1>0, <1>4
  <2> QED BY <1>0, <1>1, <1>4, <2>1, <2>2
<1>5. acc[t].i \in Nat /\ acc[t].i + 1 \in Nat /\ UserRg(acc[t].rg) \in RgId
  BY <1>0, AccFields, Registers
<1>6. {"idle", "region", "map", "push", "find", "search", "grow", "claim",
       "check", "user", "kernel"} = Labels BY DEF Labels
<1>7. CASE Call(t)
  <2>1. ASSUME NEW r, NEW size, Alloc(t, r, size) \/ Free(t, r) PROVE Moved
    BY <1>0, <2>1 DEF Alloc, Free, UserStep
  <2>2. ASSUME NEW r \in Reg, NEW size \in Sizes, BeginKmalloc(t, r, size) PROVE Moved
    BY <1>3, <1>6, <2>2, BeginTypes
  <2>3. ASSUME NEW id \in PoolId, NEW r \in Reg, BeginCacheAlloc(t, id, r) PROVE Moved
    BY <1>3, <1>6, <2>3, BeginTypes
  <2>4. ASSUME NEW id \in PoolId, NEW s \in Shapes, BeginPoolCreate(t, id, s) PROVE Moved
    BY <1>3, <1>6, <2>4, BeginTypes
  <2>5. ASSUME NEW c \in Copies, BeginCopy(t, c) PROVE Moved
    BY <1>3, <1>6, <2>5, BeginTypes
  <2> QED BY <1>7, <2>1, <2>2, <2>3, <2>4, <2>5 DEF Call
<1>8. CASE Kmalloc(t)
  <2>1. CASE TakeNode(t) BY <1>0, <1>4, <1>6, <2>1 DEF TakeNode
  <2>2. CASE TakeBreak(t) BY <1>0, <1>4, <1>6, <2>2 DEF TakeBreak
  <2>3. CASE MapPage(t)
    <3>1. pc' = pc /\ acc' = [acc EXCEPT ![t].i = acc[t].i + 1] /\ mmvm_lock' = mmvm_lock
      BY <2>3 DEF MapPage
    <3>2. pc[t] \in Labels /\ pc' = [pc EXCEPT ![t] = pc[t]] BY <1>0, <3>1
    <3> QED BY <1>4, <1>5, <3>1, <3>2
  <2>4. CASE OutOfFrames(t) BY <1>2, <2>4 DEF OutOfFrames
  <2>5. CASE AllMapped(t)
    <3>1. CASE acc[t].op = "kmalloc" BY <1>2, <2>5, <3>1 DEF AllMapped
    <3>2. CASE acc[t].op # "kmalloc"
      <4>1. /\ pc' = [pc EXCEPT ![t] = "push"] /\ acc' = acc
            /\ mmvm_lock' \in Thread \cup {Nobody}
        BY <1>0, <2>5, <3>2 DEF AllMapped, Unlock
      <4> QED BY <1>0, <1>1, <1>6, <4>1
    <3> QED BY <3>1, <3>2
  <2>6. CASE PushPool(t) BY <1>2, <2>6 DEF PushPool
  <2> QED BY <1>8, <2>1, <2>2, <2>3, <2>4, <2>5, <2>6 DEF Kmalloc
<1>9. CASE CacheAlloc(t)
  <2>1. CASE FindPool(t)
    <3>1. PICK k \in DOMAIN kcpooltbl :
            acc' = [acc EXCEPT ![t].size = SlotSize(kcpooltbl[k]), ![t].align = kcpooltbl[k].align]
      BY <2>1 DEF FindPool
    <3>2. kcpooltbl[k].size \in Nat /\ kcpooltbl[k].align \in Nat /\ kcpooltbl[k].align > 0
      BY PoolFields
    <3>3. SlotSize(kcpooltbl[k]) \in Nat BY <3>2, SlotFacts
    <3>4. pc' = [pc EXCEPT ![t] = "search"] /\ mmvm_lock' = mmvm_lock BY <2>1 DEF FindPool
    <3> QED BY <1>4, <1>6, <3>1, <3>2, <3>3, <3>4
  <2>2. CASE NoPool(t) BY <1>2, <2>2 DEF NoPool
  <2>3. CASE CacheNode(t) BY <1>0, <1>4, <1>6, <2>3 DEF CacheNode
  <2>4. CASE SaveBreak(t) BY <1>0, <1>4, <1>6, <2>4 DEF SaveBreak
  <2>5. CASE CacheGrow(t) BY <1>0, <1>4, <1>6, <2>5 DEF CacheGrow
  <2>6. CASE CacheClaim(t) BY <1>2, <2>6 DEF CacheClaim
  <2> QED BY <1>9, <2>1, <2>2, <2>3, <2>4, <2>5, <2>6 DEF CacheAlloc
<1>10. CASE Copy(t)
  <2>0. ASSUME NextByte(t) PROVE Moved
    <3>1. CASE acc[t].i + 1 = acc[t].size BY <1>2, <2>0, <3>1 DEF NextByte
    <3>2. CASE acc[t].i + 1 # acc[t].size
      <4>1. /\ acc' = [acc EXCEPT ![t].i = acc[t].i + 1] /\ mmvm_lock' = mmvm_lock
            /\ pc' = [pc EXCEPT ![t] = IF FromUser(t) THEN "user" ELSE "kernel"]
        BY <2>0, <3>2 DEF NextByte
      <4>2. (IF FromUser(t) THEN "user" ELSE "kernel") \in Labels BY <1>6
      <4> QED BY <1>4, <1>5, <4>1, <4>2
    <3> QED BY <3>1, <3>2
  <2>1. CASE CheckCopy(t)
    <3>1. CASE Checked(t) /\ acc[t].size > 0
      <4>1. /\ acc' = [acc EXCEPT ![t].seen = symrg[UserRg(acc[t].rg)]] /\ mmvm_lock' = mmvm_lock
            /\ pc' = [pc EXCEPT ![t] = IF FromUser(t) THEN "user" ELSE "kernel"]
        BY <2>1, <3>1 DEF CheckCopy
      <4>2. (IF FromUser(t) THEN "user" ELSE "kernel") \in Labels BY <1>6
      <4>3. symrg[UserRg(acc[t].rg)] \in Rg BY <1>0, <1>5
      <4>4. acc' \in [Thread -> Acc] BY <1>0, <4>1, <4>3, SetAcc
      <4>5. \A u \in Thread : u # t => acc'[u] = acc[u] BY <1>0, <4>1
      <4> QED BY <1>0, <1>1, <4>1, <4>2, <4>4, <4>5
    <3>2. CASE ~(Checked(t) /\ acc[t].size > 0) BY <1>2, <2>1, <3>2 DEF CheckCopy
    <3> QED BY <3>1, <3>2
  <2>2. CASE UserByte(t)
    <3>1. \/ NextByte(t)
          \/ pc' = [pc EXCEPT ![t] = "kernel"] /\ UNCHANGED <<mmvm_lock, acc>>
      BY <2>2 DEF UserByte
    <3> QED BY <1>0, <1>2, <1>4, <1>6, <2>0, <3>1
  <2>3. CASE UserFails(t) \/ UserOutside(t) BY <1>2, <2>3 DEF UserFails, UserOutside
  <2>4. CASE KernelByte(t)
    <3>1. \/ End(t) \/ NextByte(t)
          \/ pc' = [pc EXCEPT ![t] = "user"] /\ UNCHANGED <<mmvm_lock, acc>>
      BY <2>4 DEF KernelByte
    <3> QED BY <1>0, <1>2, <1>4, <1>6, <2>0, <3>1
  <2> QED BY <1>10, <2>1, <2>2, <2>3, <2>4 DEF Copy
<1> QED BY <1>7, <1>8, <1>9, <1>10 DEF Step

-----------------------------------------------------------------------------
(* Who has the addresses below the break *)

\* No other CPU has a slot it has not recorded yet.
Sole(t) == \A u \in Thread : u # t => ~At(u, "claim")

\* Every address below the break is in a region, on the free list, with the CPU t
\* or lost, and in one of them only.
Accounted(t) ==
  /\ Disjoint
  /\ Taken(t) \cap lost = {}
  /\ \A r \in RgId : Bytes(symrg[r]) \cap lost = {} /\ Bytes(symrg[r]) \cap Taken(t) = {}
  /\ \A i \in DOMAIN freerg : Bytes(freerg[i]) \cap lost = {} /\ Bytes(freerg[i]) \cap Taken(t) = {}
  /\ \A a \in 0 .. (sbrk - 1) :
       \/ a \in lost \/ a \in Taken(t)
       \/ \E r \in RgId : a \in Bytes(symrg[r])
       \/ \E i \in DOMAIN freerg : a \in Bytes(freerg[i])

\* The types of the regions, and all of them are below the break.
Sound == /\ symrg \in [RgId -> Rg] /\ freerg \in Seq(Rg) /\ sbrk \in Nat /\ lost \subseteq Nat
         /\ BreakOK

\* Accounted is NoOverlap and NothingLost if one CPU at most has a slot.
LEMMA AccountedNow ==
  ASSUME Sound, NEW t \in Thread, Sole(t), NoOverlap, NothingLost
  PROVE  Accounted(t)
<1>1. Disjoint BY RegionsDisjoint DEF NoOverlap, Sound
<1>2. \A u \in Thread : u # t => Taken(u) = {} BY DEF Sole, Taken
<1>3. \A a \in 0 .. (sbrk - 1) :
       \/ a \in lost \/ a \in Taken(t)
       \/ \E r \in RgId : a \in Bytes(symrg[r])
       \/ \E i \in DOMAIN freerg : a \in Bytes(freerg[i])
  BY <1>2 DEF NothingLost
<1> QED BY <1>1, <1>3 DEF NoOverlap, Accounted

\* The same after a step
LEMMA AccountedNext ==
  ASSUME Sound', NEW t \in Thread, Sole(t)', Accounted(t)'
  PROVE  NoOverlap' /\ NothingLost'
<1>1. R!NoOverlap' BY RegionsDisjointNext DEF Accounted, Sound
<1>2. \A u \in Thread : u # t => Taken(u)' = {} BY DEF Sole, Taken
<1>3. NoOverlap'
  <2>1. ASSUME NEW u \in Thread
        PROVE  /\ Taken(u)' \cap lost' = {}
               /\ \A r \in RgId : Bytes(symrg'[r]) \cap Taken(u)' = {}
               /\ \A i \in DOMAIN freerg' : Bytes(freerg'[i]) \cap Taken(u)' = {}
    <3>1. CASE u = t BY <3>1 DEF Accounted
    <3>2. CASE u # t BY <1>2, <3>2
    <3> QED BY <3>1, <3>2
  <2>2. /\ \A r \in RgId : Bytes(symrg'[r]) \cap lost' = {}
        /\ \A i \in DOMAIN freerg' : Bytes(freerg'[i]) \cap lost' = {}
    BY DEF Accounted
  <2> QED BY <1>1, <2>1, <2>2 DEF NoOverlap
<1>4. NothingLost' BY DEF Accounted, NothingLost
<1> QED BY <1>3, <1>4

\* The addresses of a region, of a node and of a slot are below the break.
LEMMA BelowBreak ==
  ASSUME Sound
  PROVE  /\ \A r \in RgId : \A a \in Bytes(symrg[r]) : a \in Nat /\ a < sbrk
         /\ \A i \in DOMAIN freerg : \A a \in Bytes(freerg[i]) : a \in Nat /\ a < sbrk
<1>0. BreakOK /\ sbrk \in Nat BY DEF Sound
<1>1. \A g \in Rg : g.end <= sbrk => \A a \in Bytes(g) : a \in Nat /\ a < sbrk
  BY <1>0 DEF Rg, Bytes
<1>2. (\A r \in RgId : symrg[r] \in Rg) /\ (\A i \in DOMAIN freerg : freerg[i] \in Rg)
  BY DEF Sound
<1> QED BY <1>0, <1>1, <1>2 DEF BreakOK

\* The bytes c are taken from node i: they were nobody else's, and the new list has
\* the rest.
NodeGone(t, i, size) ==
  LET c == Span(freerg[i].start, size)
  IN /\ freerg' \in Seq(Rg) /\ freerg[i].start \in Nat /\ freerg[i].start + size <= sbrk
     /\ c \cap lost = {} /\ c \cap Taken(t) = {}
     /\ \A r \in RgId : Bytes(symrg[r]) \cap c = {}
     /\ \A j \in DOMAIN freerg' :
          /\ freerg'[j].end <= sbrk /\ Bytes(freerg'[j]) \cap c = {}
          /\ Bytes(freerg'[j]) \cap lost = {} /\ Bytes(freerg'[j]) \cap Taken(t) = {}
          /\ \A r \in RgId : Bytes(symrg[r]) \cap Bytes(freerg'[j]) = {}
     /\ \A j, k \in DOMAIN freerg' : j # k => Bytes(freerg'[j]) \cap Bytes(freerg'[k]) = {}
     /\ \A k \in DOMAIN freerg : \A a \in Bytes(freerg[k]) :
          a \in c \/ \E j \in DOMAIN freerg' : a \in Bytes(freerg'[j])

\* What taking bytes from a node does
LEMMA NodeTaken ==
  ASSUME Sound, NEW t \in Thread, Accounted(t),
         NEW i \in DOMAIN freerg, NEW size \in Nat, Fits(freerg[i], size),
         freerg' = Take(freerg, i, size)
  PROVE  NodeGone(t, i, size)
<1> DEFINE n == Take(freerg, i, size)
           c == Span(freerg[i].start, size)
<1>0. /\ freerg \in Seq(Rg) /\ sbrk \in Nat
      /\ \A j \in DOMAIN freerg : freerg[j].end <= sbrk
      /\ \A j, k \in DOMAIN freerg : j # k => Bytes(freerg[j]) \cap Bytes(freerg[k]) = {}
      /\ \A j \in DOMAIN freerg : Bytes(freerg[j]) \cap lost = {} /\ Bytes(freerg[j]) \cap Taken(t) = {}
      /\ \A r \in RgId, j \in DOMAIN freerg : Bytes(symrg[r]) \cap Bytes(freerg[j]) = {}
  BY DEF Sound, Accounted, Disjoint
<1>1. /\ n \in Seq(Rg) /\ freerg[i].start \in Nat /\ freerg[i].start + size <= sbrk
      /\ c \subseteq Bytes(freerg[i])
      /\ \A j \in DOMAIN n : n[j].end <= sbrk /\ Bytes(n[j]) \cap c = {}
      /\ \A j \in DOMAIN n : \E k \in DOMAIN freerg : Bytes(n[j]) \subseteq Bytes(freerg[k])
      /\ \A j, k \in DOMAIN n : j # k => Bytes(n[j]) \cap Bytes(n[k]) = {}
  BY <1>0, TakeDisjoint
<1>2. ASSUME NEW k \in DOMAIN freerg, NEW a \in Bytes(freerg[k])
      PROVE  a \in c \/ \E j \in DOMAIN n : a \in Bytes(n[j])
  <2>1. Bytes([start |-> freerg[i].start, end |-> freerg[i].start + size]) = c
    BY <1>1, SpanBytes
  <2> QED BY <1>0, <2>1, TakeKeeps
<1>3. freerg' = n OBVIOUS
<1> HIDE DEF n, c
<1>4. /\ c \cap lost = {} /\ c \cap Taken(t) = {}
      /\ \A r \in RgId : Bytes(symrg[r]) \cap c = {}
  BY <1>0, <1>1
<1>5. ASSUME NEW j \in DOMAIN n
      PROVE  /\ Bytes(n[j]) \cap lost = {} /\ Bytes(n[j]) \cap Taken(t) = {}
             /\ \A r \in RgId : Bytes(symrg[r]) \cap Bytes(n[j]) = {}
  <2>1. PICK k \in DOMAIN freerg : Bytes(n[j]) \subseteq Bytes(freerg[k]) BY <1>1
  <2> QED BY <1>0, <2>1
<1> QED BY <1>1, <1>2, <1>3, <1>4, <1>5 DEF c, NodeGone

\* The addresses c and w above the break are nobody's.
NewRoom(size, extra) ==
  LET c == Span(sbrk, size)
      w == Span(sbrk + size, extra)
  IN /\ c \cap w = {} /\ c \cap lost = {} /\ w \cap lost = {}
     /\ sbrk' \in Nat /\ sbrk <= sbrk'
     /\ \A a \in c \cup w : a \in Nat /\ a < sbrk' /\ ~(a < sbrk)
     /\ \A r \in RgId : Bytes(symrg[r]) \cap c = {} /\ Bytes(symrg[r]) \cap w = {}
     /\ \A i \in DOMAIN freerg : Bytes(freerg[i]) \cap c = {} /\ Bytes(freerg[i]) \cap w = {}
     /\ \A a \in 0 .. (sbrk' - 1) : a \in 0 .. (sbrk - 1) \/ a \in c \/ a \in w

\* What moving the break does
LEMMA BreakMoved ==
  ASSUME Sound, NEW t \in Thread, Accounted(t), NEW size \in Nat, NEW extra \in Nat,
         sbrk' = sbrk + size + extra
  PROVE  NewRoom(size, extra)
<1> DEFINE c == Span(sbrk, size)
           w == Span(sbrk + size, extra)
<1>1. sbrk \in Nat BY DEF Sound
<1>2. /\ c \cap w = {} /\ sbrk' \in Nat /\ sbrk <= sbrk'
      /\ \A a \in c \cup w : a \in Nat /\ a < sbrk' /\ ~(a < sbrk)
      /\ \A a \in 0 .. (sbrk' - 1) : a \in 0 .. (sbrk - 1) \/ a \in c \/ a \in w
  BY <1>1 DEF Span
<1>3. /\ \A r \in RgId : \A a \in Bytes(symrg[r]) : a < sbrk
      /\ \A i \in DOMAIN freerg : \A a \in Bytes(freerg[i]) : a < sbrk
      /\ \A a \in lost : a < sbrk
  BY BelowBreak DEF Sound, BreakOK
<1> HIDE DEF c, w
<1>4. /\ c \cap lost = {} /\ w \cap lost = {}
      /\ \A r \in RgId : Bytes(symrg[r]) \cap c = {} /\ Bytes(symrg[r]) \cap w = {}
      /\ \A i \in DOMAIN freerg : Bytes(freerg[i]) \cap c = {} /\ Bytes(freerg[i]) \cap w = {}
  BY <1>2, <1>3
<1> QED BY <1>2, <1>4 DEF c, w, NewRoom

\* Recording size bytes from addr on in the entry of a register
LEMMA ClaimFacts ==
  ASSUME symrg \in [RgId -> Rg], NEW r \in RgId, NEW addr \in Nat, NEW size \in Nat,
         R!Claim(r, addr, size)
  PROVE  /\ symrg' \in [RgId -> Rg]
         /\ Bytes(symrg'[r]) = Span(addr, size) /\ symrg'[r].end = addr + size
         /\ \A q \in RgId : q # r => symrg'[q] = symrg[q]
<1> DEFINE g == [start |-> addr, end |-> addr + size]
<1>1. g \in Rg /\ g.end = addr + size /\ Bytes(g) = Span(addr, size) BY SpanBytes
<1> HIDE DEF g
<1>2. symrg' = [symrg EXCEPT ![r] = g] BY DEF g, R!Claim
<1>3. symrg' \in [RgId -> Rg] /\ symrg'[r] = g BY <1>1, <1>2
<1> QED BY <1>1, <1>2, <1>3

\* The bytes taken from a node and the new nodes are where the list was.
LEMMA TakeEnds ==
  ASSUME NEW s \in Seq(Rg), NEW i \in DOMAIN s, NEW size \in Nat, Fits(s[i], size), NEW top \in Nat,
         \A j \in DOMAIN s : s[j].end <= top
  PROVE  LET n == Take(s, i, size)
         IN /\ n \in Seq(Rg) /\ s[i].start \in Nat /\ s[i].start + size <= top
            /\ \A j \in DOMAIN n : n[j].end <= top
<1> DEFINE n == Take(s, i, size)
<1>0. \A j \in DOMAIN s : s[j] \in Rg /\ s[j].start \in Nat /\ s[j].end \in Nat BY DEF Rg
<1>1. n \in Seq(Rg) BY TakeFacts
<1>2. PICK f \in [DOMAIN n -> DOMAIN s] : \A j \in DOMAIN n : n[j].end = s[f[j]].end
  BY TakeFacts
<1> HIDE DEF n
<1>3. s[i].start \in Nat /\ s[i].start + size <= s[i].end /\ s[i].end <= top BY <1>0 DEF Fits
<1>4. s[i].start + size <= top BY <1>0, <1>3
<1>5. \A j \in DOMAIN n : n[j].end <= top
  <2>1. \A j \in DOMAIN n : f[j] \in DOMAIN s BY <1>2
  <2> QED BY <1>2, <2>1
<1> QED BY <1>1, <1>3, <1>4, <1>5 DEF n

\* A register that is not in use has no address.
LEMMA UnusedEmpty ==
  ASSUME Sound, NEW r \in RgId, ~R!Used(r)
  PROVE  Bytes(symrg[r]) = {}
<1>1. symrg[r] \in Rg BY DEF Sound
<1>2. symrg[r].start \in Nat /\ symrg[r].end \in Nat BY <1>1 DEF Rg
<1> QED BY <1>2 DEF R!Used, Bytes

\* When the break moves up, what was below it still is.
LEMMA EndsGrow ==
  ASSUME Sound, NEW top \in Nat, sbrk <= top
  PROVE  /\ \A q \in RgId : symrg[q].end <= top
         /\ \A i \in DOMAIN freerg : freerg[i].end <= top
<1>1. \A g \in Rg : g.end \in Nat BY DEF Rg
<1>2. (\A r \in RgId : symrg[r] \in Rg) /\ (\A i \in DOMAIN freerg : freerg[i] \in Rg) /\ sbrk \in Nat
  BY DEF Sound
<1>3. BreakOK BY DEF Sound
<1> QED BY <1>1, <1>2, <1>3 DEF BreakOK

\* __alloc from the free list: the bytes of the node go to the register.
LEMMA AllocFreeKeeps ==
  ASSUME Sound, Sound', NEW t \in Thread, Accounted(t), At(t, "idle"), pc' = pc,
         NEW r \in RgId, NEW size \in Sizes, R!AllocFree(r, size)
  PROVE  Accounted(t)'
<1>0. size \in Nat /\ Taken(t) = {} /\ Taken(t)' = {}
  BY KMemAssumption DEF KMemAssumption, At, Taken
<1>1. ~R!Used(r) /\ sbrk' = sbrk /\ lost' = lost BY AllocFreeOps
<1>2. PICK i \in DOMAIN freerg :
        /\ Fits(freerg[i], size) /\ freerg' = Take(freerg, i, size)
        /\ R!Claim(r, freerg[i].start, size)
  BY AllocFreeOps
<1> DEFINE c == Span(freerg[i].start, size)
<1>d. Disjoint BY DEF Accounted
<1>n. NodeGone(t, i, size) BY <1>0, <1>2, NodeTaken
<1>3. /\ freerg' \in Seq(Rg) /\ freerg[i].start \in Nat /\ freerg[i].start + size <= sbrk
      /\ c \cap lost = {}
      /\ \A q \in RgId : Bytes(symrg[q]) \cap c = {}
      /\ \A j \in DOMAIN freerg' :
           /\ freerg'[j].end <= sbrk /\ Bytes(freerg'[j]) \cap c = {}
           /\ Bytes(freerg'[j]) \cap lost = {}
           /\ \A q \in RgId : Bytes(symrg[q]) \cap Bytes(freerg'[j]) = {}
      /\ \A j, k \in DOMAIN freerg' : j # k => Bytes(freerg'[j]) \cap Bytes(freerg'[k]) = {}
      /\ \A k \in DOMAIN freerg : \A a \in Bytes(freerg[k]) :
           a \in c \/ \E j \in DOMAIN freerg' : a \in Bytes(freerg'[j])
  BY <1>n DEF NodeGone
<1>4. /\ symrg' \in [RgId -> Rg] /\ Bytes(symrg'[r]) = c
      /\ symrg'[r].end = freerg[i].start + size
      /\ \A q \in RgId : q # r => symrg'[q] = symrg[q]
  BY <1>0, <1>2, <1>3, ClaimFacts DEF Sound
<1> HIDE DEF c
<1>5. Disjoint' BY <1>d, <1>1, <1>3, <1>4 DEF Disjoint
<1>6. \A q \in RgId : Bytes(symrg'[q]) \cap lost' = {} BY <1>1, <1>3, <1>4 DEF Accounted
<1>7. Bytes(symrg[r]) = {} BY <1>1, UnusedEmpty
<1>8. ASSUME NEW a \in 0 .. (sbrk' - 1)
      PROVE  \/ a \in lost' \/ a \in Taken(t)'
             \/ \E q \in RgId : a \in Bytes(symrg'[q])
             \/ \E j \in DOMAIN freerg' : a \in Bytes(freerg'[j])
  <2>1. CASE a \in lost BY <1>1, <2>1
  <2>2. CASE \E q \in RgId : a \in Bytes(symrg[q]) BY <1>4, <1>7, <2>2
  <2>3. CASE \E k \in DOMAIN freerg : a \in Bytes(freerg[k]) BY <1>3, <1>4, <2>3
  <2> QED BY <1>0, <1>1, <2>1, <2>2, <2>3 DEF Accounted
<1> QED BY <1>0, <1>1, <1>3, <1>5, <1>6, <1>8 DEF Accounted

\* __alloc past the break: the register gets the first of the new bytes, the rounding
\* is lost.
LEMMA AllocBreakKeeps ==
  ASSUME Sound, Sound', NEW t \in Thread, Accounted(t), At(t, "idle"), pc' = pc,
         NEW r \in RgId, NEW size \in Sizes, R!AllocBreak(r, size)
  PROVE  Accounted(t)'
<1>0. size \in Nat /\ Rounding \subseteq Nat /\ Taken(t) = {} /\ Taken(t)' = {} /\ sbrk \in Nat
  BY KMemAssumption DEF KMemAssumption, At, Taken, Sound
<1>1. PICK extra \in Rounding :
        /\ sbrk + size + extra <= MaxBrk /\ sbrk' = sbrk + size + extra
        /\ lost' = lost \cup (sbrk + size) .. (sbrk' - 1)
  BY DEF R!AllocBreak
<1>2. ~R!Used(r) /\ freerg' = freerg /\ R!Claim(r, sbrk, size) BY DEF R!AllocBreak
<1> DEFINE c == Span(sbrk, size)
           w == Span(sbrk + size, extra)
<1>3. lost' = lost \cup w
  <2>1. sbrk' - 1 = sbrk + size + extra - 1 BY <1>0, <1>1
  <2> QED BY <1>1, <2>1, Zenon DEF Span
<1>d. Disjoint BY DEF Accounted
<1>n. NewRoom(size, extra) BY <1>0, <1>1, BreakMoved
<1>4. /\ c \cap w = {} /\ c \cap lost = {} /\ w \cap lost = {}
      /\ sbrk' \in Nat /\ sbrk <= sbrk'
      /\ \A a \in c \cup w : a \in Nat /\ a < sbrk'
      /\ \A q \in RgId : Bytes(symrg[q]) \cap c = {} /\ Bytes(symrg[q]) \cap w = {}
      /\ \A i \in DOMAIN freerg : Bytes(freerg[i]) \cap c = {} /\ Bytes(freerg[i]) \cap w = {}
      /\ \A a \in 0 .. (sbrk' - 1) : a \in 0 .. (sbrk - 1) \/ a \in c \/ a \in w
  BY <1>n DEF NewRoom
<1>5. /\ symrg' \in [RgId -> Rg] /\ Bytes(symrg'[r]) = c /\ symrg'[r].end = sbrk + size
      /\ \A q \in RgId : q # r => symrg'[q] = symrg[q]
  BY <1>0, <1>2, ClaimFacts DEF Sound
<1>6. symrg'[r].end <= sbrk' BY <1>0, <1>1, <1>5
<1>7. Bytes(symrg[r]) = {} BY <1>2, UnusedEmpty
<1> HIDE DEF c, w
<1>8. /\ \A q \in RgId : symrg'[q].end <= sbrk'
      /\ \A i \in DOMAIN freerg : freerg[i].end <= sbrk'
  BY <1>0, <1>4, <1>5, <1>6, EndsGrow DEF Accounted
<1>9. Disjoint' BY <1>d, <1>2, <1>4, <1>5, <1>8 DEF Disjoint
<1>10. \A q \in RgId : Bytes(symrg'[q]) \cap lost' = {} BY <1>3, <1>4, <1>5 DEF Accounted
<1>11. \A i \in DOMAIN freerg : Bytes(freerg[i]) \cap lost' = {} BY <1>3, <1>4 DEF Accounted
<1>12. ASSUME NEW a \in 0 .. (sbrk' - 1)
       PROVE  \/ a \in lost' \/ a \in Taken(t)'
              \/ \E q \in RgId : a \in Bytes(symrg'[q])
              \/ \E j \in DOMAIN freerg' : a \in Bytes(freerg'[j])
  <2>1. CASE a \in c \cup w BY <1>3, <1>5, <2>1
  <2>2. CASE a \in lost BY <1>3, <2>2
  <2>3. CASE \E q \in RgId : a \in Bytes(symrg[q]) BY <1>5, <1>7, <2>3
  <2>4. CASE \E k \in DOMAIN freerg : a \in Bytes(freerg[k]) BY <1>2, <2>4
  <2> QED BY <1>0, <1>4, <2>1, <2>2, <2>3, <2>4 DEF Accounted
<1> QED BY <1>0, <1>1, <1>2, <1>9, <1>10, <1>11, <1>12 DEF Accounted

\* __free: the bytes of the region go to the head of the list, whoever has a slot.
LEMMA FreeKeeps ==
  ASSUME Sound, Sound', NEW t \in Thread, Accounted(t), Taken(t)' = Taken(t),
         NEW r \in RgId, R!Free(r)
  PROVE  Accounted(t)'
<1>0. /\ sbrk' = sbrk /\ lost' = lost /\ Disjoint
      /\ symrg' = [symrg EXCEPT ![r] = Empty]
      /\ freerg' = IF R!Used(r) THEN <<symrg[r]>> \o freerg ELSE freerg
  BY DEF R!Free, R!ResetEntry, R!Empty, Empty, Accounted
<1>1. Empty \in Rg /\ Bytes(Empty) = {} /\ Empty.end = 0 BY DEF Empty, Rg, Bytes
<1>2. /\ symrg' \in [RgId -> Rg] /\ Bytes(symrg'[r]) = {} /\ symrg'[r].end = 0
      /\ \A q \in RgId : q # r => symrg'[q] = symrg[q]
  <2>1. symrg' \in [RgId -> Rg] /\ symrg'[r] = Empty BY <1>0, <1>1 DEF Sound
  <2> QED BY <1>0, <1>1, <2>1 DEF Sound
<1>3. 0 <= sbrk BY DEF Sound
<1> DEFINE T == Taken(t)
<1>4. /\ Taken(t)' = T
      /\ \A q \in RgId : Bytes(symrg[q]) \cap lost = {} /\ Bytes(symrg[q]) \cap T = {}
      /\ \A i \in DOMAIN freerg : Bytes(freerg[i]) \cap lost = {} /\ Bytes(freerg[i]) \cap T = {}
      /\ T \cap lost = {}
      /\ \A a \in 0 .. (sbrk - 1) :
           \/ a \in lost \/ a \in T
           \/ \E q \in RgId : a \in Bytes(symrg[q])
           \/ \E i \in DOMAIN freerg : a \in Bytes(freerg[i])
  BY DEF Accounted
<1> HIDE DEF T
<1>5. /\ \A q \in RgId : Bytes(symrg'[q]) \cap lost' = {} /\ Bytes(symrg'[q]) \cap T = {}
      /\ T \cap lost' = {}
  BY <1>0, <1>2, <1>4
<1>6. CASE ~R!Used(r)
  <2>1. freerg' = freerg /\ Bytes(symrg[r]) = {} BY <1>0, <1>6, UnusedEmpty
  <2>2. Disjoint' BY <1>0, <1>2, <1>3, <2>1 DEF Disjoint
  <2>3. ASSUME NEW a \in 0 .. (sbrk' - 1)
        PROVE  \/ a \in lost' \/ a \in T
               \/ \E q \in RgId : a \in Bytes(symrg'[q])
               \/ \E j \in DOMAIN freerg' : a \in Bytes(freerg'[j])
    BY <1>0, <1>2, <1>4, <2>1
  <2> QED BY <1>0, <1>4, <1>5, <2>1, <2>2, <2>3 DEF Accounted
<1>7. CASE R!Used(r)
  <2> DEFINE n == <<symrg[r]>> \o freerg
  <2>1. freerg' = n /\ symrg[r] \in Rg /\ freerg \in Seq(Rg) BY <1>0, <1>7 DEF Sound
  <2>2. /\ n \in Seq(Rg)
        /\ \A j \in DOMAIN n : (j = 1 /\ n[j] = symrg[r]) \/ (j - 1 \in DOMAIN freerg /\ n[j] = freerg[j - 1])
        /\ 1 \in DOMAIN n /\ n[1] = symrg[r]
        /\ \A j \in DOMAIN freerg : j + 1 \in DOMAIN n /\ n[j + 1] = freerg[j]
    BY <2>1, PrependFacts
  <2>3. \A j \in DOMAIN n : j \in Int BY <2>2
  <2> HIDE DEF n
  <2>4. \A j, k \in DOMAIN n : j # k => Bytes(n[j]) \cap Bytes(n[k]) = {}
    <3>1. /\ \A j, k \in DOMAIN freerg : j # k => Bytes(freerg[j]) \cap Bytes(freerg[k]) = {}
          /\ \A j \in DOMAIN freerg : Bytes(symrg[r]) \cap Bytes(freerg[j]) = {}
      BY <1>0 DEF Disjoint
    <3>2. ASSUME NEW j \in DOMAIN n, NEW k \in DOMAIN n, j # k
          PROVE  Bytes(n[j]) \cap Bytes(n[k]) = {}
      <4>1. CASE j = 1 BY <2>2, <2>3, <3>1, <3>2, <4>1
      <4>2. CASE k = 1 BY <2>2, <2>3, <3>1, <3>2, <4>2
      <4>3. CASE j # 1 /\ k # 1
        <5>1. j - 1 \in DOMAIN freerg /\ k - 1 \in DOMAIN freerg /\ j - 1 # k - 1
          BY <2>2, <2>3, <3>2, <4>3
        <5> QED BY <2>2, <3>1, <4>3, <5>1
      <4> QED BY <4>1, <4>2, <4>3
    <3> QED BY <3>2
  <2>5. \A q \in RgId, j \in DOMAIN n : Bytes(symrg'[q]) \cap Bytes(n[j]) = {}
    BY <1>0, <1>2, <2>2 DEF Disjoint
  <2>6. \A j \in DOMAIN n : n[j].end <= sbrk BY <1>0, <2>2 DEF Disjoint
  <2>7. Disjoint' BY <1>0, <1>2, <1>3, <2>1, <2>4, <2>5, <2>6 DEF Disjoint
  <2>8. \A j \in DOMAIN n : Bytes(n[j]) \cap lost' = {} /\ Bytes(n[j]) \cap T = {}
    BY <1>0, <1>4, <2>2
  <2>9. ASSUME NEW a \in 0 .. (sbrk' - 1)
        PROVE  \/ a \in lost' \/ a \in T
               \/ \E q \in RgId : a \in Bytes(symrg'[q])
               \/ \E j \in DOMAIN freerg' : a \in Bytes(freerg'[j])
    <3>1. CASE a \in lost \/ a \in T BY <1>0, <3>1
    <3>2. CASE \E q \in RgId : a \in Bytes(symrg[q])
      <4>1. CASE a \in Bytes(symrg[r]) BY <2>1, <2>2, <4>1
      <4>2. CASE a \notin Bytes(symrg[r]) BY <1>2, <3>2, <4>2
      <4> QED BY <4>1, <4>2
    <3>3. CASE \E k \in DOMAIN freerg : a \in Bytes(freerg[k]) BY <2>1, <2>2, <3>3
    <3> QED BY <1>0, <1>4, <3>1, <3>2, <3>3
  <2> QED BY <1>0, <1>4, <1>5, <2>1, <2>7, <2>8, <2>9 DEF Accounted
<1> QED BY <1>6, <1>7

\* __kmalloc from the free list: no one records the bytes.
LEMMA TakeNodeKeeps ==
  ASSUME TypeOK, Sound, Sound', NEW t \in Thread, Accounted(t), TakeNode(t)
  PROVE  Accounted(t)'
<1>0. /\ acc[t].size \in Nat /\ Taken(t) = {} /\ Taken(t)' = {}
      /\ symrg' = symrg /\ sbrk' = sbrk /\ Disjoint
  BY TypeFacts, AccFields DEF TakeNode, At, Goto, Taken, Accounted
<1> DEFINE size == acc[t].size
<1>1. PICK i \in DOMAIN freerg :
        /\ Fits(freerg[i], size) /\ freerg' = Take(freerg, i, size)
        /\ lost' = lost \cup Span(freerg[i].start, size)
  BY DEF TakeNode, FirstFit
<1> DEFINE c == Span(freerg[i].start, size)
<1>2. NodeGone(t, i, size) BY <1>0, <1>1, NodeTaken
<1>3. /\ freerg' \in Seq(Rg) /\ freerg[i].start \in Nat /\ freerg[i].start + size <= sbrk
      /\ c \cap lost = {}
      /\ \A q \in RgId : Bytes(symrg[q]) \cap c = {}
      /\ \A j \in DOMAIN freerg' :
           /\ freerg'[j].end <= sbrk /\ Bytes(freerg'[j]) \cap c = {}
           /\ Bytes(freerg'[j]) \cap lost = {}
           /\ \A q \in RgId : Bytes(symrg[q]) \cap Bytes(freerg'[j]) = {}
      /\ \A j, k \in DOMAIN freerg' : j # k => Bytes(freerg'[j]) \cap Bytes(freerg'[k]) = {}
      /\ \A k \in DOMAIN freerg : \A a \in Bytes(freerg[k]) :
           a \in c \/ \E j \in DOMAIN freerg' : a \in Bytes(freerg'[j])
  BY <1>2 DEF NodeGone
<1>4. lost' = lost \cup c BY <1>1
<1> HIDE DEF c, size
<1>5. Disjoint' BY <1>0, <1>3 DEF Disjoint
<1>6. /\ \A q \in RgId : Bytes(symrg'[q]) \cap lost' = {}
      /\ \A j \in DOMAIN freerg' : Bytes(freerg'[j]) \cap lost' = {}
  BY <1>0, <1>3, <1>4 DEF Accounted
<1>7. ASSUME NEW a \in 0 .. (sbrk' - 1)
      PROVE  \/ a \in lost' \/ a \in Taken(t)'
             \/ \E q \in RgId : a \in Bytes(symrg'[q])
             \/ \E j \in DOMAIN freerg' : a \in Bytes(freerg'[j])
  <2>1. CASE a \in lost BY <1>4, <2>1
  <2>2. CASE \E q \in RgId : a \in Bytes(symrg[q]) BY <1>0, <2>2
  <2>3. CASE \E k \in DOMAIN freerg : a \in Bytes(freerg[k]) BY <1>3, <1>4, <2>3
  <2> QED BY <1>0, <2>1, <2>2, <2>3 DEF Accounted
<1> QED BY <1>0, <1>5, <1>6, <1>7 DEF Accounted

\* __kmalloc past the break: what the register had before is lost.
LEMMA TakeBreakKeeps ==
  ASSUME TypeOK, Sound, Sound', NEW t \in Thread, Accounted(t), TakeBreak(t)
  PROVE  Accounted(t)'
<1>0. /\ acc[t].size \in Nat /\ Target(t) \in RgId /\ Taken(t) = {} /\ Taken(t)' = {}
      /\ freerg' = freerg /\ Disjoint /\ sbrk \in Nat /\ Rounding \subseteq Nat
      /\ R!Claim(Target(t), sbrk, acc[t].size)
  BY TypeFacts, AccFields, TargetType, KMemAssumption
     DEF TakeBreak, At, Goto, Taken, Accounted, Sound, KMemAssumption
<1> DEFINE size == acc[t].size
           r == Target(t)
<1>1. PICK extra \in Rounding :
        /\ sbrk' = sbrk + size + extra
        /\ lost' = lost \cup Span(sbrk + size, extra) \cup Bytes(symrg[r])
  BY DEF TakeBreak, MoveBreak
<1> DEFINE c == Span(sbrk, size)
           w == Span(sbrk + size, extra)
<1>2. NewRoom(size, extra) BY <1>0, <1>1, BreakMoved
<1>3. /\ c \cap w = {} /\ c \cap lost = {} /\ w \cap lost = {}
      /\ sbrk' \in Nat /\ sbrk <= sbrk'
      /\ \A a \in c \cup w : a \in Nat /\ a < sbrk'
      /\ \A q \in RgId : Bytes(symrg[q]) \cap c = {} /\ Bytes(symrg[q]) \cap w = {}
      /\ \A i \in DOMAIN freerg : Bytes(freerg[i]) \cap c = {} /\ Bytes(freerg[i]) \cap w = {}
      /\ \A a \in 0 .. (sbrk' - 1) : a \in 0 .. (sbrk - 1) \/ a \in c \/ a \in w
  BY <1>2 DEF NewRoom
<1>4. /\ symrg' \in [RgId -> Rg] /\ Bytes(symrg'[r]) = c /\ symrg'[r].end = sbrk + size
      /\ \A q \in RgId : q # r => symrg'[q] = symrg[q]
  BY <1>0, ClaimFacts DEF Sound
<1>5. symrg'[r].end <= sbrk' BY <1>0, <1>1, <1>4
<1>6. lost' = lost \cup w \cup Bytes(symrg[r]) /\ r \in RgId BY <1>0, <1>1
<1> HIDE DEF c, w, r, size
<1>7. /\ \A q \in RgId : symrg'[q].end <= sbrk'
      /\ \A i \in DOMAIN freerg : freerg[i].end <= sbrk'
  BY <1>0, <1>3, <1>4, <1>5, EndsGrow
<1>8. Disjoint' BY <1>0, <1>3, <1>4, <1>7 DEF Disjoint
<1>9. \A q \in RgId : Bytes(symrg'[q]) \cap lost' = {}
  <2>1. Bytes(symrg'[r]) \cap lost' = {} BY <1>3, <1>4, <1>6
  <2>2. ASSUME NEW q \in RgId, q # r PROVE Bytes(symrg'[q]) \cap lost' = {}
    <3>1. Bytes(symrg[q]) \cap Bytes(symrg[r]) = {} BY <1>0, <1>6, <2>2 DEF Disjoint
    <3>2. Bytes(symrg[q]) \cap lost = {} BY DEF Accounted
    <3> QED BY <1>3, <1>4, <1>6, <2>2, <3>1, <3>2
  <2> QED BY <2>1, <2>2
<1>10. \A i \in DOMAIN freerg : Bytes(freerg[i]) \cap lost' = {}
  <2>1. \A i \in DOMAIN freerg : Bytes(symrg[r]) \cap Bytes(freerg[i]) = {}
    BY <1>0, <1>6 DEF Disjoint
  <2> QED BY <1>3, <1>6, <2>1 DEF Accounted
<1>11. ASSUME NEW a \in 0 .. (sbrk' - 1)
       PROVE  \/ a \in lost' \/ a \in Taken(t)'
              \/ \E q \in RgId : a \in Bytes(symrg'[q])
              \/ \E j \in DOMAIN freerg' : a \in Bytes(freerg'[j])
  <2>1. CASE a \in c \cup w BY <1>4, <1>6, <2>1
  <2>2. CASE a \in lost BY <1>6, <2>2
  <2>3. CASE \E q \in RgId : a \in Bytes(symrg[q]) BY <1>4, <1>6, <2>3
  <2>4. CASE \E k \in DOMAIN freerg : a \in Bytes(freerg[k]) BY <1>0, <2>4
  <2> QED BY <1>0, <1>3, <2>1, <2>2, <2>3, <2>4 DEF Accounted
<1> QED BY <1>0, <1>8, <1>9, <1>10, <1>11 DEF Accounted

\* Setting one field leaves the others.
LEMMA FieldSet ==
  ASSUME acc \in [Thread -> Acc], NEW t \in Thread, NEW x
  PROVE  /\ acc' = [acc EXCEPT ![t].start = x] =>
              /\ acc'[t].start = x /\ acc'[t].i = acc[t].i
              /\ acc'[t].op = acc[t].op /\ acc'[t].size = acc[t].size /\ acc'[t].id = acc[t].id
              /\ acc'[t].align = acc[t].align /\ acc'[t].seen = acc[t].seen
              /\ acc'[t].offset = acc[t].offset
         /\ acc' = [acc EXCEPT ![t].i = x] =>
              /\ acc'[t].i = x /\ acc'[t].start = acc[t].start
              /\ acc'[t].op = acc[t].op /\ acc'[t].size = acc[t].size /\ acc'[t].id = acc[t].id
              /\ acc'[t].align = acc[t].align /\ acc'[t].seen = acc[t].seen
              /\ acc'[t].offset = acc[t].offset
         /\ acc' = [acc EXCEPT ![t].seen = x] =>
              /\ acc'[t].seen = x /\ acc'[t].i = acc[t].i
              /\ acc'[t].op = acc[t].op /\ acc'[t].size = acc[t].size
              /\ acc'[t].offset = acc[t].offset
         /\ \A y : acc' = [acc EXCEPT ![t].size = x, ![t].align = y] =>
              acc'[t].size = x /\ acc'[t].id = acc[t].id /\ acc'[t].op = acc[t].op
<1> DEFINE O == AllOps \cup {""}
           N == Nat
           D == [op : O, rg : Reg, size : N, id : N, align : N, start : N, i : N,
                 urg : Reg, offset : N, seen : Rg]
<1>1. acc \in [Thread -> D] BY DEF Acc
<1> HIDE DEF O, N
<1> QED BY <1>1

\* __kmem_cache_alloc from the free list: the CPU has the bytes.
LEMMA CacheNodeKeeps ==
  ASSUME TypeOK, Sound, Sound', NEW t \in Thread, Accounted(t), CacheNode(t)
  PROVE  Accounted(t)'
<1>0. /\ acc[t].size \in Nat /\ Taken(t) = {} /\ At(t, "claim")'
      /\ symrg' = symrg /\ sbrk' = sbrk /\ lost' = lost /\ Disjoint
      /\ acc \in [Thread -> Acc]
  BY TypeFacts, AccFields DEF CacheNode, At, Goto, Taken, Accounted
<1> DEFINE size == acc[t].size
<1>1. PICK i \in DOMAIN freerg :
        /\ Fits(freerg[i], size) /\ freerg' = Take(freerg, i, size)
        /\ acc' = [acc EXCEPT ![t].start = freerg[i].start]
  BY DEF CacheNode, FirstFit, Set
<1> DEFINE c == Span(freerg[i].start, size)
<1>2. NodeGone(t, i, size) BY <1>0, <1>1, NodeTaken
<1>3. /\ freerg' \in Seq(Rg) /\ freerg[i].start \in Nat /\ freerg[i].start + size <= sbrk
      /\ c \cap lost = {}
      /\ \A q \in RgId : Bytes(symrg[q]) \cap c = {}
      /\ \A j \in DOMAIN freerg' :
           /\ freerg'[j].end <= sbrk /\ Bytes(freerg'[j]) \cap c = {}
           /\ Bytes(freerg'[j]) \cap lost = {}
           /\ \A q \in RgId : Bytes(symrg[q]) \cap Bytes(freerg'[j]) = {}
      /\ \A j, k \in DOMAIN freerg' : j # k => Bytes(freerg'[j]) \cap Bytes(freerg'[k]) = {}
      /\ \A k \in DOMAIN freerg : \A a \in Bytes(freerg[k]) :
           a \in c \/ \E j \in DOMAIN freerg' : a \in Bytes(freerg'[j])
  BY <1>2 DEF NodeGone
<1>4. acc'[t].start = freerg[i].start /\ acc'[t].size = size BY <1>0, <1>1, FieldSet
<1>5. Taken(t)' = c BY <1>0, <1>4 DEF Taken
<1> HIDE DEF c, size
<1>6. Disjoint' BY <1>0, <1>3 DEF Disjoint
<1>7. /\ \A q \in RgId : Bytes(symrg'[q]) \cap lost' = {} /\ Bytes(symrg'[q]) \cap c = {}
      /\ \A j \in DOMAIN freerg' : Bytes(freerg'[j]) \cap lost' = {} /\ Bytes(freerg'[j]) \cap c = {}
      /\ c \cap lost' = {}
  BY <1>0, <1>3 DEF Accounted
<1>8. ASSUME NEW a \in 0 .. (sbrk' - 1)
      PROVE  \/ a \in lost' \/ a \in c
             \/ \E q \in RgId : a \in Bytes(symrg'[q])
             \/ \E j \in DOMAIN freerg' : a \in Bytes(freerg'[j])
  <2>1. CASE a \in lost BY <1>0, <2>1
  <2>2. CASE \E q \in RgId : a \in Bytes(symrg[q]) BY <1>0, <2>2
  <2>3. CASE \E k \in DOMAIN freerg : a \in Bytes(freerg[k]) BY <1>3, <2>3
  <2> QED BY <1>0, <2>1, <2>2, <2>3 DEF Accounted
<1> QED BY <1>0, <1>5, <1>6, <1>7, <1>8 DEF Accounted

\* __kmem_cache_alloc past the break: the CPU has the bytes from the break it saved.
LEMMA CacheGrowKeeps ==
  ASSUME TypeOK, Sound, Sound', NEW t \in Thread, Accounted(t), SavedOK, CacheGrow(t)
  PROVE  Accounted(t)'
<1>0. /\ acc[t].size \in Nat /\ Taken(t) = {} /\ At(t, "claim")'
      /\ symrg' = symrg /\ freerg' = freerg /\ acc' = acc /\ Disjoint /\ sbrk \in Nat
      /\ Rounding \subseteq Nat
  BY TypeFacts, AccFields, KMemAssumption
     DEF CacheGrow, At, Goto, Taken, Accounted, Sound, KMemAssumption
<1>1. acc[t].start = sbrk BY DEF SavedOK, CacheGrow, At
<1> DEFINE size == acc[t].size
<1>2. PICK extra \in Rounding :
        sbrk' = sbrk + size + extra /\ lost' = lost \cup Span(sbrk + size, extra)
  BY DEF CacheGrow, MoveBreak
<1> DEFINE c == Span(sbrk, size)
           w == Span(sbrk + size, extra)
<1>3. NewRoom(size, extra) BY <1>0, <1>2, BreakMoved
<1>4. /\ c \cap w = {} /\ c \cap lost = {} /\ w \cap lost = {}
      /\ sbrk' \in Nat /\ sbrk <= sbrk'
      /\ \A a \in c \cup w : a \in Nat /\ a < sbrk'
      /\ \A q \in RgId : Bytes(symrg[q]) \cap c = {} /\ Bytes(symrg[q]) \cap w = {}
      /\ \A i \in DOMAIN freerg : Bytes(freerg[i]) \cap c = {} /\ Bytes(freerg[i]) \cap w = {}
      /\ \A a \in 0 .. (sbrk' - 1) : a \in 0 .. (sbrk - 1) \/ a \in c \/ a \in w
  BY <1>3 DEF NewRoom
<1>5. lost' = lost \cup w BY <1>2
<1>6. Taken(t)' = c BY <1>0, <1>1 DEF Taken
<1> HIDE DEF c, w, size
<1>7. /\ \A q \in RgId : symrg[q].end <= sbrk'
      /\ \A i \in DOMAIN freerg : freerg[i].end <= sbrk'
  BY <1>0, <1>4, EndsGrow
<1>8. Disjoint' BY <1>0, <1>7 DEF Disjoint
<1>9. /\ \A q \in RgId : Bytes(symrg'[q]) \cap lost' = {} /\ Bytes(symrg'[q]) \cap c = {}
      /\ \A j \in DOMAIN freerg' : Bytes(freerg'[j]) \cap lost' = {} /\ Bytes(freerg'[j]) \cap c = {}
      /\ c \cap lost' = {}
  BY <1>0, <1>4, <1>5 DEF Accounted
<1>10. ASSUME NEW a \in 0 .. (sbrk' - 1)
       PROVE  \/ a \in lost' \/ a \in c
              \/ \E q \in RgId : a \in Bytes(symrg'[q])
              \/ \E j \in DOMAIN freerg' : a \in Bytes(freerg'[j])
  BY <1>0, <1>4, <1>5 DEF Accounted
<1> QED BY <1>6, <1>8, <1>9, <1>10 DEF Accounted

\* The register gets the bytes that the CPU has; what it had before is lost.
LEMMA CacheClaimKeeps ==
  ASSUME TypeOK, Sound, Sound', NEW t \in Thread, Accounted(t), CallOK(t), CacheClaim(t)
  PROVE  Accounted(t)'
<1>0. /\ acc[t].size \in Nat /\ acc[t].start \in Nat /\ Target(t) \in RgId
      /\ Taken(t) = Span(acc[t].start, acc[t].size) /\ Taken(t)' = {}
      /\ freerg' = freerg /\ sbrk' = sbrk /\ Disjoint /\ sbrk \in Nat
      /\ R!Claim(Target(t), acc[t].start, acc[t].size)
      /\ lost' = lost \cup Bytes(symrg[Target(t)])
  BY TypeFacts, AccFields, TargetType DEF CacheClaim, End, At, Goto, Taken, Accounted, Sound
<1>1. acc[t].start + acc[t].size <= sbrk BY DEF CallOK, CacheClaim, At
<1> DEFINE c == Taken(t)
           r == Target(t)
<1>2. /\ symrg' \in [RgId -> Rg] /\ Bytes(symrg'[r]) = c
      /\ symrg'[r].end = acc[t].start + acc[t].size
      /\ \A q \in RgId : q # r => symrg'[q] = symrg[q]
  BY <1>0, ClaimFacts DEF Sound
<1>3. symrg'[r].end <= sbrk' BY <1>0, <1>1, <1>2
<1>4. lost' = lost \cup Bytes(symrg[r]) /\ r \in RgId BY <1>0
<1>5. /\ c \cap lost = {}
      /\ \A q \in RgId : Bytes(symrg[q]) \cap c = {}
      /\ \A i \in DOMAIN freerg : Bytes(freerg[i]) \cap c = {}
  BY DEF Accounted
<1> HIDE DEF c, r
<1>6. Disjoint' BY <1>0, <1>2, <1>3, <1>5 DEF Disjoint
<1>7. \A q \in RgId : Bytes(symrg'[q]) \cap lost' = {}
  <2>1. Bytes(symrg'[r]) \cap lost' = {} BY <1>2, <1>4, <1>5
  <2>2. ASSUME NEW q \in RgId, q # r PROVE Bytes(symrg'[q]) \cap lost' = {}
    <3>1. Bytes(symrg[q]) \cap Bytes(symrg[r]) = {} BY <1>0, <1>4, <2>2 DEF Disjoint
    <3>2. Bytes(symrg[q]) \cap lost = {} BY DEF Accounted
    <3> QED BY <1>2, <1>4, <2>2, <3>1, <3>2
  <2> QED BY <2>1, <2>2
<1>8. \A i \in DOMAIN freerg : Bytes(freerg[i]) \cap lost' = {}
  <2>1. \A i \in DOMAIN freerg : Bytes(symrg[r]) \cap Bytes(freerg[i]) = {}
    BY <1>0, <1>4 DEF Disjoint
  <2> QED BY <1>4, <2>1 DEF Accounted
<1>9. ASSUME NEW a \in 0 .. (sbrk' - 1)
      PROVE  \/ a \in lost' \/ a \in Taken(t)'
             \/ \E q \in RgId : a \in Bytes(symrg'[q])
             \/ \E j \in DOMAIN freerg' : a \in Bytes(freerg'[j])
  <2>1. CASE a \in Taken(t) BY <1>2, <1>4, <2>1 DEF c
  <2>2. CASE a \in lost BY <1>4, <2>2
  <2>3. CASE \E q \in RgId : a \in Bytes(symrg[q]) BY <1>2, <1>4, <2>3
  <2>4. CASE \E k \in DOMAIN freerg : a \in Bytes(freerg[k]) BY <1>0, <2>4
  <2> QED BY <1>0, <2>1, <2>2, <2>3, <2>4 DEF Accounted
<1> QED BY <1>0, <1>6, <1>7, <1>8, <1>9 DEF Accounted

-----------------------------------------------------------------------------
(* Every step keeps the regions. *)

\* The steps that change the regions, and what all the others leave alone
LEMMA RegionActions ==
  ASSUME TypeOK, NEW t \in Thread, Call(t) \/ Step(t)
  PROVE  \/ \E r \in Reg : Free(t, r) \/ \E size \in Sizes : Alloc(t, r, size)
         \/ TakeNode(t) \/ TakeBreak(t) \/ CacheNode(t) \/ CacheGrow(t) \/ CacheClaim(t)
         \/ /\ UNCHANGED regions /\ ~At(t, "claim") /\ ~At(t, "claim")'
            /\ At(t, "grow")' => SaveBreak(t)
<1> DEFINE Same == /\ UNCHANGED regions /\ ~At(t, "claim") /\ ~At(t, "claim")'
                   /\ At(t, "grow")' => SaveBreak(t)
<1> USE DEF At, Goto
<1>0. pc \in [Thread -> Labels] BY TypeFacts
<1>1. ASSUME End(t), UNCHANGED regions, ~At(t, "claim") PROVE Same
  BY <1>0, <1>1 DEF End
<1>2. ASSUME NEW args, Begin(t, "region", args) \/ Begin(t, "find", args) \/ Begin(t, "check", args)
      PROVE  Same
  BY <1>0, <1>2 DEF Begin
<1>3. ASSUME NEW r \in Reg, NEW size \in Sizes, BeginKmalloc(t, r, size) PROVE Same
  BY <1>2, <1>3 DEF BeginKmalloc
<1>4. ASSUME NEW r \in Reg, NEW id \in PoolId, BeginCacheAlloc(t, id, r) PROVE Same
  BY <1>2, <1>4 DEF BeginCacheAlloc
<1>5. ASSUME NEW id \in PoolId, NEW s \in Shapes, BeginPoolCreate(t, id, s) PROVE Same
  BY <1>2, <1>5 DEF BeginPoolCreate
<1>6. ASSUME NEW c \in Copies, BeginCopy(t, c) PROVE Same BY <1>2, <1>6 DEF BeginCopy
<1>7. MapPage(t) => Same BY DEF MapPage
<1>8. OutOfFrames(t) => Same BY <1>1 DEF OutOfFrames
<1>9. AllMapped(t) => Same BY <1>0, <1>1 DEF AllMapped
<1>10. PushPool(t) => Same BY <1>1 DEF PushPool
<1>11. FindPool(t) => Same BY <1>0 DEF FindPool
<1>12. NoPool(t) => Same BY <1>1 DEF NoPool
<1>13. SaveBreak(t) => Same BY <1>0 DEF SaveBreak
<1>14. CheckCopy(t) => Same BY <1>0, <1>1 DEF CheckCopy
<1>15. NextByte(t) /\ UNCHANGED regions /\ ~At(t, "claim") => Same BY <1>0, <1>1 DEF NextByte
<1>16. UserByte(t) => Same BY <1>0, <1>1, <1>15 DEF UserByte
<1>17. UserFails(t) \/ UserOutside(t) => Same BY <1>1 DEF UserFails, UserOutside
<1>18. KernelByte(t) => Same BY <1>0, <1>1, <1>15 DEF KernelByte
<1>19. Copy(t) => Same BY <1>14, <1>16, <1>17, <1>18 DEF Copy
<1> HIDE DEF Same
<1>20. CASE Call(t) BY <1>3, <1>4, <1>5, <1>6, <1>20 DEF Call, Same
<1>21. CASE Step(t)
  BY <1>7, <1>8, <1>9, <1>10, <1>11, <1>12, <1>13, <1>19, <1>21 DEF Step, Kmalloc, CacheAlloc, Same
<1> QED BY <1>20, <1>21

\* What a step may do to the regions if they are to stay below the break
LEMMA SoundNext ==
  ASSUME Sound, symrg' \in [RgId -> Rg], freerg' \in Seq(Rg), sbrk' \in Nat,
         sbrk <= sbrk', sbrk' <= MaxBrk,
         \A a \in lost' : a \in lost \/ (a \in Nat /\ a < sbrk'),
         \A r \in RgId : symrg'[r] = symrg[r] \/ symrg'[r].end <= sbrk',
         \/ freerg' = freerg
         \/ \A i \in DOMAIN freerg' : freerg'[i].end <= sbrk'
  PROVE  Sound'
<1>1. /\ \A q \in RgId : symrg[q].end <= sbrk'
      /\ \A i \in DOMAIN freerg : freerg[i].end <= sbrk'
  BY EndsGrow
<1>2. /\ \A q \in RgId : symrg'[q].end <= sbrk'
      /\ \A i \in DOMAIN freerg' : freerg'[i].end <= sbrk'
  BY <1>1
<1>3. \A a \in lost : a \in Nat /\ a < sbrk /\ sbrk \in Nat BY DEF Sound, BreakOK
<1>4. \A a \in lost' : a \in Nat /\ a < sbrk' BY <1>3
<1> QED BY <1>2, <1>4 DEF Sound, BreakOK

\* libmem.c: no step hands out or forgets an address past the break, and the break
\* never moves down.
LEMMA SoundStep ==
  ASSUME TypeOK, LocalsOK, BreakOK, NEW t \in Thread, Call(t) \/ Step(t)
  PROVE  Sound' /\ sbrk' \in Nat /\ sbrk <= sbrk'
<1>0. /\ Sound /\ CallOK(t) /\ acc[t] \in Acc
      /\ sbrk \in Nat /\ symrg \in [RgId -> Rg] /\ freerg \in Seq(Rg)
      /\ \A i \in DOMAIN freerg : freerg[i].end <= sbrk
  BY TypeFacts DEF Sound, LocalsOK, BreakOK
<1>1. /\ acc[t].size \in Nat /\ acc[t].start \in Nat /\ Target(t) \in RgId
      /\ Sizes \subseteq Nat /\ Rounding \subseteq Nat /\ sbrk <= MaxBrk
  BY <1>0, AccFields, TargetType, KMemAssumption DEF KMemAssumption, BreakOK
<1>2. ASSUME NEW r \in RgId, NEW addr \in Nat, NEW size \in Nat, R!Claim(r, addr, size),
             addr + size <= sbrk'
      PROVE  /\ symrg' \in [RgId -> Rg]
             /\ \A q \in RgId : symrg'[q] = symrg[q] \/ symrg'[q].end <= sbrk'
  BY <1>0, <1>2, ClaimFacts
<1>3. ASSUME NEW i \in DOMAIN freerg, NEW size \in Nat, Fits(freerg[i], size),
             freerg' = Take(freerg, i, size)
      PROVE  /\ freerg' \in Seq(Rg) /\ freerg[i].start \in Nat /\ freerg[i].start + size <= sbrk
             /\ \A j \in DOMAIN freerg' : freerg'[j].end <= sbrk
  BY <1>0, <1>3, TakeEnds
<1>4. ASSUME NEW start \in Nat, NEW size \in Nat, sbrk' \in Nat, start + size <= sbrk'
      PROVE  \A a \in Span(start, size) : a \in Nat /\ a < sbrk'
  BY <1>4 DEF Span
<1>5. \A r \in RgId : \A a \in Bytes(symrg[r]) : a \in Nat /\ a < sbrk BY <1>0, BelowBreak
<1>6. ASSUME NEW q0 \in Reg, Free(t, q0) PROVE Sound' /\ sbrk' \in Nat /\ sbrk <= sbrk'
  <2>r. PICK r \in RgId : r = UserRg(q0) BY Registers
  <2>1. /\ sbrk' = sbrk /\ lost' = lost /\ symrg' = [symrg EXCEPT ![r] = Empty]
        /\ freerg' = IF R!Used(r) THEN <<symrg[r]>> \o freerg ELSE freerg
    BY <1>6, <2>r DEF Free, R!Free, R!ResetEntry, R!Empty, Empty
  <2>2. Empty \in Rg /\ Empty.end = 0 /\ symrg[r] \in Rg BY <1>0 DEF Empty, Rg
  <2>3. symrg' \in [RgId -> Rg] /\ \A q \in RgId : symrg'[q] = symrg[q] \/ symrg'[q].end <= sbrk'
    BY <1>0, <2>1, <2>2
  <2>4. freerg' \in Seq(Rg) /\ \A i \in DOMAIN freerg' : freerg'[i].end <= sbrk'
    <3>1. CASE ~R!Used(r) BY <1>0, <2>1, <3>1
    <3>2. CASE R!Used(r)
      <4> DEFINE n == <<symrg[r]>> \o freerg
      <4>1. /\ n \in Seq(Rg)
            /\ \A j \in DOMAIN n : (j = 1 /\ n[j] = symrg[r]) \/ (j - 1 \in DOMAIN freerg /\ n[j] = freerg[j - 1])
        BY <1>0, <2>2, PrependFacts
      <4> HIDE DEF n
      <4>2. symrg[r].end <= sbrk BY DEF BreakOK
      <4>3. freerg' = n BY <2>1, <3>2 DEF n
      <4> QED BY <1>0, <2>1, <4>1, <4>2, <4>3
    <3> QED BY <3>1, <3>2
  <2> QED BY <1>0, <1>1, <2>1, <2>3, <2>4, SoundNext
<1>7. ASSUME NEW q0 \in Reg, NEW size \in Sizes, Alloc(t, q0, size)
      PROVE  Sound' /\ sbrk' \in Nat /\ sbrk <= sbrk'
  <2>r. PICK r \in RgId : r = UserRg(q0) BY Registers
  <2>1. CASE R!AllocFree(r, size)
    <3>1. PICK i \in DOMAIN freerg :
            /\ Fits(freerg[i], size) /\ freerg' = Take(freerg, i, size)
            /\ R!Claim(r, freerg[i].start, size)
      BY <2>1, AllocFreeOps
    <3>2. sbrk' = sbrk /\ lost' = lost BY <2>1, AllocFreeOps
    <3>3. /\ freerg' \in Seq(Rg) /\ freerg[i].start \in Nat /\ freerg[i].start + size <= sbrk'
          /\ \A j \in DOMAIN freerg' : freerg'[j].end <= sbrk'
      BY <1>1, <1>3, <3>1, <3>2
    <3>4. /\ symrg' \in [RgId -> Rg]
          /\ \A q \in RgId : symrg'[q] = symrg[q] \/ symrg'[q].end <= sbrk'
      BY <1>1, <1>2, <3>1, <3>3
    <3> QED BY <1>0, <1>1, <3>2, <3>3, <3>4, SoundNext
  <2>2. CASE R!AllocBreak(r, size)
    <3>1. PICK extra \in Rounding :
            /\ sbrk + size + extra <= MaxBrk /\ sbrk' = sbrk + size + extra
            /\ lost' = lost \cup (sbrk + size) .. (sbrk' - 1)
      BY <2>2 DEF R!AllocBreak
    <3>2. freerg' = freerg /\ R!Claim(r, sbrk, size) BY <2>2 DEF R!AllocBreak
    <3>3. sbrk' \in Nat /\ sbrk <= sbrk' /\ sbrk + size <= sbrk' /\ sbrk' <= MaxBrk
      BY <1>0, <1>1, <3>1
    <3>4. \A a \in (sbrk + size) .. (sbrk' - 1) : a \in Nat /\ a < sbrk' BY <1>0, <1>1, <3>3
    <3>5. /\ symrg' \in [RgId -> Rg]
          /\ \A q \in RgId : symrg'[q] = symrg[q] \/ symrg'[q].end <= sbrk'
      BY <1>0, <1>1, <1>2, <3>2, <3>3
    <3>6. \A a \in lost' : a \in lost \/ (a \in Nat /\ a < sbrk') BY <3>1, <3>4
    <3> QED BY <1>0, <3>2, <3>3, <3>5, <3>6, SoundNext
  <2> QED BY <1>7, <2>r, <2>1, <2>2 DEF Alloc
<1>8. CASE TakeNode(t)
  <2>1. PICK i \in DOMAIN freerg :
          /\ Fits(freerg[i], acc[t].size) /\ freerg' = Take(freerg, i, acc[t].size)
          /\ lost' = lost \cup Span(freerg[i].start, acc[t].size)
    BY <1>8 DEF TakeNode, FirstFit
  <2>2. sbrk' = sbrk /\ symrg' = symrg BY <1>8 DEF TakeNode
  <2>3. /\ freerg' \in Seq(Rg) /\ freerg[i].start \in Nat
        /\ freerg[i].start + acc[t].size <= sbrk'
        /\ \A j \in DOMAIN freerg' : freerg'[j].end <= sbrk'
    BY <1>1, <1>3, <2>1, <2>2
  <2>4. \A a \in lost' : a \in lost \/ (a \in Nat /\ a < sbrk') BY <1>0, <1>1, <1>4, <2>1, <2>2, <2>3
  <2> QED BY <1>0, <1>1, <2>2, <2>3, <2>4, SoundNext
<1>9. CASE TakeBreak(t)
  <2>1. PICK extra \in Rounding :
          /\ sbrk' = sbrk + acc[t].size + extra /\ sbrk' <= MaxBrk
          /\ lost' = lost \cup Span(sbrk + acc[t].size, extra) \cup Bytes(symrg[Target(t)])
    BY <1>9 DEF TakeBreak, MoveBreak
  <2>2. freerg' = freerg /\ R!Claim(Target(t), sbrk, acc[t].size) BY <1>9 DEF TakeBreak
  <2>3. sbrk' \in Nat /\ sbrk <= sbrk' /\ sbrk + acc[t].size <= sbrk' BY <1>0, <1>1, <2>1
  <2>4. /\ symrg' \in [RgId -> Rg]
        /\ \A q \in RgId : symrg'[q] = symrg[q] \/ symrg'[q].end <= sbrk'
    BY <1>0, <1>1, <1>2, <2>2, <2>3
  <2>5. /\ \A a \in Span(sbrk + acc[t].size, extra) : a \in Nat /\ a < sbrk'
        /\ \A a \in Bytes(symrg[Target(t)]) : a \in Nat /\ a < sbrk'
    BY <1>0, <1>1, <1>5, <2>1, <2>3 DEF Span
  <2>6. \A a \in lost' : a \in lost \/ (a \in Nat /\ a < sbrk') BY <2>1, <2>5
  <2> QED BY <1>0, <2>1, <2>2, <2>3, <2>4, <2>6, SoundNext
<1>10. CASE CacheNode(t)
  <2>1. PICK i \in DOMAIN freerg :
          Fits(freerg[i], acc[t].size) /\ freerg' = Take(freerg, i, acc[t].size)
    BY <1>10 DEF CacheNode, FirstFit
  <2>2. sbrk' = sbrk /\ symrg' = symrg /\ lost' = lost BY <1>10 DEF CacheNode
  <2>3. freerg' \in Seq(Rg) /\ \A j \in DOMAIN freerg' : freerg'[j].end <= sbrk'
    BY <1>1, <1>3, <2>1, <2>2
  <2> QED BY <1>0, <1>1, <2>2, <2>3, SoundNext
<1>11. CASE CacheGrow(t)
  <2>1. PICK extra \in Rounding :
          /\ sbrk' = sbrk + acc[t].size + extra /\ sbrk' <= MaxBrk
          /\ lost' = lost \cup Span(sbrk + acc[t].size, extra)
    BY <1>11 DEF CacheGrow, MoveBreak
  <2>2. freerg' = freerg /\ symrg' = symrg BY <1>11 DEF CacheGrow
  <2>3. sbrk' \in Nat /\ sbrk <= sbrk' BY <1>0, <1>1, <2>1
  <2>4. \A a \in Span(sbrk + acc[t].size, extra) : a \in Nat /\ a < sbrk'
    BY <1>0, <1>1, <2>1, <2>3 DEF Span
  <2>5. \A a \in lost' : a \in lost \/ (a \in Nat /\ a < sbrk') BY <2>1, <2>4
  <2> QED BY <1>0, <2>1, <2>2, <2>3, <2>5, SoundNext
<1>12. CASE CacheClaim(t)
  <2>1. /\ sbrk' = sbrk /\ freerg' = freerg /\ R!Claim(Target(t), acc[t].start, acc[t].size)
        /\ lost' = lost \cup Bytes(symrg[Target(t)])
    BY <1>12 DEF CacheClaim
  <2>2. acc[t].start + acc[t].size <= sbrk' BY <1>0, <1>12, <2>1 DEF CallOK, CacheClaim, At
  <2>3. /\ symrg' \in [RgId -> Rg]
        /\ \A q \in RgId : symrg'[q] = symrg[q] \/ symrg'[q].end <= sbrk'
    BY <1>1, <1>2, <2>1, <2>2
  <2>4. \A a \in lost' : a \in lost \/ (a \in Nat /\ a < sbrk') BY <1>1, <1>5, <2>1
  <2> QED BY <1>0, <1>1, <2>1, <2>3, <2>4, SoundNext
<1>13. CASE UNCHANGED regions
  <2>1. symrg' = symrg /\ freerg' = freerg /\ sbrk' = sbrk /\ lost' = lost BY <1>13 DEF regions
  <2> QED BY <1>0, <1>1, <2>1, SoundNext
<1> QED BY <1>6, <1>7, <1>8, <1>9, <1>10, <1>11, <1>12, <1>13, RegionActions

\* Steps that change neither the regions nor the slots keep the accounts.
LEMMA RegionsSame ==
  ASSUME Sound, NoOverlap, NothingLost, UNCHANGED regions, \A u \in Thread : Taken(u)' = Taken(u)
  PROVE  NoOverlap' /\ NothingLost'
<1>0. symrg' = symrg /\ freerg' = freerg /\ sbrk' = sbrk /\ lost' = lost BY DEF regions
<1>1. symrg' \in [RgId -> Rg] /\ freerg' \in Seq(Rg) BY <1>0 DEF Sound
<1>2. Disjoint BY RegionsDisjoint DEF NoOverlap, Sound
<1>3. Disjoint' BY <1>0, <1>2 DEF Disjoint
<1>4. R!NoOverlap' BY <1>1, <1>3, RegionsDisjointNext
<1>5. NoOverlap' BY <1>0, <1>4 DEF NoOverlap
<1>6. NothingLost' BY <1>0 DEF NothingLost
<1> QED BY <1>5, <1>6

\* At most one CPU has a slot that it has not recorded yet.
LEMMA SomeSole ==
  ASSUME Exclusion, LocalsOK, NEW t \in Thread
  PROVE  \E h \in Thread : Sole(h)
<1>1. CASE \A u \in Thread : ~At(u, "claim") BY <1>1 DEF Sole
<1>2. ASSUME NEW h \in Thread, At(h, "claim") PROVE Sole(h)
  <2>1. InCache(h) BY <1>2 DEF InCache, At
  <2>2. \A u \in Thread : u # h => ~InCache(u) BY <2>1, Excluded
  <2> QED BY <2>2 DEF Sole, InCache, At
<1> QED BY <1>1, <1>2

\* The break that a cache allocation has saved stays the break until it moves it.
LEMMA SavedStep ==
  ASSUME Exclusion, IInv, NEW t \in Thread, Call(t) \/ Step(t)
  PROVE  SavedOK'
<1>0. /\ TypeOK /\ LocalsOK /\ PoolsOK /\ SavedOK
      /\ pc \in [Thread -> Labels] /\ acc \in [Thread -> Acc]
      /\ \A u \in Thread : u # t => pc'[u] = pc[u] /\ acc'[u] = acc[u]
  BY TypeFacts, MoveStep DEF IInv, Built
<1> SUFFICES ASSUME NEW u \in Thread, pc'[u] = "grow" PROVE acc'[u].start = sbrk'
  BY DEF SavedOK
<1>1. CASE u = t
  <2>1. SaveBreak(t)
    <3>1. CASE \E r \in Reg : Free(t, r) \/ \E size \in Sizes : Alloc(t, r, size)
      BY <1>1, <3>1 DEF Free, Alloc, UserStep, At
    <3>2. ~TakeNode(t) /\ ~TakeBreak(t) /\ ~CacheNode(t) /\ ~CacheGrow(t) /\ ~CacheClaim(t)
      BY <1>0, <1>1 DEF TakeNode, TakeBreak, CacheNode, CacheGrow, CacheClaim, End, Goto
    <3>3. At(t, "grow")' BY <1>1 DEF At
    <3> QED BY <1>0, <3>1, <3>2, <3>3, RegionActions
  <2>2. sbrk' = sbrk /\ acc' = [acc EXCEPT ![t].start = sbrk]
    BY <2>1 DEF SaveBreak, Set, regions
  <2>3. acc \in [Thread -> Acc] BY <1>0
  <2>4. acc'[t].start = sbrk BY <2>2, <2>3, FieldSet
  <2> QED BY <1>1, <2>2, <2>4
<1>2. CASE u # t
  <2>1. pc[u] = "grow" /\ InCache(u) /\ acc'[u].start = sbrk BY <1>0, <1>2 DEF SavedOK, InCache
  <2>2. sbrk' = sbrk
    <3>1. ~TakeNode(t) /\ ~TakeBreak(t) /\ ~CacheNode(t) /\ ~CacheGrow(t) /\ ~CacheClaim(t)
      BY <1>0, <1>2, <2>1, Excluded
    <3>2. \A r, size : ~Alloc(t, r, size) BY <1>0, <1>2, <2>1, Excluded
    <3>3. \A r \in Reg : Free(t, r) => sbrk' = sbrk BY DEF Free, R!Free
    <3> QED BY <1>0, <3>1, <3>2, <3>3, RegionActions DEF regions
  <2> QED BY <2>1, <2>2
<1> QED BY <1>1, <1>2

\* No address is handed out twice and none is lost on any other way than those counted.
LEMMA RegionStep ==
  ASSUME Exclusion, IInv, NEW t \in Thread, Call(t) \/ Step(t)
  PROVE  NoOverlap' /\ NothingLost'
<1>0. /\ TypeOK /\ LocalsOK /\ PoolsOK /\ BreakOK /\ SavedOK /\ NoOverlap /\ NothingLost
      /\ CallOK(t)
  BY DEF IInv, Built, LocalsOK
<1>1. Sound /\ Sound' BY <1>0, TypeFacts, SoundStep DEF Sound
<1>2. \A u \in Thread : u # t => pc'[u] = pc[u] /\ acc'[u] = acc[u] BY <1>0, MoveStep
<1>3. ASSUME NEW h \in Thread, Sole(h) PROVE Accounted(h) BY <1>0, <1>1, <1>3, AccountedNow
<1>4. ASSUME Sole(t), Accounted(t)' PROVE NoOverlap' /\ NothingLost'
  <2>1. Sole(t)' BY <1>2, <1>4 DEF Sole, At
  <2> QED BY <1>1, <1>4, <2>1, AccountedNext
<1>5. ASSUME \/ \E r, size : Alloc(t, r, size)
             \/ TakeNode(t) \/ TakeBreak(t) \/ CacheNode(t) \/ CacheGrow(t) \/ CacheClaim(t)
      PROVE  Sole(t)
  <2>1. \A u \in Thread : u # t => ~InCache(u) BY <1>0, <1>5, Excluded
  <2> QED BY <2>1 DEF Sole, InCache, At
<1>6. ASSUME NEW q0 \in Reg, Free(t, q0) PROVE NoOverlap' /\ NothingLost'
  <2>r. PICK r \in RgId : r = UserRg(q0) BY Registers
  <2>1. R!Free(r) /\ pc' = pc /\ acc' = acc BY <1>6, <2>r DEF Free, UserStep
  <2>2. PICK h \in Thread : Sole(h) BY <1>0, SomeSole
  <2>3. Taken(h)' = Taken(h) /\ Sole(h)' BY <2>1, <2>2 DEF Taken, Sole, At
  <2>4. Accounted(h)' BY <1>1, <1>3, <2>1, <2>2, <2>3, FreeKeeps
  <2> QED BY <1>1, <2>3, <2>4, AccountedNext
<1>7. ASSUME NEW q0 \in Reg, NEW size \in Sizes, Alloc(t, q0, size)
      PROVE  NoOverlap' /\ NothingLost'
  <2>r. PICK r \in RgId : r = UserRg(q0) BY Registers
  <2>1. /\ At(t, "idle") /\ pc' = pc
        /\ R!AllocFree(r, size) \/ R!AllocBreak(r, size)
    BY <1>7, <2>r DEF Alloc, UserStep
  <2>2. Sole(t) BY <1>5, <1>7
  <2> QED BY <1>1, <1>3, <1>4, <2>1, <2>2, AllocFreeKeeps, AllocBreakKeeps
<1>8. CASE TakeNode(t) BY <1>0, <1>1, <1>3, <1>4, <1>5, <1>8, TakeNodeKeeps
<1>9. CASE TakeBreak(t) BY <1>0, <1>1, <1>3, <1>4, <1>5, <1>9, TakeBreakKeeps
<1>10. CASE CacheNode(t) BY <1>0, <1>1, <1>3, <1>4, <1>5, <1>10, CacheNodeKeeps
<1>11. CASE CacheGrow(t) BY <1>0, <1>1, <1>3, <1>4, <1>5, <1>11, CacheGrowKeeps
<1>12. CASE CacheClaim(t) BY <1>0, <1>1, <1>3, <1>4, <1>5, <1>12, CacheClaimKeeps
<1>13. CASE UNCHANGED regions /\ ~At(t, "claim") /\ ~At(t, "claim")'
  <2>1. ASSUME NEW u \in Thread PROVE Taken(u)' = Taken(u)
    <3>1. CASE u = t BY <1>13, <3>1 DEF Taken
    <3>2. CASE u # t BY <1>2, <3>2 DEF Taken, At
    <3> QED BY <3>1, <3>2
  <2> QED BY <1>0, <1>1, <1>13, <2>1, RegionsSame
<1> QED BY <1>0, <1>6, <1>7, <1>8, <1>9, <1>10, <1>11, <1>12, <1>13, RegionActions

-----------------------------------------------------------------------------
(* Every step keeps the pages. *)

\* The steps that change the pages and the pools
LEMMA OtherActions ==
  ASSUME NEW t \in Thread, Call(t) \/ Step(t)
  PROVE  /\ MapPage(t) \/ UserByte(t) \/ UserFails(t) \/ UNCHANGED pages
         /\ PushPool(t) \/ UNCHANGED kcpooltbl
<1> DEFINE Same == UNCHANGED pages /\ UNCHANGED kcpooltbl
<1>1. ASSUME NEW label, NEW args, Begin(t, label, args) PROVE Same BY <1>1 DEF Begin
<1>2. CASE Call(t)
  <2>1. \A r, size : Alloc(t, r, size) \/ Free(t, r) => Same BY DEF Alloc, Free, UserStep
  <2> QED BY <1>1, <1>2, <2>1 DEF Call, BeginKmalloc, BeginCacheAlloc, BeginPoolCreate, BeginCopy
<1>3. CASE Kmalloc(t)
  BY <1>3 DEF Kmalloc, TakeNode, TakeBreak, MapPage, OutOfFrames, AllMapped, PushPool
<1>4. CASE CacheAlloc(t)
  BY <1>4 DEF CacheAlloc, FindPool, NoPool, CacheNode, SaveBreak, CacheGrow, CacheClaim
<1>5. CASE Copy(t)
  BY <1>5 DEF Copy, CheckCopy, UserByte, UserFails, UserOutside, KernelByte
<1> QED BY <1>2, <1>3, <1>4, <1>5 DEF Step

\* The types of the pages
PagesType ==
  /\ pgd \in [Page -> Frame \cup {None, Swapped}]
  /\ ramfree \in Seq(Frame) /\ fifo_pgn \in Seq(Page)
  /\ forgotten \subseteq Frame /\ relisted \in BOOLEAN

\* Taking the first of a list
LEMMA TailFacts ==
  ASSUME NEW S, NEW s \in Seq(S), s # <<>>
  PROVE  /\ Tail(s) \in Seq(S) /\ Head(s) \in S /\ 1 \in DOMAIN s /\ Head(s) = s[1]
         /\ \A i \in DOMAIN Tail(s) : i + 1 \in DOMAIN s /\ Tail(s)[i] = s[i + 1] /\ i + 1 # 1
         /\ \A i, j \in DOMAIN Tail(s) : i + 1 = j + 1 => i = j
         /\ \A i \in DOMAIN s : i # 1 => i - 1 \in DOMAIN Tail(s) /\ Tail(s)[i - 1] = s[i]
OBVIOUS

\* Putting an element at the head of a list
LEMMA ConsFacts ==
  ASSUME NEW S, NEW s \in Seq(S), NEW x \in S
  PROVE  LET n == <<x>> \o s
         IN /\ n \in Seq(S)
            /\ \A i \in DOMAIN n : \/ i = 1 /\ n[i] = x
                                   \/ i # 1 /\ i - 1 \in DOMAIN s /\ n[i] = s[i - 1]
            /\ \A i, j \in DOMAIN n : i - 1 = j - 1 => i = j
<1> DEFINE n == <<x>> \o s
<1>1. n \in Seq(S) /\ DOMAIN n = 1 .. Len(s) + 1 /\ Len(s) \in Nat /\ DOMAIN s = 1 .. Len(s) OBVIOUS
<1>2. \A i \in 1 .. Len(s) + 1 : n[i] = IF i = 1 THEN x ELSE s[i - 1] OBVIOUS
<1> HIDE DEF n
<1> QED BY <1>1, <1>2 DEF n

\* Taking the last of a list
LEMMA FrontFacts ==
  ASSUME NEW S, NEW s \in Seq(S), Len(s) > 1
  PROVE  LET n == SubSeq(s, 1, Len(s) - 1)
         IN /\ n \in Seq(S) /\ Len(s) \in DOMAIN s
            /\ \A i \in DOMAIN n : i \in DOMAIN s /\ n[i] = s[i] /\ i # Len(s)
<1>1. Len(s) \in Nat OBVIOUS
<1> QED BY <1>1

\* The page of each turn of the loop is in the page table.
LEMMA MappedPage ==
  ASSUME TypeOK, BreakOK, NEW t \in Thread, CallOK(t), At(t, "map"), acc[t].i < PageCount(acc[t].size)
  PROVE  acc[t].start \div PageSz + acc[t].i \in Page
<1> DEFINE p == acc[t].start \div PageSz + acc[t].i
<1>1. acc[t].start \in Nat /\ acc[t].size \in Nat /\ acc[t].i \in Nat /\ sbrk \in Nat
  BY TypeFacts, AccFields
<1>2. p \in Nat /\ p < acc[t].start + acc[t].size BY <1>1, PageOfTurn
<1>3. acc[t].start + acc[t].size <= sbrk /\ sbrk <= MaxBrk BY DEF CallOK, BreakOK, At
<1>4. MaxBrk \in Nat BY KMemAssumption DEF KMemAssumption
<1> HIDE DEF p
<1> QED BY <1>1, <1>2, <1>3, <1>4 DEF Page, p

\* The page of a user byte is in the page table.
LEMMA AccessedPage ==
  ASSUME TypeOK, BreakOK, NEW t \in Thread, InRegion(t)
  PROVE  UserPage(t) \in Page
<1> DEFINE U == UserPageSz
           a == UserRegion(t).start + UserOffset(t)
<1>1. /\ UserRegion(t) \in Rg /\ UserRegion(t).end <= sbrk /\ sbrk \in Nat /\ sbrk <= MaxBrk
      /\ acc[t].i \in Nat /\ acc[t].offset \in Nat
  <2>1. acc[t].urg \in Reg /\ acc[t].i \in Nat /\ acc[t].offset \in Nat BY TypeFacts, AccFields
  <2>2. UserRg(acc[t].urg) \in RgId BY <2>1, Registers
  <2> QED BY <2>1, <2>2, TypeFacts DEF UserRegion, BreakOK
<1>2. a \in Nat /\ a < UserRegion(t).end /\ UserRegion(t).end \in Nat
  BY <1>1 DEF InRegion, UserOffset, Rg
<1>3. U \in Nat \ {0} /\ MaxBrk \in Nat BY KMemAssumption DEF KMemAssumption
<1>4. UserPage(t) = a \div U BY DEF UserPage
<1> HIDE DEF a, U
<1>5. a \div U \in Nat /\ a \div U <= a BY <1>2, <1>3
<1>6. a <= MaxBrk BY <1>1, <1>2, <1>3
<1> QED BY <1>2, <1>3, <1>4, <1>5, <1>6 DEF Page

\* Neither mark of an entry is a frame.
LEMMA Marks ==
  /\ None \notin Frame /\ Swapped \notin Frame /\ None # Swapped
  /\ \A x : FrameOf(x) = IF x \in Frame THEN {x} ELSE {}
<1>1. RamFree \in Seq(Nat) /\ {None, Swapped} \cap Nat = {} /\ None # Swapped
  BY KMemAssumption DEF KMemAssumption
<1>2. Frame \subseteq Nat BY <1>1 DEF Frame
<1> QED BY <1>1, <1>2 DEF FrameOf

\* A page of the list that is put on it again is noted.
LEMMA Enlisted ==
  ASSUME NEW s \in Seq(Page), NEW p \in Page, relisted \in BOOLEAN, EnlistPgn(s, p)
  PROVE  /\ fifo_pgn' \in Seq(Page) /\ relisted' \in BOOLEAN
         /\ \A i \in DOMAIN fifo_pgn' : \/ i = 1 /\ fifo_pgn'[i] = p
                                        \/ i # 1 /\ i - 1 \in DOMAIN s /\ fifo_pgn'[i] = s[i - 1]
         /\ \A i, j \in DOMAIN fifo_pgn' : i - 1 = j - 1 => i = j
         /\ ~relisted' => ~relisted /\ \A i \in DOMAIN s : s[i] # p
<1>1. fifo_pgn' = <<p>> \o s /\ relisted' = (relisted \/ OnList(s, p)) BY DEF EnlistPgn
<1>2. relisted' \in BOOLEAN /\ (~relisted' => ~relisted /\ \A i \in DOMAIN s : s[i] # p)
  BY <1>1, Zenon DEF OnList
<1>3. LET n == <<p>> \o s
      IN /\ n \in Seq(Page)
         /\ \A i \in DOMAIN n : \/ i = 1 /\ n[i] = p
                                \/ i # 1 /\ i - 1 \in DOMAIN s /\ n[i] = s[i - 1]
         /\ \A i, j \in DOMAIN n : i - 1 = j - 1 => i = j
  BY ConsFacts
<1> QED BY <1>1, <1>2, <1>3

\* __kmalloc maps a page: its frame leaves the free list for the entry, or is forgotten
\* if it is frame 0, as is the frame of the entry before.
LEMMA MapPageKeeps ==
  ASSUME TypeOK, PagesType, BreakOK, FramesOK, NEW t \in Thread, CallOK(t), MapPage(t)
  PROVE  PagesType' /\ FramesOK'
<1>1. PICK p \in Page :
        /\ ramfree # <<>> /\ ramfree' = Tail(ramfree)
        /\ pgd' = [pgd EXCEPT ![p] = NewEntry(Head(ramfree))]
        /\ forgotten' = forgotten \cup FrameOf(pgd[p]) \cup ({Head(ramfree)} \ {NewEntry(Head(ramfree))})
        /\ EnlistPgn(fifo_pgn, p)
  <2>1. acc[t].start \div PageSz + acc[t].i \in Page BY MappedPage DEF MapPage
  <2> QED BY <2>1 DEF MapPage
<1> DEFINE f == Head(ramfree)
           e == NewEntry(f)
           E == Frame \cup {None, Swapped}
<1>2. /\ ramfree' \in Seq(Frame) /\ f \in Frame /\ 1 \in DOMAIN ramfree /\ f = ramfree[1]
      /\ \A i \in DOMAIN ramfree' :
           i + 1 \in DOMAIN ramfree /\ ramfree'[i] = ramfree[i + 1] /\ i + 1 # 1
      /\ \A i, j \in DOMAIN ramfree' : i + 1 = j + 1 => i = j
      /\ \A i \in DOMAIN ramfree : i # 1 => i - 1 \in DOMAIN ramfree' /\ ramfree'[i - 1] = ramfree[i]
  BY <1>1, TailFacts DEF PagesType
<1>3. /\ fifo_pgn' \in Seq(Page) /\ relisted' \in BOOLEAN
      /\ \A i \in DOMAIN fifo_pgn' : \/ i = 1 /\ fifo_pgn'[i] = p
                                     \/ i # 1 /\ i - 1 \in DOMAIN fifo_pgn /\ fifo_pgn'[i] = fifo_pgn[i - 1]
      /\ \A i, j \in DOMAIN fifo_pgn' : i - 1 = j - 1 => i = j
      /\ ~relisted' => ~relisted /\ \A i \in DOMAIN fifo_pgn : fifo_pgn[i] # p
  BY <1>1, Enlisted DEF PagesType
<1>e. /\ e = f \/ e = None
      /\ e = None <=> f = 0
  BY <1>2, Marks, KMemAssumption DEF NewEntry, KMemAssumption
<1>4. /\ pgd \in [Page -> E] /\ pgd' \in [Page -> E] /\ pgd'[p] = e
      /\ \A q \in Page : q # p => pgd'[q] = pgd[q]
  <2>1. e \in E /\ pgd \in [Page -> E] BY <1>2, <1>e DEF PagesType
  <2> QED BY <1>1, <2>1
<1>5. /\ \A x \in forgotten' : x \in forgotten \/ (x \in Frame /\ x = pgd[p]) \/ (x = f /\ e # f)
      /\ \A x \in forgotten : x \in forgotten'
      /\ pgd[p] \in Frame => pgd[p] \in forgotten'
      /\ e # f => f \in forgotten'
  BY <1>1, Marks
<1> HIDE DEF f, e, E
<1>6. PagesType'
  <2>1. forgotten' \subseteq Frame BY <1>2, <1>5 DEF PagesType
  <2> QED BY <1>2, <1>3, <1>4, <2>1 DEF PagesType, E
<1>7. ASSUME ~relisted' PROVE FramesOK'
  <2>0. ~relisted /\ FramesKnown /\ ListOK BY <1>3, <1>7 DEF FramesOK
  <2>1. /\ \A i \in DOMAIN RamFree :
            \/ RamFree[i] \in forgotten
            \/ \E j \in DOMAIN ramfree : ramfree[j] = RamFree[i]
            \/ \E q \in Page : pgd[q] = RamFree[i]
        /\ \A i, j \in DOMAIN ramfree : i # j => ramfree[i] # ramfree[j]
        /\ \A q \in Page, i \in DOMAIN ramfree : pgd[q] # ramfree[i]
        /\ \A q, r \in Page : q # r => pgd[q] # pgd[r] \/ pgd[q] \notin Frame
        /\ \A i \in DOMAIN ramfree : ramfree[i] \notin forgotten
        /\ \A q \in Page : pgd[q] \notin forgotten
    BY <2>0 DEF FramesKnown
  <2>2. /\ \A i, j \in DOMAIN fifo_pgn : i # j => fifo_pgn[i] # fifo_pgn[j]
        /\ \A i \in DOMAIN fifo_pgn : pgd[fifo_pgn[i]] # Swapped
        /\ \A i \in DOMAIN fifo_pgn : pgd[fifo_pgn[i]] = None => 0 \in forgotten
        /\ \A i, j \in DOMAIN fifo_pgn :
             pgd[fifo_pgn[i]] = None /\ pgd[fifo_pgn[j]] = None => i = j
    BY <2>0 DEF ListOK
  <2>3. ASSUME NEW i \in DOMAIN RamFree
        PROVE  \/ RamFree[i] \in forgotten'
               \/ \E j \in DOMAIN ramfree' : ramfree'[j] = RamFree[i]
               \/ \E q \in Page : pgd'[q] = RamFree[i]
    <3>1. RamFree[i] \in Frame BY DEF Frame
    <3>2. CASE RamFree[i] \in forgotten BY <1>5, <3>2
    <3>3. ASSUME NEW j \in DOMAIN ramfree, ramfree[j] = RamFree[i]
          PROVE  \/ RamFree[i] \in forgotten'
                 \/ \E k \in DOMAIN ramfree' : ramfree'[k] = RamFree[i]
                 \/ \E q \in Page : pgd'[q] = RamFree[i]
      <4>1. CASE j = 1 BY <1>2, <1>4, <1>5, <3>3, <4>1
      <4>2. CASE j # 1 BY <1>2, <3>3, <4>2
      <4> QED BY <4>1, <4>2
    <3>4. ASSUME NEW q \in Page, pgd[q] = RamFree[i]
          PROVE  \/ RamFree[i] \in forgotten'
                 \/ \E r \in Page : pgd'[r] = RamFree[i]
      BY <1>4, <1>5, <3>1, <3>4
    <3> QED BY <2>1, <3>2, <3>3, <3>4
  <2>4. \A i, j \in DOMAIN ramfree' : i # j => ramfree'[i] # ramfree'[j] BY <1>2, <2>1
  <2>5. \A q \in Page, i \in DOMAIN ramfree' : pgd'[q] # ramfree'[i]
    <3>1. \A i \in DOMAIN ramfree' : ramfree'[i] # f /\ ramfree'[i] # None
      BY <1>2, <2>1, Marks DEF PagesType
    <3> QED BY <1>2, <1>4, <1>e, <2>1, <3>1
  <2>6. \A q, r \in Page : q # r => pgd'[q] # pgd'[r] \/ pgd'[q] \notin Frame
    BY <1>2, <1>4, <1>e, <2>1, Marks
  <2>7. \A i \in DOMAIN ramfree' : ramfree'[i] \notin forgotten' BY <1>2, <1>5, <2>1
  <2>8. \A q \in Page : pgd'[q] \notin forgotten'
    <3>1. None \notin forgotten' BY <1>6, Marks DEF PagesType
    <3>2. ASSUME NEW q \in Page, q # p PROVE pgd[q] \notin forgotten' BY <1>2, <1>5, <2>1, <3>2
    <3>3. e = f => f \notin forgotten' BY <1>2, <1>5, <2>1
    <3> QED BY <1>4, <1>e, <3>1, <3>2, <3>3
  <2>9. FramesKnown' BY <2>3, <2>4, <2>5, <2>6, <2>7, <2>8 DEF FramesKnown
  <2>10. ASSUME NEW i \in DOMAIN fifo_pgn'
         PROVE  \/ i = 1 /\ fifo_pgn'[i] = p /\ pgd'[fifo_pgn'[i]] = e
                \/ /\ i # 1 /\ i - 1 \in DOMAIN fifo_pgn /\ fifo_pgn'[i] = fifo_pgn[i - 1]
                   /\ fifo_pgn'[i] # p /\ pgd'[fifo_pgn'[i]] = pgd[fifo_pgn[i - 1]]
    <3>1. fifo_pgn'[i] \in Page BY <1>3
    <3> QED BY <1>3, <1>4, <1>7, <3>1
  <2>11. \A i, j \in DOMAIN fifo_pgn' : i # j => fifo_pgn'[i] # fifo_pgn'[j]
    BY <1>3, <2>2, <2>10
  <2>12. \A i \in DOMAIN fifo_pgn' : pgd'[fifo_pgn'[i]] # Swapped
    BY <1>2, <1>e, <2>2, <2>10, Marks
  <2>13. \A i \in DOMAIN fifo_pgn' : pgd'[fifo_pgn'[i]] = None => 0 \in forgotten'
    BY <1>2, <1>5, <1>e, <2>2, <2>10, Marks
  <2>14. \A i, j \in DOMAIN fifo_pgn' :
           pgd'[fifo_pgn'[i]] = None /\ pgd'[fifo_pgn'[j]] = None => i = j
    <3>1. e = None => 0 \notin forgotten BY <1>2, <1>e, <2>1
    <3> QED BY <1>3, <2>2, <2>10, <3>1
  <2>15. ListOK' BY <2>11, <2>12, <2>13, <2>14 DEF ListOK
  <2> QED BY <2>9, <2>15 DEF FramesOK
<1>8. relisted' => FramesOK' BY DEF FramesOK, FramesKnown, ListOK
<1> QED BY <1>6, <1>7, <1>8

\* A page fault of a user byte: the victim's frame goes to the page.
LEMMA FaultKeeps ==
  ASSUME PagesType, FramesOK, NEW p \in Page, pgd[p] = None, PageFault(p)
  PROVE  PagesType' /\ FramesOK'
<1> DEFINE n == Len(fifo_pgn)
           s == SubSeq(fifo_pgn, 1, n - 1)
           v == fifo_pgn[n]
           E == Frame \cup {None, Swapped}
<1>1. PICK f \in VictimFrames(v) :
        /\ n > 1 /\ ramfree' = ramfree
        /\ pgd' = [pgd EXCEPT ![v] = Swapped, ![p] = f]
        /\ forgotten' = forgotten \ {f}
        /\ EnlistPgn(s, p)
  BY DEF PageFault, FaultIn
<1>2. /\ s \in Seq(Page) /\ n \in DOMAIN fifo_pgn /\ v \in Page
      /\ \A i \in DOMAIN s : i \in DOMAIN fifo_pgn /\ s[i] = fifo_pgn[i] /\ i # n
  BY <1>1, FrontFacts DEF PagesType
<1> HIDE DEF n, s, v
<1>3. /\ fifo_pgn' \in Seq(Page) /\ relisted' \in BOOLEAN
      /\ \A i \in DOMAIN fifo_pgn' : \/ i = 1 /\ fifo_pgn'[i] = p
                                     \/ i # 1 /\ i - 1 \in DOMAIN s /\ fifo_pgn'[i] = s[i - 1]
      /\ \A i, j \in DOMAIN fifo_pgn' : i - 1 = j - 1 => i = j
      /\ ~relisted' => ~relisted /\ \A i \in DOMAIN s : s[i] # p
  BY <1>1, <1>2, Enlisted DEF PagesType
<1>f. /\ f \in Frame
      /\ pgd[v] = None => f = 0
      /\ pgd[v] \notin {None, Swapped} => f = pgd[v]
  <2>1. pgd[v] \in E /\ 0 \in Frame BY <1>2 DEF PagesType, Frame
  <2> DEFINE x == pgd[v]
  <2>2. VictimFrames(v) = CASE x = None -> {0} [] x = Swapped -> Frame [] OTHER -> {x}
    BY DEF VictimFrames
  <2>3. x \in E BY <2>1
  <2> HIDE DEF x
  <2>4. CASE x = None BY <1>1, <2>1, <2>2, <2>4, Marks DEF x
  <2>5. CASE x = Swapped BY <1>1, <2>2, <2>5, Marks DEF x
  <2>6. CASE x \notin {None, Swapped} BY <1>1, <2>2, <2>3, <2>6 DEF x
  <2> QED BY <2>4, <2>5, <2>6
<1>4. /\ pgd \in [Page -> E] /\ pgd' \in [Page -> E] /\ pgd'[p] = f
      /\ v # p => pgd'[v] = Swapped
      /\ \A q \in Page : q # p /\ q # v => pgd'[q] = pgd[q]
  <2>1. Swapped \in E /\ f \in E /\ pgd \in [Page -> E] BY <1>f DEF PagesType
  <2> HIDE DEF E
  <2> QED BY <1>1, <1>2, <2>1
<1> HIDE DEF E
<1>5. PagesType' BY <1>1, <1>3, <1>4 DEF PagesType, E
<1>6. ASSUME ~relisted' PROVE FramesOK'
  <2>0. ~relisted /\ FramesKnown /\ ListOK BY <1>3, <1>6 DEF FramesOK
  <2>1. /\ \A i \in DOMAIN RamFree :
            \/ RamFree[i] \in forgotten
            \/ \E j \in DOMAIN ramfree : ramfree[j] = RamFree[i]
            \/ \E q \in Page : pgd[q] = RamFree[i]
        /\ \A i, j \in DOMAIN ramfree : i # j => ramfree[i] # ramfree[j]
        /\ \A q \in Page, i \in DOMAIN ramfree : pgd[q] # ramfree[i]
        /\ \A q, r \in Page : q # r => pgd[q] # pgd[r] \/ pgd[q] \notin Frame
        /\ \A i \in DOMAIN ramfree : ramfree[i] \notin forgotten
        /\ \A q \in Page : pgd[q] \notin forgotten
    BY <2>0 DEF FramesKnown
  <2>2. /\ \A i, j \in DOMAIN fifo_pgn : i # j => fifo_pgn[i] # fifo_pgn[j]
        /\ \A i \in DOMAIN fifo_pgn : pgd[fifo_pgn[i]] # Swapped
        /\ \A i \in DOMAIN fifo_pgn : pgd[fifo_pgn[i]] = None => 0 \in forgotten
        /\ \A i, j \in DOMAIN fifo_pgn :
             pgd[fifo_pgn[i]] = None /\ pgd[fifo_pgn[j]] = None => i = j
    BY <2>0 DEF ListOK
  <2>v. /\ v = fifo_pgn[n] /\ pgd[v] # Swapped
        /\ pgd[v] = None => f = 0 /\ 0 \in forgotten
        /\ pgd[v] # None => f = pgd[v]
    <3>1. v = fifo_pgn[n] BY DEF v
    <3> QED BY <1>2, <1>f, <2>2, <3>1
  <2>f. /\ \A q \in Page : q # v => pgd[q] # f
        /\ \A i \in DOMAIN ramfree : ramfree[i] # f
    BY <1>2, <1>f, <2>1, <2>v
  <2>3. ASSUME NEW i \in DOMAIN RamFree
        PROVE  \/ RamFree[i] \in forgotten'
               \/ \E j \in DOMAIN ramfree' : ramfree'[j] = RamFree[i]
               \/ \E q \in Page : pgd'[q] = RamFree[i]
    <3>1. RamFree[i] \in Frame BY DEF Frame
    <3>2. CASE RamFree[i] = f BY <1>4, <3>2
    <3>3. CASE RamFree[i] # f
      <4>1. \A q \in Page : pgd[q] = RamFree[i] => q # p /\ q # v
        BY <1>f, <2>v, <3>1, <3>3, Marks
      <4> QED BY <1>1, <1>4, <2>1, <3>3, <4>1
    <3> QED BY <3>2, <3>3
  <2>4. \A i, j \in DOMAIN ramfree' : i # j => ramfree'[i] # ramfree'[j] BY <1>1, <2>1
  <2>5. \A q \in Page, i \in DOMAIN ramfree' : pgd'[q] # ramfree'[i]
    <3>1. \A i \in DOMAIN ramfree : ramfree[i] # Swapped BY Marks DEF PagesType
    <3> QED BY <1>1, <1>4, <2>1, <2>f, <3>1
  <2>6. \A q, r \in Page : q # r => pgd'[q] # pgd'[r] \/ pgd'[q] \notin Frame
    BY <1>4, <2>1, <2>f, Marks
  <2>7. \A i \in DOMAIN ramfree' : ramfree'[i] \notin forgotten' BY <1>1, <2>1
  <2>8. \A q \in Page : pgd'[q] \notin forgotten'
    <3>1. Swapped \notin forgotten BY Marks DEF PagesType
    <3> QED BY <1>1, <1>4, <2>1, <3>1
  <2>9. FramesKnown' BY <2>3, <2>4, <2>5, <2>6, <2>7, <2>8 DEF FramesKnown
  <2>10. ASSUME NEW i \in DOMAIN fifo_pgn'
         PROVE  \/ i = 1 /\ fifo_pgn'[i] = p /\ pgd'[fifo_pgn'[i]] = f
                \/ /\ i # 1 /\ i - 1 \in DOMAIN fifo_pgn /\ i - 1 # n
                   /\ fifo_pgn'[i] = fifo_pgn[i - 1] /\ fifo_pgn'[i] # p
                   /\ pgd'[fifo_pgn'[i]] = pgd[fifo_pgn[i - 1]]
    <3>1. CASE i = 1 BY <1>3, <1>4, <3>1
    <3>2. CASE i # 1
      <4>1. /\ i - 1 \in DOMAIN fifo_pgn /\ i - 1 # n /\ fifo_pgn'[i] = fifo_pgn[i - 1]
            /\ fifo_pgn'[i] # p
        BY <1>2, <1>3, <1>6, <3>2
      <4>2. fifo_pgn'[i] # v BY <1>2, <2>2, <2>v, <4>1
      <4>3. fifo_pgn'[i] \in Page BY <1>3
      <4>4. pgd'[fifo_pgn'[i]] = pgd[fifo_pgn'[i]] BY <1>4, <4>1, <4>2, <4>3
      <4> QED BY <3>2, <4>1, <4>4
    <3> QED BY <3>1, <3>2
  <2>11. \A i, j \in DOMAIN fifo_pgn' : i # j => fifo_pgn'[i] # fifo_pgn'[j]
    BY <1>3, <2>2, <2>10
  <2>12. \A i \in DOMAIN fifo_pgn' : pgd'[fifo_pgn'[i]] # Swapped
    BY <1>f, <2>2, <2>10, Marks
  <2>13. \A i \in DOMAIN fifo_pgn' : pgd'[fifo_pgn'[i]] = None => 0 \in forgotten'
    <3> SUFFICES ASSUME NEW i \in DOMAIN fifo_pgn', pgd'[fifo_pgn'[i]] = None
                 PROVE  0 \in forgotten'
      OBVIOUS
    <3>1. /\ i - 1 \in DOMAIN fifo_pgn /\ i - 1 # n /\ pgd[fifo_pgn[i - 1]] = None
      BY <1>f, <2>10, Marks
    <3>2. 0 \in forgotten BY <2>2, <3>1
    <3>3. pgd[v] # None BY <1>2, <2>2, <2>v, <3>1
    <3>4. f # 0 BY <1>2, <2>1, <2>v, <3>2, <3>3
    <3> QED BY <1>1, <3>2, <3>4
  <2>14. \A i, j \in DOMAIN fifo_pgn' :
           pgd'[fifo_pgn'[i]] = None /\ pgd'[fifo_pgn'[j]] = None => i = j
    <3>1. f # None BY <1>f, Marks
    <3> QED BY <1>3, <2>2, <2>10, <3>1
  <2>15. ListOK' BY <2>11, <2>12, <2>13, <2>14 DEF ListOK
  <2> QED BY <2>9, <2>15 DEF FramesOK
<1>7. relisted' => FramesOK' BY DEF FramesOK, FramesKnown, ListOK
<1> QED BY <1>5, <1>6, <1>7

\* Every frame keeps a place through every step.
LEMMA PageStep ==
  ASSUME Built, NEW t \in Thread, Call(t) \/ Step(t)
  PROVE  PagesType' /\ FramesOK'
<1>0. TypeOK /\ BreakOK /\ FramesOK /\ CallOK(t) /\ PagesType
  BY DEF Built, LocalsOK, TypeOK, PagesType
<1>1. ASSUME UNCHANGED pages PROVE PagesType' /\ FramesOK'
  <2>1. /\ pgd' = pgd /\ ramfree' = ramfree /\ fifo_pgn' = fifo_pgn
        /\ forgotten' = forgotten /\ relisted' = relisted
    BY <1>1 DEF pages
  <2> QED BY <1>0, <2>1 DEF PagesType, FramesOK, FramesKnown, ListOK
<1>2. CASE MapPage(t) BY <1>0, <1>2, MapPageKeeps
<1>3. CASE UserByte(t)
  <2>1. UserPage(t) \in Page BY <1>0, <1>3, AccessedPage DEF UserByte
  <2>2. CASE pgd[UserPage(t)] = None
    <3>1. PageFault(UserPage(t)) BY <1>3, <2>2 DEF UserByte
    <3> QED BY <1>0, <2>1, <2>2, <3>1, FaultKeeps
  <2>3. CASE pgd[UserPage(t)] # None BY <1>1, <1>3, <2>3 DEF UserByte
  <2> QED BY <2>2, <2>3
<1>4. CASE UserFails(t)
  <2>1. /\ pgd' = pgd /\ ramfree' = ramfree /\ forgotten' = forgotten /\ relisted' = relisted
        /\ \/ fifo_pgn' = fifo_pgn
           \/ Len(fifo_pgn) > 1 /\ fifo_pgn' = SubSeq(fifo_pgn, 1, Len(fifo_pgn) - 1)
    BY <1>4 DEF UserFails
  <2>2. /\ fifo_pgn' \in Seq(Page)
        /\ \A i \in DOMAIN fifo_pgn' : i \in DOMAIN fifo_pgn /\ fifo_pgn'[i] = fifo_pgn[i]
    <3>1. fifo_pgn \in Seq(Page) BY <1>0 DEF PagesType
    <3>2. CASE fifo_pgn' = fifo_pgn BY <3>1, <3>2
    <3>3. CASE Len(fifo_pgn) > 1 /\ fifo_pgn' = SubSeq(fifo_pgn, 1, Len(fifo_pgn) - 1)
      <4> DEFINE s == fifo_pgn
      <4>1. LET n == SubSeq(s, 1, Len(s) - 1)
            IN /\ n \in Seq(Page) /\ Len(s) \in DOMAIN s
               /\ \A i \in DOMAIN n : i \in DOMAIN s /\ n[i] = s[i] /\ i # Len(s)
        BY <3>1, <3>3, FrontFacts
      <4> QED BY <3>3, <4>1
    <3> QED BY <2>1, <3>2, <3>3
  <2>3. PagesType' /\ FramesKnown' BY <1>0, <2>1, <2>2 DEF PagesType, FramesOK, FramesKnown
  <2>4. ListOK' BY <1>0, <2>1, <2>2 DEF FramesOK, ListOK
  <2> QED BY <2>3, <2>4 DEF FramesOK
<1> QED BY <1>1, <1>2, <1>3, <1>4, OtherActions

-----------------------------------------------------------------------------
(* Every step keeps the pools, the lock and the locals. *)

\* A pool enters the list with the shape it was asked for.
LEMMA PoolStep ==
  ASSUME Built, NEW t \in Thread, Call(t) \/ Step(t)
  PROVE  /\ kcpooltbl' \in Seq([id : PoolId, size : Nat, align : Nat]) /\ PoolsOK'
         /\ \A k \in DOMAIN kcpooltbl : \E j \in DOMAIN kcpooltbl' : kcpooltbl'[j] = kcpooltbl[k]
<1> DEFINE S == [id : PoolId, size : Nat, align : Nat]
<1>0. TypeOK /\ PoolsOK /\ ArgsOK(t) /\ kcpooltbl \in Seq(S) BY DEF Built, TypeOK, LocalsOK
<1>1. CASE UNCHANGED kcpooltbl BY <1>0, <1>1 DEF PoolsOK
<1>2. CASE PushPool(t)
  <2> DEFINE pool == [id |-> acc[t].id, size |-> acc[t].size, align |-> acc[t].align]
  <2>1. At(t, "push") /\ kcpooltbl' = <<pool>> \o kcpooltbl BY <1>2 DEF PushPool
  <2>2. ShapeOK(acc[t]) BY <1>0, <2>1 DEF ArgsOK, At
  <2>3. acc[t].size \in Nat /\ acc[t].align \in Nat BY <1>0, TypeFacts, AccFields
  <2>4. pool \in S BY <2>2, <2>3 DEF ShapeOK
  <2>5. ShapeOK(pool) BY <2>2 DEF ShapeOK
  <2> DEFINE n == <<pool>> \o kcpooltbl
  <2> HIDE DEF pool, S
  <2>6. n \in Seq(S) BY <1>0, <2>4
  <2>7. \A j \in DOMAIN n : n[j] = pool \/ \E k \in DOMAIN kcpooltbl : n[j] = kcpooltbl[k]
    BY <1>0, <2>4
  <2>8. kcpooltbl' = n BY <2>1
  <2>9. \A k \in DOMAIN kcpooltbl : k + 1 \in DOMAIN n /\ n[k + 1] = kcpooltbl[k] BY <1>0, <2>4
  <2> HIDE DEF n
  <2> QED BY <1>0, <2>5, <2>6, <2>7, <2>8, <2>9 DEF PoolsOK, S
<1> QED BY <1>1, <1>2, OtherActions

\* A CPU that is in no call has no obligations.
LEMMA NoCall ==
  ASSUME NEW t \in Thread, pc'[t] = "idle"
  PROVE  CallOK(t)' /\ ArgsOK(t)'
BY DEF InKmalloc, InCache, CallOK, ArgsOK

\* A call ends there.
LEMMA EndCall ==
  ASSUME pc \in [Thread -> Labels], NEW t \in Thread, End(t)
  PROVE  pc'[t] = "idle"
BY DEF End, Goto

\* What is to show of a CPU after its own step
Good(t) == CallOK(t) /\ ArgsOK(t)

\* A call that begins takes the lock if it needs it, and is one that its CPU makes.
LEMMA CallGood ==
  ASSUME Built, NEW t \in Thread, Call(t)
  PROVE  Good(t)'
<1>0. pc \in [Thread -> Labels] /\ acc \in [Thread -> Acc] BY TypeFacts DEF Built
<1>1. ASSUME NEW label \in Labels, NEW a, Begin(t, label, a)
      PROVE  /\ pc'[t] = label /\ acc'[t] = a /\ a.op \in OpsOf[t]
             /\ a.op \in {"kmalloc", "pool_create"} \/ (Alone /\ a.op = "cache_alloc") => mmvm_lock' = t
  BY <1>0, <1>1 DEF Begin, Goto, Exclusive
<1>2. Labels = {"idle", "region", "map", "push", "find", "search", "grow", "claim",
                "check", "user", "kernel"}
  BY DEF Labels
<1>3. ASSUME NEW r \in Reg, NEW size \in Sizes, Alloc(t, r, size) PROVE Good(t)'
  <2>1. pc'[t] = "idle" BY <1>3 DEF Alloc, UserStep, At
  <2> QED BY <2>1, NoCall DEF Good
<1>4. ASSUME NEW r \in Reg, Free(t, r) PROVE Good(t)'
  <2>1. pc'[t] = "idle" BY <1>4 DEF Free, UserStep, At
  <2> QED BY <2>1, NoCall DEF Good
<1>5. ASSUME NEW r \in Reg, NEW size \in Sizes, BeginKmalloc(t, r, size) PROVE Good(t)'
  <2> DEFINE a == [Idle EXCEPT !.op = "kmalloc", !.rg = r, !.size = size]
  <2>1. Begin(t, "region", a) BY <1>5 DEF BeginKmalloc
  <2>2. a.op = "kmalloc" BY DEF Idle
  <2> HIDE DEF a
  <2>3. pc'[t] = "region" /\ acc'[t] = a /\ a.op \in OpsOf[t] /\ mmvm_lock' = t
    BY <1>1, <1>2, <2>1, <2>2
  <2>4. CallOK(t)' BY <2>2, <2>3 DEF CallOK, InKmalloc, InCache
  <2>5. ArgsOK(t)' BY <2>2, <2>3 DEF ArgsOK
  <2> QED BY <2>4, <2>5 DEF Good
<1>6. ASSUME NEW id \in PoolId, NEW r \in Reg, BeginCacheAlloc(t, id, r) PROVE Good(t)'
  <2> DEFINE a == [Idle EXCEPT !.op = "cache_alloc", !.id = id, !.rg = r]
  <2>1. Begin(t, "find", a) BY <1>6 DEF BeginCacheAlloc
  <2>2. a.op = "cache_alloc" BY DEF Idle
  <2> HIDE DEF a
  <2>3. /\ pc'[t] = "find" /\ "cache_alloc" \in OpsOf[t]
        /\ Alone => mmvm_lock' = t
    BY <1>1, <1>2, <2>1, <2>2
  <2>4. CallOK(t)' BY <2>3 DEF CallOK, InKmalloc, InCache
  <2>5. ArgsOK(t)' BY <2>3 DEF ArgsOK
  <2> QED BY <2>4, <2>5 DEF Good
<1>7. ASSUME NEW id \in PoolId, NEW s \in Shapes, BeginPoolCreate(t, id, s) PROVE Good(t)'
  <2> DEFINE a == [Idle EXCEPT !.op = "pool_create", !.rg = PoolRg(id), !.id = id,
                               !.size = s.size, !.align = s.align]
  <2>1. Begin(t, "region", a) /\ s.align > 0 BY <1>7 DEF BeginPoolCreate
  <2>2. a.op = "pool_create" /\ a.id = id /\ a.size = s.size /\ a.align = s.align BY DEF Idle
  <2>3. s = [size |-> s.size, align |-> s.align] BY KMemAssumption DEF KMemAssumption
  <2> HIDE DEF a
  <2>4. ShapeOK(a) BY <2>1, <2>2, <2>3 DEF ShapeOK
  <2>5. pc'[t] = "region" /\ acc'[t] = a /\ a.op \in OpsOf[t] /\ mmvm_lock' = t
    BY <1>1, <1>2, <2>1, <2>2
  <2>6. CallOK(t)' BY <2>2, <2>5 DEF CallOK, InKmalloc, InCache
  <2>7. ArgsOK(t)' BY <2>2, <2>4, <2>5 DEF ArgsOK, ShapeOK
  <2> QED BY <2>6, <2>7 DEF Good
<1>8. ASSUME NEW c \in Copies, BeginCopy(t, c) PROVE Good(t)'
  <2> DEFINE a == [Idle EXCEPT !.op = c.op, !.urg = c.urg, !.rg = c.rg,
                               !.offset = c.offset, !.size = c.size]
  <2>1. Begin(t, "check", a) BY <1>8 DEF BeginCopy
  <2>2. a.i = 0 BY DEF Idle
  <2>3. c.op \in {"copy_from_user", "copy_to_user"} /\ a.op = c.op
    BY KMemAssumption DEF KMemAssumption, Idle
  <2> HIDE DEF a
  <2>4. pc'[t] = "check" /\ acc'[t] = a BY <1>1, <1>2, <2>1
  <2> QED BY <2>2, <2>3, <2>4 DEF Good, InKmalloc, InCache, CallOK, ArgsOK
<1> QED BY <1>3, <1>4, <1>5, <1>6, <1>7, <1>8 DEF Call

\* The steps of __kmalloc and of the creation of a pool keep the lock, the bounds of
\* the area that was found and the shape asked for.
LEMMA KmallocGood ==
  ASSUME Built, NEW t \in Thread, Kmalloc(t)
  PROVE  Good(t)'
<1> USE DEF At, Goto
<1>0. /\ pc \in [Thread -> Labels] /\ acc \in [Thread -> Acc] /\ Good(t)
      /\ acc[t].size \in Nat /\ sbrk \in Nat /\ Rounding \subseteq Nat
      /\ \A i \in DOMAIN freerg : freerg[i].start \in Nat /\ freerg[i].end \in Nat /\ freerg[i].end <= sbrk
  BY TypeFacts, AccFields, KMemAssumption DEF KMemAssumption, Built, LocalsOK, Good, BreakOK
<1>1. ASSUME End(t) PROVE Good(t)' BY <1>0, <1>1, EndCall, NoCall DEF Good
<1>2. ASSUME pc[t] = "region", pc'[t] = "map", mmvm_lock' = mmvm_lock,
             NEW start \in Nat, acc' = [acc EXCEPT ![t].start = start],
             start + acc[t].size <= sbrk'
      PROVE  Good(t)'
  <2>1. /\ acc'[t].start = start /\ acc'[t].size = acc[t].size
        /\ acc'[t].op = acc[t].op /\ acc'[t].id = acc[t].id /\ acc'[t].align = acc[t].align
    BY <1>0, <1>2, FieldSet
  <2>2. CallOK(t)' BY <1>0, <1>2, <2>1 DEF CallOK, Good, InKmalloc, InCache
  <2>3. ArgsOK(t)' BY <1>0, <1>2, <2>1 DEF ArgsOK, Good, ShapeOK
  <2> QED BY <2>2, <2>3 DEF Good
<1>3. CASE TakeNode(t)
  <2>1. PICK i \in DOMAIN freerg : Fits(freerg[i], acc[t].size) /\ acc' = [acc EXCEPT ![t].start = freerg[i].start]
    BY <1>3 DEF TakeNode, FirstFit, Set
  <2>2. pc[t] = "region" /\ pc'[t] = "map" /\ mmvm_lock' = mmvm_lock /\ sbrk' = sbrk
    BY <1>0, <1>3 DEF TakeNode
  <2>3. freerg[i].start + acc[t].size <= sbrk' BY <1>0, <2>1, <2>2 DEF Fits
  <2> QED BY <1>0, <1>2, <2>1, <2>2, <2>3
<1>4. CASE TakeBreak(t)
  <2>1. PICK extra \in Rounding : sbrk' = sbrk + acc[t].size + extra BY <1>4 DEF TakeBreak, MoveBreak
  <2>2. /\ pc[t] = "region" /\ pc'[t] = "map" /\ mmvm_lock' = mmvm_lock
        /\ acc' = [acc EXCEPT ![t].start = sbrk]
    BY <1>0, <1>4 DEF TakeBreak, Set
  <2>3. sbrk + acc[t].size <= sbrk' BY <1>0, <2>1
  <2> QED BY <1>0, <1>2, <2>2, <2>3
<1>5. CASE MapPage(t)
  <2>1. /\ pc[t] = "map" /\ pc'[t] = "map" /\ mmvm_lock' = mmvm_lock /\ sbrk' = sbrk
        /\ acc' = [acc EXCEPT ![t].i = acc[t].i + 1]
    BY <1>0, <1>5 DEF MapPage, Set, regions
  <2>2. /\ acc'[t].start = acc[t].start /\ acc'[t].size = acc[t].size
        /\ acc'[t].op = acc[t].op /\ acc'[t].id = acc[t].id /\ acc'[t].align = acc[t].align
    BY <1>0, <2>1, FieldSet
  <2>3. CallOK(t)' BY <1>0, <2>1, <2>2 DEF CallOK, Good, InKmalloc, InCache
  <2>4. ArgsOK(t)' BY <1>0, <2>1, <2>2 DEF ArgsOK, Good, ShapeOK
  <2> QED BY <2>3, <2>4 DEF Good
<1>6. CASE OutOfFrames(t) BY <1>1, <1>6 DEF OutOfFrames
<1>7. CASE AllMapped(t)
  <2>1. CASE acc[t].op = "kmalloc" BY <1>1, <1>7, <2>1 DEF AllMapped
  <2>2. CASE acc[t].op # "kmalloc"
    <3>1. pc[t] = "map" /\ pc'[t] = "push" /\ acc' = acc BY <1>0, <1>7, <2>2 DEF AllMapped
    <3>2. acc[t].op = "pool_create" BY <1>0, <2>2, <3>1 DEF Good, CallOK, InKmalloc
    <3>3. CallOK(t)' BY <3>1 DEF InKmalloc, InCache, CallOK
    <3>4. ArgsOK(t)' BY <1>0, <3>1, <3>2 DEF ArgsOK, Good, ShapeOK
    <3> QED BY <3>3, <3>4 DEF Good
  <2> QED BY <2>1, <2>2
<1>8. CASE PushPool(t) BY <1>1, <1>8 DEF PushPool
<1> QED BY <1>3, <1>4, <1>5, <1>6, <1>7, <1>8 DEF Kmalloc

\* The steps of a cache allocation keep the pool that was found, and what they take
\* is below the break, also if another CPU has moved it since they read it.
LEMMA CacheGood ==
  ASSUME Built, NEW t \in Thread, CacheAlloc(t)
  PROVE  Good(t)'
<1> USE DEF At, Goto
<1>0. /\ pc \in [Thread -> Labels] /\ acc \in [Thread -> Acc] /\ Good(t)
      /\ acc[t].size \in Nat /\ acc[t].start \in Nat /\ sbrk \in Nat /\ Rounding \subseteq Nat
      /\ \A i \in DOMAIN freerg : freerg[i].start \in Nat /\ freerg[i].end \in Nat /\ freerg[i].end <= sbrk
  BY TypeFacts, AccFields, KMemAssumption DEF KMemAssumption, Built, LocalsOK, Good, BreakOK
<1>1. ASSUME End(t) PROVE Good(t)' BY <1>0, <1>1, EndCall, NoCall DEF Good
<1>2. ASSUME pc[t] \in {"find", "search", "grow"}, mmvm_lock' = mmvm_lock,
             pc'[t] \in {"search", "grow", "claim"}, PoolOf(t)',
             pc'[t] = "grow" => acc'[t].start <= sbrk',
             pc'[t] = "claim" => acc'[t].start + acc'[t].size <= sbrk'
      PROVE  Good(t)'
  <2>1. CallOK(t)' BY <1>0, <1>2 DEF CallOK, Good, InKmalloc, InCache
  <2>2. ArgsOK(t)' BY <1>2 DEF ArgsOK
  <2> QED BY <2>1, <2>2 DEF Good
<1>3. ASSUME pc[t] \in {"search", "grow"}, kcpooltbl' = kcpooltbl,
             acc'[t].size = acc[t].size, acc'[t].id = acc[t].id
      PROVE  PoolOf(t)'
  BY <1>0, <1>3 DEF PoolOf, Good, CallOK
<1>4. CASE FindPool(t)
  <2>1. PICK k \in DOMAIN kcpooltbl :
          /\ kcpooltbl[k].id = acc[t].id
          /\ acc' = [acc EXCEPT ![t].size = SlotSize(kcpooltbl[k]), ![t].align = kcpooltbl[k].align]
    BY <1>4 DEF FindPool, IsPool
  <2>2. pc[t] = "find" /\ pc'[t] = "search" /\ mmvm_lock' = mmvm_lock /\ kcpooltbl' = kcpooltbl
    BY <1>0, <1>4 DEF FindPool
  <2>3. acc'[t].size = SlotSize(kcpooltbl[k]) /\ acc'[t].id = acc[t].id BY <1>0, <2>1, FieldSet
  <2>4. PoolOf(t)' BY <2>1, <2>2, <2>3 DEF PoolOf
  <2> QED BY <1>2, <2>2, <2>4
<1>5. CASE NoPool(t) BY <1>1, <1>5 DEF NoPool
<1>6. CASE CacheNode(t)
  <2>1. PICK i \in DOMAIN freerg : Fits(freerg[i], acc[t].size) /\ acc' = [acc EXCEPT ![t].start = freerg[i].start]
    BY <1>6 DEF CacheNode, FirstFit, Set
  <2>2. /\ pc[t] = "search" /\ pc'[t] = "claim" /\ mmvm_lock' = mmvm_lock
        /\ kcpooltbl' = kcpooltbl /\ sbrk' = sbrk
    BY <1>0, <1>6 DEF CacheNode
  <2>3. /\ acc'[t].size = acc[t].size /\ acc'[t].id = acc[t].id
        /\ acc'[t].start = freerg[i].start
    BY <1>0, <2>1, FieldSet
  <2>4. acc'[t].start + acc'[t].size <= sbrk' BY <1>0, <2>1, <2>2, <2>3 DEF Fits
  <2> QED BY <1>2, <1>3, <2>2, <2>3, <2>4
<1>7. CASE SaveBreak(t)
  <2>1. /\ pc[t] = "search" /\ pc'[t] = "grow" /\ mmvm_lock' = mmvm_lock
        /\ sbrk' = sbrk /\ kcpooltbl' = kcpooltbl
        /\ acc' = [acc EXCEPT ![t].start = sbrk]
    BY <1>0, <1>7 DEF SaveBreak, Set, regions
  <2>2. acc'[t].start = sbrk /\ acc'[t].size = acc[t].size /\ acc'[t].id = acc[t].id
    BY <1>0, <2>1, FieldSet
  <2>3. acc'[t].start <= sbrk' BY <1>0, <2>1, <2>2
  <2> QED BY <1>2, <1>3, <2>1, <2>2, <2>3
<1>8. CASE CacheGrow(t)
  <2>1. /\ pc[t] = "grow" /\ pc'[t] = "claim" /\ mmvm_lock' = mmvm_lock
        /\ kcpooltbl' = kcpooltbl /\ acc' = acc
    BY <1>0, <1>8 DEF CacheGrow
  <2>2. PICK extra \in Rounding : sbrk' = sbrk + acc[t].size + extra BY <1>8 DEF CacheGrow, MoveBreak
  <2>3. acc'[t].start + acc'[t].size <= sbrk'
    <3>1. acc[t].start <= sbrk /\ extra \in Nat BY <1>0, <2>1 DEF Good, CallOK
    <3> QED BY <1>0, <2>1, <2>2, <3>1
  <2> QED BY <1>2, <1>3, <2>1, <2>3
<1>9. CASE CacheClaim(t) BY <1>1, <1>9 DEF CacheClaim
<1> QED BY <1>4, <1>5, <1>6, <1>7, <1>8, <1>9 DEF CacheAlloc

\* The steps of a copy stay within the region it has checked.
LEMMA CopyGood ==
  ASSUME Built, NEW t \in Thread, Copy(t)
  PROVE  Good(t)'
<1> USE DEF At, Goto
<1>0. /\ pc \in [Thread -> Labels] /\ acc \in [Thread -> Acc] /\ Good(t)
      /\ acc[t].i \in Nat /\ acc[t].size \in Nat /\ acc[t].offset \in Nat
  BY TypeFacts, AccFields DEF Built, LocalsOK, Good
<1>1. ASSUME End(t) PROVE Good(t)' BY <1>0, <1>1, EndCall, NoCall DEF Good
<1>2. ASSUME pc'[t] \in {"user", "kernel"}, acc'[t].i < acc'[t].size,
             acc'[t].size + (IF FromUser(t)' THEN 0 ELSE acc'[t].offset) <= Size(acc'[t].seen)
      PROVE  Good(t)'
  <2>1. CallOK(t)' BY <1>2 DEF InKmalloc, InCache, CallOK
  <2>2. ArgsOK(t)' BY <1>2 DEF ArgsOK, Size
  <2> QED BY <2>1, <2>2 DEF Good
<1>3. CASE CheckCopy(t)
  <2>1. CASE Checked(t) /\ acc[t].size > 0
    <3>1. /\ pc[t] = "check" /\ pc'[t] = IF FromUser(t) THEN "user" ELSE "kernel"
          /\ acc' = [acc EXCEPT ![t].seen = symrg[UserRg(acc[t].rg)]]
      BY <1>0, <1>3, <2>1 DEF CheckCopy, Set
    <3>2. /\ acc'[t].seen = symrg[UserRg(acc[t].rg)] /\ acc'[t].i = acc[t].i /\ acc'[t].op = acc[t].op
          /\ acc'[t].size = acc[t].size /\ acc'[t].offset = acc[t].offset
      BY <1>0, <3>1, FieldSet
    <3>3. acc[t].i = 0 BY <1>0, <3>1 DEF Good, ArgsOK
    <3>4. FromUser(t)' <=> FromUser(t) BY <3>2 DEF FromUser
    <3>5. CASE FromUser(t)
      <4>1. 0 + acc[t].size <= Size(symrg[UserRg(acc[t].rg)]) BY <2>1, <3>5 DEF Checked, Within
      <4> QED BY <1>0, <1>2, <2>1, <3>1, <3>2, <3>3, <3>4, <3>5, <4>1
    <3>6. CASE ~FromUser(t)
      <4>1. acc[t].offset + acc[t].size <= Size(symrg[UserRg(acc[t].rg)]) BY <2>1, <3>6 DEF Checked, Within
      <4>2. acc[t].size + acc[t].offset = acc[t].offset + acc[t].size BY <1>0
      <4> QED BY <1>0, <1>2, <2>1, <3>1, <3>2, <3>3, <3>4, <3>6, <4>1, <4>2
    <3> QED BY <3>5, <3>6
  <2>2. CASE ~(Checked(t) /\ acc[t].size > 0) BY <1>1, <1>3, <2>2 DEF CheckCopy
  <2> QED BY <2>1, <2>2
<1>4. ASSUME pc[t] \in {"user", "kernel"}
      PROVE  /\ acc[t].i < acc[t].size
             /\ acc[t].size + (IF FromUser(t) THEN 0 ELSE acc[t].offset) <= Size(acc[t].seen)
  BY <1>0, <1>4 DEF Good, ArgsOK
<1>5. ASSUME pc[t] \in {"user", "kernel"}, NextByte(t) PROVE Good(t)'
  <2>1. CASE acc[t].i + 1 = acc[t].size BY <1>1, <1>5, <2>1 DEF NextByte
  <2>2. CASE acc[t].i + 1 # acc[t].size
    <3>1. /\ pc'[t] = IF FromUser(t) THEN "user" ELSE "kernel"
          /\ acc' = [acc EXCEPT ![t].i = acc[t].i + 1]
      BY <1>0, <1>5, <2>2 DEF NextByte, Set
    <3>2. /\ acc'[t].seen = acc[t].seen /\ acc'[t].i = acc[t].i + 1 /\ acc'[t].op = acc[t].op
          /\ acc'[t].size = acc[t].size /\ acc'[t].offset = acc[t].offset
      BY <1>0, <3>1, FieldSet
    <3>3. FromUser(t)' <=> FromUser(t) BY <3>2 DEF FromUser
    <3>4. acc'[t].i < acc'[t].size BY <1>0, <1>4, <1>5, <2>2, <3>2
    <3>5. pc'[t] \in {"user", "kernel"} BY <3>1
    <3> QED BY <1>2, <1>4, <1>5, <3>2, <3>3, <3>4, <3>5
  <2> QED BY <2>1, <2>2
<1>6. ASSUME pc[t] \in {"user", "kernel"}, pc'[t] \in {"user", "kernel"}, acc' = acc PROVE Good(t)'
  BY <1>2, <1>4, <1>6 DEF FromUser
<1>7. CASE UserByte(t)
  <2>1. \/ NextByte(t)
        \/ pc' = [pc EXCEPT ![t] = "kernel"] /\ acc' = acc
    BY <1>7 DEF UserByte
  <2>2. pc[t] \in {"user", "kernel"} BY <1>7 DEF UserByte
  <2> QED BY <1>0, <1>1, <1>5, <1>6, <2>1, <2>2
<1>8. CASE UserFails(t) \/ UserOutside(t) BY <1>1, <1>8 DEF UserFails, UserOutside
<1>9. CASE KernelByte(t)
  <2>1. \/ End(t) \/ NextByte(t)
        \/ pc' = [pc EXCEPT ![t] = "user"] /\ acc' = acc
    BY <1>9 DEF KernelByte
  <2>2. pc[t] \in {"user", "kernel"} BY <1>9 DEF KernelByte
  <2> QED BY <1>0, <1>1, <1>5, <1>6, <2>1, <2>2
<1> QED BY <1>3, <1>7, <1>8, <1>9 DEF Copy

-----------------------------------------------------------------------------
(* The invariant *)

\* What holds of a CPU goes on holding while another acts: it keeps its lock, the break
\* does not move down and the pools stay.
LEMMA StaysGood ==
  ASSUME NEW u \in Thread, Good(u), pc'[u] = pc[u], acc'[u] = acc[u], acc[u] \in Acc,
         mmvm_lock = u => mmvm_lock' = u,
         sbrk \in Nat, sbrk' \in Nat, sbrk <= sbrk',
         \A k \in DOMAIN kcpooltbl : \E j \in DOMAIN kcpooltbl' : kcpooltbl'[j] = kcpooltbl[k]
  PROVE  Good(u)'
<1>1. ArgsOK(u)' BY DEF ArgsOK, Good, FromUser, ShapeOK, Size
<1>2. PoolOf(u) => PoolOf(u)' BY DEF PoolOf
<1>3. acc[u].start \in Nat /\ acc[u].size \in Nat BY AccFields
<1>4. /\ pc[u] = "grow" => acc[u].start <= sbrk'
      /\ pc[u] \in {"map", "claim"} => acc[u].start + acc[u].size <= sbrk'
  BY <1>3 DEF Good, CallOK
<1>5. CallOK(u)' BY <1>2, <1>4 DEF CallOK, Good, InKmalloc, InCache
<1> QED BY <1>1, <1>5 DEF Good

\* The parts of the invariant after a step
LEMMA Together ==
  ASSUME Sound', PagesType', kcpooltbl' \in Seq([id : PoolId, size : Nat, align : Nat]),
         pc' \in [Thread -> Labels], acc' \in [Thread -> Acc], mmvm_lock' \in Thread \cup {Nobody},
         \A u \in Thread : Good(u)', PoolsOK', FramesOK'
  PROVE  Built'
<1>1. TypeOK' BY RegionTypesNext DEF TypeOK, Sound, PagesType, Acc, Labels
<1>2. LocalsOK' BY DEF LocalsOK, Good
<1>3. BreakOK' BY DEF Sound
<1> QED BY <1>1, <1>2, <1>3 DEF Built

\* The state that init_mm and the loader leave
LEMMA InitInv == Init => IInv
<1> SUFFICES ASSUME Init PROVE IInv OBVIOUS
<1>0. /\ symrg = [r \in RgId |-> Empty] /\ freerg = <<Empty>> /\ sbrk = 0 /\ lost = {}
      /\ pgd = [p \in Page |-> None] /\ ramfree = RamFree /\ fifo_pgn = <<>>
      /\ forgotten = {} /\ relisted = FALSE /\ kcpooltbl = <<>>
      /\ mmvm_lock = Nobody /\ pc = [t \in Thread |-> "idle"] /\ acc = [t \in Thread |-> Idle]
  BY DEF Init, R!Init, R!Empty, Empty
<1>1. Empty \in Rg /\ Bytes(Empty) = {} /\ Empty.end = 0 BY DEF Empty, Rg, Bytes
<1>2. Sound
  <2>1. freerg \in Seq(Rg) BY <1>0, <1>1
  <2>2. symrg \in [RgId -> Rg] BY <1>0, <1>1
  <2>3. BreakOK BY <1>0, <1>1, KMemAssumption DEF BreakOK, KMemAssumption
  <2> QED BY <1>0, <2>1, <2>2, <2>3 DEF Sound
<1>3. PagesType
  <2>1. RamFree \in Seq(Nat) BY KMemAssumption DEF KMemAssumption
  <2>2. RamFree \in Seq(Frame) BY <2>1 DEF Frame
  <2> DEFINE E == Frame \cup {None, Swapped}
  <2>3. None \in E OBVIOUS
  <2> HIDE DEF E
  <2>4. pgd \in [Page -> E] BY <1>0, <2>3
  <2>5. fifo_pgn \in Seq(Page)
    <3>1. fifo_pgn = <<>> BY <1>0
    <3> QED BY <3>1
  <2>6. forgotten \subseteq Frame /\ relisted \in BOOLEAN
    <3>1. forgotten = {} /\ relisted = FALSE BY <1>0
    <3> QED BY <3>1
  <2> QED BY <1>0, <2>2, <2>4, <2>5, <2>6 DEF PagesType, E
<1>4. acc \in [Thread -> Acc] /\ pc \in [Thread -> Labels] BY <1>0, IdleType DEF Labels
<1>5. TypeOK
  <2>1. R!TypeOK BY <1>2, RegionTypes DEF Sound
  <2>2. kcpooltbl \in Seq([id : PoolId, size : Nat, align : Nat]) BY <1>0
  <2>3. mmvm_lock \in Thread \cup {Nobody} BY <1>0
  <2> QED BY <1>3, <1>4, <2>1, <2>2, <2>3 DEF TypeOK, PagesType, Acc, Labels
<1>6. \A t \in Thread : pc[t] = "idle" BY <1>0
<1>7. LocalsOK /\ SavedOK BY <1>6 DEF LocalsOK, SavedOK, InKmalloc, InCache, CallOK, ArgsOK
<1>8. PoolsOK /\ BreakOK BY <1>0, <1>2 DEF PoolsOK, Sound
<1>9. /\ \A r \in RgId : Bytes(symrg[r]) = {} /\ symrg[r].end = 0
      /\ \A i \in DOMAIN freerg : i = 1 /\ Bytes(freerg[i]) = {} /\ freerg[i].end = 0
  BY <1>0, <1>1
<1>10. Disjoint BY <1>0, <1>9 DEF Disjoint
<1>11. NoOverlap
  <2>1. R!NoOverlap BY <1>2, <1>10, RegionsDisjoint DEF Sound
  <2>2. \A t \in Thread : Taken(t) = {} BY <1>6 DEF Taken, At
  <2> QED BY <1>0, <1>9, <2>1, <2>2 DEF NoOverlap
<1>12. NothingLost BY <1>0 DEF NothingLost
<1>13. FramesOK
  <2>1. \A i, j \in DOMAIN RamFree : RamFree[i] = RamFree[j] => i = j
    BY KMemAssumption DEF KMemAssumption
  <2>2. \A i \in DOMAIN RamFree : RamFree[i] # None BY Marks DEF Frame
  <2>3. \A p \in Page : pgd[p] = None BY <1>0
  <2>4. FramesKnown BY <1>0, <2>1, <2>2, <2>3, Marks DEF FramesKnown
  <2>5. ListOK BY <1>0 DEF ListOK
  <2> QED BY <2>4, <2>5 DEF FramesOK
<1> QED BY <1>5, <1>7, <1>8, <1>11, <1>12, <1>13 DEF IInv, Built

\* Every step of any CPU keeps Built.
LEMMA BuiltStep ==
  ASSUME Built, NEW t \in Thread, Call(t) \/ Step(t)
  PROVE  Built'
<1>1. TypeOK /\ LocalsOK /\ PoolsOK /\ BreakOK BY DEF Built
<1>2. /\ pc' \in [Thread -> Labels] /\ acc' \in [Thread -> Acc]
      /\ mmvm_lock' \in Thread \cup {Nobody}
      /\ \A u \in Thread : u # t => pc'[u] = pc[u] /\ acc'[u] = acc[u]
  BY <1>1, MoveStep
<1>3. Sound' /\ sbrk \in Nat /\ sbrk' \in Nat /\ sbrk <= sbrk' BY <1>1, SoundStep, TypeFacts
<1>4. /\ kcpooltbl' \in Seq([id : PoolId, size : Nat, align : Nat]) /\ PoolsOK'
      /\ \A k \in DOMAIN kcpooltbl : \E j \in DOMAIN kcpooltbl' : kcpooltbl'[j] = kcpooltbl[k]
  BY PoolStep
<1>5. Good(t)' BY CallGood, KmallocGood, CacheGood, CopyGood DEF Step
<1>6. ASSUME NEW u \in Thread, u # t PROVE Good(u)'
  <2>1. Good(u) /\ acc[u] \in Acc BY <1>1, TypeFacts DEF LocalsOK, Good
  <2>2. mmvm_lock = u => mmvm_lock' = u BY <1>6, LockKept
  <2> QED BY <1>2, <1>3, <1>4, <1>6, <2>1, <2>2, StaysGood
<1>7. PagesType' /\ FramesOK' BY PageStep
<1> QED BY <1>2, <1>3, <1>4, <1>5, <1>6, <1>7, Together

\* A step that changes nothing keeps the invariants.
LEMMA Stutter ==
  ASSUME UNCHANGED vars
  PROVE  (Built => Built') /\ (IInv => IInv')
<1>1. /\ symrg' = symrg /\ freerg' = freerg /\ sbrk' = sbrk /\ lost' = lost
      /\ pgd' = pgd /\ ramfree' = ramfree /\ fifo_pgn' = fifo_pgn
      /\ forgotten' = forgotten /\ relisted' = relisted /\ kcpooltbl' = kcpooltbl /\ mmvm_lock' = mmvm_lock /\ pc' = pc /\ acc' = acc
  BY DEF vars, regions, pages
<1>2. ASSUME Built PROVE Built'
  <2>1. TypeOK /\ LocalsOK /\ PoolsOK /\ BreakOK /\ FramesOK BY <1>2 DEF Built
  <2>3. Sound' BY <1>1, <2>1, TypeFacts DEF Sound, BreakOK
  <2>4. PagesType' BY <1>1, <2>1 DEF TypeOK, PagesType
  <2>5. /\ pc' \in [Thread -> Labels] /\ acc' \in [Thread -> Acc]
        /\ mmvm_lock' \in Thread \cup {Nobody}
        /\ kcpooltbl' \in Seq([id : PoolId, size : Nat, align : Nat])
    BY <1>1, <2>1, TypeFacts DEF TypeOK
  <2>6. ASSUME NEW u \in Thread PROVE Good(u)'
    <3>1. Good(u) /\ acc[u] \in Acc /\ sbrk \in Nat BY <2>1, TypeFacts DEF LocalsOK, Good
    <3> QED BY <1>1, <3>1, StaysGood
  <2>7. PoolsOK' /\ FramesOK' BY <1>1, <2>1 DEF PoolsOK, FramesOK, FramesKnown, ListOK
  <2> QED BY <2>3, <2>4, <2>5, <2>6, <2>7, Together
<1>3. ASSUME IInv PROVE IInv'
  <2>1. Built /\ TypeOK /\ BreakOK /\ NoOverlap /\ NothingLost /\ SavedOK BY <1>3 DEF IInv, Built
  <2>2. Sound BY <2>1, TypeFacts DEF Sound
  <2>3. \A u \in Thread : Taken(u)' = Taken(u) BY <1>1 DEF Taken, At
  <2>4. NoOverlap' /\ NothingLost' BY <1>1, <2>1, <2>2, <2>3, RegionsSame DEF regions
  <2>5. SavedOK' BY <1>1, <2>1 DEF SavedOK
  <2> QED BY <1>2, <2>1, <2>4, <2>5 DEF IInv
<1> QED BY <1>2, <1>3

\* Within the model, in which a search of the free list is one step, Built holds without
\* Exclusion.
LEMMA BuiltInductive == Spec => []Built
<1>1. Init => Built BY InitInv DEF IInv
<1>2. Built /\ [Next]_vars => Built' BY BuiltStep, Stutter DEF Next
<1> QED BY <1>1, <1>2, PTL DEF Spec

\* libmem.c: every operation on the regions, the frames and the pools, of any number of
\* CPUs, keeps the invariant, if no other CPU allocates during a cache allocation.
THEOREM Inductive ==
  ASSUME Exclusion
  PROVE  Spec => []IInv
<1>1. ASSUME IInv, Next PROVE IInv'
  <2>1. PICK t \in Thread : Call(t) \/ Step(t) BY <1>1 DEF Next
  <2>2. Built' BY <1>1, <2>1, BuiltStep DEF IInv
  <2>3. SavedOK' BY <1>1, <2>1, SavedStep
  <2>4. NoOverlap' /\ NothingLost' BY <1>1, <2>1, RegionStep
  <2> QED BY <2>2, <2>3, <2>4 DEF IInv
<1>2. IInv /\ [Next]_vars => IInv' BY <1>1, Stutter
<1> QED BY <1>2, InitInv, PTL DEF Spec

-----------------------------------------------------------------------------
(* What the lock and the shape of the pools give by themselves *)

\* mmvm_lock around __kmalloc: one CPU at most is in it.
THEOREM KmallocExcludes == Spec => [](\A t, u \in Thread : InKmalloc(t) /\ InKmalloc(u) => t = u)
<1> DEFINE One == \A t, u \in Thread : InKmalloc(t) /\ InKmalloc(u) => t = u
<1>1. Built => One BY DEF Built, LocalsOK, CallOK
<1> QED BY <1>1, BuiltInductive, PTL

\* __kmem_cache_alloc: the slot it records holds an object of the pool and is a
\* multiple of its alignment.
THEOREM SlotIsWhole == Spec => []SlotWhole
<1>1. ASSUME Built PROVE SlotWhole
  <2> SUFFICES ASSUME NEW t \in Thread, At(t, "claim")
               PROVE  \E i \in DOMAIN kcpooltbl :
                        /\ kcpooltbl[i].id = acc[t].id
                        /\ acc[t].size >= kcpooltbl[i].size
                        /\ acc[t].size % kcpooltbl[i].align = 0
    BY DEF SlotWhole
  <2>1. PoolOf(t) BY <1>1 DEF Built, LocalsOK, CallOK, At
  <2>2. PICK i \in DOMAIN kcpooltbl :
          kcpooltbl[i].id = acc[t].id /\ acc[t].size = SlotSize(kcpooltbl[i])
    BY <2>1 DEF PoolOf
  <2>3. /\ kcpooltbl[i].size \in Nat /\ kcpooltbl[i].align \in Nat /\ kcpooltbl[i].align > 0
    BY <1>1, PoolFields DEF Built
  <2>4. /\ SlotSize(kcpooltbl[i]) >= kcpooltbl[i].size
        /\ SlotSize(kcpooltbl[i]) % kcpooltbl[i].align = 0
    BY <2>3, SlotFacts
  <2> QED BY <2>2, <2>4
<1> QED BY <1>1, BuiltInductive, PTL

-----------------------------------------------------------------------------
(* The properties that need a cache allocation to exclude the other allocations *)

\* The variables of the kernel allocations keep their types.
THEOREM KMemTypes ==
  ASSUME Exclusion
  PROVE  Spec => []TypeOK
<1>1. IInv => TypeOK BY DEF IInv, Built
<1> QED BY <1>1, Inductive, PTL

\* __alloc, __free, __kmalloc and __kmem_cache_alloc, which takes its bytes from a break
\* that it read before: what is in a region, on the free list or given to the kernel is
\* below the break.
THEOREM NothingPastBreak ==
  ASSUME Exclusion
  PROVE  Spec => []BreakOK
<1>1. IInv => BreakOK BY DEF IInv, Built
<1> QED BY <1>1, Inductive, PTL

\* The loop of __kmalloc over MEMPHY_get_freefp, and pg_getpage under the copies: every
\* frame is accounted for and has one owner, also when a call stops half-way, as long as
\* no page has come to be on the FIFO list twice.
THEOREM FramesOwned ==
  ASSUME Exclusion
  PROVE  Spec => []FramesKnown
<1>1. IInv => FramesKnown BY DEF IInv, Built, FramesOK
<1> QED BY <1>1, Inductive, PTL

\* libkmem_copy_from_user and libkmem_copy_to_user: a copy touches no kernel byte past
\* the region it has checked, as long as the entry it looks up is still that region.
THEOREM CopyStaysInside ==
  ASSUME Exclusion
  PROVE  Spec => []CopyInside
<1>1. ASSUME Built PROVE CopyInside
  <2> SUFFICES ASSUME NEW t \in Thread, At(t, "kernel")
               PROVE  KernelOffset(t) < Size(acc[t].seen)
    BY DEF CopyInside
  <2>1. /\ acc[t].i < acc[t].size
        /\ acc[t].size + (IF FromUser(t) THEN 0 ELSE acc[t].offset) <= Size(acc[t].seen)
    BY <1>1 DEF Built, LocalsOK, ArgsOK, At
  <2>2. /\ acc[t].i \in Nat /\ acc[t].size \in Nat /\ acc[t].offset \in Nat
        /\ acc[t].seen.start \in Nat /\ acc[t].seen.end \in Nat
    BY <1>1, TypeFacts, AccFields DEF Built, Rg
  <2> QED BY <2>1, <2>2 DEF KernelOffset, Size
<1>2. IInv => CopyInside BY <1>1 DEF IInv
<1> QED BY <1>2, Inductive, PTL

\* __alloc, __free, __kmalloc and __kmem_cache_alloc: no address below the break is in
\* two regions, or in a region and free, or given to the kernel and to a user.
THEOREM NothingTwice ==
  ASSUME Exclusion
  PROVE  Spec => []NoOverlap
<1>1. IInv => NoOverlap BY DEF IInv
<1> QED BY <1>1, Inductive, PTL

\* The same operations lose no address but on the ways counted.
THEOREM EveryAddressKnown ==
  ASSUME Exclusion
  PROVE  Spec => []NothingLost
<1>1. IInv => NothingLost BY DEF IInv
<1> QED BY <1>1, Inductive, PTL
=============================================================================

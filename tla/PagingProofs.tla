----------------------------- MODULE PagingProofs -----------------------------
(***************************************************************************)
(* Proofs about Paging for any number of CPUs, pages, frames and values,   *)
(* every access taking mmvm_lock.  A call works with pages and frames that *)
(* exist.  If a page in swap is not PRESENT, no frame is lost or shared    *)
(* and an access finds its page.  As built, with pages of __kmalloc only,  *)
(* an access finds its page too: the page in frame 0 of RAM faults once.   *)
(***************************************************************************)
EXTENDS PagingInv, PteProofs, FunctionTheorems, FiniteSetTheorems

-----------------------------------------------------------------------------
(* Entries *)

\* PRESENT cleared, or not: the rest of the entry says what it said.
LEMMA InSwapFacts ==
  ASSUME NEW w \in Pte, Present(w), Swapped(w)
  PROVE  /\ InSwap(w) \in Pte /\ Swapped(InSwap(w)) /\ Swp(InSwap(w)) = Swp(w)
         /\ Present(InSwap(w)) <=> KeepsPresent
<1>1. KeepsPresent \in BOOLEAN BY PagingAssumption DEF PagingAssumption
<1>2. CASE KeepsPresent BY <1>2 DEF InSwap
<1>3. CASE ~KeepsPresent
  <2>1. InSwap(w) = w \ {31} BY <1>3 DEF InSwap, ClrBit, PRESENT, Bit
  <2>2. (w \ {31}) \cap SWPOFF = w \cap SWPOFF BY DEF SWPOFF, GenMask
  <2> QED BY <1>3, <2>1, <2>2
          DEF Pte, Present, Swapped, PRESENT, SWAPPED, Bit, Swp, GetVal
<1> QED BY <1>1, <1>2, <1>3

\* What pte_set_swap writes
LEMMA SwapEntry ==
  ASSUME NEW pte \in Pte, NEW off \in SwapOffset
  PROVE  LET e == InSwap(WithSwap(pte, {}, off))
         IN e \in Pte /\ Swapped(e) /\ Swp(e) = off /\ (Present(e) <=> KeepsPresent)
BY SwapRoundTrip, InSwapFacts

\* What init_pte writes for a page in RAM, unless its frame is 0
LEMMA NewRamEntry ==
  ASSUME NEW fpn \in FrameNumber, fpn # {}
  PROVE  LET e == InitPte({}, TRUE, fpn, FALSE, {}, {})
         IN e \in Pte /\ Present(e) /\ ~Swapped(e) /\ Fpn(e) = fpn
<1> DEFINE e == InitPte({}, TRUE, fpn, FALSE, {}, {})
<1>1. Present(e) /\ ~Swapped(e) /\ Fpn(e) = fpn BY InitPteOnline
<1>2. e \in Pte
  BY DEF InitPte, InitPteOk, SetVal, SetBit, ClrBit, Pte, PRESENT, FPN, GenMask, Bit
<1> QED BY <1>1, <1>2

\* And what it leaves if it is
LEMMA EmptyEntry ==
  /\ InitPte({}, TRUE, {}, FALSE, {}, {}) = {} /\ {} \in Pte
  /\ ~Present({}) /\ ~Swapped({}) /\ Swp({}) = {}
<1>1. InitPte({}, TRUE, {}, FALSE, {}, {}) = {} BY DEF InitPte, InitPteOk
<1>2. {} \in Pte BY DEF Pte
<1>3. ~Present({}) /\ ~Swapped({}) BY DEF Present, Swapped, PRESENT, SWAPPED, Bit
<1>4. Swp({}) = {} BY DEF Swp, GetVal, Shr
<1> QED BY <1>1, <1>2, <1>3, <1>4

-----------------------------------------------------------------------------
(* Who acts *)

\* Only one CPU is in a call.
LEMMA Others ==
  ASSUME CallOK, NEW t \in Thread, pc[t] # "idle"
  PROVE  mmvm_lock = t /\ \A u \in Thread : u # t => pc[u] = "idle"
BY DEF CallOK

\* And none, if the lock is free.
LEMMA NoCalls ==
  ASSUME CallOK, mmvm_lock = Nobody
  PROVE  \A u \in Thread : pc[u] = "idle"
BY PagingAssumption DEF CallOK, PagingAssumption

\* The arguments and locals of a call
Acc == [op : Ops \cup {""}, pgn : Page \cup {NoPage}, val : Val, pte : Pte,
        vicpgn : Page \cup {NoPage}, vicfpn : FrameNumber,
        swpfpn : SwpFrame \cup {{}}, fpn : FrameNumber, seen : Seq(SwpFrame)]

\* Setting a local keeps their type; stated for any types of the fields.
LEMMA SetLocal ==
  ASSUME NEW Th, NEW t \in Th, NEW Op, NEW P, NEW V, NEW E, NEW F, NEW S, NEW L,
         NEW a \in [Th -> [op : Op, pgn : P, val : V, pte : E, vicpgn : P, vicfpn : F,
                           swpfpn : S, fpn : F, seen : L]],
         NEW x
  PROVE  LET A == [Th -> [op : Op, pgn : P, val : V, pte : E, vicpgn : P, vicfpn : F,
                         swpfpn : S, fpn : F, seen : L]]
         IN /\ x \in E => [a EXCEPT ![t].pte = x] \in A
            /\ x \in P => [a EXCEPT ![t].vicpgn = x] \in A
            /\ x \in F => [a EXCEPT ![t].vicfpn = x] \in A /\ [a EXCEPT ![t].fpn = x] \in A
            /\ x \in S => [a EXCEPT ![t].swpfpn = x] \in A
            /\ x \in L => [a EXCEPT ![t].seen = x] \in A
OBVIOUS

\* The same for the calls of Paging
LEMMA SetAcc ==
  ASSUME acc \in [Thread -> Acc], NEW t \in Thread, NEW x
  PROVE  /\ x \in Pte => [acc EXCEPT ![t].pte = x] \in [Thread -> Acc]
         /\ x \in Page => [acc EXCEPT ![t].vicpgn = x] \in [Thread -> Acc]
         /\ x \in FrameNumber => /\ [acc EXCEPT ![t].vicfpn = x] \in [Thread -> Acc]
                                /\ [acc EXCEPT ![t].fpn = x] \in [Thread -> Acc]
         /\ x \in SwpFrame => [acc EXCEPT ![t].swpfpn = x] \in [Thread -> Acc]
         /\ x \in Seq(SwpFrame) => [acc EXCEPT ![t].seen = x] \in [Thread -> Acc]
<1> DEFINE Op == Ops \cup {""}
           P == Page \cup {NoPage}
           S == SwpFrame \cup {{}}
           L == Seq(SwpFrame)
<1>1. (x \in Page => x \in P) /\ (x \in SwpFrame => x \in S) OBVIOUS
<1>2. Acc = [op : Op, pgn : P, val : Val, pte : Pte, vicpgn : P, vicfpn : FrameNumber,
             swpfpn : S, fpn : FrameNumber, seen : L]
  BY DEF Acc
<1> HIDE DEF Op, P, S, L
<1>3. /\ x \in Pte => [acc EXCEPT ![t].pte = x] \in [Thread -> Acc]
      /\ x \in P => [acc EXCEPT ![t].vicpgn = x] \in [Thread -> Acc]
      /\ x \in FrameNumber => /\ [acc EXCEPT ![t].vicfpn = x] \in [Thread -> Acc]
                              /\ [acc EXCEPT ![t].fpn = x] \in [Thread -> Acc]
      /\ x \in S => [acc EXCEPT ![t].swpfpn = x] \in [Thread -> Acc]
      /\ x \in L => [acc EXCEPT ![t].seen = x] \in [Thread -> Acc]
  BY <1>2, SetLocal
<1> QED BY <1>1, <1>3 DEF L

\* The locals of a CPU that is in no call
LEMMA IdleType == Idle \in Acc
<1>1. Zero \in Val /\ {} \in Pte /\ {} \in FrameNumber /\ <<>> \in Seq(SwpFrame)
  BY PagingAssumption DEF PagingAssumption, Pte, FrameNumber
<1> QED BY <1>1 DEF Idle, Acc

\* The types of the two fields of an entry
LEMMA FieldTypes ==
  ASSUME NEW pte \in Pte
  PROVE  Fpn(pte) \in FrameNumber /\ Swp(pte) \in SwapOffset
<1>1. Fpn(pte) \in FrameNumber
  BY DEF Fpn, GetVal, Shr, FPN, GenMask, FrameNumber
<1>2. Swp(pte) \in SwapOffset
  BY DEF Swp, GetVal, Shr, SWPOFF, GenMask, SwapOffset
<1> QED BY <1>1, <1>2

\* The types that the steps below need
LEMMA TypeFacts ==
  ASSUME TypeOK
  PROVE  /\ acc \in [Thread -> Acc] /\ pc \in [Thread -> Labels] /\ pgd \in [Page -> Pte]
         /\ ret \in [Thread -> Val \cup {Pending, Done, Failed}]
         /\ RamFrame \subseteq FrameNumber /\ SwpFrame \subseteq SwapOffset
         /\ claimed \subseteq Page /\ NoPage \notin claimed
         /\ \A t \in Thread : acc[t] \in Acc
BY PagingAssumption DEF TypeOK, Acc, PagingAssumption

-----------------------------------------------------------------------------
(* Types *)

\* Every step keeps the types.
LEMMA TypeStep ==
  ASSUME Ranges, [Next]_vars
  PROVE  TypeOK'
<1> USE DEF At, Goto, devices
<1>0. TypeOK BY DEF Ranges
<1>a. /\ acc \in [Thread -> Acc] /\ pc \in [Thread -> Labels] /\ pgd \in [Page -> Pte]
      /\ ret \in [Thread -> Val \cup {Pending, Done, Failed}]
      /\ RamFrame \subseteq FrameNumber /\ SwpFrame \subseteq SwapOffset
      /\ claimed \subseteq Page
      /\ mmvm_lock \in Thread \cup {Nobody} /\ stranded \subseteq claimed
      /\ fifo_pgn \in Seq(Page) /\ ram \in [RamFrame -> Val] /\ ramfree \in Seq(RamFrame)
      /\ swp \in [SwpFrame -> Val] /\ swpfree \in Seq(SwpFrame)
  BY <1>0, TypeFacts DEF TypeOK
<1>b. ASSUME acc' \in [Thread -> Acc], pc' \in [Thread -> Labels], pgd' \in [Page -> Pte],
             ret' \in [Thread -> Val \cup {Pending, Done, Failed}],
             mmvm_lock' \in Thread \cup {Nobody}, claimed' \subseteq Page, stranded' \subseteq claimed',
             fifo_pgn' \in Seq(Page), ram' \in [RamFrame -> Val], ramfree' \in Seq(RamFrame),
             swp' \in [SwpFrame -> Val], swpfree' \in Seq(SwpFrame)
      PROVE  TypeOK'
  BY <1>b DEF TypeOK, Acc
<1>g. ASSUME NEW t \in Thread, GiveUp(t)
      PROVE  /\ ret' \in [Thread -> Val \cup {Pending, Done, Failed}]
             /\ pc' \in [Thread -> Labels] /\ acc' \in [Thread -> Acc]
  BY <1>a, <1>g DEF GiveUp, Labels
<1>1. ASSUME NEW p \in Page, MapRam(p) PROVE TypeOK'
  <2>1. /\ ramfree' = Tail(ramfree) /\ ramfree # <<>> /\ fifo_pgn' = <<p>> \o fifo_pgn
        /\ pgd' = [pgd EXCEPT ![p] = InitPte({}, TRUE, Head(ramfree), FALSE, {}, {})]
        /\ claimed' = claimed \cup {p}
        /\ UNCHANGED <<ram, swp, swpfree, mmvm_lock, pc, acc, ret, stranded>>
    BY <1>1 DEF MapRam, SetEntry, Ram!GetFreeFp, EnlistPgn
  <2>2. Head(ramfree) \in RamFrame /\ Tail(ramfree) \in Seq(RamFrame) BY <1>a, <2>1
  <2>3. InitPte({}, TRUE, Head(ramfree), FALSE, {}, {}) \in Pte
    <3>1. CASE Head(ramfree) = {} BY <3>1, EmptyEntry
    <3>2. CASE Head(ramfree) # {} BY <1>a, <2>2, <3>2, NewRamEntry
    <3> QED BY <3>1, <3>2
  <2>4. pgd' \in [Page -> Pte] BY <1>a, <2>1, <2>3
  <2>5. fifo_pgn' \in Seq(Page) BY <1>a, <2>1
  <2> QED BY <1>a, <1>b, <2>1, <2>2, <2>4, <2>5
<1>3. ASSUME NEW t \in Thread, Call(t) PROVE TypeOK'
  <2>1. PICK op \in Ops, p \in claimed \cup {NoPage}, v \in Val :
          /\ acc' = [acc EXCEPT ![t] = [Idle EXCEPT !.op = op, !.pgn = p, !.val = v]]
          /\ mmvm_lock' = t \/ mmvm_lock' = mmvm_lock
    BY <1>3 DEF Call
  <2>2. [Idle EXCEPT !.op = op, !.pgn = p, !.val = v] \in Acc BY <1>a, IdleType DEF Acc
  <2>3. acc' \in [Thread -> Acc] BY <1>a, <2>1, <2>2
  <2>4. pc' = [pc EXCEPT ![t] = "check"] /\ UNCHANGED <<pgd, fifo_pgn, devices, ret, claimed, stranded>>
    BY <1>3 DEF Call
  <2>5. pc' \in [Thread -> Labels] BY <1>a, <2>4 DEF Labels
  <2> QED BY <1>a, <1>b, <2>1, <2>3, <2>4, <2>5
<1>4. ASSUME NEW t \in Thread, Check(t) PROVE TypeOK'
  <2>1. UNCHANGED <<pgd, fifo_pgn, devices, mmvm_lock, claimed, stranded>> BY <1>4 DEF Check
  <2>2. CASE GiveUp(t) BY <1>a, <1>b, <1>g, <2>1, <2>2
  <2>3. CASE ~GiveUp(t)
    <3>1. /\ acc' = [acc EXCEPT ![t].pte = pgd[acc[t].pgn]] /\ acc[t].pgn # NoPage
          /\ pc' = [pc EXCEPT ![t] = "frame"] \/ pc' = [pc EXCEPT ![t] = "victim"]
          /\ ret' = ret
      BY <1>4, <2>3 DEF Check, Set
    <3>2. pgd[acc[t].pgn] \in Pte BY <1>a, <3>1 DEF Acc
    <3>3. acc' \in [Thread -> Acc] BY <1>a, <3>1, <3>2, SetAcc
    <3>4. pc' \in [Thread -> Labels] BY <1>a, <3>1 DEF Labels
    <3> QED BY <1>a, <1>b, <2>1, <3>1, <3>3, <3>4
  <2> QED BY <2>2, <2>3
<1>5. ASSUME NEW t \in Thread, FindVictim(t) PROVE TypeOK'
  <2>1. UNCHANGED <<pgd, devices, mmvm_lock, claimed, stranded>> BY <1>5 DEF FindVictim
  <2>2. CASE Victimless(fifo_pgn)
    <3>1. GiveUp(t) /\ UNCHANGED fifo_pgn BY <1>5, <2>2 DEF FindVictim
    <3> QED BY <1>a, <1>b, <1>g, <2>1, <3>1
  <2>3. CASE ~Victimless(fifo_pgn)
    <3>1. /\ acc' = [acc EXCEPT ![t].vicpgn = fifo_pgn[Len(fifo_pgn)]]
          /\ fifo_pgn' = SubSeq(fifo_pgn, 1, Len(fifo_pgn) - 1)
          /\ pc' = [pc EXCEPT ![t] = "getswp"] /\ ret' = ret
      BY <1>5, <2>3 DEF FindVictim, Set
    <3>2. Len(fifo_pgn) \in Nat /\ Len(fifo_pgn) >= 2 BY <1>a, <2>3 DEF Victimless
    <3>3. fifo_pgn[Len(fifo_pgn)] \in Page /\ fifo_pgn' \in Seq(Page) BY <1>a, <3>1, <3>2
    <3>4. acc' \in [Thread -> Acc] BY <1>a, <3>1, <3>3, SetAcc
    <3>5. pc' \in [Thread -> Labels] BY <1>a, <3>1 DEF Labels
    <3> QED BY <1>a, <1>b, <2>1, <3>1, <3>3, <3>4, <3>5
  <2> QED BY <2>2, <2>3
<1>6. ASSUME NEW t \in Thread, ReadSwapHead(t) PROVE TypeOK'
  <2>1. UNCHANGED <<pgd, fifo_pgn, devices, mmvm_lock, claimed>> BY <1>6 DEF ReadSwapHead
  <2>2. CASE swpfree = <<>>
    <3>1. GiveUp(t) /\ stranded' = stranded \cup {acc[t].vicpgn} BY <1>6, <2>2 DEF ReadSwapHead
    <3>2. acc[t].vicpgn \in claimed BY <1>6 DEF ReadSwapHead, Ranges, RangeOK, HasVictim
    <3>3. stranded' \subseteq claimed' BY <1>a, <2>1, <3>1, <3>2
    <3> QED BY <1>a, <1>b, <1>g, <2>1, <3>1, <3>3
  <2>3. CASE swpfree # <<>>
    <3>1. /\ acc' = [acc EXCEPT ![t].seen = swpfree] /\ pc' = [pc EXCEPT ![t] = "takeswp"]
          /\ UNCHANGED <<ret, stranded>>
      BY <1>6, <2>3 DEF ReadSwapHead, Set
    <3>2. acc' \in [Thread -> Acc] BY <1>a, <3>1, SetAcc
    <3>3. pc' \in [Thread -> Labels] BY <1>a, <3>1 DEF Labels
    <3> QED BY <1>a, <1>b, <2>1, <3>1, <3>2, <3>3
  <2> QED BY <2>2, <2>3
<1>7. ASSUME NEW t \in Thread, TakeSwap(t) PROVE TypeOK'
  <2>1. /\ swpfree' = Tail(acc[t].seen) /\ acc' = [acc EXCEPT ![t].swpfpn = Head(acc[t].seen)]
        /\ pc' = [pc EXCEPT ![t] = "swapout"]
        /\ UNCHANGED <<pgd, fifo_pgn, ram, ramfree, swp, mmvm_lock, ret, claimed, stranded>>
    BY <1>7 DEF TakeSwap, Mswp!GetFreeFp, Set
  <2>2. acc[t].seen # <<>> /\ acc[t].seen \in Seq(SwpFrame)
    BY <1>7, <1>a DEF TakeSwap, Ranges, RangeOK, Acc
  <2>3. Head(acc[t].seen) \in SwpFrame /\ swpfree' \in Seq(SwpFrame) BY <2>1, <2>2
  <2>4. acc' \in [Thread -> Acc] BY <1>a, <2>1, <2>3, SetAcc
  <2>5. pc' \in [Thread -> Labels] BY <1>a, <2>1 DEF Labels
  <2> QED BY <1>a, <1>b, <2>1, <2>3, <2>4, <2>5
<1>8. ASSUME NEW t \in Thread, SwapOut(t) PROVE TypeOK'
  <2>1. /\ acc' = [acc EXCEPT ![t].vicfpn = Fpn(pgd[acc[t].vicpgn])]
        /\ SysSwap(t, Fpn(pgd[acc[t].vicpgn]), acc[t].swpfpn)
        /\ pc' = [pc EXCEPT ![t] = "setswap"]
        /\ UNCHANGED <<pgd, fifo_pgn, ramfree, swpfree, mmvm_lock, ret, claimed, stranded>>
    BY <1>8 DEF SwapOut, Set
  <2>2. acc[t].vicpgn \in claimed BY <1>8 DEF SwapOut, Ranges, RangeOK, HasVictim
  <2>3. Fpn(pgd[acc[t].vicpgn]) \in FrameNumber BY <1>a, <2>2, FieldTypes
  <2>4. ram' = ram /\ swp' \in [SwpFrame -> Val]
    BY <1>a, <2>1 DEF SysSwap, Ram!Read, Ram!Answers, Mswp!Write, Mswp!Answers
  <2>5. acc' \in [Thread -> Acc] BY <1>a, <2>1, <2>3, SetAcc
  <2>6. pc' \in [Thread -> Labels] BY <1>a, <2>1 DEF Labels
  <2> QED BY <1>a, <1>b, <2>1, <2>4, <2>5, <2>6
<1>9. ASSUME NEW t \in Thread, SetSwap(t) PROVE TypeOK'
  <2>1. /\ pgd' = [pgd EXCEPT ![acc[t].vicpgn]
                     = InSwap(WithSwap(pgd[acc[t].vicpgn], {}, acc[t].swpfpn))]
        /\ pc' = [pc EXCEPT ![t] = "swapin"]
        /\ UNCHANGED <<fifo_pgn, devices, mmvm_lock, acc, ret, claimed, stranded>>
    BY <1>9 DEF SetSwap, PteSetSwap, SetEntry
  <2>2. acc[t].vicpgn \in claimed /\ acc[t].swpfpn \in SwpFrame
    BY <1>9 DEF SetSwap, Ranges, RangeOK, HasVictim, HasSwap
  <2>3. InSwap(WithSwap(pgd[acc[t].vicpgn], {}, acc[t].swpfpn)) \in Pte
    BY <1>a, <2>2, SwapEntry
  <2>4. pgd' \in [Page -> Pte] BY <1>a, <2>1, <2>3
  <2>5. pc' \in [Thread -> Labels] BY <1>a, <2>1 DEF Labels
  <2> QED BY <1>a, <1>b, <2>1, <2>4, <2>5
<1>10. ASSUME NEW t \in Thread, SwapIn(t) PROVE TypeOK'
  <2>1. /\ \E v \in Mswp!Read(Source(t)) : Ram!Write(acc[t].vicfpn, v)
        /\ pc' = [pc EXCEPT ![t] = "putread"]
        /\ UNCHANGED <<pgd, fifo_pgn, ramfree, swp, swpfree, mmvm_lock, acc, ret, claimed, stranded>>
    BY <1>10 DEF SwapIn
  <2>2. ram' \in [RamFrame -> Val]
    BY <1>a, <2>1 DEF Mswp!Read, Mswp!Answers, Ram!Write, Ram!Answers
  <2>3. pc' \in [Thread -> Labels] BY <1>a, <2>1 DEF Labels
  <2> QED BY <1>a, <1>b, <2>1, <2>2, <2>3
<1>11. ASSUME NEW t \in Thread, ReadPutHead(t) PROVE TypeOK'
  <2>1. /\ acc' = [acc EXCEPT ![t].seen = swpfree] /\ pc' = [pc EXCEPT ![t] = "putlink"]
        /\ UNCHANGED <<pgd, fifo_pgn, devices, mmvm_lock, ret, claimed, stranded>>
    BY <1>11 DEF ReadPutHead, Set
  <2>2. acc' \in [Thread -> Acc] BY <1>a, <2>1, SetAcc
  <2>3. pc' \in [Thread -> Labels] BY <1>a, <2>1 DEF Labels
  <2> QED BY <1>a, <1>b, <2>1, <2>2, <2>3
<1>12. ASSUME NEW t \in Thread, LinkPut(t) PROVE TypeOK'
  <2>1. /\ swpfree' = <<Source(t)>> \o acc[t].seen /\ pc' = [pc EXCEPT ![t] = "setfpn"]
        /\ UNCHANGED <<pgd, fifo_pgn, ram, ramfree, swp, mmvm_lock, acc, ret, claimed, stranded>>
    BY <1>12 DEF LinkPut, PutSwap, Mswp!PutFreeFp
  <2>2. acc[t].seen \in Seq(SwpFrame) BY <1>a DEF Acc
  <2>3. Source(t) \in SwpFrame
    BY <1>12 DEF LinkPut, Ranges, RangeOK, Faulting
  <2>4. swpfree' \in Seq(SwpFrame) BY <2>1, <2>2, <2>3
  <2>5. pc' \in [Thread -> Labels] BY <1>a, <2>1 DEF Labels
  <2> QED BY <1>a, <1>b, <2>1, <2>4, <2>5
<1>13. ASSUME NEW t \in Thread, SetFpn(t) PROVE TypeOK'
  <2>1. /\ pgd' = [pgd EXCEPT ![acc[t].pgn] = WithFpn(pgd[acc[t].pgn], acc[t].vicfpn)]
        /\ pc' = [pc EXCEPT ![t] = "enlist"]
        /\ UNCHANGED <<fifo_pgn, devices, mmvm_lock, acc, ret, claimed, stranded>>
    BY <1>13 DEF SetFpn, PteSetFpn, SetEntry
  <2>2. acc[t].pgn \in claimed /\ acc[t].vicfpn \in FrameNumber
    BY <1>13, <1>a DEF SetFpn, Ranges, RangeOK, Faulting, Acc
  <2>3. WithFpn(pgd[acc[t].pgn], acc[t].vicfpn) \in Pte BY <1>a, <2>2, FpnRoundTrip
  <2>4. pgd' \in [Page -> Pte] BY <1>a, <2>1, <2>3
  <2>5. pc' \in [Thread -> Labels] BY <1>a, <2>1 DEF Labels
  <2> QED BY <1>a, <1>b, <2>1, <2>4, <2>5
<1>14. ASSUME NEW t \in Thread, Enlist(t) PROVE TypeOK'
  <2>1. /\ fifo_pgn' = <<acc[t].pgn>> \o fifo_pgn /\ pc' = [pc EXCEPT ![t] = "frame"]
        /\ UNCHANGED <<pgd, devices, mmvm_lock, acc, ret, claimed, stranded>>
    BY <1>14 DEF Enlist, EnlistPgn
  <2>2. acc[t].pgn \in Page BY <1>14, <1>a DEF Enlist, Ranges, RangeOK, InRam
  <2>3. fifo_pgn' \in Seq(Page) BY <1>a, <2>1, <2>2
  <2>4. pc' \in [Thread -> Labels] BY <1>a, <2>1 DEF Labels
  <2> QED BY <1>a, <1>b, <2>1, <2>3, <2>4
<1>15. ASSUME NEW t \in Thread, GetFrame(t) PROVE TypeOK'
  <2>1. /\ acc' = [acc EXCEPT ![t].fpn = Fpn(pgd[acc[t].pgn])] /\ pc' = [pc EXCEPT ![t] = "access"]
        /\ UNCHANGED <<pgd, fifo_pgn, devices, mmvm_lock, ret, claimed, stranded>>
    BY <1>15 DEF GetFrame, Set
  <2>2. acc[t].pgn \in claimed BY <1>15 DEF GetFrame, Ranges, RangeOK, InRam
  <2>3. Fpn(pgd[acc[t].pgn]) \in FrameNumber BY <1>a, <2>2, FieldTypes
  <2>4. acc' \in [Thread -> Acc] BY <1>a, <2>1, <2>3, SetAcc
  <2>5. pc' \in [Thread -> Labels] BY <1>a, <2>1 DEF Labels
  <2> QED BY <1>a, <1>b, <2>1, <2>4, <2>5
<1>16. ASSUME NEW t \in Thread, Access(t) PROVE TypeOK'
  <2>1. /\ pc' = [pc EXCEPT ![t] = "return"]
        /\ UNCHANGED <<pgd, fifo_pgn, ramfree, swp, swpfree, mmvm_lock, acc, claimed, stranded>>
    BY <1>16 DEF Access
  <2>2. pc' \in [Thread -> Labels] BY <1>a, <2>1 DEF Labels
  <2>3. CASE Reads(acc[t].op)
    <3>1. ram' = ram /\ \E v \in SysRead(t, acc[t].fpn) : ret' = [ret EXCEPT ![t] = v]
      BY <1>16, <2>3 DEF Access
    <3>2. SysRead(t, acc[t].fpn) \subseteq Val
      BY <1>a, PagingAssumption DEF SysRead, Ram!Read, Ram!Answers, PagingAssumption
    <3>3. ret' \in [Thread -> Val \cup {Pending, Done, Failed}] BY <1>a, <3>1, <3>2
    <3> QED BY <1>a, <1>b, <2>1, <2>2, <3>1, <3>3
  <2>4. CASE ~Reads(acc[t].op)
    <3>1. SysWrite(t, acc[t].fpn, acc[t].val) /\ ret' = [ret EXCEPT ![t] = Done]
      BY <1>16, <2>4 DEF Access
    <3>2. acc[t].val \in Val BY <1>a DEF Acc
    <3>3. ram' \in [RamFrame -> Val] BY <1>a, <3>1, <3>2 DEF SysWrite, Ram!Write, Ram!Answers
    <3>4. ret' \in [Thread -> Val \cup {Pending, Done, Failed}] BY <1>a, <3>1
    <3> QED BY <1>a, <1>b, <2>1, <2>2, <3>3, <3>4
  <2> QED BY <2>3, <2>4
<1>17. ASSUME NEW t \in Thread, Return(t) PROVE TypeOK'
  <2>1. /\ mmvm_lock' = Nobody \/ mmvm_lock' = mmvm_lock
        /\ ret' = [ret EXCEPT ![t] = Pending] /\ acc' = [acc EXCEPT ![t] = Idle]
        /\ pc' = [pc EXCEPT ![t] = "idle"]
        /\ UNCHANGED <<pgd, fifo_pgn, devices, claimed, stranded>>
    BY <1>17 DEF Return
  <2>2. acc' \in [Thread -> Acc] BY <1>a, <2>1, IdleType
  <2>3. pc' \in [Thread -> Labels] BY <1>a, <2>1 DEF Labels
  <2>4. ret' \in [Thread -> Val \cup {Pending, Done, Failed}] BY <1>a, <2>1
  <2> QED BY <1>a, <1>b, <2>1, <2>2, <2>3, <2>4
<1>18. CASE UNCHANGED vars BY <1>a, <1>b, <1>18 DEF vars
<1> QED BY <1>1, <1>3, <1>4, <1>5, <1>6, <1>7, <1>8, <1>9, <1>10, <1>11, <1>12,
           <1>13, <1>14, <1>15, <1>16, <1>17, <1>18 DEF Next, Step, Fault

-----------------------------------------------------------------------------
(* Control *)

\* GiveUp, the end of every access that fails
LEMMA GiveUpEffect ==
  ASSUME TypeOK, NEW t \in Thread, GiveUp(t)
  PROVE  /\ pc'[t] = "return" /\ ret'[t] = Failed /\ acc' = acc
         /\ \A u \in Thread \ {t} : pc'[u] = pc[u] /\ ret'[u] = ret[u]
BY TypeFacts DEF GiveUp, Goto

\* A step of one CPU leaves the others alone, which are idle.
LEMMA Alone ==
  ASSUME TypeOK, CallOK, NEW t \in Thread, Step(t)
  PROVE  /\ pc[t] # "idle"
         /\ \A u \in Thread \ {t} :
              pc[u] = "idle" /\ pc'[u] = "idle" /\ acc'[u] = acc[u] /\ ret'[u] = ret[u]
<1>0. TypeOK /\ CallOK OBVIOUS
<1>1. pc[t] # "idle"
  BY DEF Step, Fault, Check, FindVictim, ReadSwapHead, TakeSwap, SwapOut, SetSwap, SwapIn,
         ReadPutHead, LinkPut, SetFpn, Enlist, GetFrame, Access, Return, At
<1>2. \A u \in Thread \ {t} : pc'[u] = pc[u]
  <2>1. CASE GiveUp(t) BY <1>0, <2>1, GiveUpEffect
  <2>2. CASE ~GiveUp(t)
    <3>1. \E l \in Labels : pc' = [pc EXCEPT ![t] = l]
      BY <2>2 DEF Step, Fault, Check, FindVictim, ReadSwapHead, TakeSwap, SwapOut, SetSwap,
         SwapIn, ReadPutHead, LinkPut, SetFpn, Enlist, GetFrame, Access, Return, Goto, Labels
    <3> QED BY <1>0, <3>1, TypeFacts
  <2> QED BY <2>1, <2>2
<1>3. \A u \in Thread \ {t} : ret'[u] = ret[u]
  <2>1. ret' = ret \/ \E r : ret' = [ret EXCEPT ![t] = r]
    BY DEF Step, Fault, Check, FindVictim, ReadSwapHead, TakeSwap, SwapOut, SetSwap, SwapIn,
           ReadPutHead, LinkPut, SetFpn, Enlist, GetFrame, Access, Return, GiveUp
  <2> QED BY <1>0, <2>1, TypeFacts
<1>4. \A u \in Thread \ {t} : acc'[u] = acc[u]
  <2>1. acc' = acc \/ \E a : acc' = [acc EXCEPT ![t] = a]
    BY DEF Step, Fault, Check, FindVictim, ReadSwapHead, TakeSwap, SwapOut, SetSwap, SwapIn,
           ReadPutHead, LinkPut, SetFpn, Enlist, GetFrame, Access, Return, GiveUp, Set
  <2> QED BY <1>0, <2>1, TypeFacts
<1>5. \A u \in Thread \ {t} : pc[u] = "idle" BY <1>0, <1>1, Others
<1> QED BY <1>1, <1>2, <1>3, <1>4, <1>5

\* A call begins when nobody is in one.
LEMMA Begins ==
  ASSUME Locked, TypeOK, CallOK, NEW t \in Thread, Call(t)
  PROVE  /\ \A u \in Thread : pc[u] = "idle"
         /\ pc'[t] = "check" /\ mmvm_lock' = t /\ acc'[t].op \in Ops
         /\ \A u \in Thread \ {t} : pc'[u] = "idle" /\ acc'[u] = acc[u]
<1>0. TypeOK /\ CallOK OBVIOUS
<1>1. PICK op \in Ops, p \in claimed \cup {NoPage}, v \in Val :
        /\ acc' = [acc EXCEPT ![t] = [Idle EXCEPT !.op = op, !.pgn = p, !.val = v]]
        /\ IF Locks(op) THEN mmvm_lock = Nobody /\ mmvm_lock' = t ELSE UNCHANGED mmvm_lock
  BY DEF Call
<1>2. Locks(op) BY DEF Locks, Locked
<1>3. pc' = [pc EXCEPT ![t] = "check"] BY DEF Call, Goto
<1>4. acc'[t].op = op /\ \A u \in Thread \ {t} : acc'[u] = acc[u]
  <2>1. acc'[t] = [Idle EXCEPT !.op = op, !.pgn = p, !.val = v] BY <1>0, <1>1, TypeFacts
  <2>2. acc'[t].op = op BY <2>1 DEF Idle
  <2> QED BY <1>0, <1>1, <2>2, TypeFacts
<1>5. \A u \in Thread : pc[u] = "idle" BY <1>0, <1>1, <1>2, NoCalls
<1> QED BY <1>0, <1>1, <1>2, <1>3, <1>4, <1>5, TypeFacts

\* Every step keeps the lock with the CPU that is in a call, and its result pending.
LEMMA CallStep ==
  ASSUME Locked, TypeOK, CallOK, [Next]_vars
  PROVE  CallOK'
<1> USE DEF At, Goto
<1>0. TypeOK /\ CallOK OBVIOUS
<1>1. ASSUME NEW p \in Page, MapRam(p) PROVE CallOK' BY <1>0, <1>1 DEF MapRam, CallOK
<1>2. ASSUME NEW t \in Thread, Call(t) PROVE CallOK'
  <2>1. ret' = ret BY <1>2 DEF Call
  <2> QED BY <1>0, <1>2, <2>1, Begins DEF CallOK
<1>3. ASSUME NEW t \in Thread, Step(t) PROVE CallOK'
  <2>1. CASE Return(t)
    <3>1. pc'[t] = "idle" /\ ret'[t] = Pending BY <1>0, <2>1, TypeFacts DEF Return
    <3> QED BY <1>0, <1>3, <3>1, Alone DEF CallOK
  <2>2. CASE ~Return(t)
    <3>1. mmvm_lock' = mmvm_lock
      BY <1>3, <2>2
      DEF Step, Fault, Check, FindVictim, ReadSwapHead, TakeSwap, SwapOut, SetSwap, SwapIn,
          ReadPutHead, LinkPut, SetFpn, Enlist, GetFrame, Access, devices
    <3>2. acc'[t].op = acc[t].op
      <4>1. \/ acc' = acc
            \/ \E x : \/ acc' = [acc EXCEPT ![t].pte = x] \/ acc' = [acc EXCEPT ![t].vicpgn = x]
                      \/ acc' = [acc EXCEPT ![t].seen = x] \/ acc' = [acc EXCEPT ![t].swpfpn = x]
                      \/ acc' = [acc EXCEPT ![t].vicfpn = x] \/ acc' = [acc EXCEPT ![t].fpn = x]
        BY <1>3, <2>2
        DEF Step, Fault, Check, FindVictim, ReadSwapHead, TakeSwap, SwapOut, SetSwap, SwapIn,
            ReadPutHead, LinkPut, SetFpn, Enlist, GetFrame, Access, GiveUp, Set
      <4> QED BY <1>0, <4>1, TypeFacts DEF Acc
    <3>3. ret'[t] = Pending <=> pc'[t] # "return"
      <4>1. CASE GiveUp(t)
        BY <1>0, <4>1, GiveUpEffect, PagingAssumption DEF PagingAssumption
      <4>2. CASE Access(t)
        <5>1. pc'[t] = "return" BY <1>0, <4>2, TypeFacts DEF Access
        <5>2. \E r \in Val \cup {Done} : ret' = [ret EXCEPT ![t] = r]
          <6>0. ram \in [RamFrame -> Val] /\ Zero \in Val
            BY <1>0, PagingAssumption DEF PagingAssumption, TypeOK
          <6>1. SysRead(t, acc[t].fpn) \subseteq Val
            BY <6>0 DEF SysRead, Ram!Read, Ram!Answers
          <6> QED BY <4>2, <6>1 DEF Access
        <5>3. Pending \notin Val \cup {Done} BY PagingAssumption DEF PagingAssumption
        <5> QED BY <1>0, <5>1, <5>2, <5>3, TypeFacts
      <4>3. CASE ~GiveUp(t) /\ ~Access(t)
        <5>1. ret' = ret /\ pc[t] # "return" /\ \E l \in Labels \ {"return"} : pc' = [pc EXCEPT ![t] = l]
          BY <1>3, <2>2, <4>3
          DEF Step, Fault, Check, FindVictim, ReadSwapHead, TakeSwap, SwapOut, SetSwap, SwapIn,
              ReadPutHead, LinkPut, SetFpn, Enlist, GetFrame, Labels
        <5> QED BY <1>0, <5>1, TypeFacts DEF CallOK
      <4> QED BY <4>1, <4>2, <4>3
    <3>4. pc[t] # "idle" /\ \A u \in Thread \ {t} :
            pc[u] = "idle" /\ pc'[u] = "idle" /\ acc'[u] = acc[u] /\ ret'[u] = ret[u]
      BY <1>3, Alone
    <3> QED BY <1>0, <3>1, <3>2, <3>3, <3>4 DEF CallOK
  <2> QED BY <2>1, <2>2
<1>4. CASE UNCHANGED vars BY <1>0, <1>4 DEF vars, CallOK
<1> QED BY <1>1, <1>2, <1>3, <1>4 DEF Next

-----------------------------------------------------------------------------
(* The table and the locals *)

\* The steps that do not touch the table
LEMMA SameTable ==
  ASSUME NEW t \in Thread, Step(t), ~SetSwap(t), ~SetFpn(t)
  PROVE  pgd' = pgd
BY DEF Step, Fault, Check, FindVictim, ReadSwapHead, TakeSwap, SwapOut, SwapIn, ReadPutHead,
       LinkPut, Enlist, GetFrame, Access, Return

\* Nor does the size of the swap device change.
LEMMA SameSpace ==
  ASSUME [Next]_vars
  PROVE  swpsize' = swpsize /\ SwapSpace' = SwapSpace
<1>1. swpsize' = swpsize
  BY DEF Next, vars, devices, MapRam, Call, Step, Fault, Check, FindVictim, ReadSwapHead, TakeSwap,
         SwapOut, SetSwap, SwapIn, ReadPutHead, LinkPut, SetFpn, Enlist, GetFrame, Access, Return
<1> QED BY <1>1 DEF SwapSpace

\* A call maps no page.
LEMMA SameMapped ==
  ASSUME NEW t \in Thread, Call(t) \/ Step(t)
  PROVE  claimed' = claimed
BY DEF Call, Step, Fault, Check, FindVictim, ReadSwapHead, TakeSwap, SwapOut, SetSwap, SwapIn,
       ReadPutHead, LinkPut, SetFpn, Enlist, GetFrame, Access, Return

\* pte_set_swap on the victim
LEMMA SetSwapEffect ==
  ASSUME Sound, IInv, NEW t \in Thread, SetSwap(t)
  PROVE  LET v == acc[t].vicpgn
         IN /\ pc[t] = "setswap" /\ pc'[t] = "swapin" /\ v \in claimed /\ Online(v)
            /\ \A p \in Page \ {v} : pgd'[p] = pgd[p]
            /\ ~Present(pgd'[v]) /\ Swapped(pgd'[v]) /\ Swp(pgd'[v]) = acc[t].swpfpn
            /\ acc[t].pgn \in claimed /\ acc[t].pgn # v
            /\ UNCHANGED <<claimed, acc>>
<1> DEFINE v == acc[t].vicpgn
<1>0. TypeOK /\ AccOK /\ SwapOK BY DEF IInv
<1>1. /\ pc[t] = "setswap" /\ pc' = [pc EXCEPT ![t] = "swapin"] /\ UNCHANGED <<claimed, acc>>
      /\ pgd' = [pgd EXCEPT ![v] = InSwap(WithSwap(pgd[v], {}, acc[t].swpfpn))]
  BY DEF SetSwap, PteSetSwap, SetEntry, At, Goto
<1>2. /\ v \in claimed /\ Online(v) /\ acc[t].swpfpn \in SwpFrame
      /\ acc[t].pgn \in claimed /\ ~Online(acc[t].pgn)
  BY <1>0, <1>1 DEF AccOK, LocalsOK, HasVictim, Faulting, SwapOK, HasSwap
<1>3. v \in Page /\ pgd[v] \in Pte /\ acc[t].swpfpn \in SwapOffset BY <1>0, <1>2, TypeFacts
<1>4. pgd'[v] = InSwap(WithSwap(pgd[v], {}, acc[t].swpfpn)) /\ \A p \in Page \ {v} : pgd'[p] = pgd[p]
  BY <1>0, <1>1, <1>3, TypeFacts
<1>5. ~Present(pgd'[v]) /\ Swapped(pgd'[v]) /\ Swp(pgd'[v]) = acc[t].swpfpn
  <2> DEFINE e == pgd[v]
             off == acc[t].swpfpn
  <2> HIDE DEF e, off
  <2>1. e \in Pte /\ off \in SwapOffset BY <1>3 DEF e, off
  <2>2. LET w == InSwap(WithSwap(e, {}, off)) IN ~Present(w) /\ Swapped(w) /\ Swp(w) = off
    BY <2>1, SwapEntry DEF Sound
  <2> QED BY <1>4, <2>2 DEF e, off
<1>6. pc'[t] = "swapin" BY <1>0, <1>1, TypeFacts
<1> HIDE DEF v
<1>7. acc[t].pgn # v BY <1>2
<1> QED BY <1>1, <1>2, <1>4, <1>5, <1>6, <1>7 DEF v

\* pte_set_fpn on the page of the call
LEMMA SetFpnEffect ==
  ASSUME Sound, IInv, NEW t \in Thread, SetFpn(t)
  PROVE  LET p == acc[t].pgn
         IN /\ pc[t] = "setfpn" /\ pc'[t] = "enlist" /\ p \in claimed /\ ~Online(p)
            /\ \A q \in Page \ {p} : pgd'[q] = pgd[q]
            /\ Present(pgd'[p]) /\ ~Swapped(pgd'[p]) /\ Fpn(pgd'[p]) = acc[t].vicfpn
            /\ UNCHANGED <<claimed, acc>>
<1> DEFINE p == acc[t].pgn
<1>0. TypeOK /\ AccOK BY DEF IInv
<1>1. /\ pc[t] = "setfpn" /\ pc' = [pc EXCEPT ![t] = "enlist"] /\ UNCHANGED <<claimed, acc>>
      /\ pgd' = [pgd EXCEPT ![p] = WithFpn(pgd[p], acc[t].vicfpn)]
  BY DEF SetFpn, PteSetFpn, SetEntry, At, Goto
<1>2. p \in claimed /\ ~Online(p) BY <1>0, <1>1 DEF AccOK, LocalsOK, Faulting
<1>3. p \in Page /\ pgd[p] \in Pte /\ acc[t].vicfpn \in FrameNumber
  BY <1>0, <1>2, TypeFacts DEF Acc
<1>4. pgd'[p] = WithFpn(pgd[p], acc[t].vicfpn) /\ \A q \in Page \ {p} : pgd'[q] = pgd[q]
  BY <1>0, <1>1, <1>3, TypeFacts
<1>5. Present(pgd'[p]) /\ ~Swapped(pgd'[p]) /\ Fpn(pgd'[p]) = acc[t].vicfpn
  BY <1>3, <1>4, FpnRoundTrip
<1>6. pc'[t] = "enlist" BY <1>0, <1>1, TypeFacts
<1> QED BY <1>1, <1>2, <1>4, <1>5, <1>6

\* A page that is mapped gets an entry, the others keep theirs.
LEMMA MapEffect ==
  ASSUME Sound, IInv, NEW p \in Page, MapRam(p)
  PROVE  /\ p \notin claimed /\ claimed' = claimed \cup {p} /\ UNCHANGED <<pc, acc, stranded, ram, swp>>
         /\ \A q \in Page \ {p} : pgd'[q] = pgd[q]
         /\ \A u \in Thread : pc[u] = "idle"
         /\ Present(pgd'[p]) /\ ~Swapped(pgd'[p]) /\ Fpn(pgd'[p]) = Head(ramfree)
         /\ ramfree # <<>> /\ ramfree' = Tail(ramfree) /\ Head(ramfree) \in RamFrame
         /\ UNCHANGED <<swpfree, swpsize>>
<1>0. TypeOK /\ CallOK /\ RamOK BY DEF IInv
<1>a. ramfree \in Seq(RamFrame) BY <1>0 DEF TypeOK
<1>1. /\ p \notin claimed /\ claimed' = claimed \cup {p} /\ UNCHANGED <<pc, acc, stranded, ram, swp>>
      /\ mmvm_lock = Nobody
      /\ pgd' = [pgd EXCEPT ![p] = InitPte({}, TRUE, Head(ramfree), FALSE, {}, {})]
      /\ ramfree # <<>> /\ ramfree' = Tail(ramfree) /\ UNCHANGED <<swpfree, swpsize>>
  BY DEF MapRam, IsNext, SetEntry, Ram!GetFreeFp
<1>2. \A u \in Thread : pc[u] = "idle" BY <1>0, <1>1, NoCalls
<1>3. Head(ramfree) \in RamFrame /\ Head(ramfree) # {} BY <1>0, <1>a, <1>1 DEF RamOK, Listed
<1>4. /\ pgd'[p] = InitPte({}, TRUE, Head(ramfree), FALSE, {}, {})
      /\ \A q \in Page \ {p} : pgd'[q] = pgd[q]
  BY <1>0, <1>1, TypeFacts
<1>5. Present(pgd'[p]) /\ ~Swapped(pgd'[p]) /\ Fpn(pgd'[p]) = Head(ramfree)
  BY <1>0, <1>3, <1>4, NewRamEntry, TypeFacts
<1> QED BY <1>1, <1>2, <1>3, <1>4, <1>5

\* What the lists of frames and pages need to know of it: no page is being moved, and
\* the new page takes the first frame of the list.
Quiet == \A u \in Thread : pc[u] \in {"idle", "check", "frame", "access", "return"}
Added(p) ==
  /\ p \notin claimed /\ claimed' = claimed \cup {p} /\ UNCHANGED <<pc, acc, stranded>>
  /\ \A q \in Page \ {p} : pgd'[q] = pgd[q]
AddedRam(p) ==
  /\ Added(p) /\ Present(pgd'[p]) /\ ~Swapped(pgd'[p]) /\ Fpn(pgd'[p]) = Head(ramfree)
  /\ ramfree # <<>> /\ ramfree' = Tail(ramfree) /\ Head(ramfree) \in RamFrame
  /\ UNCHANGED <<swpfree, swpsize>> /\ fifo_pgn' = <<p>> \o fifo_pgn
\* Under the lock it does that.
LEMMA MapAdds ==
  ASSUME Sound, IInv, NEW p \in Page, MapRam(p)
  PROVE  Quiet /\ AddedRam(p)
<1>1. Quiet /\ Added(p) BY MapEffect DEF Quiet, Added
<1>2. AddedRam(p) BY <1>1, MapEffect DEF AddedRam, MapRam, EnlistPgn
<1> QED BY <1>1, <1>2

\* Every step keeps PRESENT and SWAPPED apart.
LEMMA TableStep ==
  ASSUME Sound, IInv, [Next]_vars
  PROVE  TableOK'
<1>0. TypeOK /\ TableOK /\ claimed \subseteq Page BY TypeFacts DEF IInv
<1>1. ASSUME NEW p \in Page, MapRam(p) PROVE TableOK'
  <2>1. /\ claimed' = claimed \cup {p} /\ \A q \in Page \ {p} : pgd'[q] = pgd[q]
        /\ ~Swapped(pgd'[p])
    BY <1>1, MapEffect
  <2> QED BY <1>0, <2>1 DEF TableOK
<1>2. ASSUME NEW t \in Thread, SetSwap(t) PROVE TableOK'
  <2> DEFINE v == acc[t].vicpgn
  <2>1. /\ \A p \in Page \ {v} : pgd'[p] = pgd[p]
        /\ ~Present(pgd'[v]) /\ Swapped(pgd'[v]) /\ claimed' = claimed
    BY <1>2, SetSwapEffect
  <2> HIDE DEF v
  <2> QED BY <1>0, <2>1 DEF TableOK
<1>3. ASSUME NEW t \in Thread, SetFpn(t) PROVE TableOK'
  <2> DEFINE p == acc[t].pgn
  <2>1. /\ \A q \in Page \ {p} : pgd'[q] = pgd[q]
        /\ Present(pgd'[p]) /\ ~Swapped(pgd'[p]) /\ claimed' = claimed
    BY <1>3, SetFpnEffect
  <2> HIDE DEF p
  <2> QED BY <1>0, <2>1 DEF TableOK
<1>4. ASSUME NEW t \in Thread, Step(t), ~SetSwap(t), ~SetFpn(t) PROVE TableOK'
  BY <1>0, <1>4, SameTable, SameMapped DEF TableOK
<1>5. ASSUME NEW t \in Thread, Call(t) PROVE TableOK'
  BY <1>0, <1>5 DEF Call, TableOK
<1>6. CASE UNCHANGED vars BY <1>0, <1>6 DEF vars, TableOK
<1> QED BY <1>1, <1>2, <1>3, <1>4, <1>5, <1>6 DEF Next

\* An idle CPU has no page.
LEMMA IdleLocals ==
  ASSUME TypeOK, NEW u \in Thread, pc'[u] \in {"idle", "check", "return"},
         acc'[u].pgn \in claimed' \cup {NoPage}
  PROVE  LocalsOK(u)'
BY DEF LocalsOK, Faulting, InRam, HasVictim

\* Every step keeps what the locals of a call say true.
LEMMA AccStep ==
  ASSUME Sound, IInv, [Next]_vars
  PROVE  AccOK'
<1> USE DEF At, Goto, devices
<1>0. TypeOK /\ CallOK /\ AccOK /\ TableOK /\ FifoOK /\ claimed \subseteq Page /\ acc \in [Thread -> Acc]
      /\ pc \in [Thread -> Labels] /\ pgd \in [Page -> Pte] /\ fifo_pgn \in Seq(Page)
  BY TypeFacts DEF IInv, TypeOK
<1>a. \A u \in Thread : acc[u].pgn \in claimed \cup {NoPage} BY <1>0 DEF AccOK, LocalsOK
<1>1. ASSUME NEW p \in Page, MapRam(p) PROVE AccOK'
  <2>1. claimed \subseteq claimed' /\ UNCHANGED <<pc, acc>> /\ \A u \in Thread : pc[u] = "idle"
    BY <1>1, MapEffect
  <2> QED BY <1>0, <1>a, <2>1, IdleLocals DEF AccOK
<1>2. ASSUME NEW t \in Thread, Call(t) PROVE AccOK'
  <2>1. acc'[t].pgn \in claimed \cup {NoPage}
    <3>1. PICK op \in Ops, p \in claimed \cup {NoPage}, v \in Val :
            acc' = [acc EXCEPT ![t] = [Idle EXCEPT !.op = op, !.pgn = p, !.val = v]]
      BY <1>2 DEF Call
    <3>2. acc'[t] = [Idle EXCEPT !.op = op, !.pgn = p, !.val = v] BY <1>0, <3>1
    <3>3. acc'[t].pgn = p BY <3>2 DEF Idle
    <3> QED BY <3>1, <3>3
  <2>2. claimed' = claimed BY <1>2, SameMapped
  <2>3. \A u \in Thread : pc'[u] \in {"idle", "check"} /\ (u # t => acc'[u] = acc[u])
    BY <1>2, Begins DEF Sound, IInv
  <2>4. \A u \in Thread : LocalsOK(u)' BY <1>0, <1>a, <2>1, <2>2, <2>3, IdleLocals
  <2> QED BY <2>4 DEF AccOK
<1>3. ASSUME NEW t \in Thread, Step(t) PROVE AccOK'
  <2>m. claimed' = claimed BY <1>3, SameMapped
  <2>o. \A u \in Thread \ {t} : LocalsOK(u)'
    <3>1. \A u \in Thread \ {t} : pc'[u] = "idle" /\ acc'[u] = acc[u] BY <1>3, Alone DEF IInv
    <3> QED BY <1>0, <1>a, <2>m, <3>1, IdleLocals
  <2>p. LocalsOK(t) /\ acc[t] \in Acc BY <1>0 DEF AccOK
  <2>q. SUFFICES LocalsOK(t)' BY <2>o DEF AccOK
  <2>g. CASE GiveUp(t)
    <3>1. pc'[t] = "return" /\ acc' = acc BY <1>0, <2>g, GiveUpEffect
    <3> QED BY <1>0, <1>a, <2>m, <3>1, IdleLocals
  <2>1. CASE Check(t) /\ ~GiveUp(t)
    <3>1. /\ acc[t].pgn # NoPage /\ acc' = [acc EXCEPT ![t].pte = pgd[acc[t].pgn]] /\ pgd' = pgd
          /\ pc' = [pc EXCEPT ![t] = IF Present(pgd[acc[t].pgn]) THEN "frame" ELSE "victim"]
      BY <2>1 DEF Check, Set
    <3>2. acc'[t].pgn = acc[t].pgn /\ acc'[t].pte = pgd[acc[t].pgn] BY <1>0, <2>p, <3>1 DEF Acc
    <3>3. acc[t].pgn \in claimed BY <1>a, <3>1
    <3>4. Present(pgd[acc[t].pgn]) <=> Online(acc[t].pgn) BY <1>0, <3>3 DEF TableOK, Online
    <3>5. pc'[t] = IF Present(pgd[acc[t].pgn]) THEN "frame" ELSE "victim" BY <1>0, <3>1
    <3> QED BY <2>m, <3>1, <3>2, <3>3, <3>4, <3>5 DEF LocalsOK, Faulting, InRam, HasVictim, Online
  <2>2. CASE FindVictim(t) /\ ~GiveUp(t)
    <3>1. /\ acc' = [acc EXCEPT ![t].vicpgn = fifo_pgn[Len(fifo_pgn)]] /\ pgd' = pgd
          /\ pc[t] = "victim" /\ pc' = [pc EXCEPT ![t] = "getswp"] /\ ~Victimless(fifo_pgn)
      BY <2>2 DEF FindVictim, Set
    <3>2. Len(fifo_pgn) \in DOMAIN fifo_pgn /\ fifo_pgn[Len(fifo_pgn)] \in Page
      BY <1>0, <3>1 DEF Victimless
    <3>3. fifo_pgn[Len(fifo_pgn)] \in claimed /\ Online(fifo_pgn[Len(fifo_pgn)])
      BY <1>0, <3>2 DEF FifoOK, Listed
    <3>4. /\ acc'[t].vicpgn = fifo_pgn[Len(fifo_pgn)]
          /\ acc'[t].pgn = acc[t].pgn /\ acc'[t].pte = acc[t].pte
      BY <1>0, <2>p, <3>1 DEF Acc
    <3>5. pc'[t] = "getswp" BY <1>0, <3>1
    <3> QED BY <2>m, <2>p, <3>1, <3>3, <3>4, <3>5
            DEF LocalsOK, Faulting, InRam, HasVictim, Online
  <2>3. CASE ReadSwapHead(t) /\ ~GiveUp(t)
    <3>1. /\ acc' = [acc EXCEPT ![t].seen = swpfree] /\ swpfree # <<>>
          /\ pc[t] = "getswp" /\ pc' = [pc EXCEPT ![t] = "takeswp"] /\ UNCHANGED <<pgd, swpfree>>
      BY <2>3 DEF ReadSwapHead, Set
    <3>2. /\ acc'[t].pgn = acc[t].pgn /\ acc'[t].pte = acc[t].pte
          /\ acc'[t].vicpgn = acc[t].vicpgn /\ acc'[t].seen = swpfree
      BY <1>0, <2>p, <3>1 DEF Acc
    <3>3. pc'[t] = "takeswp" BY <1>0, <3>1
    <3> QED BY <2>m, <2>p, <3>1, <3>2, <3>3 DEF LocalsOK, Faulting, InRam, HasVictim, Online
  <2>4. CASE TakeSwap(t)
    <3>1. /\ acc' = [acc EXCEPT ![t].swpfpn = Head(acc[t].seen)] /\ pgd' = pgd
          /\ pc[t] = "takeswp" /\ pc' = [pc EXCEPT ![t] = "swapout"]
      BY <2>4 DEF TakeSwap, Set
    <3>2. /\ acc'[t].pgn = acc[t].pgn /\ acc'[t].pte = acc[t].pte
          /\ acc'[t].vicpgn = acc[t].vicpgn
      BY <1>0, <2>p, <3>1 DEF Acc
    <3>3. pc'[t] = "swapout" BY <1>0, <3>1
    <3> QED BY <2>m, <2>p, <3>1, <3>2, <3>3 DEF LocalsOK, Faulting, InRam, HasVictim, Online
  <2>5. CASE SwapOut(t)
    <3>1. /\ acc' = [acc EXCEPT ![t].vicfpn = Fpn(pgd[acc[t].vicpgn])] /\ pgd' = pgd
          /\ pc[t] = "swapout" /\ pc' = [pc EXCEPT ![t] = "setswap"]
      BY <2>5 DEF SwapOut, Set
    <3>2. /\ acc'[t].pgn = acc[t].pgn /\ acc'[t].pte = acc[t].pte
          /\ acc'[t].vicpgn = acc[t].vicpgn /\ acc'[t].vicfpn = Fpn(pgd[acc[t].vicpgn])
      BY <1>0, <2>p, <3>1 DEF Acc
    <3>3. pc'[t] = "setswap" BY <1>0, <3>1
    <3> QED BY <2>m, <2>p, <3>1, <3>2, <3>3 DEF LocalsOK, Faulting, InRam, HasVictim, Online
  <2>6. CASE SetSwap(t)
    <3>1. /\ pc[t] = "setswap" /\ pc'[t] = "swapin" /\ acc' = acc
          /\ acc[t].pgn \in claimed /\ pgd'[acc[t].pgn] = pgd[acc[t].pgn]
      BY <1>0, <2>6, SetSwapEffect
    <3> QED BY <2>m, <2>p, <3>1 DEF LocalsOK, Faulting, InRam, HasVictim, Online
  <2>7. CASE SwapIn(t)
    <3>1. pc[t] = "swapin" /\ pc' = [pc EXCEPT ![t] = "putread"] /\ UNCHANGED <<acc, pgd>>
      BY <2>7 DEF SwapIn
    <3>2. pc'[t] = "putread" BY <1>0, <3>1
    <3> QED BY <2>m, <2>p, <3>1, <3>2 DEF LocalsOK, Faulting, InRam, HasVictim, Online
  <2>8. CASE ReadPutHead(t)
    <3>1. /\ acc' = [acc EXCEPT ![t].seen = swpfree] /\ UNCHANGED <<pgd, swpfree>>
          /\ pc[t] = "putread" /\ pc' = [pc EXCEPT ![t] = "putlink"]
      BY <2>8 DEF ReadPutHead, Set
    <3>2. acc'[t].pgn = acc[t].pgn /\ acc'[t].pte = acc[t].pte /\ acc'[t].seen = swpfree
      BY <1>0, <2>p, <3>1 DEF Acc
    <3>3. pc'[t] = "putlink" BY <1>0, <3>1
    <3> QED BY <2>m, <2>p, <3>1, <3>2, <3>3 DEF LocalsOK, Faulting, InRam, HasVictim, Online
  <2>9. CASE LinkPut(t)
    <3>1. pc[t] = "putlink" /\ pc' = [pc EXCEPT ![t] = "setfpn"] /\ UNCHANGED <<acc, pgd>>
      BY <2>9 DEF LinkPut
    <3>2. pc'[t] = "setfpn" BY <1>0, <3>1
    <3> QED BY <2>m, <2>p, <3>1, <3>2 DEF LocalsOK, Faulting, InRam, HasVictim, Online
  <2>10. CASE SetFpn(t)
    <3>1. /\ pc'[t] = "enlist" /\ acc' = acc /\ acc[t].pgn \in claimed
          /\ Present(pgd'[acc[t].pgn]) /\ ~Swapped(pgd'[acc[t].pgn])
      BY <2>10, SetFpnEffect
    <3> QED BY <2>m, <3>1 DEF LocalsOK, Faulting, InRam, HasVictim, Online
  <2>11. CASE Enlist(t)
    <3>1. pc[t] = "enlist" /\ pc' = [pc EXCEPT ![t] = "frame"] /\ UNCHANGED <<acc, pgd>>
      BY <2>11 DEF Enlist
    <3>2. pc'[t] = "frame" BY <1>0, <3>1
    <3> QED BY <2>m, <2>p, <3>1, <3>2 DEF LocalsOK, Faulting, InRam, HasVictim, Online
  <2>12. CASE GetFrame(t)
    <3>1. /\ acc' = [acc EXCEPT ![t].fpn = Fpn(pgd[acc[t].pgn])] /\ pgd' = pgd
          /\ pc[t] = "frame" /\ pc' = [pc EXCEPT ![t] = "access"]
      BY <2>12 DEF GetFrame, Set
    <3>2. acc'[t].pgn = acc[t].pgn /\ acc'[t].fpn = Fpn(pgd[acc[t].pgn])
      BY <1>0, <2>p, <3>1 DEF Acc
    <3>3. pc'[t] = "access" BY <1>0, <3>1
    <3> QED BY <2>m, <2>p, <3>1, <3>2, <3>3 DEF LocalsOK, Faulting, InRam, HasVictim, Online
  <2>13. CASE Access(t)
    <3>1. pc' = [pc EXCEPT ![t] = "return"] /\ acc' = acc BY <2>13 DEF Access
    <3> QED BY <1>0, <1>a, <2>m, <3>1, IdleLocals
  <2>14. CASE Return(t)
    <3>1. pc' = [pc EXCEPT ![t] = "idle"] /\ acc' = [acc EXCEPT ![t] = Idle] BY <2>14 DEF Return
    <3>2. acc'[t].pgn = NoPage BY <1>0, <3>1 DEF Idle
    <3> QED BY <1>0, <2>m, <3>1, <3>2, IdleLocals
  <2> QED BY <1>3, <2>g, <2>1, <2>2, <2>3, <2>4, <2>5, <2>6, <2>7, <2>8, <2>9, <2>10, <2>11,
             <2>12, <2>13, <2>14 DEF Step, Fault
<1>4. CASE UNCHANGED vars
  BY <1>0, <1>4 DEF vars, AccOK, LocalsOK, Faulting, InRam, HasVictim, Online
<1> QED BY <1>1, <1>2, <1>3, <1>4 DEF Next

-----------------------------------------------------------------------------
(* Lists *)

\* Taking the head of a list without repetitions
LEMMA TailList ==
  ASSUME NEW S, NEW s \in Seq(S), s # <<>>, Distinct(s)
  PROVE  /\ Distinct(Tail(s)) /\ Listed(s, Head(s))
         /\ \A x : Listed(Tail(s), x) <=> Listed(s, x) /\ x # Head(s)
<1>1. /\ Len(s) \in Nat \ {0} /\ DOMAIN s = 1 .. Len(s) /\ Head(s) = s[1]
      /\ DOMAIN Tail(s) = 1 .. Len(s) - 1 /\ \A i \in 1 .. Len(s) - 1 : Tail(s)[i] = s[i + 1]
  OBVIOUS
<1>2. Distinct(Tail(s)) BY <1>1 DEF Distinct
<1>3. Listed(s, Head(s)) BY <1>1 DEF Listed
<1>4. ASSUME NEW x, Listed(Tail(s), x) PROVE Listed(s, x) /\ x # Head(s)
  BY <1>1, <1>4 DEF Listed, Distinct
<1>5. ASSUME NEW x, Listed(s, x), x # Head(s) PROVE Listed(Tail(s), x)
  <2>1. PICK i \in 1 .. Len(s) : s[i] = x BY <1>1, <1>5 DEF Listed
  <2>2. i - 1 \in 1 .. Len(s) - 1 /\ (i - 1) + 1 = i BY <1>1, <1>5, <2>1
  <2>3. Tail(s)[i - 1] = x BY <1>1, <2>1, <2>2
  <2> QED BY <1>1, <2>2, <2>3 DEF Listed
<1> QED BY <1>2, <1>3, <1>4, <1>5

\* Prepending
LEMMA ConsList ==
  ASSUME NEW S, NEW s \in Seq(S), NEW x \in S
  PROVE  /\ \A y : Listed(<<x>> \o s, y) <=> y = x \/ Listed(s, y)
         /\ Distinct(s) /\ ~Listed(s, x) => Distinct(<<x>> \o s)
<1> DEFINE r == <<x>> \o s
<1>1. /\ Len(s) \in Nat /\ DOMAIN s = 1 .. Len(s) /\ DOMAIN r = 1 .. Len(s) + 1 /\ r[1] = x
      /\ \A i \in 1 .. Len(s) : r[i + 1] = s[i]
  OBVIOUS
<1>2. \A i \in 2 .. Len(s) + 1 : i - 1 \in 1 .. Len(s) /\ r[i] = s[i - 1]
  <2>1. ASSUME NEW i \in 2 .. Len(s) + 1 PROVE i - 1 \in 1 .. Len(s) /\ (i - 1) + 1 = i
    BY <1>1
  <2> QED BY <1>1, <2>1
<1> HIDE DEF r
<1>3. ASSUME NEW y, Listed(r, y) PROVE y = x \/ Listed(s, y)
  <2>1. PICK i \in 1 .. Len(s) + 1 : r[i] = y BY <1>1, <1>3 DEF Listed
  <2>2. CASE i = 1 BY <1>1, <2>1, <2>2
  <2>3. CASE i # 1
    <3>1. i \in 2 .. Len(s) + 1 BY <1>1, <2>3
    <3> QED BY <1>1, <1>2, <2>1, <3>1 DEF Listed
  <2> QED BY <2>2, <2>3
<1>4. ASSUME NEW y, y = x \/ Listed(s, y) PROVE Listed(r, y)
  <2>1. CASE y = x BY <1>1, <2>1 DEF Listed
  <2>2. CASE Listed(s, y)
    <3>1. PICK i \in 1 .. Len(s) : s[i] = y BY <1>1, <2>2 DEF Listed
    <3>2. i + 1 \in 1 .. Len(s) + 1 BY <1>1
    <3> QED BY <1>1, <3>1, <3>2 DEF Listed
  <2> QED BY <1>4, <2>1, <2>2
<1>5. ASSUME Distinct(s), ~Listed(s, x) PROVE Distinct(r)
  <2>1. ASSUME NEW i \in 1 .. Len(s) + 1, NEW j \in 1 .. Len(s) + 1, r[i] = r[j], i < j
        PROVE  FALSE
    <3>1. j \in 2 .. Len(s) + 1 BY <1>1, <2>1
    <3>2. CASE i = 1 BY <1>1, <1>2, <1>5, <2>1, <3>1, <3>2 DEF Listed
    <3>3. CASE i # 1
      <4>1. i \in 2 .. Len(s) + 1 BY <1>1, <3>3
      <4>2. i - 1 \in DOMAIN s /\ j - 1 \in DOMAIN s /\ s[i - 1] = s[j - 1]
        BY <1>1, <1>2, <2>1, <3>1, <4>1
      <4>3. i - 1 = j - 1 BY <1>5, <4>2 DEF Distinct
      <4> QED BY <2>1, <4>3
    <3> QED BY <3>2, <3>3
  <2>2. \A i, j \in 1 .. Len(s) + 1 : i < j \/ j < i \/ i = j BY <1>1
  <2>3. \A i, j \in 1 .. Len(s) + 1 : r[i] = r[j] => i = j BY <2>1, <2>2
  <2> QED BY <1>1, <2>3 DEF Distinct
<1> QED BY <1>3, <1>4, <1>5 DEF r

\* Dropping the last
LEMMA LastList ==
  ASSUME NEW S, NEW s \in Seq(S), s # <<>>, Distinct(s)
  PROVE  /\ Distinct(SubSeq(s, 1, Len(s) - 1)) /\ Listed(s, s[Len(s)])
         /\ \A x : Listed(SubSeq(s, 1, Len(s) - 1), x) <=> Listed(s, x) /\ x # s[Len(s)]
<1> DEFINE r == SubSeq(s, 1, Len(s) - 1)
<1>1. /\ Len(s) \in Nat \ {0} /\ DOMAIN s = 1 .. Len(s) /\ DOMAIN r = 1 .. Len(s) - 1
      /\ \A i \in 1 .. Len(s) - 1 : r[i] = s[i]
  OBVIOUS
<1> HIDE DEF r
<1>2. Distinct(r) BY <1>1 DEF Distinct
<1>3. Listed(s, s[Len(s)]) BY <1>1 DEF Listed
<1>4. ASSUME NEW x, Listed(r, x) PROVE Listed(s, x) /\ x # s[Len(s)]
  <2>1. PICK i \in 1 .. Len(s) - 1 : s[i] = x BY <1>1, <1>4 DEF Listed
  <2>2. i \in DOMAIN s /\ Len(s) \in DOMAIN s /\ i # Len(s)
    <3>1. Len(s) \in Nat \ {0} /\ DOMAIN s = 1 .. Len(s) BY <1>1
    <3>2. \A n \in Nat \ {0} : \A k \in 1 .. n - 1 : n \in 1 .. n /\ k \in 1 .. n /\ k # n
      OBVIOUS
    <3> QED BY <2>1, <3>1, <3>2, Zenon
  <2>3. s[i] # s[Len(s)] BY <2>2, Zenon DEF Distinct
  <2> QED BY <2>1, <2>2, <2>3 DEF Listed
<1>5. ASSUME NEW x, Listed(s, x), x # s[Len(s)] PROVE Listed(r, x)
  <2>1. PICK i \in 1 .. Len(s) : s[i] = x BY <1>1, <1>5 DEF Listed
  <2>2. i \in 1 .. Len(s) - 1 BY <1>1, <1>5, <2>1
  <2> QED BY <1>1, <2>1, <2>2 DEF Listed
<1> QED BY <1>2, <1>3, <1>4, <1>5 DEF r

-----------------------------------------------------------------------------
(* RAM frames *)

\* The steps that leave the owners of RAM frames as they are
LEMMA RamSame ==
  ASSUME RamOK, UNCHANGED <<pgd, ramfree, claimed>>,
         \A t \in Thread : /\ HasFrame(t)' <=> HasFrame(t)
                           /\ HasFrame(t) => acc'[t].vicfpn = acc[t].vicfpn
  PROVE  RamOK'
<1>1. \A p : Online(p)' <=> Online(p) BY DEF Online
<1>2. ASSUME NEW t \in Thread, HasFrame(t)'
      PROVE  /\ acc'[t].vicfpn \in RamFrame /\ ~Listed(ramfree, acc'[t].vicfpn)
             /\ \A p \in claimed : Online(p) => Fpn(pgd[p]) # acc'[t].vicfpn
  BY <1>2 DEF RamOK
<1>3. \A i \in DOMAIN RamFree :
       \/ Listed(ramfree, RamFree[i])
       \/ \E p \in claimed : Online(p) /\ Fpn(pgd[p]) = RamFree[i]
       \/ \E t \in Thread : HasFrame(t)' /\ acc'[t].vicfpn = RamFree[i]
  BY DEF RamOK
<1> QED BY <1>1, <1>2, <1>3 DEF RamOK

\* What a step other than SetSwap and SetFpn does to the frame a fault holds
LEMMA HeldSame ==
  ASSUME IInv, NEW t \in Thread, Step(t), ~SetSwap(t), ~SetFpn(t)
  PROVE  /\ ramfree' = ramfree
         /\ HasFrame(t)' <=> HasFrame(t)
         /\ HasFrame(t) => acc'[t].vicfpn = acc[t].vicfpn
<1>0. TypeOK BY DEF IInv
<1>1. ramfree' = ramfree
  BY DEF Step, Fault, Check, FindVictim, ReadSwapHead, TakeSwap, SwapOut, SwapIn, ReadPutHead,
         LinkPut, Enlist, GetFrame, Access, Return, devices
<1>2. CASE GiveUp(t)
  <2>1. pc'[t] = "return" /\ acc' = acc BY <1>0, <1>2, GiveUpEffect
  <2>2. ~HasFrame(t)
    <3>1. ~SwapIn(t) /\ ~ReadPutHead(t) /\ ~LinkPut(t)
      BY <2>1, <1>0, TypeFacts DEF SwapIn, ReadPutHead, LinkPut, Goto
    <3> QED BY <3>1 DEF Step, Fault, Check, FindVictim, ReadSwapHead, TakeSwap, SwapOut, Enlist,
                        GetFrame, Access, Return, HasFrame, At
  <2> QED BY <1>1, <2>1, <2>2 DEF HasFrame
<1>3. CASE ~GiveUp(t)
  <2>1. ASSUME NEW l \in Labels, pc' = [pc EXCEPT ![t] = l] PROVE pc'[t] = l
    BY <1>0, <2>1, TypeFacts
  <2>2. CASE HasFrame(t)
    <3>1. \/ pc' = [pc EXCEPT ![t] = "putread"] /\ acc' = acc
          \/ pc' = [pc EXCEPT ![t] = "putlink"] /\ acc' = [acc EXCEPT ![t].seen = swpfree]
          \/ pc' = [pc EXCEPT ![t] = "setfpn"] /\ acc' = acc
      BY <2>2 DEF Step, Fault, Check, FindVictim, ReadSwapHead, TakeSwap, SwapOut, SwapIn,
                  ReadPutHead, LinkPut, Enlist, GetFrame, Access, Return, HasFrame, At, Goto, Set
    <3>2. pc'[t] \in {"putread", "putlink", "setfpn"} BY <2>1, <3>1 DEF Labels
    <3>3. acc'[t].vicfpn = acc[t].vicfpn BY <1>0, <3>1, TypeFacts DEF Acc
    <3> QED BY <1>1, <2>2, <3>2, <3>3 DEF HasFrame
  <2>3. CASE ~HasFrame(t)
    <3>1. \E l \in Labels \ {"swapin", "putread", "putlink", "setfpn"} : pc' = [pc EXCEPT ![t] = l]
      BY <1>3, <2>3 DEF Step, Fault, Check, FindVictim, ReadSwapHead, TakeSwap, SwapOut, SwapIn,
                  ReadPutHead, LinkPut, Enlist, GetFrame, Access, Return, HasFrame, At, Goto,
                  Labels
    <3> QED BY <1>1, <2>1, <2>3, <3>1 DEF HasFrame
  <2> QED BY <2>2, <2>3
<1> QED BY <1>2, <1>3

\* The frame that a new page takes from the list
LEMMA RamMapRam ==
  ASSUME TypeOK, RamOK, Quiet, NEW p \in Page, AddedRam(p)
  PROVE  RamOK'
<1>0. RamOK /\ claimed \subseteq Page /\ ramfree \in Seq(RamFrame) BY TypeFacts DEF TypeOK
<1> DEFINE f == Head(ramfree)
<1>1. /\ p \notin claimed /\ claimed' = claimed \cup {p} /\ UNCHANGED pc
      /\ \A q \in Page \ {p} : pgd'[q] = pgd[q]
      /\ Present(pgd'[p]) /\ ~Swapped(pgd'[p]) /\ Fpn(pgd'[p]) = f
      /\ ramfree # <<>> /\ ramfree' = Tail(ramfree) /\ f \in RamFrame
  BY DEF AddedRam, Added
<1>2. /\ Distinct(ramfree') /\ Listed(ramfree, f)
      /\ \A x : Listed(ramfree', x) <=> Listed(ramfree, x) /\ x # f
  BY <1>0, <1>1, TailList DEF RamOK
<1> HIDE DEF f
<1>3. /\ \A q \in claimed : q # p /\ pgd'[q] = pgd[q] /\ (Online(q)' <=> Online(q))
      /\ Online(p)'
  BY <1>0, <1>1 DEF Online
<1>4. \A u \in Thread : ~HasFrame(u) /\ ~HasFrame(u)' BY <1>1 DEF Quiet, HasFrame
<1>5. \A q \in claimed : Online(q) => Fpn(pgd[q]) # f BY <1>0, <1>2 DEF RamOK
<1>6. ~Listed(ramfree', {}) BY <1>0, <1>2 DEF RamOK
<1>7. \A q \in claimed' : Online(q)' => Fpn(pgd'[q]) \in RamFrame /\ ~Listed(ramfree', Fpn(pgd'[q]))
  BY <1>0, <1>1, <1>2, <1>3 DEF RamOK
<1>8. \A q, r \in claimed' : Online(q)' /\ Online(r)' /\ Fpn(pgd'[q]) = Fpn(pgd'[r]) => q = r
  BY <1>0, <1>1, <1>3, <1>5 DEF RamOK
<1>9. ASSUME NEW i \in DOMAIN RamFree
      PROVE  \/ Listed(ramfree', RamFree[i])
             \/ \E q \in claimed' : Online(q)' /\ Fpn(pgd'[q]) = RamFree[i]
  <2>1. CASE RamFree[i] = f BY <1>1, <1>3, <2>1
  <2>2. CASE RamFree[i] # f /\ Listed(ramfree, RamFree[i]) BY <1>2, <2>2
  <2>3. CASE \E q \in claimed : Online(q) /\ Fpn(pgd[q]) = RamFree[i] BY <1>1, <1>3, <2>3
  <2> QED BY <1>0, <1>4, <2>1, <2>2, <2>3 DEF RamOK
<1> QED BY <1>2, <1>4, <1>6, <1>7, <1>8, <1>9 DEF RamOK

\* The victim's frame passes to the call.
LEMMA RamSetSwap ==
  ASSUME Sound, IInv, NEW t \in Thread, SetSwap(t)
  PROVE  RamOK'
<1>v. PICK v, f : v = acc[t].vicpgn /\ f = acc[t].vicfpn OBVIOUS
<1>0. RamOK /\ AccOK /\ claimed \subseteq Page BY TypeFacts DEF IInv
<1>1. /\ pc[t] = "setswap" /\ pc'[t] = "swapin" /\ v \in claimed /\ Online(v)
      /\ \A p \in Page \ {v} : pgd'[p] = pgd[p]
      /\ ~Present(pgd'[v]) /\ UNCHANGED <<claimed, acc>>
  BY <1>v, SetSwapEffect
<1>2. \A u \in Thread \ {t} : pc[u] = "idle" /\ pc'[u] = "idle" BY Alone DEF Step, Fault, IInv
<1>3. f = Fpn(pgd[v]) BY <1>v, <1>0, <1>1 DEF AccOK, LocalsOK
<1>4. ramfree' = ramfree BY DEF SetSwap, devices
<1>5. acc'[t].vicfpn = f BY <1>v, <1>1
<1>6. /\ \A q \in claimed : q # v => pgd'[q] = pgd[q] /\ (Online(q)' <=> Online(q))
      /\ ~Online(v)'
  BY <1>0, <1>1 DEF Online
<1>7. /\ HasFrame(t)' /\ ~HasFrame(t)
      /\ \A u \in Thread \ {t} : ~HasFrame(u) /\ ~HasFrame(u)'
  BY <1>1, <1>2 DEF HasFrame
<1>8. f \in RamFrame /\ ~Listed(ramfree, f) BY <1>0, <1>1, <1>3 DEF RamOK
<1>9. \A q \in claimed' : Online(q)' => /\ Fpn(pgd'[q]) \in RamFrame
                                      /\ ~Listed(ramfree', Fpn(pgd'[q])) /\ Fpn(pgd'[q]) # f
  <2>1. ASSUME NEW q \in claimed, Online(q)' PROVE q # v /\ Online(q) /\ pgd'[q] = pgd[q]
    BY <1>6, <2>1
  <2>2. \A q \in claimed : Online(q) /\ q # v => Fpn(pgd[q]) # f BY <1>0, <1>1, <1>3 DEF RamOK
  <2> QED BY <1>0, <1>1, <1>4, <2>1, <2>2 DEF RamOK
<1>10. \A q, r \in claimed' : Online(q)' /\ Online(r)' /\ Fpn(pgd'[q]) = Fpn(pgd'[r]) => q = r
  BY <1>0, <1>1, <1>6 DEF RamOK
<1>11. ASSUME NEW u \in Thread, HasFrame(u)' PROVE u = t BY <1>7, <1>11
<1>12. ASSUME NEW i \in DOMAIN RamFree
      PROVE  \/ Listed(ramfree', RamFree[i])
             \/ \E q \in claimed' : Online(q)' /\ Fpn(pgd'[q]) = RamFree[i]
             \/ \E u \in Thread : HasFrame(u)' /\ acc'[u].vicfpn = RamFree[i]
  <2>1. CASE RamFree[i] = f BY <1>5, <1>7, <2>1
  <2>2. CASE Listed(ramfree, RamFree[i]) BY <1>4, <2>2
  <2>3. CASE RamFree[i] # f /\ \E q \in claimed : Online(q) /\ Fpn(pgd[q]) = RamFree[i]
    BY <1>1, <1>3, <1>6, <2>3
  <2> QED BY <1>0, <1>7, <2>1, <2>2, <2>3 DEF RamOK
<1>13. Distinct(ramfree') /\ ~Listed(ramfree', {}) BY <1>0, <1>4 DEF RamOK
<1>14. \A u \in Thread : HasFrame(u)' =>
         /\ acc'[u].vicfpn \in RamFrame /\ ~Listed(ramfree', acc'[u].vicfpn)
         /\ \A q \in claimed' : Online(q)' => Fpn(pgd'[q]) # acc'[u].vicfpn
  BY <1>4, <1>5, <1>8, <1>9, <1>11
<1> QED BY <1>9, <1>10, <1>12, <1>13, <1>14 DEF RamOK

\* And from the call to the page that comes in.
LEMMA RamSetFpn ==
  ASSUME Sound, IInv, NEW t \in Thread, SetFpn(t)
  PROVE  RamOK'
<1>v. PICK p, f : p = acc[t].pgn /\ f = acc[t].vicfpn OBVIOUS
<1>0. RamOK /\ claimed \subseteq Page BY TypeFacts DEF IInv
<1>1. /\ pc[t] = "setfpn" /\ pc'[t] = "enlist" /\ p \in claimed /\ ~Online(p)
      /\ \A q \in Page \ {p} : pgd'[q] = pgd[q]
      /\ Present(pgd'[p]) /\ ~Swapped(pgd'[p]) /\ Fpn(pgd'[p]) = f
      /\ UNCHANGED <<claimed, acc>>
  BY <1>v, SetFpnEffect
<1>2. \A u \in Thread \ {t} : pc[u] = "idle" /\ pc'[u] = "idle" BY Alone DEF Step, Fault, IInv
<1>4. ramfree' = ramfree BY DEF SetFpn, devices
<1>7. /\ HasFrame(t) /\ ~HasFrame(t)'
      /\ \A u \in Thread \ {t} : ~HasFrame(u) /\ ~HasFrame(u)'
  BY <1>1, <1>2 DEF HasFrame
<1>8. /\ f \in RamFrame /\ ~Listed(ramfree, f)
      /\ \A q \in claimed : Online(q) => Fpn(pgd[q]) # f
  BY <1>v, <1>0, <1>7 DEF RamOK
<1>6. /\ \A q \in claimed : q # p => pgd'[q] = pgd[q] /\ (Online(q)' <=> Online(q))
      /\ Online(p)'
  BY <1>0, <1>1 DEF Online
<1>9. \A q \in claimed' : Online(q)' =>
        Fpn(pgd'[q]) \in RamFrame /\ ~Listed(ramfree', Fpn(pgd'[q]))
  <2>1. ASSUME NEW q \in claimed, Online(q)', q # p PROVE Online(q) /\ pgd'[q] = pgd[q]
    BY <1>6, <2>1
  <2> QED BY <1>0, <1>1, <1>4, <1>8, <2>1 DEF RamOK
<1>10. ASSUME NEW q \in claimed, NEW r \in claimed, Online(q)', Online(r)',
              Fpn(pgd'[q]) = Fpn(pgd'[r])
       PROVE  q = r
  <2>1. CASE q = p /\ r = p BY <2>1
  <2>2. CASE q = p /\ r # p BY <1>1, <1>6, <1>8, <1>10, <2>2
  <2>3. CASE q # p /\ r = p BY <1>1, <1>6, <1>8, <1>10, <2>3
  <2>4. CASE q # p /\ r # p BY <1>0, <1>6, <1>10, <2>4 DEF RamOK
  <2> QED BY <2>1, <2>2, <2>3, <2>4
<1>12. ASSUME NEW i \in DOMAIN RamFree
      PROVE  \/ Listed(ramfree', RamFree[i])
             \/ \E q \in claimed' : Online(q)' /\ Fpn(pgd'[q]) = RamFree[i]
             \/ \E u \in Thread : HasFrame(u)' /\ acc'[u].vicfpn = RamFree[i]
  <2>1. CASE RamFree[i] = f BY <1>1, <1>6, <2>1
  <2>2. CASE Listed(ramfree, RamFree[i]) BY <1>4, <2>2
  <2>3. CASE \E q \in claimed : Online(q) /\ Fpn(pgd[q]) = RamFree[i] BY <1>1, <1>6, <2>3
  <2> QED BY <1>v, <1>0, <1>7, <2>1, <2>2, <2>3 DEF RamOK
<1>13. Distinct(ramfree') /\ ~Listed(ramfree', {}) BY <1>0, <1>4 DEF RamOK
<1>14. \A u \in Thread : ~HasFrame(u)' BY <1>7
<1>15. \A q, r \in claimed' : Online(q)' /\ Online(r)' /\ Fpn(pgd'[q]) = Fpn(pgd'[r]) => q = r
  BY <1>1, <1>10
<1> QED BY <1>9, <1>12, <1>13, <1>14, <1>15 DEF RamOK

\* Every step leaves a RAM frame one owner.
LEMMA RamStep ==
  ASSUME Sound, IInv, [Next]_vars
  PROVE  RamOK'
<1>0. RamOK BY DEF IInv
<1>1. ASSUME NEW p \in Page, MapRam(p) PROVE RamOK' BY <1>1, MapAdds, RamMapRam DEF IInv
<1>3. ASSUME NEW t \in Thread, Call(t) PROVE RamOK'
  <2>1. UNCHANGED <<pgd, ramfree, claimed>> BY <1>3 DEF Call, devices
  <2>2. \A u \in Thread : pc[u] = "idle" /\ pc'[u] \in {"idle", "check"} BY <1>3, Begins DEF Sound, IInv
  <2>3. \A u \in Thread : ~HasFrame(u) /\ ~HasFrame(u)' BY <2>2 DEF HasFrame
  <2> QED BY <1>0, <2>1, <2>3, RamSame
<1>4. ASSUME NEW t \in Thread, Step(t), ~SetSwap(t), ~SetFpn(t) PROVE RamOK'
  <2>1. UNCHANGED <<pgd, ramfree, claimed>> BY <1>4, SameTable, SameMapped, HeldSame
  <2>2. \A u \in Thread \ {t} : ~HasFrame(u) /\ ~HasFrame(u)' BY <1>4, Alone DEF HasFrame, IInv
  <2>3. /\ HasFrame(t)' <=> HasFrame(t)
        /\ HasFrame(t) => acc'[t].vicfpn = acc[t].vicfpn
    BY <1>4, HeldSame
  <2> QED BY <1>0, <2>1, <2>2, <2>3, RamSame
<1>5. ASSUME NEW t \in Thread, SetSwap(t) PROVE RamOK' BY <1>5, RamSetSwap
<1>6. ASSUME NEW t \in Thread, SetFpn(t) PROVE RamOK' BY <1>6, RamSetFpn
<1>7. CASE UNCHANGED vars
  <2>1. UNCHANGED <<pgd, ramfree, claimed, pc, acc>> BY <1>7 DEF vars, devices
  <2> QED BY <1>0, <2>1, RamSame DEF HasFrame
<1> QED BY <1>1, <1>3, <1>4, <1>5, <1>6, <1>7 DEF Next

-----------------------------------------------------------------------------
(* Swap frames *)

\* The steps that leave their owners as they are
LEMMA SwapSame ==
  ASSUME SwapOK, UNCHANGED <<pgd, swpfree, claimed, swpsize>>,
         \A t \in Thread : /\ HasSwap(t)' <=> HasSwap(t)
                           /\ HasSwap(t) => acc'[t].swpfpn = acc[t].swpfpn,
         \A p \in claimed : Leaving(p)' <=> Leaving(p)
  PROVE  SwapOK'
<1>1. \A p : Online(p)' <=> Online(p) BY DEF Online
<1>2. ASSUME NEW t \in Thread, HasSwap(t)'
      PROVE  /\ acc'[t].swpfpn \in SwpFrame /\ ~Listed(swpfree, acc'[t].swpfpn)
             /\ \A p \in claimed : ~Online(p) => Swp(pgd[p]) # acc'[t].swpfpn
  BY <1>2 DEF SwapOK
<1>3. \A x \in SwapSpace :
       \/ Listed(swpfree, x)
       \/ \E p \in claimed : ~Online(p) /\ Swp(pgd[p]) = x
       \/ \E t \in Thread : HasSwap(t)' /\ acc'[t].swpfpn = x
  BY DEF SwapOK
<1> QED BY <1>1, <1>2, <1>3 DEF SwapOK, SwapSpace

\* The CPU in a call is at one of its steps.
LEMMA OneStep ==
  ASSUME TypeOK, NEW t \in Thread, Step(t), ~GiveUp(t)
  PROVE  /\ Check(t) => pc[t] = "check" /\ pc'[t] \in {"frame", "victim"}
         /\ FindVictim(t) => pc[t] = "victim" /\ pc'[t] = "getswp"
         /\ ReadSwapHead(t) => pc[t] = "getswp" /\ pc'[t] = "takeswp"
         /\ TakeSwap(t) => pc[t] = "takeswp" /\ pc'[t] = "swapout"
         /\ SwapOut(t) => pc[t] = "swapout" /\ pc'[t] = "setswap"
         /\ SetSwap(t) => pc[t] = "setswap" /\ pc'[t] = "swapin"
         /\ SwapIn(t) => pc[t] = "swapin" /\ pc'[t] = "putread"
         /\ ReadPutHead(t) => pc[t] = "putread" /\ pc'[t] = "putlink"
         /\ LinkPut(t) => pc[t] = "putlink" /\ pc'[t] = "setfpn"
         /\ SetFpn(t) => pc[t] = "setfpn" /\ pc'[t] = "enlist"
         /\ Enlist(t) => pc[t] = "enlist" /\ pc'[t] = "frame"
         /\ GetFrame(t) => pc[t] = "frame" /\ pc'[t] = "access"
         /\ Access(t) => pc[t] = "access" /\ pc'[t] = "return"
         /\ Return(t) => pc[t] = "return" /\ pc'[t] = "idle"
<1>1. pc \in [Thread -> Labels] BY TypeFacts
<1>2. \A l : pc' = [pc EXCEPT ![t] = l] => pc'[t] = l BY <1>1
<1>3. Check(t) => pc[t] = "check" /\ \E l \in {"frame", "victim"} : pc' = [pc EXCEPT ![t] = l]
  BY DEF Check, At, Goto
<1> QED BY <1>2, <1>3
        DEF FindVictim, ReadSwapHead, TakeSwap, SwapOut, SetSwap, SwapIn, ReadPutHead, LinkPut,
            SetFpn, Enlist, GetFrame, Access, Return, At, Goto

\* What a step other than the four below does to the swap frame a fault holds
LEMMA SwapHeldSame ==
  ASSUME IInv, NEW t \in Thread, Step(t), ~TakeSwap(t), ~SetSwap(t), ~LinkPut(t), ~SetFpn(t)
  PROVE  /\ swpfree' = swpfree
         /\ HasSwap(t)' <=> HasSwap(t)
         /\ HasSwap(t) => acc'[t].swpfpn = acc[t].swpfpn
         /\ pc[t] # "setfpn" /\ pc'[t] # "setfpn"
<1>0. TypeOK BY DEF IInv
<1>1. swpfree' = swpfree
  BY DEF Step, Fault, Check, FindVictim, ReadSwapHead, SwapOut, SwapIn, ReadPutHead,
         Enlist, GetFrame, Access, Return, devices
<1>2. CASE GiveUp(t)
  <2>1. pc'[t] = "return" /\ acc' = acc BY <1>0, <1>2, GiveUpEffect
  <2>2. ~HasSwap(t) /\ pc[t] # "setfpn"
    <3>1. ~SwapOut(t) BY <2>1, <1>0, TypeFacts DEF SwapOut, Goto
    <3> QED BY <3>1 DEF Step, Fault, Check, FindVictim, ReadSwapHead, SwapIn, ReadPutHead,
                        Enlist, GetFrame, Access, Return, HasSwap, At
  <2> QED BY <1>1, <2>1, <2>2 DEF HasSwap
<1>3. CASE ~GiveUp(t)
  <2>2. CASE SwapOut(t)
    <3>1. pc[t] = "swapout" /\ pc'[t] = "setswap" BY <1>0, <1>3, <2>2, OneStep
    <3>2. acc' = [acc EXCEPT ![t].vicfpn = Fpn(pgd[acc[t].vicpgn])] BY <2>2 DEF SwapOut, Set
    <3>3. acc'[t].swpfpn = acc[t].swpfpn BY <1>0, <3>2, TypeFacts DEF Acc
    <3> QED BY <1>1, <3>1, <3>3 DEF HasSwap
  <2>3. CASE ~SwapOut(t)
    <3> QED BY <1>0, <1>1, <1>3, <2>3, OneStep DEF HasSwap, Step, Fault
  <2> QED BY <2>2, <2>3
<1> QED BY <1>2, <1>3

\* A page mapped in RAM has no swap frame.
LEMMA SwapMapRam ==
  ASSUME TypeOK, SwapOK, Quiet, NEW p \in Page, AddedRam(p)
  PROVE  SwapOK'
<1>0. SwapOK /\ claimed \subseteq Page BY TypeFacts
<1>1. /\ p \notin claimed /\ claimed' = claimed \cup {p} /\ UNCHANGED pc
      /\ \A q \in Page \ {p} : pgd'[q] = pgd[q]
      /\ Present(pgd'[p]) /\ ~Swapped(pgd'[p]) /\ swpfree' = swpfree
  BY DEF AddedRam, Added
<1>3. /\ \A q \in claimed : q # p /\ pgd'[q] = pgd[q] /\ (Online(q)' <=> Online(q))
      /\ Online(p)'
  BY <1>0, <1>1 DEF Online
<1>4. \A u \in Thread : ~HasSwap(u) /\ ~HasSwap(u)' BY <1>1 DEF Quiet, HasSwap
<1>5. \A q \in Page : ~Leaving(q) /\ ~Leaving(q)' BY <1>1 DEF Quiet, Leaving
<1>7. \A q \in claimed' : ~Online(q)' =>
        Swp(pgd'[q]) \in SwpFrame /\ (Listed(swpfree', Swp(pgd'[q])) <=> Leaving(q)')
  BY <1>0, <1>1, <1>3, <1>5 DEF SwapOK
<1>8. \A q, r \in claimed' : ~Online(q)' /\ ~Online(r)' /\ Swp(pgd'[q]) = Swp(pgd'[r]) => q = r
  BY <1>0, <1>1, <1>3 DEF SwapOK
<1>9. ASSUME NEW x \in SwapSpace
      PROVE  \/ Listed(swpfree', x)
             \/ \E q \in claimed' : ~Online(q)' /\ Swp(pgd'[q]) = x
  BY <1>0, <1>1, <1>3, <1>4 DEF SwapOK
<1>10. Distinct(swpfree') BY <1>0, <1>1 DEF SwapOK
<1>11. SwapSpace' = SwapSpace BY DEF AddedRam, SwapSpace
<1> QED BY <1>4, <1>7, <1>8, <1>9, <1>10, <1>11 DEF SwapOK

\* The frame that a call takes for its victim: the list is still the one it saw.
LEMMA SwapTake ==
  ASSUME Sound, IInv, NEW t \in Thread, TakeSwap(t)
  PROVE  SwapOK'
<1>0. SwapOK /\ AccOK /\ claimed \subseteq Page /\ swpfree \in Seq(SwpFrame) /\ TypeOK
  BY TypeFacts DEF IInv, TypeOK
<1>v. PICK f : f = Head(swpfree) OBVIOUS
<1>1. /\ swpfree' = Tail(acc[t].seen) /\ UNCHANGED <<pgd, claimed>>
      /\ acc' = [acc EXCEPT ![t].swpfpn = Head(acc[t].seen)]
      /\ pc[t] = "takeswp" /\ pc' = [pc EXCEPT ![t] = "swapout"]
  BY DEF TakeSwap, Mswp!GetFreeFp, Set, At, Goto
<1>2. pc'[t] = "swapout" /\ acc[t].seen = swpfree /\ swpfree # <<>>
  BY <1>0, <1>1, TypeFacts DEF AccOK, LocalsOK
<1>3. acc'[t].swpfpn = f BY <1>v, <1>0, <1>1, <1>2, TypeFacts DEF Acc
<1>4. /\ Distinct(swpfree') /\ Listed(swpfree, f) /\ f \in SwpFrame
      /\ \A x : Listed(swpfree', x) <=> Listed(swpfree, x) /\ x # f
  <2>1. Head(swpfree) \in SwpFrame BY <1>0, <1>2
  <2> QED BY <1>v, <1>0, <1>1, <1>2, <2>1, TailList DEF SwapOK
<1>5. \A u \in Thread \ {t} : pc[u] = "idle" /\ pc'[u] = "idle" BY Alone DEF Step, Fault, IInv
<1>6. /\ HasSwap(t)' /\ \A u \in Thread : HasSwap(u)' => u = t
      /\ \A u \in Thread : ~HasSwap(u)
      /\ \A p \in Page : ~Leaving(p) /\ ~Leaving(p)'
  BY <1>1, <1>2, <1>5 DEF HasSwap, Leaving
<1>7. \A q : Online(q)' <=> Online(q) BY <1>1 DEF Online
<1>8. \A q \in claimed : ~Online(q) => /\ Swp(pgd[q]) \in SwpFrame /\ Swp(pgd[q]) # f
                                     /\ ~Listed(swpfree, Swp(pgd[q]))
  BY <1>0, <1>4, <1>6 DEF SwapOK
<1>9. \A q \in claimed' : ~Online(q)' =>
        Swp(pgd'[q]) \in SwpFrame /\ (Listed(swpfree', Swp(pgd'[q])) <=> Leaving(q)')
  BY <1>0, <1>1, <1>4, <1>6, <1>7, <1>8
<1>10. \A q, r \in claimed' : ~Online(q)' /\ ~Online(r)' /\ Swp(pgd'[q]) = Swp(pgd'[r]) => q = r
  BY <1>0, <1>1, <1>7 DEF SwapOK
<1>11. \A u \in Thread : HasSwap(u)' =>
       /\ acc'[u].swpfpn \in SwpFrame /\ ~Listed(swpfree', acc'[u].swpfpn)
       /\ \A p \in claimed' : ~Online(p)' => Swp(pgd'[p]) # acc'[u].swpfpn
  BY <1>1, <1>3, <1>4, <1>6, <1>7, <1>8
<1>12. ASSUME NEW x \in SwapSpace
       PROVE  \/ Listed(swpfree', x)
              \/ \E p \in claimed' : ~Online(p)' /\ Swp(pgd'[p]) = x
              \/ \E u \in Thread : HasSwap(u)' /\ acc'[u].swpfpn = x
  <2>1. CASE x = f BY <1>3, <1>6, <2>1
  <2>2. CASE x # f /\ Listed(swpfree, x) BY <1>4, <2>2
  <2>3. CASE \E q \in claimed : ~Online(q) /\ Swp(pgd[q]) = x BY <1>1, <1>7, <2>3
  <2> QED BY <1>0, <1>6, <2>1, <2>2, <2>3 DEF SwapOK
<1>s. SwapSpace' = SwapSpace BY SameSpace DEF Next, Step, Fault
<1> QED BY <1>4, <1>9, <1>10, <1>11, <1>12, <1>s DEF SwapOK

\* It passes to the victim.
LEMMA SwapSetSwap ==
  ASSUME Sound, IInv, NEW t \in Thread, SetSwap(t)
  PROVE  SwapOK'
<1>0. SwapOK /\ claimed \subseteq Page BY TypeFacts DEF IInv
<1>v. PICK v, f : v = acc[t].vicpgn /\ f = acc[t].swpfpn OBVIOUS
<1>1. /\ pc[t] = "setswap" /\ pc'[t] = "swapin" /\ v \in claimed /\ Online(v)
      /\ \A p \in Page \ {v} : pgd'[p] = pgd[p]
      /\ ~Present(pgd'[v]) /\ Swp(pgd'[v]) = f /\ UNCHANGED <<claimed, acc>>
  BY <1>v, SetSwapEffect
<1>2. \A u \in Thread \ {t} : pc[u] = "idle" /\ pc'[u] = "idle" BY Alone DEF Step, Fault, IInv
<1>3. swpfree' = swpfree BY DEF SetSwap, devices
<1>4. /\ \A q \in claimed : q # v => pgd'[q] = pgd[q] /\ (Online(q)' <=> Online(q))
      /\ ~Online(v)'
  BY <1>0, <1>1 DEF Online
<1>5. /\ HasSwap(t) /\ \A u \in Thread : ~HasSwap(u)'
      /\ \A u \in Thread : HasSwap(u) => u = t
      /\ \A p \in Page : ~Leaving(p) /\ ~Leaving(p)'
  BY <1>1, <1>2 DEF HasSwap, Leaving
<1>6. /\ f \in SwpFrame /\ ~Listed(swpfree, f)
      /\ \A q \in claimed : ~Online(q) => Swp(pgd[q]) # f
  BY <1>v, <1>0, <1>5 DEF SwapOK
<1>7. \A q \in claimed' : ~Online(q)' =>
        Swp(pgd'[q]) \in SwpFrame /\ (Listed(swpfree', Swp(pgd'[q])) <=> Leaving(q)')
  <2>1. ASSUME NEW q \in claimed, ~Online(q)', q # v
        PROVE  Swp(pgd'[q]) \in SwpFrame /\ (Listed(swpfree', Swp(pgd'[q])) <=> Leaving(q)')
    BY <1>0, <1>3, <1>4, <1>5, <2>1 DEF SwapOK
  <2> QED BY <1>0, <1>1, <1>3, <1>5, <1>6, <2>1
<1>8. ASSUME NEW q \in claimed, NEW r \in claimed, ~Online(q)', ~Online(r)',
             Swp(pgd'[q]) = Swp(pgd'[r])
      PROVE  q = r
  <2>1. CASE q = v /\ r = v BY <2>1
  <2>2. CASE q = v /\ r # v BY <1>1, <1>4, <1>6, <1>8, <2>2
  <2>3. CASE q # v /\ r = v BY <1>1, <1>4, <1>6, <1>8, <2>3
  <2>4. CASE q # v /\ r # v BY <1>0, <1>4, <1>8, <2>4 DEF SwapOK
  <2> QED BY <2>1, <2>2, <2>3, <2>4
<1>9. ASSUME NEW x \in SwapSpace
      PROVE  \/ Listed(swpfree', x)
             \/ \E q \in claimed' : ~Online(q)' /\ Swp(pgd'[q]) = x
  <2>1. CASE x = f BY <1>1, <1>4, <2>1
  <2>2. CASE Listed(swpfree, x) BY <1>3, <2>2
  <2>3. CASE \E q \in claimed : ~Online(q) /\ Swp(pgd[q]) = x BY <1>1, <1>4, <2>3
  <2> QED BY <1>v, <1>0, <1>5, <2>1, <2>2, <2>3 DEF SwapOK
<1>10. Distinct(swpfree') BY <1>0, <1>3 DEF SwapOK
<1>11. \A q, r \in claimed' : ~Online(q)' /\ ~Online(r)' /\ Swp(pgd'[q]) = Swp(pgd'[r]) => q = r
  BY <1>1, <1>8
<1>s. SwapSpace' = SwapSpace BY SameSpace DEF Next, Step, Fault
<1> QED BY <1>5, <1>7, <1>9, <1>10, <1>11, <1>s DEF SwapOK

\* The frame of the page that has been copied in goes back to the list.
LEMMA SwapPut ==
  ASSUME Sound, IInv, NEW t \in Thread, LinkPut(t)
  PROVE  SwapOK'
<1>0. SwapOK /\ AccOK /\ TypeOK /\ claimed \subseteq Page /\ swpfree \in Seq(SwpFrame)
  BY TypeFacts DEF IInv, TypeOK
<1>v. PICK p, f : p = acc[t].pgn /\ f = Source(t) OBVIOUS
<1>1. /\ swpfree' = <<f>> \o acc[t].seen /\ UNCHANGED <<pgd, claimed, acc>>
      /\ pc[t] = "putlink" /\ pc' = [pc EXCEPT ![t] = "setfpn"]
  BY <1>v DEF LinkPut, PutSwap, Mswp!PutFreeFp, At, Goto
<1>2. /\ pc'[t] = "setfpn" /\ acc[t].seen = swpfree
      /\ p \in claimed /\ ~Online(p) /\ f = Swp(pgd[p])
  BY <1>v, <1>0, <1>1, TypeFacts DEF AccOK, LocalsOK, Faulting, Source
<1>3. \A u \in Thread \ {t} : pc[u] = "idle" /\ pc'[u] = "idle" BY Alone DEF Step, Fault, IInv
<1>4. \A q \in Page : ~Leaving(q) /\ (Leaving(q)' <=> q = p)
  BY <1>v, <1>1, <1>2, <1>3 DEF Leaving
<1>5. \A u \in Thread : ~HasSwap(u) /\ ~HasSwap(u)' BY <1>1, <1>2, <1>3 DEF HasSwap
<1>6. \A q : Online(q)' <=> Online(q) BY <1>1 DEF Online
<1>7. \A q \in claimed : ~Online(q) => Swp(pgd[q]) \in SwpFrame /\ ~Listed(swpfree, Swp(pgd[q]))
  BY <1>0, <1>4 DEF SwapOK
<1>8. f \in SwpFrame /\ ~Listed(swpfree, f) BY <1>2, <1>7
<1>9. Distinct(swpfree') /\ \A x : Listed(swpfree', x) <=> x = f \/ Listed(swpfree, x)
  BY <1>0, <1>1, <1>2, <1>8, ConsList DEF SwapOK
<1>10. \A q, r \in claimed : ~Online(q) /\ ~Online(r) /\ Swp(pgd[q]) = Swp(pgd[r]) => q = r
  BY <1>0 DEF SwapOK
<1>11. \A q \in claimed' : ~Online(q)' =>
        Swp(pgd'[q]) \in SwpFrame /\ (Listed(swpfree', Swp(pgd'[q])) <=> Leaving(q)')
  BY <1>0, <1>1, <1>2, <1>4, <1>6, <1>7, <1>9, <1>10
<1>12. ASSUME NEW x \in SwapSpace
      PROVE  \/ Listed(swpfree', x)
             \/ \E q \in claimed' : ~Online(q)' /\ Swp(pgd'[q]) = x
  BY <1>0, <1>1, <1>5, <1>6, <1>9 DEF SwapOK
<1>13. \A q, r \in claimed' : ~Online(q)' /\ ~Online(r)' /\ Swp(pgd'[q]) = Swp(pgd'[r]) => q = r
  BY <1>1, <1>6, <1>10
<1>s. SwapSpace' = SwapSpace BY SameSpace DEF Next, Step, Fault
<1> QED BY <1>5, <1>9, <1>11, <1>12, <1>13, <1>s DEF SwapOK

\* And is no longer named by its entry.
LEMMA SwapSetFpn ==
  ASSUME Sound, IInv, NEW t \in Thread, SetFpn(t)
  PROVE  SwapOK'
<1>0. SwapOK /\ claimed \subseteq Page BY TypeFacts DEF IInv
<1>v. PICK p : p = acc[t].pgn OBVIOUS
<1>1. /\ pc[t] = "setfpn" /\ pc'[t] = "enlist" /\ p \in claimed /\ ~Online(p)
      /\ \A q \in Page \ {p} : pgd'[q] = pgd[q]
      /\ Present(pgd'[p]) /\ ~Swapped(pgd'[p]) /\ UNCHANGED <<claimed, acc>>
  BY <1>v, SetFpnEffect
<1>2. \A u \in Thread \ {t} : pc[u] = "idle" /\ pc'[u] = "idle" BY Alone DEF Step, Fault, IInv
<1>3. swpfree' = swpfree BY DEF SetFpn, devices
<1>4. \A q \in Page : ~Leaving(q)' /\ (Leaving(q) <=> q = p)
  BY <1>v, <1>1, <1>2 DEF Leaving
<1>5. \A u \in Thread : ~HasSwap(u) /\ ~HasSwap(u)' BY <1>1, <1>2 DEF HasSwap
<1>6. /\ \A q \in claimed : q # p => pgd'[q] = pgd[q] /\ (Online(q)' <=> Online(q))
      /\ Online(p)'
  BY <1>0, <1>1 DEF Online
<1>7. \A q \in claimed : ~Online(q)' => q # p /\ ~Online(q) /\ pgd'[q] = pgd[q] BY <1>6
<1>8. \A q \in claimed' : ~Online(q)' =>
        Swp(pgd'[q]) \in SwpFrame /\ (Listed(swpfree', Swp(pgd'[q])) <=> Leaving(q)')
  BY <1>0, <1>1, <1>3, <1>4, <1>7 DEF SwapOK
<1>9. \A q, r \in claimed' : ~Online(q)' /\ ~Online(r)' /\ Swp(pgd'[q]) = Swp(pgd'[r]) => q = r
  BY <1>0, <1>1, <1>7 DEF SwapOK
<1>10. Listed(swpfree, Swp(pgd[p])) BY <1>0, <1>1, <1>4 DEF SwapOK
<1>11. ASSUME NEW x \in SwapSpace
       PROVE  \/ Listed(swpfree', x)
              \/ \E q \in claimed' : ~Online(q)' /\ Swp(pgd'[q]) = x
  <2>1. CASE Listed(swpfree, x) BY <1>3, <2>1
  <2>2. ASSUME NEW q \in claimed, ~Online(q), Swp(pgd[q]) = x
        PROVE  \/ Listed(swpfree', x)
               \/ \E r \in claimed' : ~Online(r)' /\ Swp(pgd'[r]) = x
    <3>1. CASE q = p BY <1>3, <1>10, <2>2, <3>1
    <3>2. CASE q # p BY <1>1, <1>6, <2>2, <3>2
    <3> QED BY <3>1, <3>2
  <2> QED BY <1>0, <1>5, <2>1, <2>2 DEF SwapOK
<1>12. Distinct(swpfree') BY <1>0, <1>3 DEF SwapOK
<1>s. SwapSpace' = SwapSpace BY SameSpace DEF Next, Step, Fault
<1> QED BY <1>5, <1>8, <1>9, <1>11, <1>12, <1>s DEF SwapOK

\* Every step leaves a swap frame one owner.
LEMMA SwapStep ==
  ASSUME Sound, IInv, [Next]_vars
  PROVE  SwapOK'
<1>0. SwapOK BY DEF IInv
<1>1. ASSUME NEW p \in Page, MapRam(p) PROVE SwapOK' BY <1>1, MapAdds, SwapMapRam DEF IInv
<1>3. ASSUME NEW t \in Thread, Call(t) PROVE SwapOK'
  <2>1. UNCHANGED <<pgd, swpfree, claimed, swpsize>> BY <1>3 DEF Call, devices
  <2>2. \A u \in Thread : pc[u] = "idle" /\ pc'[u] \in {"idle", "check"} BY <1>3, Begins DEF Sound, IInv
  <2>3. \A u \in Thread : ~HasSwap(u) /\ ~HasSwap(u)' BY <2>2 DEF HasSwap
  <2>4. \A p \in claimed : ~Leaving(p) /\ ~Leaving(p)' BY <2>2 DEF Leaving
  <2> QED BY <1>0, <2>1, <2>3, <2>4, SwapSame
<1>4. ASSUME NEW t \in Thread, Step(t), ~TakeSwap(t), ~SetSwap(t), ~LinkPut(t), ~SetFpn(t)
      PROVE  SwapOK'
  <2>1. UNCHANGED <<pgd, swpfree, claimed, swpsize>>
    BY <1>4, SameTable, SameMapped, SwapHeldSame, SameSpace
  <2>2. \A u \in Thread \ {t} : pc[u] = "idle" /\ pc'[u] = "idle" BY <1>4, Alone DEF IInv
  <2>3. /\ HasSwap(t)' <=> HasSwap(t)
        /\ HasSwap(t) => acc'[t].swpfpn = acc[t].swpfpn
        /\ pc[t] # "setfpn" /\ pc'[t] # "setfpn"
    BY <1>4, SwapHeldSame
  <2>4. \A u \in Thread \ {t} : ~HasSwap(u) /\ ~HasSwap(u)' BY <2>2 DEF HasSwap
  <2>5. \A p \in claimed : ~Leaving(p) /\ ~Leaving(p)' BY <2>2, <2>3 DEF Leaving
  <2> QED BY <1>0, <2>1, <2>3, <2>4, <2>5, SwapSame
<1>5. ASSUME NEW t \in Thread, TakeSwap(t) PROVE SwapOK' BY <1>5, SwapTake
<1>6. ASSUME NEW t \in Thread, SetSwap(t) PROVE SwapOK' BY <1>6, SwapSetSwap
<1>7. ASSUME NEW t \in Thread, LinkPut(t) PROVE SwapOK' BY <1>7, SwapPut
<1>8. ASSUME NEW t \in Thread, SetFpn(t) PROVE SwapOK' BY <1>8, SwapSetFpn
<1>9. CASE UNCHANGED vars
  <2>1. UNCHANGED <<pgd, swpfree, claimed, swpsize, pc, acc>> BY <1>9 DEF vars, devices
  <2> QED BY <1>0, <2>1, SwapSame DEF HasSwap, Leaving
<1> QED BY <1>1, <1>3, <1>4, <1>5, <1>6, <1>7, <1>8, <1>9 DEF Next

-----------------------------------------------------------------------------
(* The list of pages in RAM *)

\* The steps that leave it and what it depends on as they are
LEMMA FifoSame ==
  ASSUME FifoOK, stranded \subseteq claimed, claimed \subseteq Page,
         UNCHANGED <<fifo_pgn, stranded, claimed>>,
         \A p \in Page : /\ Online(p)' <=> Online(p)
                         /\ Out(p)' <=> Out(p)
                         /\ In(p)' <=> In(p)
  PROVE  FifoOK'
<1>1. \A p \in Page : Listed(fifo_pgn, p) <=>
        p \in claimed /\ Online(p)' /\ ~Out(p)' /\ ~In(p)' /\ p \notin stranded
  BY DEF FifoOK
<1>2. \A p \in stranded : Online(p)' /\ ~Out(p)' /\ ~In(p)' BY DEF FifoOK
<1>3. Distinct(fifo_pgn) BY DEF FifoOK
<1> QED BY <1>1, <1>2, <1>3 DEF FifoOK

\* A step of CPU t concerns the victim and the page of its own call only.
LEMMA OutIn ==
  ASSUME IInv, NEW t \in Thread, Step(t)
  PROVE  /\ \A p : Out(p) <=> HasVictim(t) /\ acc[t].vicpgn = p
         /\ \A p : Out(p)' <=> HasVictim(t)' /\ acc'[t].vicpgn = p
         /\ \A p : In(p) <=> pc[t] = "enlist" /\ acc[t].pgn = p
         /\ \A p : In(p)' <=> pc'[t] = "enlist" /\ acc'[t].pgn = p
<1>1. \A u \in Thread \ {t} : pc[u] = "idle" /\ pc'[u] = "idle" BY Alone DEF IInv
<1>2. /\ \A u \in Thread : HasVictim(u) => u = t
      /\ \A u \in Thread : HasVictim(u)' => u = t
      /\ \A u \in Thread : pc[u] = "enlist" \/ pc'[u] = "enlist" => u = t
  BY <1>1 DEF HasVictim
<1> QED BY <1>2 DEF Out, In

\* A page mapped in RAM is put on the list.
LEMMA FifoMapRam ==
  ASSUME TypeOK, FifoOK, Quiet, NEW p \in Page, AddedRam(p)
  PROVE  FifoOK'
<1>0. FifoOK /\ claimed \subseteq Page /\ stranded \subseteq claimed /\ fifo_pgn \in Seq(Page)
  BY TypeFacts DEF TypeOK
<1>1. /\ p \notin claimed /\ claimed' = claimed \cup {p} /\ UNCHANGED <<pc, acc, stranded>>
      /\ \A q \in Page \ {p} : pgd'[q] = pgd[q]
      /\ Present(pgd'[p]) /\ ~Swapped(pgd'[p])
  BY DEF AddedRam, Added
<1>2. fifo_pgn' = <<p>> \o fifo_pgn BY DEF AddedRam
<1>3. ~Listed(fifo_pgn, p) BY <1>0, <1>1 DEF FifoOK
<1>4. Distinct(fifo_pgn') /\ \A q : Listed(fifo_pgn', q) <=> q = p \/ Listed(fifo_pgn, q)
  BY <1>0, <1>2, <1>3, ConsList DEF FifoOK
<1>5. /\ \A q \in Page : q # p => (Online(q)' <=> Online(q))
      /\ Online(p)' /\ p \notin stranded
  BY <1>0, <1>1 DEF Online
<1>6. \A q : ~Out(q) /\ ~Out(q)' /\ ~In(q) /\ ~In(q)' BY <1>1 DEF Quiet, Out, In, HasVictim
<1>7. \A q \in Page : Listed(fifo_pgn', q) <=>
        q \in claimed' /\ Online(q)' /\ ~Out(q)' /\ ~In(q)' /\ q \notin stranded'
  BY <1>0, <1>1, <1>4, <1>5, <1>6 DEF FifoOK
<1>8. \A q \in stranded' : Online(q)' /\ ~Out(q)' /\ ~In(q)'
  BY <1>0, <1>1, <1>5, <1>6 DEF FifoOK
<1> QED BY <1>4, <1>7, <1>8 DEF FifoOK

\* The last page leaves the list and is the victim.
LEMMA FifoVictim ==
  ASSUME Sound, IInv, NEW t \in Thread, FindVictim(t), ~GiveUp(t)
  PROVE  FifoOK'
<1>0. FifoOK /\ TypeOK /\ claimed \subseteq Page /\ stranded \subseteq claimed
      /\ fifo_pgn \in Seq(Page)
  BY TypeFacts DEF IInv, TypeOK
<1>v. PICK v : v = fifo_pgn[Len(fifo_pgn)] OBVIOUS
<1>1. /\ acc' = [acc EXCEPT ![t].vicpgn = v] /\ UNCHANGED <<pgd, claimed, stranded>>
      /\ fifo_pgn' = SubSeq(fifo_pgn, 1, Len(fifo_pgn) - 1) /\ ~Victimless(fifo_pgn)
  BY <1>v DEF FindVictim, Set
<1>2. pc[t] = "victim" /\ pc'[t] = "getswp" BY <1>0, OneStep DEF Step, Fault
<1>3. acc'[t].vicpgn = v BY <1>0, <1>1, TypeFacts DEF Acc
<1>4. fifo_pgn # <<>> BY <1>1 DEF Victimless
<1>5. /\ Distinct(fifo_pgn') /\ Listed(fifo_pgn, v)
      /\ \A x : Listed(fifo_pgn', x) <=> Listed(fifo_pgn, x) /\ x # v
  BY <1>v, <1>0, <1>1, <1>4, LastList DEF FifoOK
<1>6. \A p \in Page : /\ Online(p)' <=> Online(p)
                      /\ ~Out(p) /\ ~In(p) /\ ~In(p)' /\ (Out(p)' <=> p = v)
  BY <1>1, <1>2, <1>3, OutIn DEF Step, Fault, HasVictim, Online
<1>7. v \in Page
  <2>1. Len(fifo_pgn) \in DOMAIN fifo_pgn BY <1>0, <1>4
  <2> QED BY <1>v, <1>0, <2>1
<1>8. v \notin stranded BY <1>0, <1>5, <1>7 DEF FifoOK
<1>9. \A q \in Page : Listed(fifo_pgn', q) <=>
        q \in claimed' /\ Online(q)' /\ ~Out(q)' /\ ~In(q)' /\ q \notin stranded'
  BY <1>0, <1>1, <1>5, <1>6 DEF FifoOK
<1>10. \A q \in stranded' : Online(q)' /\ ~Out(q)' /\ ~In(q)'
  BY <1>0, <1>1, <1>6, <1>8 DEF FifoOK
<1> QED BY <1>5, <1>9, <1>10 DEF FifoOK

\* The victim of a fault that finds no swap frame
LEMMA FifoStrand ==
  ASSUME Sound, IInv, NEW t \in Thread, ReadSwapHead(t), GiveUp(t)
  PROVE  FifoOK'
<1>0. FifoOK /\ AccOK /\ TypeOK /\ claimed \subseteq Page /\ stranded \subseteq claimed
  BY TypeFacts DEF IInv, TypeOK
<1>v. PICK v : v = acc[t].vicpgn OBVIOUS
<1>1. pc[t] = "getswp" /\ pc'[t] = "return" /\ acc' = acc
  BY <1>0, GiveUpEffect DEF ReadSwapHead, At
<1>2. swpfree = <<>>
  <2>1. CASE swpfree # <<>>
    <3>1. pc' = [pc EXCEPT ![t] = "takeswp"] BY <2>1 DEF ReadSwapHead, Goto
    <3>2. pc'[t] = "takeswp" BY <1>0, <3>1, TypeFacts
    <3> QED BY <1>1, <3>2
  <2> QED BY <2>1
<1>3. UNCHANGED <<pgd, fifo_pgn, claimed>> /\ stranded' = stranded \cup {v}
  BY <1>v, <1>2 DEF ReadSwapHead
<1>4. v \in claimed /\ Online(v) BY <1>v, <1>0, <1>1 DEF AccOK, LocalsOK, HasVictim
<1>5. \A p \in Page : /\ Online(p)' <=> Online(p)
                      /\ ~Out(p)' /\ ~In(p) /\ ~In(p)' /\ (Out(p) <=> p = v)
  BY <1>v, <1>1, <1>3, OutIn DEF Step, Fault, HasVictim, Online
<1>6. \A q \in Page : Listed(fifo_pgn', q) <=>
        q \in claimed' /\ Online(q)' /\ ~Out(q)' /\ ~In(q)' /\ q \notin stranded'
  BY <1>0, <1>3, <1>4, <1>5 DEF FifoOK
<1>7. \A q \in stranded' : Online(q)' /\ ~Out(q)' /\ ~In(q)'
  BY <1>0, <1>3, <1>4, <1>5 DEF FifoOK
<1> QED BY <1>0, <1>3, <1>6, <1>7 DEF FifoOK

\* The victim is in swap.
LEMMA FifoSetSwap ==
  ASSUME Sound, IInv, NEW t \in Thread, SetSwap(t)
  PROVE  FifoOK'
<1>0. FifoOK /\ claimed \subseteq Page /\ stranded \subseteq claimed BY TypeFacts DEF IInv, TypeOK
<1>v. PICK v : v = acc[t].vicpgn OBVIOUS
<1>1. /\ pc[t] = "setswap" /\ pc'[t] = "swapin" /\ v \in claimed /\ Online(v)
      /\ \A p \in Page \ {v} : pgd'[p] = pgd[p]
      /\ ~Present(pgd'[v]) /\ UNCHANGED <<claimed, acc>>
  BY <1>v, SetSwapEffect
<1>2. UNCHANGED <<fifo_pgn, stranded>> BY DEF SetSwap
<1>3. \A p \in Page : /\ p # v => (Online(p)' <=> Online(p))
                      /\ ~Out(p)' /\ ~In(p) /\ ~In(p)' /\ (Out(p) <=> p = v)
  BY <1>v, <1>1, OutIn DEF Step, Fault, HasVictim, Online
<1>4. ~Online(v)' BY <1>1 DEF Online
<1>5. \A q \in Page : Listed(fifo_pgn', q) <=>
        q \in claimed' /\ Online(q)' /\ ~Out(q)' /\ ~In(q)' /\ q \notin stranded'
  BY <1>0, <1>1, <1>2, <1>3, <1>4 DEF FifoOK
<1>6. \A q \in stranded' : Online(q)' /\ ~Out(q)' /\ ~In(q)'
  BY <1>0, <1>2, <1>3 DEF FifoOK
<1> QED BY <1>0, <1>2, <1>5, <1>6 DEF FifoOK

\* The page of the call is in RAM and not on the list yet.
LEMMA FifoSetFpn ==
  ASSUME Sound, IInv, NEW t \in Thread, SetFpn(t)
  PROVE  FifoOK'
<1>0. FifoOK /\ claimed \subseteq Page /\ stranded \subseteq claimed BY TypeFacts DEF IInv, TypeOK
<1>v. PICK p : p = acc[t].pgn OBVIOUS
<1>1. /\ pc[t] = "setfpn" /\ pc'[t] = "enlist" /\ p \in claimed /\ ~Online(p)
      /\ \A q \in Page \ {p} : pgd'[q] = pgd[q]
      /\ Present(pgd'[p]) /\ ~Swapped(pgd'[p]) /\ UNCHANGED <<claimed, acc>>
  BY <1>v, SetFpnEffect
<1>2. UNCHANGED <<fifo_pgn, stranded>> BY DEF SetFpn
<1>3. \A q \in Page : /\ q # p => (Online(q)' <=> Online(q))
                      /\ ~Out(q) /\ ~Out(q)' /\ ~In(q) /\ (In(q)' <=> q = p)
  BY <1>v, <1>1, OutIn DEF Step, Fault, HasVictim, Online
<1>4. Online(p)' BY <1>1 DEF Online
<1>5. \A q \in Page : Listed(fifo_pgn', q) <=>
        q \in claimed' /\ Online(q)' /\ ~Out(q)' /\ ~In(q)' /\ q \notin stranded'
  BY <1>0, <1>1, <1>2, <1>3, <1>4 DEF FifoOK
<1>6. \A q \in stranded' : Online(q)' /\ ~Out(q)' /\ ~In(q)'
  BY <1>0, <1>1, <1>2, <1>3 DEF FifoOK
<1> QED BY <1>0, <1>2, <1>5, <1>6 DEF FifoOK

\* It is put on the list.
LEMMA FifoEnlist ==
  ASSUME Sound, IInv, NEW t \in Thread, Enlist(t)
  PROVE  FifoOK'
<1>0. FifoOK /\ AccOK /\ TypeOK /\ claimed \subseteq Page /\ stranded \subseteq claimed
      /\ fifo_pgn \in Seq(Page) /\ pc \in [Thread -> Labels]
  BY TypeFacts DEF IInv, TypeOK
<1>v. PICK p : p = acc[t].pgn OBVIOUS
<1>1. /\ pc[t] = "enlist" /\ pc' = [pc EXCEPT ![t] = "frame"] /\ fifo_pgn' = <<p>> \o fifo_pgn
      /\ UNCHANGED <<pgd, claimed, acc, stranded>>
  BY <1>v DEF Enlist, EnlistPgn, At, Goto
<1>2. pc'[t] = "frame" BY <1>0, <1>1
<1>3. p \in claimed /\ Online(p) BY <1>v, <1>0, <1>1 DEF AccOK, LocalsOK, InRam
<1>4. \A q \in Page : /\ Online(q)' <=> Online(q)
                      /\ ~Out(q) /\ ~Out(q)' /\ ~In(q)' /\ (In(q) <=> q = p)
  BY <1>v, <1>1, <1>2, OutIn DEF Step, Fault, HasVictim, Online
<1>5. ~Listed(fifo_pgn, p) /\ p \notin stranded /\ p \in Page
  BY <1>0, <1>3, <1>4 DEF FifoOK
<1>6. Distinct(fifo_pgn') /\ \A q : Listed(fifo_pgn', q) <=> q = p \/ Listed(fifo_pgn, q)
  BY <1>0, <1>1, <1>5, ConsList DEF FifoOK
<1>7. \A q \in Page : Listed(fifo_pgn', q) <=>
        q \in claimed' /\ Online(q)' /\ ~Out(q)' /\ ~In(q)' /\ q \notin stranded'
  BY <1>0, <1>1, <1>3, <1>4, <1>5, <1>6 DEF FifoOK
<1>8. \A q \in stranded' : Online(q)' /\ ~Out(q)' /\ ~In(q)'
  BY <1>0, <1>1, <1>4 DEF FifoOK
<1> QED BY <1>6, <1>7, <1>8 DEF FifoOK

\* The other steps of a CPU
LEMMA FifoOther ==
  ASSUME Sound, IInv, NEW t \in Thread, Step(t), ~SetSwap(t), ~SetFpn(t), ~Enlist(t),
         FindVictim(t) => GiveUp(t), ReadSwapHead(t) => ~GiveUp(t)
  PROVE  FifoOK'
<1>0. FifoOK /\ TypeOK /\ claimed \subseteq Page /\ stranded \subseteq claimed
      /\ pc \in [Thread -> Labels]
  BY TypeFacts DEF IInv, TypeOK
<1>1. pgd' = pgd /\ claimed' = claimed BY SameTable, SameMapped
<1>2. UNCHANGED <<fifo_pgn, stranded>>
  <2>1. CASE FindVictim(t)
    <3>1. pc'[t] = "return" BY <1>0, <2>1, GiveUpEffect
    <3>2. ~(pc' = [pc EXCEPT ![t] = "getswp"]) BY <1>0, <3>1
    <3> QED BY <2>1, <3>2 DEF FindVictim, Goto
  <2>2. CASE ReadSwapHead(t) BY <2>2 DEF ReadSwapHead
  <2> QED BY <2>1, <2>2 DEF Step, Fault, Check, TakeSwap, SwapOut, SwapIn, ReadPutHead, LinkPut,
                            GetFrame, Access, Return
<1>3. /\ HasVictim(t)' <=> HasVictim(t)
      /\ HasVictim(t) => acc'[t].vicpgn = acc[t].vicpgn
      /\ pc[t] # "enlist" /\ pc'[t] # "enlist"
  <2>1. CASE GiveUp(t)
    <3>1. pc'[t] = "return" BY <1>0, <2>1, GiveUpEffect
    <3>2. ~TakeSwap(t) /\ ~SwapOut(t) BY <1>0, <3>1 DEF TakeSwap, SwapOut, Goto
    <3>3. pc[t] \notin {"getswp", "takeswp", "swapout", "setswap", "enlist"}
      BY <2>1, <3>2 DEF Step, Fault, Check, FindVictim, SwapIn, ReadPutHead, LinkPut,
                            GetFrame, Access, Return, At
    <3> QED BY <3>1, <3>3 DEF HasVictim
  <2>2. CASE ~GiveUp(t)
    <3>1. CASE ReadSwapHead(t) \/ TakeSwap(t) \/ SwapOut(t)
      <4>1. HasVictim(t) /\ HasVictim(t)' /\ pc[t] # "enlist" /\ pc'[t] # "enlist"
        BY <1>0, <2>2, <3>1, OneStep DEF HasVictim
      <4>2. \E x : \/ acc' = [acc EXCEPT ![t].seen = x] \/ acc' = [acc EXCEPT ![t].swpfpn = x]
                   \/ acc' = [acc EXCEPT ![t].vicfpn = x]
        BY <2>2, <3>1 DEF ReadSwapHead, TakeSwap, SwapOut, Set
      <4>3. acc \in [Thread -> Acc] BY <1>0, TypeFacts
      <4>4. acc'[t].vicpgn = acc[t].vicpgn BY <4>2, <4>3 DEF Acc
      <4> QED BY <4>1, <4>4
    <3>2. CASE ~ReadSwapHead(t) /\ ~TakeSwap(t) /\ ~SwapOut(t)
      BY <1>0, <2>2, <3>2, OneStep DEF HasVictim, Step, Fault
    <3> QED BY <3>1, <3>2
  <2> QED BY <2>1, <2>2
<1>4. \A p \in Page : /\ Online(p)' <=> Online(p)
                      /\ Out(p)' <=> Out(p)
                      /\ In(p)' <=> In(p)
  BY <1>1, <1>3, OutIn DEF Online
<1> QED BY <1>0, <1>1, <1>2, <1>4, FifoSame

\* Every step keeps the list exact.
LEMMA FifoStep ==
  ASSUME Sound, IInv, [Next]_vars
  PROVE  FifoOK'
<1>0. FifoOK /\ claimed \subseteq Page /\ stranded \subseteq claimed BY TypeFacts DEF IInv, TypeOK
<1>1. ASSUME NEW p \in Page, MapRam(p) PROVE FifoOK' BY <1>1, MapAdds, FifoMapRam DEF IInv
<1>3. ASSUME NEW t \in Thread, Call(t) PROVE FifoOK'
  <2>1. UNCHANGED <<pgd, fifo_pgn, stranded, claimed>> BY <1>3 DEF Call
  <2>2. \A u \in Thread : pc[u] = "idle" /\ pc'[u] \in {"idle", "check"} BY <1>3, Begins DEF Sound, IInv
  <2>3. \A p : ~Out(p) /\ ~Out(p)' /\ ~In(p) /\ ~In(p)' BY <2>2 DEF Out, In, HasVictim
  <2> QED BY <1>0, <2>1, <2>3, FifoSame DEF Online
<1>4. ASSUME NEW t \in Thread, Step(t) PROVE FifoOK'
  BY <1>4, FifoVictim, FifoStrand, FifoSetSwap, FifoSetFpn, FifoEnlist, FifoOther
<1>5. CASE UNCHANGED vars
  <2>1. UNCHANGED <<pgd, fifo_pgn, stranded, claimed, pc, acc>> BY <1>5 DEF vars
  <2> QED BY <1>0, <2>1, FifoSame DEF Online, Out, In, HasVictim
<1> QED BY <1>1, <1>3, <1>4, <1>5 DEF Next

-----------------------------------------------------------------------------
(* The data *)

\* Only the copies, and the steps that return the swap frame, leave data in place.
LEMMA DataAbsent ==
  ASSUME \A t \in Thread : pc'[t] \notin {"setswap", "putread", "putlink", "setfpn"}
  PROVE  DataOK'
BY DEF DataOK, Copied

\* Every step keeps the copies that a fault has made.
LEMMA DataStep ==
  ASSUME Sound, IInv, [Next]_vars
  PROVE  DataOK'
<1>0. TypeOK /\ AccOK /\ RamOK /\ SwapOK /\ DataOK /\ claimed \subseteq Page
      /\ acc \in [Thread -> Acc] /\ pc \in [Thread -> Labels]
      /\ ram \in [RamFrame -> Val] /\ swp \in [SwpFrame -> Val]
  BY TypeFacts DEF IInv, TypeOK
<1>1. ASSUME NEW p \in Page, MapRam(p) PROVE DataOK'
  BY <1>1, MapEffect, DataAbsent
<1>2. ASSUME NEW t \in Thread, Call(t) PROVE DataOK'
  <2>1. \A u \in Thread : pc'[u] \in {"idle", "check"} BY <1>2, Begins DEF Sound, IInv
  <2> QED BY <2>1, DataAbsent
<1>3. ASSUME NEW t \in Thread, Step(t) PROVE DataOK'
  <2>i. \A u \in Thread \ {t} : pc'[u] = "idle" BY <1>3, Alone DEF IInv
  <2>m. claimed' = claimed BY <1>3, SameMapped
  <2>q. SUFFICES ASSUME Running = Thread
        PROVE  /\ pc'[t] = "setswap" => swp'[acc'[t].swpfpn] = ram'[acc'[t].vicfpn]
               /\ pc'[t] \in {"putread", "putlink", "setfpn"} =>
                    ram'[acc'[t].vicfpn] = swp'[Swp(pgd'[acc'[t].pgn])]
    BY <2>i DEF DataOK, Copied
  <2>1. CASE SwapOut(t)
    <3>v. PICK f, g : f = Fpn(pgd[acc[t].vicpgn]) /\ g = acc[t].swpfpn OBVIOUS
    <3>1. /\ pc[t] = "swapout" /\ pc' = [pc EXCEPT ![t] = "setswap"]
          /\ acc' = [acc EXCEPT ![t].vicfpn = f] /\ SysSwap(t, f, g)
      BY <2>1, <3>v DEF SwapOut, Set, At, Goto
    <3>2. pc'[t] = "setswap" BY <1>0, <3>1
    <3>3. acc'[t].vicfpn = f /\ acc'[t].swpfpn = g BY <1>0, <3>1, <3>v DEF Acc
    <3>4. f \in RamFrame BY <1>0, <3>1, <3>v DEF AccOK, LocalsOK, HasVictim, RamOK
    <3>5. g \in SwpFrame BY <1>0, <3>1, <3>v DEF SwapOK, HasSwap
    <3>6. ram' = ram /\ swp' = [swp EXCEPT ![g] = ram[f]]
      BY <2>q, <3>1, <3>4, <3>5 DEF SysSwap, Ram!Read, Ram!Answers, Mswp!Write, Mswp!Answers
    <3>7. swp'[g] = ram'[f] BY <1>0, <3>5, <3>6
    <3> QED BY <3>2, <3>3, <3>7
  <2>2. CASE SwapIn(t)
    <3>v. PICK f, g : f = acc[t].vicfpn /\ g = Source(t) OBVIOUS
    <3>1. /\ pc[t] = "swapin" /\ pc' = [pc EXCEPT ![t] = "putread"]
          /\ UNCHANGED <<acc, pgd, swp>> /\ \E v \in Mswp!Read(g) : Ram!Write(f, v)
      BY <2>2, <3>v DEF SwapIn, At, Goto
    <3>2. pc'[t] = "putread" BY <1>0, <3>1
    <3>3. acc[t].pgn \in claimed /\ ~Online(acc[t].pgn) /\ g = Swp(pgd[acc[t].pgn])
      BY <1>0, <3>1, <3>v DEF AccOK, LocalsOK, Faulting, Source
    <3>4. g \in SwpFrame BY <1>0, <3>3 DEF SwapOK
    <3>5. f \in RamFrame BY <1>0, <3>1, <3>v DEF RamOK, HasFrame
    <3>6. ram' = [ram EXCEPT ![f] = swp[g]]
      BY <3>1, <3>4, <3>5 DEF Mswp!Read, Mswp!Answers, Ram!Write, Ram!Answers
    <3>7. ram'[f] = swp'[g] BY <1>0, <3>1, <3>5, <3>6
    <3> QED BY <3>1, <3>2, <3>3, <3>7, <3>v
  <2>3. CASE ReadPutHead(t) \/ LinkPut(t)
    <3>1. /\ pc[t] \in {"putread", "putlink"} /\ UNCHANGED <<ram, swp, pgd>>
          /\ pc' = [pc EXCEPT ![t] = "putlink"] \/ pc' = [pc EXCEPT ![t] = "setfpn"]
          /\ acc' = acc \/ acc' = [acc EXCEPT ![t].seen = swpfree]
      BY <2>3 DEF ReadPutHead, LinkPut, Set, At, Goto, devices
    <3>2. pc'[t] \in {"putlink", "setfpn"} BY <1>0, <3>1
    <3>3. acc'[t].vicfpn = acc[t].vicfpn /\ acc'[t].pgn = acc[t].pgn BY <1>0, <3>1 DEF Acc
    <3>4. ram[acc[t].vicfpn] = swp[Swp(pgd[acc[t].pgn])]
      BY <1>0, <2>q, <3>1 DEF DataOK, Copied
    <3> QED BY <3>1, <3>2, <3>3, <3>4
  <2>4. CASE ~SwapOut(t) /\ ~SwapIn(t) /\ ~ReadPutHead(t) /\ ~LinkPut(t)
    <3>1. CASE GiveUp(t)
      <4>1. pc'[t] = "return" BY <1>0, <3>1, GiveUpEffect
      <4> QED BY <4>1
    <3>2. CASE ~GiveUp(t)
      <4>1. pc'[t] \notin {"setswap", "putread", "putlink", "setfpn"}
        BY <1>0, <1>3, <2>4, <3>2, OneStep DEF Step, Fault
      <4> QED BY <4>1
    <3> QED BY <3>1, <3>2
  <2> QED BY <2>1, <2>2, <2>3, <2>4
<1>4. CASE UNCHANGED vars BY <1>0, <1>4 DEF vars, devices, DataOK, Copied
<1> QED BY <1>1, <1>2, <1>3, <1>4 DEF Next

-----------------------------------------------------------------------------
(* The invariant *)

\* The swap device gets the first frames of the list.
LEMMA SizedList ==
  ASSUME NEW n \in 0 .. Len(SwpFree)
  PROVE  LET s == SubSeq(SwpFree, 1, n)
         IN /\ s \in Seq(SwpFrame) /\ Len(s) = n /\ DOMAIN s = 1 .. n
            /\ \A i \in 1 .. n : i \in DOMAIN SwpFree /\ s[i] = SwpFree[i]
            /\ Distinct(s)
<1> DEFINE s == SubSeq(SwpFree, 1, n)
<1>1. SwpFree \in Seq(SwpFrame) /\ \A i, j \in DOMAIN SwpFree : SwpFree[i] = SwpFree[j] => i = j
  BY PagingAssumption DEF PagingAssumption
<1>2. n \in Nat /\ n <= Len(SwpFree) /\ DOMAIN SwpFree = 1 .. Len(SwpFree) BY <1>1
<1>3. s \in Seq(SwpFrame) /\ Len(s) = n /\ DOMAIN s = 1 .. n /\ \A i \in 1 .. n : s[i] = SwpFree[i]
  BY <1>1, <1>2
<1> HIDE DEF s
<1>4. \A i \in 1 .. n : i \in DOMAIN SwpFree BY <1>2
<1>5. Distinct(s) BY <1>1, <1>3, <1>4 DEF Distinct
<1> QED BY <1>3, <1>4, <1>5 DEF s

\* The types at the start
LEMMA InitTypes ==
  ASSUME Init
  PROVE  TypeOK
<1>i. /\ pgd = [p \in Page |-> {}] /\ fifo_pgn = <<>> /\ mmvm_lock = Nobody
      /\ ram = [f \in RamFrame |-> Zero] /\ ramfree = RamFree
      /\ swp = [f \in SwpFrame |-> Zero] /\ swpfree = SubSeq(SwpFree, 1, swpsize)
      /\ swpsize \in 0 .. Len(SwpFree)
      /\ pc = [t \in Thread |-> "idle"] /\ acc = [t \in Thread |-> Idle]
      /\ ret = [t \in Thread |-> Pending] /\ claimed = Given /\ stranded = {}
  BY DEF Init, Ram!InitMemphy, Mswp!InitMemphy
<1>z. /\ Zero \in Val /\ RamFree \in Seq(RamFrame) /\ SwpFree \in Seq(SwpFrame)
      /\ Given \subseteq Page
  BY PagingAssumption DEF PagingAssumption
<1>s. swpfree \in Seq(SwpFrame) BY <1>i, <1>z, SizedList
<1>1. pgd \in [Page -> Pte] BY <1>i DEF Pte
<1>2. acc \in [Thread -> Acc] BY <1>i, IdleType
<1>3. pc \in [Thread -> Labels] BY <1>i DEF Labels
<1>4. /\ ret \in [Thread -> Val \cup {Pending, Done, Failed}] /\ mmvm_lock \in Thread \cup {Nobody}
      /\ ram \in [RamFrame -> Val] /\ swp \in [SwpFrame -> Val]
      /\ claimed \subseteq Page /\ stranded \subseteq claimed
  BY <1>i, <1>z
<1>5. ramfree \in Seq(RamFrame) /\ swpfree \in Seq(SwpFrame) /\ fifo_pgn \in Seq(Page)
  BY <1>i, <1>z, <1>s
<1> QED BY <1>1, <1>2, <1>3, <1>4, <1>5 DEF TypeOK, Acc

\* It holds before any page is mapped.
LEMMA InitIInv ==
  ASSUME Sound, Init
  PROVE  IInv
<1>1. /\ pgd = [p \in Page |-> {}] /\ fifo_pgn = <<>> /\ mmvm_lock = Nobody
      /\ ramfree = RamFree
      /\ swpfree = SubSeq(SwpFree, 1, swpsize) /\ swpsize \in 0 .. Len(SwpFree)
      /\ pc = [t \in Thread |-> "idle"] /\ acc = [t \in Thread |-> Idle]
      /\ ret = [t \in Thread |-> Pending] /\ claimed = Given /\ stranded = {}
  BY DEF Init, Ram!InitMemphy, Mswp!InitMemphy
<1>2. /\ Distinct(RamFree) /\ ~Listed(RamFree, {}) /\ Given \subseteq Page
  BY PagingAssumption DEF PagingAssumption, Sound, Distinct, Listed
<1>3. \A t \in Thread : pc[t] = "idle" BY <1>1
<1>4. TypeOK BY InitTypes
<1>5. CallOK BY <1>1, <1>3 DEF CallOK
<1>e. \A p \in claimed : pgd[p] = {} /\ ~Present(pgd[p]) /\ ~Online(p) /\ Swp(pgd[p]) = {}
  BY <1>1, <1>2, EmptyEntry DEF Online
<1>6. TableOK BY <1>e DEF TableOK
<1>7. AccOK
  <2>1. \A t \in Thread : acc[t].pgn = NoPage BY <1>1 DEF Idle
  <2> QED BY <1>3, <2>1 DEF AccOK, LocalsOK, Faulting, InRam, HasVictim
<1>8. RamOK BY <1>1, <1>2, <1>3, <1>e DEF RamOK, HasFrame, Listed
<1>9. SwapOK
  <2>1. /\ Distinct(swpfree) /\ DOMAIN swpfree = 1 .. swpsize
        /\ \A i \in 1 .. swpsize : i \in DOMAIN SwpFree /\ swpfree[i] = SwpFree[i]
    BY <1>1, SizedList
  <2>2. \A p \in claimed : {} \in SwpFrame /\ ~Listed(swpfree, {})
    BY <1>1, <2>1 DEF Sound, Listed
  <2>3. \A p, q \in claimed : p = q BY <1>1 DEF Sound
  <2>4. \A t \in Thread : ~HasSwap(t) BY <1>3 DEF HasSwap
  <2>5. \A p : ~Leaving(p) BY <1>3 DEF Leaving
  <2>6. ASSUME NEW x \in SwapSpace
        PROVE  Listed(swpfree, x) \/ \E p \in claimed : ~Online(p) /\ Swp(pgd[p]) = x
    <3>1. CASE \E i \in 1 .. swpsize : x = SwpFree[i] BY <2>1, <3>1 DEF Listed
    <3>2. CASE \E p \in Given : x = Swp({}) BY <1>1, <1>e, <3>2, EmptyEntry
    <3> QED BY <3>1, <3>2 DEF SwapSpace
  <2> QED BY <1>e, <2>1, <2>2, <2>3, <2>4, <2>5, <2>6 DEF SwapOK
<1>10. FifoOK
  <2>1. \A p \in Page : ~Listed(fifo_pgn, p) BY <1>1 DEF Listed
  <2> QED BY <1>1, <1>e, <2>1 DEF FifoOK, Distinct
<1>11. DataOK BY <1>3 DEF DataOK, Copied
<1> QED BY <1>4, <1>5, <1>6, <1>7, <1>8, <1>9, <1>10, <1>11 DEF IInv

\* It says that what the calls work with exists.
LEMMA InRange ==
  ASSUME IInv
  PROVE  Ranges
<1>0. TypeOK /\ TableOK /\ AccOK /\ RamOK /\ SwapOK /\ FifoOK BY DEF IInv
<1>1. \A p \in claimed : Present(pgd[p]) \/ Swp(pgd[p]) \in SwpFrame
  BY <1>0 DEF SwapOK, Online
<1>2. \A i \in DOMAIN fifo_pgn : fifo_pgn[i] \in claimed
  <2>1. fifo_pgn \in Seq(Page) BY <1>0 DEF TypeOK
  <2>2. \A i \in DOMAIN fifo_pgn : fifo_pgn[i] \in Page BY <2>1
  <2>3. \A i \in DOMAIN fifo_pgn : Listed(fifo_pgn, fifo_pgn[i]) BY DEF Listed
  <2> QED BY <1>0, <2>2, <2>3 DEF FifoOK
<1>3. ASSUME NEW t \in Thread PROVE RangeOK(t)
  <2>1. LocalsOK(t) BY <1>0 DEF AccOK
  <2>2. Faulting(t) => Source(t) \in SwpFrame BY <1>0, <2>1 DEF LocalsOK, SwapOK, Source
  <2>3. HasSwap(t) => acc[t].swpfpn \in SwpFrame BY <1>0 DEF SwapOK
  <2> QED BY <2>1, <2>2, <2>3 DEF LocalsOK, RangeOK
<1> QED BY <1>0, <1>1, <1>2, <1>3 DEF Ranges

\* libmem.c, pg_getpage: every step keeps the invariant.
LEMMA IInvStep ==
  ASSUME Sound, IInv, [Next]_vars
  PROVE  IInv'
<1>1. Locked /\ TypeOK /\ CallOK BY DEF Sound, IInv
<1> QED BY <1>1, InRange, TypeStep, CallStep, TableStep, AccStep, RamStep, SwapStep, FifoStep, DataStep
        DEF IInv

-----------------------------------------------------------------------------
(* For any table: what the calls work with exists *)

\* A call that does not act goes on with what it had.
LEMMA RangeStays ==
  ASSUME NEW t \in Thread, RangeOK(t), claimed \subseteq claimed',
         acc'[t] = acc[t], pc'[t] = pc[t]
  PROVE  RangeOK(t)'
BY DEF RangeOK, Faulting, InRam, HasVictim, HasSwap, Source

\* A call begins.
LEMMA RangeCall ==
  ASSUME TypeOK, NEW t \in Thread, Call(t)
  PROVE  /\ RangeOK(t)'
         /\ \A u \in Thread \ {t} : acc'[u] = acc[u] /\ pc'[u] = pc[u]
<1>1. acc \in [Thread -> Acc] /\ pc \in [Thread -> Labels] BY TypeFacts
<1>2. PICK op \in Ops, p \in claimed \cup {NoPage}, v \in Val :
        acc' = [acc EXCEPT ![t] = [Idle EXCEPT !.op = op, !.pgn = p, !.val = v]]
  BY DEF Call
<1>3. pc' = [pc EXCEPT ![t] = "check"] /\ claimed' = claimed BY DEF Call, Goto
<1>4. acc'[t].pgn = p /\ pc'[t] = "check" BY <1>1, <1>2, <1>3 DEF Idle
<1>5. RangeOK(t)'
  BY <1>3, <1>4 DEF RangeOK, Faulting, InRam, HasVictim, HasSwap
<1> QED BY <1>1, <1>2, <1>3, <1>5

\* A call goes on.
LEMMA RangeGoes ==
  ASSUME Ranges, NEW t \in Thread, Step(t)
  PROVE  RangeOK(t)'
<1>0. TypeOK /\ RangeOK(t) /\ claimed' = claimed
  BY DEF Ranges, Step, Fault, Check, FindVictim, ReadSwapHead, TakeSwap, SwapOut, SetSwap, SwapIn,
         ReadPutHead, LinkPut, SetFpn, Enlist, GetFrame, Access, Return
<1>1. /\ acc \in [Thread -> Acc] /\ acc[t] \in Acc /\ NoPage \notin claimed
      /\ swpfree \in Seq(SwpFrame) /\ fifo_pgn \in Seq(Page)
  BY <1>0, TypeFacts DEF TypeOK
<1> USE DEF RangeOK, Faulting, InRam, HasVictim, HasSwap, Source
<1>2. CASE GiveUp(t)
  <2>1. pc'[t] = "return" /\ acc' = acc BY <1>0, <1>2, GiveUpEffect
  <2> QED BY <1>0, <2>1
<1>3. CASE ~GiveUp(t)
  <2>1. CASE Check(t)
    <3>1. /\ pc[t] = "check" /\ pc'[t] \in {"frame", "victim"} /\ acc[t].pgn \in claimed
          /\ acc' = [acc EXCEPT ![t].pte = pgd[acc[t].pgn]]
          /\ pc' = [pc EXCEPT ![t] = IF Present(pgd[acc[t].pgn]) THEN "frame" ELSE "victim"]
      BY <1>0, <1>3, <2>1, OneStep DEF Check, Set, Goto
    <3>2. acc'[t].pgn = acc[t].pgn /\ acc'[t].pte = pgd[acc[t].pgn] BY <1>1, <3>1 DEF Acc
    <3>3. CASE Present(pgd[acc[t].pgn])
      <4>1. pc'[t] = "frame" BY <1>0, <3>1, <3>3, TypeFacts
      <4> QED BY <1>0, <3>1, <3>2, <4>1
    <3>4. CASE ~Present(pgd[acc[t].pgn])
      <4>1. pc'[t] = "victim" BY <1>0, <3>1, <3>4, TypeFacts
      <4>2. Swp(pgd[acc[t].pgn]) \in SwpFrame BY <3>1, <3>4 DEF Ranges
      <4> QED BY <1>0, <3>1, <3>2, <4>1, <4>2
    <3> QED BY <3>3, <3>4
  <2>2. CASE FindVictim(t)
    <3>1. /\ pc[t] = "victim" /\ pc'[t] = "getswp" /\ ~Victimless(fifo_pgn)
          /\ acc' = [acc EXCEPT ![t].vicpgn = fifo_pgn[Len(fifo_pgn)]]
      BY <1>0, <1>3, <2>2, OneStep DEF FindVictim, Set
    <3>2. /\ acc'[t].pgn = acc[t].pgn /\ acc'[t].pte = acc[t].pte
          /\ acc'[t].vicpgn = fifo_pgn[Len(fifo_pgn)]
      BY <1>1, <3>1 DEF Acc
    <3>3. Len(fifo_pgn) \in DOMAIN fifo_pgn BY <1>1, <3>1 DEF Victimless
    <3>4. acc'[t].vicpgn \in claimed BY <3>2, <3>3 DEF Ranges
    <3> QED BY <1>0, <3>1, <3>2, <3>4
  <2>3. CASE ReadSwapHead(t)
    <3>1. /\ pc[t] = "getswp" /\ pc'[t] = "takeswp" /\ swpfree # <<>>
          /\ acc' = [acc EXCEPT ![t].seen = swpfree]
      BY <1>0, <1>3, <2>3, OneStep DEF ReadSwapHead, Set
    <3>2. /\ acc'[t].pgn = acc[t].pgn /\ acc'[t].pte = acc[t].pte
          /\ acc'[t].vicpgn = acc[t].vicpgn /\ acc'[t].seen = swpfree
      BY <1>1, <3>1 DEF Acc
    <3> QED BY <1>0, <3>1, <3>2
  <2>4. CASE TakeSwap(t)
    <3>1. /\ pc[t] = "takeswp" /\ pc'[t] = "swapout"
          /\ acc' = [acc EXCEPT ![t].swpfpn = Head(acc[t].seen)]
      BY <1>0, <1>3, <2>4, OneStep DEF TakeSwap, Set
    <3>2. /\ acc'[t].pgn = acc[t].pgn /\ acc'[t].pte = acc[t].pte
          /\ acc'[t].vicpgn = acc[t].vicpgn /\ acc'[t].swpfpn = Head(acc[t].seen)
      BY <1>1, <3>1 DEF Acc
    <3>3. acc[t].seen \in Seq(SwpFrame) /\ acc[t].seen # <<>> BY <1>0, <1>1, <3>1 DEF Acc
    <3>4. acc'[t].swpfpn \in SwpFrame BY <3>2, <3>3
    <3> QED BY <1>0, <3>1, <3>2, <3>4
  <2>5. CASE SwapOut(t)
    <3>1. /\ pc[t] = "swapout" /\ pc'[t] = "setswap"
          /\ acc' = [acc EXCEPT ![t].vicfpn = Fpn(pgd[acc[t].vicpgn])]
      BY <1>0, <1>3, <2>5, OneStep DEF SwapOut, Set
    <3>2. /\ acc'[t].pgn = acc[t].pgn /\ acc'[t].pte = acc[t].pte
          /\ acc'[t].vicpgn = acc[t].vicpgn /\ acc'[t].swpfpn = acc[t].swpfpn
      BY <1>1, <3>1 DEF Acc
    <3> QED BY <1>0, <3>1, <3>2
  <2>6. CASE SetSwap(t) \/ SwapIn(t) \/ LinkPut(t) \/ SetFpn(t) \/ Enlist(t) \/ Access(t)
    <3>1. /\ Faulting(t) \/ InRam(t)
          /\ pc'[t] \in {"swapin", "putread", "setfpn", "enlist", "frame", "return"}
          /\ pc'[t] \in {"swapin", "putread", "setfpn"} => Faulting(t)
          /\ acc' = acc
      BY <1>0, <1>3, <2>6, OneStep DEF SetSwap, SwapIn, LinkPut, SetFpn, Enlist, Access, Step, Fault
    <3> QED BY <1>0, <3>1
  <2>7. CASE ReadPutHead(t)
    <3>1. /\ pc[t] = "putread" /\ pc'[t] = "putlink" /\ acc' = [acc EXCEPT ![t].seen = swpfree]
      BY <1>0, <1>3, <2>7, OneStep DEF ReadPutHead, Set
    <3>2. acc'[t].pgn = acc[t].pgn /\ acc'[t].pte = acc[t].pte BY <1>1, <3>1 DEF Acc
    <3> QED BY <1>0, <3>1, <3>2
  <2>8. CASE GetFrame(t)
    <3>1. /\ pc[t] = "frame" /\ pc'[t] = "access"
          /\ acc' = [acc EXCEPT ![t].fpn = Fpn(pgd[acc[t].pgn])]
      BY <1>0, <1>3, <2>8, OneStep DEF GetFrame, Set
    <3>2. acc'[t].pgn = acc[t].pgn BY <1>1, <3>1 DEF Acc
    <3> QED BY <1>0, <3>1, <3>2
  <2>9. CASE Return(t)
    <3>1. pc'[t] = "idle" /\ acc' = [acc EXCEPT ![t] = Idle]
      BY <1>0, <1>3, <2>9, OneStep DEF Return
    <3>2. acc'[t].pgn = NoPage BY <1>1, <3>1 DEF Idle
    <3> QED BY <3>1, <3>2
  <2> QED BY <2>1, <2>2, <2>3, <2>4, <2>5, <2>6, <2>7, <2>8, <2>9 DEF Step, Fault
<1> QED BY <1>2, <1>3

\* And leaves the other calls.
LEMMA RangeOthers ==
  ASSUME TypeOK, NEW t \in Thread, Step(t), NEW u \in Thread \ {t}
  PROVE  acc'[u] = acc[u] /\ pc'[u] = pc[u]
<1>1. acc \in [Thread -> Acc] /\ pc \in [Thread -> Labels] BY TypeFacts
<1>2. pc'[u] = pc[u]
  BY <1>1 DEF Step, Fault, Check, FindVictim, ReadSwapHead, TakeSwap, SwapOut, SetSwap, SwapIn,
              ReadPutHead, LinkPut, SetFpn, Enlist, GetFrame, Access, Return, GiveUp, Goto
<1>3. acc'[u] = acc[u]
  BY <1>1 DEF Step, Fault, Check, FindVictim, ReadSwapHead, TakeSwap, SwapOut, SetSwap, SwapIn,
              ReadPutHead, LinkPut, SetFpn, Enlist, GetFrame, Access, Return, GiveUp, Set
<1> QED BY <1>2, <1>3

\* An entry that a call writes names a frame that exists.
LEMMA RangeTable ==
  ASSUME Ranges, NEW t \in Thread, Step(t), NEW p \in claimed
  PROVE  Present(pgd'[p]) \/ Swp(pgd'[p]) \in SwpFrame
<1>0. /\ TypeOK /\ RangeOK(t) /\ p \in Page /\ pgd \in [Page -> Pte]
      /\ SwpFrame \subseteq SwapOffset /\ acc[t] \in Acc
      /\ Present(pgd[p]) \/ Swp(pgd[p]) \in SwpFrame
  BY TypeFacts DEF Ranges
<1>1. CASE SetSwap(t)
  <2> DEFINE e == InSwap(WithSwap(pgd[acc[t].vicpgn], {}, acc[t].swpfpn))
  <2>1. acc[t].vicpgn \in Page /\ acc[t].swpfpn \in SwpFrame
    BY <1>0, <1>1, TypeFacts DEF RangeOK, SetSwap, HasVictim, HasSwap, At
  <2>2. Swp(e) = acc[t].swpfpn BY <1>0, <2>1, SwapEntry
  <2>3. pgd' = [pgd EXCEPT ![acc[t].vicpgn] = e] BY <1>1 DEF SetSwap, PteSetSwap, SetEntry
  <2> HIDE DEF e
  <2> QED BY <1>0, <2>1, <2>2, <2>3
<1>2. CASE SetFpn(t)
  <2> DEFINE e == WithFpn(pgd[acc[t].pgn], acc[t].vicfpn)
  <2>1. acc[t].pgn \in Page /\ acc[t].vicfpn \in FrameNumber
    BY <1>0, <1>2, TypeFacts DEF RangeOK, SetFpn, Faulting, At, Acc
  <2>2. Present(e) BY <1>0, <2>1, FpnRoundTrip
  <2>3. pgd' = [pgd EXCEPT ![acc[t].pgn] = e] BY <1>2 DEF SetFpn, PteSetFpn, SetEntry
  <2> HIDE DEF e
  <2> QED BY <1>0, <2>1, <2>2, <2>3
<1>3. CASE ~SetSwap(t) /\ ~SetFpn(t)
  <2>1. pgd' = pgd
    BY <1>3 DEF Step, Fault, Check, FindVictim, ReadSwapHead, TakeSwap, SwapOut, SwapIn,
                ReadPutHead, LinkPut, Enlist, GetFrame, Access, Return
  <2> QED BY <1>0, <2>1
<1> QED BY <1>1, <1>2, <1>3

\* The list of a call has only pages that were mapped.
LEMMA RangeFifo ==
  ASSUME Ranges, NEW t \in Thread, Step(t), NEW i \in DOMAIN fifo_pgn'
  PROVE  fifo_pgn'[i] \in claimed
<1>0. TypeOK /\ RangeOK(t) /\ fifo_pgn \in Seq(Page) /\ \A j \in DOMAIN fifo_pgn : fifo_pgn[j] \in claimed
  BY DEF Ranges, TypeOK
<1>2. CASE FindVictim(t) /\ ~Victimless(fifo_pgn)
  <2>1. fifo_pgn' = SubSeq(fifo_pgn, 1, Len(fifo_pgn) - 1) BY <1>2 DEF FindVictim
  <2>2. i \in DOMAIN fifo_pgn /\ fifo_pgn'[i] = fifo_pgn[i]
    BY <1>0, <1>2, <2>1 DEF Victimless
  <2> QED BY <1>0, <2>2
<1>3. CASE Enlist(t)
  <2>1. fifo_pgn' = <<acc[t].pgn>> \o fifo_pgn BY <1>3 DEF Enlist, EnlistPgn
  <2>2. acc[t].pgn \in claimed BY <1>0, <1>3 DEF Enlist, RangeOK, InRam, At
  <2> QED BY <1>0, <2>1, <2>2
<1>4. CASE ~(FindVictim(t) /\ ~Victimless(fifo_pgn)) /\ ~Enlist(t)
  <2>1. fifo_pgn' = fifo_pgn
    BY <1>4 DEF Step, Fault, Check, FindVictim, ReadSwapHead, TakeSwap, SwapOut, SetSwap, SwapIn,
                ReadPutHead, LinkPut, SetFpn, GetFrame, Access, Return
  <2> QED BY <1>0, <2>1
<1> QED BY <1>2, <1>3, <1>4

\* A page is mapped; the one that gets frame 0 keeps an entry that names swap frame 0.
LEMMA RangeMap ==
  ASSUME {} \in SwpFrame \/ ~Listed(ramfree, {}), Ranges, NEW p \in Page, MapRam(p)
  PROVE  /\ \A q \in claimed' : Present(pgd'[q]) \/ Swp(pgd'[q]) \in SwpFrame
         /\ \A i \in DOMAIN fifo_pgn' : fifo_pgn'[i] \in claimed'
<1>0. /\ TypeOK /\ pgd \in [Page -> Pte] /\ claimed \subseteq Page
      /\ RamFrame \subseteq FrameNumber
      /\ fifo_pgn \in Seq(Page) /\ ramfree \in Seq(RamFrame)
      /\ \A q \in claimed : Present(pgd[q]) \/ Swp(pgd[q]) \in SwpFrame
      /\ \A i \in DOMAIN fifo_pgn : fifo_pgn[i] \in claimed
  BY TypeFacts DEF Ranges, TypeOK
<1> DEFINE e == InitPte({}, TRUE, Head(ramfree), FALSE, {}, {})
<1>1. /\ ramfree # <<>> /\ fifo_pgn' = <<p>> \o fifo_pgn
      /\ pgd' = [pgd EXCEPT ![p] = e] /\ claimed' = claimed \cup {p}
  BY DEF MapRam, SetEntry, EnlistPgn
<1>2. Head(ramfree) \in FrameNumber /\ Listed(ramfree, Head(ramfree)) BY <1>0, <1>1 DEF Listed
<1>3. Present(e) \/ Swp(e) \in SwpFrame
  <2>1. CASE Head(ramfree) = {} BY <1>2, <2>1, EmptyEntry
  <2>2. CASE Head(ramfree) # {} BY <1>2, <2>2, NewRamEntry
  <2> QED BY <2>1, <2>2
<1> HIDE DEF e
<1>4. \A i \in DOMAIN fifo_pgn' : fifo_pgn'[i] \in claimed' BY <1>0, <1>1
<1> QED BY <1>0, <1>1, <1>3, <1>4

\* Every step leaves it so.
LEMMA RangesStep ==
  ASSUME {} \in SwpFrame, Ranges, [Next]_vars
  PROVE  Ranges'
<1>0. TypeOK' BY TypeStep
<1>1. CASE \E p \in Page : MapRam(p)
  <2>1. PICK p \in Page : MapRam(p) BY <1>1
  <2>2. UNCHANGED <<acc, pc>> /\ claimed \subseteq claimed' BY <2>1 DEF MapRam
  <2>3. \A t \in Thread : RangeOK(t)' BY <2>2, RangeStays DEF Ranges
  <2> QED BY <1>0, <2>1, <2>3, RangeMap DEF Ranges
<1>2. ASSUME NEW t \in Thread, Call(t) PROVE Ranges'
  <2>1. UNCHANGED <<pgd, fifo_pgn, ramfree, claimed>> BY <1>2 DEF Call, devices
  <2>2. \A u \in Thread \ {t} : acc'[u] = acc[u] /\ pc'[u] = pc[u]
    BY <1>2, RangeCall DEF Ranges
  <2>3. \A u \in Thread \ {t} : RangeOK(u)' BY <2>1, <2>2, RangeStays DEF Ranges
  <2>4. RangeOK(t)' BY <1>2, RangeCall DEF Ranges
  <2>5. \A u \in Thread : RangeOK(u)' BY <2>3, <2>4
  <2> QED BY <1>0, <2>1, <2>5 DEF Ranges
<1>3. ASSUME NEW t \in Thread, Step(t) PROVE Ranges'
  <2>1. UNCHANGED <<ramfree, claimed>>
    BY <1>3 DEF Step, Fault, Check, FindVictim, ReadSwapHead, TakeSwap, SwapOut, SetSwap, SwapIn,
                ReadPutHead, LinkPut, SetFpn, Enlist, GetFrame, Access, Return, devices
  <2>2. \A u \in Thread \ {t} : RangeOK(u)' BY <1>3, <2>1, RangeOthers, RangeStays DEF Ranges
  <2>3. RangeOK(t)' BY <1>3, RangeGoes
  <2>4. \A u \in Thread : RangeOK(u)' BY <2>2, <2>3
  <2>5. \A p \in claimed : Present(pgd'[p]) \/ Swp(pgd'[p]) \in SwpFrame BY <1>3, RangeTable
  <2>6. \A i \in DOMAIN fifo_pgn' : fifo_pgn'[i] \in claimed BY <1>3, RangeFifo
  <2> QED BY <1>0, <2>1, <2>4, <2>5, <2>6 DEF Ranges
<1>4. CASE UNCHANGED vars
  BY <1>0, <1>4 DEF vars, devices, Ranges, RangeOK, Faulting, InRam, HasVictim, HasSwap, Source
<1> QED BY <1>1, <1>2, <1>3, <1>4 DEF Next

\* It is so at the start.
LEMMA InitRanges ==
  ASSUME {} \in SwpFrame, Init
  PROVE  Ranges
<1>1. TypeOK BY InitTypes
<1>2. pgd = [p \in Page |-> {}] /\ fifo_pgn = <<>> /\ claimed = Given /\ Given \subseteq Page
      /\ \A t \in Thread : pc[t] = "idle" /\ acc[t].pgn = NoPage
  BY PagingAssumption DEF Init, Idle, PagingAssumption
<1>3. \A t \in Thread : RangeOK(t)
  BY <1>2 DEF RangeOK, Faulting, InRam, HasVictim, HasSwap
<1>4. \A p \in claimed : Swp(pgd[p]) \in SwpFrame BY <1>2, EmptyEntry
<1> QED BY <1>1, <1>2, <1>3, <1>4 DEF Ranges

-----------------------------------------------------------------------------
(* What it says of frames and pages *)

\* A list without repetitions has as many elements as its length.
LEMMA CountDistinct ==
  ASSUME NEW S, NEW s \in Seq(S), Distinct(s)
  PROVE  Cardinality({s[i] : i \in DOMAIN s}) = Len(s)
<1> DEFINE T == {s[i] : i \in DOMAIN s}
           n == Len(s)
<1>1. n \in Nat /\ DOMAIN s = 1 .. n /\ s \in [1 .. n -> S] OBVIOUS
<1> HIDE DEF n
<1>2. s \in [1 .. n -> T] BY <1>1
<1>3. \A a, b \in 1 .. n : s[a] = s[b] => a = b BY <1>1 DEF Distinct
<1>4. \A t \in T : \E i \in 1 .. n : s[i] = t BY <1>1
<1> HIDE DEF T
<1>5. s \in Bijection(1 .. n, T) BY <1>2, <1>3, <1>4, Fun_IsBij
<1>6. ExistsBijection(1 .. n, T) BY <1>5, Fun_ExistsBij
<1>7. IsFiniteSet(1 .. n) /\ Cardinality(1 .. n) = n BY <1>1, FS_Interval
<1> QED BY <1>6, <1>7, FS_Bijection DEF T, n

\* The owner of a RAM frame, counted
LEMMA RamOwnedIn ==
  ASSUME RamOK, \A t, u \in Thread : HasFrame(t) /\ HasFrame(u) => t = u
  PROVE  RamOwned
<1>0. RamOK OBVIOUS
<1>1. SUFFICES ASSUME NEW k \in DOMAIN RamFree, NEW f, f = RamFree[k]
               PROVE  Cardinality(RamUses(f)) = 1
  BY DEF RamOwned
<1>2. \A u : u \in RamUses(f) <=>
        \/ \E p \in claimed : u = <<"page", p>> /\ Online(p) /\ Fpn(pgd[p]) = f
        \/ \E i \in DOMAIN ramfree : u = <<"free", i>> /\ ramfree[i] = f
        \/ \E t \in Thread : u = <<"fault", t>> /\ HasFrame(t) /\ acc[t].vicfpn = f
  BY DEF RamUses, HasFrame
<1>3. \A t, u \in Thread : HasFrame(t) /\ HasFrame(u) => t = u OBVIOUS
<1>4. \E x : RamUses(f) = {x}
  <2>1. CASE Listed(ramfree, f)
    <3>1. PICK i \in DOMAIN ramfree : ramfree[i] = f BY <2>1 DEF Listed
    <3>2. \A j \in DOMAIN ramfree : ramfree[j] = f => j = i BY <1>0, <3>1 DEF RamOK, Distinct
    <3>3. \A p \in claimed : Online(p) => Fpn(pgd[p]) # f BY <1>0, <2>1 DEF RamOK
    <3>4. \A t \in Thread : HasFrame(t) => acc[t].vicfpn # f BY <1>0, <2>1 DEF RamOK
    <3>5. RamUses(f) = {<<"free", i>>} BY <1>2, <3>1, <3>2, <3>3, <3>4
    <3> QED BY <3>5
  <2>2. CASE \E p \in claimed : Online(p) /\ Fpn(pgd[p]) = f
    <3>1. PICK p \in claimed : Online(p) /\ Fpn(pgd[p]) = f BY <2>2
    <3>2. \A q \in claimed : Online(q) /\ Fpn(pgd[q]) = f => q = p BY <1>0, <3>1 DEF RamOK
    <3>3. \A i \in DOMAIN ramfree : ramfree[i] # f BY <1>0, <3>1 DEF RamOK, Listed
    <3>4. \A t \in Thread : HasFrame(t) => acc[t].vicfpn # f BY <1>0, <3>1 DEF RamOK
    <3>5. RamUses(f) = {<<"page", p>>} BY <1>2, <3>1, <3>2, <3>3, <3>4
    <3> QED BY <3>5
  <2>3. CASE \E t \in Thread : HasFrame(t) /\ acc[t].vicfpn = f
    <3>1. PICK t \in Thread : HasFrame(t) /\ acc[t].vicfpn = f BY <2>3
    <3>2. \A u \in Thread : HasFrame(u) => u = t BY <1>3, <3>1
    <3>3. \A i \in DOMAIN ramfree : ramfree[i] # f BY <1>0, <3>1 DEF RamOK, Listed
    <3>4. \A p \in claimed : Online(p) => Fpn(pgd[p]) # f BY <1>0, <3>1 DEF RamOK
    <3>5. RamUses(f) = {<<"fault", t>>} BY <1>2, <3>1, <3>2, <3>3, <3>4
    <3> QED BY <3>5
  <2> QED BY <1>0, <1>1, <2>1, <2>2, <2>3 DEF RamOK
<1> QED BY <1>4, FS_Singleton

\* The owner of a swap frame, counted
LEMMA SwapOwnedIn ==
  ASSUME SwapOK, \A t, u \in Thread : HasSwap(t) /\ HasSwap(u) => t = u
  PROVE  SwapOwned
<1>0. SwapOK OBVIOUS
<1>1. SUFFICES ASSUME NEW f \in SwapSpace PROVE Cardinality(SwapUses(f)) = 1
  BY EmptyEntry DEF SwapOwned, SwapSpace
<1>2. \A u : u \in SwapUses(f) <=>
        \/ \E p \in claimed : u = <<"page", p>> /\ ~Online(p) /\ Swp(pgd[p]) = f /\ ~Leaving(p)
        \/ \E i \in DOMAIN swpfree : u = <<"free", i>> /\ swpfree[i] = f
        \/ \E t \in Thread : u = <<"fault", t>> /\ HasSwap(t) /\ acc[t].swpfpn = f
  BY DEF SwapUses, HasSwap, Leaving
<1>3. \A t, u \in Thread : HasSwap(t) /\ HasSwap(u) => t = u OBVIOUS
<1>4. \E x : SwapUses(f) = {x}
  <2>1. CASE Listed(swpfree, f)
    <3>1. PICK i \in DOMAIN swpfree : swpfree[i] = f BY <2>1 DEF Listed
    <3>2. \A j \in DOMAIN swpfree : swpfree[j] = f => j = i BY <1>0, <3>1 DEF SwapOK, Distinct
    <3>3. \A p \in claimed : ~Online(p) /\ Swp(pgd[p]) = f => Leaving(p)
      BY <1>0, <2>1 DEF SwapOK
    <3>4. \A t \in Thread : HasSwap(t) => acc[t].swpfpn # f BY <1>0, <2>1 DEF SwapOK
    <3>5. SwapUses(f) = {<<"free", i>>} BY <1>2, <3>1, <3>2, <3>3, <3>4
    <3> QED BY <3>5
  <2>2. CASE ~Listed(swpfree, f) /\ \E p \in claimed : ~Online(p) /\ Swp(pgd[p]) = f
    <3>1. PICK p \in claimed : ~Online(p) /\ Swp(pgd[p]) = f BY <2>2
    <3>2. \A q \in claimed : ~Online(q) /\ Swp(pgd[q]) = f => q = p BY <1>0, <3>1 DEF SwapOK
    <3>3. \A i \in DOMAIN swpfree : swpfree[i] # f BY <2>2 DEF Listed
    <3>4. \A t \in Thread : HasSwap(t) => acc[t].swpfpn # f BY <1>0, <3>1 DEF SwapOK
    <3>5. ~Leaving(p) BY <1>0, <2>2, <3>1 DEF SwapOK
    <3>6. SwapUses(f) = {<<"page", p>>} BY <1>2, <3>1, <3>2, <3>3, <3>4, <3>5
    <3> QED BY <3>6
  <2>3. CASE \E t \in Thread : HasSwap(t) /\ acc[t].swpfpn = f
    <3>1. PICK t \in Thread : HasSwap(t) /\ acc[t].swpfpn = f BY <2>3
    <3>2. \A u \in Thread : HasSwap(u) => u = t BY <1>3, <3>1
    <3>3. \A i \in DOMAIN swpfree : swpfree[i] # f BY <1>0, <3>1 DEF SwapOK, Listed
    <3>4. \A p \in claimed : ~Online(p) => Swp(pgd[p]) # f BY <1>0, <3>1 DEF SwapOK
    <3>5. SwapUses(f) = {<<"fault", t>>} BY <1>2, <3>1, <3>2, <3>3, <3>4
    <3> QED BY <3>5
  <2> QED BY <1>0, <1>1, <2>1, <2>2, <2>3 DEF SwapOK
<1> QED BY <1>4, FS_Singleton

\* The list, compared with the table
LEMMA FifoExactIn ==
  ASSUME TypeOK, FifoOK
  PROVE  FifoExact
<1>0. FifoOK /\ claimed \subseteq Page /\ fifo_pgn \in Seq(Page) BY TypeFacts DEF TypeOK
<1> DEFINE out == {acc[t].vicpgn : t \in {u \in Thread :
                     pc[u] \in {"getswp", "takeswp", "swapout", "setswap"}}}
           in == {acc[t].pgn : t \in {u \in Thread : pc[u] = "enlist"}}
           listed == {fifo_pgn[i] : i \in DOMAIN fifo_pgn}
<1>1. \A p : (p \in out <=> Out(p)) /\ (p \in in <=> In(p)) BY DEF Out, In, HasVictim
<1>2. \A p : p \in listed <=> Listed(fifo_pgn, p) BY DEF Listed
<1>3. listed \subseteq Page BY <1>0
<1>4. Cardinality(listed) = Len(fifo_pgn) BY <1>0, CountDistinct DEF FifoOK
<1> HIDE DEF out, in, listed
<1>5. listed = {p \in claimed : Online(p)} \ (out \cup in \cup stranded)
  BY <1>0, <1>1, <1>2, <1>3 DEF FifoOK
<1> QED BY <1>4, <1>5, Zenon DEF FifoExact, out, in, listed

\* The frame an access goes to
LEMMA FrameIsPagesIn == ASSUME AccOK PROVE FrameIsPages
BY DEF AccOK, LocalsOK, InRam, FrameIsPages

\* A call in a page fault is the only one.
LEMMA OneFault ==
  ASSUME CallOK
  PROVE  \A t, u \in Thread : (HasFrame(t) /\ HasFrame(u)) \/ (HasSwap(t) /\ HasSwap(u)) => t = u
BY DEF CallOK, HasFrame, HasSwap

-----------------------------------------------------------------------------
(* The theorems *)

\* pg_getpage, MEMPHY_get_freefp and MEMPHY_put_freefp: for any number of CPUs, pages
\* and frames the table, the lists and the locals of the calls agree.
THEOREM Inductive ==
  ASSUME Sound
  PROVE  Spec => []IInv
<1>1. Init => IInv BY InitIInv
<1>2. IInv /\ [Next]_vars => IInv' BY IInvStep
<1> QED BY <1>1, <1>2, PTL DEF Spec, SafeSpec

\* libmem.c, find_victim_page and pg_getpage under mmvm_lock, with pte_set_swap as it is
\* or as it should be, whether pages are mapped or given out unmapped and whichever gets
\* frame 0 of RAM: a page fault works with pages that there are and with frames of the
\* swap device, of which an empty entry names the first.
THEOREM RangesInductive ==
  ASSUME Locked, {} \in SwpFrame
  PROVE  Spec => []Ranges
<1>1. Init => Ranges BY InitRanges
<1>2. Ranges /\ [Next]_vars => Ranges' BY RangesStep
<1> QED BY <1>1, <1>2, PTL DEF Spec, SafeSpec

\* So the variables of the paging code keep their types, if every access takes mmvm_lock.
THEOREM PagingTypes ==
  ASSUME Locked, {} \in SwpFrame
  PROVE  Spec => []TypeOK
<1>1. Ranges => TypeOK BY DEF Ranges
<1> QED BY <1>1, RangesInductive, PTL

\* init_pte, pte_set_swap, pte_set_fpn and the list of RAM frames: each has one owner,
\* through every step of a page fault, and none is lost.
THEOREM RamFramesOwned ==
  ASSUME Sound
  PROVE  Spec => []RamOwned
<1>1. IInv => RamOwned BY RamOwnedIn, OneFault DEF IInv
<1> QED BY <1>1, Inductive, PTL

\* MEMPHY_get_freefp and MEMPHY_put_freefp on the swap device: the same of its frames.
THEOREM SwapFramesOwned ==
  ASSUME Sound
  PROVE  Spec => []SwapOwned
<1>1. IInv => SwapOwned BY SwapOwnedIn, OneFault DEF IInv
<1> QED BY <1>1, Inductive, PTL

\* find_victim_page and enlist_pgn_node: the list has every page in RAM once, but for
\* those of a fault under way and the victims of failed ones.
THEOREM ListIsExact ==
  ASSUME Sound
  PROVE  Spec => []FifoExact
<1>1. IInv => FifoExact BY FifoExactIn DEF IInv
<1> QED BY <1>1, Inductive, PTL

\* pg_getpage returns a frame that still holds the page when pg_getval or pg_setval
\* accesses it.
THEOREM AccessOfOwnFrame ==
  ASSUME Sound
  PROVE  Spec => []FrameIsPages
<1>1. IInv => FrameIsPages BY FrameIsPagesIn DEF IInv
<1> QED BY <1>1, Inductive, PTL

-----------------------------------------------------------------------------
(* The devices as MEMPHY_format lists them, the pages those of __kmalloc     *)

\* What the two lists say of frame 0
LEMMA Formatted ==
  ASSUME AsFormatted
  PROVE  /\ Locked /\ {} \in SwpFrame /\ {} \in RamFrame /\ Given = {}
         /\ RamFree \in Seq(RamFrame) /\ RamFree # <<>> /\ Head(RamFree) = {} /\ Distinct(RamFree)
         /\ SwpFree \in Seq(SwpFrame) /\ SwpFree # <<>> /\ SwpFree[1] = {}
<1>1. RamFree \in Seq(RamFrame) /\ SwpFree \in Seq(SwpFrame)
  BY PagingAssumption DEF PagingAssumption
<1>2. Distinct(RamFree) BY PagingAssumption DEF PagingAssumption, Distinct
<1>3. /\ Locked /\ Given = {} /\ RamFree # <<>> /\ RamFree[1] = {}
      /\ SwpFree # <<>> /\ SwpFree[1] = {}
  BY DEF AsFormatted
<1>4. ASSUME NEW S, NEW s \in Seq(S), s # <<>> PROVE s[1] \in S /\ Head(s) = s[1]
  <2>1. Len(s) \in Nat \ {0} /\ DOMAIN s = 1 .. Len(s) /\ Head(s) = s[1] BY <1>4
  <2>2. 1 \in DOMAIN s BY <2>1
  <2> QED BY <2>1, <2>2
<1>5. RamFree[1] \in RamFrame /\ Head(RamFree) = RamFree[1] BY <1>1, <1>3, <1>4
<1>6. SwpFree[1] \in SwpFrame BY <1>1, <1>3, <1>4
<1> QED BY <1>1, <1>2, <1>3, <1>5, <1>6

\* The part of the swap device that there is
LEMMA Spare ==
  ASSUME AsFormatted, swpsize \in 1 .. Len(SwpFree), NEW all, all = SubSeq(SwpFree, 1, swpsize)
  PROVE  all \in Seq(SwpFrame) /\ all # <<>> /\ Head(all) = {} /\ <<{}>> \o Tail(all) = all
<1>1. SwpFree \in Seq(SwpFrame) /\ SwpFree[1] = {} BY Formatted
<1>2. all \in Seq(SwpFrame) /\ Len(all) = swpsize /\ all[1] = {} BY <1>1
<1>3. all # <<>> /\ Head(all) = {} BY <1>2
<1>4. <<Head(all)>> \o Tail(all) = all BY <1>2, <1>3
<1> QED BY <1>2, <1>3, <1>4

\* One CPU acts: what is said of some call is said of its own.
LEMMA FirstAlone ==
  ASSUME TypeOK, CallOK, NEW t \in Thread, Step(t)
  PROVE  /\ (\E u \in Thread : HasFrame(u)) <=> HasFrame(t)
         /\ (\E u \in Thread : HasFrame(u)') <=> HasFrame(t)'
         /\ (\E u \in Thread : Lent(u)) <=> Lent(t)
         /\ (\E u \in Thread : Lent(u)') <=> Lent(t)'
         /\ (\A u \in Thread : ~HasVictim(u) /\ ~HasFrame(u)) <=> ~HasVictim(t) /\ ~HasFrame(t)
         /\ (\A u \in Thread : ~HasVictim(u)' /\ ~HasFrame(u)')
              <=> ~HasVictim(t)' /\ ~HasFrame(t)'
<1>1. \A u \in Thread \ {t} : pc[u] = "idle" /\ pc'[u] = "idle" BY Alone
<1> QED BY <1>1 DEF HasFrame, HasVictim, Lent

\* pte_set_swap on the young page: it stays young, swap frame 0 is its own.
LEMMA FirstSetSwap ==
  ASSUME AsFormatted, FirstInv, NEW t \in Thread, SetSwap(t)
  PROVE  /\ pc[t] = "setswap" /\ pc'[t] = "swapin" /\ acc' = acc /\ claimed' = claimed
         /\ Young(acc[t].pgn) /\ acc[t].pgn \in Page
         /\ \A q \in Page \ {acc[t].pgn} : pgd'[q] = pgd[q]
         /\ Swapped(pgd'[acc[t].pgn]) /\ Swp(pgd'[acc[t].pgn]) = {}
<1>0. TypeOK /\ claimed \subseteq Page /\ pgd \in [Page -> Pte] BY TypeFacts DEF FirstInv, Ranges
<1>1. /\ pc[t] = "setswap" /\ acc' = acc /\ claimed' = claimed /\ pc' = [pc EXCEPT ![t] = "swapin"]
      /\ pgd' = [pgd EXCEPT ![acc[t].vicpgn]
                   = InSwap(WithSwap(pgd[acc[t].vicpgn], {}, acc[t].swpfpn))]
  BY DEF SetSwap, At, Goto, PteSetSwap, SetEntry
<1>2. pc'[t] = "swapin" BY <1>0, <1>1, TypeFacts
<1>3. Young(acc[t].pgn) /\ acc[t].vicpgn = acc[t].pgn /\ acc[t].swpfpn = {}
  BY <1>1 DEF FirstInv, YoungFault, Faulting, HasVictim, HasSwap
<1>4. acc[t].pgn \in Page BY <1>0, <1>3 DEF Young
<1> DEFINE e == InSwap(WithSwap(pgd[acc[t].pgn], {}, {}))
<1>5. {} \in SwapOffset /\ pgd[acc[t].pgn] \in Pte BY <1>0, <1>4 DEF SwapOffset
<1>6. Swapped(e) /\ Swp(e) = {} BY <1>5, SwapEntry
<1>7. pgd' = [pgd EXCEPT ![acc[t].pgn] = e] BY <1>1, <1>3
<1> HIDE DEF e
<1> QED BY <1>0, <1>1, <1>2, <1>3, <1>4, <1>6, <1>7

\* pte_set_fpn on it: it is in frame 0 and has grown up.
LEMMA FirstSetFpn ==
  ASSUME AsFormatted, FirstInv, NEW t \in Thread, SetFpn(t)
  PROVE  /\ pc[t] = "setfpn" /\ pc'[t] = "enlist" /\ acc' = acc /\ claimed' = claimed
         /\ Young(acc[t].pgn) /\ acc[t].pgn \in Page
         /\ \A q \in Page \ {acc[t].pgn} : pgd'[q] = pgd[q]
         /\ Present(pgd'[acc[t].pgn]) /\ ~Swapped(pgd'[acc[t].pgn]) /\ Fpn(pgd'[acc[t].pgn]) = {}
<1>0. TypeOK /\ claimed \subseteq Page /\ pgd \in [Page -> Pte] BY TypeFacts DEF FirstInv, Ranges
<1>1. /\ pc[t] = "setfpn" /\ acc' = acc /\ claimed' = claimed /\ pc' = [pc EXCEPT ![t] = "enlist"]
      /\ pgd' = [pgd EXCEPT ![acc[t].pgn] = WithFpn(pgd[acc[t].pgn], acc[t].vicfpn)]
  BY DEF SetFpn, At, Goto, PteSetFpn, SetEntry
<1>2. pc'[t] = "enlist" BY <1>0, <1>1, TypeFacts
<1>3. Young(acc[t].pgn) /\ acc[t].vicfpn = {}
  BY <1>1 DEF FirstInv, YoungFault, Faulting, HasFrame
<1>4. acc[t].pgn \in Page BY <1>0, <1>3 DEF Young
<1> DEFINE e == WithFpn(pgd[acc[t].pgn], {})
<1>5. {} \in FrameNumber /\ pgd[acc[t].pgn] \in Pte BY <1>0, <1>4 DEF FrameNumber
<1>6. Present(e) /\ ~Swapped(e) /\ Fpn(e) = {} BY <1>5, FpnRoundTrip
<1>7. pgd' = [pgd EXCEPT ![acc[t].pgn] = e] BY <1>1, <1>3
<1> HIDE DEF e
<1> QED BY <1>0, <1>1, <1>2, <1>3, <1>4, <1>6, <1>7

\* Which pages are young changes only there.
LEMMA FirstYoung ==
  ASSUME AsFormatted, FirstInv, NEW t \in Thread, Step(t), ~SetFpn(t), NEW p
  PROVE  Young(p)' <=> Young(p)
<1>1. claimed' = claimed BY SameMapped
<1>2. CASE SetSwap(t)
  <2>v. PICK r : r = acc[t].pgn OBVIOUS
  <2>a. Swapped(pgd'[r]) /\ \A q \in Page \ {r} : pgd'[q] = pgd[q]
    BY <1>2, <2>v, FirstSetSwap
  <2>1. ~Online(r)' /\ \A q \in Page \ {r} : Online(q)' <=> Online(q)
    BY <2>a DEF Online
  <2>2. Young(r) /\ claimed \subseteq Page
    BY <1>2, <2>v, FirstSetSwap, TypeFacts DEF FirstInv, Ranges
  <2> QED BY <1>1, <2>1, <2>2 DEF Young
<1>3. CASE ~SetSwap(t)
  <2>1. pgd' = pgd BY <1>3, SameTable
  <2> QED BY <1>1, <2>1 DEF Young, Online
<1> QED BY <1>2, <1>3

\* A page is mapped: the first one is young, the others are in RAM.
LEMMA FirstMap ==
  ASSUME AsFormatted, FirstInv, NEW p \in Page, MapRam(p)
  PROVE  /\ \A u \in Thread : pc[u] = "idle"
         /\ p \notin claimed /\ claimed' = claimed \cup {p} /\ fifo_pgn' = <<p>> \o fifo_pgn
         /\ \A q \in Page \ {p} : pgd'[q] = pgd[q]
         /\ UNCHANGED <<pc, acc, ret, ram, swp, swpfree, swpsize, stranded>>
         /\ ramfree # <<>> /\ ramfree' = Tail(ramfree)
         /\ Head(ramfree) = {} <=> claimed = {}
         /\ claimed = {} => pgd'[p] = {} /\ Young(p)'
         /\ claimed # {} => Online(p)' /\ Fpn(pgd'[p]) = Head(ramfree)
<1>0. /\ TypeOK /\ CallOK /\ PlacedOK /\ pgd \in [Page -> Pte]
      /\ RamFrame \subseteq FrameNumber /\ ramfree \in Seq(RamFrame)
  BY TypeFacts DEF FirstInv, Ranges, TypeOK
<1> DEFINE e == InitPte({}, TRUE, Head(ramfree), FALSE, {}, {})
<1>1. /\ mmvm_lock = Nobody /\ p \notin claimed /\ claimed' = claimed \cup {p}
      /\ fifo_pgn' = <<p>> \o fifo_pgn /\ pgd' = [pgd EXCEPT ![p] = e]
      /\ UNCHANGED <<pc, acc, ret, ram, swp, swpfree, swpsize, stranded>>
      /\ ramfree # <<>> /\ ramfree' = Tail(ramfree)
  BY DEF MapRam, IsNext, EnlistPgn, SetEntry, Ram!GetFreeFp
<1>2. \A u \in Thread : pc[u] = "idle" BY <1>0, <1>1, NoCalls
<1>3. Head(ramfree) \in RamFrame /\ Listed(ramfree, Head(ramfree)) BY <1>0, <1>1 DEF Listed
<1>4. Head(ramfree) = {} <=> claimed = {} BY <1>0, <1>3, Formatted DEF PlacedOK
<1>5. claimed = {} => e = {} /\ ~Present(e) BY <1>4, EmptyEntry
<1>6. claimed # {} => Present(e) /\ ~Swapped(e) /\ Fpn(e) = Head(ramfree)
  BY <1>0, <1>3, <1>4, NewRamEntry
<1> HIDE DEF e
<1>7. pgd'[p] = e /\ \A q \in Page \ {p} : pgd'[q] = pgd[q] BY <1>0, <1>1
<1>8. claimed = {} => pgd'[p] = {} /\ Young(p)' BY <1>1, <1>5, <1>7 DEF Young, Online
<1>9. claimed # {} => Online(p)' /\ Fpn(pgd'[p]) = Head(ramfree) BY <1>6, <1>7 DEF Online
<1> QED BY <1>1, <1>2, <1>4, <1>7, <1>8, <1>9

\* Mapping keeps what is said of the young page
LEMMA YoungMap ==
  ASSUME AsFormatted, FirstInv, NEW p \in Page, MapRam(p)
  PROVE  YoungOK'
<1>0. /\ YoungOK /\ Ranges /\ claimed \subseteq Page /\ fifo_pgn \in Seq(Page)
  BY TypeFacts DEF FirstInv, Ranges, TypeOK
<1>1. /\ \A u \in Thread : pc[u] = "idle"
      /\ p \notin claimed /\ claimed' = claimed \cup {p} /\ fifo_pgn' = <<p>> \o fifo_pgn
      /\ \A q \in Page \ {p} : pgd'[q] = pgd[q]
      /\ UNCHANGED <<pc, ram, swp>>
      /\ claimed = {} => pgd'[p] = {} /\ Young(p)'
      /\ claimed # {} => Online(p)'
  BY FirstMap
<1>2. \A q \in Page \ {p} : Young(q)' <=> Young(q) BY <1>1 DEF Young, Online
<1>3. CASE claimed = {}
  <2>1. Len(fifo_pgn) = 0
    <3>1. \A i \in DOMAIN fifo_pgn : FALSE BY <1>0, <1>3 DEF Ranges
    <3>2. Len(fifo_pgn) \in Nat /\ DOMAIN fifo_pgn = 1 .. Len(fifo_pgn) BY <1>0
    <3> QED BY <3>1, <3>2
  <2>2. fifo_pgn' # <<>> /\ Len(fifo_pgn') = 1 /\ fifo_pgn'[1] = p BY <1>0, <1>1, <2>1
  <2>3. \A q \in Page : Young(q)' <=> q = p BY <1>1, <1>2, <1>3 DEF Young
  <2>4. ram'[{}] = Zero /\ swp'[{}] = Zero BY <1>0, <1>1, <1>3 DEF YoungOK
  <2>5. Swp(pgd'[p]) = {} /\ pgd'[p] = {} BY <1>1, <1>3, EmptyEntry
  <2>6. fifo_pgn' # <<>> /\ fifo_pgn'[Len(fifo_pgn')] = p BY <2>2
  <2> QED BY <2>3, <2>4, <2>5, <2>6 DEF YoungOK
<1>4. CASE claimed # {}
  <2>1. \A q \in Page : Young(q)' <=> Young(q) BY <1>1, <1>2, <1>4 DEF Young
  <2>2. \A q \in Page : Young(q) => q # p BY <1>1 DEF Young
  <2>3. \A u \in Thread : ~HasVictim(u) /\ ~HasFrame(u) /\ ~HasVictim(u)' /\ ~HasFrame(u)'
    BY <1>1 DEF HasVictim, HasFrame
  <2>4. ASSUME NEW q \in Page, Young(q)
        PROVE  /\ Swp(pgd'[q]) = {} /\ pgd'[q] = {}
               /\ fifo_pgn' # <<>> /\ fifo_pgn'[Len(fifo_pgn')] = q
    <3>1. pgd'[q] = pgd[q] BY <1>1, <2>2, <2>4
    <3>2. /\ Swp(pgd[q]) = {} /\ pgd[q] = {}
          /\ fifo_pgn # <<>> /\ fifo_pgn[Len(fifo_pgn)] = q
      BY <1>0, <2>3, <2>4 DEF YoungOK
    <3>3. fifo_pgn' # <<>> /\ fifo_pgn'[Len(fifo_pgn')] = fifo_pgn[Len(fifo_pgn)]
      BY <1>0, <1>1, <3>2
    <3> QED BY <3>1, <3>2, <3>3
  <2>5. (\E q \in Page : Young(q)) => ram'[{}] = Zero /\ swp'[{}] = Zero
    BY <1>0, <1>1 DEF YoungOK
  <2>6. claimed' # {} BY <1>1
  <2>7. \A q, r \in Page : Young(q) /\ Young(r) => q = r BY <1>0 DEF YoungOK
  <2> QED BY <2>1, <2>4, <2>5, <2>6, <2>7 DEF YoungOK
<1> QED BY <1>3, <1>4

\* And of the frames
LEMMA PlacedMap ==
  ASSUME AsFormatted, FirstInv, NEW p \in Page, MapRam(p)
  PROVE  PlacedOK'
<1>0. PlacedOK /\ claimed \subseteq Page /\ ramfree \in Seq(RamFrame)
  BY TypeFacts DEF FirstInv, Ranges, TypeOK
<1>1. /\ p \notin claimed /\ claimed' = claimed \cup {p}
      /\ \A q \in Page \ {p} : pgd'[q] = pgd[q]
      /\ ramfree # <<>> /\ ramfree' = Tail(ramfree)
      /\ Head(ramfree) = {} <=> claimed = {}
      /\ claimed = {} => Young(p)'
      /\ claimed # {} => Online(p)' /\ Fpn(pgd'[p]) = Head(ramfree)
  BY FirstMap
<1>v. PICK h : h = Head(ramfree) OBVIOUS
<1>2. \A q \in claimed : pgd'[q] = pgd[q] /\ (Online(q)' <=> Online(q)) BY <1>0, <1>1 DEF Online
<1>3. /\ Distinct(ramfree') /\ Listed(ramfree, h) /\ h \in RamFrame
      /\ \A f : Listed(ramfree', f) <=> Listed(ramfree, f) /\ f # h
  <2>1. /\ Distinct(Tail(ramfree)) /\ Listed(ramfree, h)
        /\ \A f : Listed(Tail(ramfree), f) <=> Listed(ramfree, f) /\ f # h
    BY <1>0, <1>1, <1>v, TailList DEF PlacedOK
  <2>2. h \in RamFrame BY <1>0, <1>1, <1>v
  <2> QED BY <1>1, <2>1, <2>2
<1>4. ~Listed(ramfree', {})
  BY <1>0, <1>1, <1>3, <1>v DEF PlacedOK
<1>5. \A q \in claimed : Online(q) => Fpn(pgd[q]) \in RamFrame /\ ~Listed(ramfree, Fpn(pgd[q]))
  BY <1>0 DEF PlacedOK
<1>6. claimed' # {} BY <1>1
<1>7. CASE claimed = {}
  <2>1. claimed' = {p} /\ ~Online(p)' BY <1>1, <1>7 DEF Young
  <2>2. \A q \in claimed' : ~Online(q)' BY <2>1
  <2> QED BY <1>3, <1>4, <1>6, <2>2 DEF PlacedOK
<1>8. CASE claimed # {}
  <2>1. Online(p)' /\ Fpn(pgd'[p]) = h /\ h # {} BY <1>1, <1>8, <1>v
  <2>2. \A q \in claimed' : Online(q)' => Fpn(pgd'[q]) \in RamFrame /\ ~Listed(ramfree', Fpn(pgd'[q]))
    BY <1>1, <1>2, <1>3, <1>5, <2>1
  <2>3. \A q \in claimed : Online(q)' => Fpn(pgd'[q]) # h BY <1>2, <1>3, <1>5
  <2>4. \A q, r \in claimed : Online(q)' /\ Online(r)' /\ Fpn(pgd'[q]) = Fpn(pgd'[r]) => q = r
    BY <1>0, <1>2 DEF PlacedOK
  <2>5. \A q, r \in claimed' : Online(q)' /\ Online(r)' /\ Fpn(pgd'[q]) = Fpn(pgd'[r]) => q = r
    BY <1>1, <2>1, <2>3, <2>4
  <2>6. \A q, r \in claimed' : Young(q)' /\ Online(r)' => Fpn(pgd'[r]) # {}
    <3>1. SUFFICES ASSUME NEW q \in claimed', NEW r \in claimed', Young(q)', Online(r)'
                   PROVE  Fpn(pgd'[r]) # {}
      OBVIOUS
    <3>2. q \in claimed /\ Young(q) BY <1>1, <1>2, <2>1, <3>1 DEF Young
    <3>3. CASE r = p BY <2>1, <3>3
    <3>4. CASE r # p BY <1>0, <1>1, <1>2, <3>1, <3>2, <3>4 DEF PlacedOK
    <3> QED BY <3>3, <3>4
  <2> QED BY <1>3, <1>4, <1>6, <2>2, <2>5, <2>6 DEF PlacedOK
<1> QED BY <1>7, <1>8

\* Where a call ends
LEMMA GiveUpAt ==
  ASSUME TypeOK, NEW t \in Thread, Step(t), GiveUp(t)
  PROVE  pc[t] \in {"check", "victim", "getswp", "access"}
<1>1. pc' = [pc EXCEPT ![t] = "return"] /\ pc'[t] = "return" BY GiveUpEffect DEF GiveUp, Goto
<1>2. \A l : pc' = [pc EXCEPT ![t] = l] => l = "return" BY <1>1, TypeFacts
<1> QED BY <1>1, <1>2
        DEF Step, Fault, Check, FindVictim, ReadSwapHead, TakeSwap, SwapOut, SetSwap, SwapIn,
            ReadPutHead, LinkPut, SetFpn, Enlist, GetFrame, Access, Return, At, Goto

\* A step of a call keeps what is said of the frames of RAM.
LEMMA PlacedGoes ==
  ASSUME AsFormatted, FirstInv, NEW t \in Thread, Step(t)
  PROVE  PlacedOK'
<1>0. PlacedOK /\ claimed \subseteq Page BY TypeFacts DEF FirstInv, Ranges
<1>1. ramfree' = ramfree /\ claimed' = claimed
  BY DEF Step, Fault, Check, FindVictim, ReadSwapHead, TakeSwap, SwapOut, SetSwap, SwapIn,
         ReadPutHead, LinkPut, SetFpn, Enlist, GetFrame, Access, Return, devices
<1>2. CASE SetFpn(t)
  <2>v. PICK r : r = acc[t].pgn OBVIOUS
  <2>1. /\ Young(r) /\ \A q \in Page \ {r} : pgd'[q] = pgd[q]
        /\ Present(pgd'[r]) /\ ~Swapped(pgd'[r]) /\ Fpn(pgd'[r]) = {}
    BY <1>2, <2>v, FirstSetFpn
  <2>2. r \in claimed /\ Online(r)' /\ {} \in RamFrame /\ ~Listed(ramfree, {})
    BY <1>0, <2>1, Formatted DEF Young, Online, PlacedOK
  <2>3. \A q \in claimed : q # r => pgd'[q] = pgd[q] /\ (Online(q)' <=> Online(q))
    BY <1>0, <2>1 DEF Online
  <2>4. \A q \in claimed : Online(q) => Fpn(pgd[q]) # {} BY <1>0, <2>1, <2>2 DEF PlacedOK
  <2>5. \A q \in claimed : Online(q)' => Fpn(pgd'[q]) \in RamFrame /\ ~Listed(ramfree, Fpn(pgd'[q]))
    BY <1>0, <2>1, <2>2, <2>3 DEF PlacedOK
  <2>6. \A q, u \in claimed : Online(q)' /\ Online(u)' /\ Fpn(pgd'[q]) = Fpn(pgd'[u]) => q = u
    BY <1>0, <2>1, <2>2, <2>3, <2>4 DEF PlacedOK
  <2>7. \A q \in claimed : ~Young(q)'
    <3>1. \A q \in claimed : Young(q) => q = r BY <1>0, <2>1, <2>2 DEF FirstInv, YoungOK
    <3>2. \A q \in claimed : q # r => ~Young(q)' BY <1>1, <2>3, <3>1 DEF Young
    <3> QED BY <2>2, <3>2 DEF Young
  <2>8. Distinct(ramfree) /\ claimed # {} BY <1>0, <2>2 DEF PlacedOK
  <2> QED BY <1>1, <2>2, <2>5, <2>6, <2>7, <2>8 DEF PlacedOK
<1>3. CASE ~SetFpn(t)
  <2>1. \A q \in claimed : (Online(q)' <=> Online(q)) /\ (Young(q)' <=> Young(q))
    BY <1>1, <1>3, FirstYoung DEF Young
  <2>2. \A q \in claimed : Online(q) => pgd'[q] = pgd[q]
    <3>1. CASE SetSwap(t)
      <4>v. PICK r : r = acc[t].pgn OBVIOUS
      <4>1. Young(r) /\ \A q \in Page \ {r} : pgd'[q] = pgd[q] BY <3>1, <4>v, FirstSetSwap
      <4> QED BY <1>0, <4>1 DEF Young
    <3>2. CASE ~SetSwap(t) BY <1>3, <3>2, SameTable
    <3> QED BY <3>1, <3>2
  <2> QED BY <1>0, <1>1, <2>1, <2>2 DEF PlacedOK
<1> QED BY <1>2, <1>3

\* The list of swap frames is whole again when frame 0 is back.
LEMMA SpareGoes ==
  ASSUME AsFormatted, FirstInv, NEW t \in Thread, Step(t)
  PROVE  SpareOK'
<1>v. PICK all : all = SubSeq(SwpFree, 1, swpsize) OBVIOUS
<1>0. TypeOK /\ CallOK /\ SpareOK /\ YoungFault(t) BY DEF FirstInv, Ranges
<1>1. swpsize' = swpsize /\ swpsize \in 1 .. Len(SwpFree) BY <1>0, SameSpace DEF Next, SpareOK
<1>2. all \in Seq(SwpFrame) /\ all # <<>> /\ Head(all) = {} /\ <<{}>> \o Tail(all) = all
  BY <1>1, <1>v, Spare
<1>3. /\ (\E u \in Thread : Lent(u)) <=> Lent(t)
      /\ (\E u \in Thread : Lent(u)') <=> Lent(t)'
  BY <1>0, FirstAlone
<1>4. stranded = {} /\ swpfree = (IF Lent(t) THEN Tail(all) ELSE all)
  BY <1>0, <1>3, <1>v DEF SpareOK
<1>5. SUFFICES stranded' = {} /\ swpfree' = (IF Lent(t)' THEN Tail(all) ELSE all)
  BY <1>1, <1>3, <1>v DEF SpareOK
<1>6. CASE TakeSwap(t)
  <2>1. pc[t] = "takeswp" /\ swpfree' = Tail(acc[t].seen) /\ stranded' = stranded
    BY <1>6 DEF TakeSwap, At, Mswp!GetFreeFp
  <2>2. acc[t].seen = all BY <1>0, <1>v, <2>1 DEF YoungFault
  <2>3. pc' = [pc EXCEPT ![t] = "swapout"] BY <1>6 DEF TakeSwap, Goto
  <2>4. pc'[t] = "swapout" BY <1>0, <2>3, TypeFacts
  <2> QED BY <1>4, <2>1, <2>2, <2>4 DEF Lent
<1>7. CASE LinkPut(t)
  <2>1. /\ pc[t] = "putlink" /\ swpfree' = <<Source(t)>> \o acc[t].seen /\ stranded' = stranded
        /\ pc' = [pc EXCEPT ![t] = "setfpn"]
    BY <1>7 DEF LinkPut, At, Goto, PutSwap, Mswp!PutFreeFp
  <2>2. Source(t) = {} /\ acc[t].seen = swpfree /\ Lent(t)
    BY <1>0, <2>1, EmptyEntry DEF YoungFault, Faulting, Source, Lent
  <2>3. pc'[t] = "setfpn" BY <1>0, <2>1, TypeFacts
  <2> QED BY <1>2, <1>4, <2>1, <2>2, <2>3 DEF Lent
<1>8. CASE ~TakeSwap(t) /\ ~LinkPut(t)
  <2>1. stranded' = stranded
    <3>1. CASE ReadSwapHead(t)
      <4>1. pc[t] = "getswp" BY <3>1 DEF ReadSwapHead, At
      <4>2. swpfree # <<>> BY <1>2, <1>4, <4>1 DEF Lent
      <4> QED BY <3>1, <4>2 DEF ReadSwapHead
    <3>2. CASE ~ReadSwapHead(t)
      BY <1>8, <3>2 DEF Step, Fault, Check, FindVictim, SwapOut, SetSwap, SwapIn,
             ReadPutHead, SetFpn, Enlist, GetFrame, Access, Return
    <3> QED BY <3>1, <3>2
  <2>2. swpfree' = swpfree
    BY <1>8 DEF Step, Fault, Check, FindVictim, ReadSwapHead, SwapOut, SetSwap, SwapIn,
           ReadPutHead, SetFpn, Enlist, GetFrame, Access, Return, devices
  <2>3. Lent(t)' <=> Lent(t)
    <3>1. CASE GiveUp(t)
      BY <1>0, <3>1, GiveUpEffect, GiveUpAt DEF Lent
    <3>2. CASE ~GiveUp(t)
      BY <1>0, <1>8, <3>2, OneStep DEF Step, Fault, Lent
    <3> QED BY <3>1, <3>2
  <2> QED BY <1>4, <2>1, <2>2, <2>3
<1> QED BY <1>6, <1>7, <1>8

\* Until the young page is in RAM both frames 0 hold what they held at the start.
LEMMA ZeroGoes ==
  ASSUME AsFormatted, FirstInv, NEW t \in Thread, Step(t), claimed = {} \/ \E p \in Page : Young(p)
  PROVE  ram'[{}] = Zero /\ swp'[{}] = Zero
<1>0. /\ TypeOK /\ YoungOK /\ PlacedOK /\ YoungFault(t) /\ RangeOK(t) /\ claimed \subseteq Page
      /\ ram \in [RamFrame -> Val] /\ swp \in [SwpFrame -> Val]
  BY TypeFacts DEF FirstInv, Ranges, TypeOK
<1>1. ram[{}] = Zero /\ swp[{}] = Zero /\ {} \in RamFrame /\ {} \in SwpFrame
  BY <1>0, Formatted DEF YoungOK
<1>2. CASE SwapOut(t)
  <2>v. PICK f, g : f = Fpn(pgd[acc[t].vicpgn]) /\ g = acc[t].swpfpn OBVIOUS
  <2>1. pc[t] = "swapout" /\ SysSwap(t, f, g) BY <1>2, <2>v DEF SwapOut, At
  <2>2. g = {} /\ acc[t].vicpgn = acc[t].pgn /\ Young(acc[t].pgn) /\ acc[t].pgn \in Page
    BY <1>0, <2>1, <2>v DEF YoungFault, HasSwap, HasVictim, Faulting, Young
  <2>3. \A u \in Thread : ~HasFrame(u)
    BY <1>0, <2>1, FirstAlone, <1>2 DEF FirstInv, HasFrame, Step, Fault
  <2>4. pgd[acc[t].pgn] = {} BY <1>0, <2>2, <2>3 DEF YoungOK
  <2>5. f = {} BY <2>2, <2>4, <2>v DEF Fpn, GetVal, Shr
  <2>6. ram' = ram /\ (swp' = swp \/ swp' = [swp EXCEPT ![{}] = ram[{}]])
    BY <1>1, <2>1, <2>2, <2>5 DEF SysSwap, Ram!Read, Ram!Answers, Mswp!Write, Mswp!Answers
  <2> QED BY <1>0, <1>1, <2>6
<1>3. CASE SwapIn(t)
  <2>v. PICK f, g : f = acc[t].vicfpn /\ g = Source(t) OBVIOUS
  <2>1. pc[t] = "swapin" /\ swp' = swp /\ \E v \in Mswp!Read(g) : Ram!Write(f, v)
    BY <1>3, <2>v DEF SwapIn, At
  <2>2. f = {} /\ g = {}
    BY <1>0, <2>1, <2>v, EmptyEntry DEF YoungFault, HasFrame, Faulting, Source
  <2>3. ram' = [ram EXCEPT ![{}] = swp[{}]]
    BY <1>1, <2>1, <2>2 DEF Mswp!Read, Mswp!Answers, Ram!Write, Ram!Answers
  <2> QED BY <1>0, <1>1, <2>1, <2>3
<1>4. CASE Access(t)
  <2>v. PICK f : f = acc[t].fpn OBVIOUS
  <2>1. pc[t] = "access" /\ swp' = swp /\ (ram' = ram \/ SysWrite(t, f, acc[t].val))
    BY <1>4, <2>v DEF Access, At
  <2>2. acc[t].pgn \in claimed /\ Online(acc[t].pgn) /\ f = Fpn(pgd[acc[t].pgn])
    BY <1>0, <2>1, <2>v DEF YoungFault, InRam
  <2>3. f # {}
    <3>1. PICK p \in Page : Young(p) BY <2>2
    <3> QED BY <1>0, <2>2, <3>1 DEF PlacedOK, Young
  <2>4. ram' = ram \/ \E v : ram' = [ram EXCEPT ![f] = v]
    BY <2>1 DEF SysWrite, Ram!Write, Ram!Answers
  <2> QED BY <1>0, <1>1, <2>1, <2>3, <2>4
<1>5. CASE ~SwapOut(t) /\ ~SwapIn(t) /\ ~Access(t)
  <2>1. UNCHANGED <<ram, swp>>
    BY <1>5 DEF Step, Fault, Check, FindVictim, ReadSwapHead, TakeSwap, SetSwap,
           ReadPutHead, LinkPut, SetFpn, Enlist, GetFrame, Return, devices
  <2> QED BY <1>1, <2>1
<1> QED BY <1>2, <1>3, <1>4, <1>5

\* The young page is at the end of the list, or in its fault.
LEMMA LastGoes ==
  ASSUME AsFormatted, FirstInv, NEW t \in Thread, Step(t), ~SetFpn(t), NEW p \in Page, Young(p),
         ~HasVictim(t)', ~HasFrame(t)'
  PROVE  fifo_pgn' # <<>> /\ fifo_pgn'[Len(fifo_pgn')] = p
<1>0. TypeOK /\ CallOK /\ YoungOK /\ SpareOK /\ fifo_pgn \in Seq(Page) /\ acc[t] \in Acc
  BY TypeFacts DEF FirstInv, Ranges, TypeOK
<1>1. ~HasVictim(t) /\ ~HasFrame(t)
  <2>1. CASE GiveUp(t)
    <3>1. pc[t] \in {"check", "victim", "getswp", "access"} BY <1>0, <2>1, GiveUpAt
    <3>2. ASSUME pc[t] = "getswp" PROVE FALSE
      <4>1. ReadSwapHead(t)
        BY <3>2 DEF Step, Fault, Check, FindVictim, TakeSwap, SwapOut, SetSwap, SwapIn,
           ReadPutHead, LinkPut, SetFpn, Enlist, GetFrame, Access, Return, At
      <4>2. \A u \in Thread : ~Lent(u) BY <1>0, <3>2, FirstAlone DEF Lent
      <4>3. swpfree # <<>> BY <1>0, <4>2, Spare DEF SpareOK
      <4>4. pc'[t] = "return" BY <1>0, <2>1, GiveUpEffect
      <4>5. pc' = [pc EXCEPT ![t] = "takeswp"] BY <4>1, <4>3 DEF ReadSwapHead, Goto
      <4> QED BY <1>0, <4>4, <4>5, TypeFacts
    <3> QED BY <3>1, <3>2 DEF HasVictim, HasFrame
  <2>2. CASE ~GiveUp(t) BY <1>0, <2>2, OneStep DEF Step, Fault, HasVictim, HasFrame
  <2> QED BY <2>1, <2>2
<1>2. fifo_pgn # <<>> /\ fifo_pgn[Len(fifo_pgn)] = p BY <1>0, <1>1, FirstAlone DEF YoungOK
<1>3. CASE Enlist(t)
  <2>1. fifo_pgn' = <<acc[t].pgn>> \o fifo_pgn BY <1>3 DEF Enlist, EnlistPgn
  <2> QED BY <1>0, <1>2, <2>1
<1>4. CASE FindVictim(t) /\ ~Victimless(fifo_pgn)
  <2>1. pc' = [pc EXCEPT ![t] = "getswp"] BY <1>4 DEF FindVictim, Goto
  <2> QED BY <1>0, <2>1, TypeFacts DEF HasVictim
<1>5. CASE ~Enlist(t) /\ ~(FindVictim(t) /\ ~Victimless(fifo_pgn))
  <2>1. fifo_pgn' = fifo_pgn
    BY <1>5 DEF Step, Fault, Check, FindVictim, ReadSwapHead, TakeSwap, SwapOut, SetSwap, SwapIn,
           ReadPutHead, LinkPut, SetFpn, GetFrame, Access, Return
  <2> QED BY <1>2, <2>1
<1> QED BY <1>3, <1>4, <1>5

\* A step of a call keeps what is said of the young page.
LEMMA YoungGoes ==
  ASSUME AsFormatted, FirstInv, NEW t \in Thread, Step(t)
  PROVE  YoungOK'
<1>0. TypeOK /\ CallOK /\ YoungOK /\ claimed \subseteq Page BY TypeFacts DEF FirstInv, Ranges
<1>1. claimed' = claimed BY SameMapped
<1>2. CASE SetFpn(t)
  <2>v. PICK r : r = acc[t].pgn OBVIOUS
  <2>1. /\ Young(r) /\ r \in Page /\ \A q \in Page \ {r} : pgd'[q] = pgd[q]
        /\ Present(pgd'[r]) /\ ~Swapped(pgd'[r])
    BY <1>2, <2>v, FirstSetFpn
  <2>2. \A q \in Page : Young(q) => q = r BY <1>0, <2>1 DEF YoungOK
  <2>3. \A q \in Page : ~Young(q)' BY <1>1, <2>1, <2>2 DEF Young, Online
  <2>4. claimed # {} BY <2>1 DEF Young
  <2> QED BY <1>1, <2>3, <2>4 DEF YoungOK
<1>3. CASE ~SetFpn(t)
  <2>1. \A q \in Page : Young(q)' <=> Young(q) BY <1>3, FirstYoung
  <2>2. claimed = {} \/ (\E q \in Page : Young(q)) => ram'[{}] = Zero /\ swp'[{}] = Zero
    BY ZeroGoes
  <2>3. ASSUME NEW q \in Page, Young(q)
        PROVE  Swp(pgd'[q]) = {} /\ (pgd'[q] = {} \/ \E u \in Thread : HasFrame(u)')
    <3>1. CASE SetSwap(t)
      <4>1. Young(acc[t].pgn) /\ acc[t].pgn \in Page /\ Swp(pgd'[acc[t].pgn]) = {} /\ pc'[t] = "swapin"
        BY <3>1, FirstSetSwap
      <4>2. q = acc[t].pgn BY <1>0, <2>3, <4>1 DEF YoungOK
      <4> QED BY <4>1, <4>2 DEF HasFrame
    <3>2. CASE ~SetSwap(t)
      <4>1. pgd' = pgd BY <1>3, <3>2, SameTable
      <4>2. Swp(pgd[q]) = {} /\ (pgd[q] = {} \/ \E u \in Thread : HasFrame(u))
        BY <1>0, <2>3 DEF YoungOK
      <4>3. HasFrame(t) => HasFrame(t)'
        <5>1. HasFrame(t) => ~GiveUp(t) BY <1>0, GiveUpAt DEF HasFrame
        <5> QED BY <1>0, <1>3, <5>1, OneStep DEF Step, Fault, HasFrame
      <4> QED BY <1>0, <4>1, <4>2, <4>3, FirstAlone
    <3> QED BY <3>1, <3>2
  <2>4. ASSUME NEW q \in Page, Young(q), \A u \in Thread : ~HasVictim(u)' /\ ~HasFrame(u)'
        PROVE  fifo_pgn' # <<>> /\ fifo_pgn'[Len(fifo_pgn')] = q
    BY <1>3, <2>4, LastGoes
  <2>5. \A q, r \in Page : Young(q) /\ Young(r) => q = r BY <1>0 DEF YoungOK
  <2> QED BY <1>1, <2>1, <2>2, <2>3, <2>4, <2>5 DEF YoungOK
<1> QED BY <1>2, <1>3

\* A page whose entry says PRESENT has been in RAM, unless its fault is under way.
LEMMA FirstPresent ==
  ASSUME FirstInv, NEW t \in Thread, Check(t), NEW p \in claimed
  PROVE  (Present(pgd[p]) <=> Online(p)) /\ (Young(p) => pgd[p] = {})
<1>0. TypeOK /\ CallOK /\ YoungOK /\ claimed \subseteq Page BY TypeFacts DEF FirstInv, Ranges
<1>1. \A u \in Thread : ~HasFrame(u)
  BY <1>0, FirstAlone DEF Step, Check, At, HasFrame
<1>2. Young(p) => pgd[p] = {} BY <1>0, <1>1 DEF YoungOK
<1> QED BY <1>2, EmptyEntry DEF Online, Young

\* A call goes on.
LEMMA YoungFaultGoes ==
  ASSUME AsFormatted, FirstInv, NEW t \in Thread, Step(t)
  PROVE  YoungFault(t)'
<1>0. /\ TypeOK /\ CallOK /\ YoungOK /\ SpareOK /\ YoungFault(t) /\ RangeOK(t) /\ claimed' = claimed
      /\ acc \in [Thread -> Acc] /\ acc[t] \in Acc /\ NoPage \notin claimed /\ claimed \subseteq Page
      /\ fifo_pgn \in Seq(Page) /\ swpsize' = swpsize
  BY TypeFacts, SameMapped, SameSpace DEF FirstInv, Ranges, TypeOK, Next
<1>p. PICK p : p = acc[t].pgn OBVIOUS
<1> USE DEF Faulting, InRam, HasVictim, HasSwap, HasFrame
<1>2. CASE GiveUp(t)
  <2>1. pc'[t] = "return" BY <1>0, <1>2, GiveUpEffect
  <2> QED BY <2>1 DEF YoungFault
<1>3. CASE ~GiveUp(t)
  <2>y. ~SetFpn(t) => (Young(p)' <=> Young(p)) BY FirstYoung
  <2>1. CASE Check(t)
    <3>1. /\ p \in claimed /\ acc' = [acc EXCEPT ![t].pte = pgd[p]]
          /\ pc' = [pc EXCEPT ![t] = IF Present(pgd[p]) THEN "frame" ELSE "victim"]
          /\ pgd' = pgd
      BY <1>0, <1>3, <1>p, <2>1 DEF Check, Set, Goto, RangeOK
    <3>2. acc'[t].pgn = p /\ acc'[t].pte = pgd[p] BY <1>0, <1>p, <3>1 DEF Acc
    <3>3. (Present(pgd[p]) <=> Online(p)) /\ (Young(p) => pgd[p] = {})
      BY <2>1, <3>1, FirstPresent
    <3>4. CASE Present(pgd[p])
      <4>1. pc'[t] = "frame" BY <1>0, <3>1, <3>4, TypeFacts
      <4> QED BY <1>0, <3>1, <3>2, <3>3, <3>4, <4>1 DEF YoungFault, Online
    <3>5. CASE ~Present(pgd[p])
      <4>1. pc'[t] = "victim" BY <1>0, <3>1, <3>5, TypeFacts
      <4>2. Young(p) BY <3>1, <3>3, <3>5 DEF Young
      <4>3. Young(p)' BY <1>0, <3>1, <4>2 DEF Young, Online
      <4> QED BY <3>2, <3>3, <4>1, <4>2, <4>3 DEF YoungFault
    <3> QED BY <3>4, <3>5
  <2>2. CASE FindVictim(t)
    <3>1. /\ pc[t] = "victim" /\ pc'[t] = "getswp"
          /\ acc' = [acc EXCEPT ![t].vicpgn = fifo_pgn[Len(fifo_pgn)]] /\ pgd' = pgd
      BY <1>0, <1>3, <2>2, OneStep DEF FindVictim, Set, Step, Fault
    <3>2. /\ acc'[t].pgn = p /\ acc'[t].pte = acc[t].pte
          /\ acc'[t].vicpgn = fifo_pgn[Len(fifo_pgn)]
      BY <1>0, <1>p, <3>1 DEF Acc
    <3>3. Young(p) /\ acc[t].pte = {} BY <1>0, <1>p, <3>1 DEF YoungFault
    <3>4. \A u \in Thread : ~HasVictim(u) /\ ~HasFrame(u) BY <1>0, <3>1, FirstAlone
    <3>5. fifo_pgn[Len(fifo_pgn)] = p BY <1>0, <3>3, <3>4 DEF YoungOK, Young
    <3>6. Young(p)' BY <1>0, <3>1, <3>3 DEF Young, Online
    <3> QED BY <3>1, <3>2, <3>3, <3>5, <3>6 DEF YoungFault
  <2>3. CASE ReadSwapHead(t)
    <3>1. /\ pc[t] = "getswp" /\ pc'[t] = "takeswp"
          /\ acc' = [acc EXCEPT ![t].seen = swpfree] /\ pgd' = pgd
      BY <1>0, <1>3, <2>3, OneStep DEF ReadSwapHead, Set, Step, Fault
    <3>2. /\ acc'[t].pgn = p /\ acc'[t].pte = acc[t].pte
          /\ acc'[t].vicpgn = acc[t].vicpgn /\ acc'[t].seen = swpfree
      BY <1>0, <1>p, <3>1 DEF Acc
    <3>3. \A u \in Thread : ~Lent(u) BY <1>0, <3>1, FirstAlone DEF Lent
    <3>4. swpfree = SubSeq(SwpFree, 1, swpsize) BY <1>0, <3>3 DEF SpareOK
    <3>5. Young(p) /\ Young(p)' BY <1>0, <1>p, <3>1 DEF YoungFault, Young, Online
    <3> QED BY <1>0, <1>p, <3>1, <3>2, <3>4, <3>5 DEF YoungFault
  <2>4. CASE TakeSwap(t)
    <3>1. /\ pc[t] = "takeswp" /\ pc'[t] = "swapout"
          /\ acc' = [acc EXCEPT ![t].swpfpn = Head(acc[t].seen)] /\ pgd' = pgd
      BY <1>0, <1>3, <2>4, OneStep DEF TakeSwap, Set, Step, Fault
    <3>2. /\ acc'[t].pgn = p /\ acc'[t].pte = acc[t].pte
          /\ acc'[t].vicpgn = acc[t].vicpgn /\ acc'[t].swpfpn = Head(acc[t].seen)
      BY <1>0, <1>p, <3>1 DEF Acc
    <3>3. acc[t].seen = SubSeq(SwpFree, 1, swpsize) BY <1>0, <3>1 DEF YoungFault
    <3>4. acc'[t].swpfpn = {} BY <1>0, <3>2, <3>3, Spare DEF SpareOK
    <3>5. Young(p) /\ Young(p)' BY <1>0, <1>p, <3>1 DEF YoungFault, Young, Online
    <3> QED BY <1>0, <1>p, <3>1, <3>2, <3>4, <3>5 DEF YoungFault
  <2>5. CASE SwapOut(t)
    <3>1. /\ pc[t] = "swapout" /\ pc'[t] = "setswap"
          /\ acc' = [acc EXCEPT ![t].vicfpn = Fpn(pgd[acc[t].vicpgn])] /\ pgd' = pgd
      BY <1>0, <1>3, <2>5, OneStep DEF SwapOut, Set, Step, Fault
    <3>2. /\ acc'[t].pgn = p /\ acc'[t].pte = acc[t].pte
          /\ acc'[t].vicpgn = acc[t].vicpgn /\ acc'[t].swpfpn = acc[t].swpfpn
          /\ acc'[t].vicfpn = Fpn(pgd[acc[t].vicpgn])
      BY <1>0, <1>p, <3>1 DEF Acc
    <3>3. Young(p) /\ Young(p)' /\ p \in Page /\ acc[t].vicpgn = p
      BY <1>0, <1>p, <3>1 DEF YoungFault, Young, Online
    <3>4. \A u \in Thread : ~HasFrame(u) BY <1>0, <3>1, FirstAlone
    <3>5. pgd[p] = {} BY <1>0, <3>3, <3>4 DEF YoungOK
    <3>6. acc'[t].vicfpn = {} BY <3>2, <3>3, <3>5 DEF Fpn, GetVal, Shr
    <3> QED BY <1>0, <1>p, <3>1, <3>2, <3>3, <3>6 DEF YoungFault
  <2>6. CASE SetSwap(t)
    <3>1. pc[t] = "setswap" /\ pc'[t] = "swapin" /\ acc' = acc /\ Young(p)
      BY <1>p, <2>6, FirstSetSwap
    <3>2. ~SetFpn(t) BY <3>1 DEF SetFpn, At
    <3> QED BY <1>0, <1>p, <2>y, <3>1, <3>2 DEF YoungFault
  <2>7. CASE SwapIn(t) \/ LinkPut(t)
    <3>1. /\ pc[t] \in {"swapin", "putlink"} /\ pc'[t] \in {"putread", "setfpn"} /\ acc' = acc
          /\ pgd' = pgd
      BY <1>0, <1>3, <2>7, OneStep DEF SwapIn, LinkPut, Step, Fault
    <3>2. Young(p) /\ Young(p)' BY <1>0, <1>p, <3>1 DEF YoungFault, Young, Online
    <3> QED BY <1>0, <1>p, <3>1, <3>2 DEF YoungFault
  <2>8. CASE ReadPutHead(t)
    <3>1. /\ pc[t] = "putread" /\ pc'[t] = "putlink" /\ UNCHANGED <<pgd, swpfree>>
          /\ acc' = [acc EXCEPT ![t].seen = swpfree]
      BY <1>0, <1>3, <2>8, OneStep DEF ReadPutHead, Set, Step, Fault, devices
    <3>2. /\ acc'[t].pgn = p /\ acc'[t].pte = acc[t].pte /\ acc'[t].vicfpn = acc[t].vicfpn
          /\ acc'[t].seen = swpfree
      BY <1>0, <1>p, <3>1 DEF Acc
    <3>3. Young(p) /\ Young(p)' BY <1>0, <1>p, <3>1 DEF YoungFault, Young, Online
    <3> QED BY <1>0, <1>p, <3>1, <3>2, <3>3 DEF YoungFault
  <2>9. CASE SetFpn(t)
    <3>1. /\ pc'[t] = "enlist" /\ acc' = acc /\ Young(p) /\ Online(p)'
      BY <1>p, <2>9, FirstSetFpn DEF Online
    <3> QED BY <1>0, <1>p, <3>1 DEF YoungFault, Young
  <2>10. CASE Enlist(t)
    <3>1. pc[t] = "enlist" /\ pc'[t] = "frame" /\ acc' = acc /\ pgd' = pgd
      BY <1>0, <1>3, <2>10, OneStep DEF Enlist, Step, Fault
    <3>2. p \in claimed /\ Online(p)' BY <1>0, <1>p, <3>1 DEF YoungFault, Online
    <3> QED BY <1>0, <1>p, <3>1, <3>2 DEF YoungFault
  <2>11. CASE GetFrame(t)
    <3>1. /\ pc[t] = "frame" /\ pc'[t] = "access" /\ pgd' = pgd
          /\ acc' = [acc EXCEPT ![t].fpn = Fpn(pgd[p])]
      BY <1>0, <1>3, <1>p, <2>11, OneStep DEF GetFrame, Set, Step
    <3>2. acc'[t].pgn = p /\ acc'[t].fpn = Fpn(pgd[p]) BY <1>0, <1>p, <3>1 DEF Acc
    <3>3. p \in claimed /\ Online(p)' BY <1>0, <1>p, <3>1 DEF YoungFault, Online
    <3> QED BY <1>0, <3>1, <3>2, <3>3 DEF YoungFault
  <2>12. CASE Access(t) \/ Return(t)
    <3>1. pc'[t] \in {"return", "idle"} BY <1>0, <1>3, <2>12, OneStep DEF Step
    <3> QED BY <3>1 DEF YoungFault
  <2> QED BY <2>1, <2>2, <2>3, <2>4, <2>5, <2>6, <2>7, <2>8, <2>9, <2>10, <2>11, <2>12
          DEF Step, Fault
<1> QED BY <1>2, <1>3

\* Every step keeps it all.
LEMMA FirstStep ==
  ASSUME AsFormatted, FirstInv, [Next]_vars
  PROVE  FirstInv'
<1>0. /\ Ranges /\ TypeOK /\ CallOK /\ YoungOK /\ PlacedOK /\ SpareOK
      /\ Locked /\ {} \in SwpFrame
  BY Formatted DEF FirstInv, Ranges
<1>1. Ranges' /\ CallOK' BY <1>0, RangesStep, CallStep
<1> USE DEF Faulting, InRam, HasVictim, HasSwap, HasFrame
<1>2. ASSUME NEW p \in Page, MapRam(p) PROVE FirstInv'
  <2>1. \A u \in Thread : pc'[u] = "idle" /\ pc[u] = "idle" BY <1>2, FirstMap
  <2>2. UNCHANGED <<swpfree, swpsize, stranded>> BY <1>2, FirstMap
  <2>3. SpareOK' BY <1>0, <2>1, <2>2 DEF SpareOK, Lent
  <2>4. \A u \in Thread : YoungFault(u)' BY <2>1 DEF YoungFault
  <2> QED BY <1>1, <1>2, <2>3, <2>4, YoungMap, PlacedMap DEF FirstInv
<1>3. ASSUME NEW t \in Thread, Call(t) PROVE FirstInv'
  <2>1. /\ UNCHANGED <<pgd, fifo_pgn, ram, ramfree, swp, swpfree, swpsize, claimed, stranded>>
        /\ \A u \in Thread : pc[u] = "idle" /\ pc'[u] \in {"idle", "check"}
    BY <1>0, <1>3, Begins DEF Call, devices
  <2>2. \A q : (Online(q)' <=> Online(q)) /\ (Young(q)' <=> Young(q)) BY <2>1 DEF Online, Young
  <2>3. YoungOK' BY <1>0, <2>1, <2>2 DEF YoungOK
  <2>4. PlacedOK' BY <1>0, <2>1, <2>2 DEF PlacedOK
  <2>5. SpareOK' BY <1>0, <2>1 DEF SpareOK, Lent
  <2>6. \A u \in Thread : YoungFault(u)' BY <2>1 DEF YoungFault
  <2> QED BY <1>1, <2>3, <2>4, <2>5, <2>6 DEF FirstInv
<1>4. ASSUME NEW t \in Thread, Step(t) PROVE FirstInv'
  <2>1. \A u \in Thread \ {t} : pc'[u] = "idle" BY <1>0, <1>4, Alone
  <2>2. \A u \in Thread \ {t} : YoungFault(u)' BY <2>1 DEF YoungFault
  <2>3. \A u \in Thread : YoungFault(u)' BY <1>4, <2>2, YoungFaultGoes
  <2> QED BY <1>1, <1>4, <2>3, YoungGoes, PlacedGoes, SpareGoes DEF FirstInv
<1>5. CASE UNCHANGED vars
  <2>1. UNCHANGED <<pgd, fifo_pgn, ram, ramfree, swp, swpfree, swpsize, pc, acc, claimed, stranded>>
    BY <1>5 DEF vars, devices
  <2>2. \A q : (Online(q)' <=> Online(q)) /\ (Young(q)' <=> Young(q)) BY <2>1 DEF Online, Young
  <2>3. YoungOK' BY <1>0, <2>1, <2>2 DEF YoungOK
  <2>4. PlacedOK' BY <1>0, <2>1, <2>2 DEF PlacedOK
  <2>5. SpareOK' BY <1>0, <2>1 DEF SpareOK, Lent
  <2>6. \A u \in Thread : YoungFault(u)' BY <2>1, <2>2 DEF YoungFault, FirstInv
  <2> QED BY <1>1, <2>3, <2>4, <2>5, <2>6 DEF FirstInv
<1> QED BY <1>2, <1>3, <1>4, <1>5 DEF Next

\* No page has been mapped.
LEMMA InitFirst ==
  ASSUME AsFormatted, Init, swpsize # 0
  PROVE  FirstInv
<1>0. /\ {} \in SwpFrame /\ {} \in RamFrame /\ Distinct(RamFree) /\ Given = {}
      /\ Len(SwpFree) \in Nat
  BY Formatted
<1>1. Ranges BY <1>0, InitRanges
<1>2. /\ claimed = {} /\ stranded = {} /\ \A t \in Thread : pc[t] = "idle" /\ ret[t] = Pending
      /\ ramfree = RamFree /\ ram[{}] = Zero /\ swp[{}] = Zero
      /\ swpsize \in 0 .. Len(SwpFree) /\ swpfree = SubSeq(SwpFree, 1, swpsize)
  BY <1>0 DEF Init, Ram!InitMemphy, Mswp!InitMemphy
<1>3. CallOK BY <1>2 DEF CallOK
<1>4. YoungOK BY <1>2 DEF YoungOK, Young
<1>5. PlacedOK BY <1>0, <1>2 DEF PlacedOK
<1>6. swpsize \in 1 .. Len(SwpFree) BY <1>0, <1>2
<1>7. SpareOK BY <1>2, <1>6 DEF SpareOK, Lent
<1>8. \A t \in Thread : YoungFault(t)
  BY <1>2 DEF YoungFault, Faulting, InRam, HasVictim, HasSwap, HasFrame
<1> QED BY <1>1, <1>3, <1>4, <1>5, <1>7, <1>8 DEF FirstInv

\* libmem.c, pg_getpage with pte_set_swap as it is, both devices in the order of
\* MEMPHY_format and a swap device that is not empty: of the pages that __kmalloc maps
\* only the one in frame 0 of RAM ever faults, once, and the lists, the entries and the
\* locals of the fault are those of FirstInv between any two steps.
THEOREM FirstInductive ==
  ASSUME AsFormatted
  PROVE  Spec /\ swpsize # 0 => []FirstInv
<1>1. Init /\ swpsize # 0 => FirstInv BY InitFirst
<1>2. FirstInv /\ [Next]_vars => FirstInv' BY FirstStep
<1> QED BY <1>1, <1>2, PTL DEF Spec, SafeSpec

\* libmem.c:266, find_victim_page in that fault: it picks the very page that is to be
\* brought in, so no other page is ever swapped out.
THEOREM VictimItself ==
  ASSUME AsFormatted
  PROVE  Spec /\ swpsize # 0 => []VictimIsItself
<1>1. FirstInv => VictimIsItself BY DEF FirstInv, YoungFault, VictimIsItself
<1> QED BY <1>1, FirstInductive, PTL

\* pg_getpage's result, again: as built, for the pages of __kmalloc and calls that take
\* mmvm_lock, the frame of an access is that of its page.
THEOREM FirstFrame ==
  ASSUME AsFormatted
  PROVE  Spec /\ swpsize # 0 => []FrameIsPages
<1>1. FirstInv => FrameIsPages BY DEF FirstInv, YoungFault, InRam, FrameIsPages
<1> QED BY <1>1, FirstInductive, PTL

=============================================================================

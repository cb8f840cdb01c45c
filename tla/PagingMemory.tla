----------------------------- MODULE PagingMemory -----------------------------
(***************************************************************************)
(* Paging implements Memory, for any number of CPUs, pages and frames: the *)
(* value of a page is where its entry says, and only a write changes it.   *)
(***************************************************************************)
EXTENDS PagingProofs

\* The two mapped variables of Memory
Mem == [p \in Page \cup {NoPage} |-> IF p \in claimed THEN Content(p) ELSE Unmapped]
Request(t) == [reads |-> Reads(acc[t].op), pgn |-> acc[t].pgn, val |-> acc[t].val]
CallOf == [t \in Thread |-> IF pc[t] = "idle" THEN NoCall ELSE Request(t)]

\* The request of a call is not NoCall.
LEMMA RequestType ==
  ASSUME TypeOK, NEW t \in Thread
  PROVE  /\ Request(t) \in [reads : BOOLEAN, pgn : Page \cup {NoPage}, val : Val]
         /\ Request(t) # NoCall
<1>1. acc[t].pgn \in Page \cup {NoPage} /\ acc[t].val \in Val BY TypeFacts DEF Acc
<1>2. Reads(acc[t].op) \in BOOLEAN BY DEF Reads
<1>3. Request(t) \in [reads : BOOLEAN, pgn : Page \cup {NoPage}, val : Val]
  BY <1>1, <1>2 DEF Request
<1> QED BY <1>3, PagingAssumption DEF PagingAssumption

\* Pages that keep their values
LEMMA MemSame ==
  ASSUME claimed' = claimed, \A p \in claimed : Content(p)' = Content(p)
  PROVE  Mem' = Mem
BY DEF Mem

\* Nothing written, nothing moved
LEMMA SameContent ==
  ASSUME UNCHANGED <<pgd, ram, swp>>
  PROVE  \A p : Content(p)' = Content(p)
BY DEF Content, Online

\* A step within a call leaves its request.
LEMMA SameArgs ==
  ASSUME TypeOK, NEW t \in Thread, Step(t), ~Return(t)
  PROVE  Request(t)' = Request(t)
<1>0. TypeOK /\ pc \in [Thread -> Labels] /\ acc \in [Thread -> Acc] BY TypeFacts
<1>1. \/ acc' = acc
      \/ \E x : \/ acc' = [acc EXCEPT ![t].pte = x] \/ acc' = [acc EXCEPT ![t].vicpgn = x]
                \/ acc' = [acc EXCEPT ![t].seen = x] \/ acc' = [acc EXCEPT ![t].swpfpn = x]
                \/ acc' = [acc EXCEPT ![t].vicfpn = x] \/ acc' = [acc EXCEPT ![t].fpn = x]
  BY DEF Step, Fault, Check, FindVictim, ReadSwapHead, TakeSwap, SwapOut, SetSwap, SwapIn,
         ReadPutHead, LinkPut, SetFpn, Enlist, GetFrame, Access, GiveUp, Set
<1>2. acc'[t].op = acc[t].op /\ acc'[t].pgn = acc[t].pgn /\ acc'[t].val = acc[t].val
  <2>1. acc'[t].op = acc[t].op BY <1>0, <1>1 DEF Acc
  <2>2. acc'[t].pgn = acc[t].pgn BY <1>0, <1>1 DEF Acc
  <2>3. acc'[t].val = acc[t].val BY <1>0, <1>1 DEF Acc
  <2> QED BY <2>1, <2>2, <2>3
<1> QED BY <1>2 DEF Request

\* Nobody begins or ends a call.
LEMMA SameRequest ==
  ASSUME TypeOK, CallOK, NEW t \in Thread, Step(t), ~Return(t)
  PROVE  CallOf' = CallOf
<1>0. TypeOK /\ CallOK /\ pc \in [Thread -> Labels] BY TypeFacts
<1>3. pc[t] # "idle" /\ \A u \in Thread \ {t} : pc[u] = "idle" /\ pc'[u] = "idle"
  BY <1>0, Alone
<1>4. pc'[t] # "idle"
  <2>1. CASE GiveUp(t) BY <1>0, <2>1, GiveUpEffect
  <2>2. CASE ~GiveUp(t) BY <1>0, <2>2, OneStep DEF Step, Fault
  <2> QED BY <2>1, <2>2
<1>5. Request(t)' = Request(t) BY <1>0, SameArgs
<1>6. \A u \in Thread : (IF pc'[u] = "idle" THEN NoCall ELSE Request(u)')
                      = (IF pc[u] = "idle" THEN NoCall ELSE Request(u))
  BY <1>3, <1>4, <1>5
<1> QED BY <1>6 DEF CallOf

-----------------------------------------------------------------------------
(* The steps of a page fault do not show. *)

\* A copy or a change of the table leaves every page the value it had.
LEMMA FaultKeepsPages ==
  ASSUME Sound, Running = Thread, IInv, NEW t \in Thread, Fault(t)
  PROVE  Mem' = Mem
<1>0. TypeOK /\ AccOK /\ RamOK /\ SwapOK /\ DataOK /\ claimed \subseteq Page
      /\ ram \in [RamFrame -> Val] /\ swp \in [SwpFrame -> Val]
  BY TypeFacts DEF IInv, TypeOK
<1>m. claimed' = claimed BY SameMapped DEF Step
<1>q. SUFFICES \A p \in claimed : Content(p)' = Content(p) BY <1>m, MemSame
<1>1. CASE SwapOut(t)
  <2>v. PICK f, g : f = Fpn(pgd[acc[t].vicpgn]) /\ g = acc[t].swpfpn OBVIOUS
  <2>1. pc[t] = "swapout" /\ SysSwap(t, f, g) /\ pgd' = pgd BY <1>1, <2>v DEF SwapOut, At
  <2>2. g \in SwpFrame /\ \A p \in claimed : ~Online(p) => Swp(pgd[p]) # g
    BY <1>0, <2>1, <2>v DEF SwapOK, HasSwap
  <2>3. ram' = ram /\ \E v : swp' = [swp EXCEPT ![g] = v]
    BY <2>1, <2>2 DEF SysSwap, Mswp!Write, Mswp!Answers
  <2>4. \A h \in SwpFrame : h # g => swp'[h] = swp[h] BY <1>0, <2>3
  <2>5. \A p \in claimed : ~Online(p) => Swp(pgd[p]) \in SwpFrame BY <1>0 DEF SwapOK
  <2> QED BY <2>1, <2>2, <2>3, <2>4, <2>5 DEF Content, Online
<1>2. CASE SetSwap(t)
  <2>v. PICK v, f, g : v = acc[t].vicpgn /\ f = acc[t].vicfpn /\ g = acc[t].swpfpn OBVIOUS
  <2>1. /\ pc[t] = "setswap" /\ v \in claimed /\ Online(v)
        /\ \A p \in Page \ {v} : pgd'[p] = pgd[p]
        /\ ~Present(pgd'[v]) /\ Swp(pgd'[v]) = g
    BY <1>2, <2>v, SetSwapEffect
  <2>2. UNCHANGED <<ram, swp>> BY <1>2 DEF SetSwap, devices
  <2>3. f = Fpn(pgd[v]) BY <1>0, <2>1, <2>v DEF AccOK, LocalsOK
  <2>4. swp[g] = ram[f] BY <1>0, <2>1, <2>v DEF DataOK
  <2>5. ~Online(v)' BY <2>1 DEF Online
  <2>6. Content(v)' = Content(v) BY <2>1, <2>2, <2>3, <2>4, <2>5 DEF Content
  <2>7. \A p \in claimed : p # v => Content(p)' = Content(p)
    BY <1>0, <2>1, <2>2 DEF Content, Online
  <2> QED BY <2>6, <2>7
<1>3. CASE SwapIn(t)
  <2>v. PICK f, g : f = acc[t].vicfpn /\ g = Source(t) OBVIOUS
  <2>1. /\ pc[t] = "swapin" /\ UNCHANGED <<pgd, swp>>
        /\ \E v \in Mswp!Read(g) : Ram!Write(f, v)
    BY <1>3, <2>v DEF SwapIn, At
  <2>2. f \in RamFrame /\ \A p \in claimed : Online(p) => Fpn(pgd[p]) # f
    BY <1>0, <2>1, <2>v DEF RamOK, HasFrame
  <2>3. \E v : ram' = [ram EXCEPT ![f] = v] BY <2>1, <2>2 DEF Ram!Write, Ram!Answers
  <2>4. \A h \in RamFrame : h # f => ram'[h] = ram[h] BY <1>0, <2>3
  <2>5. \A p \in claimed : Online(p) => Fpn(pgd[p]) \in RamFrame BY <1>0 DEF RamOK
  <2> QED BY <2>1, <2>2, <2>4, <2>5 DEF Content, Online
<1>4. CASE SetFpn(t)
  <2>v. PICK p, f : p = acc[t].pgn /\ f = acc[t].vicfpn OBVIOUS
  <2>1. /\ pc[t] = "setfpn" /\ p \in claimed /\ ~Online(p)
        /\ \A q \in Page \ {p} : pgd'[q] = pgd[q]
        /\ Present(pgd'[p]) /\ ~Swapped(pgd'[p]) /\ Fpn(pgd'[p]) = f
    BY <1>4, <2>v, SetFpnEffect
  <2>2. UNCHANGED <<ram, swp>> BY <1>4 DEF SetFpn, devices
  <2>3. ram[f] = swp[Swp(pgd[p])] BY <1>0, <2>1, <2>v DEF DataOK, Copied
  <2>4. Online(p)' BY <2>1 DEF Online
  <2>5. Content(p)' = Content(p) BY <2>1, <2>2, <2>3, <2>4 DEF Content
  <2>6. \A q \in claimed : q # p => Content(q)' = Content(q)
    BY <1>0, <2>1, <2>2 DEF Content, Online
  <2> QED BY <2>5, <2>6
<1>5. CASE FindVictim(t) \/ ReadSwapHead(t) \/ TakeSwap(t) \/ ReadPutHead(t) \/ LinkPut(t)
           \/ Enlist(t)
  <2>1. UNCHANGED <<pgd, ram, swp>>
    BY <1>5 DEF FindVictim, ReadSwapHead, TakeSwap, ReadPutHead, LinkPut, Enlist, devices
  <2> QED BY <2>1, SameContent
<1> QED BY <1>1, <1>2, <1>3, <1>4, <1>5 DEF Fault

-----------------------------------------------------------------------------
(* Each step is one of Memory or none. *)

\* A page that is mapped gets the value its frame holds.
LEMMA MapsPage ==
  ASSUME Sound, IInv, IInv', NEW p \in Page, MapRam(p)
  PROVE  /\ Mem[p] = Unmapped
         /\ \E v \in Val : Mem' = [Mem EXCEPT ![p] = v]
         /\ UNCHANGED <<CallOf, ret>>
<1>0. claimed \subseteq Page BY TypeFacts DEF IInv
<1>1. /\ p \notin claimed /\ claimed' = claimed \cup {p} /\ UNCHANGED <<pc, acc, ram, swp>>
      /\ \A q \in Page \ {p} : pgd'[q] = pgd[q]
  BY MapEffect
<1>2. ret' = ret BY DEF MapRam
<1>3. CallOf' = CallOf BY <1>1 DEF CallOf, Request
<1>4. Content(p)' \in Val
  <2>1. /\ RamOK' /\ SwapOK' /\ ram' \in [RamFrame -> Val] /\ swp' \in [SwpFrame -> Val]
        /\ p \in claimed'
    BY <1>1 DEF IInv, TypeOK
  <2> QED BY <2>1 DEF Content, RamOK, SwapOK
<1>5. \A q \in claimed : Content(q)' = Content(q) BY <1>0, <1>1 DEF Content, Online
<1>6. Mem' = [Mem EXCEPT ![p] = Content(p)'] BY <1>1, <1>5 DEF Mem
<1>7. Mem[p] = Unmapped BY <1>1 DEF Mem
<1> QED BY <1>2, <1>3, <1>4, <1>6, <1>7

\* A CPU that has the lock has made its request.
LEMMA BeginsCall ==
  ASSUME Locked, TypeOK, CallOK, TypeOK', NEW t \in Thread, Call(t)
  PROVE  /\ CallOf[t] = NoCall
         /\ \E c \in [reads : BOOLEAN, pgn : Page \cup {NoPage}, val : Val] :
              CallOf' = [CallOf EXCEPT ![t] = c]
         /\ UNCHANGED <<Mem, ret>>
<1>1. /\ \A u \in Thread : pc[u] = "idle"
      /\ pc'[t] = "check" /\ \A u \in Thread \ {t} : pc'[u] = "idle"
  BY Begins
<1>2. UNCHANGED <<pgd, ram, swp, ret, claimed>> BY DEF Call, devices
<1>3. Mem' = Mem BY <1>2, SameContent, MemSame
<1>4. Request(t)' \in [reads : BOOLEAN, pgn : Page \cup {NoPage}, val : Val]
  <2>1. acc'[t].pgn \in Page \cup {NoPage} /\ acc'[t].val \in Val BY DEF TypeOK
  <2>2. Reads(acc'[t].op) \in BOOLEAN BY DEF Reads
  <2> QED BY <2>1, <2>2 DEF Request
<1>5. CallOf[t] = NoCall /\ CallOf' = [CallOf EXCEPT ![t] = Request(t)'] BY <1>1 DEF CallOf
<1> QED BY <1>2, <1>3, <1>4, <1>5

\* The result is -1, nothing else has changed.
LEMMA Fails ==
  ASSUME TypeOK, CallOK, NEW t \in Thread, Check(t) \/ FindVictim(t) \/ ReadSwapHead(t), GiveUp(t)
  PROVE  /\ ret[t] = Pending /\ CallOf[t] # NoCall
         /\ ret' = [ret EXCEPT ![t] = Failed]
         /\ UNCHANGED <<Mem, CallOf>>
<1>0. TypeOK /\ CallOK OBVIOUS
<1>1. pc[t] \in {"check", "victim", "getswp"} BY DEF Check, FindVictim, ReadSwapHead, At
<1>2. ret[t] = Pending BY <1>0, <1>1 DEF CallOK
<1>3. CallOf[t] # NoCall BY <1>0, <1>1, RequestType DEF CallOf
<1>4. UNCHANGED <<pgd, ram, swp, claimed>> BY DEF Check, FindVictim, ReadSwapHead, devices
<1>5. ~Return(t) BY <1>1 DEF Return, At
<1>6. CallOf' = CallOf BY <1>0, <1>5, SameRequest DEF Step, Fault
<1>7. Mem' = Mem BY <1>4, SameContent, MemSame
<1> QED BY <1>2, <1>3, <1>6, <1>7 DEF GiveUp

\* What Memory sees of an access: the value of its page, in the frame the call goes to.
AccessSound(t) ==
  At(t, "access") =>
    /\ acc[t].pgn \in claimed /\ Online(acc[t].pgn)
    /\ acc[t].fpn = Fpn(pgd[acc[t].pgn])

\* pg_getval and pg_setval at the frame that pg_getpage returned
LEMMA Accesses ==
  ASSUME Running = Thread, TypeOK, NEW t \in Thread, Access(t), AccessSound(t),
         \A p \in claimed : Online(p) => Fpn(pgd[p]) \in RamFrame,
         \A p, q \in claimed : Online(p) /\ Online(q) /\ Fpn(pgd[p]) = Fpn(pgd[q]) => p = q,
         ret[t] = Pending, CallOf' = CallOf
  PROVE  /\ ret[t] = Pending /\ CallOf[t] # NoCall /\ CallOf' = CallOf
         /\ Mem[CallOf[t].pgn] # Unmapped
         /\ \/ /\ CallOf[t].reads /\ Mem' = Mem
               /\ ret' = [ret EXCEPT ![t] = Mem[CallOf[t].pgn]]
            \/ /\ ~CallOf[t].reads /\ ret' = [ret EXCEPT ![t] = Done]
               /\ Mem' = [Mem EXCEPT ![CallOf[t].pgn] = CallOf[t].val]
<1>v. PICK p, f : p = acc[t].pgn /\ f = acc[t].fpn OBVIOUS
<1>0. /\ TypeOK /\ ram \in [RamFrame -> Val]
      /\ \A q \in claimed : Online(q) => Fpn(pgd[q]) \in RamFrame
      /\ \A q, r \in claimed : Online(q) /\ Online(r) /\ Fpn(pgd[q]) = Fpn(pgd[r]) => q = r
  BY DEF TypeOK
<1>1. pc[t] = "access" BY DEF Access, At
<1>2. ret[t] = Pending OBVIOUS
<1>3. CallOf[t] = Request(t) BY <1>1 DEF CallOf
<1>4. /\ CallOf[t] # NoCall /\ CallOf[t].pgn = p /\ CallOf[t].val = acc[t].val
      /\ CallOf[t].reads = Reads(acc[t].op)
  BY <1>0, <1>3, <1>v, RequestType DEF Request
<1>6. CallOf' = CallOf OBVIOUS
<1>7. p \in claimed /\ Online(p) /\ f = Fpn(pgd[p])
  BY <1>0, <1>1, <1>v DEF AccessSound, At
<1>8. f \in RamFrame BY <1>0, <1>7
<1>9. Mem[p] = Content(p) /\ Mem[p] # Unmapped /\ Content(p) = ram[f] /\ p \in Page \cup {NoPage}
  <2>1. Content(p) = ram[f] /\ ram[f] \in Val BY <1>0, <1>7, <1>8 DEF Content
  <2>2. p \in Page BY <1>0, <1>7, TypeFacts
  <2>3. Unmapped \notin Val BY PagingAssumption DEF PagingAssumption
  <2> QED BY <1>7, <2>1, <2>2, <2>3 DEF Mem
<1>10. UNCHANGED <<pgd, swp, claimed>> BY DEF Access
<1>11. CASE Reads(acc[t].op)
  <2>1. ram' = ram /\ ret' = [ret EXCEPT ![t] = ram[f]]
    BY <1>8, <1>11, <1>v DEF Access, SysRead, Ram!Read, Ram!Answers
  <2>2. Mem' = Mem BY <1>10, <2>1, SameContent, MemSame
  <2> QED BY <1>2, <1>4, <1>6, <1>9, <1>11, <2>1, <2>2
<1>12. CASE ~Reads(acc[t].op)
  <2>v. PICK x : x = acc[t].val OBVIOUS
  <2>1. ram' = [ram EXCEPT ![f] = x] /\ ret' = [ret EXCEPT ![t] = Done]
    BY <1>8, <1>12, <1>v, <2>v DEF Access, SysWrite, Ram!Write, Ram!Answers
  <2>2. ram'[f] = x /\ \A h \in RamFrame : h # f => ram'[h] = ram[h] BY <1>0, <1>8, <2>1
  <2>3. Content(p)' = x BY <1>7, <1>10, <2>2 DEF Content, Online
  <2>4. ASSUME NEW q \in claimed, q # p PROVE Content(q)' = Content(q)
    <3>1. CASE Online(q)
      <4>1. Fpn(pgd[q]) \in RamFrame /\ Fpn(pgd[q]) # f BY <1>0, <1>7, <2>4, <3>1
      <4> QED BY <1>10, <2>2, <3>1, <4>1 DEF Content, Online
    <3>2. CASE ~Online(q) BY <1>10, <3>2 DEF Content, Online
    <3> QED BY <3>1, <3>2
  <2>5. Mem' = [Mem EXCEPT ![p] = x] BY <1>7, <1>9, <1>10, <2>3, <2>4 DEF Mem
  <2> QED BY <1>2, <1>4, <1>6, <1>9, <1>12, <2>1, <2>5, <2>v
<1> QED BY <1>11, <1>12

\* The CPU has its result and is idle.
LEMMA EndsCall ==
  ASSUME TypeOK, CallOK, NEW t \in Thread, Return(t)
  PROVE  /\ ret[t] # Pending /\ ret' = [ret EXCEPT ![t] = Pending]
         /\ CallOf' = [CallOf EXCEPT ![t] = NoCall] /\ Mem' = Mem
<1>0. TypeOK /\ CallOK /\ pc \in [Thread -> Labels] BY TypeFacts
<1>1. /\ pc[t] = "return" /\ pc' = [pc EXCEPT ![t] = "idle"]
      /\ ret' = [ret EXCEPT ![t] = Pending] /\ UNCHANGED <<pgd, ram, swp, claimed>>
  BY DEF Return, At, Goto, devices
<1>2. ret[t] # Pending BY <1>0, <1>1 DEF CallOK
<1>3. \A u \in Thread \ {t} : pc[u] = "idle" /\ pc'[u] = "idle" BY <1>0, Alone DEF Step
<1>4. pc'[t] = "idle" BY <1>0, <1>1
<1>5. CallOf' = [CallOf EXCEPT ![t] = NoCall] BY <1>3, <1>4 DEF CallOf
<1>6. Mem' = Mem BY <1>1, SameContent, MemSame
<1> QED BY <1>1, <1>2, <1>5, <1>6

\* The other steps, if those of a page fault leave every page its value
LEMMA Stutters ==
  ASSUME TypeOK, CallOK, NEW t \in Thread, Step(t), ~GiveUp(t), ~Access(t), ~Return(t),
         Fault(t) => Mem' = Mem
  PROVE  UNCHANGED <<Mem, CallOf, ret>>
<1>1. CallOf' = CallOf BY SameRequest
<1>2. CASE Fault(t)
  <2>1. ret' = ret
    BY <1>2 DEF Fault, FindVictim, ReadSwapHead, TakeSwap, SwapOut, SetSwap, SwapIn,
           ReadPutHead, LinkPut, SetFpn, Enlist
  <2> QED BY <1>1, <1>2, <2>1
<1>3. CASE Check(t) \/ GetFrame(t)
  <2>1. UNCHANGED <<pgd, ram, swp, claimed, ret>> BY <1>3 DEF Check, GetFrame, devices
  <2> QED BY <1>1, <2>1, SameContent, MemSame
<1> QED BY <1>2, <1>3 DEF Step

\* Each step is a step of Memory or leaves its variables alone, if a page that is mapped
\* gets a value, page faults do not show and an access is that of its page.
LEMMA StepImplements ==
  ASSUME Locked, Running = Thread, TypeOK, CallOK, TypeOK', [Next]_vars,
         \A p \in Page : MapRam(p) =>
           /\ Mem[p] = Unmapped /\ \E v \in Val : Mem' = [Mem EXCEPT ![p] = v]
           /\ UNCHANGED <<CallOf, ret>>,
         \A t \in Thread : Fault(t) => Mem' = Mem,
         \A t \in Thread : AccessSound(t),
         \A p \in claimed : Online(p) => Fpn(pgd[p]) \in RamFrame,
         \A p, q \in claimed : Online(p) /\ Online(q) /\ Fpn(pgd[p]) = Fpn(pgd[q]) => p = q
  PROVE  [Abstract!Next]_(Abstract!vars)
<1> DEFINE Same == Mem' = Mem /\ CallOf' = CallOf /\ ret' = ret
<1>1. ASSUME NEW p \in Page, MapRam(p) PROVE Abstract!Next
  <2>1. Abstract!Map(p) BY <1>1 DEF Abstract!Map, Mem, CallOf, Request
  <2> QED BY <2>1 DEF Abstract!Next
<1>2. ASSUME NEW t \in Thread, Call(t) PROVE Abstract!Next
  <2>1. Abstract!Call(t)
    BY <1>2, BeginsCall DEF Abstract!Call, Abstract!Calls, Mem, CallOf, Request
  <2> QED BY <2>1 DEF Abstract!Next
<1>3. ASSUME NEW t \in Thread, Step(t) PROVE Abstract!Next \/ Same
  <2>1. CASE Access(t)
    <3>1. pc[t] = "access" BY <2>1 DEF Access, At
    <3>2. ~Return(t) BY <3>1 DEF Return, At
    <3>3. CallOf' = CallOf BY <1>3, <3>2, SameRequest
    <3>4. ret[t] = Pending BY <3>1 DEF CallOK
    <3>5. Abstract!Read(t) \/ Abstract!Write(t)
      BY <2>1, <3>3, <3>4, Accesses DEF Abstract!Read, Abstract!Write, Mem, CallOf, Request
    <3> QED BY <3>5 DEF Abstract!Next
  <2>2. CASE Return(t)
    <3>1. Abstract!Return(t) BY <2>2, EndsCall DEF Abstract!Return, Mem, CallOf, Request
    <3> QED BY <3>1 DEF Abstract!Next
  <2>3. CASE GiveUp(t) /\ (Check(t) \/ FindVictim(t) \/ ReadSwapHead(t))
    <3>1. Abstract!Fail(t) BY <2>3, Fails DEF Abstract!Fail, Mem, CallOf, Request
    <3> QED BY <3>1 DEF Abstract!Next
  <2>4. CASE GiveUp(t) /\ ~(Check(t) \/ FindVictim(t) \/ ReadSwapHead(t)) /\ ~Access(t) /\ ~Return(t)
    <3>1. pc[t] \in {"check", "victim", "getswp", "access"} BY <1>3, <2>4, GiveUpAt
    <3> QED BY <1>3, <2>4, <3>1
            DEF Step, Fault, TakeSwap, SwapOut, SetSwap, SwapIn, ReadPutHead, LinkPut, SetFpn,
                Enlist, GetFrame, At
  <2>5. CASE ~GiveUp(t) /\ ~Access(t) /\ ~Return(t) BY <1>3, <2>5, Stutters
  <2> QED BY <2>1, <2>2, <2>3, <2>4, <2>5
<1>4. ASSUME UNCHANGED vars PROVE Same
  <2>1. UNCHANGED <<pgd, ram, swp, claimed, pc, acc, ret>> BY <1>4 DEF vars, devices
  <2>2. Mem' = Mem BY <2>1, SameContent, MemSame
  <2>3. CallOf' = CallOf BY <2>1 DEF CallOf, Request
  <2> QED BY <2>1, <2>2, <2>3
<1> HIDE DEF Same
<1>5. Abstract!Next \/ Same BY <1>1, <1>2, <1>3, <1>4 DEF Next
<1>6. Same => UNCHANGED Abstract!vars BY DEF Same, Abstract!vars, Mem, CallOf, Request
<1> QED BY <1>5, <1>6

\* With every page in swap not PRESENT
LEMMA SoundImplements ==
  ASSUME Sound, Running = Thread, IInv, IInv', [Next]_vars
  PROVE  [Abstract!Next]_(Abstract!vars)
<1>1. Locked /\ TypeOK /\ CallOK /\ TypeOK' /\ AccOK /\ RamOK BY DEF Sound, IInv
<1>2. \A t \in Thread : AccessSound(t) BY <1>1 DEF AccessSound, At, AccOK, LocalsOK, InRam
<1>3. /\ \A p \in claimed : Online(p) => Fpn(pgd[p]) \in RamFrame
      /\ \A p, q \in claimed : Online(p) /\ Online(q) /\ Fpn(pgd[p]) = Fpn(pgd[q]) => p = q
  BY <1>1 DEF RamOK
<1>4. \A t \in Thread : Fault(t) => Mem' = Mem BY FaultKeepsPages
<1>5. \A p \in Page : MapRam(p) =>
        /\ Mem[p] = Unmapped /\ \E v \in Val : Mem' = [Mem EXCEPT ![p] = v]
        /\ UNCHANGED <<CallOf, ret>>
  BY MapsPage
<1> QED BY <1>1, <1>2, <1>3, <1>4, <1>5, StepImplements

\* As built: the young page is copied between the two frames 0, which hold the same, and
\* the table changes only for it.
LEMMA FirstImplements ==
  ASSUME AsFormatted, Running = Thread, FirstInv, FirstInv', [Next]_vars
  PROVE  [Abstract!Next]_(Abstract!vars)
<1>1. /\ Locked /\ TypeOK /\ CallOK /\ TypeOK' /\ YoungOK /\ YoungOK' /\ PlacedOK
      /\ claimed \subseteq Page /\ claimed' \subseteq Page
      /\ {} \in RamFrame /\ {} \in SwpFrame /\ ram' \in [RamFrame -> Val]
  BY Formatted, TypeFacts DEF FirstInv, Ranges, TypeOK
<1>2. \A t \in Thread : AccessSound(t) BY DEF AccessSound, At, FirstInv, YoungFault, InRam
<1>3. /\ \A p \in claimed : Online(p) => Fpn(pgd[p]) \in RamFrame
      /\ \A p, q \in claimed : Online(p) /\ Online(q) /\ Fpn(pgd[p]) = Fpn(pgd[q]) => p = q
  BY <1>1 DEF PlacedOK
<1>4. /\ \A p \in Page : Young(p) => Content(p) = Zero
      /\ \A p \in Page : Young(p)' => Content(p)' = Zero
  <2>1. \A p \in Page : Young(p) => ~Online(p) /\ Swp(pgd[p]) = {} /\ swp[{}] = Zero
    BY <1>1 DEF YoungOK, Young
  <2>2. \A p \in Page : Young(p)' => ~Online(p)' /\ Swp(pgd'[p]) = {} /\ swp'[{}] = Zero
    BY <1>1 DEF YoungOK, Young
  <2> QED BY <2>1, <2>2 DEF Content
<1>5. ASSUME NEW t \in Thread, Fault(t) PROVE Mem' = Mem
  <2>1. claimed' = claimed BY <1>5, SameMapped DEF Step
  <2>2. ASSUME NEW p \in claimed, Young(p) PROVE Content(p)' = Content(p)
    <3>1. CASE SetFpn(t)
      <4>1. /\ Young(acc[t].pgn) /\ acc[t].pgn \in Page
            /\ Present(pgd'[acc[t].pgn]) /\ ~Swapped(pgd'[acc[t].pgn]) /\ Fpn(pgd'[acc[t].pgn]) = {}
        BY <3>1, FirstSetFpn
      <4>2. p = acc[t].pgn BY <1>1, <2>2, <4>1 DEF YoungOK
      <4>3. Online(p)' /\ Fpn(pgd'[p]) = {} BY <4>1, <4>2 DEF Online
      <4>4. ram' = ram BY <3>1 DEF SetFpn, devices
      <4>5. ram[{}] = Zero BY <1>1, <2>2 DEF YoungOK
      <4>6. Content(p)' = Zero BY <4>3, <4>4, <4>5 DEF Content
      <4> QED BY <1>1, <1>4, <2>2, <4>6
    <3>2. CASE ~SetFpn(t)
      <4>1. Young(p)' BY <1>5, <2>2, <3>2, FirstYoung DEF Step
      <4> QED BY <1>1, <1>4, <2>2, <4>1
    <3> QED BY <3>1, <3>2
  <2>3. ASSUME NEW p \in claimed, ~Young(p) PROVE Content(p)' = Content(p)
    <3>1. Online(p) BY <2>3 DEF Young
    <3>2. pgd'[p] = pgd[p]
      <4>1. CASE SetFpn(t)
        <5>v. PICK r : r = acc[t].pgn OBVIOUS
        <5>1. Young(r) /\ \A q \in Page \ {r} : pgd'[q] = pgd[q] BY <4>1, <5>v, FirstSetFpn
        <5> QED BY <1>1, <2>3, <5>1
      <4>2. CASE SetSwap(t)
        <5>v. PICK r : r = acc[t].pgn OBVIOUS
        <5>1. Young(r) /\ \A q \in Page \ {r} : pgd'[q] = pgd[q] BY <4>2, <5>v, FirstSetSwap
        <5> QED BY <1>1, <2>3, <5>1
      <4>3. CASE ~SetFpn(t) /\ ~SetSwap(t) BY <1>5, <4>3, SameTable DEF Step
      <4> QED BY <4>1, <4>2, <4>3
    <3>3. ram'[Fpn(pgd[p])] = ram[Fpn(pgd[p])]
      <4>1. CASE SwapIn(t)
        <5>v. PICK f, g : f = acc[t].vicfpn /\ g = Source(t) OBVIOUS
        <5>1. pc[t] = "swapin" /\ \E v \in Mswp!Read(g) : Ram!Write(f, v)
          BY <4>1, <5>v DEF SwapIn, At
        <5>2. Young(acc[t].pgn) /\ acc[t].pgn \in claimed /\ f = {}
          BY <5>1, <5>v DEF FirstInv, YoungFault, HasFrame, Faulting, Young
        <5>3. Fpn(pgd[p]) # {} BY <1>1, <3>1, <5>2 DEF PlacedOK
        <5>4. ram' = ram \/ \E v : ram' = [ram EXCEPT ![{}] = v]
          BY <5>1, <5>2 DEF Ram!Write, Ram!Answers
        <5>5. ram \in [RamFrame -> Val] /\ Fpn(pgd[p]) \in RamFrame BY <1>1, <1>3, <3>1 DEF TypeOK
        <5> QED BY <5>3, <5>4, <5>5
      <4>2. CASE ~SwapIn(t)
        <5>1. ram' = ram
          BY <1>5, <4>2 DEF Fault, FindVictim, ReadSwapHead, TakeSwap, SwapOut, SysSwap, SetSwap,
                            ReadPutHead, LinkPut, SetFpn, Enlist, devices
        <5> QED BY <5>1
      <4> QED BY <4>1, <4>2
    <3> QED BY <3>1, <3>2, <3>3 DEF Content, Online
  <2>4. \A p \in claimed : Content(p)' = Content(p) BY <2>2, <2>3
  <2> QED BY <2>1, <2>4, MemSame
<1>6. ASSUME NEW p \in Page, MapRam(p)
      PROVE  /\ Mem[p] = Unmapped /\ \E v \in Val : Mem' = [Mem EXCEPT ![p] = v]
             /\ UNCHANGED <<CallOf, ret>>
  <2>1. /\ p \notin claimed /\ claimed' = claimed \cup {p}
        /\ \A q \in Page \ {p} : pgd'[q] = pgd[q]
        /\ UNCHANGED <<pc, acc, ret, ram, swp>>
    BY <1>6, FirstMap
  <2>2. Content(p)' \in Val
    <3>1. CASE Young(p)'
      <4>1. Zero \in Val BY PagingAssumption DEF PagingAssumption
      <4> QED BY <1>4, <3>1, <4>1
    <3>2. CASE ~Young(p)'
      <4>1. p \in claimed' /\ Online(p)' BY <2>1, <3>2 DEF Young
      <4>2. Fpn(pgd'[p]) \in RamFrame BY <4>1 DEF FirstInv, PlacedOK
      <4> QED BY <1>1, <4>1, <4>2 DEF Content
    <3> QED BY <3>1, <3>2
  <2>3. \A q \in claimed : Content(q)' = Content(q) BY <1>1, <2>1 DEF Content, Online
  <2>4. Mem[p] = Unmapped /\ Mem' = [Mem EXCEPT ![p] = Content(p)'] BY <2>1, <2>3 DEF Mem
  <2>5. CallOf' = CallOf BY <2>1 DEF CallOf, Request
  <2> QED BY <2>1, <2>2, <2>4, <2>5
<1> QED BY <1>1, <1>2, <1>3, <1>5, <1>6, StepImplements

\* At the start a page that was given to a region holds what swap frame 0 holds, the
\* others nothing, and nobody is in a call.
LEMMA InitImplements ==
  ASSUME Init, Given # {} => {} \in SwpFrame
  PROVE  Abstract!Init
<1>1. /\ claimed = Given /\ pc = [t \in Thread |-> "idle"] /\ ret = [t \in Thread |-> Pending]
      /\ pgd = [p \in Page |-> {}] /\ swp = [f \in SwpFrame |-> Zero]
      /\ Given \subseteq Page /\ Zero \in Val
  BY PagingAssumption DEF Init, Mswp!InitMemphy, PagingAssumption
<1>2. ASSUME NEW p \in claimed PROVE Content(p) \in Val
  BY <1>1, EmptyEntry DEF Content, Online
<1>3. Mem \in [Page \cup {NoPage} -> Val \cup {Unmapped}] BY <1>2 DEF Mem
<1>4. CallOf = [t \in Thread |-> NoCall] BY <1>1 DEF CallOf
<1> QED BY <1>1, <1>3, <1>4 DEF Abstract!Init, Mem, CallOf, Request

\* pg_getpage, pg_getval and pg_setval, when every process is in running_list: a read
\* returns what was written last, a failed call changes nothing, and no page fault
\* changes any page, for any number of CPUs, pages and frames.
THEOREM PagingIsMemory ==
  ASSUME Sound, Running = Thread
  PROVE  Spec => ImplementsMemory
<1>1. Init => Abstract!Init BY InitImplements DEF Sound
<1>2. IInv /\ IInv' /\ [Next]_vars => [Abstract!Next]_(Abstract!vars) BY SoundImplements
<1> QED BY <1>1, <1>2, Inductive, PTL DEF Spec, SafeSpec, ImplementsMemory, Abstract!Spec

\* The same with pte_set_swap as it is, for the pages that __kmalloc maps, both devices
\* in the order of MEMPHY_format and a swap device that is not empty: the one page that
\* faults comes back with the value it had.
THEOREM FirstIsMemory ==
  ASSUME AsFormatted, Running = Thread
  PROVE  Spec /\ swpsize # 0 => ImplementsMemory
<1>1. Init => Abstract!Init BY InitImplements DEF AsFormatted
<1>2. FirstInv /\ FirstInv' /\ [Next]_vars => [Abstract!Next]_(Abstract!vars) BY FirstImplements
<1> QED BY <1>1, <1>2, FirstInductive, PTL DEF Spec, SafeSpec, ImplementsMemory, Abstract!Spec
=============================================================================

-------------------------------- MODULE Paging --------------------------------
(***************************************************************************)
(* Demand paging: pg_getpage, find_victim_page and the accesses built on   *)
(* them in src/src/libmem.c, with the page table, the two devices, and the *)
(* system call that swaps a page and moves a byte.  Each thread is one     *)
(* CPU, a page has one value.  There is one page table: the code reaches   *)
(* it through caller->mm and through krnl->mm, of which os.c only sets the *)
(* second, for all processes together.                                     *)
(*                                                                         *)
(* pte_get_entry, pte_set_swap and pte_set_fpn are taken as their TODO     *)
(* comments ask and as mm.c has them: they reach the entry of the page.    *)
(* __kmalloc maps pages from RAM.  Nothing maps the pages of a region that *)
(* __alloc gives out (Given), as inc_vma_limit is a stub: their entries    *)
(* are empty, which pg_getpage takes for a page in swap frame 0.  The page *)
(* number is one number here; __kmalloc divides an address by 4096 and     *)
(* the accesses by 256.                                                    *)
(*                                                                         *)
(* KeepsPresent = TRUE is pte_set_swap as it is: a page in swap stays      *)
(* PRESENT.  FALSE is what pg_getpage assumes, which takes PRESENT to mean *)
(* that the page is in RAM.                                                *)
(*                                                                         *)
(* The FIFO list is walked and changed in one step, which is right for a   *)
(* caller that has mmvm_lock.  An unlocked __read that runs into a page    *)
(* fault walks nodes that others free under it: the model ends there       *)
(* (FindVictim), and nothing is shown of what follows.                     *)
(***************************************************************************)
EXTENDS Pte, FiniteSets, Sequences

CONSTANTS
  Thread, Nobody,
  Page,                 \* page numbers
  Given,                \* those of regions that nobody has mapped
  NoPage,               \* an address outside its region
  Val, Zero,
  RamFrame, SwpFrame,   \* the frames of the two devices
  RamFree, SwpFree,     \* their free lists at the start; of the second, a part
  Ops,                  \* the functions called, of the four below
  Running,              \* the threads whose process is in running_list
  KeepsPresent,
  Unmapped, NoCall, Pending, Done, Failed

AllOps == {"__read", "__write", "__read_user_mem", "__write_user_mem"}

ASSUME PagingAssumption ==
  /\ Ops \subseteq AllOps /\ Running \subseteq Thread /\ Nobody \notin Thread
  /\ Page \subseteq Nat /\ Given \subseteq Page /\ Zero \in Val /\ NoPage \notin Page /\ KeepsPresent \in BOOLEAN
  /\ RamFrame \subseteq FrameNumber /\ SwpFrame \subseteq SwapOffset
  /\ RamFree \in Seq(RamFrame) /\ SwpFree \in Seq(SwpFrame)
  /\ \A i, j \in DOMAIN RamFree : RamFree[i] = RamFree[j] => i = j
  /\ \A i, j \in DOMAIN SwpFree : SwpFree[i] = SwpFree[j] => i = j
  /\ {Pending, Done, Failed, Unmapped} \cap Val = {} /\ Pending \notin {Done, Failed}
  /\ NoCall \notin [reads : BOOLEAN, pgn : Page \cup {NoPage}, val : Val]

VARIABLES
  pgd,                  \* the page table
  fifo_pgn,             \* the pages in RAM, from the last enlisted
  ram, ramfree, swp, swpfree,
  swpsize,              \* how many frames the swap device has, from the configuration
  mmvm_lock,
  pc,                   \* where each thread is
  acc,                  \* the arguments and local variables of its call
  ret,                  \* what pg_getval or pg_setval returns to it
  claimed,              \* history: the pages that have been mapped or given
  stranded              \* history: victims of page faults that failed later

devices == <<ram, ramfree, swp, swpfree, swpsize>>
vars == <<pgd, fifo_pgn, devices, mmvm_lock, pc, acc, ret, claimed, stranded>>

Ram == INSTANCE MemPhy WITH Frame <- RamFrame, storage <- ram, free_fp_list <- ramfree,
                            rdmflg <- TRUE
Mswp == INSTANCE MemPhy WITH Frame <- SwpFrame, storage <- swp, free_fp_list <- swpfree,
                             rdmflg <- TRUE

Reads(op) == op \in {"__read", "__read_user_mem"}

\* mutant of Locks: writing is taken to need no lock either.
LocksReads(op) == op = "__read_user_mem"
Locks(op) == op # "__read"

Idle == [op |-> "", pgn |-> NoPage, val |-> Zero, pte |-> {}, vicpgn |-> NoPage,
         vicfpn |-> {}, swpfpn |-> {}, fpn |-> {}, seen |-> <<>>]

Init ==
  /\ pgd = [p \in Page |-> {}]
  /\ fifo_pgn = <<>>
  /\ Ram!InitMemphy(RamFree)
  /\ swpsize \in 0 .. Len(SwpFree)
  /\ Mswp!InitMemphy(SubSeq(SwpFree, 1, swpsize))
  /\ mmvm_lock = Nobody
  /\ pc = [t \in Thread |-> "idle"]
  /\ acc = [t \in Thread |-> Idle]
  /\ ret = [t \in Thread |-> Pending]
  /\ claimed = Given /\ stranded = {}

-----------------------------------------------------------------------------
(* The page table and the list of pages *)

SetEntry(p, pte) == pgd' = [pgd EXCEPT ![p] = pte]

\* An entry that says where in swap its page is.
InSwap(pte) == IF KeepsPresent THEN pte ELSE ClrBit(pte, PRESENT)
PteSetSwap(p, off) == SetEntry(p, InSwap(WithSwap(pgd[p], {}, off)))
PteSetFpn(p, fpn) == SetEntry(p, WithFpn(pgd[p], fpn))

\* mutant of EnlistPgn: the page is not tracked.
EnlistNothing(p) == UNCHANGED fifo_pgn
EnlistPgn(p) == fifo_pgn' = <<p>> \o fifo_pgn

\* A page in RAM, as far as its entry says.
Online(p) == Present(pgd[p]) /\ ~Swapped(pgd[p])

-----------------------------------------------------------------------------
(* Mapping a page: one turn of the loop of __kmalloc, under mmvm_lock.  The *)
(* break grows upwards, so the pages are mapped in their order.  The page  *)
(* that gets frame 0 has an empty entry: init_pte refuses it.              *)

IsNext(p) == p \notin claimed /\ \A q \in Page : q < p => q \in claimed

MapRam(p) ==
  /\ mmvm_lock = Nobody /\ IsNext(p)
  /\ ramfree # <<>>
  /\ SetEntry(p, InitPte({}, TRUE, Head(ramfree), FALSE, {}, {}))
  /\ Ram!GetFreeFp(ramfree)
  /\ EnlistPgn(p)
  /\ claimed' = claimed \cup {p}
  /\ UNCHANGED <<ram, swp, swpfree, swpsize, mmvm_lock, pc, acc, ret, stranded>>

-----------------------------------------------------------------------------
(* The steps of an access *)

At(t, label) == pc[t] = label
Goto(t, label) == pc' = [pc EXCEPT ![t] = label]
Set(t, field, x) == acc' = [acc EXCEPT ![t][field] = x]

\* mutant of GiveUp: the access is tried again.
TryAgain(t) == Goto(t, "check") /\ UNCHANGED <<acc, ret>>
\* The result is -1.
GiveUp(t) ==
  /\ ret' = [ret EXCEPT ![t] = Failed]
  /\ Goto(t, "return")
  /\ UNCHANGED acc

\* A CPU executes an instruction that accesses memory.  Waiting for mmvm_lock it
\* has done nothing yet, so a call that locks begins when it has the lock.
Call(t) ==
  /\ At(t, "idle")
  /\ \E op \in Ops, p \in claimed \cup {NoPage}, v \in Val :
       /\ Reads(op) => v = Zero
       /\ acc' = [acc EXCEPT ![t] = [Idle EXCEPT !.op = op, !.pgn = p, !.val = v]]
       /\ IF Locks(op) THEN mmvm_lock = Nobody /\ mmvm_lock' = t ELSE UNCHANGED mmvm_lock
  /\ Goto(t, "check")
  /\ UNCHANGED <<pgd, fifo_pgn, devices, ret, claimed, stranded>>

\* The tests on the region, then pte_get_entry and the test of PRESENT.
Check(t) ==
  /\ At(t, "check")
  /\ IF acc[t].pgn = NoPage THEN GiveUp(t)
     ELSE /\ Set(t, "pte", pgd[acc[t].pgn])
          /\ Goto(t, IF Present(pgd[acc[t].pgn]) THEN "frame" ELSE "victim")
          /\ UNCHANGED ret
  /\ UNCHANGED <<pgd, fifo_pgn, devices, mmvm_lock, claimed, stranded>>

\* find_victim_page refuses a list of one page.
Victimless(s) == Len(s) < 2

FindVictim(t) ==
  /\ At(t, "victim") /\ mmvm_lock = t
  /\ IF Victimless(fifo_pgn) THEN GiveUp(t) /\ UNCHANGED fifo_pgn
     ELSE /\ Set(t, "vicpgn", fifo_pgn[Len(fifo_pgn)])
          /\ fifo_pgn' = SubSeq(fifo_pgn, 1, Len(fifo_pgn) - 1)
          /\ Goto(t, "getswp") /\ UNCHANGED ret
  /\ UNCHANGED <<pgd, devices, mmvm_lock, claimed, stranded>>

\* MEMPHY_get_freefp on the swap device, in two steps
ReadSwapHead(t) ==
  /\ At(t, "getswp")
  /\ IF swpfree = <<>>
       THEN /\ GiveUp(t)
            /\ stranded' = stranded \cup {acc[t].vicpgn}
       ELSE /\ Set(t, "seen", swpfree)
            /\ Goto(t, "takeswp")
            /\ UNCHANGED <<ret, stranded>>
  /\ UNCHANGED <<pgd, fifo_pgn, devices, mmvm_lock, claimed>>

TakeSwap(t) ==
  /\ At(t, "takeswp")
  /\ Mswp!GetFreeFp(acc[t].seen)
  /\ Set(t, "swpfpn", Head(acc[t].seen))
  /\ Goto(t, "swapout")
  /\ UNCHANGED <<pgd, fifo_pgn, ram, ramfree, swp, swpsize, mmvm_lock, ret, claimed, stranded>>

\* __sys_memmap does nothing for a process that is not in running_list, and its
\* callers do not look at what it returns.

\* mutant of SysSwap: the copy goes the other way.
SysSwapBack(t, vicfpn, swpfpn) ==
  (IF t \in Running THEN \E v \in Mswp!Read(swpfpn) : Ram!Write(vicfpn, v) ELSE UNCHANGED ram)
  /\ UNCHANGED swp
\* SYSMEM_SWP_OP, SYSMEM_IO_READ and SYSMEM_IO_WRITE
SysSwap(t, vicfpn, swpfpn) ==
  (IF t \in Running THEN \E v \in Ram!Read(vicfpn) : Mswp!Write(swpfpn, v) ELSE UNCHANGED swp)
  /\ UNCHANGED ram
SysRead(t, fpn) == IF t \in Running THEN Ram!Read(fpn) ELSE {Zero}
SysWrite(t, fpn, val) == IF t \in Running THEN Ram!Write(fpn, val) ELSE UNCHANGED ram

SwapOut(t) ==
  /\ At(t, "swapout")
  /\ LET vicfpn == Fpn(pgd[acc[t].vicpgn])
     IN /\ Set(t, "vicfpn", vicfpn)
        /\ SysSwap(t, vicfpn, acc[t].swpfpn)
  /\ Goto(t, "setswap")
  /\ UNCHANGED <<pgd, fifo_pgn, ramfree, swpfree, swpsize, mmvm_lock, ret, claimed, stranded>>

SetSwap(t) ==
  /\ At(t, "setswap")
  /\ PteSetSwap(acc[t].vicpgn, acc[t].swpfpn)
  /\ Goto(t, "swapin")
  /\ UNCHANGED <<fifo_pgn, devices, mmvm_lock, acc, ret, claimed, stranded>>

\* The swap frame that the page was in, from the entry read at the beginning.
Source(t) == Swp(acc[t].pte)

SwapIn(t) ==
  /\ At(t, "swapin")
  /\ \E v \in Mswp!Read(Source(t)) : Ram!Write(acc[t].vicfpn, v)
  /\ Goto(t, "putread")
  /\ UNCHANGED <<pgd, fifo_pgn, ramfree, swp, swpfree, swpsize, mmvm_lock, acc, ret, claimed, stranded>>

\* MEMPHY_put_freefp on the swap device, in two steps
ReadPutHead(t) ==
  /\ At(t, "putread")
  /\ Set(t, "seen", swpfree)
  /\ Goto(t, "putlink")
  /\ UNCHANGED <<pgd, fifo_pgn, devices, mmvm_lock, ret, claimed, stranded>>

\* mutants of PutSwap: the frame that the victim is in, or the RAM frame, is returned.
PutVictims(t) == Mswp!PutFreeFp(acc[t].swpfpn, acc[t].seen)
PutRam(t) == Mswp!PutFreeFp(acc[t].vicfpn, acc[t].seen)
PutSwap(t) == Mswp!PutFreeFp(Source(t), acc[t].seen)

LinkPut(t) ==
  /\ At(t, "putlink")
  /\ PutSwap(t)
  /\ Goto(t, "setfpn")
  /\ UNCHANGED <<pgd, fifo_pgn, ram, ramfree, swp, swpsize, mmvm_lock, acc, ret, claimed, stranded>>

SetFpn(t) ==
  /\ At(t, "setfpn")
  /\ PteSetFpn(acc[t].pgn, acc[t].vicfpn)
  /\ Goto(t, "enlist")
  /\ UNCHANGED <<fifo_pgn, devices, mmvm_lock, acc, ret, claimed, stranded>>

Enlist(t) ==
  /\ At(t, "enlist")
  /\ EnlistPgn(acc[t].pgn)
  /\ Goto(t, "frame")
  /\ UNCHANGED <<pgd, devices, mmvm_lock, acc, ret, claimed, stranded>>

\* pg_getpage returns the frame.
GetFrame(t) ==
  /\ At(t, "frame")
  /\ Set(t, "fpn", Fpn(pgd[acc[t].pgn]))
  /\ Goto(t, "access")
  /\ UNCHANGED <<pgd, fifo_pgn, devices, mmvm_lock, ret, claimed, stranded>>

\* The end of pg_getval and pg_setval
Access(t) ==
  /\ At(t, "access")
  /\ IF Reads(acc[t].op)
       THEN /\ \E v \in SysRead(t, acc[t].fpn) : ret' = [ret EXCEPT ![t] = v]
            /\ UNCHANGED ram
       ELSE /\ SysWrite(t, acc[t].fpn, acc[t].val)
            /\ ret' = [ret EXCEPT ![t] = Done]
  /\ Goto(t, "return")
  /\ UNCHANGED <<pgd, fifo_pgn, ramfree, swp, swpfree, swpsize, mmvm_lock, acc, claimed, stranded>>

Return(t) ==
  /\ At(t, "return")
  /\ mmvm_lock' = IF Locks(acc[t].op) THEN Nobody ELSE mmvm_lock
  /\ ret' = [ret EXCEPT ![t] = Pending]
  /\ acc' = [acc EXCEPT ![t] = Idle]
  /\ Goto(t, "idle")
  /\ UNCHANGED <<pgd, fifo_pgn, devices, claimed, stranded>>

-----------------------------------------------------------------------------

Fault(t) ==
  \/ FindVictim(t) \/ ReadSwapHead(t) \/ TakeSwap(t) \/ SwapOut(t) \/ SetSwap(t)
  \/ SwapIn(t) \/ ReadPutHead(t) \/ LinkPut(t) \/ SetFpn(t) \/ Enlist(t)

Step(t) == Check(t) \/ Fault(t) \/ GetFrame(t) \/ Access(t) \/ Return(t)

Next ==
  \/ \E p \in Page : MapRam(p)
  \/ \E t \in Thread : Call(t) \/ Step(t)

SafeSpec == Init /\ [][Next]_vars

\* A CPU that is in a call goes on with it.
Spec == SafeSpec /\ \A t \in Thread : WF_vars(Step(t))

-----------------------------------------------------------------------------
(* Properties *)

Labels == {"idle", "check", "victim", "getswp", "takeswp", "swapout", "setswap",
           "swapin", "putread", "putlink", "setfpn", "enlist", "frame", "access", "return"}

\* The types of the state.
TypeOK ==
  /\ pgd \in [Page -> Pte] /\ fifo_pgn \in Seq(Page)
  /\ ram \in [RamFrame -> Val] /\ ramfree \in Seq(RamFrame)
  /\ swp \in [SwpFrame -> Val] /\ swpfree \in Seq(SwpFrame)
  /\ mmvm_lock \in Thread \cup {Nobody}
  /\ pc \in [Thread -> Labels]
  /\ acc \in [Thread -> [op : Ops \cup {""}, pgn : Page \cup {NoPage}, val : Val, pte : Pte,
                         vicpgn : Page \cup {NoPage}, vicfpn : FrameNumber,
                         swpfpn : SwpFrame \cup {{}}, fpn : FrameNumber, seen : Seq(SwpFrame)]]
  /\ ret \in [Thread -> Val \cup {Pending, Done, Failed}]
  /\ claimed \subseteq Page /\ stranded \subseteq claimed

\* The places where RAM frame f is in use: an entry of the table, the free list,
\* a page fault that has moved the victim out and not yet the page in.
RamUses(f) ==
  {<<"page", p>> : p \in {q \in claimed : Online(q) /\ Fpn(pgd[q]) = f}}
  \cup {<<"free", i>> : i \in {j \in DOMAIN ramfree : ramfree[j] = f}}
  \cup {<<"fault", t>> : t \in {u \in Thread :
        /\ pc[u] \in {"swapin", "putread", "putlink", "setfpn"}
        /\ acc[u].vicfpn = f}}

\* The same for swap frames.  At "setfpn" the frame of the page that comes in is
\* free already, while its entry still names it.
SwapUses(f) ==
  {<<"page", p>> : p \in {q \in claimed :
        /\ ~Online(q) /\ Swp(pgd[q]) = f
        /\ \A t \in Thread : pc[t] = "setfpn" => acc[t].pgn # q}}
  \cup {<<"free", i>> : i \in {j \in DOMAIN swpfree : swpfree[j] = f}}
  \cup {<<"fault", t>> : t \in {u \in Thread :
        pc[u] \in {"swapout", "setswap"} /\ acc[u].swpfpn = f}}

\* pg_getpage and the frame lists: a RAM frame has one owner at all times, through
\* all the steps of a page fault and whichever of them fails; none is lost.
RamOwned == \A i \in DOMAIN RamFree : Cardinality(RamUses(RamFree[i])) = 1

\* The same of the swap frames, that of a page with an empty entry included: never
\* two pages in one, never one forgotten.
SwapOwned ==
  /\ \A i \in 1 .. swpsize : Cardinality(SwapUses(SwpFree[i])) = 1
  /\ Given # {} => Cardinality(SwapUses({})) = 1

\* The FIFO list has every page in RAM once and no other, but for the victim and
\* the page of a fault under way.  A victim dropped by a fault that found no swap
\* frame is never on it again.
FifoExact ==
  LET out == {acc[t].vicpgn : t \in {u \in Thread :
                  pc[u] \in {"getswp", "takeswp", "swapout", "setswap"}}}
      in == {acc[t].pgn : t \in {u \in Thread : pc[u] = "enlist"}}
      listed == {fifo_pgn[i] : i \in DOMAIN fifo_pgn}
  IN /\ listed = {p \in claimed : Online(p)} \ (out \cup in \cup stranded)
     /\ Cardinality(listed) = Len(fifo_pgn)

\* libmem.c:241, "get the page in ram ... return FPN": when the access is made the
\* frame still holds the page.
FrameIsPages ==
  \A t \in Thread : pc[t] = "access" => Online(acc[t].pgn) /\ Fpn(pgd[acc[t].pgn]) = acc[t].fpn

\* Every path through an access releases mmvm_lock.
LockReleased == \A t \in Thread : mmvm_lock = t ~> mmvm_lock # t

-----------------------------------------------------------------------------
(* Paging implements memory: where the page is does not show. *)

Content(p) == IF Online(p) THEN ram[Fpn(pgd[p])] ELSE swp[Swp(pgd[p])]

Abstract == INSTANCE Memory WITH
  Page <- Page \cup {NoPage},
  mem <- [p \in Page \cup {NoPage} |-> IF p \in claimed THEN Content(p) ELSE Unmapped],
  call <- [t \in Thread |-> IF pc[t] = "idle" THEN NoCall
                            ELSE [reads |-> Reads(acc[t].op), pgn |-> acc[t].pgn, val |-> acc[t].val]]

\* A read returns what was written last, a failed call changes nothing, and no page
\* fault changes any page, whatever was swapped out in between.
ImplementsMemory == Abstract!Spec
=============================================================================

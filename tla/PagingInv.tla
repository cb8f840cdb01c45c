------------------------------ MODULE PagingInv ------------------------------
(***************************************************************************)
(* The inductive invariants of Paging, for calls that all take mmvm_lock:  *)
(* IInv for a table that sends a page to swap by clearing PRESENT          *)
(* (KeepsPresent = FALSE); Ranges for any table; Young for the code as     *)
(* built, both devices handing out frame 0 first.  PagingProofs has the    *)
(* proofs.                                                                 *)
(***************************************************************************)
EXTENDS Paging

\* Every call takes mmvm_lock.
Locked == "__read" \notin Ops

\* What pg_getpage assumes besides: an entry without PRESENT names the swap frame of its
\* page and of no other.  So frame 0 of RAM is not given to a page, whose entry init_pte
\* would leave empty; and at most one page has an empty entry, if swap frame 0 is its own.
Sound ==
  /\ Locked /\ KeepsPresent = FALSE
  /\ \A i \in DOMAIN RamFree : RamFree[i] # {}
  /\ \A p, q \in Given : p = q
  /\ Given # {} => {} \in SwpFrame /\ \A i \in DOMAIN SwpFree : SwpFree[i] # {}

Listed(s, x) == \E i \in DOMAIN s : s[i] = x
Distinct(s) == \A i, j \in DOMAIN s : s[i] = s[j] => i = j

\* The page of the call is being brought in.
Faulting(t) == pc[t] \in {"victim", "getswp", "takeswp", "swapout", "setswap", "swapin",
                          "putread", "putlink", "setfpn"}
\* It is in RAM.
InRam(t) == pc[t] \in {"enlist", "frame", "access"}
\* The victim has left the list and is in RAM; a swap frame is ready for it; its RAM
\* frame is ready for the page; the page has been copied there.
HasVictim(t) == pc[t] \in {"getswp", "takeswp", "swapout", "setswap"}
HasSwap(t) == pc[t] \in {"swapout", "setswap"}
HasFrame(t) == pc[t] \in {"swapin", "putread", "putlink", "setfpn"}
Copied(t) == pc[t] \in {"putread", "putlink", "setfpn"}

\* Whoever is in a call has the lock and no result yet, or is about to return it.
CallOK ==
  \A t \in Thread :
    /\ pc[t] # "idle" => mmvm_lock = t /\ acc[t].op \in Ops
    /\ ret[t] = Pending <=> pc[t] # "return"

\* A page in swap is not PRESENT.
TableOK == \A p \in claimed : Present(pgd[p]) => ~Swapped(pgd[p])

\* What the locals of a call say of the table and the lists
LocalsOK(t) ==
  /\ acc[t].pgn \in claimed \cup {NoPage}
  /\ Faulting(t) => acc[t].pgn \in claimed /\ ~Online(acc[t].pgn) /\ acc[t].pte = pgd[acc[t].pgn]
  /\ InRam(t) => acc[t].pgn \in claimed /\ Online(acc[t].pgn)
  /\ HasVictim(t) => acc[t].vicpgn \in claimed /\ Online(acc[t].vicpgn)
  /\ pc[t] = "takeswp" => acc[t].seen = swpfree /\ swpfree # <<>>
  /\ pc[t] = "setswap" => acc[t].vicfpn = Fpn(pgd[acc[t].vicpgn])
  /\ pc[t] = "putlink" => acc[t].seen = swpfree
  /\ pc[t] = "access" => acc[t].fpn = Fpn(pgd[acc[t].pgn])

AccOK == \A t \in Thread : LocalsOK(t)

\* RAM frames: on the free list, in one entry, or with the call that moves a page in.
RamOK ==
  /\ Distinct(ramfree) /\ ~Listed(ramfree, {})
  /\ \A p \in claimed : Online(p) => Fpn(pgd[p]) \in RamFrame /\ ~Listed(ramfree, Fpn(pgd[p]))
  /\ \A p, q \in claimed : Online(p) /\ Online(q) /\ Fpn(pgd[p]) = Fpn(pgd[q]) => p = q
  /\ \A t \in Thread : HasFrame(t) =>
       /\ acc[t].vicfpn \in RamFrame /\ ~Listed(ramfree, acc[t].vicfpn)
       /\ \A p \in claimed : Online(p) => Fpn(pgd[p]) # acc[t].vicfpn
  /\ \A i \in DOMAIN RamFree :
       \/ Listed(ramfree, RamFree[i])
       \/ \E p \in claimed : Online(p) /\ Fpn(pgd[p]) = RamFree[i]
       \/ \E t \in Thread : HasFrame(t) /\ acc[t].vicfpn = RamFree[i]

\* p has been copied to RAM and its swap frame freed, which its entry still names.
Leaving(p) == \E t \in Thread : pc[t] = "setfpn" /\ acc[t].pgn = p

\* The swap frames in use: those of the device and the one of an empty entry.
SwapSpace == {SwpFree[i] : i \in 1 .. swpsize} \cup {Swp({}) : p \in Given}

\* They are shared out likewise.
SwapOK ==
  /\ Distinct(swpfree)
  /\ \A p \in claimed : ~Online(p) =>
       Swp(pgd[p]) \in SwpFrame /\ (Listed(swpfree, Swp(pgd[p])) <=> Leaving(p))
  /\ \A p, q \in claimed : ~Online(p) /\ ~Online(q) /\ Swp(pgd[p]) = Swp(pgd[q]) => p = q
  /\ \A t \in Thread : HasSwap(t) =>
       /\ acc[t].swpfpn \in SwpFrame /\ ~Listed(swpfree, acc[t].swpfpn)
       /\ \A p \in claimed : ~Online(p) => Swp(pgd[p]) # acc[t].swpfpn
  /\ \A f \in SwapSpace :
       \/ Listed(swpfree, f)
       \/ \E p \in claimed : ~Online(p) /\ Swp(pgd[p]) = f
       \/ \E t \in Thread : HasSwap(t) /\ acc[t].swpfpn = f

Out(p) == \E t \in Thread : HasVictim(t) /\ acc[t].vicpgn = p
In(p) == \E t \in Thread : pc[t] = "enlist" /\ acc[t].pgn = p

\* The list of pages in RAM, but for the victim, the page coming in and the stranded.
FifoOK ==
  /\ Distinct(fifo_pgn)
  /\ \A p \in Page : Listed(fifo_pgn, p) <=>
       p \in claimed /\ Online(p) /\ ~Out(p) /\ ~In(p) /\ p \notin stranded
  /\ \A p \in stranded : Online(p) /\ ~Out(p) /\ ~In(p)

\* The victim has been copied out and the page in, if the system calls do something.
DataOK ==
  Running = Thread =>
    \A t \in Thread :
      /\ pc[t] = "setswap" => swp[acc[t].swpfpn] = ram[acc[t].vicfpn]
      /\ Copied(t) => ram[acc[t].vicfpn] = swp[Swp(pgd[acc[t].pgn])]

\* libmem.c, pg_getpage: what is true between any two of its steps.
IInv == TypeOK /\ CallOK /\ TableOK /\ AccOK /\ RamOK /\ SwapOK /\ FifoOK /\ DataOK

-----------------------------------------------------------------------------
(* What holds for either table and wherever the frames begin                *)

\* The pages, entries and frames that a call works with exist.
RangeOK(t) ==
  /\ acc[t].pgn \in claimed \cup {NoPage}
  /\ Faulting(t) \/ InRam(t) => acc[t].pgn \in claimed
  /\ Faulting(t) => Source(t) \in SwpFrame
  /\ HasVictim(t) => acc[t].vicpgn \in claimed
  /\ pc[t] = "takeswp" => acc[t].seen # <<>>
  /\ HasSwap(t) => acc[t].swpfpn \in SwpFrame

\* No CPU takes a frame from an empty list or leaves the table.
Ranges ==
  /\ TypeOK
  /\ \A p \in claimed : Present(pgd[p]) \/ Swp(pgd[p]) \in SwpFrame
  /\ \A i \in DOMAIN fifo_pgn : fifo_pgn[i] \in claimed
  /\ \A t \in Thread : RangeOK(t)

-----------------------------------------------------------------------------
(* The code as built, with pages that __kmalloc maps only: MEMPHY_format    *)
(* puts frame 0 first on both lists, so the first page mapped gets it in    *)
(* RAM and keeps an empty entry.  It is the only page that ever faults.     *)

AsFormatted ==
  /\ Locked /\ Given = {}
  /\ RamFree # <<>> /\ RamFree[1] = {}
  /\ SwpFree # <<>> /\ SwpFree[1] = {}

\* The page that frame 0 of RAM was given to, before its first fault is over
Young(p) == p \in claimed /\ ~Online(p)

\* find_victim_page picks the page that the fault is for.
VictimIsItself == \A t \in Thread : HasVictim(t) => acc[t].vicpgn = acc[t].pgn

\* What a page fault is about: its page is the young one, which is its own victim, is
\* copied from RAM frame 0 to swap frame 0 and back.
YoungFault(t) ==
  /\ Faulting(t) => Young(acc[t].pgn) /\ acc[t].pte = {}
  /\ HasVictim(t) => acc[t].vicpgn = acc[t].pgn
  /\ pc[t] = "takeswp" => acc[t].seen = SubSeq(SwpFree, 1, swpsize)
  /\ HasSwap(t) => acc[t].swpfpn = {}
  /\ pc[t] = "setswap" \/ HasFrame(t) => acc[t].vicfpn = {}
  /\ pc[t] = "putlink" => acc[t].seen = swpfree
  /\ InRam(t) => acc[t].pgn \in claimed /\ Online(acc[t].pgn)
  /\ pc[t] = "access" => acc[t].fpn = Fpn(pgd[acc[t].pgn])

\* The young page is the one enlisted first, and its entry is empty or, in its fault,
\* names swap frame 0.  Nothing has been written to either frame 0 before.
YoungOK ==
  /\ \A p, q \in Page : Young(p) /\ Young(q) => p = q
  /\ claimed = {} \/ (\E p \in Page : Young(p)) => ram[{}] = Zero /\ swp[{}] = Zero
  /\ \A p \in Page : Young(p) =>
       /\ Swp(pgd[p]) = {}
       /\ pgd[p] = {} \/ \E t \in Thread : HasFrame(t)
       /\ (\A t \in Thread : ~HasVictim(t) /\ ~HasFrame(t)) =>
            fifo_pgn # <<>> /\ fifo_pgn[Len(fifo_pgn)] = p

\* RAM frames: frame 0 is the young page's, the others those of the entries.
PlacedOK ==
  /\ claimed = {} => ramfree = RamFree
  /\ claimed # {} => ~Listed(ramfree, {})
  /\ Distinct(ramfree)
  /\ \A p \in claimed : Online(p) => Fpn(pgd[p]) \in RamFrame /\ ~Listed(ramfree, Fpn(pgd[p]))
  /\ \A p, q \in claimed : Online(p) /\ Online(q) /\ Fpn(pgd[p]) = Fpn(pgd[q]) => p = q
  /\ \A p, q \in claimed : Young(p) /\ Online(q) => Fpn(pgd[q]) # {}

\* Swap frame 0 is with the fault.
Lent(t) == pc[t] \in {"swapout", "setswap", "swapin", "putread", "putlink"}

\* The list of swap frames, but for frame 0 while the fault has it
SpareOK ==
  LET all == SubSeq(SwpFree, 1, swpsize)
  IN /\ swpsize \in 1 .. Len(SwpFree) /\ stranded = {}
     /\ (\E t \in Thread : Lent(t)) => swpfree = Tail(all)
     /\ (\A t \in Thread : ~Lent(t)) => swpfree = all

\* libmem.c, pg_getpage as built: what is true between any two of its steps.
FirstInv == Ranges /\ CallOK /\ YoungOK /\ PlacedOK /\ SpareOK /\ \A t \in Thread : YoungFault(t)
=============================================================================

-------------------------------- MODULE Region --------------------------------
(***************************************************************************)
(* The user regions of one process: __alloc and __free of src/src/libmem.c *)
(* with the free list of its memory area and the break (sbrk) that         *)
(* inc_vma_limit moves.  Both hold mmvm_lock from their first statement to *)
(* their return, so each is one step.                                      *)
(*                                                                         *)
(* init_mm is taken as its TODO comments ask: mmap is the one area it      *)
(* builds, whose free list holds one region without bytes.                 *)
(*                                                                         *)
(* inc_vma_limit is a stub that reports success and moves nothing          *)
(* (AsBuilt = TRUE).  AsBuilt = FALSE is what __alloc takes its success to *)
(* mean: the break has moved by at least the size asked for, the rest      *)
(* being the rounding of some page size.                                   *)
(*                                                                         *)
(* Definitions marked "mutant" are wrong on purpose and no action uses     *)
(* them: the checks put one in the place of the definition that follows    *)
(* it, to see the property fail.                                           *)
(***************************************************************************)
EXTENDS FreeList

CONSTANTS RgId,      \* indices into symrgtbl
          Sizes,     \* the sizes asked for
          Rounding,  \* what inc_vma_limit may add to a size
          MaxBrk,    \* bound: no request takes the break past it
          AsBuilt

ASSUME RegionAssumption ==
  Sizes \subseteq Nat /\ Rounding \subseteq Nat /\ MaxBrk \in Nat /\ AsBuilt \in BOOLEAN

VARIABLES symrg,     \* symrgtbl: [start, end) of each region; start = end: unused
          freerg,    \* vm_freerg_list, from its head
          sbrk,      \* the break
          lost       \* history: addresses below the break handed to nobody

vars == <<symrg, freerg, sbrk, lost>>

Init ==
  /\ symrg = [r \in RgId |-> Empty]
  /\ freerg = <<Empty>>
  /\ sbrk = 0
  /\ lost = {}

-----------------------------------------------------------------------------
(* The operations *)

\* mutant of Claim: the ends of the region are swapped.
ClaimSwapped(r, addr, size) == symrg' = [symrg EXCEPT ![r] = [start |-> addr + size, end |-> addr]]
\* Region r gets size bytes from addr on.
Claim(r, addr, size) == symrg' = [symrg EXCEPT ![r] = [start |-> addr, end |-> addr + size]]

Used(r) == symrg[r].start < symrg[r].end

\* __alloc, served from the free list
AllocFree(r, size) ==
  /\ ~Used(r)
  /\ \E i \in DOMAIN freerg :
       /\ FirstFit(freerg, i, size)
       /\ Claim(r, freerg[i].start, size)
       /\ freerg' = Take(freerg, i, size)
  /\ UNCHANGED <<sbrk, lost>>

\* __alloc, past the break.  When the system call fails nothing changes.
AllocBreak(r, size) ==
  /\ ~Used(r)
  /\ NoneFits(freerg, size)
  /\ IF AsBuilt
       THEN UNCHANGED <<sbrk, lost>>
       ELSE \E extra \in Rounding :
              /\ sbrk + size + extra <= MaxBrk
              /\ sbrk' = sbrk + size + extra
              /\ lost' = lost \cup (sbrk + size) .. (sbrk' - 1)
  /\ Claim(r, sbrk, size)
  /\ UNCHANGED freerg

\* mutant of ResetEntry: the symbol table keeps the region.
KeepEntry(r) == UNCHANGED symrg
ResetEntry(r) == symrg' = [symrg EXCEPT ![r] = Empty]

\* __free: enlist_vm_freerg_list refuses an empty region.
Free(r) ==
  /\ symrg[r] # Empty
  /\ ResetEntry(r)
  /\ freerg' = IF Used(r) THEN <<symrg[r]>> \o freerg ELSE freerg
  /\ UNCHANGED <<sbrk, lost>>

Next ==
  \E r \in RgId : \/ Free(r)
                  \/ \E size \in Sizes : AllocFree(r, size)
                  \/ \E size \in Sizes : AllocBreak(r, size)

Spec == Init /\ [][Next]_vars

-----------------------------------------------------------------------------
(* Properties *)

TypeOK ==
  /\ symrg \in [RgId -> Rg]
  /\ freerg \in Seq(Rg)
  /\ sbrk \in Nat
  /\ lost \subseteq Nat

\* No address is in two regions, in a region and on the free list, or twice on
\* the free list, and all are below the break.
NoOverlap ==
  /\ \A q, r \in RgId : q # r => Apart(symrg[q], symrg[r])
  /\ \A r \in RgId, i \in DOMAIN freerg : Apart(symrg[r], freerg[i])
  /\ \A i, j \in DOMAIN freerg : i # j => Apart(freerg[i], freerg[j])
  /\ \A r \in RgId : symrg[r].end <= sbrk
  /\ \A i \in DOMAIN freerg : freerg[i].end <= sbrk

\* libmem.c:139, "Successful increase limit": a region served from the break is
\* space that no other region has.
LiveApart == \A q, r \in RgId : q # r => Apart(symrg[q], symrg[r])

\* No address is lost, whatever the order of calls: what is below the break is
\* in a region, on the free list, or in the rounding of a request.
NothingLost ==
  \A a \in 0 .. (sbrk - 1) :
    \/ \E r \in RgId : a \in Bytes(symrg[r])
    \/ \E i \in DOMAIN freerg : a \in Bytes(freerg[i])
    \/ a \in lost

-----------------------------------------------------------------------------
(* The regions of a process implement an allocator. *)

Abstract == INSTANCE Allocator WITH owned <- [r \in RgId |-> Bytes(symrg[r])]

ImplementsAllocator == Abstract!Spec
=============================================================================

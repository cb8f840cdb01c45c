------------------------------ MODULE Allocator ------------------------------
(***************************************************************************)
(* What the region allocator of libmem.c promises a process: the addresses *)
(* of a region belong to it alone until it is freed.                       *)
(***************************************************************************)
CONSTANT RgId        \* the region identifiers of a process

VARIABLE owned       \* owned[r]: the addresses of region r, {} when it is free

Init == owned = [r \in RgId |-> {}]

\* Region r gets addresses that no region has.
Alloc(r) ==
  /\ owned[r] = {}
  /\ \A q \in RgId : owned[q] \cap owned'[r] = {}
  /\ owned' = [owned EXCEPT ![r] = owned'[r]]

Free(r) == owned' = [owned EXCEPT ![r] = {}]

Next == \E r \in RgId : Alloc(r) \/ Free(r)

Spec == Init /\ [][Next]_owned
=============================================================================

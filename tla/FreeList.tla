------------------------------- MODULE FreeList -------------------------------
(***************************************************************************)
(* Intervals of addresses (vm_rg_struct) and the list of free ones that    *)
(* get_free_vmrg_area of src/src/libmem.c takes bytes from.                *)
(*                                                                         *)
(* Definitions marked "mutant" are wrong on purpose and nothing uses them: *)
(* the checks put one in the place of the definition that follows it, to   *)
(* see a property fail.                                                    *)
(***************************************************************************)
EXTENDS Integers, Sequences

Rg == {g \in [start : Nat, end : Nat] : g.start <= g.end}
Bytes(g) == g.start .. (g.end - 1)
Empty == [start |-> 0, end |-> 0]

\* Two intervals have no address in common.
Apart(g, h) == g.end <= h.start \/ h.end <= g.start \/ g.start >= g.end \/ h.start >= h.end

Fits(g, size) == g.start + size <= g.end

FirstFit(s, i, size) ==
  /\ i \in DOMAIN s /\ Fits(s[i], size)
  /\ \A j \in DOMAIN s : j < i => ~Fits(s[j], size)

NoneFits(s, size) == \A i \in DOMAIN s : ~Fits(s[i], size)

\* mutant of Unlink: the successors of the node are dropped with it.
CutAt(s, i) == [j \in 1 .. i |-> IF j = i THEN [start |-> s[i].end, end |-> s[i].end] ELSE s[j]]
\* A node used up takes over its successor; the last one stays, with no bytes.
Unlink(s, i) ==
  IF i < Len(s)
    THEN [j \in 1 .. Len(s) - 1 |-> IF j < i THEN s[j] ELSE s[j + 1]]
    ELSE [s EXCEPT ![i] = [start |-> s[i].end, end |-> s[i].end]]

\* mutant of Take: the node keeps the bytes taken from it.
Whole(s, i, size) == IF s[i].start + size < s[i].end THEN s ELSE Unlink(s, i)
\* The list after size bytes were taken from the start of node i.
Take(s, i, size) ==
  IF s[i].start + size < s[i].end
    THEN [s EXCEPT ![i] = [start |-> s[i].start + size, end |-> s[i].end]]
    ELSE Unlink(s, i)
=============================================================================

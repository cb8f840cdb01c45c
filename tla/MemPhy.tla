-------------------------------- MODULE MemPhy --------------------------------
(***************************************************************************)
(* A memory device of mm-memphy.c: its storage and its list of free        *)
(* frames.  The data of a frame is one value.                              *)
(*                                                                         *)
(* The device has no lock.  Taking and returning a frame read the head of  *)
(* the list first and write it in a second step, which uses what the first *)
(* one saw: `seen' is the list that starts at the node read.  A node freed *)
(* by another caller in between is taken to keep its content.              *)
(***************************************************************************)
EXTENDS Sequences

CONSTANTS Frame,     \* the frames that the storage has
          Val, Zero, \* what a frame can hold; memset
          rdmflg     \* random access; main sets it for every device

VARIABLES storage, free_fp_list

\* MEMPHY_format lists the frames in the order of their numbers.
InitMemphy(frames) ==
  /\ storage = [f \in Frame |-> Zero]
  /\ free_fp_list = frames

\* The sequential functions refuse the devices that are not random-access,
\* which are the only ones they are called for.
Answers == rdmflg

\* The values that MEMPHY_read may leave: past the storage, or from a device
\* that does not answer, anything.
Read(fpn) == IF Answers /\ fpn \in Frame THEN {storage[fpn]} ELSE Val

Write(fpn, data) ==
  storage' = IF Answers /\ fpn \in Frame THEN [storage EXCEPT ![fpn] = data] ELSE storage

\* MEMPHY_get_freefp, once the head is read and was not NULL
GetFreeFp(seen) == free_fp_list' = Tail(seen)

\* MEMPHY_put_freefp, once the head is read
PutFreeFp(fpn, seen) == free_fp_list' = <<fpn>> \o seen
=============================================================================

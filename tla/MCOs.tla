--------------------------------- MODULE MCOs ---------------------------------
(* Instances of Os for TLC. *)
EXTENDS OsInv, TLC

\* Four processes of two, zero, three and one instructions; the loader adds one
\* per slot, and the last only after a pause.
Sizes == <<2, 0, 3, 1>>
Starts == <<0, 1, 1, 4>>
=============================================================================

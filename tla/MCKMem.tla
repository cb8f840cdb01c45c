-------------------------------- MODULE MCKMem --------------------------------
(* Instances of KMem for TLC. *)
EXTENDS KMemInv, TLC

CONSTANTS cpu0, cpu1

\* MEMPHY_format hands out frame 0 first.
Frames == <<0, 1, 2>>

\* A pool of three bytes has slots of four.
OneShape == {[size |-> 3, align |-> 2]}

CopyOps == {"copy_from_user", "copy_to_user"}
CopyOf(op, u, k, off) == [op |-> op, urg |-> u, rg |-> k, offset |-> off, size |-> 2]
\* Two bytes from the second of a user region, and two back.
SomeCopies == {CopyOf("copy_from_user", 0, 1, 1), CopyOf("copy_to_user", 0, 1, 1)}

\* One CPU allocates from the caches, the other copies; both do all the rest.
OneCopies == (cpu0 :> AllOps \ CopyOps) @@ (cpu1 :> AllOps \ {"cache_alloc"})

\* For the inductive invariant Built: caches under no lock and everybody calling
\* everything
Everything == [t \in Thread |-> AllOps]

\* For the runs that show one race each
KernelOnly == [t \in Thread |-> {"kmalloc", "pool_create"}]
OnlyCaches == (cpu0 :> {"pool_create", "cache_alloc"}) @@ (cpu1 :> {"cache_alloc"})
=============================================================================

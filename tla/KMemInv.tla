-------------------------------- MODULE KMemInv --------------------------------
(***************************************************************************)
(* The inductive invariants of KMem.  IInv is what holds when nobody else  *)
(* allocates during a cache allocation (Exclusion).  Its part Built does   *)
(* not need that within the model, in which a search of the free list is   *)
(* one step; of the code, in which two unlocked searches can break a node  *)
(* of the list, Built says something only under Exclusion.  KMemProofs     *)
(* proves both.                                                            *)
(***************************************************************************)
EXTENDS KMem

\* The steps of __kmalloc and of __kmem_cache_alloc that read or write the lists
InKmalloc(t) == pc[t] \in {"region", "map"}
InCache(t) == pc[t] \in {"find", "search", "grow", "claim"}

\* The pool that a cache allocation has found
PoolOf(t) == \E i \in DOMAIN kcpooltbl : kcpooltbl[i].id = acc[t].id
                                         /\ acc[t].size = SlotSize(kcpooltbl[i])

\* What a call says of the shared state, whatever the others do: it has the lock if
\* its function takes it, it is one that its CPU makes, and what it was given or has
\* saved lies below the break.
CallOK(t) ==
  /\ InKmalloc(t) \/ (Alone /\ InCache(t)) => mmvm_lock = t
  /\ InKmalloc(t) => acc[t].op \in OpsOf[t] \cap {"kmalloc", "pool_create"}
  /\ InCache(t) => "cache_alloc" \in OpsOf[t]
  /\ pc[t] = "grow" => acc[t].start <= sbrk
  /\ pc[t] \in {"map", "claim"} => acc[t].start + acc[t].size <= sbrk
  /\ pc[t] \in {"search", "grow", "claim"} => PoolOf(t)

\* A pool keeps the shape it was asked for.
ShapeOK(pool) ==
  pool.id \in PoolId /\ pool.align > 0 /\ [size |-> pool.size, align |-> pool.align] \in Shapes

\* What the arguments of a call say by themselves: the shape of the pool that it
\* creates, and that a copy stays within the region it has checked.
ArgsOK(t) ==
  /\ acc[t].op = "pool_create" /\ pc[t] \in {"region", "map", "push"} => ShapeOK(acc[t])
  /\ pc[t] = "push" => acc[t].op = "pool_create"
  /\ pc[t] = "check" => acc[t].i = 0
  /\ pc[t] \in {"user", "kernel"} =>
       /\ acc[t].i < acc[t].size
       /\ acc[t].size + (IF FromUser(t) THEN 0 ELSE acc[t].offset) <= Size(acc[t].seen)

LocalsOK == \A t \in Thread : CallOK(t) /\ ArgsOK(t)

PoolsOK == \A i \in DOMAIN kcpooltbl : ShapeOK(kcpooltbl[i])

\* libmem.c: no function hands out or forgets an address that is not below the break,
\* although __kmem_cache_alloc takes it from a break that it read earlier.
BreakOK ==
  /\ sbrk <= MaxBrk
  /\ \A a \in lost : a < sbrk
  /\ \A r \in RgId : symrg[r].end <= sbrk
  /\ \A i \in DOMAIN freerg : freerg[i].end <= sbrk

\* The FIFO list as long as no page is on it twice: its pages have an entry, but for
\* the one that was given frame 0, and a victim's frame is known.
ListOK ==
  ~relisted =>
    /\ \A i, j \in DOMAIN fifo_pgn : i # j => fifo_pgn[i] # fifo_pgn[j]
    /\ \A i \in DOMAIN fifo_pgn : pgd[fifo_pgn[i]] # Swapped
    /\ \A i \in DOMAIN fifo_pgn : pgd[fifo_pgn[i]] = None => 0 \in forgotten
    /\ \A i, j \in DOMAIN fifo_pgn :
         pgd[fifo_pgn[i]] = None /\ pgd[fifo_pgn[j]] = None => i = j

\* Frames: only those of the start, and none without a place.
FramesOK == FramesKnown /\ ListOK

\* libmem.c: what is true between any two steps of the allocations and copies.
Built == TypeOK /\ LocalsOK /\ PoolsOK /\ BreakOK /\ FramesOK

\* While a CPU is in a cache allocation no other one allocates: because it takes the
\* lock, or because it is the only one that ever does.  The others may free and copy.
Exclusion ==
  \/ Alone
  \/ \A t, u \in Thread : t # u /\ "cache_alloc" \in OpsOf[t] =>
       OpsOf[u] \cap {"__alloc", "kmalloc", "pool_create", "cache_alloc"} = {}

\* The break that a cache allocation has saved is still the break.
SavedOK == \A t \in Thread : pc[t] = "grow" => acc[t].start = sbrk

\* libmem.c: what is true in addition under Exclusion.
IInv == Built /\ SavedOK /\ NoOverlap /\ NothingLost
=============================================================================

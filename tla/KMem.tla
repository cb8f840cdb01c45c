--------------------------------- MODULE KMem ---------------------------------
(***************************************************************************)
(* Kernel memory: __kmalloc, the cache pools and the copies between user   *)
(* and kernel regions in src/src/libmem.c, together with __alloc and       *)
(* __free.  The regions and the steps on them are those of module Region,  *)
(* whose break moves.                                                      *)
(*                                                                         *)
(* The code has two mm's: __alloc, __free and the user bytes use           *)
(* caller->mm, __kmalloc, the pools, the caches and the kernel bytes       *)
(* krnl->mm.  os.c sets krnl->mm, one for all processes, and nothing sets  *)
(* caller->mm.  OneMm says whether they are the same; if not, each has its *)
(* symbol table.  The free list, the break, the page table and the FIFO    *)
(* list are one here: __kmalloc takes bytes from the list of caller->mm    *)
(* and moves the break of krnl->mm, which is right only if both mm's have  *)
(* the same memory area.  The kernel table that the kernel bytes look into *)
(* ("krnl->krnl_pgd ... or krnl->pgd", libmem.c:894) is also taken to be   *)
(* this one; nothing ever fills the other.                                 *)
(*                                                                         *)
(* libkmem_malloc and libkmem_cache_pool_create hold mmvm_lock while       *)
(* __kmalloc runs.  __kmem_cache_alloc takes no lock: Alone = FALSE.  With *)
(* Alone = TRUE no CPU is in it while another holds the lock, which        *)
(* nothing in the code sees to.                                            *)
(*                                                                         *)
(* An entry of the page table is None, or has a frame, or is Swapped.      *)
(* pte_get_entry, pte_set_swap and pte_set_fpn reach the entry of the      *)
(* page, as their TODO comments ask; as pte_set_swap is, a page in swap    *)
(* stays PRESENT, so that only an entry that is None makes a page fault.   *)
(* init_pte refuses frame 0 (Pte, InitPteOnline): the page that __kmalloc  *)
(* gives it to has None.                                                   *)
(*                                                                         *)
(* Definitions marked "mutant" are wrong on purpose and no action uses     *)
(* them: the checks put one in the place of the definition that follows    *)
(* it, to see the property fail.                                           *)
(***************************************************************************)
EXTENDS FreeList, FiniteSets

CONSTANTS
  Thread, Nobody,
  NumRg,          \* PAGING_MAX_SYMTBL_SZ
  KRg,            \* the registers libkmem_malloc accepts are those below
  PoolId, Shapes, \* the pools created: identifiers, sizes and alignments
  Sizes, Rounding, MaxBrk,
  Copies,         \* the copies asked for
  PageSz,         \* PAGING64_PAGESZ, of __kmalloc and of the kernel bytes
  UserPageSz,     \* the page size of PAGING_PGN, of the user bytes
  RamFree,        \* the free frames at the start
  OpsOf,          \* the functions each thread calls
  Alone, OneMm,
  None, Swapped

Reg == 0 .. NumRg - 1
RgId == {"user", "kernel"} \X Reg
Page == 0 .. MaxBrk
Frame == {0} \cup {RamFree[i] : i \in DOMAIN RamFree}
AllOps == {"__alloc", "__free", "kmalloc", "pool_create", "cache_alloc",
           "copy_from_user", "copy_to_user"}

ASSUME KMemAssumption ==
  /\ NumRg \in Nat \ {0} /\ KRg \in 0 .. NumRg /\ PoolId \subseteq Nat
  /\ PageSz \in Nat \ {0} /\ UserPageSz \in Nat \ {0}
  /\ Sizes \subseteq Nat /\ Rounding \subseteq Nat /\ MaxBrk \in Nat
  /\ Shapes \subseteq [size : Nat, align : Nat]
  /\ RamFree \in Seq(Nat) /\ \A i, j \in DOMAIN RamFree : RamFree[i] = RamFree[j] => i = j
  /\ Nobody \notin Thread
  /\ Copies \subseteq [op : {"copy_from_user", "copy_to_user"}, urg : Reg, rg : Reg,
                       offset : Nat, size : Nat]
  /\ OpsOf \in [Thread -> SUBSET AllOps] /\ Alone \in BOOLEAN /\ OneMm \in BOOLEAN
  /\ None # Swapped /\ {None, Swapped} \cap Nat = {}

VARIABLES
  symrg,          \* the symbol tables of the two mm's
  freerg, sbrk,
  lost,           \* history: the addresses below the break that nobody has
  pgd, ramfree,
  fifo_pgn,       \* the pages, from the last enlisted
  forgotten,      \* history: the frames that left the free list and no entry has
  relisted,       \* history: has a page been enlisted while it was on the list?
  kcpooltbl,      \* the pools, from the head of the list
  mmvm_lock,
  pc, acc         \* where each thread is, and its arguments and locals

regions == <<symrg, freerg, sbrk, lost>>
pages == <<pgd, ramfree, fifo_pgn, forgotten, relisted>>
vars == <<regions, pages, kcpooltbl, mmvm_lock, pc, acc>>

R == INSTANCE Region WITH AsBuilt <- FALSE

\* Entry r of caller->mm->symrgtbl and of krnl->mm->symrgtbl
UserRg(r) == <<IF OneMm THEN "kernel" ELSE "user", r>>
KernelRg(r) == <<"kernel", r>>

Idle == [op |-> "", rg |-> 0, size |-> 0, id |-> 0, align |-> 0, start |-> 0, i |-> 0,
         urg |-> 0, offset |-> 0, seen |-> Empty]

Init ==
  /\ R!Init
  /\ pgd = [p \in Page |-> None]
  /\ ramfree = RamFree
  /\ fifo_pgn = <<>> /\ forgotten = {} /\ relisted = FALSE
  /\ kcpooltbl = <<>>
  /\ mmvm_lock = Nobody
  /\ pc = [t \in Thread |-> "idle"]
  /\ acc = [t \in Thread |-> Idle]

-----------------------------------------------------------------------------

At(t, label) == pc[t] = label
Goto(t, label) == pc' = [pc EXCEPT ![t] = label]
Set(t, field, x) == acc' = [acc EXCEPT ![t][field] = x]

Exclusive == {"kmalloc", "pool_create"} \cup (IF Alone THEN {"cache_alloc"} ELSE {})

\* A bound of the model: the next request does not take the break past MaxBrk.  With
\* Alone = TRUE a call that begins has the room until it moves the break.
Room(size) == NoneFits(freerg, size) => \A extra \in Rounding : sbrk + size + extra <= MaxBrk

\* Waiting for mmvm_lock a call has done nothing yet: it begins when it has the lock.
Begin(t, label, args) ==
  /\ At(t, "idle") /\ args.op \in OpsOf[t]
  /\ IF args.op \in Exclusive THEN mmvm_lock = Nobody /\ mmvm_lock' = t ELSE UNCHANGED mmvm_lock
  /\ acc' = [acc EXCEPT ![t] = args]
  /\ Goto(t, label)
  /\ UNCHANGED <<regions, pages, kcpooltbl>>

Unlock(t) == mmvm_lock' = IF mmvm_lock = t THEN Nobody ELSE mmvm_lock

End(t) ==
  /\ Unlock(t)
  /\ Goto(t, "idle")
  /\ acc' = [acc EXCEPT ![t] = Idle]

-----------------------------------------------------------------------------
(* __alloc and __free, one step each (module Region) *)

UserStep(t, op) ==
  /\ At(t, "idle") /\ mmvm_lock = Nobody /\ op \in OpsOf[t]
  /\ UNCHANGED <<pages, kcpooltbl, mmvm_lock, pc, acc>>

Alloc(t, r, size) ==
  /\ UserStep(t, "__alloc")
  /\ R!AllocFree(UserRg(r), size) \/ R!AllocBreak(UserRg(r), size)

Free(t, r) == UserStep(t, "__free") /\ R!Free(UserRg(r))

-----------------------------------------------------------------------------
(* __kmalloc *)

\* libkmem_malloc refuses a register index of 10 and more.
BeginKmalloc(t, r, size) ==
  /\ size > 0 /\ r < KRg /\ Room(size)
  /\ Begin(t, "region", [Idle EXCEPT !.op = "kmalloc", !.rg = r, !.size = size])

\* "Use a temporary rgid": the last entry of the symbol table for pool 0, and so on.
PoolRg(id) == NumRg - 1 - id

BeginPoolCreate(t, id, s) ==
  /\ s.size > 0 /\ s.align > 0 /\ s.align <= s.size
  /\ PoolRg(id) >= 0 /\ Room(s.size)
  /\ Begin(t, "region", [Idle EXCEPT !.op = "pool_create", !.rg = PoolRg(id), !.id = id,
                                     !.size = s.size, !.align = s.align])

\* The entry that the call writes
Target(t) == KernelRg(acc[t].rg)

Span(start, size) == start .. (start + size - 1)

\* get_free_vmrg_area finds a node.  The symbol table does not learn of it.
TakeNode(t) ==
  /\ At(t, "region")
  /\ \E i \in DOMAIN freerg :
       /\ FirstFit(freerg, i, acc[t].size)
       /\ freerg' = Take(freerg, i, acc[t].size)
       /\ Set(t, "start", freerg[i].start)
       /\ lost' = lost \cup Span(freerg[i].start, acc[t].size)
  /\ Goto(t, "map")
  /\ UNCHANGED <<symrg, sbrk, pages, kcpooltbl, mmvm_lock>>

\* mutant of MoveBreak: the break moves by the rounding alone.
MoveBreakShort(size, extra) == sbrk' = sbrk + extra /\ sbrk' <= MaxBrk
\* inc_vma_limit, up to the bound of the model
MoveBreak(size, extra) == sbrk' = sbrk + size + extra /\ sbrk' <= MaxBrk

\* Past the break.  The entry is overwritten, used or not.
TakeBreak(t) ==
  /\ At(t, "region") /\ NoneFits(freerg, acc[t].size)
  /\ \E extra \in Rounding :
       /\ MoveBreak(acc[t].size, extra)
       /\ lost' = lost \cup Span(sbrk + acc[t].size, extra) \cup Bytes(symrg[Target(t)])
  /\ R!Claim(Target(t), sbrk, acc[t].size)
  /\ Set(t, "start", sbrk)
  /\ Goto(t, "map")
  /\ UNCHANGED <<freerg, pages, kcpooltbl, mmvm_lock>>

\* DIV_ROUND_UP(size, PAGING64_PAGESZ)
PageCount(size) == (size + PageSz - 1) \div PageSz

OnList(s, p) == \E i \in DOMAIN s : s[i] = p

\* enlist_pgn_node, on list s
EnlistPgn(s, p) ==
  /\ fifo_pgn' = <<p>> \o s
  /\ relisted' = (relisted \/ OnList(s, p))

FrameOf(entry) == {entry} \cap Frame

\* init_pte
NewEntry(f) == IF f = 0 THEN None ELSE f

\* The entry that was there before is replaced.
MapPage(t) ==
  /\ At(t, "map") /\ acc[t].i < PageCount(acc[t].size) /\ ramfree # <<>>
  /\ LET p == acc[t].start \div PageSz + acc[t].i
         entry == NewEntry(Head(ramfree))
     IN /\ pgd' = [pgd EXCEPT ![p] = entry]
        /\ forgotten' = forgotten \cup FrameOf(pgd[p]) \cup ({Head(ramfree)} \ {entry})
        /\ EnlistPgn(fifo_pgn, p)
  /\ ramfree' = Tail(ramfree)
  /\ Set(t, "i", acc[t].i + 1)
  /\ UNCHANGED <<regions, kcpooltbl, mmvm_lock, pc>>

\* mutant of OutOfFrames: the early return keeps the lock.
OutOfFramesLocked(t) ==
  /\ At(t, "map") /\ acc[t].i < PageCount(acc[t].size) /\ ramfree = <<>>
  /\ Goto(t, "idle")
  /\ acc' = [acc EXCEPT ![t] = Idle]
  /\ UNCHANGED <<regions, pages, kcpooltbl, mmvm_lock>>
\* Out of frames: -1, with the region and the pages so far left behind.
OutOfFrames(t) ==
  /\ At(t, "map") /\ acc[t].i < PageCount(acc[t].size) /\ ramfree = <<>>
  /\ End(t)
  /\ UNCHANGED <<regions, pages, kcpooltbl>>

AllMapped(t) ==
  /\ At(t, "map") /\ acc[t].i = PageCount(acc[t].size)
  /\ IF acc[t].op = "kmalloc" THEN End(t)
     ELSE Unlock(t) /\ Goto(t, "push") /\ UNCHANGED acc
  /\ UNCHANGED <<regions, pages, kcpooltbl>>

\* libkmem_cache_pool_create takes the lock again for the list of pools.
PushPool(t) ==
  /\ At(t, "push") /\ mmvm_lock = Nobody
  /\ kcpooltbl' = <<[id |-> acc[t].id, size |-> acc[t].size, align |-> acc[t].align]>> \o kcpooltbl
  /\ End(t)
  /\ UNCHANGED <<regions, pages>>

-----------------------------------------------------------------------------
(* libkmem_cache_alloc, without a lock *)

\* mutant of SlotSize: rounded down.
SlotSizeDown(pool) == (pool.size \div pool.align) * pool.align
\* The size of the pool's slots, a multiple of the alignment.
SlotSize(pool) == ((pool.size + pool.align - 1) \div pool.align) * pool.align

BeginCacheAlloc(t, id, r) ==
  /\ \A s \in Shapes : Room(SlotSize(s))
  /\ Begin(t, "find", [Idle EXCEPT !.op = "cache_alloc", !.id = id, !.rg = r])

\* The first pool of the list with this identifier
IsPool(i, id) == kcpooltbl[i].id = id /\ \A j \in 1 .. i - 1 : kcpooltbl[j].id # id

FindPool(t) ==
  /\ At(t, "find")
  /\ \E i \in DOMAIN kcpooltbl :
       /\ IsPool(i, acc[t].id)
       /\ acc' = [acc EXCEPT ![t].size = SlotSize(kcpooltbl[i]), ![t].align = kcpooltbl[i].align]
  /\ Goto(t, "search")
  /\ UNCHANGED <<regions, pages, kcpooltbl, mmvm_lock>>

NoPool(t) ==
  /\ At(t, "find")
  /\ \A i \in DOMAIN kcpooltbl : kcpooltbl[i].id # acc[t].id
  /\ End(t)
  /\ UNCHANGED <<regions, pages, kcpooltbl>>

\* get_free_vmrg_area leaves the head of the list alone and __free writes only the head,
\* so they may meet without harm.  A search is one step: of what two unlocked searches
\* at once do to a node (both pass the size test, then both move its start) the model
\* shows nothing.
CacheNode(t) ==
  /\ At(t, "search")
  /\ \E i \in DOMAIN freerg :
       /\ FirstFit(freerg, i, acc[t].size)
       /\ freerg' = Take(freerg, i, acc[t].size)
       /\ Set(t, "start", freerg[i].start)
  /\ Goto(t, "claim")
  /\ UNCHANGED <<symrg, sbrk, lost, pages, kcpooltbl, mmvm_lock>>

\* old_sbrk is read before the system call that moves the break.
SaveBreak(t) ==
  /\ At(t, "search") /\ NoneFits(freerg, acc[t].size)
  /\ Set(t, "start", sbrk)
  /\ Goto(t, "grow")
  /\ UNCHANGED <<regions, pages, kcpooltbl, mmvm_lock>>

CacheGrow(t) ==
  /\ At(t, "grow")
  /\ \E extra \in Rounding :
       /\ MoveBreak(acc[t].size, extra)
       /\ lost' = lost \cup Span(sbrk + acc[t].size, extra)
  /\ Goto(t, "claim")
  /\ UNCHANGED <<symrg, freerg, pages, kcpooltbl, mmvm_lock, acc>>

CacheClaim(t) ==
  /\ At(t, "claim")
  /\ R!Claim(Target(t), acc[t].start, acc[t].size)
  /\ lost' = lost \cup Bytes(symrg[Target(t)])
  /\ End(t)
  /\ UNCHANGED <<freerg, sbrk, pages, kcpooltbl>>

-----------------------------------------------------------------------------
(* libkmem_copy_from_user and libkmem_copy_to_user *)

FromUser(t) == acc[t].op = "copy_from_user"

BeginCopy(t, c) ==
  Begin(t, "check", [Idle EXCEPT !.op = c.op, !.urg = c.urg, !.rg = c.rg,
                                 !.offset = c.offset, !.size = c.size])

Size(g) == g.end - g.start

\* mutant of Within: the offset is left out.
SizeWithin(offset, size, g) == g # Empty /\ size <= Size(g)
Within(offset, size, g) == g # Empty /\ offset + size <= Size(g)

\* copy_to_user does not look at its destination.  Both regions are looked up in
\* caller->mm, the kernel's too.
Checked(t) ==
  LET a == acc[t]
  IN IF FromUser(t)
       THEN Within(a.offset, a.size, symrg[UserRg(a.urg)]) /\ Within(0, a.size, symrg[UserRg(a.rg)])
       ELSE Within(a.offset, a.size, symrg[UserRg(a.rg)])

CheckCopy(t) ==
  /\ At(t, "check")
  /\ IF Checked(t) /\ acc[t].size > 0
       THEN /\ Set(t, "seen", symrg[UserRg(acc[t].rg)])
            /\ Goto(t, IF FromUser(t) THEN "user" ELSE "kernel")
            /\ UNCHANGED mmvm_lock
       ELSE End(t)
  /\ UNCHANGED <<regions, pages, kcpooltbl>>

\* The offset of byte i in the user and in the kernel region
UserOffset(t) == acc[t].i + (IF FromUser(t) THEN acc[t].offset ELSE 0)
KernelOffset(t) == acc[t].i + (IF FromUser(t) THEN 0 ELSE acc[t].offset)

NextByte(t) ==
  IF acc[t].i + 1 = acc[t].size THEN End(t)
  ELSE /\ Set(t, "i", acc[t].i + 1)
       /\ Goto(t, IF FromUser(t) THEN "user" ELSE "kernel")
       /\ UNCHANGED mmvm_lock

UserRegion(t) == symrg[UserRg(acc[t].urg)]
InRegion(t) == UserRegion(t) # Empty /\ UserRegion(t).start + UserOffset(t) < UserRegion(t).end
UserPage(t) == (UserRegion(t).start + UserOffset(t)) \div UserPageSz

\* mutant of FaultIn: the victim keeps its frame.
FaultInShared(p, v, f) == pgd' = [pgd EXCEPT ![p] = f]
\* pte_set_swap and pte_set_fpn: frame f goes from page v to page p.
FaultIn(p, v, f) == pgd' = [pgd EXCEPT ![v] = Swapped, ![p] = f]

\* The frame that pg_getpage reads from the entry of its victim.  The bits of an
\* entry that is in swap hold the number of a swap frame: any frame.
VictimFrames(v) ==
  CASE pgd[v] = None -> {0}
    [] pgd[v] = Swapped -> Frame
    [] OTHER -> {pgd[v]}

\* pg_getpage of a page that is not PRESENT, in the steps of module Paging
PageFault(p) ==
  /\ Len(fifo_pgn) > 1
  /\ LET v == fifo_pgn[Len(fifo_pgn)]
     IN /\ \E f \in VictimFrames(v) : FaultIn(p, v, f) /\ forgotten' = forgotten \ {f}
        /\ EnlistPgn(SubSeq(fifo_pgn, 1, Len(fifo_pgn) - 1), p)
  /\ UNCHANGED ramfree

\* __read_user_mem or __write_user_mem, under the lock.
UserByte(t) ==
  /\ At(t, "user") /\ mmvm_lock = Nobody /\ InRegion(t)
  /\ IF pgd[UserPage(t)] = None THEN PageFault(UserPage(t)) ELSE UNCHANGED pages
  /\ IF FromUser(t) THEN Goto(t, "kernel") /\ UNCHANGED <<mmvm_lock, acc>> ELSE NextByte(t)
  /\ UNCHANGED <<regions, kcpooltbl>>

\* The page cannot be had: there is no victim, or no swap frame for it.  The victim is
\* off the list by then.
UserFails(t) ==
  /\ At(t, "user") /\ mmvm_lock = Nobody /\ InRegion(t)
  /\ pgd[UserPage(t)] = None
  /\ \/ Len(fifo_pgn) < 2 /\ UNCHANGED fifo_pgn
     \/ Len(fifo_pgn) > 1 /\ fifo_pgn' = SubSeq(fifo_pgn, 1, Len(fifo_pgn) - 1)
  /\ End(t)
  /\ UNCHANGED <<regions, pgd, ramfree, forgotten, relisted, kcpooltbl>>

UserOutside(t) ==
  /\ At(t, "user") /\ mmvm_lock = Nobody /\ ~InRegion(t)
  /\ End(t)
  /\ UNCHANGED <<regions, pages, kcpooltbl>>

Present(p) == p \in Page /\ pgd[p] # None

\* __write_kernel_mem or __read_kernel_mem: no lock, and no look at the end.
KernelByte(t) ==
  /\ At(t, "kernel")
  /\ LET g == symrg[Target(t)]
     IN IF g = Empty \/ ~Present((g.start + KernelOffset(t)) \div PageSz) THEN End(t)
        ELSE IF FromUser(t) THEN NextByte(t)
        ELSE Goto(t, "user") /\ UNCHANGED <<mmvm_lock, acc>>
  /\ UNCHANGED <<regions, pages, kcpooltbl>>

-----------------------------------------------------------------------------

Kmalloc(t) == TakeNode(t) \/ TakeBreak(t) \/ MapPage(t) \/ OutOfFrames(t) \/ AllMapped(t) \/ PushPool(t)
CacheAlloc(t) ==
  FindPool(t) \/ NoPool(t) \/ CacheNode(t) \/ SaveBreak(t) \/ CacheGrow(t) \/ CacheClaim(t)
Copy(t) == CheckCopy(t) \/ UserByte(t) \/ UserFails(t) \/ UserOutside(t) \/ KernelByte(t)

Step(t) == Kmalloc(t) \/ CacheAlloc(t) \/ Copy(t)

Call(t) ==
  \/ \E r \in Reg : \/ Free(t, r)
                    \/ \E size \in Sizes : Alloc(t, r, size) \/ BeginKmalloc(t, r, size)
                    \/ \E id \in PoolId : BeginCacheAlloc(t, id, r)
  \/ \E id \in PoolId, s \in Shapes : BeginPoolCreate(t, id, s)
  \/ \E c \in Copies : BeginCopy(t, c)

Next == \E t \in Thread : Call(t) \/ Step(t)

\* A CPU that is in a call goes on with it, and the mutex is not kept from it for
\* ever: the others make one call in a time slot.
Spec == Init /\ [][Next]_vars /\ \A t \in Thread : SF_vars(Step(t))

-----------------------------------------------------------------------------
(* Properties *)

\* The types of the state.
TypeOK ==
  /\ R!TypeOK
  /\ pgd \in [Page -> Frame \cup {None, Swapped}]
  /\ ramfree \in Seq(Frame) /\ fifo_pgn \in Seq(Page)
  /\ forgotten \subseteq Frame /\ relisted \in BOOLEAN
  /\ kcpooltbl \in Seq([id : PoolId, size : Nat, align : Nat])
  /\ mmvm_lock \in Thread \cup {Nobody}
  /\ pc \in [Thread -> {"idle", "region", "map", "push", "find", "search", "grow", "claim",
                        "check", "user", "kernel"}]
  /\ acc \in [Thread -> [op : AllOps \cup {""}, rg : Reg, size : Nat, id : Nat, align : Nat,
                         start : Nat, i : Nat, urg : Reg, offset : Nat, seen : Rg]]

\* The slot that a cache allocation has taken and not yet recorded
Taken(t) == IF At(t, "claim") THEN Span(acc[t].start, acc[t].size) ELSE {}

\* libmem.c:757, "important: Save old_sbrk before call syscall": kernel and user
\* allocations of all CPUs never hand out an address that somebody has or that was
\* given to the kernel before.
NoOverlap ==
  /\ R!NoOverlap
  /\ \A r \in RgId : Bytes(symrg[r]) \cap lost = {}
  /\ \A i \in DOMAIN freerg : Bytes(freerg[i]) \cap lost = {}
  /\ \A t \in Thread :
       /\ Taken(t) \cap lost = {}
       /\ \A r \in RgId : Bytes(symrg[r]) \cap Taken(t) = {}
       /\ \A i \in DOMAIN freerg : Bytes(freerg[i]) \cap Taken(t) = {}

\* The ways to lose an address are the ones counted: a region that __kmalloc took
\* from the free list, an entry overwritten, the rounding of the break.
NothingLost ==
  \A a \in 0 .. (sbrk - 1) :
    \/ a \in lost
    \/ \E r \in RgId : a \in Bytes(symrg[r])
    \/ \E i \in DOMAIN freerg : a \in Bytes(freerg[i])
    \/ \E t \in Thread : a \in Taken(t)

\* libmem.c:574, "Fetch 1 physical frame from RAM": every frame of the device stays
\* accounted for, and has one owner, through the calls that stop half-way and the page
\* faults of the copies.  It is on the free list, in the entry of one page, or
\* forgotten: it was frame 0 when __kmalloc mapped it, or its entry was replaced.  When a
\* page has come to be on the FIFO list twice, nothing is said any more.
FramesKnown ==
  ~relisted =>
    /\ \A i \in DOMAIN RamFree :
         \/ RamFree[i] \in forgotten
         \/ \E j \in DOMAIN ramfree : ramfree[j] = RamFree[i]
         \/ \E p \in Page : pgd[p] = RamFree[i]
    /\ \A i, j \in DOMAIN ramfree : i # j => ramfree[i] # ramfree[j]
    /\ \A p \in Page, i \in DOMAIN ramfree : pgd[p] # ramfree[i]
    /\ \A p, q \in Page : p # q => pgd[p] # pgd[q] \/ pgd[p] \notin Frame
    /\ \A i \in DOMAIN ramfree : ramfree[i] \notin forgotten
    /\ \A p \in Page : pgd[p] \notin forgotten

\* "align: alignment size of each cache slot" (libmem.c:623): the slot that is
\* about to be recorded holds an object of the pool and is a multiple of its alignment.
SlotWhole ==
  \A t \in Thread : At(t, "claim") =>
    \E i \in DOMAIN kcpooltbl :
      /\ kcpooltbl[i].id = acc[t].id
      /\ acc[t].size >= kcpooltbl[i].size /\ acc[t].size % kcpooltbl[i].align = 0

\* libmem.c:795, "offset + size must be within allocated region": a copy touches
\* kernel bytes of the region only, however the steps of other calls come in between, if
\* the entry it looks up for the kernel is still the region that it has checked.  (A
\* region freed or moved since the check is not covered, nor one in another table.)
CopyInside ==
  \A t \in Thread : At(t, "kernel") /\ symrg[Target(t)] = acc[t].seen =>
    KernelOffset(t) < Size(acc[t].seen)

\* Every call returns: no path through __kmalloc keeps the lock.
CallsReturn == \A t \in Thread : ~At(t, "idle") ~> At(t, "idle")

\* libmem.c:635, "Use a temporary rgid to avoid modifying user process": a region that
\* a process has from __kmalloc, under one of the registers it may use for that, stays
\* where it is when a pool is created.
PoolLeavesRegions ==
  [][\A t \in Thread, r \in 0 .. KRg - 1 :
       acc[t].op = "pool_create" /\ At(t, "region") /\ R!Used(KernelRg(r)) /\ pc'[t] = "map"
         => symrg'[KernelRg(r)] = symrg[KernelRg(r)]]_vars
=============================================================================

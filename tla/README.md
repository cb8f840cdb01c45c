# Verification of the simulated operating system

This project specifies, model-checks and proves properties of the operating-system
simulator in `src/`: a timer thread, CPU threads and a loader thread that advance
in lockstep (`src/ossim_caitoa/src`), and the memory library that the simulated
programs call (`src/src/libmem.c`, `src/src/sys_mem.c`, the completed versions of
the skeleton files in `src/ossim_caitoa/src`).

The repository is a course project in progress: several functions are still stubs
with TODO comments. Where a stub matters, the module has a constant that chooses
between the code as it is and what the TODO comment asks for and the callers assume
(`AsBuilt` in `Os` and `Region`, `KeepsPresent` in `Paging`). What is shown for the
second is a statement about the existing callers: they are right if the stub is
completed as they expect. What is shown for the first is in section 5.

## 1. Inventory

| Component | Source | State | Operations | Hard behaviour | What makes it correct |
|---|---|---|---|---|---|
| Time-slot timer | `timer.c` | `_time`, `dev_list`, `done`, `fsh`, two mutexes and conditions per device, start and stop flags | `attach_event`, `start_timer`, `timer_routine`, `next_slot`, `detach_event`, `stop_timer` | `done` has two writers under different mutexes; `_time` is read without a lock; signals may come before the wait; spurious wake-ups; devices leave during a walk | a slot ends only when every device has done its part; nobody is released early or left asleep; the timer ends last |
| CPU and loader threads | `os.c` | `proc`, `time_left` per CPU, `done`, the loader's index | `cpu_routine`, `ld_routine`, `main` | queue and `done` are read at different times without a common lock; a process passes between CPUs within a slot | a process is in one place; full quanta; all processes run to the end; the threads stop |
| Scheduler | `sched.c`, `queue.c` | `mlq_ready_queue`, `slot`, `queue_lock`, `running_list` | `get_mlq_proc`, `put_mlq_proc`, `add_mlq_proc`, `enqueue`, `dequeue`, `purgequeue` | blocks the clock if it keeps the lock; `running_list` only grows | no process lost or doubled |
| Instruction interpreter | `cpu.c` | `pc`, `regs` | `run` and one function per instruction | dispatches memory calls in the middle of a slot | one instruction per slot |
| Regions | `libmem.c`: `__alloc`, `__free`, `get_free_vmrg_area` | `symrgtbl`, `vm_freerg_list`, `sbrk` | alloc, free | any order of sizes and identifiers; split, unlink, prepend on one list | no address has two owners, none is lost |
| Paging | `libmem.c`: `pg_getpage`, `find_victim_page`, the accesses; `mm64.c` | page-table entries, FIFO list | page fault, victim choice, swap | several failing steps in one fault; `__read` takes no lock | a frame has one owner; a read returns what was written last |
| Physical memory | `mm-memphy.c` | free-frame list, storage | get and put a frame, read, write | no lock of its own | a frame is handed out once |
| Page-table entries | `mm64.c`, `mm.h`, `mm64.h`, `bitops.h` | bit fields | `init_pte`, `pte_set_swap`, `pte_set_fpn`, the split of an address | overlapping fields, widths | what is decoded is what was encoded |
| Kernel memory | `libmem.c`: `__kmalloc`, the caches, the copies | `symrgtbl`, `kcpooltbl`, page table | kmalloc, cache create and alloc, copy from and to user | operations without a lock, partial failure, state checked and used later | kernel and user allocations apart |
| System calls | `sys_mem.c`, `syscall.c` | `running_list` | `memmap` and its five operations | the caller ignores the result; unlocked search | the caller's memory and no other's |

Interactions: every CPU and the loader is a device of the timer and calls
`next_slot` once per slot, and `detach_event` when it stops. CPUs and loader share
the scheduler's queues under `queue_lock`. CPUs call the memory library in the
middle of a slot, in any interleaving; its operations share `mmvm_lock`, which not
all of them take. The library calls the system-call layer to move the break, to
swap a page and to access a byte, and the devices directly to copy a page in and
for their lists of frames.

The memory library reaches its state through two pointers. `__alloc`, `__free`, the user
bytes, the free list and the FIFO list use `caller->mm`; `__kmalloc`, the pools, the cache
registers and the kernel bytes use `krnl->mm`. `pcb_t` has an `mm` of its own
(`src/include/common.h:117`), but `os.c:149` sets only `krnl->mm`, replaced at each load and
used by all processes. `Paging` has one page table for all CPUs. `KMem` has a constant,
`OneMm`, that says whether the two pointers are the same: the symbol tables are two if they
are not; the free list, the break, the page table and the FIFO list are one in either case,
since the code mixes the pointers there (`__kmalloc` takes bytes from the list of one and moves
the break of the other) and is right only if both have the same memory area.

The hazards of the code, each at its line and with the properties that cover it or
the reason why none does, are listed in `PROJECT.json`.

### Not modelled

* The program loader (`loader.c`): it parses a file, for one caller.
* The legacy memory (`mem.c`, `paging.c`) and the 32-bit `mm.c`: compiled out in the
  shipped configuration (`MM_PAGING`, `MM64`). `Paging` takes from `mm.c` what
  `pte_set_swap` and `pte_set_fpn` do to the entry of a page, which `mm64.c` leaves
  to do.
* The skeleton `libmem.c` of `src/ossim_caitoa/src`, which the completed
  `src/src/libmem.c` replaces.
* In the scheduler, which process is taken: the priorities and slots of the
  multilevel queue are a TODO comment only. `Os` admits any choice. `running_list`
  is never filled, as `enqueue` is empty: what is in it is the constant `Running` of
  `Paging`, and its unlocked search is no step.
* In the system calls, `SYSMEM_MAP_OP`, which calls a stub, and `listsyscall`, which prints.
* Functions without a caller: `free_pcb_memph`, `get_vm_area_node_at_brk`,
  `validate_overlap_vm_area`. The sequential device: `main` sets `rdmflg` for every device.
* `CALC`, `SYSCALL` and the registers of a process. (`cpu.c` stores what READ
  returns into its local copy of the instruction, so no register changes.)
* `get_vma_by_num` past the last area reads through a null pointer; every caller
  asks for area 0, which exists.

## 2. Modules

```
SlotClock      what timer.c promises: a clock in lockstep with its devices
  ^ implemented by (checked and proved)
Timer          timer.c, one step per critical section
                 TimerInv the inductive invariant, TimerProofs
  ^ assumed through SlotClock by
Os             cpu_routine and ld_routine over the clock and the scheduler
                 OsInv the inductive invariants, OsProofs, MCOs

Allocator      what __alloc and __free promise: nobody's address twice
  ^ implemented by (checked and proved)
Region         __alloc, __free, the free list and the break
                 RegionProofs, MCRegion
  | both use FreeList: intervals, and taking bytes from the free list
  |              FreeListProofs
  ^ instantiated by
KMem           __kmalloc, the cache pools, the copies, with __alloc and __free
                 KMemInv the inductive invariants, KMemProofs, MCKMem

Words          machine words as sets of bits; NBITS
Pte            page-table entries and addresses
                 PteProofs
  ^ extended by
Paging         pg_getpage step by step, over two instances of
MemPhy         a memory device
                 PagingInv the inductive invariants, PagingProofs, MCPaging
  | implements (checked and proved in PagingMemory)
  v
Memory         what a CPU may rely on: a read returns what was written last
```

### Timer

A step is a mutex acquisition, or a critical section up to its unlock or to the
`pthread_cond_wait` that ends it. The variables are those of the code; `dpc` and
`tpc` are the control states of the threads, `temp` is the cursor as an index into
`dev_list`, and `slot` is a history variable that counts the calls of `next_slot`
that returned. The timer thread walks the list twice per slot: it waits for
`done` or `fsh` of each device under `event_lock` (`LockEvent`, `WaitEvent`,
`CountEvent`), increments `_time` (`Tick`), and clears every `done` under
`timer_lock` (`LockTimer`, `ClearDone`). `next_slot` is `LockOwnEvent`, `SetDone`,
`LockOwnTimer`, then `WaitSlot` until `ReturnFromSlot`; `detach_event` is
`LockOwnEvent`, `SetFsh`. A signal moves the one waiter of its condition variable to
`woken`, from where it must reacquire the mutex; `SpuriousTimer` and
`SpuriousDevice` do the same without a signal. The main thread attaches, starts,
joins and stops. What a CPU does in its slot is the single state `work`.

### SlotClock

The interface `Os` is written against: a device works, parks (`next_slot`), is
released by a tick that needs everybody parked or gone, resumes, or leaves
(`detach_event`). `Timer!ModeOf` is the refinement mapping: a device inside
`next_slot` is `parked` when its completed slots equal the time, and `released` when
the time has moved on, whether or not the timer has already cleared its `done`.

### Os

One action per stretch of `cpu_routine` between two calls on shared state: the head
of the loop (`Top`), the two calls of `get_proc` (`GetIdle`, `Get`), `put_proc`
(`Put`), the tests that follow (`Check`), and the instruction with its `next_slot`
(`Run`). The branch for an idle CPU (`GetIdle`) returns to the head of the loop
without reading `done`, as the code does at `os.c:65`. `ld_routine` is `WaitStart`,
`AddProc`, `FinishLoading`. A process is its number in the configuration file; its
program is the number of its instructions. `get_proc` may return any queued
process, so what holds here holds for every policy. `used` and `ran` are history
variables: slots since the last dispatch, and the processes that ran in the current
slot. The wrapped `Tick` stops counting time at `Horizon`, after the last start
time, which nothing reads beyond that point.

### Region and Allocator

`__alloc` and `__free` hold `mmvm_lock` throughout, so each is one action
(`AllocFree`, `AllocBreak`, `Free`). The free list is a sequence, and the model
keeps its shape: first fit, the split in place, the unlinking that copies the
successor over the node, the dummy node at the end, the prepend of `__free`.
What happens to the list itself is in
`FreeList`, which `KMem` uses too. Regions of size zero are included: `__alloc` accepts them, `__free` does not enlist
them. A call that fails changes nothing and is no action. `lost` is a history
variable: bytes that the rounding of `inc_vma_limit` adds below the break and that
belong to nobody. `init_mm` is taken as its TODO comments ask (`mmap` points at the
one area, whose list starts empty). The abstract allocator says only that a region
gets addresses while it has none, that no other region has them, and that they
return when it is freed.

### Words and Pte

A word is the set of its one bits, so that `SETBIT`, `CLRBIT`, `SETVAL` and `GETVAL`
are set operations and the fields of an entry stay apart in proofs; `NBits` is the
macro with its five halvings. `Pte` has the fields of `mm.h`, in which the frame number
overlaps with the swap type and offset, `init_pte` with its refusal of frame 0,
`pte_set_swap` with the `PRESENT` bit it sets, `pte_set_fpn`, the split of a user address
into page and offset and of a 64-bit address into five indices.

### MemPhy

One device: its storage and its list of free frames, in the order that
`MEMPHY_format` gives it. It has no lock. Taking and returning a frame read the head
of the list and write it in a second step, with what the first one saw (`seen`), so
a caller without a lock could give a frame twice; it is `mmvm_lock` of the callers
that prevents it.

### Paging and Memory

Each access is a sequence of steps: the tests on the region and the entry (`Check`),
the fault (`FindVictim`, `ReadSwapHead`, `TakeSwap`, `SwapOut`, `SetSwap`, `SwapIn`,
`ReadPutHead`, `LinkPut`, `SetFpn`, `Enlist`), the lookup of the frame (`GetFrame`),
the byte (`Access`) and the unlock (`Return`). Every early return of `pg_getpage` is
`GiveUp`. `acc[t]` has the arguments and locals of the call of CPU `t`. The operation
`__read` takes no lock, the three others do (`Locks`); `Ops` says which ones an
instance calls. A page is mapped from RAM by the loop of `__kmalloc` (`MapRam`), the one that
gets frame 0 with an empty entry, as `init_pte` refuses that frame; or it is in a region
that `__alloc` gave out and nobody mapped (`Given`), with an empty entry from the start.
`pg_getpage` takes an empty entry for a page in swap frame 0. A page has one value: the bytes of a page move together, and the offset is
in `Pte`. `Running` is the set of CPUs whose process the system call finds; for
another one it copies and reads nothing and the caller goes on. `ret` is what
`pg_getval` or `pg_setval` returns; `__write` discards it (`libmem.c:449`) and returns 0.
`claimed` and `stranded` are history variables: the second has the victims of faults
that found no swap frame, which are off the FIFO list for good (`libmem.c:266`). `swpsize` is the size that the
configuration gives the swap device, from none of the listed frames to all of them.

What `Paging` leaves out: the page number is one number, while `__kmalloc` divides an address
by 4096 (`libmem.c:586`) and the accesses by 256 (`PAGING_PGN`). The FIFO list is walked and changed
in one step, which is right under `mmvm_lock`; a `__read` that runs into a page fault walks
and frees its nodes without it, and the model stops there (`FindVictim`), so that nothing is
shown of what follows.

`Memory` has a value per page, and a call that reads it, replaces it, or fails and
changes nothing. The refinement mapping takes the value of a page from the frame
that its entry names (`Content`).

### KMem

The state and the actions of `Region` (instance `R`), the page table and the free
frames, the pools. `__kmalloc` is the choice of the addresses (`TakeNode`,
`TakeBreak`), then one step per page mapped (`MapPage`) until the end (`AllMapped`)
or until the frames run out (`OutOfFrames`). A pool is created by the same steps and
linked under a second acquisition of the lock (`PushPool`). `__kmem_cache_alloc` takes
no lock: it finds the pool (`FindPool`), takes a free node (`CacheNode`) or saves the
break (`SaveBreak`) and moves it (`CacheGrow`), and records the slot (`CacheClaim`).
With `Alone = TRUE` it runs only while nobody holds the lock and keeps others out;
nothing in the code sees to that. Taking a node off the free list is one step
even without the lock: `get_free_vmrg_area` never writes the head of the list and
`__free` only writes the head. Two unlocked searches at once can meet inside the list in
the code, both passing the size test of a node and then both moving its start; of that the
model shows nothing. The break moves as `__kmalloc` assumes. The copies check two regions
(`CheckCopy`) and then move one byte at a time, the user byte under the lock (`UserByte`,
`UserFails`, `UserOutside`) and the kernel byte without (`KernelByte`). A user page without an
entry is brought in by `pg_getpage` (`PageFault`), here in one step, as it is under the
lock: the frame of the last page of the FIFO list goes to it.

Readings of the code that a user of this module should know: an entry is `None`, the
number of its frame, or `Swapped`; as `pte_set_swap` is, a page in swap stays `PRESENT`, so that
only `None` makes a page fault. The user bytes use pages of another size (`UserPageSz`) than
`__kmalloc` and the kernel bytes (`PageSz`), in the same table. The kernel table that
the copies look into is this one too (as built it is another one, which nothing
fills, so that every copy fails at its first kernel byte). Both regions of a copy are checked in
the table of `caller->mm`, while the kernel bytes look theirs up in that of `krnl->mm`: if
these are two, the region checked is not the one that is copied. The storage of a pool is
never what its slots are taken from, as in the code. A region that is not page-aligned
may leave its last page unmapped, and two in one page replace the entry, forget a frame
(`forgotten`) and put the page on the FIFO list twice (`relisted`). Frame 0, the first that
`MEMPHY_format` hands out, leaves the entry of its page empty, as `init_pte` refuses it, and the
page is put on the FIFO list all the same. The physical address of a kernel byte uses a
12-bit offset in frames of 256 bytes; the frame and not the byte is what is modelled.

Definitions marked "mutant" in the modules stand beside the real ones, with a
plausible mistake. `PROJECT.json` pairs each with the property that must fail when
the mistake is made.

## 3. Runs

| Run | Instance | What it shows |
|---|---|---|
| `timer` | 3 devices, 2 slots, fair; 153 994 states | the barrier is tight (`NoTickWhileWorking`, `Lockstep`, `TimeStep`), the two writers of `done` never meet (`NoDoneRace`), no wake-up is lost, the timer ends last, `next_slot` returns, everything ends, `Timer` implements `SlotClock` with its fairness, and the invariant of the proofs holds |
| `os` | 3 CPUs, 4 processes of 2, 0, 3, 1 instructions starting at 0, 1, 1, 4, quantum 2, fair; 33 394 states | a process is in exactly one place, runs at most once per slot, leaves the CPU after exactly its quantum, never runs early, is never left behind by CPUs that stop, and runs to its end; a CPU idles only if the queue was empty; the invariant of the proofs holds |
| `os_idle_cpu` | 2 CPUs, the same processes, fair | violated: an idle CPU never reads `done` again and never stops |
| `os_as_built` | the same, `AsBuilt` | violated: `get_mlq_proc` keeps `queue_lock`, nothing ever finishes |
| `region_safety` | 3 regions, sizes 0 to 2, rounding 0 or 1, break up to 6, symmetric | no address has two owners, none is lost, and `Region` implements `Allocator` |
| `region_as_built` | 2 regions, `AsBuilt` | violated: the break never moves, so regions share addresses |
| `paging_safety` | 2 CPUs, 3 pages of which one is never mapped, 2 RAM frames to hand out, 0 to 2 swap frames and that of the page never mapped, the three locked operations, fair; 39 659 states | frames of both devices have one owner at every step, the FIFO list is exact, the frame still holds the page when it is accessed, paging implements memory, and every call releases the lock |
| `paging_as_built` | the same, `KeepsPresent` | violated: the victim of a page fault stays `PRESENT` (`SetSwap`), and when it is accessed its swap offset is read as a frame |
| `paging_read_race` | the same, `__read` and `__write`, `KeepsPresent = FALSE` | violated: a fault takes the frame between the lookup and the byte of an unlocked read |
| `kmem_safety` | 2 CPUs, one allocating from caches and the other copying, both all the rest; 2 registers, one of them open to `kmalloc`, a pool of size 3 aligned to 2, pages of 2 bytes, frames 0 to 2 with 0 first, break up to 7, `Alone`, `OneMm`, fair; 145 875 states | no address is handed out twice and none lost except in the ways counted, every frame is accounted for whichever call stops half-way, slots are whole, copies stay inside the region they checked while it is there, every call returns |
| `kmem_pool_id` | 2 CPUs that call `kmalloc` and create pools, two mm's | violated: creating a pool moves a region that a process has from `__kmalloc` |
| `kmem_cache_race` | 2 CPUs that allocate from caches, one of which creates the pool, `OneMm`, not `Alone` | violated: the break moves between its being read and moved |

### Bounds

* `MaxSlot` bounds how long a device stays attached. One slot already has every
  phase of the protocol; two let a device be a full round ahead of the walk and let
  devices leave in different rounds. Three devices give a first, a middle and a last
  position in the list. Nothing else is bounded in `Timer`.
* `Horizon` in `Os` is not below any start time, so a capped clock changes no test.
  The four processes start at different times, have different lengths, one of them
  zero, and outnumber the CPUs, so that the queue is sometimes empty and sometimes
  contended.
* `MaxBrk` in `Region` refuses requests that would take the break past it. It leaves
  room for three regions and for free nodes of different sizes between them, and
  with it lists of several nodes. In the proofs it is any number.
* `Paging` has no bound besides its sets. Three pages in two RAM frames mean that
  every fault needs a victim and that the list may be down to one page; a swap device of
  none, one or two frames, that it may be full. (A page that is freed keeps its entry, as in
  the code.) RAM hands out frames 2 and 3 here, not frame 0, and swap frame 0 is that of the page never
  mapped, as the properties need (`Sound`, section 4). The devices as `MEMPHY_format` lists them, frame
  0 first, are the subject of `FirstFrame` and `FirstIsMemory`.
* `KMem`: `Room` refuses requests past `MaxBrk`, and so does a break that would be moved
  past it. A break of seven leaves room for
  three regions or slots, so for a free node between two owners; three frames run out
  after a few calls, also in the middle of the pages of a pool. The slot of a pool is
  a byte longer than the object.

### Fairness

* `Timer`: weak fairness for each thread as a whole (the main thread, the timer
  thread, each device), which is what a preemptive scheduler of POSIX threads
  gives; no mutex here is contended for ever, so strong fairness is not needed.
  A device works only finitely long in a slot (a CPU executes one instruction).
  Spurious wake-ups are allowed but end eventually: without that a thread could be
  woken for ever and still be scheduled fairly.
* `Os`: weak fairness for each thread and for the clock. The last is not an
  assumption about the code but the promise of `SlotClock`, which the run `timer`
  checks `Timer` to keep.
* `Paging`: weak fairness for a CPU that is in a call. A locked call has its lock
  when it begins, so nothing else can disable its next step.
* `KMem`: strong fairness for a CPU that is in a call. Some of its steps need
  `mmvm_lock`; the others make one call in a time slot and then wait for the slot to
  end, so that the lock is free again and again until this CPU has it.

## 4. Proofs

A theorem holds for every value of the constants that satisfies the assumption of
its module and those written in its statement. Each safety proof has the same
shape: an inductive invariant, a lemma for each of its parts with one step per
action, and the property as a consequence. Three kinds of statement are made about a
module that can be the code as built or completed:

| Module | Of either | Of the code as built | Of the code as its callers assume it |
|---|---|---|---|
| `Os` | | `AsBuiltStuck`, `AsBuiltNoneFinishes`, `AsBuiltNoneStops` | `Inductive` and what follows from it, `ZeroQuantum`, `ZeroQuantumRunsToEnd` |
| `Region` | `Typing` | `BuiltStaysLow` | `Invariance`, `NoOverlapHolds`, `NothingLostHolds`, `RegionImplementsAllocator` |
| `Paging` | `RangesInductive`, `PagingTypes` (every access locked) | `FirstInductive`, `VictimItself`, `FirstFrame`, `FirstIsMemory` (every access locked, pages of `__kmalloc` only) | `Inductive`, `RamFramesOwned`, `SwapFramesOwned`, `ListIsExact`, `AccessOfOwnFrame`, `PagingIsMemory` |
| `KMem` | `KmallocExcludes`, `SlotIsWhole` | | `Inductive`, `KMemTypes`, `NothingPastBreak`, `NothingTwice`, `EveryAddressKnown`, `FramesOwned`, `CopyStaysInside` (no allocation during a cache allocation) |

`TimerProofs` assumes at least one device. The safety properties are not inductive:
that the timer does not tick while a device works depends on every device it has
counted in this walk having stayed parked. So the invariant follows the cursor:
`Pending(d)` says that the timer has counted `d` and not yet released it, and
`DeviceOK` that such a device is done or finished, with its slot number as far as
the clock. `LockOK` says who holds which mutex in which state, which excludes the
two writers of `done`: the device writes it only while it works, the timer only for a
device it has counted. `CountOK` relates the two counters of `timer_routine` to the
devices counted, for the end of the thread. `TimerImplementsClock` is the safety
part of the refinement.

`OsProofs` first assumes a scheduler that works (`AsBuilt = FALSE`) and a CPU. `PlaceOK` is
`OnePlace` said without counting; `ControlOK` ties what a CPU holds to its control state;
with them, `QuantumOK` adds up the slots used and left, which only changes together
while the process is on the CPU. `RanOK` says that a process that ran in this slot is
on a CPU that waits for the next one, and so can be neither put back nor taken. The
hard one is `StopOK`: a CPU that found the queue empty reads `done` later. While
something is queued and the loader has not just put it there, some CPU has not given
up; and the loader sets `done` one slot after its last process at the earliest. Then
nothing can be in the queue when the last CPU stops (`NobodyLeft`). `IdleOK` counts:
since a CPU saw the queue empty, each process put back is matched by a CPU that is about
to take one, and the loader adds at most one.

With a quantum of 0, which the configuration file may ask for (`os.c:100`), `time_left` is 0
only before a process has run and negative afterwards. `HadSlot` says that a process at the
head of the loop has used a slot; so `time_left` is never 0 when it is tested, nobody is put
back (`ZeroQuantum`) and each process is run to its end by one CPU (`ZeroQuantumRunsToEnd`).

With the scheduler as built (`AsBuilt = TRUE`) the invariant is `Stuck`. `LockKept` has the
argument: the first CPU to call `get_proc` keeps `queue_lock` and parks, the others
are in `get_proc` for good, so at most one tick happens, after which the first CPU blocks
on the lock that it holds itself. Nothing is ever queued, so nothing runs
(`NothingRuns`), and no CPU can stop. The finding of `os_as_built` is therefore one for any
number of CPUs and processes and any configuration.

`RegionProofs` needs no assumption for the types. If the break moves (`AsBuilt = FALSE`),
`TypeOK /\ NoOverlap` is inductive, no address is lost, and `Region` implements `Allocator`.
As built, `BuiltStaysLow`: whatever is allocated and freed, the break stays at 0 and every
region and free node lies in the first `b` bytes, `b` being the largest request; so all
regions of a process share one stretch of that size, which says how far the finding of
`region_as_built` goes. The lemmas
`TakeFacts` and `TakeKeeps` of `FreeListProofs` describe what taking bytes from a node does to the list in
its three cases: each new node is the end of a different old node, what is left of
the node starts behind the bytes taken, and no byte disappears.

`KMemProofs` has two invariants. `IInv` needs `Exclusion`: either a cache allocation takes the
lock (`Alone`), or one CPU at most makes them and then no other CPU allocates anything; the
others may free and copy. So the theorems hold without the lock for programs of which
only one allocates. Without `Exclusion` they are false (`kmem_cache_race`), or the code has
behaviours that the model has not: two unlocked searches can push the start of a node past its
end. The parts of `IInv`:

* `CallOK`: what a call knows whatever the others do. In `__kmalloc` it has the lock. A saved
  break is not above the break, and what a call was given lies below it: the system call
  gets an amount, so the break moves up from where it is then, and not from where the
  caller saw it.
* `ArgsOK`: what the arguments say by themselves: the shape of the pool that is created,
  and that the byte a copy is at lies in the region it has checked.
* `PoolsOK`: pools have the shapes that they were created with.
* `BreakOK`: regions, free nodes and forgotten addresses lie below the break.
* `FramesOK`: `FramesKnown`, and of the FIFO list (`ListOK`) what a page fault needs for it: as long as
  no page has been enlisted twice, its pages have a frame, but for one at most, which is
  the page that frame 0 was given to. A fault takes its victim's frame from the entry, so this
  is what keeps it from taking a frame that another page has. That the page `MapPage` maps is
  one of the table is `PageOfTurn`: the pages of a region begin below its end.
* `SavedOK`: the break that a cache allocation has saved is still the break.
* `NoOverlap` and `NothingLost`, which need each other in no step but share the case analysis: at
  most one CPU has a slot in hand, and `Accounted` says of the regions, the free list, this slot
  and the lost addresses that they share out what is below the break. Each of the steps
  that move addresses has a lemma of its own.

The first five are `Built`, which in the model does not need `Exclusion`. What is stated without
it is only what does not depend on the free list: that `mmvm_lock` keeps two CPUs from being
in `__kmalloc` (`KmallocExcludes`), and that slots are whole (`SlotIsWhole`).
`CopyStaysInside` says nothing of a region freed or moved under a copy.

TLC has checked both, on the instance of `kmem_safety` changed as follows: `Built` with
`Alone = FALSE`, `OpsOf <- Everything`, `UserPageSz = 1` (1 547 562 states);
`IInv` on the instance itself, then with `UserPageSz = 1` and `MaxBrk = 8` (503 231 states), then with `OneMm = FALSE`,
`Sizes = {3}` besides (2 234 states; no slot is ever taken from a free node then, as nothing is freed in
the table of the kernel).

`PteProofs` has no assumption: an entry encoded by `pte_set_fpn` or `pte_set_swap` is
decoded to the same frame or offset with the flags right (in particular, `PRESENT` is
set by both), `init_pte` is right for every frame but 0, `NBITS` is the position of the
highest bit, page and offset determine a user address and are rebuilt from it, and the five
indices determine the page of a 64-bit address.

`PagingProofs` has three invariants, all for calls that take `mmvm_lock` (`Locked`): the steps on
the FIFO list are one each only then.

`Ranges` assumes nothing else but that swap frame 0 exists, which an empty entry names: every page
a call works with was mapped or given, every swap frame it reads, writes or frees is one of the
device, and no frame is taken from an empty list. Types follow (`PagingTypes`).

`IInv` assumes `Sound`: besides, that an entry without `PRESENT` names the swap frame of its page
and of no other. So a page in swap is not `PRESENT`; frame 0 of RAM is not handed out; and
at most one page has never been mapped, swap frame 0 being its own. That is what `pg_getpage` takes
for granted, and not the code as built, for which the runs `paging_as_built` and
`paging_read_race` have counterexamples. The parts of the invariant:

* `CallOK`: whoever is in a call has the lock, so there is one call at a time and what its
  locals say of the shared state stays true between its steps.
* `TableOK`: the two flags of a mapped page exclude each other. Without it a page could
  be in neither device, and `Check` would not tell them apart.
* `AccOK`: at each label, what the locals say of the table and the lists: the entry
  saved at the beginning is still that of the page, the victim is in RAM, the list seen
  is the list.
* `RamOK`, `SwapOK`: no frame is twice in a list, in two entries, or in both, and each is
  somewhere. During a fault the frame that is changing hands is in neither and belongs to
  the call (`HasFrame`, `HasSwap`). Between `LinkPut` and `SetFpn` the swap frame is on the
  free list while the entry still names it: `Leaving` is that one exception.
* `FifoOK`: the list has exactly the pages in RAM, except the victim, the page that comes in
  and the stranded.
* `DataOK`: after each copy the two frames agree; needed for the refinement only.

The encodings enter through `PteProofs`: that `WithFpn` and `WithSwap` are decoded to
what was stored is used at `MapRam`, `SetSwap` and `SetFpn`.
TLC has checked this `IInv` on the instance of `paging_safety`, and `Ranges` with it; adding them to the
invariants of `MCPaging.cfg` repeats that.

`FirstInv` is for the code as built: both devices hand out frame 0 first, as `MEMPHY_format` lists
them (`AsFormatted`), `pte_set_swap` is as it is or as it should be, and all pages are those that `__kmalloc`
maps. The first of them gets frame 0 in RAM and an empty entry, so it is the only one that ever
faults. It is then also the one that was enlisted first, that is, its own victim, and the first
free swap frame is frame 0: `pg_getpage` copies RAM frame 0 to swap frame 0 and back, and the page is
where its entry says from then on (`VictimItself`, `FirstFrame`). `Young` is this page, `YoungFault`
what its fault knows, `SpareOK` the list of swap frames meanwhile, `PlacedOK` the RAM frames. Before
the fault nothing can have written the page, as every access begins with the fault; so it
has the value that both frames 0 have at the start. The swap device must not be empty
(`swpsize # 0`): without one the fault fails, its victim is off the list for good, and the next fault
picks another page. So `paging_as_built` needs a page that is not from `__kmalloc`, a region given
out by `__alloc`. TLC has checked that with `Given = {}`, the lists
`RamFormat` and `SwpFormat` of `MCPaging`, `KeepsPresent = TRUE` and the initial
condition `swpsize # 0` (7 668 states).

`PagingMemory` proves `Spec => ImplementsMemory` under `Sound` (`PagingIsMemory`) or under `AsFormatted` with
`swpsize # 0` (`FirstIsMemory`), and `Running = Thread` (the
system calls find every process; otherwise no page is copied and nothing can hold).
Every step of a fault maps to a stutter: `SetSwap` and `SetFpn` change the device that
`Content` looks into and `DataOK` says that the value there is the same; `SwapOut` and
`SwapIn` write frames that no entry names. `Access` maps to `Read` or `Write`, `GiveUp`
to `Fail`.

Only model-checked: liveness (temporal reasoning about fairness is not in reach of
the prover), that is `CallsReturn`, `LockReleased`, the end of every process and the
`next_slot` that returns, and the fairness part of `ImplementsClock`. Every invariant and
action property of the passing runs has a theorem.

## 5. Findings

* `os_idle_cpu` (`os.c:65`): the branch for an idle CPU skips the test of `done`, so
  a CPU without a process when the last one ends ticks for ever and `main` does not return.
* `os_as_built` (`sched.c:62`): `get_mlq_proc` returns with `queue_lock` held and
  `enqueue` adds nothing, against the expected outputs.
* `region_as_built` (`mm-vm.c:160`): `inc_vma_limit` reports success without moving
  the break, against the assumption of `__alloc`.
* `paging_as_built` (`mm64.c:132`): `pte_set_swap` leaves `PRESENT` set, by which `pg_getpage`
  tells that a page is in RAM; the victim of a page fault is never swapped in again and an
  access uses its swap offset as a frame.
* `paging_read_race` (`libmem.c:391`): `__read` takes no lock, and the frame may be given to
  another page before the byte is read.
* `kmem_pool_id` (`libmem.c:637`): the entry of the symbol table that a pool takes as
  temporary may be one of the ten that `libkmem_malloc` writes: pools 20 to 29 overwrite them.
* `kmem_cache_race` (`libmem.c:758`): `__kmem_cache_alloc` reads the break and moves it
  without a lock; another allocation in between is given the same addresses.

## 6. What is left

* The priorities of the scheduler, with the bound on waiting they are meant to give,
  once they are written; the search of `running_list` with them.
* Memories of their own for the processes, once `os.mm` is no longer shared.
* Mapping by `vm_map_ram` and `alloc_pages_range`, which are stubs, and with it the end of
  a process that returns its frames.

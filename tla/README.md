# A TLA+ verification of the PKE kernel

PKE is a proxy kernel for RISC-V: it runs a user program on the Spike simulator
and leaves input and output to the host. This directory models its memory
management, its processes, its traps, its locks, its calls to the host and the
way it boots, checks the models with TLC and proves their main invariants with
TLAPS.

The sources are under `src/work/`. They are in the middle of a rework, and some
of what they call is missing. The models take these calls as follows:

* `vmm.h` declares `page_walk` with three parameters and `vmm.c` defines it with
  four; both kinds of calls occur. A call means what its caller wants: the last
  argument is `alloc`.
* `get_page` and `get_page_ref` are defined nowhere: an increment and a read of
  the field `ref` of `page_t`.
* `atomic_binop`, `atomic_read` and `atomic_set` of `atomic.h` are defined
  nowhere: for an `int` the first is `atomic_binop_w`, the others are a plain
  read and a plain store.

## The system

| Part | Where | State | Operations |
|---|---|---|---|
| Spinlocks | `kernel/sync_utils.c`, `spike_interface/atomic.h` | a lock word | lock, unlock |
| Buddy system | `kernel/pmm.c` | `pages[]`, `free_area[]` | `buddy_system_init`, `buddy_alloc`, `buddy_split`, `__buddy_merge_inner` |
| Page caches | `kernel/pmm.c` | `pcpu_caches[]` | `pmm_init`, `alloc_page`, `pfree` |
| Page tables | `kernel/vmm.c` | three levels of tables | `page_walk`, `map_pages`, `user_vm_unmap`, `kern_vm_init` |
| Processes | `kernel/process.c` | `procs[]`, `current` | `alloc_process`, `do_fork`, `free_process`, `switch_to` |
| Scheduler | `kernel/sched.c` | `ready_queue_head`, `queue_next` | `insert_to_ready_queue`, `schedule` |
| Traps | `kernel/strap_vector.S`, `strap.c`, `util/load_store.S`, `kernel/machine/mtrap*` | registers, control registers, trapframes | `smode_trap_vector`, `smode_trap_handler`, `return_to_user`, `mtrapvec` |
| System calls, faults | `kernel/syscall.c`, `kernel/strap.c` | heap managers, leaf entries | exit, fork, yield, page allocation, copy-on-write fault |
| Host calls | `spike_interface/spike_utils.c`, `spike_htif.c` | `magic_mem`, `tohost`, `fromhost`, `htif_console_buf` | `frontend_syscall`, `htif_console_putchar`, `htif_console_getchar`, `htif_poweroff` |
| Device tree scan | `spike_interface/dts_parse.c`, `spike_memory.c`, `spike_htif.c` | `htif`, `g_mem_size`, the activations of the scan | `fdt_scan`, `query_htif`, `query_mem` |
| Host files | `spike_interface/spike_file.c` | `spike_files[]`, `spike_fds[]` | `spike_file_init`, open, close |
| ELF loader | `kernel/elf.c` | `mapped_info`, the first page table | `load_bincode_from_host_elf`, `elf_init`, `elf_load` |
| Boot | `kernel/machine/minit.c`, `kernel/kernel.c` | machine-mode registers, the stage | `m_start`, `s_start` |

How they interact: the caches buy pages from the buddy system under its
spinlock; page tables, processes and heaps take their pages from the caches;
`do_fork` shares the pages of a process copy-on-write through the leaf entries
and the reference counts; the fault handler undoes the sharing; `schedule()`
decides who runs next. A trap brings a program into the kernel and `switch_to`
brings one back, and the machine timer may tick at any instruction. Everything
the kernel prints or reads goes through one buffer and two nested locks to the
host. Before all that, booting sets up the host files, reads the device tree,
sizes the memory, enters supervisor mode and loads one program. The kernel runs
with interrupts off and, as configured (`NCPU` is 1), on one hart; the
allocator, the page tables and the host calls are written for several.

What is hard about it: one spinlock is not reentrant and the other counts
instead of swapping; the allocator's marks are trusted by later merges; a
recycled page becomes a table; the count of a shared page is kept by one file
and read by another; a trap is entered with the registers of the program, `tp`
and `t6` among them; nothing is ever given back at exit.

## Modules

| Module | Models | One step is |
|---|---|---|
| `Mutex` | what callers expect of a lock (abstract) | request, enter, leave |
| `SpinLock` | both spinlocks, refines `Mutex` | one access to the lock word |
| `Htif` | host calls, console and the host; extends `SpinLock` | one access to a shared word |
| `FramePool` | what callers expect of the buddy system (abstract) | giving out or taking back a block |
| `Buddy` | the buddy system on one hart, refines `FramePool` | one turn of a loop |
| `PcpuCache` | caches and `pmm_init`; the buddy system is a set of pages, as `FramePool` is for order 0 | a critical section or an access to the cache |
| `PageTable` | `page_walk` with its compare-and-swap, mapping and unmapping | an access that another hart can see |
| `Process` | pool, scheduler, exit, fork | one trap, from entry to the return to user mode |
| `Traps` | the inside of a trap and the linked list, refines `Process` | a few instructions between which the timer may tick |
| `Memory` | address spaces, heaps, copy-on-write; composed with `Process` through `INSTANCE` | one trap or one store |
| `DeviceTree` | the scan of the device tree by both queries | one token |
| `Loader` | the file table and the ELF loader | one call, or one program header |
| `Boot` | `m_start` to the first program; composes `DeviceTree`, `Loader` and `PcpuCache` | a statement of `m_start`, or one step of a part |
| `MCBuddy`, `MCHtif`, `MCPageTable`, `MCMemory`, `MCBoot` | constants and symmetry for TLC | |
| `Htif_proofs` (with the lock), `Buddy_proofs`, `PageTable_proofs`, `Traps_proofs` (with the scheduler), `Memory_proofs`, `DeviceTree_proofs`, `Boot_proofs`, `BootScan_proofs` | theorems | |

Variables keep the names of the sources. What is abstracted, and why it is
enough:

* A lock word has `Word` values, and a try of the lock of `atomic.h` counts it
  down by one (`amoadd.w` of -1). `Htif` has the outer lock of
  `frontend_syscall` step by step; `htif_lock` is the same code and is taken for
  the mutex that it implements.
* In `Htif`, `magic_mem` keeps whose request it holds and whether it was
  answered. A word of the interface is a device, a command and a payload. The
  host takes a word, executes it and answers in its own time.
* A free list of the buddy system is a set: `__list_pop` takes the first block,
  the model any. The fields `alloc`, `cpu_id`, `ref` and `color` are written
  but not read by the buddy system.
* In `Buddy`, the entry behind `pages[]` may read as anything: the loop stops,
  or it goes on and the state becomes `"wild"`, where nothing more is said.
* In `PcpuCache`, the word behind the last slot is `count`, as in the struct. A
  count overwritten by a pointer is `Junk`.
* In `PageTable`, an entry is a frame or `Invalid`. A new table contains what
  was left in the page: one old value in every slot.
* In `Traps`, the registers are `a0`, `tp`, `t6`, those that the macros of
  `load_store.S` move early and those they move late. Machine mode is one step,
  since it cannot be interrupted. One tick may be pending. After a tick the next
  return to user mode, or the next interrupt in the kernel, ends in a panic of
  the timer handler; registers that are saved behind it are not compared. That
  the kernel's own code may lose `t6` to a tick is not followed.
* `alloc_page` and `pfree` need the number of the hart in `tp`. In a child `tp`
  is an address (see the run `trap_tp`). What the kernel does after it has used
  this address as an index is not followed: the machine is `"lost"` in
  `Process`, `Traps` and `Memory`, and only the first process forks, allocates,
  frees or copies. `TrapsTpOfFirst` proves that this is where the line lies.
* In `Memory`, a leaf entry is a frame and one of `W`, `COW`, `R`. The allocator
  hands out any page it has, and is a count per frame because `pfree` may be
  given the same page twice. A program stores anywhere in its stack, its data and
  the addresses of the heap, mapped or not, and calls `sys_user_free_page`, which
  checks nothing, with any page of the heap: one it holds, one it has returned
  already or one it was never given. Addresses outside the heap are not passed,
  since where the segments lie is up to a linker script that is not in the
  repository. The frames that a process needs inside the kernel are left out;
  nobody shares or frees them.
* In `DeviceTree`, a token is one element, however many words it takes, and a
  cell holds few values; the 64 bits of an address stay two cells wide.
* In `Loader`, a program header keeps its type, page, flags, whether its sizes
  pass the checks and whether it begins in the middle of a page. The host may
  fail at any read. Bytes are left out.
* In `Boot`, the page tables that booting builds are counted, not written.
* `view` and `strayed` in `Memory`, `ctx` in `Traps`, `space` in `PageTable`, `held` in
  `Buddy`, `out` in `PcpuCache`, and `served`, `put`, `shown`, `got` in `Htif`
  record what callers know or did. The code has no such variables. `strayed` says
  that a process, or the one it was forked from before the fork, has returned a
  page that it did not hold.
* Operators whose comment describes a fault in an operation ("A swap that does
  not look at ...") belong to no specification. Each stands for a mistake that
  one of the properties notices.

## Runs

Runs that pass:

| Run | Instance | Shows |
|---|---|---|
| `htif` | 2 harts, a lock word of 3 values, 2 typed characters | `MutualExclusion`, `ImplementsMutex`; every call gets its own answer (`AnswerIsMine`); `AssertsHold`; no character is lost (`ConsoleKept`); calls end (`SomeCallReturns`) |
| `buddy` | 14 frames, the 9 from frame 5 managed, orders 0 to 2 | `NoOverlap`, `NoLeak`, `MarksTruthful` at every turn of every loop; `Aligned`; `Coalesced` and `Restored` between calls; `BeyondOnlyInLastBlock`; `CallsReturn`; the refinement `ImplementsPool` |
| `traps` | 4 process structures | `ContextKept`, `HandlerIsCurrents` wherever the timer ticks; `ListIsQueue`; the refinement `ImplementsProcess`; `SchedulerConsistent`, `ScheduleChecksHold`, `RunsInForkOrder`, `ParentEndedFirst`; `EveryReadyRuns`, `LoadFaultEnds` |
| `page_table` | 1 hart, 6 frames, 3 pages in 2 subtrees | `TranslationExact`, `OneUse`, `PanicOnlyOnRemap` |
| `memory` | 3 processes, heaps of 2 pages, 5 frames | `HeapListSound`, `NoStuckPage`, `RefCoversSharers`, `HeapsComplete` |
| `boot` | 1,813 trees, files of up to 2 program headers, a cache of 15 pages | `EntersSupervisor`; `BootPagesInOnePlace`; `HtifFound`, `MemSizeRight` against the structure of the tree; `TableMatchesRegions`, `EverySegmentLoaded`; `StdFilesKept`; `BootEnds` |

Runs where the code does not do what a comment says; `PROJECT.json` quotes each:

| Run | Property | What happens |
|---|---|---|
| `pcpu_double` | `AllocReturnsFreePage` | `objs[++count]` in `pfree` skips a slot whose old page is handed out again |
| `pcpu_refill` | `RefillReturns` | `alloc_page` calls `buddy_alloc` with the lock held |
| `page_table_race` | `MappingsKept` | a table is cleared after it was published |
| `memory_isolation` | `Isolated` | two sharers are a count of 1, and the test is `> 1` |
| `trap_regs` | `T6Kept` | the vector overwrites `t6` before it saves the registers |
| `trap_tp` | `TpHoldsHartid` | a child enters the kernel with an address in `tp`, where `alloc_page` expects the hart |

`RefCoversSharers` and `memory_isolation` belong together: the count of a frame
is never smaller than the number of its sharers minus one, which is what
counting from 0 gives; the test in the handler expects a count from 1.

`pcpu_refill` and `BootEnds` belong together: booting ends, or it stands in the
refill with the whole cache used. With the sizes in the sources it always stands
there: `kern_vm_init` maps 128 MB by pages of 4 KB, which takes 66 pages for
tables, and the cache has 32. The models of what runs after booting are about a
kernel whose cache suffices.

The models show more of what the code does, without a run of its own:

* When the managed memory does not end at a multiple of the largest block, the
  merge test may read the entry behind `pages[]`. `BeyondOnlyInLastBlock` says
  how far this can go.
* `pfree` one slot below the top stores its page over `count` (`Junk`).
* `spinlock_trylock` is named after a swap of -1 but adds -1. It still excludes,
  because a hart reads the word before each try: at most one failed try per hart
  happens while the lock is held, and there are fewer harts than values.
* A timer interrupt between the writes of `mepc` and `mstatus` and the `mret` of
  `m_start` would overwrite both. Only `TIMER_INTERVAL` prevents it.
* `pmm_init` checks that the memory is not smaller than the kernel; with nothing
  behind the kernel it panics in its first `buddy_alloc`.
* A zombie keeps its pages, as a comment in `process.c` says; one in `process.h`
  says the opposite.
* `do_fork` shares the heap as far as `npages` says and copies the heap manager,
  but not `npages`. The child of a child would miss heap pages that its manager
  lists as given; no child gets through a fork, so `HeapsComplete` holds.
* The stack page that `alloc_process` gives the child is replaced in its page
  table by `do_fork` and never freed.
* `do_fork` has no case for the data segment, so a child has no data page.
* Nothing bounds a heap, or the list of reclaimed pages, by `MAX_HEAP_PAGES`.
* A page that is returned twice is listed twice, and the second of two later
  allocations panics in `map_pages`; a page returned from above the heap fails the
  assertion in `sys_user_allocate_page`. `MallocPanic` has both. So the part of
  `HeapListSound` about the list is stated for processes that have not strayed;
  other processes may have.
* The copying fault gives the old page to `pfree`, which ignores the count, so a
  page can be free while other processes map it.
* A load from an unmapped address is retried until the timer ticks, whose
  handler panics (`LoadFaultEnds`).
* A node of the device tree without cell counts finds those of an elder sibling,
  since `fdt_scan_helper` sets the defaults once for all children. `MemSizeRight`
  excludes the trees where this reaches the parent of a memory node (`PlainCells`).
* `mem_done` takes the address behind a range for a part of it, and its sums have
  64 bits. `MemSizeRight` excludes a kernel at the end of a range and ranges that
  reach beyond the last address (`PlainRanges`).
* The loader's close only lowers the count of the program's file from 3 to 2: the
  host file stays open. A failed open keeps its slot in the same way.
* A segment that begins in the middle of a page maps two pages, the second onto
  a frame that nobody allocated. `TableMatchesRegions` is about segments that
  begin at pages, like those of the programs in `obj/`.

### Bounds

* `htif`: two harts suffice for one that waits and one inside; `Word = 3` is the
  smallest word for which the assumption of the lock holds, so the count comes as
  near to 0 as it can. Two typed characters can be in the buffer and in
  `fromhost` together.
* `buddy`: orders 0 to 2 are the smallest choice in which a merge can go up
  twice and a split go down twice; the managed range starts and ends in the
  middle of a block, so blocks of every order are carved at both ends.
* `pcpu_*`: the size of a cache and of a batch only shift when a limit is hit.
  Three slots and a batch of two reach the full, the empty and the half-full
  cache.
* `traps`: with four structures the queue is long enough for the loop of
  `insert_to_ready_queue` to turn, and a fork finds none left.
* `page_table`: six frames hold the tables of both subtrees and two pages, and
  are reused in every role.
* `memory`: the first process and two children, so that a frame has several
  sharers besides the writer. `HeapBound` bounds how far a heap grows, and
  `MAX_HEAP_PAGES`, here 2, the list of reclaimed pages: two entries suffice to
  list a page twice. The store behind the end of the array, which the code would
  make next, is not followed. Contents
  matter only in `memory_isolation`, so `memory` has one `Value`.
* `boot`: a root with two entries, each possibly a bus, is the smallest tree with
  siblings, children and a parent that is not the root. Some ranges end at the
  kernel, and some trees have two roots, so that both hypotheses of `MemSizeRight`
  fail for some. Two headers suffice for a collision, and the
  stack page for another. `MAX_REGIONS` is 6 (256 in the code), so that two segments
  fill the page of regions exactly. Fifteen pages suffice for some programs and not for
  others. One tick is followed.
* Symmetry is used on frames only, and only in runs without liveness.

Deadlock is not checked, since every system here may stop: in a panic, at a
shutdown, or, in `pcpu_refill` and `boot`, in the refill.

### Fairness

* `Htif`: a hart goes on with the call it has begun, and the host with the words
  it was given (weak fairness of each). Nobody has to begin a call, and nobody
  has to type. A hart may be overtaken for ever at a spinlock, so only *some*
  call is said to return.
* `Buddy`: a call under way goes on, since interrupts are off.
* `PcpuCache`: a hart inside the allocator goes on; calling it is its choice.
* `Boot`: the boot code runs with nothing to wait for.
* `Traps`: the kernel goes on, and a load that faults is executed again. A
  program that is not stuck calls exit in the end: strong fairness, since a
  pending tick disables the call for a while. A program may do anything finitely
  often before. Without a timer that switches (its handler panics) nothing weaker
  lets another process run. `LoadFaultEnds` states the fairness of the timer
  itself.

## Proofs

All theorems hold for every value of the constants that the assumptions of the
module allow. They are safety properties. Recursion in the modules is by
recursive functions, which the provers can unfold.

### Assumptions

Each is evaluated by TLC on the instances of the runs. Those that say more than
the type of a constant:

* `SpinLock`: fewer harts than a lock word has values.
* `Buddy`: `Pow2` starts at 1 and doubles.
* `Memory`: the frames of the code and the data are not frames of the
  allocator's model. `elf_load` takes them once and nothing gives them back.
* `Boot`: `TIMER_INTERVAL` is longer than the two statements between the set-up
  of the timer and `mret`; the cache has at least one slot.
* `Loader`: a segment begins below the last page of the address space and the
  stack page lies inside it; the four regions every process has and those of the
  segments fit into the page of regions (`PhBound + 4 <= MAX_REGIONS`), so that
  the loop of `elf_load` that looks for a free region finds one.
* `DeviceTree`: the address of the kernel is a number, and the trees are well
  formed. A tree ends with its only END, never ends more nodes than it began,
  gives an address at least one cell, and has memory below the root only.
* The theorems of `PageTable` are about one hart (`CPU = {h}`) in the hypothesis
  of each. With two they are false: see `page_table_race`.

### What is proved

`Htif_proofs`, the lock. `SpinLockExcludes` is `Spec => []MutualExclusion` for
any set of harts with fewer members than the lock word has values, for both
versions of the lock. The inductive invariant `LockInv` counts: the harts that
are about to try are those that may still move the word, and a held word is
never so near to 0 that they could bring it there. `SpinLockImplementsMutex`
shows the refinement: a failed try and a read are stuttering steps of the mutex.
TLC runs the version of `atomic.h` inside `htif`; the version of `sync_utils.c`
is only proved.

`Htif_proofs`, the host calls. Every step of a call is a step of its lock or
leaves it alone, so `HtifLockExcludes` and `HtifImplementsMutex` follow. `HtifAnswerIsMine` and `HtifAssertsHold` rest on `HtifInv`: where each
hart stands agrees with both locks (`PlacesAgree`), and a request is in exactly
one place, from the buffer over `tohost`, the host, its queue and `fromhost`
back to the hart that waits (`OneRequest`). `HtifConsoleKept` adds `ConsoleInv`:
what was put is displayed but for a character in `tohost`, and what was typed
was returned but for one character, which is in one of a few places (`Stage`).
That there is only one is what the buffer's value 0 ("asked") guarantees.

`Buddy_proofs`. For every memory size, start of the managed range and number of
orders. `BuddyTypeOK`, `BuddyNoOverlap`, `BuddyNoLeak` and `BuddyMarksTruthful`
rest on `IInv`, since none is inductive alone. It joins them with `Inside` (no
block leaves the managed range) and `LoopInv` (what holds in the middle of a
loop: the list at the current level of a split is not empty, the block carried
by a merge is marked neither free nor head and has its order on record). The
step of a merge is the heart: the test reads only marks, so the marks must imply
that the buddy is a whole free block, and the two must be adjacent, which
`BuddyFacts` derives from the arithmetic of the xor. On top of `IInv`:

* `BuddyAligned`, from `AlignedInv`: the halves of an aligned block are aligned
  blocks of the order below, and the lower of two buddies is aligned to the
  order above.
* `BuddyCoalesced`, from `PairInv`: two buddies are never on one list, but for
  the two halves that a split has just made. While carving, every block is as
  large as fits (`LargestCarved`); while splitting, the orders between the
  request and the level are empty and a pair is all that its list holds
  (`OnePair`).
* `BuddyRestored`: with nothing handed out, the lists are those that the
  initialisation made. No step argument shows this. If some listed block were
  smaller than the natural block around it, its buddy would consist of listed
  blocks, hence contain a pair of buddies or be listed itself; `NoneLeft` turns
  this into a descent over the orders. It is stated for any block that no caller
  holds a frame of (`Vacant`), not only for an allocator with nothing handed out.
* `BuddyImplementsPool`: a caller meets the abstract pool. Only `Pop`, `Free` and
  the panic are steps of it. A popped block was available because listed and
  held blocks are apart. That a panic means that no aligned block of the order is
  free is `NoneVacant`: such a block would have a smaller listed block at its
  start, whose buddy is vacant too, and the descent of `NoneLeft` applies again.
* `BuddyBeyondOnlyInLastBlock`, from `WildInv`: an entry that a merge reads
  behind `pages[]` lies in the largest block that holds the last frame.

`PageTable_proofs`. `PageTableTranslationExact`, `PageTableOneUse` and
`PageTablePanicOnlyOnRemap`, from `PtInv`. It says what the tree will be when
the call under way has cleared the table it has just installed (`CleanMem`): in
that tree every frame is linked at most once (`LinkedOnce`), each frame is free,
linked, in the hands of the call or waiting for its compare-and-swap (`UseInv`),
the table of the walk is the one on the path to its page (`WalkInv`), and a
lookup finds what `space` says (`FoundInv`).

`Traps_proofs`, about the scheduler. For every `NPROC`:
`ProcessSchedulerConsistent`,
`ProcessScheduleChecksHold`, `ProcessRunsInForkOrder` and
`ProcessParentEndedFirst`. The inductive invariant adds that structures are
taken in the order of their pids, so a new child is larger than everything in
the queue.

`Traps_proofs`, about the trap code. For every `NPROC`, along three invariants
that are proved together. `ListInv` ties the list and the cursor of a walk to the queue and says
that the kernel runs with interrupts off; it gives `TrapsListIsQueue`, the
refinement `TrapsImplementProcess` and, with the invariant of `Process`,
`TrapsScheduleRight`. `TrapInv` says at each place of the vector, the handler
and the return where the program's registers are (in the hart, in the frame, or
half in each); it gives `TrapsHandlerIsCurrents` and `TrapsContextKept`. `TpInv`
does the same for `tp` and gives `TrapsTpOfFirst`: the handler finds the hart in
`tp` exactly when the first process runs.

`Memory_proofs`. For any number of processes, frames and heap pages:
`MemoryHeapListSound` and `MemoryNoStuckPage`, inductive together with the types
(`MemInv`). Nothing is mapped from the top of a heap on, whatever is freed; the
list of a process that has returned only pages it held is right, whatever other
processes return. `MemoryMallocMaps` draws the consequence: for such a process
`sys_user_allocate_page` passes its assertion and `map_pages`. Then
`MemoryHeapsComplete`. The last needs `FullInv`: a heap maps
every page below its top that its list does not name, and `npages` of a process
that can fork is the size of its heap. `MemoryRefCoversSharers` needs `RefInv`,
which counts more than the property does: the times a frame is in the pool and
the entries that map it are together at most its count plus one. The pool has to
be in it, since the copying fault frees a page that others still map.

`DeviceTree_proofs` has the lemmas about the scan. `Boot_proofs` has the theorems
about the hart, the files and the loader, and the lemmas about the cache;
`BootScan_proofs` has the theorems that rest on the scan (`BootHtifFound`,
`BootMemSizeRight`, and `BootOnePlace`, which needs the size that it finds):

* `BootEntersSupervisor`, from `HartInv`: what the statements of `m_start` before
  the next one have done. The timer is set up too late for a tick before `mret`.
* `BootStdFilesKept`, from `FilesInv`: no descriptor but the three is in use, and
  the file of the program lies in a slot behind theirs.
* `BootTableMatchesRegions` and `BootEverySegmentLoaded`, from `LoadInv`: regions
  and mapped pages correspond after every header, and every header behind the
  loop is in its frame. `RoomInv` says that a region is left for every header to
  come, so that the loop over the regions stops at a free one.
* `BootHtifFound`, from `ScanInv` and `HtifInv`: there is one activation for
  every open node and one more; the shared record tells of the node whose
  properties are being read, `htif` of those before it.
* `BootMemSizeRight`, from `MemInv` on top of `ScanInv`. The property compares a
  scan, which keeps one record and a stack of cell counts, with the tree read by
  its structure. So the invariant says what the stack means: at every level up to
  the top a node is open (`PathInv`), and an activation holds the counts of the
  youngest child that has any (`CellsRight`), which in a plain tree are those
  of the parent (`ParentCells`). The record tells of the node whose properties
  are being read (`RecordOf`), and the size found so far comes from the tree, or
  none of the nodes reported so far has a range around the kernel (`SizeOver`).
  `RangesTell` connects the loop of `mem_done` with the ranges of a node.
* `BootOnePlace` (`BootPagesInOnePlace`), from `CacheInv`: every page is in the
  buddy system, in a slot below the top, in the hands of `pmm_init`, or given
  out, and in one of these only.

Facts about numbers and recursive functions for every argument are proved
through the least counterexample (`LeastOf` in `Buddy_proofs`, `MinimumOf` in
`DeviceTree_proofs`), because the library's induction theorems have an operator
as a parameter, which the provers cannot instantiate.

### Only model-checked

Liveness under fairness is beyond the prover: `SomeCallReturns`, `CallsReturn`,
`EveryReadyRuns`, `LoadFaultEnds` and `BootEnds` are checked by TLC alone. Every
invariant and every refinement that a passing run checks is also proved.

## Not modelled

* Several harts in the buddy system. `buddy_alloc` clears `is_free` after it has
  released the lock; `NCPU` is 1 and nothing starts a second hart.
* What happens after a child has used its `tp` as the number of a hart, and after
  `pfree` has stored a page over `count`.
* The switch of `satp` and the translation buffer: the trap code and the frames
  are mapped in both address spaces.
* A hart without supervisor mode, and the 32-bit variants of `spike_htif.c`.
* The atomics that nothing calls (`atomic_add`, `atomic_cas_w`, the `irqsave`
  locks).
* The string and format helpers, and what messages say.
* The bytes that the ELF loader reads, and the calls of `spike_file.c` that the
  kernel does not make.
* The semaphore calls return 0 and change nothing; yield, timer and round robin
  panic, and are modelled as such.

-------------------------------- MODULE Boot --------------------------------
(***************************************************************************)
(* The way from m_start (minit.c) over s_start (kernel.c) to the first     *)
(* user instruction, on hart 0: the file table is set up, the device tree  *)
(* scanned, the machine-mode registers are written and mret taken; then    *)
(* pmm_init fills the page cache of the hart, kern_vm_init, alloc_process  *)
(* and the loader take pages from it, and the program is loaded.           *)
(*                                                                         *)
(* Sizes are in units of UNIT frames.  Page tables are counted, not        *)
(* written: PageTable has what page_walk stores in them.                   *)
(***************************************************************************)
EXTENDS DeviceTree, Loader

CONSTANTS PKE_MAX_ALLOWABLE_RAM, KernelSize, UNIT,
          PCPU_CACHE_SIZE,
          KernPages,       \* pages of the kernel's direct mapping
          Fan,             \* entries of a page table
          TIMER_INTERVAL   \* statements of m_start that fit before a tick

\* A tick is further away than the two statements left when it is set up; the
\* cache has room for a page.
ASSUME BootAssumption ==
    /\ TIMER_INTERVAL \in Nat /\ TIMER_INTERVAL > 2
    /\ PCPU_CACHE_SIZE \in Nat \ {0} /\ UNIT \in Nat
    /\ PKE_MAX_ALLOWABLE_RAM \in Nat /\ KernelSize \in Nat

VARIABLES hart,            \* see HartInit
          taken,           \* pages that the call at hand has got so far
          objs, count, buddy, locked, cpu, got, left, fill, out   \* PcpuCache

Cache == INSTANCE PcpuCache WITH
            NCPU <- 1, CACHE_SIZE <- PCPU_CACHE_SIZE, BATCH <- PCPU_CACHE_SIZE \div 2,
            Page <- Nat, NoPage <- NoFrame, pc <- cpu

cacheVars == <<objs, count, buddy, locked, cpu, got, left, fill, out>>
vars == <<scanVars, loadVars, hart, taken, cacheVars>>

\* Machine mode with interrupts off; stmt is the next statement of m_start,
\* togo the time to the next tick.
HartInit ==
    hart = [mode |-> "M", stmt |-> 1, mepc |-> "none", MPP |-> "M", mtvec |-> "none",
            MIE |-> FALSE, MTIE |-> FALSE, deleg |-> FALSE, sie |-> FALSE,
            togo |-> TIMER_INTERVAL, SSIP |-> FALSE]

CacheInit ==
    /\ objs = [c \in {0} |-> [s \in 0 .. PCPU_CACHE_SIZE - 1 |-> NoFrame]]
    /\ count = [c \in {0} |-> 0] /\ buddy = {} /\ locked = FALSE
    /\ cpu = [c \in {0} |-> "off"] /\ got = [c \in {0} |-> NoFrame]
    /\ left = [c \in {0} |-> 0] /\ fill = 0 /\ out = [p \in {} |-> 0]

Init == ScanInit /\ LoadInit /\ HartInit /\ taken = 0 /\ CacheInit
-----------------------------------------------------------------------------
\* m_start calls spike_file_init first, then init_dtb.
SetUpFiles == SpikeFileInit /\ UNCHANGED <<scanVars, hart, taken, cacheVars>>
InitDtb    == pc = "booting" /\ ScanNext /\ UNCHANGED <<loadVars, hart, taken, cacheVars>>

\* timerinit without the interval, and with it.
DueAtOnce(h) == [h EXCEPT !.togo = 0]
Due(h)       == [h EXCEPT !.togo = TIMER_INTERVAL]

\* The statements of m_start behind init_dtb: mstatus.MPP, mepc, mtvec,
\* mstatus.MIE, delegate_traps, sie, the two of timerinit, and mret.
Statements(h) ==
    <<[h EXCEPT !.MPP = "S"],
      [h EXCEPT !.mepc = "s_start"],
      [h EXCEPT !.mtvec = "mtrapvec"],
      [h EXCEPT !.MIE = TRUE],
      [h EXCEPT !.deleg = TRUE],
      [h EXCEPT !.sie = TRUE],
      Due(h),
      [h EXCEPT !.MTIE = TRUE],
      [h EXCEPT !.mode = h.MPP]>>

Pending == hart.MTIE /\ hart.togo = 0

\* One statement, during which time may pass.  A pending tick comes first.
MStart ==
    /\ pc = "booting" /\ query \in {"found", "used"} /\ hart.mode = "M"
    /\ ~(Pending /\ hart.MIE)
    /\ \E t \in {0, 1} :
         hart' = [Statements(hart)[hart.stmt] EXCEPT
                     !.stmt = @ + 1, !.togo = IF t < @ THEN @ - t ELSE 0]
    /\ query' = "used" /\ fdt' = <<>> /\ lex' = 1
    /\ UNCHANGED <<stack, scan, htif, g_mem_size, loadVars, taken, cacheVars>>

\* A machine timer interrupt: mtrapvec, handle_timer, mret.  The trap puts the
\* interrupted place and mode into mepc and MPP, and its mret leaves U in MPP.
\* In supervisor mode it comes at any time; one tick is followed.
MTimer ==
    /\ hart.MTIE /\ ~hart.SSIP
    /\ hart.mode = "M" => Pending /\ hart.MIE
    /\ hart' = [hart EXCEPT !.mepc = "interrupted", !.MPP = "U",
                            !.togo = TIMER_INTERVAL, !.SSIP = TRUE]
    /\ UNCHANGED <<scanVars, loadVars, taken, cacheVars>>
-----------------------------------------------------------------------------
Goes(p) == /\ pc' = p
           /\ UNCHANGED <<kfd, refcnt, spike_fds, elf, i, f, mapped_info,
                          total_mapped_region, pt>>

\* pmm_init limits the memory to what it manages; what lies behind the kernel
\* goes to the buddy system.
PmmInit ==
    /\ pc = "booting" /\ hart.mode = "S"
    /\ g_mem_size' = IF PKE_MAX_ALLOWABLE_RAM < g_mem_size
                     THEN PKE_MAX_ALLOWABLE_RAM ELSE g_mem_size
    /\ IF g_mem_size' < KernelSize
       THEN LoadPanic /\ UNCHANGED <<buddy, out, cpu>>
       ELSE /\ Goes("pmm_init")
            /\ buddy' = 1 .. (g_mem_size' - KernelSize) * UNIT
            /\ out' = [p \in buddy' |-> 0]
            /\ cpu' = [cpu EXCEPT ![0] = "call"]
    /\ UNCHANGED <<fdt, query, lex, stack, scan, htif, hart, taken,
                   objs, count, locked, got, left, fill>>

\* Its loop that fills the cache.  Which frame comes first makes no difference.
FillCache ==
    /\ pc = "pmm_init"
    /\ \/ Cache!BuddyAlloc(0) \/ Cache!BuddyPanic(0) \/ Cache!BootStore(0)
       \/ Cache!BuddyPop(0) /\ \A p \in buddy : got'[0] <= p
    /\ UNCHANGED <<scanVars, loadVars, hart, taken>>

PmmInitDone ==
    /\ pc = "pmm_init" /\ ~Cache!Booting
    /\ Goes("kern_vm_init")
    /\ UNCHANGED <<scanVars, hart, taken, cacheVars>>
-----------------------------------------------------------------------------
\* The tables below the root that a walk to the pages V passes, by level.
Tables(V) == {<<l, v \div (IF l = 0 THEN Fan ELSE Fan * Fan)>> : l \in 0 .. 1, v \in V}

\* What the page table of the first process maps.
UserPages == {v \in Pages : pt[v] # NoFrame} \cup {LastPage + 1, LastPage + 2}

\* The pages that the call at hand takes with alloc_page: the root and the
\* tables of the kernel; five pages and the tables of a process; a segment and
\* the tables it needs in addition.
Segment == pc = "elf_load" /\ i <= Len(elf) /\ Ph.load /\ SizesOK(Ph)
Cost ==
    CASE pc = "kern_vm_init"  -> 1 + Cardinality(Tables(0 .. KernPages - 1))
      [] pc = "alloc_process" -> 5 + Cardinality(Tables({StackPage, LastPage + 1, LastPage + 2}))
      [] Segment /\ Mappable(Ph) ->
            1 + Cardinality(Tables(PagesOf(Ph)) \ Tables(UserPages))
      [] Segment /\ ~Mappable(Ph) -> 1
      [] OTHER -> 0

\* alloc_page.
TakePage ==
    /\ taken < Cost
    /\ Cache!AllocPage(0) \/ Cache!Wholesale(0) \/ Cache!Retail(0)
    /\ taken' = taken + (IF cpu[0] = "retail" THEN 1 ELSE 0)
    /\ UNCHANGED <<scanVars, loadVars, hart>>

\* Everything the call takes is there.
Paid == taken = Cost /\ taken' = 0 /\ UNCHANGED <<scanVars, hart, cacheVars>>

KernVmInit == pc = "kern_vm_init" /\ Paid /\ Goes("alloc_process")

LoadUserProgram ==
    /\ pc = "alloc_process" /\ Paid
    /\ AllocProcess /\ pc' = "load_program"
    /\ UNCHANGED <<kfd, refcnt, spike_fds, elf, i, f>>

\* A call of the loader; a header that cannot be read stops it before it takes
\* a page.
LoadProgram == LoadNext /\ Paid
LoadStops ==
    /\ taken = 0 /\ cpu[0] = "idle" /\ Cost > 0
    /\ SegmentPanic
    /\ UNCHANGED <<scanVars, hart, taken, cacheVars>>

Next ==
    \/ SetUpFiles \/ InitDtb \/ MStart \/ MTimer
    \/ PmmInit \/ FillCache \/ PmmInitDone
    \/ TakePage \/ KernVmInit \/ LoadUserProgram \/ LoadProgram \/ LoadStops

\* The boot code runs with nothing to wait for.
Spec == Init /\ [][Next]_vars /\ WF_vars(Next)
-----------------------------------------------------------------------------
\* mret leaves machine mode for s_start in supervisor mode, with the machine
\* trap vector set and traps delegated: no tick comes between the writes of
\* mepc and MPP and the mret that uses them, since m_start starts the timer
\* last.
EntersSupervisor ==
    hart.mode # "M" =>
       hart.mode = "S" /\ hart.mtvec = "mtrapvec" /\ hart.deleg /\ hart.sie

\* Pages are in one place each while the kernel boots: in the buddy system, in
\* the cache, on their way into it, or in use as a table, a frame or a stack.
BootPagesInOnePlace == Cache!OnePlace

\* alloc_page waits for ever in its refill, with every page of the cache used.
RefillStuck == cpu[0] = "call" /\ locked /\ Cardinality({p \in DOMAIN out : out[p] = 1}) = PCPU_CACHE_SIZE

\* Booting ends: the program is loaded, the kernel has stopped with a message,
\* or it has used up the page cache that pmm_init filled and stands in the
\* refill of alloc_page.  No tree makes fdt_scan_helper walk in circles, and
\* no file elf_load.
BootEnds ==
    <>(query = "panic" \/ cpu[0] = "panic" \/ pc \in {"loaded", "panic"} \/ RefillStuck)
=============================================================================

------------------------------- MODULE Memory -------------------------------
(***************************************************************************)
(* User memory: the address spaces that alloc_process, elf_load and        *)
(* do_fork build, the heap calls of kernel/syscall.c, and the copy-on-write *)
(* fault of kernel/strap.c, composed with the processes of module Process. *)
(*                                                                         *)
(* A process has one code page, one data page, one stack page and a heap.  *)
(* pte[p][va] is the leaf entry: the frame and PTE_W or PTE_COW.  A store  *)
(* that faults is retried after the handler, so Fault and Store are two    *)
(* steps.  The frames a process needs for itself in the kernel (trapframe, *)
(* tables, kernel stack) are never shared nor freed and are left out.      *)
(*                                                                         *)
(* get_page and get_page_ref are called but defined nowhere in the sources; *)
(* they are taken to count and to read the field ref of page_t.            *)
(***************************************************************************)
EXTENDS Integers, Sequences, FiniteSets

CONSTANTS NPROC,
          Frame,            \* frames for stack and heap pages
          CodeFrame, DataFrame,   \* frames elf_load fills, never freed
          NoFrame,
          Value,            \* what a page can contain
          HeapBound,        \* bound on the pages a heap grows to
          MAX_HEAP_PAGES    \* length of free_pages_address[]

ASSUME MemoryAssumption ==
    /\ NPROC \in Nat \ {0} /\ HeapBound \in Nat /\ MAX_HEAP_PAGES \in Nat
    /\ NoFrame \notin Frame \cup {CodeFrame, DataFrame}
    /\ CodeFrame \notin Frame /\ DataFrame \notin Frame

VARIABLES status, parent, ready_queue, current, machine,  \* Process
          pte,              \* leaf entries of every process
          pool,             \* how often each frame is in the allocator
          ref,              \* field ref of page_t
          heap_top,         \* in pages from heap_bottom
          free_pages,       \* free_pages_address[0 .. free_pages_count - 1]
          npages,           \* mapped_info[HEAP_SEGMENT].npages
          strayed,          \* history: has the program, or the one it was forked
                            \* from, returned a page that it did not hold?
          content,          \* of each frame
          view              \* what each program has stored, or was forked with

P == INSTANCE Process

procs  == <<status, parent, ready_queue, current, machine>>
heaps  == <<heap_top, free_pages, npages, strayed>>
memory == <<pte, pool, ref, heaps, content, view>>
vars   == <<procs, memory>>

Pid   == 0 .. NPROC - 1
Heap  == 0 .. HeapBound - 1
Stack == -1
Data  == -2
Code  == -3
VA    == Heap \cup {Stack, Data, Code}

Absent    == [f |-> NoFrame, perm |-> "-"]
Page(f)   == [f |-> f, perm |-> "W"]
Mapped(p, va) == pte[p][va].f # NoFrame
Listed(p) == {free_pages[p][i] : i \in DOMAIN free_pages[p]}

Init ==
    /\ P!Init
    /\ pte = [p \in Pid |-> [va \in VA |-> Absent]]
    /\ pool = [f \in Frame |-> 1]
    /\ ref = [f \in Frame |-> 0]
    /\ heap_top = [p \in Pid |-> 0]
    /\ free_pages = [p \in Pid |-> <<>>]
    /\ npages = [p \in Pid |-> 0]
    /\ strayed = [p \in Pid |-> FALSE]
    /\ content = [f \in Frame \cup {CodeFrame, DataFrame} |-> CHOOSE x \in Value : TRUE]
    /\ view = [p \in Pid |-> [va \in VA |-> CHOOSE x \in Value : TRUE]]

\* alloc_page: some page of the allocator; its count is left as it is.
AllocPage(f) == pool[f] > 0 /\ pool' = [pool EXCEPT ![f] = @ - 1]

\* buddy_alloc: "Out of required size of memory!"
OutOfMemory == \A f \in Frame : pool[f] = 0
-----------------------------------------------------------------------------
\* load_user_program: alloc_process maps the stack, elf_load every segment of
\* the program, writable.
Boot ==
    /\ P!Boot
    /\ \E f \in Frame :
         /\ AllocPage(f)
         /\ pte' = [pte EXCEPT ![current'][Stack] = Page(f),
                               ![current'][Data] = Page(DataFrame),
                               ![current'][Code] = Page(CodeFrame)]
    /\ UNCHANGED <<ref, heaps, content, view>>

\* A write-protected page that nobody will ever make writable again.
ProtectOnly(e) == IF e.perm = "W" THEN [e EXCEPT !.perm = "R"] ELSE e

\* do_fork on a valid entry: writable becomes copy-on-write.
Share(e) == IF e.perm = "W" THEN [e EXCEPT !.perm = "COW"] ELSE e

\* A loop that stops one page short of npages.
SharedButLast(p) == {va \in {Stack} \cup 0 .. npages[p] - 2 : Mapped(p, va)}

\* The pages that do_fork shares: the stack, and the heap as far as npages
\* tells.
Shared(p) == {va \in {Stack} \cup 0 .. npages[p] - 1 : Mapped(p, va)}

\* A fork that shares pages without counting them.
CountedNot(sh) == ref

\* get_page on every page shared.
Counted(sh) ==
    [f \in Frame |-> ref[f] + Cardinality({va \in sh : pte[current][va].f = f})]

\* do_fork.  The stack page that alloc_process takes for the child is replaced
\* in its page table by the parent's.  The heap manager is copied, npages is
\* not, a data segment has no case.
Fork ==
    LET sh == Shared(current) IN
    /\ P!Fork
    /\ \E f \in Frame : AllocPage(f)
    /\ \E child \in Pid :
         /\ P!FirstFree(child)
         /\ pte' = [pte EXCEPT
               ![current] = [va \in VA |-> IF va \in sh THEN Share(@[va]) ELSE @[va]],
               ![child] = [va \in VA |->
                   IF va \in sh THEN Share(pte[current][va])
                   ELSE IF va = Code THEN [pte[current][Code] EXCEPT !.perm = "R"]
                   ELSE Absent]]
         /\ heap_top' = [heap_top EXCEPT ![child] = heap_top[current]]
         /\ free_pages' = [free_pages EXCEPT ![child] = free_pages[current]]
         /\ strayed' = [strayed EXCEPT ![child] = strayed[current]]
         /\ view' = [view EXCEPT ![child] = view[current]]
    /\ ref' = Counted(sh)
    /\ UNCHANGED <<npages, content>>

\* No process structure, or no page for the child.
ForkPanic ==
    /\ \/ P!ForkPanic
       \/ machine = "on" /\ P!HartKnown /\ OutOfMemory /\ P!Panic
    /\ UNCHANGED memory

\* A child that forks, asks for a heap page, returns a mapped one or needs a
\* copy of a shared one.
Lost == P!Lost /\ UNCHANGED memory

Exit == P!Exit /\ UNCHANGED memory
-----------------------------------------------------------------------------
\* Taking the page without shortening the list.
ReuseKeepingSlot(p) == free_pages[p]

\* --free_pages_count
Reuse(p) == SubSeq(free_pages[p], 1, Len(free_pages[p]) - 1)

\* Where the next page of the heap goes.
Target(p) ==
    IF free_pages[p] = <<>> THEN heap_top[p] ELSE free_pages[p][Len(free_pages[p])]

\* assert(va < heap_top), on a reclaimed page.
BelowTop(p) == free_pages[p] # <<>> => Target(p) < heap_top[p]

\* alloc_page finds a page, the assertion holds and map_pages finds the place
\* unmapped.
Mappable(p) == ~OutOfMemory /\ BelowTop(p) /\ ~Mapped(p, Target(p))

MapHeapPage(p) ==
    /\ Mappable(p)
    /\ \E f \in Frame :
         /\ AllocPage(f)
         /\ pte' = [pte EXCEPT ![p][Target(p)] = Page(f)]
         /\ view' = [view EXCEPT ![p][Target(p)] = content[f]]
    /\ UNCHANGED <<procs, ref, content>>

\* sys_user_allocate_page, with reclaimed pages ...
MallocReuse ==
    /\ machine = "on" /\ P!HartKnown /\ free_pages[current] # <<>>
    /\ MapHeapPage(current)
    /\ free_pages' = [free_pages EXCEPT ![current] = Reuse(current)]
    /\ UNCHANGED <<heap_top, npages, strayed>>

\* ... and without: the heap grows.
MallocGrow ==
    /\ machine = "on" /\ P!HartKnown /\ free_pages[current] = <<>>
    /\ heap_top[current] < HeapBound
    /\ MapHeapPage(current)
    /\ heap_top' = [heap_top EXCEPT ![current] = @ + 1]
    /\ npages' = [npages EXCEPT ![current] = @ + 1]
    /\ UNCHANGED <<free_pages, strayed>>

MallocPanic ==
    /\ machine = "on" /\ P!HartKnown /\ Target(current) < HeapBound
    /\ ~Mappable(current)
    /\ P!Panic
    /\ UNCHANGED memory

\* The heap pages a program has been given and has not returned.
Owned(p) == (0 .. heap_top[p] - 1) \ Listed(p)

\* user_vm_unmap(..., free = 1) on one page.
UnmapPool(p, va) ==
    IF Mapped(p, va) THEN [pool EXCEPT ![pte[p][va].f] = @ + 1] ELSE pool

\* sys_user_free_page believes its argument: the page may be one that the
\* program has returned before, or was never given.  An unmapped page is put on
\* the list all the same.  What the store does when the list is full is not
\* followed.
FreePage(va) ==
    /\ machine = "on" /\ Len(free_pages[current]) < MAX_HEAP_PAGES
    /\ Mapped(current, va) => P!HartKnown
    /\ pool' = UnmapPool(current, va)
    /\ pte' = [pte EXCEPT ![current][va] = Absent]
    /\ free_pages' = [free_pages EXCEPT ![current] = Append(@, va)]
    /\ strayed' = [strayed EXCEPT ![current] = @ \/ va \notin Owned(current)]
    /\ UNCHANGED <<procs, ref, heap_top, npages, content, view>>
-----------------------------------------------------------------------------
\* A program stores to its stack, its data and anywhere in its heap.
Storable == Heap \cup {Stack, Data}

Store(va, x) ==
    /\ machine = "on"
    /\ pte[current][va].perm = "W"
    /\ content' = [content EXCEPT ![pte[current][va].f] = x]
    /\ view' = [view EXCEPT ![current][va] = x]
    /\ UNCHANGED <<procs, pte, pool, ref, heaps>>

\* An entry with PTE_V and PTE_COW.
Cow(e) == e.f # NoFrame /\ e.perm = "COW"

\* get_page_ref(pa) > 1
MustCopy(f) == ref[f] > 1

\* handle_user_page_fault: the page has other readers, so the writer gets a
\* copy and its old page goes to pfree ...
FaultCopy(va) ==
    LET old == pte[current][va].f IN
    /\ machine = "on" /\ Cow(pte[current][va]) /\ MustCopy(old) /\ P!HartKnown
    /\ \E f \in Frame :
         /\ pool[f] > 0
         /\ content' = [content EXCEPT ![f] = content[old]]
         /\ pte' = [pte EXCEPT ![current][va] = Page(f)]
         /\ pool' = [g \in Frame |-> pool[g] + (IF g = old THEN 1 ELSE 0)
                                             - (IF g = f THEN 1 ELSE 0)]
    /\ UNCHANGED <<procs, ref, heaps, view>>

\* ... or it has none, and is made writable in place.
FaultClaim(va) ==
    /\ machine = "on" /\ Cow(pte[current][va]) /\ ~MustCopy(pte[current][va].f)
    /\ pte' = [pte EXCEPT ![current][va].perm = "W"]
    /\ UNCHANGED <<procs, pool, ref, heaps, content, view>>

\* "Illegal memory access or Stack Overflow", or no page for the copy.
FaultPanic(va) ==
    /\ machine = "on" /\ pte[current][va].perm # "W"
    /\ Cow(pte[current][va]) => MustCopy(pte[current][va].f) /\ P!HartKnown /\ OutOfMemory
    /\ P!Panic
    /\ UNCHANGED memory

YieldOrTimer == P!YieldOrTimer /\ UNCHANGED memory

Next ==
    \/ Boot \/ Fork \/ ForkPanic \/ Lost \/ Exit \/ YieldOrTimer
    \/ MallocReuse \/ MallocGrow \/ MallocPanic
    \/ \E va \in Heap : FreePage(va)
    \/ \E va \in Storable : FaultCopy(va) \/ FaultClaim(va) \/ FaultPanic(va)
    \/ \E va \in Storable, x \in Value : Store(va, x)

Spec == Init /\ [][Next]_vars
-----------------------------------------------------------------------------
Alive(p) == status[p] \in {"READY", "RUNNING"}

\* The heap manager of a process, forked or not, is right about where it puts
\* the next page.  Nothing is mapped from heap_top on, whatever the program
\* does.  Reclaimed pages are listed once, lie below heap_top and are unmapped
\* as long as the program returns each page that it was given at most once: for
\* such a program neither the assertion of sys_user_allocate_page nor map_pages
\* panics, whatever other programs return.  (sys_user_free_page checks nothing,
\* so a program that returns a page twice does meet that panic.)
HeapListSound ==
    \A p \in Pid :
       /\ \A va \in Heap : va >= heap_top[p] => ~Mapped(p, va)
       /\ ~strayed[p] =>
            /\ \A i, j \in DOMAIN free_pages[p] : free_pages[p][i] = free_pages[p][j] => i = j
            /\ \A va \in Listed(p) : va < heap_top[p] /\ ~Mapped(p, va)

\* A page that was writable stays so for the program: every mapped stack or
\* heap page is writable or copy-on-write, never stuck read-only between fork
\* and fault.
NoStuckPage ==
    \A p \in Pid, va \in Heap \cup {Stack} : Mapped(p, va) => pte[p][va].perm \in {"W", "COW"}

\* The count never loses a sharer: a frame has at most ref + 1 places, counting
\* its mappings (of zombies too) and its entries in the allocator.
RefCoversSharers ==
    \A f \in Frame :
       pool[f] + Cardinality({x \in Pid \X VA : pte[x[1]][x[2]].f = f})
          <= ref[f] + 1

\* Every process has the heap its manager describes: each page it was given or
\* forked with is mapped.  (do_fork does not copy npages, which would leave
\* pages out in the child of a child; but no child gets through a fork.)
HeapsComplete ==
    \A p \in Pid : Alive(p) => \A va \in Owned(p) : Mapped(p, va)

\* A store of one process is seen by no other: each finds on its stack and in
\* its heap what it stored or was forked with ("read by at least two
\* processes: split off the one that writes").
Isolated ==
    \A p \in Pid : Alive(p) =>
       \A va \in Owned(p) \cup {Stack} :
          Mapped(p, va) => content[pte[p][va].f] = view[p][va]
=============================================================================

----------------------------- MODULE PcpuCache -----------------------------
(***************************************************************************)
(* The per-hart page caches of kernel/pmm.c: their filling in pmm_init,    *)
(* alloc_page and pfree for single pages, over the buddy system.           *)
(*                                                                         *)
(* The buddy system is what FramePool, which Buddy implements, is on order *)
(* 0: a set of frames from which buddy_alloc(0) takes one and to which     *)
(* __buddy_merge_inner returns one.  Its lock is a mutex (SpinLock) that   *)
(* is not reentrant: it records that it is taken, not by whom.             *)
(*                                                                         *)
(* objs[c] has CACHE_SIZE slots, 0 .. CACHE_SIZE - 1; the word behind the  *)
(* last slot is count[c] itself, as in percpu_cache_t.                     *)
(***************************************************************************)
EXTENDS Integers, FiniteSets

CONSTANTS NCPU,        \* config.h; pmm.c indexes the caches by hart id
          CACHE_SIZE,  \* PCPU_CACHE_SIZE
          BATCH,       \* pages per refill and per flush (16 in the code)
          Page,        \* frames managed by the buddy system
          NoPage

CPU  == 0 .. NCPU - 1
Slot == 0 .. CACHE_SIZE - 1

\* What count holds once a page address has been stored over it: its low 32
\* bits, far beyond any slot.
Junk == CACHE_SIZE + 1

VARIABLES objs, count,   \* pcpu_caches
          buddy,         \* frames the buddy system can hand out
          locked,        \* main_buddy.buddy_lock.lock
          pc,            \* per hart, see below
          got,           \* per hart: the page in a register
          left,          \* per hart: iterations of the batch loop to go
          fill,          \* pages stored so far by the loops of pmm_init
          out            \* out[p]: callers that hold page p

vars == <<objs, count, buddy, locked, pc, got, left, fill, out>>

\* "off": not started; "call"/"pop"/"store": in buddy_alloc(0) and storing its
\* result; "idle": outside the allocator; "wholesale": about to take the lock
\* for a refill; "retail": about to hand a page out; "full": about to take the
\* lock for a flush; "flush"; "push": about to store the freed page.
Label == {"off", "idle", "wholesale", "call", "pop", "store", "retail",
          "full", "flush", "push", "panic", "wild"}

Total   == NCPU * CACHE_SIZE
Booting == fill < Total

Init ==
    /\ objs = [c \in CPU |-> [s \in Slot |-> NoPage]]
    /\ count = [c \in CPU |-> 0]
    /\ buddy \in SUBSET Page        \* the memory the machine has
    /\ locked = FALSE
    /\ pc = [c \in CPU |-> IF c = 0 THEN "call" ELSE "off"]
    /\ got = [c \in CPU |-> NoPage]
    /\ left = [c \in CPU |-> 0]
    /\ fill = 0
    /\ out = [p \in buddy |-> 0]

Goto(c, l) == pc' = [pc EXCEPT ![c] = l]
-----------------------------------------------------------------------------
\* lock_acquire of buddy_alloc: waits until the lock word is 0.
BuddyAlloc(c) ==
    /\ pc[c] = "call" /\ ~locked
    /\ locked' = TRUE
    /\ Goto(c, "pop")
    /\ UNCHANGED <<objs, count, buddy, got, left, fill, out>>

\* __list_pop of the page that buddy_alloc returns.
ListPop(p) == buddy \ {p}

\* The critical section of buddy_alloc(0) and its lock_release.
BuddyPop(c) ==
    /\ pc[c] = "pop"
    /\ \E p \in buddy :
         /\ buddy' = ListPop(p)
         /\ got' = [got EXCEPT ![c] = p]
    /\ locked' = FALSE
    /\ Goto(c, "store")
    /\ UNCHANGED <<objs, count, left, fill, out>>

BuddyPanic(c) ==
    /\ pc[c] = "pop" /\ buddy = {}
    /\ locked' = FALSE
    /\ Goto(c, "panic")
    /\ UNCHANGED <<objs, count, buddy, got, left, fill, out>>

\* pmm_init: page number fill goes to slot fill % CACHE_SIZE of its hart; the
\* last page of a cache sets its count.  When all caches are full pmm_init
\* returns and the harts may call the allocator.
BootStore(c) ==
    /\ pc[c] = "store" /\ Booting
    /\ LET h == fill \div CACHE_SIZE
           s == fill % CACHE_SIZE IN
         /\ objs' = [objs EXCEPT ![h][s] = got[c]]
         /\ count' = [count EXCEPT ![h] = IF s = CACHE_SIZE - 1 THEN CACHE_SIZE ELSE @]
    /\ fill' = fill + 1
    /\ pc' = IF fill + 1 < Total THEN [pc EXCEPT ![c] = "call"]
             ELSE [d \in CPU |-> "idle"]
    /\ got' = [got EXCEPT ![c] = NoPage]
    /\ UNCHANGED <<buddy, locked, left, out>>

\* alloc_page: objs[count++] = page, then another turn, or the release of the
\* lock taken before the loop.
RefillStore(c) ==
    /\ pc[c] = "store" /\ ~Booting
    /\ objs' = [objs EXCEPT ![c][count[c]] = got[c]]
    /\ count' = [count EXCEPT ![c] = @ + 1]
    /\ left' = [left EXCEPT ![c] = @ - 1]
    /\ got' = [got EXCEPT ![c] = NoPage]
    /\ IF left[c] > 1
       THEN Goto(c, "call") /\ UNCHANGED locked
       ELSE Goto(c, "retail") /\ locked' = FALSE
    /\ UNCHANGED <<buddy, fill, out>>
-----------------------------------------------------------------------------
\* alloc_page: an empty cache is refilled first.
AllocPage(c) ==
    /\ pc[c] = "idle"
    /\ Goto(c, IF count[c] = 0 THEN "wholesale" ELSE "retail")
    /\ UNCHANGED <<objs, count, buddy, locked, got, left, fill, out>>

\* The lock_acquire before the refill loop; buddy_alloc(0) is called inside.
Wholesale(c) ==
    /\ pc[c] = "wholesale" /\ ~locked
    /\ locked' = TRUE
    /\ left' = [left EXCEPT ![c] = BATCH]
    /\ Goto(c, "call")
    /\ UNCHANGED <<objs, count, buddy, got, fill, out>>

\* A hand-out that reads the top slot but does not lower the count.
RetailKeepingCount(c) ==
    /\ pc[c] = "retail" /\ count[c] \in 1 .. CACHE_SIZE
    /\ LET p == objs[c][count[c] - 1] IN out' = [out EXCEPT ![p] = @ + 1]
    /\ Goto(c, "idle")
    /\ UNCHANGED <<objs, count, buddy, locked, got, left, fill>>

\* return objs[--count].
Retail(c) ==
    /\ pc[c] = "retail" /\ count[c] \in 1 .. CACHE_SIZE
    /\ LET p == objs[c][count[c] - 1] IN out' = [out EXCEPT ![p] = @ + 1]
    /\ count' = [count EXCEPT ![c] = @ - 1]
    /\ Goto(c, "idle")
    /\ UNCHANGED <<objs, buddy, locked, got, left, fill>>

\* The same with an overwritten count: the read is far outside the cache.
RetailWild(c) ==
    /\ pc[c] = "retail" /\ count[c] = Junk
    /\ Goto(c, "wild")
    /\ UNCHANGED <<objs, count, buddy, locked, got, left, fill, out>>
-----------------------------------------------------------------------------
\* pfree of an order-0 page by a caller that holds it.
Pfree(c, p) ==
    /\ pc[c] = "idle" /\ out[p] > 0
    /\ out' = [out EXCEPT ![p] = @ - 1]
    /\ got' = [got EXCEPT ![c] = p]
    /\ Goto(c, IF count[c] = CACHE_SIZE THEN "full" ELSE "push")
    /\ UNCHANGED <<objs, count, buddy, locked, left, fill>>

FullLock(c) ==
    /\ pc[c] = "full" /\ ~locked
    /\ locked' = TRUE
    /\ Goto(c, "flush")
    /\ UNCHANGED <<objs, count, buddy, got, left, fill, out>>

\* The top BATCH pages go back to the buddy system under one lock.
Flush(c) ==
    /\ pc[c] = "flush"
    /\ buddy' = buddy \cup {objs[c][s] : s \in CACHE_SIZE - BATCH .. CACHE_SIZE - 1}
    /\ count' = [count EXCEPT ![c] = @ - BATCH]
    /\ locked' = FALSE
    /\ Goto(c, "push")
    /\ UNCHANGED <<objs, got, left, fill, out>>

\* objs[++count] = p: one slot above the free one, and behind the last slot
\* that is the count.
Push(c) ==
    /\ pc[c] = "push"
    /\ LET s == count[c] + 1 IN
         /\ count' = [count EXCEPT ![c] = IF s = CACHE_SIZE THEN Junk ELSE s]
         /\ objs' = IF s \in Slot THEN [objs EXCEPT ![c][s] = got[c]] ELSE objs
         /\ Goto(c, IF s > CACHE_SIZE THEN "wild" ELSE "idle")
    /\ got' = [got EXCEPT ![c] = NoPage]
    /\ UNCHANGED <<buddy, locked, left, fill, out>>
-----------------------------------------------------------------------------
\* A kernel that only ever allocates, as s_start does until the first user
\* program runs.
BootStep(c) ==
    \/ BuddyAlloc(c) \/ BuddyPop(c) \/ BuddyPanic(c) \/ BootStore(c)
    \/ AllocPage(c) \/ Wholesale(c) \/ Retail(c)

BootNext == \E c \in CPU : BootStep(c)

\* A hart inside the allocator keeps executing; calling it is its own choice.
BootSpec == /\ Init /\ [][BootNext]_vars
            /\ \A c \in CPU : WF_vars(BootStep(c) /\ pc[c] # "idle")

Step(c) ==
    \/ BuddyAlloc(c) \/ BuddyPop(c) \/ BuddyPanic(c) \/ BootStore(c) \/ RefillStore(c)
    \/ AllocPage(c) \/ Wholesale(c) \/ Retail(c) \/ RetailWild(c)
    \/ FullLock(c) \/ Flush(c) \/ Push(c)
    \/ \E p \in DOMAIN out : Pfree(c, p)

Next == \E c \in CPU : Step(c)

Fairness == \A c \in CPU : WF_vars(Step(c) /\ pc[c] # "idle")

Spec == Init /\ [][Next]_vars /\ Fairness
-----------------------------------------------------------------------------
\* The frames this machine has.
Ram == DOMAIN out

\* alloc_page returns a free page (pmm.h:22): no page is held by two callers.
AllocReturnsFreePage == \A p \in Ram : out[p] <= 1

\* Slot s of hart c holds a page that alloc_page will hand out.
Cached(c, s) == IF Booting THEN c * CACHE_SIZE + s < fill ELSE s < count[c]

\* While pages are only allocated, every page is in exactly one place: in the
\* buddy system, in one live slot of one cache, on its way into a cache, or
\* with one caller.
OnePlace ==
    \A p \in Ram :
       LET slots == {x \in CPU \X Slot : Cached(x[1], x[2]) /\ objs[x[1]][x[2]] = p}
           moving == {c \in CPU : got[c] = p}
           places == Cardinality(slots) + Cardinality(moving) + out[p]
       IN  places + (IF p \in buddy THEN 1 ELSE 0) = 1

\* A hart that finds its cache empty gets its batch from the buddy system and
\* returns from alloc_page (or panics for want of memory).
RefillReturns ==
    \A c \in CPU : pc[c] = "wholesale" ~> pc[c] \in {"idle", "panic"}
=============================================================================

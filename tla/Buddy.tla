------------------------------- MODULE Buddy -------------------------------
(***************************************************************************)
(* The buddy system of kernel/pmm.c on one hart: carving of the free range *)
(* into blocks (buddy_system_init), allocation with splitting (buddy_alloc *)
(* and buddy_split) and freeing with merging (__buddy_merge_inner, which   *)
(* buddy_free, pfree and the cache flush all end in).                      *)
(*                                                                         *)
(* Each turn of a loop is a step, so the invariants below say what holds   *)
(* while a split or a merge is under way, not only between calls.  A free  *)
(* list is the set of its members: __list_pop takes the first, the model   *)
(* any.  The fields of page_t that the allocator reads are kept; alloc,    *)
(* cpu_id, ref and color are never read by it.                             *)
(***************************************************************************)
EXTENDS Integers

CONSTANTS MAX_ORDER,     \* block orders are 0 .. MAX_ORDER - 1
          NR_PAGES,      \* nr_pages: frames, and entries of pages[]
          BUDDY_START,   \* first frame behind the kernel image and pages[]
          Pow2           \* Pow2[o] is 1ULL << o

ASSUME BuddyAssumption ==
    /\ MAX_ORDER \in Nat \ {0}
    /\ NR_PAGES \in Nat
    /\ BUDDY_START \in 0 .. NR_PAGES
    /\ Pow2 \in [0 .. MAX_ORDER -> Nat \ {0}]
    /\ Pow2[0] = 1
    /\ \A o \in 0 .. MAX_ORDER - 1 : Pow2[o + 1] = 2 * Pow2[o]

Order == 0 .. MAX_ORDER - 1
PFN   == 0 .. NR_PAGES - 1

VARIABLES is_free, is_head, order,   \* page_t.status, per frame
          free_area,                 \* main_buddy.free_area, per order
          pc,      \* "init", "idle", "split", "merge", "panic" or "wild"
          pfn,     \* the frame at hand: curr_addr in "init", pfn in "merge"
          lvl,     \* loop variable: i in "split", order in "merge"
          want,    \* the order requested from buddy_alloc
          held     \* <<frame, order>> of every block handed to a caller

meta == <<is_free, is_head, order>>
vars == <<is_free, is_head, order, free_area, pc, pfn, lvl, want, held>>

Init ==
    /\ is_free = [f \in PFN |-> FALSE]
    /\ is_head = [f \in PFN |-> FALSE]
    /\ order = [f \in PFN |-> 0]
    /\ free_area = [o \in Order |-> {}]
    /\ pc = "init" /\ pfn = BUDDY_START /\ lvl = 0 /\ want = 0
    /\ held = {}

ListAdd(o, f) == [free_area EXCEPT ![o] = @ \cup {f}]
ListDel(o, f) == [free_area EXCEPT ![o] = @ \ {f}]
-----------------------------------------------------------------------------
\* A carving limit that never takes the last page, and one that ignores the
\* alignment of the start address.
FitsStrictly(f, o) == f % Pow2[o] = 0 /\ Pow2[o] < NR_PAGES - f
FitsUnaligned(f, o) == Pow2[o] <= NR_PAGES - f

\* align_order and limit_order: a block of order o may start at frame f.
\* (DRAM_BASE is a multiple of every block size.)
Fits(f, o) == f % Pow2[o] = 0 /\ Pow2[o] <= NR_PAGES - f

\* One turn of the loop of buddy_system_init: the largest order that fits.
Carve ==
    /\ pc = "init" /\ pfn < NR_PAGES
    /\ \E o \in Order :
         /\ Fits(pfn, o)
         /\ o = MAX_ORDER - 1 \/ ~Fits(pfn, o + 1)
         /\ is_head' = [is_head EXCEPT ![pfn] = TRUE]
         /\ is_free' = [is_free EXCEPT ![pfn] = TRUE]
         /\ order' = [order EXCEPT ![pfn] = o]
         /\ free_area' = ListAdd(o, pfn)
         /\ pfn' = pfn + Pow2[o]
    /\ UNCHANGED <<pc, lvl, want, held>>

CarveDone ==
    /\ pc = "init" /\ pfn >= NR_PAGES
    /\ pc' = "idle"
    /\ UNCHANGED <<meta, free_area, pfn, lvl, want, held>>
-----------------------------------------------------------------------------
\* buddy_alloc(o) finds the first order with a free block.
Alloc(o) ==
    /\ pc = "idle"
    /\ \E i \in o .. MAX_ORDER - 1 :
         /\ free_area[i] # {}
         /\ \A j \in o .. i - 1 : free_area[j] = {}
         /\ lvl' = i
    /\ want' = o
    /\ pc' = "split"
    /\ UNCHANGED <<meta, free_area, pfn, held>>

\* No block is large enough: panic, which shuts the machine down.
AllocPanic(o) ==
    /\ pc = "idle"
    /\ \A i \in o .. MAX_ORDER - 1 : free_area[i] = {}
    /\ pc' = "panic"
    /\ UNCHANGED <<meta, free_area, pfn, lvl, want, held>>

\* A split that takes the second half at the size of the whole block.
UpperHalfTooFar(f, i) == f + Pow2[i]

\* The second half of the block of order i at f.
UpperHalf(f, i) == f + Pow2[i - 1]

\* One turn of the loop of buddy_split.
Split ==
    /\ pc = "split" /\ lvl > want
    /\ \E f \in free_area[lvl] :
         LET bud == UpperHalf(f, lvl) IN
         /\ is_free' = [is_free EXCEPT ![bud] = TRUE]
         /\ is_head' = [is_head EXCEPT ![bud] = TRUE]
         /\ order' = [order EXCEPT ![bud] = lvl - 1, ![f] = lvl - 1]
         /\ free_area' = [free_area EXCEPT ![lvl] = @ \ {f},
                                           ![lvl - 1] = @ \cup {bud, f}]
    /\ lvl' = lvl - 1
    /\ UNCHANGED <<pc, pfn, want, held>>

\* A pop that leaves the free mark of the block it hands out.
PopKeepingFree ==
    /\ pc = "split" /\ lvl = want
    /\ \E f \in free_area[want] :
         /\ free_area' = ListDel(want, f)
         /\ held' = held \cup {<<f, want>>}
    /\ pc' = "idle"
    /\ UNCHANGED <<meta, pfn, lvl, want>>

\* The pop at the end of buddy_alloc.
Pop ==
    /\ pc = "split" /\ lvl = want
    /\ \E f \in free_area[want] :
         /\ free_area' = ListDel(want, f)
         /\ is_free' = [is_free EXCEPT ![f] = FALSE]
         /\ held' = held \cup {<<f, want>>}
    /\ pc' = "idle"
    /\ UNCHANGED <<is_head, order, pfn, lvl, want>>
-----------------------------------------------------------------------------
\* A caller gives a block back.  The order is the one recorded in pages[].
Free(b) ==
    /\ pc = "idle"
    /\ b \in held
    /\ held' = held \ {b}
    /\ pfn' = b[1]
    /\ lvl' = order[b[1]]
    /\ is_free' = [is_free EXCEPT ![b[1]] = FALSE]
    /\ is_head' = [is_head EXCEPT ![b[1]] = FALSE]
    /\ pc' = "merge"
    /\ UNCHANGED <<order, free_area, want>>

\* A sum with the next order in the place of the xor, and a merge that keeps
\* its own frame.
BuddyTooFar(f, o) == f + Pow2[o + 1]
BaseUnmasked(f, o) == f

\* pfn ^ (1ULL << order) and pfn & ~(1ULL << order).
IsUpper(f, o) == (f \div Pow2[o]) % 2 = 1
BuddyOf(f, o) == IF IsUpper(f, o) THEN f - Pow2[o] ELSE f + Pow2[o]
BaseOf(f, o)  == IF IsUpper(f, o) THEN f - Pow2[o] ELSE f

\* A merge test that does not compare the orders.
MergeableAnyOrder(f, o) == is_free[f] /\ is_head[f]

\* The test of line 242, on an entry inside pages[].
Mergeable(f, o) == order[f] = o /\ is_free[f] /\ is_head[f]

\* One turn of the loop of __buddy_merge_inner.
Merge ==
    /\ pc = "merge" /\ lvl < MAX_ORDER - 1
    /\ LET bud == BuddyOf(pfn, lvl)
           base == BaseOf(pfn, lvl) IN
         /\ bud \in PFN /\ Mergeable(bud, lvl)
         /\ free_area' = ListDel(lvl, bud)
         /\ is_free' = [is_free EXCEPT ![bud] = FALSE]
         /\ is_head' = [is_head EXCEPT ![bud] = FALSE]
         /\ order' = [order EXCEPT ![base] = lvl + 1]
         /\ pfn' = base
    /\ lvl' = lvl + 1
    /\ UNCHANGED <<pc, want, held>>

\* The buddy's entry lies behind pages[], and what is read there passes for a
\* mergeable block: __list_del then writes through that memory.
MergeBeyond ==
    /\ pc = "merge" /\ lvl < MAX_ORDER - 1
    /\ BuddyOf(pfn, lvl) \notin PFN
    /\ pc' = "wild"
    /\ UNCHANGED <<meta, free_area, pfn, lvl, want, held>>

\* The merge loop of a version that stops one order early.
MergeStopsEarly ==
    \/ lvl >= MAX_ORDER - 2
    \/ ~(BuddyOf(pfn, lvl) \in PFN /\ Mergeable(BuddyOf(pfn, lvl), lvl))

\* The loop is left: at the top order, or at a buddy that cannot be merged.
\* Memory behind pages[] may also read as such a buddy.
MergeStops ==
    \/ lvl = MAX_ORDER - 1
    \/ ~(BuddyOf(pfn, lvl) \in PFN /\ Mergeable(BuddyOf(pfn, lvl), lvl))

MergeDone ==
    /\ pc = "merge" /\ MergeStops
    /\ is_free' = [is_free EXCEPT ![pfn] = TRUE]
    /\ is_head' = [is_head EXCEPT ![pfn] = TRUE]
    /\ free_area' = ListAdd(lvl, pfn)
    /\ pc' = "idle"
    /\ UNCHANGED <<order, pfn, lvl, want, held>>
-----------------------------------------------------------------------------
Next ==
    \/ Carve
    \/ CarveDone
    \/ \E o \in Order : Alloc(o) \/ AllocPanic(o)
    \/ Split
    \/ Pop
    \/ \E b \in held : Free(b)
    \/ Merge
    \/ MergeBeyond
    \/ MergeDone

\* A split or a merge under way runs to its end: the hart does not stop.
Fairness == WF_vars(Carve \/ CarveDone \/ Split \/ Pop \/ Merge \/ MergeDone)

Spec == Init /\ [][Next]_vars /\ Fairness
-----------------------------------------------------------------------------
TypeOK ==
    /\ is_free \in [PFN -> BOOLEAN]
    /\ is_head \in [PFN -> BOOLEAN]
    /\ order \in [PFN -> Order]
    /\ free_area \in [Order -> SUBSET PFN]
    /\ pc \in {"init", "idle", "split", "merge", "panic", "wild"}
    /\ pfn \in BUDDY_START .. NR_PAGES
    /\ lvl \in Order /\ want \in Order
    /\ held \in SUBSET (PFN \X Order)

\* The frames of the block of order o at f do not meet those of <<g, r>>.
Apart(f, o, g, r) == f + Pow2[o] <= g \/ g + Pow2[r] <= f

\* The block a running merge carries; it is in no list and nobody's.
Carried(f, o) == pc \in {"merge", "wild"} /\ f = pfn /\ o = lvl

Listed(f, o) == f \in free_area[o]

\* The block of order o at f exists: on a list, handed out, or being merged.
Block(f, o) == Listed(f, o) \/ <<f, o>> \in held \/ Carried(f, o)

\* No frame is ever in two blocks, and no block is in two places: the blocks
\* on the free lists, the blocks handed out by buddy_alloc and the block a
\* merge carries are pairwise disjoint, at every turn of every loop.
NoOverlap ==
    /\ \A f, g \in PFN, o, r \in Order :
          Block(f, o) /\ Block(g, r) /\ <<f, o>> # <<g, r>> => Apart(f, o, g, r)
    /\ \A f \in PFN, o \in Order :
          /\ ~(Listed(f, o) /\ <<f, o>> \in held)
          /\ ~(Listed(f, o) /\ Carried(f, o))
          /\ ~(<<f, o>> \in held /\ Carried(f, o))

\* No frame is ever lost: every managed frame (below the carving point while
\* buddy_system_init runs) is inside some block.
NoLeak ==
    \A f \in BUDDY_START .. NR_PAGES - 1 :
       \/ pc = "init" /\ f >= pfn
       \/ \E g \in PFN, o \in Order : Block(g, o) /\ g <= f /\ f < g + Pow2[o]

\* The marks tell the truth, which is all the merge test looks at: a frame is
\* marked free exactly when it is on the list of its order (the comment at
\* is_free), and only block heads are marked as heads (the comment at
\* is_head); a block handed out still has its order on record.
MarksTruthful ==
    /\ \A f \in PFN : is_free[f] <=> \E o \in Order : Listed(f, o)
    /\ \A f \in PFN, o \in Order :
          Listed(f, o) \/ <<f, o>> \in held => is_head[f] /\ order[f] = o
    /\ \A f \in PFN : is_head[f] => Listed(f, order[f]) \/ <<f, order[f]>> \in held

\* Blocks are naturally aligned, so that an order-9 block can be a megapage
\* (pmm.h) and the xor really finds the other half.
Aligned == \A f \in PFN, o \in Order : Block(f, o) => f % Pow2[o] = 0

\* Between calls no two free buddies are left unmerged below the top order.
Coalesced ==
    pc = "idle" => \A o \in 0 .. MAX_ORDER - 2 : \A f \in free_area[o] :
                      BuddyOf(f, o) \notin free_area[o]

\* An aligned block of order o that lies inside the managed range.
Natural(f, o) == f >= BUDDY_START /\ Fits(f, o)

\* Once everything has been given back the free lists are again what
\* buddy_system_init made of the range, whatever was split and merged since:
\* exactly the aligned blocks that no larger one inside the range contains.
Restored ==
    pc = "idle" /\ held = {} =>
       \A f \in PFN, o \in Order :
          Listed(f, o) <=>
             /\ Natural(f, o)
             /\ o = MAX_ORDER - 1 \/ ~Natural(f - (f % Pow2[o + 1]), o + 1)

\* The merge test reads an entry behind pages[] only inside the largest block
\* that holds the last frame: never, when the memory is a multiple of that.
BeyondOnlyInLastBlock ==
    LET top == Pow2[MAX_ORDER - 1] IN
    pc = "wild" => BuddyOf(pfn, lvl) \div top = (NR_PAGES - 1) \div top

\* The allocator does what its callers rely on (FramePool): a block becomes
\* available when it is given back, however far its merge has come, what a
\* call returns was available as a whole, and a call panics only when no
\* aligned block of its order is, although it only looks at the lists.
Pool == INSTANCE FramePool WITH taken <- held, stopped <- (pc = "panic")
ImplementsPool == Pool!Spec

\* A call under way returns or panics: the loops of the allocator end.
CallsReturn == pc \in {"init", "split", "merge"} ~> pc \in {"idle", "panic", "wild"}
=============================================================================

----------------------------- MODULE FramePool -----------------------------
(***************************************************************************)
(* What the buddy system of kernel/pmm.c promises its callers, without     *)
(* lists, marks, splits and merges: frames that nobody holds are given out *)
(* in aligned blocks, and buddy_alloc panics only when no aligned block of *)
(* the order is free.  For order 0 this is a set of frames from which any  *)
(* one may come, which is how PcpuCache uses the buddy system.             *)
(***************************************************************************)
EXTENDS Integers

CONSTANTS MAX_ORDER, NR_PAGES, BUDDY_START, Pow2    \* as in Buddy

Order == 0 .. MAX_ORDER - 1
PFN   == 0 .. NR_PAGES - 1

VARIABLES taken,      \* <<frame, order>> of every block that a caller holds
          stopped     \* buddy_alloc has panicked

vars == <<taken, stopped>>

Init == taken = {} /\ stopped = FALSE

\* All frames of the aligned block of order o at f are managed, and nobody
\* holds one of them.
Available(f, o) ==
    /\ f >= BUDDY_START /\ f % Pow2[o] = 0 /\ f + Pow2[o] <= NR_PAGES
    /\ \A b \in taken : f + Pow2[o] <= b[1] \/ b[1] + Pow2[b[2]] <= f

Give(o) ==
    /\ ~stopped
    /\ \E f \in PFN : Available(f, o) /\ taken' = taken \cup {<<f, o>>}
    /\ UNCHANGED stopped

Fail(o) ==
    /\ ~stopped
    /\ \A f \in PFN : ~Available(f, o)
    /\ stopped' = TRUE
    /\ UNCHANGED taken

Return(b) ==
    /\ ~stopped
    /\ taken' = taken \ {b}
    /\ UNCHANGED stopped

Next == (\E o \in Order : Give(o) \/ Fail(o)) \/ \E b \in taken : Return(b)

Spec == Init /\ [][Next]_vars
=============================================================================

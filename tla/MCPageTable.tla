---------------------------- MODULE MCPageTable ----------------------------
(* Three virtual pages: two in one leaf table, one in a subtree of its own. *)
EXTENDS PageTable, TLC
Va(i2, i1, i0) == [l \in 0 .. 2 |-> <<i0, i1, i2>>[l + 1]]
MCIndex == {0, 1}
MCVA == {Va(0, 1, 0), Va(0, 1, 1), Va(1, 1, 0)}
MCVAPair == {Va(0, 1, 0), Va(0, 1, 1)}
FrameSymmetry == Permutations(Frame)
=============================================================================

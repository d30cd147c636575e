------------------------------ MODULE MCMemory ------------------------------
(* Frames are interchangeable. *)
EXTENDS Memory, TLC
FrameSymmetry == Permutations(Frame)
=============================================================================

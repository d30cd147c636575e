------------------------------ MODULE MCBuddy ------------------------------
(* The powers of two for Buddy, as TLC computes them. *)
EXTENDS Buddy
MCPow2 == [o \in 0 .. MAX_ORDER |-> 2 ^ o]
=============================================================================

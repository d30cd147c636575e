-------------------------------- MODULE Mutex --------------------------------
(***************************************************************************)
(* What a spinlock of kernel/sync_utils.c promises its callers: a hart     *)
(* that wants the lock waits, and enters only when no hart is inside.      *)
(* The buddy allocator's lock main_buddy.buddy_lock is used this way.      *)
(***************************************************************************)
CONSTANT CPU

VARIABLE mode      \* mode[c]: is hart c outside, waiting or inside?

Modes == {"out", "waiting", "in"}

Init == mode = [c \in CPU |-> "out"]

Request(c) ==
    /\ mode[c] = "out"
    /\ mode' = [mode EXCEPT ![c] = "waiting"]

Enter(c) ==
    /\ mode[c] = "waiting"
    /\ \A d \in CPU : mode[d] # "in"
    /\ mode' = [mode EXCEPT ![c] = "in"]

Leave(c) ==
    /\ mode[c] = "in"
    /\ mode' = [mode EXCEPT ![c] = "out"]

Next == \E c \in CPU : Request(c) \/ Enter(c) \/ Leave(c)

Spec == Init /\ [][Next]_mode
=============================================================================

------------------------------ MODULE SpinLock ------------------------------
(***************************************************************************)
(* The test-and-test-and-set spinlock, in the two versions of the sources. *)
(* A hart first reads the lock word; only when it reads 0 does it try to   *)
(* take the lock with one atomic instruction, and it owns the lock when    *)
(* the instruction returned 0.  A release stores 0.                        *)
(*                                                                         *)
(* "sync_utils", kernel/sync_utils.c: lock_acquire tries with amoswap.w 1. *)
(* "atomic", spike_interface/atomic.h: spinlock_trylock is named after a   *)
(* swap of -1, but atomic_binop_w is an amoadd.w, so every try, a failed   *)
(* one included, counts the word down by one.                              *)
(*                                                                         *)
(* pc[c] is where hart c stands: "out" of the lock functions, about to     *)
(* "test" the word, about to "swap", or "held" between the two functions.  *)
(***************************************************************************)
EXTENDS Integers, FiniteSets

CONSTANTS CPU,     \* the harts that share the lock
          Impl,    \* which version the lock is
          Word     \* the number of values of the lock word, 2^32

ASSUME LockAssumption ==
    /\ IsFiniteSet(CPU)
    /\ Impl \in {"sync_utils", "atomic"}
    /\ Word \in Nat \ {0, 1}
    /\ Cardinality(CPU) < Word

VARIABLES lock,    \* the lock word: 0 free
          pc

vars == <<lock, pc>>

TypeOK == /\ lock \in 0 .. Word - 1
          /\ pc \in [CPU -> {"out", "test", "swap", "held"}]

Init == /\ lock = 0
        /\ pc = [c \in CPU |-> "out"]

Goto(c, label) == pc' = [pc EXCEPT ![c] = label]

\* A hart calls the lock function.
Call(c) ==
    /\ pc[c] = "out"
    /\ Goto(c, "test")
    /\ UNCHANGED lock

\* A loop that tries whatever it has read.
TestNothing(c) ==
    /\ pc[c] = "test"
    /\ Goto(c, "swap")
    /\ UNCHANGED lock

\* The plain read.  Reading anything but 0 is another turn of the loop, which
\* changes nothing.
Test(c) ==
    /\ pc[c] = "test"
    /\ lock = 0
    /\ Goto(c, "swap")
    /\ UNCHANGED lock

\* The word after a try that found w: amoswap.w of 1, or amoadd.w of -1.
Tried(w) == IF Impl = "sync_utils" THEN 1
            ELSE IF w = 0 THEN Word - 1 ELSE w - 1

\* A try that does not look at the value it returned.
SwapIgnoringOld(c) ==
    /\ pc[c] = "swap"
    /\ lock' = Tried(lock)
    /\ Goto(c, "held")

\* atomic_swap: the word was 0 for at most one of the harts here.
Swap(c) ==
    /\ pc[c] = "swap"
    /\ lock' = Tried(lock)
    /\ Goto(c, IF lock = 0 THEN "held" ELSE "test")

\* A release that leaves the word set.
ReleaseWithoutStore(c) ==
    /\ pc[c] = "held"
    /\ UNCHANGED lock
    /\ Goto(c, "out")

Release(c) ==
    /\ pc[c] = "held"
    /\ lock' = 0
    /\ Goto(c, "out")

Next == \E c \in CPU : Call(c) \/ Test(c) \/ Swap(c) \/ Release(c)

Spec == Init /\ [][Next]_vars
-----------------------------------------------------------------------------
\* The lock word is 0 exactly while no hart is in the critical section, and
\* two harts are never in it together.  For the version of atomic.h this needs
\* more than the atomic instruction: failed tries count the word down towards
\* 0, and only the plain read before each try bounds how many there can be
\* while the lock is held.
MutualExclusion ==
    /\ lock # 0 <=> \E c \in CPU : pc[c] = "held"
    /\ \A c, d \in CPU : pc[c] = "held" /\ pc[d] = "held" => c = d

\* The loop implements the mutex: waiting covers both the read and the try.
ModeOf(c) == IF pc[c] = "out" THEN "out"
             ELSE IF pc[c] = "held" THEN "in" ELSE "waiting"

M == INSTANCE Mutex WITH mode <- [c \in CPU |-> ModeOf(c)]

\* Every behaviour of the two lock functions is a behaviour of the mutex that
\* the callers in pmm.c, spike_htif.c and spike_utils.c rely on.
ImplementsMutex == M!Spec
=============================================================================

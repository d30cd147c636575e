---------------------------- MODULE Htif_proofs ----------------------------
(***************************************************************************)
(* The spinlock, and the calls to the host over it.  Mutual exclusion of   *)
(* both versions of the lock and their refinement of Mutex; then, for any  *)
(* number of harts smaller than the lock word, any input and any number of *)
(* characters: every call gets its own answer, the assertions of           *)
(* __check_fromhost hold, and the console keeps every character.           *)
(***************************************************************************)
EXTENDS Htif, FiniteSetTheorems, TLAPS
-----------------------------------------------------------------------------
(* The spinlock. *)

\* The harts that have read 0 and are about to try.
Trying == {c \in CPU : pc[c] = "swap"}

\* While the lock is held nobody new reads 0, so the word of atomic.h stays
\* above the number of tries that may still come.
WordOutlastsTries ==
    Impl = "atomic" /\ lock # 0 => lock > Cardinality(Trying)

\* The inductive invariant.
LockInv == TypeOK /\ MutualExclusion /\ WordOutlastsTries

\* The set of trying harts is finite and smaller than the lock word.
LEMMA TryingFinite ==
  /\ IsFiniteSet(Trying) /\ Cardinality(Trying) \in Nat
  /\ Cardinality(Trying) < Word
<1>1. Trying \subseteq CPU /\ IsFiniteSet(CPU)
  BY LockAssumption DEF Trying
<1>2. IsFiniteSet(Trying) /\ Cardinality(Trying) <= Cardinality(CPU)
  BY <1>1, FS_Subset
<1>3. Cardinality(Trying) \in Nat /\ Cardinality(CPU) \in Nat
  BY <1>1, <1>2, FS_CardinalityType
<1> QED BY <1>2, <1>3, LockAssumption

\* The lock functions start from a free lock with no holder.
LEMMA LockInvInit == Init => LockInv
  BY LockAssumption DEF Init, LockInv, TypeOK, MutualExclusion, WordOutlastsTries

\* No step of the lock functions breaks the invariant.
LEMMA LockInvStep == LockInv /\ [Next]_vars => LockInv'
<1> SUFFICES ASSUME LockInv, [Next]_vars
             PROVE  LockInv'
  OBVIOUS
<1> USE LockAssumption DEF LockInv, TypeOK, MutualExclusion, Goto
<1>1. ASSUME NEW c \in CPU, Call(c) PROVE LockInv'
  <2>1. Trying' = Trying
    BY <1>1 DEF Call, Trying
  <2> QED BY <1>1, <2>1 DEF Call, WordOutlastsTries
<1>2. ASSUME NEW c \in CPU, Test(c) PROVE LockInv'
  BY <1>2 DEF Test, WordOutlastsTries
<1>3. ASSUME NEW c \in CPU, Swap(c) PROVE LockInv'
  <2>1. Trying' = Trying \ {c} /\ c \in Trying
    BY <1>3 DEF Swap, Trying
  <2>2. /\ Cardinality(Trying') = Cardinality(Trying) - 1
        /\ Cardinality(Trying) \in Nat /\ Cardinality(Trying) < Word
    BY Zenon, <2>1, TryingFinite, FS_RemoveElement
  <2>3. lock' # 0 /\ lock' \in 0 .. Word - 1
    <3>1. Cardinality(Trying) > 0
      BY <2>1, <2>2, TryingFinite, FS_EmptySet
    <3>2. CASE Impl = "sync_utils"
      BY <1>3, <3>2 DEF Swap, Tried
    <3>3. CASE Impl = "atomic"
      BY <1>3, <2>2, <3>1, <3>3 DEF Swap, Tried, WordOutlastsTries
    <3> QED BY <3>2, <3>3
  <2>4. WordOutlastsTries'
    BY <1>3, <2>2 DEF Swap, Tried, WordOutlastsTries
  <2>5. CASE lock = 0
    BY <1>3, <2>3, <2>4, <2>5 DEF Swap
  <2>6. CASE lock # 0
    BY <1>3, <2>3, <2>4, <2>6 DEF Swap
  <2> QED BY <2>5, <2>6
<1>4. ASSUME NEW c \in CPU, Release(c) PROVE LockInv'
  BY <1>4 DEF Release, WordOutlastsTries
<1>5. CASE UNCHANGED vars
  BY <1>5 DEF vars, WordOutlastsTries, Trying
<1> QED
  BY <1>1, <1>2, <1>3, <1>4, <1>5 DEF Next

\* The inductive invariant holds always.
LEMMA LockInvAlways == Spec => []LockInv
  BY LockInvInit, LockInvStep, PTL DEF Spec

\* Two harts are never both between the two lock functions, whatever their
\* number and whichever version of the lock they use.
THEOREM SpinLockExcludes == Spec => []MutualExclusion
  BY LockInvAlways, PTL DEF LockInv

\* The spinlock implements the mutex: every step of the loop is a step of the
\* mutex or leaves its state alone.
THEOREM SpinLockImplementsMutex == Spec => ImplementsMutex
<1> USE DEF ModeOf
<1>1. Init => M!Init
  BY DEF Init, M!Init
<1>2. LockInv /\ [Next]_vars => [M!Next]_[c \in CPU |-> ModeOf(c)]
  <2> SUFFICES ASSUME LockInv, [Next]_vars
               PROVE  [M!Next]_[c \in CPU |-> ModeOf(c)]
    OBVIOUS
  <2> USE DEF LockInv, TypeOK, MutualExclusion, Goto
  <2>1. ASSUME NEW c \in CPU, Call(c) PROVE M!Request(c)
    BY Zenon, <2>1 DEF Call, M!Request
  <2>2. ASSUME NEW c \in CPU, Test(c) PROVE UNCHANGED [d \in CPU |-> ModeOf(d)]
    BY <2>2 DEF Test
  <2>3. ASSUME NEW c \in CPU, Swap(c)
        PROVE  M!Enter(c) \/ UNCHANGED [d \in CPU |-> ModeOf(d)]
    <3>1. CASE lock = 0
      <4>1. \A d \in CPU : ModeOf(d) # "in"
        BY <3>1
      <4>2. pc' = [pc EXCEPT ![c] = "held"]
        BY <2>3, <3>1 DEF Swap
      <4>3. ModeOf(c) = "waiting"
        BY <2>3 DEF Swap
      <4>4. [d \in CPU |-> ModeOf(d)]' = [[d \in CPU |-> ModeOf(d)] EXCEPT ![c] = "in"]
        BY Zenon, <4>2
      <4> QED BY <4>1, <4>3, <4>4 DEF M!Enter
    <3>2. CASE lock # 0
      BY <2>3, <3>2 DEF Swap
    <3> QED BY <3>1, <3>2
  <2>4. ASSUME NEW c \in CPU, Release(c) PROVE M!Leave(c)
    BY Zenon, <2>4 DEF Release, M!Leave
  <2>5. CASE UNCHANGED vars
    BY <2>5 DEF vars
  <2> QED
    BY <2>1, <2>2, <2>3, <2>4, <2>5 DEF Next, M!Next
<1> QED
  BY <1>1, <1>2, LockInvAlways, PTL DEF Spec, ImplementsMutex, M!Spec
-----------------------------------------------------------------------------
(* Calls to the host. *)

Words    == [dev : {0, 1}, cmd : {0, 1}, data : Int]
Inside   == {"get", "set", "answer", "unlock", "assert"}
Consoles == {"putchar", "getchar"}

HtifTypeOK ==
    /\ op \in [CPU -> Syscalls \cup Consoles \cup {"none", "poweroff"}]
    /\ arg \in [CPU -> Char \cup {0}]
    /\ at \in [CPU -> Inside \cup {"idle", "lock", "done"}]
    /\ magic_mem \in [from : CPU \cup {NoCPU}, answered : BOOLEAN]
    /\ served \in [CPU -> Nat]
    /\ tohost \in Words /\ fromhost \in Words /\ fromhost_queue \in Seq(Words)
    /\ typed \in Nat

\* Where a hart is agrees with what it does and with the two locks.
PlacesAgree ==
    \A c \in CPU :
      /\ at[c] \in Inside => htif_lock = c
      /\ at[c] # "idle" => op[c] \in Syscalls \cup Consoles
      /\ at[c] = "get" => op[c] = "getchar"
      /\ pc[c] # "out" => op[c] \in Syscalls
      /\ op[c] \in Syscalls /\ at[c] # "idle" => pc[c] = "held" /\ magic_mem.from = c

Waiting(c)  == op[c] \in Syscalls /\ at[c] = "answer"
Asked       == tohost = Message(0, 0, MagicMem)
Response(w) == w = Message(0, 0, 1)
Proper(w)   == w = Zero \/ Response(w) \/ (w.dev = 1 /\ w.cmd = 0)
Served(c)   == served[c] = 1 /\ magic_mem.answered

\* A call is in one place: not yet asked, in tohost, with the host, on its way
\* back, or answered.
OneRequest ==
    /\ \A c \in CPU : op[c] \in Syscalls =>
         /\ at[c] \in {"idle", "lock", "set"} => served[c] = 0
         /\ at[c] \in {"unlock", "done"} => Served(c)
    /\ Asked => \E c \in CPU : Waiting(c) /\ served[c] = 0
    /\ Response(fromhost) => \E c \in CPU : Waiting(c) /\ Served(c)
    /\ \A i \in 1 .. Len(fromhost_queue) :
         /\ Proper(fromhost_queue[i])
         /\ Response(fromhost_queue[i]) =>
              ~Response(fromhost) /\ \E c \in CPU : Waiting(c) /\ Served(c)
    /\ \A i, j \in 1 .. Len(fromhost_queue) :
         Response(fromhost_queue[i]) /\ Response(fromhost_queue[j]) => i = j
    /\ Proper(fromhost)

\* The inductive invariant, next to the lock's own.
HtifInv == HtifTypeOK /\ PlacesAgree /\ OneRequest /\ AssertsHold
-----------------------------------------------------------------------------
\* Every step of a call is a step of its lock or leaves the lock alone.
LEMMA LockStep == [HtifNext]_htifVars => [Next]_vars
<1> USE DEF vars, lockVars
<1>1. ASSUME NEW c \in CPU, Begin(c) PROVE [Next]_vars
  BY <1>1 DEF Begin, FrontendSyscall, Putchar, Getchar, Console, Poweroff, Next
<1>2. ASSUME NEW c \in CPU, Continue(c) PROVE [Next]_vars
  BY <1>2 DEF Continue, Lock, Fill, LockHtif, SetWait, SetTohost, Answer, AnswerOther, Get,
              UnlockHtif, Return, Next
<1>3. CASE Host \/ HostType
  BY <1>3 DEF Host, HostSyscall, HostExit, HostDisplay, HostRead, HostRespond, HostType, Take
<1> QED BY <1>1, <1>2, <1>3 DEF HtifNext, htifVars

\* The lock's invariant holds throughout.
LEMMA LockInvHtif == HtifSpec => []LockInv
<1>1. HtifInit => LockInv
  BY LockInvInit DEF HtifInit
<1>2. LockInv /\ [HtifNext]_htifVars => LockInv'
  BY LockInvStep, LockStep
<1> QED BY <1>1, <1>2, PTL DEF HtifSpec

\* The lock of frontend_syscall is a mutex while calls, the console and the
\* host go on: no step of theirs does to it what a mutex forbids.
THEOREM HtifImplementsMutex == HtifSpec => ImplementsMutex
<1>1. HtifInit => Init
  BY DEF HtifInit
<1>2. HtifSpec => Spec
  BY <1>1, LockStep, PTL DEF HtifSpec, Spec
<1> QED BY <1>2, SpinLockImplementsMutex

\* The invariant holds when the machine starts.
LEMMA HtifInvInit == HtifInit => HtifInv
  BY HtifAssumption
  DEF HtifInit, Init, HtifInv, HtifTypeOK, PlacesAgree, OneRequest, AssertsHold, Words,
      Message, Zero, Syscalls, Consoles, Inside, Asked, Response, Proper, MagicMem

\* The words that go to the host and come back.
LEMMA WordFacts ==
  /\ \A dev, cmd \in {0, 1} : \A n \in Int : Message(dev, cmd, n) \in Words
  /\ \A cmd, n : Message(1, cmd, n) # Message(0, 0, MagicMem)
  /\ Zero \in Words /\ Zero # Message(0, 0, MagicMem) /\ Zero.dev # 1
  /\ Message(0, 0, 1) \in Words
BY DEF Words, Message, Zero, MagicMem

\* A proper word that is not of the host's own device is the console's.
LEMMA OtherWord ==
  ASSUME NEW w, Proper(w), ~(w.dev = 0 /\ w.cmd = 0)
  PROVE  FromConsole(w) /\ ~Response(w)
BY DEF Proper, FromConsole, Response, Message, Zero

\* A response of the console is not the one that a system call waits for.
LEMMA ConsoleWord == ASSUME NEW w, FromConsole(w) PROVE ~Response(w)
BY DEF FromConsole, Response, Message, Zero

\* Characters are numbers.
LEMMA CharsAreInts == \A ch \in Char : ch \in Int
<1>1. Char \subseteq 0 .. 255
  BY Zenon, HtifAssumption
<1> QED BY <1>1

\* What a sequence holds after one word was added.
LEMMA AppendWord ==
  ASSUME NEW q \in Seq(Words), NEW w \in Words
  PROVE  /\ Append(q, w) \in Seq(Words)
         /\ \A i \in 1 .. Len(Append(q, w)) :
               \/ i \in 1 .. Len(q) /\ Append(q, w)[i] = q[i]
               \/ i = Len(Append(q, w)) /\ Append(q, w)[i] = w
OBVIOUS

\* A hart takes a word of the console from fromhost, and a system call stays
\* where it is.
LEMMA WordTaken ==
  ASSUME HtifInv, NEW c \in CPU, NEW label \in {"set", "answer", "unlock"},
         at[c] \in Inside, op[c] \in Syscalls => label = at[c],
         at' = [at EXCEPT ![c] = label], fromhost' = Zero, ~Response(fromhost),
         UNCHANGED <<lockVars, callVars, memVars, htif_lock, tohost, hostVars>>
  PROVE  HtifInv'
<1>1. /\ at \in [CPU -> Inside \cup {"idle", "lock", "done"}] /\ label \in Inside
      /\ label # "get" /\ label # "assert"
  BY Zenon DEF HtifInv, HtifTypeOK, Inside
<1>2. /\ at' \in [CPU -> Inside \cup {"idle", "lock", "done"}]
      /\ \A d \in CPU : at'[d] = IF d = c THEN label ELSE at[d]
  BY Zenon, <1>1
<1>3. Zero \in Words /\ ~Response(Zero) /\ Proper(Zero)
  BY DEF Zero, Message, Words, Response, Proper
<1>4. /\ UNCHANGED <<lock, pc, op, arg, magic_mem, served, htif_lock, tohost>>
      /\ UNCHANGED <<fromhost_queue, typed>>
  BY DEF lockVars, callVars, memVars, hostVars
<1>5. HtifTypeOK'
  BY Zenon, <1>2, <1>3, <1>4 DEF HtifInv, HtifTypeOK
<1>6. at[c] # "idle"
  BY DEF Inside
<1>7. PlacesAgree'
  BY Zenon, <1>1, <1>2, <1>4, <1>6 DEF HtifInv, PlacesAgree
<1>8. AssertsHold'
  BY Zenon, <1>1, <1>2 DEF HtifInv, AssertsHold
<1>9. \A d \in CPU : /\ op[d] \in Syscalls => at'[d] = at[d]
                     /\ Waiting(d)' <=> Waiting(d)
                     /\ Served(d)' <=> Served(d)
  BY Zenon, <1>2, <1>4 DEF Waiting, Served
<1>10. Asked' <=> Asked
  BY Zenon, <1>4 DEF Asked
<1>11. OneRequest'
  <2>1. \A d \in CPU : op'[d] \in Syscalls =>
          /\ at'[d] \in {"idle", "lock", "set"} => served'[d] = 0
          /\ at'[d] \in {"unlock", "done"} => Served(d)'
    BY Zenon, <1>4, <1>9 DEF HtifInv, OneRequest
  <2>2. Asked' => \E d \in CPU : Waiting(d)' /\ served'[d] = 0
    BY Zenon, <1>4, <1>9, <1>10 DEF HtifInv, OneRequest
  <2>3. \A i \in 1 .. Len(fromhost_queue) :
          /\ Proper(fromhost_queue[i])
          /\ Response(fromhost_queue[i]) => \E d \in CPU : Waiting(d)' /\ Served(d)'
    BY Zenon, <1>9 DEF HtifInv, OneRequest
  <2>4. \A i, j \in 1 .. Len(fromhost_queue) :
          Response(fromhost_queue[i]) /\ Response(fromhost_queue[j]) => i = j
    BY Zenon DEF HtifInv, OneRequest
  <2>5. /\ \A i : Proper(fromhost_queue[i])' <=> Proper(fromhost_queue[i])
        /\ \A i : Response(fromhost_queue[i])' <=> Response(fromhost_queue[i])
        /\ Proper(fromhost)' /\ ~Response(fromhost)'
    BY Zenon, <1>3, <1>4 DEF Proper, Response
  <2> QED BY Zenon, <1>4, <2>1, <2>2, <2>3, <2>4, <2>5 DEF OneRequest
<1> QED BY Zenon, <1>5, <1>7, <1>8, <1>11 DEF HtifInv

\* Nothing a hart begins disturbs a call in progress.
LEMMA BeginKeeps ==
  ASSUME LockInv, HtifInv, NEW c \in CPU, Begin(c)
  PROVE  HtifInv'
<1> USE DEF HtifInv, HtifTypeOK, PlacesAgree, OneRequest, AssertsHold, Syscalls, Consoles,
            Inside, hostVars, consoleVars, lockVars, memVars, callVars
<1>1. ASSUME NEW n \in Syscalls, FrontendSyscall(c, n) PROVE HtifInv'
  BY <1>1 DEF FrontendSyscall, Call, Goto, Asked, Response, Waiting, Served, LockInv, TypeOK
<1>2. ASSUME NEW name \in Consoles, NEW ch \in Char \cup {0}, Console(c, name, ch)
      PROVE  HtifInv'
  BY <1>2 DEF Console, Move, Asked, Response, Waiting, Served, LockInv, TypeOK
<1>3. CASE Poweroff(c)
  BY <1>3 DEF Poweroff, Asked, Response, Proper, Waiting, Served, Message, Zero, MagicMem,
              Words
<1> QED BY Zenon, <1>1, <1>2, <1>3 DEF Begin, Putchar, Getchar

\* A word that the harts read is a response only to the hart that waits.
LEMMA ContinueKeeps ==
  ASSUME LockInv, HtifInv, NEW c \in CPU, Continue(c)
  PROVE  HtifInv'
<1> USE DEF HtifInv, HtifTypeOK, PlacesAgree, OneRequest, AssertsHold, Syscalls, Consoles,
            Inside, hostVars, consoleVars, lockVars, memVars, callVars, Move
<1>1. CASE Lock(c)
  BY <1>1 DEF Lock, Test, Swap, Goto, Asked, Response, Waiting, Served, LockInv, TypeOK
<1>2. CASE Fill(c)
  BY <1>2 DEF Fill, Asked, Response, Waiting, Served, LockInv, MutualExclusion
<1>3. CASE LockHtif(c)
  <2>1. \A d \in CPU : at[d] \notin Inside
    BY Zenon, <1>3, HtifAssumption DEF LockHtif, HtifFree
  <2> QED BY <1>3, <2>1 DEF LockHtif, Asked, Response, Waiting, Served
<1>4. ASSUME at[c] \in {"set", "get"} PROVE FromConsole(fromhost)
  BY <1>4 DEF FromConsole, Proper, Response, Waiting
<1>5. CASE SetWait(c)
  <2>1. FromConsole(fromhost) /\ ~Response(fromhost) /\ at[c] \in Inside
    BY Zenon, <1>4, <1>5, ConsoleWord DEF SetWait
  <2>2. at' = [at EXCEPT ![c] = "set"]
    BY Zenon, <1>5, <2>1 DEF SetWait, CheckFromhost
  <2> HIDE DEF HtifInv, Inside, Syscalls
  <2> QED BY Zenon, <1>5, <2>1, <2>2, WordTaken DEF SetWait, CheckFromhost
<1>6. CASE Get(c)
  <2>1. FromConsole(fromhost) /\ ~Response(fromhost) /\ at[c] \in Inside /\ op[c] \notin Syscalls
    BY Zenon, <1>4, <1>6, ConsoleWord DEF Get
  <2>2. PICK label \in {"set", "unlock"} : at' = [at EXCEPT ![c] = label]
    BY Zenon, <1>6, <2>1 DEF Get, CheckFromhost
  <2>3. label \in {"set", "answer", "unlock"}
    BY Zenon
  <2> HIDE DEF HtifInv, Inside, Syscalls
  <2> QED BY Zenon, <1>6, <2>1, <2>2, <2>3, WordTaken DEF Get, CheckFromhost
<1>7. CASE SetTohost(c)
  <2>1. /\ \A dev, cmd \in {0, 1} : \A n \in Int : Message(dev, cmd, n) \in Words
        /\ \A cmd, n : Message(1, cmd, n) # Message(0, 0, MagicMem)
    BY Zenon, WordFacts
  <2>2. Request(c) \in Words
    <3>1. arg[c] \in Int /\ MagicMem \in Int
      BY CharsAreInts DEF MagicMem
    <3> QED BY <2>1, <3>1 DEF Request
  <2>3. Request(c) = Message(0, 0, MagicMem) => op[c] \in Syscalls
    <3>1. op[c] \in Syscalls \cup Consoles
      BY <1>7 DEF SetTohost
    <3> QED BY <2>1, <3>1 DEF Request
  <2>4. ~Response(fromhost)
        /\ \A i \in 1 .. Len(fromhost_queue) : ~Response(fromhost_queue[i])
    BY Zenon, <1>7 DEF SetTohost, Waiting
  <2> DEFINE label == IF op[c] \in Syscalls THEN "answer" ELSE "unlock"
  <2>5. /\ at[c] = "set" /\ tohost' = Request(c) /\ at' = [at EXCEPT ![c] = label]
        /\ UNCHANGED <<lock, pc, op, arg, magic_mem, served, htif_lock>>
        /\ UNCHANGED <<fromhost, fromhost_queue, typed>>
    BY Zenon, <1>7 DEF SetTohost, AfterSet
  <2>6. /\ label \in Inside /\ label # "assert" /\ label # "get"
        /\ op[c] \in Syscalls => label = "answer"
    OBVIOUS
  <2> HIDE DEF label
  <2>7. /\ at' \in [CPU -> Inside \cup {"idle", "lock", "done"}]
        /\ \A d \in CPU : at'[d] = IF d = c THEN label ELSE at[d]
    BY Zenon, <2>5, <2>6
  <2>8. HtifTypeOK' /\ PlacesAgree' /\ AssertsHold'
    <3>1. HtifTypeOK'
      BY Zenon, <2>2, <2>5, <2>7
    <3>2. at[c] # "idle"
      BY Zenon, <2>5
    <3>3. PlacesAgree'
      BY ZenonT(30), <2>5, <2>6, <2>7, <3>2
    <3>4. AssertsHold'
      BY Zenon, <2>6, <2>7
    <3> QED BY Zenon, <3>1, <3>3, <3>4
  <2>9. op[c] \in Syscalls => Waiting(c)' /\ served[c] = 0
    BY Zenon, <2>5, <2>6, <2>7 DEF Waiting
  <2>10. OneRequest'
    <3>1. \A d \in CPU : op'[d] \in Syscalls =>
            /\ at'[d] \in {"idle", "lock", "set"} => served'[d] = 0
            /\ at'[d] \in {"unlock", "done"} => Served(d)'
      <4>1. "answer" \notin {"idle", "lock", "set"} /\ "answer" \notin {"unlock", "done"}
        OBVIOUS
      <4> QED BY Zenon, <2>5, <2>6, <2>7, <4>1 DEF Served
    <3>2. Asked' => \E d \in CPU : Waiting(d)' /\ served'[d] = 0
      BY Zenon, <2>3, <2>5, <2>9 DEF Asked
    <3>3. ~Response(fromhost)' /\ Proper(fromhost)'
      BY Zenon, <2>4, <2>5 DEF Response, Proper
    <3>4. \A i \in 1 .. Len(fromhost_queue) :
            ~Response(fromhost_queue[i])' /\ Proper(fromhost_queue[i])'
      BY Zenon, <2>4, <2>5 DEF Response, Proper
    <3> QED BY Zenon, <2>5, <3>1, <3>2, <3>3, <3>4
  <2> QED BY Zenon, <2>8, <2>10
<1>8. CASE Answer(c)
  <2>1. Response(fromhost)
    BY <1>8 DEF Answer, Proper
  <2>2. Served(c) /\ op[c] \in Syscalls /\ ~Asked
    BY <1>8, <2>1 DEF Answer, Waiting, Served
  <2>3. \A i \in 1 .. Len(fromhost_queue) : ~Response(fromhost_queue[i])
    BY Zenon, <2>1
  <2> QED BY <1>8, <2>2, <2>3
          DEF Answer, Asked, Response, Proper, Waiting, Served, Words, Message, Zero
<1>9. CASE AnswerOther(c)
  <2>1. FromConsole(fromhost) /\ ~Response(fromhost)
    BY Zenon, <1>9, OtherWord DEF AnswerOther
  <2>2. at' = [at EXCEPT ![c] = "answer"] /\ at[c] \in Inside
    BY Zenon, <1>9, <2>1 DEF AnswerOther, CheckFromhost
  <2> HIDE DEF HtifInv, Inside, Syscalls
  <2> QED BY Zenon, <1>9, <2>1, <2>2, WordTaken DEF AnswerOther, CheckFromhost
<1>10. CASE UnlockHtif(c)
  BY SMTT(30), <1>10 DEF UnlockHtif, Asked, Response, Waiting, Served
<1>11. CASE Return(c)
  <2>1. HtifTypeOK' /\ AssertsHold'
    BY SMTT(30), <1>11 DEF Return
  <2>2. PlacesAgree'
    BY SMTT(30), <1>11 DEF Return, Release, Goto, LockInv, TypeOK
  <2>3. OneRequest'
    BY SMTT(30), <1>11 DEF Return, Asked, Response, Waiting, Served
  <2> QED BY Zenon, <2>1, <2>2, <2>3
<1> QED BY ZenonT(60), <1>1, <1>2, <1>3, <1>5, <1>6, <1>7, <1>8, <1>9, <1>10, <1>11 DEF Continue

\* The host answers the request it finds, once.
LEMMA HostKeeps ==
  ASSUME LockInv, HtifInv, Host \/ HostType
  PROVE  HtifInv'
<1> USE DEF HtifInv, HtifTypeOK, PlacesAgree, OneRequest, AssertsHold, consoleVars, lockVars,
            memVars, callVars
<1>0. Zero \in Words /\ ~(Zero = Message(0, 0, MagicMem))
  BY Zenon, WordFacts
<1>1. CASE HostSyscall
  <2>1. PICK c \in CPU :
          /\ magic_mem.from = c /\ op[c] # "exit"
          /\ magic_mem' = [magic_mem EXCEPT !.answered = TRUE]
          /\ served' = [served EXCEPT ![c] = @ + 1]
    BY Zenon, <1>1 DEF HostSyscall
  <2>2. Asked
    BY <1>1 DEF HostSyscall, Take, Asked, Words, Message
  <2>3. Waiting(c) /\ served[c] = 0
    BY ZenonT(60), <2>1, <2>2 DEF Waiting
  <2>4. ~Response(fromhost)
        /\ \A i \in 1 .. Len(fromhost_queue) : ~Response(fromhost_queue[i])
    BY <2>3 DEF Waiting, Served, Inside
  <2>5. DEFINE w == Message(0, 0, 1)
  <2>6. w \in Words /\ Proper(w)
    BY Zenon, WordFacts DEF Proper, Response
  <2>7. /\ fromhost_queue' = Append(fromhost_queue, w)
        /\ tohost' = Zero
        /\ UNCHANGED <<lockVars, callVars, at, htif_lock, fromhost, typed>>
    BY <1>1 DEF HostSyscall, Take
  <2>8. HtifTypeOK' /\ PlacesAgree' /\ AssertsHold'
    <3>1. /\ magic_mem' \in [from : CPU \cup {NoCPU}, answered : BOOLEAN]
          /\ magic_mem'.from = magic_mem.from
      BY Zenon, <2>1
    <3>2. served' \in [CPU -> Nat]
      BY <2>1
    <3>3. fromhost_queue' \in Seq(Words)
      BY <2>6, <2>7
    <3> QED BY <1>0, <2>7, <3>1, <3>2, <3>3
  <2>9. \A d \in CPU : Waiting(d) => d = c
    BY Zenon, <2>3 DEF Waiting, Inside
  <2>10. OneRequest'
    <3>1. \A d \in CPU : op[d] \in Syscalls /\ at[d] # "idle" => d = c
      BY <2>1
    <3>2. Waiting(c)' /\ Served(c)'
      BY <2>1, <2>3, <2>7 DEF Waiting, Served
    <3>3. \A i \in 1 .. Len(fromhost_queue') :
             /\ Proper(fromhost_queue'[i])
             /\ Response(fromhost_queue'[i]) => i = Len(fromhost_queue')
      <4>1. fromhost_queue \in Seq(Words)
        BY Zenon
      <4>2. Proper(w) /\ w \in Words /\ fromhost_queue' = Append(fromhost_queue, w)
        BY Zenon, <2>6, <2>7
      <4>3. \A i \in 1 .. Len(fromhost_queue) :
              Proper(fromhost_queue[i]) /\ ~Response(fromhost_queue[i])
        BY Zenon, <2>4
      <4> HIDE DEF w, HtifInv, OneRequest
      <4> QED BY Zenon, <4>1, <4>2, <4>3, AppendWord
    <3>4. \A d \in CPU : op[d] \in Syscalls =>
            /\ at[d] \in {"idle", "lock", "set"} => served'[d] = 0
            /\ at[d] \in {"unlock", "done"} => Served(d)'
      BY <2>1, <2>3, <3>1 DEF Waiting
    <3>5. ~Asked' /\ ~Response(fromhost') /\ Proper(fromhost')
      BY Zenon, <1>0, <2>4, <2>7 DEF Asked
    <3>6. op' = op /\ at' = at
      BY Zenon, <2>7
    <3>7. \A i, j \in 1 .. Len(fromhost_queue') :
             Response(fromhost_queue'[i]) /\ Response(fromhost_queue'[j]) => i = j
      BY Zenon, <3>3
    <3> QED BY Zenon, <3>2, <3>3, <3>4, <3>5, <3>6, <3>7 DEF Proper, Response
  <2> QED BY Zenon, <2>8, <2>10
<1>2. CASE HostExit
  BY Zenon, <1>0, <1>2 DEF HostExit, Take, Asked, Waiting, Served
<1>3. CASE HostDisplay
  BY Zenon, <1>0, <1>3 DEF HostDisplay, Take, Asked, Waiting, Served
<1>4. CASE HostRead
  BY Zenon, <1>0, <1>4 DEF HostRead, Take, Asked, Waiting, Served
<1>5. CASE HostType
  <2>1. DEFINE w == Message(1, 0, Input[typed + 1])
  <2>2. Input[typed + 1] \in Int
    <3>1. typed + 1 \in 1 .. Len(Input) /\ Input \in Seq(Char)
      BY <1>5, HtifAssumption DEF HostType
    <3>2. Input[typed + 1] \in Char
      BY <3>1
    <3> QED BY Zenon, <3>2, CharsAreInts
  <2>3. w \in Words /\ Proper(w) /\ ~Response(w)
    BY <2>2 DEF Words, Message, Proper, Response
  <2>4. /\ fromhost_queue' = Append(fromhost_queue, w)
        /\ typed' = typed + 1
        /\ UNCHANGED <<lockVars, callVars, at, memVars, htif_lock, tohost, fromhost>>
    BY Zenon, <1>5 DEF HostType
  <2>5. \A i \in 1 .. Len(fromhost_queue') :
          /\ Proper(fromhost_queue'[i])
          /\ Response(fromhost_queue'[i]) =>
               i \in 1 .. Len(fromhost_queue) /\ fromhost_queue'[i] = fromhost_queue[i]
    <3> HIDE DEF w
    <3>1. /\ \A i \in 1 .. Len(fromhost_queue) : fromhost_queue'[i] = fromhost_queue[i]
          /\ \A i \in 1 .. Len(fromhost_queue') :
                i \in 1 .. Len(fromhost_queue) \/ fromhost_queue'[i] = w
      BY <2>4
    <3> QED BY <2>3, <3>1
  <2>6. HtifTypeOK' /\ PlacesAgree' /\ AssertsHold'
    BY <2>3, <2>4
  <2>7. OneRequest'
    <3>1. /\ Asked' => Asked
          /\ \A c \in CPU : (Waiting(c)' <=> Waiting(c)) /\ (Served(c)' <=> Served(c))
      BY Zenon, <2>4 DEF Asked, Waiting, Served, memVars, callVars
    <3>2. \A c \in CPU : op'[c] \in Syscalls =>
            /\ at'[c] \in {"idle", "lock", "set"} => served'[c] = 0
            /\ at'[c] \in {"unlock", "done"} => Served(c)'
      BY Zenon, <2>4, <3>1 DEF memVars, callVars
    <3>3. Asked' => \E c \in CPU : Waiting(c)' /\ served'[c] = 0
      BY Zenon, <2>4, <3>1 DEF memVars
    <3>4. \A i \in 1 .. Len(fromhost_queue') :
            /\ Proper(fromhost_queue'[i])
            /\ Response(fromhost_queue'[i]) =>
                 ~Response(fromhost') /\ \E c \in CPU : Waiting(c)' /\ Served(c)'
      BY Zenon, <2>4, <2>5, <3>1
    <3>5. \A i, j \in 1 .. Len(fromhost_queue') :
            Response(fromhost_queue'[i]) /\ Response(fromhost_queue'[j]) => i = j
      BY Zenon, <2>5
    <3>6. Proper(fromhost') /\ (Response(fromhost') => \E c \in CPU : Waiting(c)' /\ Served(c)')
      BY Zenon, <2>4, <3>1
    <3> QED BY Zenon, <3>2, <3>3, <3>4, <3>5, <3>6 DEF Response, Proper
  <2> QED BY Zenon, <2>6, <2>7
<1>6. CASE HostRespond
  <2>1. /\ fromhost_queue # <<>> /\ fromhost = Zero
        /\ fromhost' = fromhost_queue[1]
        /\ fromhost_queue' = Tail(fromhost_queue)
        /\ UNCHANGED <<lockVars, callVars, at, memVars, htif_lock, tohost, typed>>
    BY <1>6 DEF HostRespond
  <2>2. /\ 1 \in 1 .. Len(fromhost_queue)
        /\ fromhost' \in Words
        /\ fromhost_queue' \in Seq(Words)
        /\ \A i \in 1 .. Len(fromhost_queue') :
             i + 1 \in 1 .. Len(fromhost_queue) /\ fromhost_queue'[i] = fromhost_queue[i + 1]
    BY <2>1
  <2>3. HtifTypeOK' /\ PlacesAgree' /\ AssertsHold'
    BY Zenon, <2>1, <2>2
  <2>4. \A i \in 1 .. Len(fromhost_queue') :
          /\ Proper(fromhost_queue'[i])
          /\ Response(fromhost_queue'[i]) =>
               ~Response(fromhost') /\ \E c \in CPU : Waiting(c) /\ Served(c)
    <3> TAKE i \in 1 .. Len(fromhost_queue')
    <3>1. i + 1 \in 1 .. Len(fromhost_queue)
          /\ fromhost_queue'[i] = fromhost_queue[i + 1]
      BY Zenon, <2>2
    <3>2. i + 1 # 1
      <4> HIDE DEF HtifInv, OneRequest
      <4> QED OBVIOUS
    <3>3. Proper(fromhost_queue[i + 1])
      BY Zenon, <3>1
    <3>4. Response(fromhost_queue[i + 1]) =>
            ~Response(fromhost_queue[1]) /\ \E c \in CPU : Waiting(c) /\ Served(c)
      BY Zenon, <2>2, <3>1, <3>2
    <3> QED BY Zenon, <2>1, <3>1, <3>3, <3>4
  <2>5. \A i, j \in 1 .. Len(fromhost_queue') :
          Response(fromhost_queue'[i]) /\ Response(fromhost_queue'[j]) => i = j
    <3> TAKE i, j \in 1 .. Len(fromhost_queue')
    <3>1. Response(fromhost_queue'[i]) /\ Response(fromhost_queue'[j]) => i + 1 = j + 1
      <4>1. \A k, l \in 1 .. Len(fromhost_queue) :
               Response(fromhost_queue[k]) /\ Response(fromhost_queue[l]) => k = l
        BY Zenon
      <4> HIDE DEF HtifInv, OneRequest
      <4> QED BY Zenon, <2>2, <4>1
    <3>2. i + 1 = j + 1 => i = j
      <4> HIDE DEF HtifInv, OneRequest
      <4> QED OBVIOUS
    <3> HIDE DEF HtifInv, OneRequest
    <3> QED BY Zenon, <3>1, <3>2
  <2>6. Proper(fromhost') /\ (Response(fromhost') => \E c \in CPU : Waiting(c) /\ Served(c))
    BY <2>1, <2>2
  <2>7. /\ Asked' => Asked
        /\ \A c \in CPU : (Waiting(c)' <=> Waiting(c)) /\ (Served(c)' <=> Served(c))
    BY Zenon, <2>1 DEF Asked, Waiting, Served, memVars, callVars
  <2>8. \A c \in CPU : op'[c] \in Syscalls =>
          /\ at'[c] \in {"idle", "lock", "set"} => served'[c] = 0
          /\ at'[c] \in {"unlock", "done"} => Served(c)'
    BY Zenon, <2>1, <2>7 DEF memVars, callVars
  <2>9. Asked' => \E c \in CPU : Waiting(c)' /\ served'[c] = 0
    BY Zenon, <2>1, <2>7 DEF memVars
  <2> QED BY Zenon, <2>3, <2>4, <2>5, <2>6, <2>7, <2>8, <2>9 DEF Response, Proper
<1> QED BY ZenonT(60), <1>1, <1>2, <1>3, <1>4, <1>5, <1>6 DEF Host

\* The invariant holds throughout.
LEMMA HtifInvAlways == HtifSpec => []HtifInv
<1>1. LockInv /\ HtifInv /\ [HtifNext]_htifVars => HtifInv'
  <2>1. LockInv /\ HtifInv /\ HtifNext => HtifInv'
    BY Zenon, BeginKeeps, ContinueKeeps, HostKeeps DEF HtifNext
  <2>2. HtifInv /\ UNCHANGED htifVars => HtifInv'
    <3> SUFFICES ASSUME HtifInv, UNCHANGED htifVars PROVE HtifInv'
      BY Zenon
    <3>1. UNCHANGED <<lock, pc, op, arg, at, magic_mem, served, htif_lock, tohost, fromhost,
                      fromhost_queue, typed>>
      BY Zenon DEF htifVars, lockVars, callVars, memVars, consoleVars, hostVars
    <3>2. HtifTypeOK' /\ AssertsHold'
      BY Zenon, <3>1 DEF HtifInv, HtifTypeOK, AssertsHold
    <3>3. PlacesAgree'
      BY Zenon, <3>1 DEF HtifInv, PlacesAgree
    <3>4. OneRequest'
      BY Zenon, <3>1 DEF HtifInv, OneRequest, Asked, Waiting, Served, Response, Proper
    <3> QED BY Zenon, <3>2, <3>3, <3>4 DEF HtifInv
  <2> QED BY <2>1, <2>2
<1> QED BY <1>1, HtifInvInit, LockInvHtif, PTL DEF HtifSpec

\* The lock of frontend_syscall excludes, whatever the harts do besides.
THEOREM HtifLockExcludes == HtifSpec => []MutualExclusion
  BY LockInvHtif, PTL DEF LockInv

\* Every call returns with the answer to its own request, which the host has
\* executed once.
THEOREM HtifAnswerIsMine == HtifSpec => []AnswerIsMine
<1>1. HtifInv => AnswerIsMine
  BY DEF HtifInv, HtifTypeOK, PlacesAgree, OneRequest, AnswerIsMine, Served, Syscalls
<1> QED BY <1>1, HtifInvAlways, PTL

\* The assertions of __check_fromhost hold.
THEOREM HtifAssertsHold == HtifSpec => []AssertsHold
  BY HtifInvAlways, PTL DEF HtifInv
-----------------------------------------------------------------------------
(* The console. *)

NoPoweroff == \A c \in CPU : op[c] # "poweroff"

\* What was put is displayed but for a character in tohost.
OutKept ==
    /\ put \in Seq(Int) /\ shown \in Seq(Int)
    /\ put = IF tohost.dev = 1 /\ tohost.cmd = 1 THEN Append(shown, tohost.data) ELSE shown

\* Where the question for a character, or the character, can be.
Asking     == \E c \in CPU : at[c] = "set" /\ op[c] = "getchar"
ReadSent   == tohost.dev = 1 /\ tohost.cmd = 0
Queued(k)  == k \in 1 .. Len(fromhost_queue) /\ fromhost_queue[k].dev = 1
InFromhost == fromhost.dev = 1
Places     == {"asking", "sent", "read", "queue", "fromhost", "nowhere"}

\* There is at most one, and only while the buffer says that it was asked for.
Stage(s) ==
    /\ Asking => s = "asking"
    /\ ReadSent => s = "sent"
    /\ reads # 0 => reads = 1 /\ s = "read"
    /\ \A k : Queued(k) => s = "queue"
    /\ InFromhost => s = "fromhost"
    /\ htif_console_buf # -1 => s = "nowhere"

\* The queue holds answers to calls and characters, of these at most one.
QueueShape ==
    /\ \A k \in 1 .. Len(fromhost_queue) : Response(fromhost_queue[k]) \/ Queued(k)
    /\ \A k, l : Queued(k) /\ Queued(l) => k = l
    /\ \A k : Queued(k) => fromhost_queue[k].data \in Char
    /\ InFromhost => fromhost.data \in Char

\* What was typed was returned, but for the one character.
Typed  == SubSeq(Input, 1, typed)
InKept ==
    /\ typed <= Len(Input) /\ got \in Seq(Int)
    /\ htif_console_buf \in Int /\ htif_console_buf >= -1
    /\ htif_console_buf > 0 => Typed = Append(got, htif_console_buf - 1)
    /\ InFromhost => Typed = Append(got, fromhost.data)
    /\ \A k : Queued(k) => Typed = Append(got, fromhost_queue[k].data)
    /\ htif_console_buf <= 0 /\ ~InFromhost /\ (\A k : ~Queued(k)) => Typed = got

ConsoleInv ==
    NoPoweroff => OutKept /\ (\E s \in Places : Stage(s)) /\ QueueShape /\ InKept

\* Steps that leave the console alone.
LEMMA QuietConsole ==
    ASSUME OutKept, NEW s \in Places, Stage(s), QueueShape, InKept, Asking' => Asking,
           UNCHANGED <<tohost, fromhost, fromhost_queue, reads, htif_console_buf, put, shown,
                       got, typed>>
    PROVE  OutKept' /\ Stage(s)' /\ QueueShape' /\ InKept'
<1>1. InFromhost' = InFromhost /\ ReadSent' = ReadSent /\ Typed' = Typed
  BY Zenon DEF InFromhost, ReadSent, Typed
<1>2. \A k : Queued(k)' <=> Queued(k)
  BY DEF Queued
<1>3. OutKept' /\ Stage(s)'
  BY <1>1, <1>2 DEF OutKept, Stage
<1>4. QueueShape'
  BY <1>1, <1>2 DEF QueueShape, Response
<1>5. InKept'
  BY <1>1, <1>2 DEF InKept
<1> QED
  BY <1>3, <1>4, <1>5

\* __check_fromhost puts a character into the buffer.
LEMMA CollectStep ==
    ASSUME OutKept, NEW s \in Places, Stage(s), QueueShape, InKept, Asking' => Asking,
           InFromhost, fromhost' = Zero, htif_console_buf' = 1 + fromhost.data,
           UNCHANGED <<tohost, fromhost_queue, reads, put, shown, got, typed>>
    PROVE  OutKept' /\ Stage("nowhere")' /\ QueueShape' /\ InKept'
<1>1. s = "fromhost" /\ ~Asking /\ ~ReadSent /\ reads = 0 /\ \A k : ~Queued(k)
  BY DEF Stage
<1>2. fromhost.data \in 0 .. 255 /\ Typed = Append(got, fromhost.data)
  BY Zenon, HtifAssumption DEF QueueShape, InKept
<1>3. ~InFromhost' /\ ReadSent' = ReadSent /\ Typed' = Typed
  BY DEF InFromhost, ReadSent, Typed, Zero, Message
<1>4. \A k : ~Queued(k)'
  BY <1>1 DEF Queued
<1>5. OutKept' /\ Stage("nowhere")'
  BY Zenon, <1>1, <1>3, <1>4 DEF OutKept, Stage
<1>6. QueueShape'
  BY <1>1, <1>3, <1>4 DEF QueueShape, Response, Queued
<1>7. InKept'
  <2>1. htif_console_buf' \in Int /\ htif_console_buf' > 0 /\ htif_console_buf' - 1 = fromhost.data
    <3>1. \A d \in 0 .. 255 : \A b : b = 1 + d => b \in Int /\ b > 0 /\ b - 1 = d
      OBVIOUS
    <3> QED
      BY Zenon, <1>2, <3>1
  <2>2. typed <= Len(Input) /\ got \in Seq(Int)
    BY DEF InKept
  <2>3. Typed' = Append(got', htif_console_buf' - 1)
    BY <1>2, <1>3, <2>1, Zenon
  <2>4. ~(htif_console_buf' <= 0) /\ htif_console_buf' >= -1
    BY <2>1
  <2> QED
    BY <1>3, <1>4, <2>1, <2>2, <2>3, <2>4 DEF InKept
<1> QED
  BY <1>5, <1>6, <1>7

\* htif_console_getchar takes the character from fromhost or from the buffer,
\* and asks for the next one unless it has asked before.
LEMMA GetStep ==
    ASSUME LockInv, HtifInv, OutKept, NEW s \in Places, Stage(s), QueueShape, InKept,
           NEW c \in CPU, Get(c)
    PROVE  OutKept' /\ (\E z \in Places : Stage(z)') /\ QueueShape' /\ InKept'
<1> DEFINE ch == BufferAfter(fromhost)
<1>1. /\ at[c] = "get" /\ fromhost' = Zero /\ htif_console_buf' = -1
      /\ UNCHANGED <<op, tohost, fromhost_queue, reads, put, shown, typed>>
  BY Zenon DEF Get, CheckFromhost, hostVars, callVars
<1>2. op[c] = "getchar" /\ htif_lock = c
  BY <1>1 DEF HtifInv, PlacesAgree, Inside
<1>3. ~Asking
  BY Zenon, <1>1, <1>2 DEF Asking, HtifInv, PlacesAgree, Inside
<1>4. InFromhost <=> fromhost.dev = 1 /\ fromhost.cmd = 0
  BY DEF InFromhost, HtifInv, OneRequest, Proper, Zero, Response, Message
<1>5. FromConsole(fromhost)
  BY Zenon, <1>1, <1>2 DEF HtifInv, HtifTypeOK, PlacesAgree, OneRequest, FromConsole, Proper, Response,
                    Waiting, Inside
<1>6. at' = [at EXCEPT ![c] = IF ch >= 0 THEN "set" ELSE "unlock"]
  BY <1>5 DEF Get, CheckFromhost, Move, Asks
<1>7. Asking' => ch >= 0
  BY Zenon, <1>1, <1>3, <1>6 DEF Asking, HtifInv, HtifTypeOK
<1>8. ~InFromhost' /\ ReadSent' = ReadSent /\ Typed' = Typed /\ \A k : Queued(k)' <=> Queued(k)
  BY Zenon, <1>1, WordFacts DEF InFromhost, ReadSent, Typed, Queued
<1>9. OutKept'
  BY Zenon, <1>1 DEF OutKept
<1>10. QueueShape'
  BY <1>1, <1>8 DEF QueueShape, Response
<1>11. CASE InFromhost
  <2>1. s = "fromhost" /\ ~ReadSent /\ reads = 0 /\ htif_console_buf = -1 /\ \A k : ~Queued(k)
    BY Zenon, <1>11 DEF Stage
  <2>2. fromhost.data \in 0 .. 255 /\ Typed = Append(got, fromhost.data) /\ ch = 1 + fromhost.data
    BY Zenon, <1>4, <1>11, HtifAssumption DEF QueueShape, InKept, BufferAfter
  <2>3. ch > 0 /\ ch - 1 = fromhost.data
    <3> HIDE DEF ch
    <3>1. \A d \in 0 .. 255 : \A b : b = 1 + d => b > 0 /\ b - 1 = d
      OBVIOUS
    <3> QED
      BY Zenon, <2>2, <3>1
  <2>4. got' = Append(got, fromhost.data)
    BY <2>3 DEF Get
  <2>5. got' \in Seq(Int)
    BY <2>2, <2>4 DEF InKept
  <2>6. Stage("asking")'
    BY Zenon, <1>1, <1>8, <2>1 DEF Stage
  <2>7. InKept'
    BY <1>1, <1>8, <2>1, <2>2, <2>4, <2>5 DEF InKept
  <2> QED
    BY <1>9, <1>10, <2>6, <2>7 DEF Places
<1>12. CASE ~InFromhost
  <2>1. ch = htif_console_buf /\ htif_console_buf \in Int /\ htif_console_buf >= -1
    BY <1>4, <1>12 DEF BufferAfter, InKept
  <2> HIDE DEF ch
  <2>2. got' = IF htif_console_buf > 0 THEN Append(got, htif_console_buf - 1) ELSE got
    BY <2>1 DEF Get, ch
  <2>3. got' \in Seq(Int)
    BY <2>1, <2>2 DEF InKept
  <2>4. CASE htif_console_buf = -1
    <3>1. ~Asking'
      BY <1>7, <2>1, <2>4
    <3>2. Stage(s)'
      BY <1>1, <1>8, <1>12, <2>4, <3>1 DEF Stage
    <3>3. got' = got /\ ~(htif_console_buf > 0) /\ htif_console_buf <= 0
      BY <2>2, <2>4
    <3>4. InKept'
      BY <1>1, <1>8, <1>12, <2>3, <2>4, <3>3 DEF InKept
    <3> QED
      BY <1>9, <1>10, <3>2, <3>4
  <2>5. CASE htif_console_buf # -1
    <3>1. s = "nowhere" /\ ~ReadSent /\ reads = 0 /\ \A k : ~Queued(k)
      BY <2>5 DEF Stage
    <3>2. Stage("asking")'
      BY <1>1, <1>8, <3>1 DEF Stage
    <3>3. Typed = got'
      BY <1>12, <2>1, <2>2, <3>1 DEF InKept
    <3>4. InKept'
      BY <1>1, <1>8, <2>3, <3>1, <3>3 DEF InKept
    <3> QED
      BY <1>9, <1>10, <3>2, <3>4 DEF Places
  <2> QED
    BY <2>4, <2>5
<1> QED
  BY <1>11, <1>12

\* __set_tohost stores a character to be displayed, a question or a call.
LEMMA SetTohostStep ==
    ASSUME LockInv, HtifInv, OutKept, NEW s \in Places, Stage(s), QueueShape, InKept,
           NEW c \in CPU, SetTohost(c)
    PROVE  OutKept' /\ (\E z \in Places : Stage(z)') /\ QueueShape' /\ InKept'
<1>1. /\ at[c] = "set" /\ tohost = Zero /\ tohost' = Request(c)
      /\ put' = (IF op[c] = "putchar" THEN Append(put, arg[c]) ELSE put)
      /\ at' = [at EXCEPT ![c] = AfterSet(c)]
      /\ UNCHANGED <<op, arg, fromhost, fromhost_queue, htif_console_buf, reads, shown, got, typed>>
  BY Zenon DEF SetTohost, ReadyToSet, Move, hostVars, callVars
<1>2. op[c] \in Syscalls \cup Consoles /\ htif_lock = c /\ arg[c] \in Int
  BY <1>1, CharsAreInts DEF HtifInv, HtifTypeOK, PlacesAgree, Inside
<1>3. ~Asking'
  <2>1. \A d \in CPU : at[d] = "set" => d = c
    BY <1>2 DEF HtifInv, PlacesAgree, Inside
  <2>2. at'[c] # "set" /\ \A d \in CPU : d # c => at'[d] = at[d]
    BY <1>1 DEF AfterSet, HtifInv, HtifTypeOK
  <2> QED
    BY Zenon, <2>1, <2>2 DEF Asking
<1>4. put = shown /\ ~ReadSent
  BY <1>1 DEF OutKept, Zero, Message, ReadSent
<1>5. InFromhost' = InFromhost /\ Typed' = Typed /\ \A k : Queued(k)' <=> Queued(k)
  BY Zenon, <1>1 DEF InFromhost, Typed, Queued
<1>6. QueueShape' /\ InKept'
  <2>1. QueueShape'
    BY Zenon, <1>1, <1>5 DEF QueueShape, Response
  <2>2. InKept'
    BY <1>1, <1>5 DEF InKept
  <2> QED
    BY Zenon, <2>1, <2>2
<1>7. CASE op[c] = "putchar"
  <2>1. tohost'.dev = 1 /\ tohost'.cmd = 1 /\ tohost'.data = arg[c]
    BY Zenon, <1>1, <1>7 DEF Request, Message
  <2>2. OutKept'
    BY <1>1, <1>2, <1>4, <1>7, <2>1 DEF OutKept
  <2>3. ~ReadSent'
    BY <2>1 DEF ReadSent
  <2>4. Stage(s)'
    BY <1>1, <1>3, <1>5, <2>3 DEF Stage
  <2> QED
    BY Zenon, <1>6, <2>2, <2>4
<1>8. CASE op[c] = "getchar"
  <2>1. tohost'.dev = 1 /\ tohost'.cmd = 0
    BY Zenon, <1>1, <1>8 DEF Request, Message
  <2>2. OutKept'
    BY <1>1, <1>4, <1>8, <2>1 DEF OutKept
  <2>3. Asking
    BY <1>1, <1>8 DEF Asking
  <2>4. Stage("sent")'
    BY Zenon, <1>1, <1>3, <1>5, <2>3 DEF Stage
  <2> QED
    BY Zenon, <1>6, <2>2, <2>4 DEF Places
<1>9. CASE op[c] \in Syscalls
  <2>1. tohost'.dev = 0
    BY Zenon, <1>1, <1>9 DEF Request, Message, Syscalls
  <2>2. OutKept'
    BY <1>1, <1>4, <1>9, <2>1 DEF OutKept, Syscalls
  <2>3. ~ReadSent'
    BY <2>1 DEF ReadSent
  <2>4. Stage(s)'
    BY <1>1, <1>3, <1>5, <2>3 DEF Stage
  <2> QED
    BY <1>6, <2>2, <2>4
<1> QED
  BY Zenon, <1>2, <1>7, <1>8, <1>9 DEF Consoles

\* The host takes a word out of tohost.
LEMMA TakeStep ==
    ASSUME OutKept, NEW s \in Places, Stage(s), QueueShape, InKept,
           HostDisplay \/ HostRead \/ HostExit
    PROVE  OutKept' /\ (\E z \in Places : Stage(z)') /\ QueueShape' /\ InKept'
<1>1. /\ tohost' = Zero
      /\ UNCHANGED <<at, op, fromhost, fromhost_queue, htif_console_buf, put, got, typed>>
  BY Zenon DEF HostDisplay, HostRead, HostExit, Take, consoleVars, callVars
<1>2. /\ InFromhost' = InFromhost /\ Typed' = Typed /\ ~ReadSent' /\ Asking' = Asking
      /\ \A k : Queued(k)' <=> Queued(k)
  BY Zenon, <1>1, WordFacts DEF InFromhost, Typed, ReadSent, Asking, Queued
<1>3. QueueShape'
  BY <1>1, <1>2 DEF QueueShape, Response
<1>4. InKept'
  BY <1>1, <1>2 DEF InKept
<1>5. ~(tohost'.dev = 1)
  BY <1>1 DEF Zero, Message
<1>6. CASE HostDisplay
  <2>1. put = shown' /\ reads' = reads
    BY <1>6 DEF HostDisplay, Take, OutKept
  <2>2. OutKept'
    BY Zenon, <1>1, <1>5, <2>1 DEF OutKept
  <2>3. Stage(s)'
    BY <1>1, <1>2, <2>1 DEF Stage
  <2> QED
    BY <1>3, <1>4, <2>2, <2>3
<1>7. CASE HostRead
  <2>1. put = shown /\ shown' = shown /\ ReadSent /\ reads' = reads + 1
    BY <1>7 DEF HostRead, Take, OutKept, ReadSent
  <2>2. s = "sent" /\ reads' = 1
    BY <2>1 DEF Stage
  <2>3. OutKept'
    BY <1>1, <1>5, <2>1 DEF OutKept
  <2>4. Stage("read")'
    BY Zenon, <1>1, <1>2, <2>2 DEF Stage
  <2> QED
    BY <1>3, <1>4, <2>3, <2>4 DEF Places
<1>8. CASE HostExit
  <2>1. put = shown /\ UNCHANGED <<shown, reads>>
    BY <1>8 DEF HostExit, Take, OutKept
  <2>2. OutKept'
    BY <1>1, <1>5, <2>1 DEF OutKept
  <2>3. Stage(s)'
    BY <1>1, <1>2, <2>1 DEF Stage
  <2> QED
    BY <1>3, <1>4, <2>2, <2>3
<1> QED
  BY Zenon, <1>6, <1>7, <1>8

\* A word behind the others in the queue.
LEMMA QueueAppend ==
    ASSUME NEW w \in Words, fromhost_queue \in Seq(Words),
           fromhost_queue' = Append(fromhost_queue, w)
    PROVE  LET n == Len(fromhost_queue) IN
           /\ n \in Nat /\ Len(fromhost_queue') = n + 1 /\ fromhost_queue'[n + 1] = w
           /\ \A k \in 1 .. n : fromhost_queue'[k] = fromhost_queue[k]
           /\ \A k : Queued(k)' <=> Queued(k) \/ (k = n + 1 /\ w.dev = 1)
<1> DEFINE n == Len(fromhost_queue)
<1>1. /\ n \in Nat /\ Len(fromhost_queue') = n + 1 /\ fromhost_queue'[n + 1] = w
      /\ \A k \in 1 .. n : fromhost_queue'[k] = fromhost_queue[k]
  OBVIOUS
<1> HIDE DEF n
<1>2. \A k : k \in 1 .. n + 1 <=> k \in 1 .. n \/ k = n + 1
  BY <1>1
<1>3. n + 1 \notin 1 .. n
  BY <1>1
<1>4. \A k : Queued(k)' <=> Queued(k) \/ (k = n + 1 /\ w.dev = 1)
  BY <1>1, <1>2, <1>3 DEF Queued, n
<1> QED
  BY <1>1, <1>4 DEF n

\* The host answers a call.
LEMMA SyscallStep ==
    ASSUME HtifInv, OutKept, NEW s \in Places, Stage(s), QueueShape, InKept, HostSyscall
    PROVE  OutKept' /\ Stage(s)' /\ QueueShape' /\ InKept'
<1> DEFINE w == Message(0, 0, 1)
           n == Len(fromhost_queue)
<1>1. /\ tohost' = Zero /\ tohost.dev = 0 /\ fromhost_queue' = Append(fromhost_queue, w)
      /\ UNCHANGED <<at, op, fromhost, htif_console_buf, put, got, typed, reads, shown>>
  BY DEF HostSyscall, Take, consoleVars, callVars
<1>2. w \in Words /\ w.dev = 0 /\ Response(w)
  BY DEF Words, Message, Response
<1> HIDE DEF w
<1>3. /\ n \in Nat /\ Len(fromhost_queue') = n + 1 /\ fromhost_queue'[n + 1] = w
      /\ \A k \in 1 .. n : fromhost_queue'[k] = fromhost_queue[k]
      /\ \A k : Queued(k)' <=> Queued(k)
  <2>1. fromhost_queue \in Seq(Words)
    BY Zenon DEF HtifInv, HtifTypeOK
  <2> QED
    BY <1>1, <1>2, <2>1, QueueAppend
<1>4. InFromhost' = InFromhost /\ Typed' = Typed /\ ~ReadSent' /\ Asking' = Asking
  BY Zenon, <1>1, WordFacts DEF InFromhost, Typed, ReadSent, Asking
<1>5. OutKept'
  BY <1>1 DEF OutKept, Zero, Message
<1>6. Stage(s)'
  BY Zenon, <1>1, <1>3, <1>4 DEF Stage
<1> HIDE DEF n
<1>7. \A k \in 1 .. n + 1 : k \in 1 .. n \/ k = n + 1
  BY <1>3
<1>8. \A k : Queued(k) => fromhost_queue'[k] = fromhost_queue[k]
  BY Zenon, <1>3 DEF Queued, n
<1>9. QueueShape'
  <2>1. \A k \in 1 .. n + 1 : Response(fromhost_queue'[k]) \/ Queued(k)'
    BY Zenon, <1>2, <1>3, <1>7 DEF QueueShape, n
  <2> QED
    BY Zenon, <1>1, <1>3, <1>4, <1>8, <2>1 DEF QueueShape, Response
<1>10. InKept'
  BY Zenon, <1>1, <1>3, <1>4, <1>8 DEF InKept
<1> QED
  BY <1>5, <1>6, <1>9, <1>10

\* Somebody types the character that was asked for.
LEMMA TypeStep ==
    ASSUME HtifInv, OutKept, NEW s \in Places, Stage(s), QueueShape, InKept, HostType
    PROVE  OutKept' /\ Stage("queue")' /\ QueueShape' /\ InKept'
<1> DEFINE x == Input[typed + 1]
           w == Message(1, 0, x)
           n == Len(fromhost_queue)
<1>1. /\ fromhost_queue' = Append(fromhost_queue, w) /\ reads' = reads - 1 /\ typed' = typed + 1
      /\ reads > 0 /\ typed < Len(Input)
      /\ UNCHANGED <<at, op, tohost, fromhost, htif_console_buf, put, got, shown>>
  BY DEF HostType, consoleVars, callVars
<1>2. typed \in Nat /\ Input \in Seq(Char) /\ typed + 1 \in 1 .. Len(Input) /\ x \in Char /\ x \in Int
  <2>1. typed \in Nat /\ Input \in Seq(Char)
    BY HtifAssumption DEF HtifInv, HtifTypeOK
  <2>2. typed + 1 \in 1 .. Len(Input)
    BY <1>1, <2>1
  <2>3. x \in Char
    BY <2>1, <2>2
  <2> QED
    BY Zenon, <2>1, <2>2, <2>3, CharsAreInts
<1>3. /\ s = "read" /\ reads = 1 /\ ~Asking /\ ~ReadSent /\ ~InFromhost
      /\ htif_console_buf = -1 /\ \A k : ~Queued(k)
  BY <1>1 DEF Stage
<1>4. Typed = got
  BY <1>3 DEF InKept
<1>5. SubSeq(Input, 1, typed + 1) = Append(SubSeq(Input, 1, typed), Input[typed + 1])
  BY <1>1, <1>2
<1>6. Typed' = Append(got, x)
  BY Zenon, <1>1, <1>4, <1>5 DEF Typed
<1> HIDE DEF x
<1>7. w \in Words /\ w.dev = 1 /\ w.data = x
  BY Zenon, <1>2 DEF Words, Message
<1> HIDE DEF w
<1>8. /\ n \in Nat /\ Len(fromhost_queue') = n + 1 /\ fromhost_queue'[n + 1] = w
      /\ \A k \in 1 .. n : fromhost_queue'[k] = fromhost_queue[k]
      /\ \A k : Queued(k)' <=> k = n + 1
  <2>1. fromhost_queue \in Seq(Words)
    BY DEF HtifInv, HtifTypeOK
  <2>2. /\ n \in Nat /\ Len(fromhost_queue') = n + 1 /\ fromhost_queue'[n + 1] = w
        /\ \A k \in 1 .. n : fromhost_queue'[k] = fromhost_queue[k]
        /\ \A k : Queued(k)' <=> Queued(k) \/ (k = n + 1 /\ w.dev = 1)
    BY Zenon, <1>1, <1>7, <2>1, QueueAppend
  <2> QED
    BY Zenon, <1>3, <1>7, <2>2
<1>9. ~InFromhost' /\ ~ReadSent' /\ ~Asking' /\ reads' = 0
  BY <1>1, <1>3 DEF InFromhost, ReadSent, Asking
<1>10. OutKept'
  BY <1>1 DEF OutKept
<1>11. Stage("queue")'
  BY Zenon, <1>1, <1>3, <1>9 DEF Stage
<1> HIDE DEF n
<1>12. QueueShape'
  <2>1. \A k \in 1 .. n + 1 : k \in 1 .. n \/ k = n + 1
    BY <1>8
  <2>2. \A k \in 1 .. n : Response(fromhost_queue[k])
    BY Zenon, <1>3 DEF QueueShape, n
  <2>3. \A k \in 1 .. n + 1 : Response(fromhost_queue'[k]) \/ Queued(k)'
    BY Zenon, <1>8, <2>1, <2>2
  <2> QED
    BY <1>2, <1>7, <1>8, <1>9, <2>3 DEF QueueShape, Response
<1>13. InKept'
  <2>1. typed' <= Len(Input)
    BY <1>1, <1>2
  <2>2. \E k : Queued(k)'
    BY Zenon, <1>8
  <2>3. ASSUME NEW k, Queued(k)' PROVE Typed' = Append(got', fromhost_queue'[k].data)
    <3>1. k = n + 1
      BY Zenon, <1>8, <2>3
    <3> QED BY Zenon, <1>1, <1>6, <1>7, <1>8, <3>1
  <2>4. got' \in Seq(Int) /\ htif_console_buf' = -1
    BY <1>1, <1>3 DEF InKept
  <2> QED
    BY <1>9, <2>1, <2>2, <2>3, <2>4 DEF InKept
<1> QED
  BY Zenon, <1>10, <1>11, <1>12, <1>13

\* The host moves the first word of its queue to fromhost.
LEMMA RespondStep ==
    ASSUME HtifInv, OutKept, NEW s \in Places, Stage(s), QueueShape, InKept, HostRespond
    PROVE  OutKept' /\ (\E z \in Places : Stage(z)') /\ QueueShape' /\ InKept'
<1> DEFINE n == Len(fromhost_queue)
<1>1. /\ fromhost_queue # <<>> /\ fromhost = Zero /\ fromhost' = Head(fromhost_queue)
      /\ fromhost_queue' = Tail(fromhost_queue)
      /\ UNCHANGED <<at, op, tohost, htif_console_buf, put, got, shown, reads, typed>>
  BY Zenon DEF HostRespond, consoleVars, callVars
<1>2. /\ n \in Nat /\ n >= 1 /\ fromhost' = fromhost_queue[1] /\ Len(fromhost_queue') = n - 1
      /\ \A k \in 1 .. n - 1 : fromhost_queue'[k] = fromhost_queue[k + 1] /\ k + 1 \in 1 .. n
  BY <1>1 DEF HtifInv, HtifTypeOK
<1>3. ReadSent' = ReadSent /\ Asking' = Asking /\ Typed' = Typed /\ ~InFromhost
  BY Zenon, <1>1, WordFacts DEF InFromhost, Typed, ReadSent, Asking
<1>4. InFromhost' <=> Queued(1)
  BY <1>2 DEF InFromhost, Queued
<1>5. \A k : Queued(k)' => /\ k \in 1 .. n - 1 /\ Queued(k + 1) /\ k + 1 # 1
                           /\ fromhost_queue'[k] = fromhost_queue[k + 1]
  BY <1>2 DEF Queued
<1>6. \A k : Queued(k) => k = 1 \/ Queued(k - 1)'
  BY <1>2 DEF Queued
<1>7. OutKept'
  BY Zenon, <1>1 DEF OutKept
<1> HIDE DEF n
<1>8. QueueShape'
  <2>1. ASSUME NEW k \in 1 .. n - 1 PROVE Response(fromhost_queue'[k]) \/ Queued(k)'
    <3>1. Response(fromhost_queue[k + 1]) \/ Queued(k + 1)
      BY <1>2 DEF QueueShape, n
    <3> QED
      BY Zenon, <1>2, <3>1 DEF Queued
  <2>2. ASSUME NEW k, NEW l, Queued(k)', Queued(l)' PROVE k = l
    <3>1. k \in 1 .. n - 1 /\ l \in 1 .. n - 1 /\ k + 1 = l + 1
      BY Zenon, <1>5, <2>2 DEF QueueShape
    <3> HIDE DEF HtifInv, QueueShape, InKept, OutKept, Stage
    <3> QED
      BY <3>1
  <2>3. \A k : Queued(k)' => fromhost_queue'[k].data \in Char
    BY Zenon, <1>5 DEF QueueShape
  <2>4. InFromhost' => fromhost'.data \in Char
    BY <1>2, <1>4 DEF QueueShape
  <2> QED
    BY Zenon, <1>2, <2>1, <2>2, <2>3, <2>4 DEF QueueShape, Response
<1>9. CASE Queued(1)
  <2>1. s = "queue" /\ ~ReadSent /\ ~Asking /\ reads = 0 /\ htif_console_buf = -1
    BY <1>9 DEF Stage
  <2>2. \A k : ~Queued(k)'
    BY <1>5, <1>9 DEF QueueShape
  <2>3. Stage("fromhost")'
    BY Zenon, <1>1, <1>3, <2>1, <2>2 DEF Stage
  <2>4. InKept'
    BY Zenon, <1>1, <1>2, <1>3, <1>4, <1>9, <2>1, <2>2 DEF InKept
  <2> QED
    BY <1>7, <1>8, <2>3, <2>4 DEF Places
<1>10. CASE ~Queued(1)
  <2>1. Stage(s)'
    BY Zenon, <1>1, <1>3, <1>4, <1>5, <1>10 DEF Stage
  <2>2. \A k : Queued(k)' => Typed = Append(got, fromhost_queue'[k].data)
    BY <1>5 DEF InKept
  <2>3. (\A k : ~Queued(k)') => \A k : ~Queued(k)
    BY Zenon, <1>6, <1>10
  <2>4. InKept'
    BY Zenon, <1>1, <1>3, <1>4, <1>10, <2>2, <2>3 DEF InKept
  <2> QED
    BY Zenon, <1>7, <1>8, <2>1, <2>4
<1> QED
  BY Zenon, <1>9, <1>10

\* A step of a hart or of the host keeps the console, unless a hart switches
\* the machine off.
LEMMA ConsoleStep ==
    ASSUME LockInv, HtifInv, ConsoleInv, HtifNext PROVE ConsoleInv'
<1> SUFFICES ASSUME NoPoweroff' PROVE OutKept' /\ (\E z \in Places : Stage(z)') /\ QueueShape' /\ InKept'
  BY DEF ConsoleInv
<1>0. /\ op \in [CPU -> Syscalls \cup Consoles \cup {"none", "poweroff"}]
      /\ at \in [CPU -> Inside \cup {"idle", "lock", "done"}]
      /\ \A c \in CPU : at[c] # "idle" => op[c] \in Syscalls \cup Consoles
  BY DEF HtifInv, HtifTypeOK, PlacesAgree
<1>1. NoPoweroff
  <2> SUFFICES ASSUME NEW d \in CPU, op[d] = "poweroff" PROVE op'[d] = "poweroff"
    BY Zenon DEF NoPoweroff
  <2>1. ASSUME NEW c \in CPU, Begin(c) PROVE op'[d] = "poweroff"
    BY Zenon, <1>0, <2>1 DEF Begin, FrontendSyscall, Putchar, Getchar, Console, Poweroff
  <2>2. ASSUME NEW c \in CPU, Continue(c) PROVE op'[d] = "poweroff"
    <3>1. CASE Return(c)
      BY Zenon, <1>0, <3>1 DEF Return, Syscalls, Consoles
    <3>2. CASE ~Return(c)
      BY Zenon, <2>2, <3>2
         DEF Continue, Lock, Fill, LockHtif, SetWait, SetTohost, Answer, AnswerOther,
                        Get, UnlockHtif, callVars
    <3> QED
      BY <3>1, <3>2
  <2>3. Host \/ HostType => op' = op
    BY DEF Host, HostSyscall, HostExit, HostDisplay, HostRead, HostRespond, HostType, Take, callVars
  <2> QED
    BY Zenon, <2>1, <2>2, <2>3 DEF HtifNext
<1>2. PICK s \in Places : OutKept /\ Stage(s) /\ QueueShape /\ InKept
  BY <1>1 DEF ConsoleInv
<1>3. ASSUME NEW c \in CPU, Begin(c)
      PROVE  OutKept' /\ (\E z \in Places : Stage(z)') /\ QueueShape' /\ InKept'
  <2>1. ~Poweroff(c)
    BY Zenon, <1>0 DEF Poweroff, NoPoweroff
  <2>2. /\ UNCHANGED <<tohost, fromhost, fromhost_queue, reads, htif_console_buf, put, shown,
                       got, typed>>
        /\ Asking' => Asking
    BY Zenon, <1>0, <1>3, <2>1
       DEF Begin, FrontendSyscall, Putchar, Getchar, Console, Move, consoleVars,
                            hostVars, Asking, Syscalls
  <2> QED
    BY <1>2, <2>2, QuietConsole
<1>4. ASSUME NEW c \in CPU, Continue(c)
      PROVE  OutKept' /\ (\E z \in Places : Stage(z)') /\ QueueShape' /\ InKept'
  <2>1. CASE Lock(c) \/ Fill(c) \/ LockHtif(c) \/ UnlockHtif(c) \/ Return(c)
    <3>1. UNCHANGED <<tohost, fromhost, fromhost_queue, reads, htif_console_buf, put, shown,
                      got, typed>>
      BY ZenonT(60), <2>1 DEF Lock, Fill, LockHtif, UnlockHtif, Return, consoleVars, hostVars
    <3>2. Asking' => Asking
      BY Zenon, <1>0, <2>1 DEF Lock, Fill, LockHtif, UnlockHtif, Return, Move, Asking, callVars
    <3> QED
      BY Zenon, <1>2, <3>1, <3>2, QuietConsole
  <2>2. CASE SetWait(c) \/ AnswerOther(c)
    <3>1. InFromhost /\ fromhost.cmd = 0 /\ fromhost.dev = 1
      <4>1. Proper(fromhost)
        BY ZenonT(60) DEF HtifInv, OneRequest
      <4>2. fromhost # Zero
        BY <2>2 DEF SetWait, AnswerOther, Zero, Message
      <4>3. ~Response(fromhost)
        <5>1. CASE SetWait(c)
          BY ZenonT(60), <5>1 DEF SetWait, HtifInv, OneRequest, PlacesAgree, Waiting, Inside
        <5>2. CASE AnswerOther(c)
          BY <5>2 DEF AnswerOther, Response, Message
        <5> QED
          BY Zenon, <2>2, <5>1, <5>2
      <4> QED
        BY Zenon, <4>1, <4>2, <4>3 DEF Proper, InFromhost
    <3>2. /\ fromhost' = Zero /\ htif_console_buf' = 1 + fromhost.data
          /\ UNCHANGED <<tohost, fromhost_queue, reads, put, shown, got, typed>>
      BY Zenon, <2>2, <3>1 DEF SetWait, AnswerOther, CheckFromhost, BufferAfter, hostVars
    <3>3. Asking' => Asking
      BY Zenon, <1>0, <2>2 DEF SetWait, AnswerOther, CheckFromhost, Move, Asking, callVars
    <3>4. Stage("nowhere")' /\ OutKept' /\ QueueShape' /\ InKept'
      BY <1>2, <3>1, <3>2, <3>3, CollectStep
    <3> QED
      BY <3>4 DEF Places
  <2>3. CASE SetTohost(c)
    BY <1>2, <2>3, SetTohostStep
  <2>4. CASE Get(c)
    BY <1>2, <2>4, GetStep
  <2>5. CASE Answer(c)
    <3>1. /\ ~InFromhost /\ fromhost' = Zero
          /\ UNCHANGED <<tohost, fromhost_queue, reads, htif_console_buf, put, shown, got, typed>>
      BY <2>5 DEF Answer, InFromhost, hostVars, consoleVars
    <3>2. Asking' => Asking
      BY Zenon, <1>0, <2>5 DEF Answer, Move, Asking, callVars
    <3>3. ~InFromhost' /\ ReadSent' = ReadSent /\ Typed' = Typed
          /\ \A k : Queued(k)' <=> Queued(k)
      BY Zenon, <3>1, WordFacts DEF InFromhost, ReadSent, Typed, Queued
    <3>4. OutKept' /\ Stage(s)'
      BY Zenon, <1>2, <3>1, <3>2, <3>3 DEF OutKept, Stage
    <3>5. QueueShape'
      BY Zenon, <1>2, <3>1, <3>3 DEF QueueShape, Response
    <3>6. InKept'
      BY Zenon, <1>2, <3>1, <3>3 DEF InKept
    <3> QED
      BY Zenon, <3>4, <3>5, <3>6
  <2> QED
    BY Zenon, <1>4, <2>1, <2>2, <2>3, <2>4, <2>5 DEF Continue
<1>5. CASE Host \/ HostType
  <2>1. CASE HostDisplay \/ HostRead \/ HostExit
    BY <1>2, <2>1, TakeStep
  <2>2. CASE HostSyscall
    BY <1>2, <2>2, SyscallStep
  <2>3. CASE HostType
    <3>1. OutKept' /\ Stage("queue")' /\ QueueShape' /\ InKept'
      BY <1>2, <2>3, TypeStep
    <3> QED
      BY <3>1 DEF Places
  <2>4. CASE HostRespond
    BY <1>2, <2>4, RespondStep
  <2> QED
    BY Zenon, <1>5, <2>1, <2>2, <2>3, <2>4 DEF Host
<1> QED
  BY <1>3, <1>4, <1>5 DEF HtifNext

\* The invariant of the console holds throughout.
LEMMA ConsoleInvAlways == HtifSpec => []ConsoleInv
<1>1. HtifInit => ConsoleInv
  <2> SUFFICES ASSUME HtifInit PROVE OutKept /\ Stage("nowhere") /\ QueueShape /\ InKept
    BY DEF ConsoleInv, Places
  <2>1. Input \in Seq(Char) /\ Len(Input) \in Nat /\ SubSeq(Input, 1, 0) = <<>>
    BY HtifAssumption
  <2>2. /\ tohost.dev = 0 /\ ~InFromhost /\ ~ReadSent /\ ~Asking /\ \A k : ~Queued(k)
        /\ Len(fromhost_queue) = 0
    BY DEF HtifInit, InFromhost, ReadSent, Asking, Queued, Zero, Message
  <2>3. OutKept /\ Stage("nowhere")
    BY <2>2 DEF HtifInit, OutKept, Stage
  <2>4. QueueShape
    BY <2>2 DEF QueueShape
  <2>5. InKept
    BY <2>1, <2>2 DEF HtifInit, InKept, Typed
  <2> QED
    BY <2>3, <2>4, <2>5
<1>2. LockInv /\ HtifInv /\ ConsoleInv /\ [HtifNext]_htifVars => ConsoleInv'
  <2> SUFFICES ASSUME LockInv, HtifInv, ConsoleInv, [HtifNext]_htifVars PROVE ConsoleInv'
    OBVIOUS
  <2>1. CASE UNCHANGED htifVars
    <3>1. /\ UNCHANGED <<tohost, fromhost, fromhost_queue, reads, htif_console_buf, put, shown,
                         got, typed>>
          /\ NoPoweroff' = NoPoweroff /\ (Asking' => Asking)
      BY Zenon, <2>1 DEF htifVars, hostVars, consoleVars, callVars, NoPoweroff, Asking
    <3> QED
      BY Zenon, <3>1, QuietConsole DEF ConsoleInv
  <2> QED
    BY <2>1, ConsoleStep
<1> QED
  BY <1>1, <1>2, HtifInvAlways, LockInvHtif, PTL DEF HtifSpec

\* The sequences of ConsoleKept.
LEMMA Joined ==
    /\ \A q \in Seq(Int) : q \o <<>> = q
    /\ \A q \in Seq(Int), x \in Int : q \o <<x>> = Append(q, x) /\ Append(q, x) \in Seq(Int)
    /\ <<>> \o <<>> = <<>> /\ \A x \in Int : <<x>> \o <<>> = <<x>> /\ <<>> \o <<x>> = <<x>>
OBVIOUS

\* At most one of three parts is not empty, and has one element.
LEMMA JoinedThree ==
    ASSUME NEW q \in Seq(Int), NEW x \in Int
    PROVE  /\ ((q \o <<x>>) \o <<>>) \o <<>> = Append(q, x)
           /\ ((q \o <<>>) \o <<x>>) \o <<>> = Append(q, x)
           /\ ((q \o <<>>) \o <<>>) \o <<x>> = Append(q, x)
           /\ ((q \o <<>>) \o <<>>) \o <<>> = q
<1> DEFINE z == Append(q, x)
<1>1. q \o <<>> = q /\ q \o <<x>> = z /\ z \in Seq(Int)
  BY Joined
<1> HIDE DEF z
<1>2. z \o <<>> = z
  BY <1>1, Joined
<1>3. z = Append(q, x)
  BY DEF z
<1> QED
  BY <1>1, <1>2, <1>3, Zenon

\* No character is lost, repeated or reordered on its way from putchar to the
\* display, or from the keyboard to getchar, whatever the harts, the locks and
\* the host do in between.
THEOREM HtifConsoleKept == HtifSpec => []ConsoleKept
<1>1. HtifInv /\ ConsoleInv => ConsoleKept
  <2> SUFFICES ASSUME HtifInv, ConsoleInv, NoPoweroff PROVE ConsoleKept
    BY Zenon DEF ConsoleKept, NoPoweroff
  <2> DEFINE q == fromhost_queue
             n == Len(q)
             InTohost == IF tohost.dev = 1 /\ tohost.cmd = 1 THEN <<tohost.data>> ELSE <<>>
             InBuffer == IF htif_console_buf > 0 THEN <<htif_console_buf - 1>> ELSE <<>>
             Chars(w) == IF w.dev = 1 THEN <<w.data>> ELSE <<>>
             InQueue  == IF q = <<>> THEN <<>>
                         ELSE Chars(q[1]) \o IF n = 1 THEN <<>> ELSE Chars(q[2])
  <2>1. PICK s \in Places : OutKept /\ Stage(s) /\ QueueShape /\ InKept
    BY DEF ConsoleInv
  <2>2. /\ q \in Seq(Words) /\ n \in Nat /\ tohost.data \in Int /\ fromhost.data \in Int
        /\ \A k \in 1 .. n : q[k].data \in Int
    <3>1. q \in Seq(Words) /\ tohost \in Words /\ fromhost \in Words
      BY DEF HtifInv, HtifTypeOK
    <3>2. n \in Nat /\ \A k \in 1 .. n : q[k] \in Words
      BY <3>1
    <3>3. \A w \in Words : w.data \in Int
      BY Zenon DEF Words
    <3> HIDE DEF q, n
    <3> QED
      BY <3>1, <3>2, <3>3
  <2>3. put = shown \o InTohost
    BY Zenon, <2>1, <2>2, Joined DEF OutKept
  <2>4. n <= 2
    <3>1. \A k, l \in 1 .. n : Response(q[k]) /\ Response(q[l]) => k = l
      BY Zenon DEF HtifInv, OneRequest
    <3>2. \A k \in 1 .. n : Response(q[k]) \/ Queued(k)
      BY Zenon, <2>1 DEF QueueShape
    <3>3. \A k, l : Queued(k) /\ Queued(l) => k = l
      BY Zenon, <2>1 DEF QueueShape
    <3>4. n > 2 => 1 \in 1 .. n /\ 2 \in 1 .. n /\ 3 \in 1 .. n
      BY <2>2
    <3> HIDE DEF q, n
    <3>5. ~(n > 2)
      BY <3>1, <3>2, <3>3, <3>4
    <3> QED
      BY <2>2, <3>5
  <2>12. n \in {0, 1, 2}
    <3> HIDE DEF n
    <3> QED
      BY <2>2, <2>4
  <2>5. n = 0 <=> q = <<>>
    BY <2>2
  <2>6. \A k \in 1 .. n : q[k].dev = 1 <=> Queued(k)
    BY Zenon DEF Queued
  <2>7. (\A k : ~Queued(k)) => InQueue = <<>>
    <3> HIDE DEF q, n
    <3> QED
      BY <2>12, <2>5, <2>6, Joined
  <2>8. ASSUME NEW k, Queued(k) PROVE InQueue = <<q[k].data>>
    <3>1. k \in 1 .. n /\ n \in {0, 1, 2} /\ \A l : Queued(l) => l = k
      BY Zenon, <2>12, <2>1, <2>8 DEF Queued, QueueShape
    <3> HIDE DEF q, n
    <3>2. CASE n = 1
      <4>1. k = 1 /\ q # <<>> /\ q[1].dev = 1 /\ q[1].data \in Int
        BY <2>2, <2>5, <2>6, <2>8, <3>1, <3>2
      <4> QED
        BY Zenon, <3>2, <4>1, Joined
    <3>3. CASE n = 2
      <4>1. k \in {1, 2} /\ q # <<>> /\ n # 1 /\ 1 \in 1 .. n /\ 2 \in 1 .. n
        BY <2>2, <2>5, <3>1, <3>3
      <4>2. CASE k = 1
        <5>1. q[1].dev = 1 /\ q[2].dev # 1 /\ q[1].data \in Int
          BY <2>2, <2>6, <2>8, <3>1, <4>1, <4>2
        <5> QED
          BY Zenon, <4>1, <4>2, <5>1, Joined
      <4>3. CASE k = 2
        <5>1. q[2].dev = 1 /\ q[1].dev # 1 /\ q[2].data \in Int
          BY <2>2, <2>6, <2>8, <3>1, <4>1, <4>3
        <5> QED
          BY Zenon, <4>1, <4>3, <5>1, Joined
      <4> QED
        BY Zenon, <4>1, <4>2, <4>3
    <3> QED
      BY <3>1, <3>2, <3>3
  <2> HIDE DEF InQueue
  <2>9. Typed = got \o InBuffer \o Chars(fromhost) \o InQueue
    <3>1. got \in Seq(Int) /\ htif_console_buf \in Int
      BY <2>1 DEF InKept
    <3>2. CASE htif_console_buf > 0
      <4>1. ~InFromhost /\ \A k : ~Queued(k)
        BY <2>1, <3>1, <3>2 DEF Stage
      <4>2. Chars(fromhost) = <<>> /\ InQueue = <<>> /\ InBuffer = <<htif_console_buf - 1>>
        BY Zenon, <2>7, <3>2, <4>1 DEF InFromhost
      <4>3. Typed = Append(got, htif_console_buf - 1) /\ htif_console_buf - 1 \in Int
        BY <2>1, <3>1, <3>2 DEF InKept
      <4> HIDE DEF Chars, InBuffer, q
      <4> QED
        BY <3>1, <4>2, <4>3, JoinedThree, Zenon
    <3>3. CASE InFromhost
      <4>1. htif_console_buf = -1 /\ \A k : ~Queued(k)
        BY <2>1, <3>3 DEF Stage
      <4>2. Chars(fromhost) = <<fromhost.data>> /\ InQueue = <<>> /\ InBuffer = <<>>
        BY <2>7, <3>3, <4>1 DEF InFromhost
      <4>3. Typed = Append(got, fromhost.data) /\ fromhost.data \in Int
        BY <2>1, <2>2, <3>3 DEF InKept
      <4> HIDE DEF Chars, InBuffer, q
      <4> QED
        BY <3>1, <4>2, <4>3, JoinedThree, Zenon
    <3>4. ASSUME NEW k, Queued(k) PROVE Typed = got \o InBuffer \o Chars(fromhost) \o InQueue
      <4>1. htif_console_buf = -1 /\ ~InFromhost
        BY Zenon, <2>1, <3>4 DEF Stage
      <4>2. Chars(fromhost) = <<>> /\ InQueue = <<q[k].data>> /\ InBuffer = <<>>
        BY <2>8, <3>4, <4>1 DEF InFromhost
      <4>3. Typed = Append(got, q[k].data) /\ q[k].data \in Int
        BY Zenon, <2>1, <2>2, <3>4 DEF InKept, Queued
      <4> HIDE DEF Chars, InBuffer, q
      <4> QED
        BY <3>1, <4>2, <4>3, JoinedThree, Zenon
    <3>5. CASE ~(htif_console_buf > 0) /\ ~InFromhost /\ \A k : ~Queued(k)
      <4>1. Chars(fromhost) = <<>> /\ InQueue = <<>> /\ InBuffer = <<>>
        BY <2>7, <3>5 DEF InFromhost
      <4>2. Typed = got
        BY <2>1, <3>1, <3>5 DEF InKept
      <4> HIDE DEF Chars, InBuffer
      <4>3. 0 \in Int
        OBVIOUS
      <4> QED
        BY <3>1, <4>1, <4>2, <4>3, JoinedThree, Zenon
    <3> QED
      BY Zenon, <3>2, <3>3, <3>4, <3>5
  <2> QED
    BY Zenon, <2>3, <2>9 DEF ConsoleKept, Typed, InQueue
<1> QED
  BY <1>1, HtifInvAlways, ConsoleInvAlways, PTL
=============================================================================

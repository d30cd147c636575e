-------------------------------- MODULE Htif --------------------------------
(***************************************************************************)
(* Calls to the host: frontend_syscall of spike_interface/spike_utils.c    *)
(* with its buffer magic_mem, and the host-target interface of             *)
(* spike_interface/spike_htif.c with the words tohost and fromhost and the *)
(* console.  Several harts call; the host answers in its own time.         *)
(*                                                                         *)
(* Two locks are nested.  The static lock of frontend_syscall is the lock  *)
(* of module SpinLock, step by step.  htif_lock is the same code and is    *)
(* taken here for the mutex that SpinLock implements: an owner or NoCPU.   *)
(*                                                                         *)
(* Everything the kernel prints is a call: sprint is a write to stderr.    *)
(* shutdown, and panic after its message, is the call "exit".              *)
(***************************************************************************)
EXTENDS SpinLock, Sequences

CONSTANTS NoCPU,
          Char,        \* characters of the console
          Input,       \* what is typed at the console
          MaxPut       \* bound on the characters written to the console

ASSUME HtifAssumption == /\ NoCPU \notin CPU
                         /\ Impl = "atomic"
                         /\ Char \subseteq 0 .. 255
                         /\ Input \in Seq(Char)
                         /\ MaxPut \in Nat

VARIABLES op, arg,           \* what a hart was asked to do; a character to put
          at,                \* where it is in spike_htif.c
          magic_mem,         \* whose request the buffer holds, and if answered
          htif_lock,
          tohost, fromhost,
          htif_console_buf,
          fromhost_queue,    \* responses that wait for fromhost to be 0
          reads,             \* reads of the console not yet answered
          power,
          served,            \* how often the host executed a hart's call
          put, shown,        \* characters given to putchar, and displayed
          got, typed         \* characters returned by getchar; how many answered

lockVars    == <<lock, pc>>
callVars    == <<op, arg>>
memVars     == <<magic_mem, served>>
consoleVars == <<htif_console_buf, put, got>>
hostVars    == <<fromhost_queue, reads, power, shown, typed>>
htifVars    == <<lockVars, callVars, at, memVars, htif_lock, tohost, fromhost,
                 consoleVars, hostVars>>

Syscalls == {"io", "exit"}

\* The 64-bit words: device, command and payload.
Message(dev, cmd, data) == [dev |-> dev, cmd |-> cmd, data |-> data]
Zero     == Message(0, 0, 0)
MagicMem == 2                  \* the address of magic_mem: even, not 0

HtifInit ==
    /\ Init
    /\ op = [c \in CPU |-> "none"] /\ arg = [c \in CPU |-> 0]
    /\ at = [c \in CPU |-> "idle"]
    /\ magic_mem = [from |-> NoCPU, answered |-> FALSE]
    /\ htif_lock = NoCPU
    /\ tohost = Zero /\ fromhost = Zero
    /\ htif_console_buf = 0
    /\ fromhost_queue = <<>> /\ reads = 0 /\ power = "on"
    /\ served = [c \in CPU |-> 0]
    /\ put = <<>> /\ shown = <<>> /\ got = <<>> /\ typed = 0

Move(c, label) == at' = [at EXCEPT ![c] = label]
-----------------------------------------------------------------------------
\* frontend_syscall is called and goes for its lock.
FrontendSyscall(c, n) ==
    /\ op[c] = "none"
    /\ Call(c)
    /\ op' = [op EXCEPT ![c] = n]
    /\ served' = [served EXCEPT ![c] = 0]
    /\ UNCHANGED <<arg, at, magic_mem, htif_lock, tohost, fromhost, consoleVars, hostVars>>

\* spinlock_lock of frontend_syscall.
Lock(c) ==
    /\ Test(c) \/ Swap(c)
    /\ UNCHANGED <<callVars, at, memVars, htif_lock, tohost, fromhost, consoleVars, hostVars>>

\* The eight words of the request.
Fill(c) ==
    /\ pc[c] = "held" /\ at[c] = "idle"
    /\ magic_mem' = [from |-> c, answered |-> FALSE]
    /\ Move(c, "lock")
    /\ UNCHANGED <<lockVars, callVars, served, htif_lock, tohost, fromhost, consoleVars,
                   hostVars>>

\* htif_console_putchar and htif_console_getchar do not take the outer lock.
Console(c, name, ch) ==
    /\ op[c] = "none"
    /\ op' = [op EXCEPT ![c] = name]
    /\ arg' = [arg EXCEPT ![c] = ch]
    /\ Move(c, "lock")
    /\ UNCHANGED <<lockVars, memVars, htif_lock, tohost, fromhost, consoleVars, hostVars>>

Putchar(c, ch) == Len(put) < MaxPut /\ Console(c, "putchar", ch)
Getchar(c)     == Console(c, "getchar", 0)

\* A lock that lets a hart pass while another is inside.
HtifFreeAlways == TRUE

HtifFree == htif_lock = NoCPU

LockHtif(c) ==
    /\ at[c] = "lock"
    /\ HtifFree
    /\ htif_lock' = c
    /\ Move(c, IF op[c] = "getchar" THEN "get" ELSE "set")
    /\ UNCHANGED <<lockVars, callVars, memVars, tohost, fromhost, consoleVars, hostVars>>

\* A response that __check_fromhost accepts, and the buffer after it.
FromConsole(fh) == fh = Zero \/ (fh.dev = 1 /\ fh.cmd \in {0, 1})
BufferAfter(fh) == IF fh.dev = 1 /\ fh.cmd = 0 THEN 1 + fh.data ELSE htif_console_buf

\* __check_fromhost, continuing at label: the word is cleared and a character
\* kept; anything that is not from the console fails an assertion.
CheckFromhost(c, label) ==
    /\ fromhost' = Zero
    /\ Move(c, IF FromConsole(fromhost) THEN label ELSE "assert")

\* The loop of __set_tohost while the host has not taken the last word.
SetWait(c) ==
    /\ at[c] = "set"
    /\ tohost # Zero /\ fromhost # Zero
    /\ CheckFromhost(c, "set")
    /\ htif_console_buf' = BufferAfter(fromhost)
    /\ UNCHANGED <<lockVars, callVars, memVars, htif_lock, tohost, put, got, hostVars>>

Request(c) == IF op[c] = "putchar" THEN Message(1, 1, arg[c])
              ELSE IF op[c] = "getchar" THEN Message(1, 0, 0)
              ELSE Message(0, 0, MagicMem)

ReadyToSet == tohost = Zero

\* A system call that does not wait for its answer.
AfterSetUnlock(c) == "unlock"

\* Only do_tohost_fromhost waits for a response.
AfterSet(c) == IF op[c] \in Syscalls THEN "answer" ELSE "unlock"

\* The end of __set_tohost.
SetTohost(c) ==
    /\ at[c] = "set"
    /\ ReadyToSet
    /\ tohost' = Request(c)
    /\ put' = IF op[c] = "putchar" THEN Append(put, arg[c]) ELSE put
    /\ Move(c, AfterSet(c))
    /\ UNCHANGED <<lockVars, callVars, memVars, htif_lock, fromhost, htif_console_buf, got,
                   hostVars>>

\* The loop of do_tohost_fromhost ends with the response to the call.
Answer(c) ==
    /\ at[c] = "answer"
    /\ fromhost # Zero /\ fromhost.dev = 0 /\ fromhost.cmd = 0
    /\ fromhost' = Zero
    /\ Move(c, "unlock")
    /\ UNCHANGED <<lockVars, callVars, memVars, htif_lock, tohost, consoleVars, hostVars>>

\* A response of the console is put aside in between.
AnswerOther(c) ==
    /\ at[c] = "answer"
    /\ ~(fromhost.dev = 0 /\ fromhost.cmd = 0)
    /\ CheckFromhost(c, "answer")
    /\ htif_console_buf' = BufferAfter(fromhost)
    /\ UNCHANGED <<lockVars, callVars, memVars, htif_lock, tohost, put, got, hostVars>>

\* A getchar that asks again although its last question is still open.
AsksAlways(ch) == TRUE

\* A character was taken, or none was ever asked for.
Asks(ch) == ch >= 0

\* htif_console_getchar from its lock to __set_tohost.
Get(c) ==
    LET ch == BufferAfter(fromhost)
    IN  /\ at[c] = "get"
        /\ CheckFromhost(c, IF Asks(ch) THEN "set" ELSE "unlock")
        /\ htif_console_buf' = -1
        /\ got' = IF ch > 0 THEN Append(got, ch - 1) ELSE got
        /\ UNCHANGED <<lockVars, callVars, memVars, htif_lock, tohost, put, hostVars>>

UnlockHtif(c) ==
    /\ at[c] = "unlock"
    /\ htif_lock' = NoCPU
    /\ Move(c, "done")
    /\ UNCHANGED <<lockVars, callVars, memVars, tohost, fromhost, consoleVars, hostVars>>

\* The result is read from magic_mem and the outer lock released, or a console
\* function returns.
Return(c) ==
    /\ at[c] = "done"
    /\ Move(c, "idle")
    /\ op' = [op EXCEPT ![c] = "none"]
    /\ IF op[c] \in Syscalls THEN Release(c) ELSE UNCHANGED lockVars
    /\ UNCHANGED <<arg, memVars, htif_lock, tohost, fromhost, consoleVars, hostVars>>

\* htif_poweroff stores for ever, without a lock.
Poweroff(c) ==
    /\ op[c] \in {"none", "poweroff"}
    /\ op' = [op EXCEPT ![c] = "poweroff"]
    /\ fromhost' = Zero
    /\ tohost' = Message(0, 0, 1)
    /\ UNCHANGED <<lockVars, arg, at, memVars, htif_lock, consoleVars, hostVars>>

\* A hart is asked to do something.
Begin(c) == \/ \E n \in Syscalls : FrontendSyscall(c, n)
            \/ \E ch \in Char : Putchar(c, ch)
            \/ Getchar(c)
            \/ Poweroff(c)

\* It goes on with what it was asked to do.
Continue(c) ==
    \/ Lock(c) \/ Fill(c) \/ LockHtif(c) \/ SetWait(c) \/ SetTohost(c) \/ Answer(c)
    \/ AnswerOther(c) \/ Get(c) \/ UnlockHtif(c) \/ Return(c)
-----------------------------------------------------------------------------
\* The host reads tohost, clears it and executes the command.
Take(dev, cmd) ==
    /\ tohost # Zero /\ tohost.dev = dev /\ tohost.cmd = cmd
    /\ tohost' = Zero
    /\ UNCHANGED <<lockVars, callVars, at, htif_lock, fromhost, consoleVars, typed>>

\* A system call, for the hart whose request is in magic_mem.
HostSyscall ==
    /\ Take(0, 0)
    /\ tohost.data = MagicMem
    /\ \E c \in CPU :
         /\ magic_mem.from = c /\ op[c] # "exit"
         /\ magic_mem' = [magic_mem EXCEPT !.answered = TRUE]
         /\ served' = [served EXCEPT ![c] = @ + 1]
    /\ fromhost_queue' = Append(fromhost_queue, Message(0, 0, 1))
    /\ UNCHANGED <<reads, power, shown>>

\* The call "exit", or an odd payload: the machine is switched off.
HostExit ==
    /\ Take(0, 0)
    /\ tohost.data = 1 \/ \E c \in CPU : magic_mem.from = c /\ op[c] = "exit"
    /\ power' = "off"
    /\ UNCHANGED <<memVars, fromhost_queue, reads, shown>>

HostDisplay ==
    /\ Take(1, 1)
    /\ shown' = Append(shown, tohost.data)
    /\ UNCHANGED <<memVars, fromhost_queue, reads, power>>

HostRead ==
    /\ Take(1, 0)
    /\ reads' = reads + 1
    /\ UNCHANGED <<memVars, fromhost_queue, power, shown>>

\* Somebody types, and a read is answered.
HostType ==
    /\ reads > 0 /\ typed < Len(Input)
    /\ reads' = reads - 1
    /\ typed' = typed + 1
    /\ fromhost_queue' = Append(fromhost_queue, Message(1, 0, Input[typed + 1]))
    /\ UNCHANGED <<lockVars, callVars, at, memVars, htif_lock, tohost, fromhost,
                   consoleVars, power, shown>>

HostRespond ==
    /\ fromhost_queue # <<>> /\ fromhost = Zero
    /\ fromhost' = Head(fromhost_queue)
    /\ fromhost_queue' = Tail(fromhost_queue)
    /\ UNCHANGED <<lockVars, callVars, at, memVars, htif_lock, tohost, consoleVars, reads,
                   power, shown, typed>>

Host == HostSyscall \/ HostExit \/ HostDisplay \/ HostRead \/ HostRespond

HtifNext ==
    /\ power = "on"
    /\ \/ \E c \in CPU : Begin(c) \/ Continue(c)
       \/ Host
       \/ HostType

\* Harts go on with their calls and the host with its commands.  Nobody has to
\* call, and nobody has to type.
HtifSpec == /\ HtifInit /\ [][HtifNext]_htifVars
            /\ \A c \in CPU : WF_htifVars(power = "on" /\ Continue(c))
            /\ WF_htifVars(power = "on" /\ Host)
-----------------------------------------------------------------------------
\* A hart that comes back from its call finds in magic_mem the answer to its
\* own request, and the host has executed this request exactly once: neither
\* another hart's request nor a response of the console got in between.
AnswerIsMine ==
    \A c \in CPU : at[c] = "done" /\ op[c] \in Syscalls =>
        magic_mem = [from |-> c, answered |-> TRUE] /\ served[c] = 1

\* The assertions of __check_fromhost, "this should be from the console", hold:
\* it never swallows the response a system call waits for.
AssertsHold == \A c \in CPU : at[c] # "assert"

\* No character is lost, repeated or reordered.  What was put is displayed but
\* for one still in tohost; what was typed was returned by getchar but for one
\* in the buffer, in fromhost or in the host's queue.
ConsoleKept ==
    (\A c \in CPU : op[c] # "poweroff") =>
        LET InTohost == IF tohost.dev = 1 /\ tohost.cmd = 1 THEN <<tohost.data>> ELSE <<>>
            InBuffer == IF htif_console_buf > 0 THEN <<htif_console_buf - 1>> ELSE <<>>
            Chars(w) == IF w.dev = 1 THEN <<w.data>> ELSE <<>>
            InQueue  == IF fromhost_queue = <<>> THEN <<>>
                        ELSE Chars(fromhost_queue[1]) \o
                             IF Len(fromhost_queue) = 1 THEN <<>>
                             ELSE Chars(fromhost_queue[2])
        IN  /\ put = shown \o InTohost
            /\ SubSeq(Input, 1, typed) = got \o InBuffer \o Chars(fromhost) \o InQueue

\* While some hart is in a call, some call comes to its end, unless the machine
\* is switched off: the two locks, the wait for tohost and the wait for an
\* answer never hold each other up.
SomeCallReturns ==
    (\E c \in CPU : op[c] \notin {"none", "poweroff"}) ~>
        ((\E c \in CPU : at[c] = "done") \/ power = "off")
=============================================================================

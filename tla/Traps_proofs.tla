---------------------------- MODULE Traps_proofs ----------------------------
(***************************************************************************)
(* The scheduler and the trap code for every size of the process pool.     *)
(* The invariants of module Process come first.  The trap code implements  *)
(* that module, whose theorems it inherits, it uses the right frame and    *)
(* stack, and it keeps every program's registers.                          *)
(***************************************************************************)
EXTENDS Traps, TLAPS
-----------------------------------------------------------------------------
(* The scheduler. *)

\* Before the machine is on nothing has been started; afterwards the pool is
\* divided into zombies, the current process, the queue and free structures,
\* in this order of pids.
PoolInv ==
    /\ machine = "boot" => /\ ready_queue = <<>>
                           /\ \A p \in Pid : status[p] = "FREE" /\ parent[p] = Nobody
    /\ machine = "on" => current \in Pid
    /\ \A p, r \in Pid : status[p] = "FREE" /\ p < r => status[r] = "FREE"
    /\ \A p \in Pid : status[p] # "BLOCKED"
    /\ \A p \in Pid : parent[p] \in Pid => parent[p] < p
    /\ machine \in {"boot", "on", "panic"} => \A p \in Pid :
          (status[p] = "RUNNING" => p = current) /\ (status[p] = "ZOMBIE" => p < current)

IInv == TypeOK /\ SchedulerConsistent /\ ScheduleChecksHold /\ RunsInForkOrder /\ PoolInv

\* The empty pool.
LEMMA IInvInit == Init => IInv
  BY ProcessAssumption
  DEF Init, IInv, TypeOK, SchedulerConsistent, ScheduleChecksHold, RunsInForkOrder,
      PoolInv, Stopped, Nobody, Pid

\* Appending a process that is not in the queue.
LEMMA AppendFacts ==
  ASSUME NEW q \in Seq(Pid), NEW p \in Pid, \A i \in DOMAIN q : q[i] # p
  PROVE  /\ Insert(q, p) \in Seq(Pid)
         /\ Len(Insert(q, p)) = Len(q) + 1
         /\ \A i \in 1 .. Len(q) : Insert(q, p)[i] = q[i]
         /\ Insert(q, p)[Len(q) + 1] = p
         /\ Len(q) \in Nat
         /\ DOMAIN q = 1 .. Len(q)
         /\ DOMAIN Insert(q, p) = 1 .. Len(q) + 1
BY DEF Insert

\* Taking the head of a queue that is not empty.
LEMMA TailFacts ==
  ASSUME NEW q \in Seq(Pid), q # <<>>
  PROVE  /\ Head(q) \in Pid /\ Head(q) = q[1]
         /\ Tail(q) \in Seq(Pid)
         /\ Len(q) \in Nat \ {0}
         /\ DOMAIN q = 1 .. Len(q)
         /\ DOMAIN Tail(q) = 1 .. Len(q) - 1
         /\ \A i \in 1 .. Len(q) - 1 : Tail(q)[i] = q[i + 1]
<1>1. Len(q) \in Nat \ {0} /\ DOMAIN q = 1 .. Len(q)
  OBVIOUS
<1>2. Tail(q) \in Seq(Pid) /\ Len(Tail(q)) = Len(q) - 1
  BY <1>1
<1>3. \A i \in 1 .. Len(q) - 1 : Tail(q)[i] = q[i + 1]
  BY <1>1
<1>4. Head(q) \in Pid /\ Head(q) = q[1]
  BY <1>1
<1> QED BY <1>1, <1>2, <1>3, <1>4

\* A process structure that is free is in nobody's queue and above all others.
LEMMA FreeIsFresh ==
  ASSUME IInv, NEW c \in Pid, FirstFree(c)
  PROVE  /\ \A i \in DOMAIN ready_queue : ready_queue[i] \in Pid /\ ready_queue[i] < c
         /\ \A p \in Pid : status[p] # "FREE" <=> p < c
<1>1. \A p \in Pid : status[p] # "FREE" <=> p < c
  BY DEF IInv, PoolInv, FirstFree, Pid
<1>2. \A i \in DOMAIN ready_queue : ready_queue[i] \in Pid /\ status[ready_queue[i]] = "READY"
  BY DEF IInv, TypeOK, SchedulerConsistent
<1> QED BY <1>1, <1>2

\* do_fork puts the new child at the end of the queue and of the used pids.
LEMMA ForkStep == IInv /\ Fork => IInv'
<1> SUFFICES ASSUME IInv, Fork PROVE IInv'
  OBVIOUS
<1>0. /\ TypeOK /\ SchedulerConsistent /\ ScheduleChecksHold /\ RunsInForkOrder /\ PoolInv
      /\ machine = "on" /\ current \in Pid
      /\ UNCHANGED <<current, machine>>
  BY DEF IInv, Fork, PoolInv
<1>1. PICK c \in Pid : /\ FirstFree(c)
                       /\ status' = [status EXCEPT ![c] = "READY"]
                       /\ parent' = [parent EXCEPT ![c] = current]
                       /\ ready_queue' = Insert(ready_queue, c)
  BY Zenon DEF Fork
<1> DEFINE q == ready_queue
           n == Len(ready_queue)
<1>2. /\ \A i \in DOMAIN q : q[i] \in Pid /\ q[i] < c
      /\ \A p \in Pid : status[p] # "FREE" <=> p < c
  BY <1>1, FreeIsFresh
<1>3. /\ q' \in Seq(Pid) /\ n \in Nat /\ DOMAIN q = 1 .. n /\ DOMAIN q' = 1 .. n + 1
      /\ \A i \in 1 .. n : q'[i] = q[i]
      /\ q'[n + 1] = c
  <2>1. \A i \in DOMAIN q : q[i] # c
    BY <1>2 DEF Pid
  <2> QED BY <1>0, <1>1, <2>1, AppendFacts DEF TypeOK
<1>4. /\ status'[c] = "READY"
      /\ \A p \in Pid : p # c => status'[p] = status[p]
      /\ parent'[c] = current
      /\ \A p \in Pid : p # c => parent'[p] = parent[p]
      /\ current < c /\ status[c] = "FREE"
  BY <1>0, <1>1, <1>2 DEF TypeOK, SchedulerConsistent, FirstFree
<1>5. TypeOK'
  BY <1>0, <1>1, <1>3 DEF TypeOK
<1> HIDE DEF q, n
<1>6. SchedulerConsistent'
  <2>1. \A i \in DOMAIN q' : status'[q'[i]] = "READY"
    BY <1>0, <1>2, <1>3, <1>4 DEF SchedulerConsistent, q
  <2>2. \A p \in Pid : status'[p] = "READY" => \E i \in DOMAIN q' : q'[i] = p
    BY <1>0, <1>3, <1>4 DEF SchedulerConsistent, q
  <2>3. \A i, j \in DOMAIN q' : q'[i] = q'[j] => i = j
    BY <1>0, <1>2, <1>3 DEF SchedulerConsistent, q, Pid
  <2>4. \A p \in Pid : status'[p] = "RUNNING" <=> p = current
    BY <1>0, <1>4 DEF SchedulerConsistent, Pid
  <2> QED BY <1>0, <2>1, <2>2, <2>3, <2>4 DEF SchedulerConsistent, q
<1>7. ScheduleChecksHold'
  BY <1>0 DEF ScheduleChecksHold
<1>8. RunsInForkOrder'
  <2>1. \A p \in Pid : p < current <=> status'[p] = "ZOMBIE"
    BY <1>0, <1>4 DEF RunsInForkOrder, Pid
  <2>2. \A i, j \in DOMAIN q' : i < j => q'[i] < q'[j]
    BY <1>0, <1>2, <1>3 DEF RunsInForkOrder, q
  <2> QED BY <1>0, <2>1, <2>2 DEF RunsInForkOrder, q
<1>9. PoolInv'
  BY <1>0, <1>2, <1>4 DEF PoolInv, Pid
<1> QED BY <1>5, <1>6, <1>7, <1>8, <1>9 DEF IInv

\* The first process is started on the empty pool.
LEMMA BootStep == IInv /\ Boot => IInv'
<1> SUFFICES ASSUME IInv, Boot PROVE IInv'
  OBVIOUS
<1>0. TypeOK /\ PoolInv /\ machine = "boot" /\ ready_queue = <<>> /\ parent' = parent
  BY DEF IInv, Boot, PoolInv
<1>1. PICK c \in Pid : /\ FirstFree(c)
                       /\ Schedule([status EXCEPT ![c] = "READY"], Insert(ready_queue, c))
  BY DEF Boot
<1>2. Insert(ready_queue, c) = <<c>>
  BY <1>0 DEF Insert
<1>3. /\ current' = c /\ ready_queue' = <<>> /\ machine' = "on"
      /\ status' = [status EXCEPT ![c] = "RUNNING"]
  BY <1>0, <1>1, <1>2 DEF Schedule, TypeOK
<1>4. c = 0 /\ \A p \in Pid : p # c => status'[p] = "FREE"
  <2>1. 0 \in Pid /\ status[0] = "FREE"
    BY <1>0, ProcessAssumption DEF PoolInv, Pid
  <2>2. c = 0
    BY <1>1, <2>1 DEF FirstFree, Pid
  <2> QED BY <1>0, <1>3, <2>2 DEF PoolInv, TypeOK
<1>5. status'[c] = "RUNNING"
  BY <1>0, <1>3 DEF TypeOK
<1>6. TypeOK'
  BY <1>0, <1>1, <1>3 DEF TypeOK
<1>7. PoolInv'
  BY <1>0, <1>3, <1>4, <1>5 DEF PoolInv, Pid, Nobody
<1>8. SchedulerConsistent' /\ ScheduleChecksHold' /\ RunsInForkOrder'
  BY <1>3, <1>4, <1>5 DEF SchedulerConsistent, ScheduleChecksHold, RunsInForkOrder, Pid
<1> QED BY <1>6, <1>7, <1>8 DEF IInv

\* exit leaves a zombie and hands the hart to the head of the queue.
LEMMA ExitStep == IInv /\ Exit => IInv'
<1> SUFFICES ASSUME IInv, Exit PROVE IInv'
  OBVIOUS
<1>0. /\ TypeOK /\ SchedulerConsistent /\ ScheduleChecksHold /\ RunsInForkOrder /\ PoolInv
      /\ machine = "on" /\ current \in Pid /\ status[current] = "RUNNING"
      /\ parent' = parent
  BY DEF IInv, Exit, PoolInv, SchedulerConsistent
<1> DEFINE st == [status EXCEPT ![current] = "ZOMBIE"]
           q  == ready_queue
<1>1. Schedule(st, q)
  BY DEF Exit, FreeProcess
<1>2. /\ st \in [Pid -> {"FREE", "READY", "RUNNING", "BLOCKED", "ZOMBIE"}]
      /\ st[current] = "ZOMBIE"
      /\ \A p \in Pid : p # current => st[p] = status[p] /\ st[p] # "RUNNING"
  BY <1>0 DEF TypeOK, SchedulerConsistent
<1>3. CASE q = <<>>
  <2>1. \A p \in Pid : st[p] \in {"FREE", "ZOMBIE"}
    BY <1>0, <1>2, <1>3 DEF SchedulerConsistent, PoolInv
  <2>2. status' = st /\ machine' = "shutdown" /\ UNCHANGED <<ready_queue, current>>
    BY <1>1, <1>3, <2>1 DEF Schedule, AllDone
  <2> HIDE DEF st
  <2>3. TypeOK'
    BY <1>0, <1>2, <2>2 DEF TypeOK, Stopped
  <2>4. SchedulerConsistent' /\ ScheduleChecksHold' /\ RunsInForkOrder'
    BY <1>3, <2>1, <2>2 DEF SchedulerConsistent, ScheduleChecksHold, RunsInForkOrder
  <2>5. PoolInv'
    BY <1>0, <1>2, <2>1, <2>2 DEF PoolInv
  <2> QED BY <2>3, <2>4, <2>5 DEF IInv
<1>4. CASE q # <<>>
  <2>1. /\ Head(q) \in Pid /\ Head(q) = q[1] /\ Tail(q) \in Seq(Pid)
        /\ Len(q) \in Nat \ {0}
        /\ DOMAIN q = 1 .. Len(q) /\ DOMAIN Tail(q) = 1 .. Len(q) - 1
        /\ \A i \in 1 .. Len(q) - 1 : Tail(q)[i] = q[i + 1]
    BY <1>0, <1>4, TailFacts DEF TypeOK
  <2>2. PICK h \in Pid : h = Head(q)
    BY <2>1
  <2>3. /\ \A i \in 1 .. Len(q) : q[i] \in Pid /\ status[q[i]] = "READY" /\ q[i] # current
        /\ \A i \in 1 .. Len(q) : i > 1 => h < q[i]
        /\ h # current /\ st[h] = "READY"
    BY <1>0, <1>2, <2>1, <2>2 DEF SchedulerConsistent, RunsInForkOrder, TypeOK
  <2>4. /\ current' = h /\ ready_queue' = Tail(q) /\ machine' = "on"
        /\ status' = [st EXCEPT ![h] = "RUNNING"]
    BY <1>1, <1>4, <2>2, <2>3 DEF Schedule
  <2>5. /\ status'[h] = "RUNNING" /\ status'[current] = "ZOMBIE"
        /\ \A p \in Pid : p # h /\ p # current => status'[p] = status[p]
    BY <1>2, <2>3, <2>4
  <2> HIDE DEF st, q
  <2>6. current < h
    BY <1>0, <2>2, <2>3, <1>2 DEF RunsInForkOrder, SchedulerConsistent, Pid
  <2>7. ASSUME NEW p \in Pid, status[p] = "READY", p # h
        PROVE  h < p /\ \E i \in DOMAIN Tail(q) : Tail(q)[i] = p
    <3>1. PICK k \in 1 .. Len(q) : q[k] = p
      BY <1>0, <2>1, <2>7 DEF SchedulerConsistent, q
    <3>2. k > 1
      BY <2>1, <2>2, <2>7, <3>1
    <3>3. k - 1 \in DOMAIN Tail(q) /\ Tail(q)[k - 1] = q[(k - 1) + 1] /\ (k - 1) + 1 = k
      BY <2>1, <3>1, <3>2
    <3> QED BY Zenon, <2>3, <3>1, <3>2, <3>3
  <2>8. TypeOK'
    BY <1>0, <1>2, <2>1, <2>4 DEF TypeOK
  <2>9. \A p \in Pid : p < h <=> status'[p] = "ZOMBIE"
    <3> SUFFICES ASSUME NEW p \in Pid PROVE p < h <=> status'[p] = "ZOMBIE"
      OBVIOUS
    <3>1. CASE p = h \/ p = current
      BY <2>5, <2>6, <3>1 DEF Pid
    <3>2. CASE p # h /\ p # current
      <4>1. status[p] \in {"FREE", "READY", "ZOMBIE"}
        BY <1>0, <3>2 DEF TypeOK, SchedulerConsistent, PoolInv
      <4>2. status[p] = "FREE" => h < p
        BY <1>0, <2>1, <2>2, <2>3, <3>2 DEF PoolInv, Pid
      <4>3. status[p] = "READY" => h < p
        BY <2>7, <3>2
      <4>4. status[p] = "ZOMBIE" => p < h
        BY <1>0, <2>6 DEF RunsInForkOrder, Pid
      <4> QED BY <2>5, <3>2, <4>1, <4>2, <4>3, <4>4 DEF Pid
    <3> QED BY <3>1, <3>2
  <2>10. \A i \in DOMAIN Tail(q) : Tail(q)[i] = q[i + 1] /\ i + 1 \in 1 .. Len(q) /\ i + 1 > 1
    BY <2>1
  <2>11. \A i, j \in DOMAIN Tail(q) : i < j => Tail(q)[i] < Tail(q)[j]
    BY <1>0, <2>1, <2>10 DEF RunsInForkOrder, q
  <2>12. RunsInForkOrder'
    BY <2>4, <2>9, <2>11 DEF RunsInForkOrder
  <2>13. SchedulerConsistent'
    <3>1. \A i \in DOMAIN Tail(q) : status'[Tail(q)[i]] = "READY"
      BY <2>3, <2>5, <2>10 DEF Pid
    <3>2. \A p \in Pid : status'[p] = "READY" => \E i \in DOMAIN Tail(q) : Tail(q)[i] = p
      BY <2>5, <2>7
    <3>3. \A i, j \in DOMAIN Tail(q) : Tail(q)[i] = Tail(q)[j] => i = j
      BY <1>0, <2>1, <2>10 DEF SchedulerConsistent, q
    <3>4. \A p \in Pid : status'[p] = "RUNNING" <=> p = h
      BY <1>0, <2>5 DEF SchedulerConsistent
    <3> QED BY <2>4, <3>1, <3>2, <3>3, <3>4 DEF SchedulerConsistent
  <2>14. ScheduleChecksHold'
    BY <2>4 DEF ScheduleChecksHold
  <2>15. PoolInv'
    <3>1. \A p \in Pid : (status'[p] = "FREE" <=> status[p] = "FREE") /\ status'[p] # "BLOCKED"
      BY <1>0, <2>2, <2>1, <2>3, <2>5 DEF PoolInv
    <3>2. \A p \in Pid : (status'[p] = "RUNNING" => p = h) /\ (status'[p] = "ZOMBIE" => p < h)
      BY <1>0, <2>5, <2>9 DEF SchedulerConsistent
    <3> QED BY <1>0, <2>4, <3>1, <3>2 DEF PoolInv
  <2> QED BY <2>8, <2>12, <2>13, <2>14, <2>15 DEF IInv
<1> QED BY <1>3, <1>4

\* A stop changes nothing but the machine.
LEMMA StopStep == IInv /\ machine = "on" /\ (Panic \/ Stop("lost")) => IInv'
  BY DEF IInv, Panic, Stop, TypeOK, SchedulerConsistent, ScheduleChecksHold,
         RunsInForkOrder, PoolInv, Stopped

\* The inductive step.
LEMMA IInvStep == IInv /\ [Next]_vars => IInv'
<1>1. IInv /\ UNCHANGED vars => IInv'
  BY DEF IInv, vars, TypeOK, SchedulerConsistent, ScheduleChecksHold, RunsInForkOrder, PoolInv
<1> QED
  BY BootStep, ForkStep, ExitStep, StopStep, <1>1 DEF Next, ForkPanic, Lost, YieldOrTimer

\* The inductive invariant holds from boot to shutdown.
LEMMA IInvAlways == Spec => []IInv
  BY IInvInit, IInvStep, PTL DEF Spec

\* The ready queue holds exactly the READY processes, each once, and current
\* is the one RUNNING process, for any size of the pool.
THEOREM ProcessSchedulerConsistent == Spec => []SchedulerConsistent
  BY IInvAlways, PTL DEF IInv

\* The panic for unfinished processes and the assertion of schedule() are
\* unreachable.
THEOREM ProcessScheduleChecksHold == Spec => []ScheduleChecksHold
  BY IInvAlways, PTL DEF IInv

\* Without yield and timer, processes run to their end in fork order.
THEOREM ProcessRunsInForkOrder == Spec => []RunsInForkOrder
  BY IInvAlways, PTL DEF IInv

\* A child runs only after its parent has ended.
THEOREM ProcessParentEndedFirst == Spec => []ParentEndedFirst
<1>1. IInv => ParentEndedFirst
  <2> SUFFICES ASSUME IInv, machine = "on", parent[current] # Nobody
               PROVE  status[parent[current]] = "ZOMBIE"
    BY DEF ParentEndedFirst
  <2>1. current \in Pid /\ parent[current] \in Pid
    BY DEF IInv, PoolInv, TypeOK
  <2>2. parent[current] < current
    BY <2>1 DEF IInv, PoolInv
  <2> QED BY <2>1, <2>2 DEF IInv, RunsInForkOrder
<1> QED BY <1>1, IInvAlways, PTL
-----------------------------------------------------------------------------
(* The trap code. *)

\* The walk along the list has a cursor only while it goes on, and none if the
\* list was empty when it began; before the first process there is no walk.
CursorPlaced ==
    /\ cursor # Nobody => where = "walk"
    /\ machine = "boot" => cursor = Nobody /\ where = "boot"
    /\ where = "walk" /\ cursor = Nobody => ready_queue_head = Nobody

\* The control registers are a record of these fields.
CsrShape == csr = [sscratch |-> csr.sscratch, sepc |-> csr.sepc, scause |-> csr.scause,
                   spp |-> csr.spp, spie |-> csr.spie, sie |-> csr.sie, ssip |-> csr.ssip]

\* The kernel runs with interrupts off.
InterruptsOff == where # "user" => ~csr.sie

ListInv ==
    /\ IInv /\ ListIsQueue /\ CursorPlaced /\ CsrShape /\ InterruptsOff
    /\ ready_queue_head \in Pid \cup {Nobody}
    /\ queue_next \in [Pid -> Pid \cup {Nobody}]

Frames == [a0 : Int, lo : Int, hi : Int, t6 : Int, epc : Int, kernel_sp : Int]

TrapTypeOK ==
    /\ frame \in [NPROC .. Itr -> Frames]
    /\ regs \in [a0 : Int, lo : Int, hi : Int, t6 : Int]
    /\ ctx \in [Pid -> [a0 : Int, lo : Int, hi : Int, t6 : Int, pc : Int]]
    /\ pc \in Int /\ csr.sscratch \in Int /\ csr.sepc \in Int

\* Before the first process every frame and every program is new.
FramesNew == machine = "boot" => \A p \in Pid : frame[Frame(p)] = Frame0 /\ ctx[p] = Context0

Saving    == {"save_lo", "save_hi"}
Restoring == {"restore_lo", "restore_hi"}

\* Where the address of current's trapframe is at each place of the trap code.
FrameInPlace ==
    LET f == Frame(current)
    IN  machine = "on" =>
          /\ where \in {"user", "vector", "handler", "walk"} \cup Saving \cup Restoring
          /\ frame[f].kernel_sp = current
          /\ where \in {"user", "vector"} \cup Restoring => csr.sscratch = f
          /\ where \in Saving \cup {"handler"} => regs.a0 = f
          /\ where \in Saving \cup Restoring => regs.t6 \in {f, Itr}
          /\ where \in Saving \cup {"vector", "handler"} => ~csr.spp
          /\ where = "handler" => stack = current

\* Where current's registers are at each place, while no interrupt is pending.
RegistersInPlace ==
    LET f  == Frame(current)
        fr == frame[f]
        cx == ctx[current]
    IN  machine = "on" /\ ~csr.ssip =>
          /\ where \in Saving \cup Restoring => regs.t6 = f
          /\ where \in {"vector"} \cup Saving => regs.lo = cx.lo /\ regs.hi = cx.hi
          /\ where \in {"save_hi", "handler", "walk"} => fr.lo = cx.lo
          /\ where \in {"handler", "walk"} => fr.hi = cx.hi
          /\ where \in {"vector", "handler"} \cup Saving =>
               /\ csr.sepc = 0
               /\ csr.scause \in {"store", "load"} => cx.pc = 0
               /\ csr.scause = "ecall" => cx.pc = 1
          /\ csr.scause \in {"store", "load"} =>
               /\ where = "vector" => regs.a0 = cx.a0
               /\ where \in Saving => csr.sscratch = cx.a0
               /\ where = "handler" => fr.a0 = cx.a0
          /\ where = "walk" => fr.epc = cx.pc
          /\ where \in Restoring => /\ csr.sepc = cx.pc
                                    /\ fr.hi = cx.hi
          /\ where = "restore_lo" => fr.a0 = cx.a0 /\ fr.lo = cx.lo
          /\ where = "restore_hi" => regs.a0 = cx.a0 /\ regs.lo = cx.lo

TrapInv == TrapTypeOK /\ FramesNew /\ FrameInPlace /\ RegistersInPlace /\ ContextKept

\* What tp is for each process: a hart for the first, an address for the others.
TpOf(p) == IF parent[p] = Nobody THEN Hart ELSE Proc(p)

\* Where current's tp is at each place of the trap code, and that a fork that
\* has got as far as the list is one of the first process.
TpInv ==
    /\ tp \in Int /\ frame_tp \in [NPROC .. Itr -> Int]
    /\ csr.scause = "timer" => csr.ssip
    /\ machine = "boot" => \A p \in Pid : frame_tp[Frame(p)] = Hart
    /\ machine = "on" =>
         /\ where \in {"vector", "handler"} \cup Saving /\ csr.scause # "timer" =>
              tp = TpOf(current)
         /\ where = "walk" => HartKnown
         /\ \A p \in Pid : status[p] = "READY" => frame_tp[Frame(p)] = TpOf(p)
         /\ ~csr.ssip =>
              /\ where \in {"user", "restore_hi"} => tp = TpOf(current)
              /\ where \in {"save_hi", "handler", "walk", "restore_lo"} =>
                   frame_tp[Frame(current)] = TpOf(current)
-----------------------------------------------------------------------------
\* Steps of the trap code that touch neither processes nor the list.
Quiet == \/ Compute \/ StoreFault \/ LoadFault \/ OtherTrap \/ Interrupt
         \/ \E n \in {SYS_user_print, SYS_user_fork, SYS_user_yield, SYS_user_exit} : Ecall(n)
         \/ Tick \/ Vector \/ SaveLo \/ SaveHi \/ RestoreLo \/ RestoreHi
         \/ OtherCall \/ StoreHandled \/ LoadHandled

\* A quiet step keeps the list, the cursor and the interrupt bits in order.
LEMMA QuietKeepsList ==
  ASSUME ListInv, Quiet
  PROVE  ListInv' /\ UNCHANGED vars
<1> USE DEF ListInv, CsrShape, InterruptsOff, CursorPlaced, listVars
<1>1. /\ UNCHANGED <<vars, listVars>>
      /\ CsrShape' /\ InterruptsOff'
      /\ (where' = where \/ (where # "walk" /\ where' # "walk" /\ machine # "boot"))
  <2> USE DEF Trap, User, SwitchTo, Handler, Called, IrqRestored, Frame, Pid
  <2>1. CASE Compute \/ Tick \/ SaveLo \/ SaveHi \/ RestoreLo \/ RestoreHi
    BY Zenon, <2>1 DEF Compute, Tick, SaveLo, SaveHi, RestoreLo, RestoreHi
  <2>2. CASE StoreFault \/ LoadFault \/ OtherTrap \/ Interrupt
    BY Zenon, <2>2 DEF StoreFault, LoadFault, OtherTrap, Interrupt
  <2>3. CASE \E n \in {SYS_user_print, SYS_user_fork, SYS_user_yield, SYS_user_exit} : Ecall(n)
    BY Zenon, <2>3 DEF Ecall
  <2>4. CASE Vector
    BY <2>4 DEF Vector
  <2>5. CASE OtherCall \/ StoreHandled \/ LoadHandled
    BY Zenon, <2>5 DEF OtherCall, StoreHandled, LoadHandled
  <2> QED BY Zenon, <2>1, <2>2, <2>3, <2>4, <2>5 DEF Quiet
<1>2. IInv'
  BY <1>1, IInvStep
<1>3. ListIsQueue'
  BY <1>1 DEF ListIsQueue, vars
<1> QED BY <1>1, <1>2, <1>3 DEF vars

\* A trap that loses the kernel is one of a child.
LEMMA LostIsChilds ==
  ASSUME TpInv, PagesLost
  PROVE  Lost
<1>1. machine = "on" /\ where = "handler" /\ csr.scause \in {"ecall", "store"}
      /\ tp # Hart /\ Stop("lost")
  BY DEF PagesLost, Called, Handler
<1> QED BY <1>1 DEF TpInv, TpOf, Lost, HartKnown

\* A stop keeps everything but the machine.
LEMMA StopKeepsList ==
  ASSUME ListInv, TpInv, MachineTrap \/ HandlerPanic \/ PagesLost
  PROVE  ListInv' /\ [Next]_vars
<1>1. machine = "on" /\ (Panic \/ Stop("lost")) /\ UNCHANGED <<listVars, where, csr>>
  BY DEF MachineTrap, HandlerPanic, PagesLost, Called, Handler, User
<1>2. IInv' /\ [Next]_vars
  <2>1. IInv'
    BY <1>1, StopStep DEF ListInv
  <2>2. CASE MachineTrap \/ HandlerPanic
    BY <1>1, <2>1, <2>2 DEF MachineTrap, HandlerPanic, Next, YieldOrTimer
  <2>3. CASE PagesLost
    BY <2>1, <2>3, LostIsChilds DEF Next
  <2> QED BY <2>1, <2>2, <2>3
<1>3. ListIsQueue'
  BY <1>1 DEF ListInv, ListIsQueue, Panic, Stop, listVars
<1>4. machine' \in {"panic", "lost"}
  BY <1>1 DEF Panic, Stop
<1> QED BY <1>1, <1>2, <1>3, <1>4
        DEF ListInv, CsrShape, InterruptsOff, CursorPlaced, listVars

\* What ListIsQueue says of a queue that is not empty.
LEMMA ListFacts ==
  ASSUME ListInv
  PROVE  /\ ready_queue \in Seq(Pid) /\ Len(ready_queue) \in Nat
         /\ DOMAIN ready_queue = 1 .. Len(ready_queue)
         /\ \A i \in 1 .. Len(ready_queue) : ready_queue[i] \in Pid
         /\ ready_queue = <<>> <=> Len(ready_queue) = 0
         /\ Len(ready_queue) # 0 => /\ ready_queue_head = ready_queue[1]
                                    /\ queue_next[ready_queue[Len(ready_queue)]] = Nobody
         /\ \A i \in 1 .. Len(ready_queue) - 1 : queue_next[ready_queue[i]] = ready_queue[i + 1]
         /\ cursor # Nobody => \E i \in 1 .. Len(ready_queue) : cursor = ready_queue[i]
<1>1. /\ ready_queue \in Seq(Pid) /\ Len(ready_queue) \in Nat
      /\ DOMAIN ready_queue = 1 .. Len(ready_queue)
      /\ \A i \in 1 .. Len(ready_queue) : ready_queue[i] \in Pid
      /\ ready_queue = <<>> <=> Len(ready_queue) = 0
  BY DEF ListInv, IInv, TypeOK
<1> QED BY <1>1 DEF ListInv, ListIsQueue

\* The walk starts at the head and stays on the list.
LEMMA WalkKeepsList ==
  ASSUME ListInv, ForkCall \/ Walk
  PROVE  ListInv' /\ UNCHANGED vars
<1>1. UNCHANGED <<vars, ready_queue_head, queue_next, csr>> /\ machine = "on"
      /\ where \in {"handler", "walk"} /\ where' = "walk"
  BY DEF ForkCall, Walk, Called, Handler
<1>2. IInv'
  BY <1>1, IInvStep DEF ListInv
<1>4. ListIsQueue' /\ (cursor' = Nobody => ready_queue_head' = Nobody)
  <2>1. CASE ForkCall
    <3>1. cursor' = ready_queue_head
      BY <2>1 DEF ForkCall
    <3>2. ready_queue_head # Nobody => /\ 1 \in 1 .. Len(ready_queue)
                                       /\ ready_queue_head = ready_queue[1]
      BY ListFacts DEF ListInv, ListIsQueue
    <3> QED BY <1>1, <3>1, <3>2 DEF ListInv, ListIsQueue, vars
  <2>2. CASE Walk
    <3>1. PICK i \in 1 .. Len(ready_queue) : cursor = ready_queue[i]
      BY <2>2, ListFacts DEF Walk
    <3>2. cursor' = queue_next[cursor] /\ queue_next[cursor] # Nobody
      BY <2>2 DEF Walk
    <3>3. i # Len(ready_queue)
      <4>1. /\ Len(ready_queue) \in Nat
            /\ Len(ready_queue) # 0 => queue_next[ready_queue[Len(ready_queue)]] = Nobody
        BY ListFacts
      <4>2. Len(ready_queue) # 0
        BY <4>1
      <4>3. i = Len(ready_queue) => cursor = ready_queue[Len(ready_queue)]
        BY <3>1
      <4> QED BY <4>1, <4>2, <4>3, <3>2
    <3>4. i + 1 \in 1 .. Len(ready_queue) /\ cursor' = ready_queue[i + 1]
      <4>1. /\ Len(ready_queue) \in Nat
            /\ \A j \in 1 .. Len(ready_queue) - 1 : queue_next[ready_queue[j]] = ready_queue[j + 1]
        BY ListFacts
      <4>2. i \in 1 .. Len(ready_queue) - 1 /\ i + 1 \in 1 .. Len(ready_queue)
        BY <3>3, <4>1
      <4> QED BY <3>1, <3>2, <4>1, <4>2
    <3> QED BY <1>1, <3>2, <3>4 DEF ListInv, ListIsQueue, vars
  <2> QED BY <2>1, <2>2
<1> QED BY <1>1, <1>2, <1>4
        DEF ListInv, CsrShape, InterruptsOff, CursorPlaced, vars

\* The head of the list is the head of the queue.
LEMMA HeadIsHead ==
  ASSUME ListInv
  PROVE  /\ ready_queue_head = Nobody <=> ready_queue = <<>>
         /\ ready_queue # <<>> => ready_queue_head = Head(ready_queue)
<1>1. ready_queue \in Seq(Pid)
  BY DEF ListInv, IInv, TypeOK
<1>2. ready_queue # <<>> => ready_queue[1] \in Pid /\ Head(ready_queue) = ready_queue[1]
  BY <1>1, TailFacts
<1>3. Nobody \notin Pid
  BY ProcessAssumption DEF Nobody, Pid
<1> QED BY <1>2, <1>3 DEF ListInv, ListIsQueue

\* schedule() on the list is schedule() on the queue.
LEMMA ExitKeepsList ==
  ASSUME ListInv, ExitCall
  PROVE  ListInv' /\ Exit
<1> DEFINE st == FreeProcess(status, current)
           q  == ready_queue
<1>1. /\ machine = "on" /\ where = "handler" /\ cursor = Nobody
      /\ ScheduleList(st, ready_queue_head, queue_next, q, Saved)
      /\ UNCHANGED <<parent, queue_next, cursor>>
  BY DEF ExitCall, Called, Handler, ListInv, CursorPlaced
<1>2. Schedule(st, q)
  BY <1>1, HeadIsHead DEF ScheduleList, Schedule
<1>3. Exit
  BY <1>1, <1>2 DEF Exit
<1>4. IInv'
  BY <1>3, ExitStep DEF ListInv
<1>5. CsrShape' /\ InterruptsOff' /\ where' # "walk" /\ machine' # "boot"
  BY Zenon, <1>1 DEF ScheduleList, SwitchTo, ListInv, CsrShape, InterruptsOff
<1>6. CASE q = <<>>
  <2>1. UNCHANGED <<ready_queue, ready_queue_head>>
    BY <1>1, <1>6, HeadIsHead DEF ScheduleList
  <2> QED BY <1>1, <1>3, <1>4, <1>5, <2>1 DEF ListInv, ListIsQueue, CursorPlaced
<1>7. CASE q # <<>>
  <2>1. /\ ready_queue_head = q[1] /\ ready_queue' = Tail(q)
        /\ ready_queue_head' = queue_next[q[1]]
    BY <1>1, <1>7, HeadIsHead, TailFacts DEF ScheduleList, ListTail, ListInv, IInv, TypeOK
  <2>2. /\ Len(q) \in Nat \ {0} /\ DOMAIN q = 1 .. Len(q) /\ q \in Seq(Pid)
        /\ Tail(q) \in Seq(Pid) /\ DOMAIN Tail(q) = 1 .. Len(q) - 1
        /\ \A i \in 1 .. Len(q) - 1 : Tail(q)[i] = q[i + 1]
    BY <1>7, TailFacts DEF ListInv, IInv, TypeOK
  <2>3. Len(Tail(q)) = Len(q) - 1
    BY <1>7, <2>2
  <2>4. ready_queue_head' \in Pid \cup {Nobody}
    BY <2>1, <2>2 DEF ListInv
  <2>5. ListIsQueue'
    <3>1. CASE Len(q) = 1
      <4>1. Tail(q) = <<>> /\ queue_next[q[1]] = Nobody
        BY <1>7, <2>2, <2>3, <3>1, ListFacts
      <4>2. ready_queue' = <<>> /\ ready_queue_head' = Nobody /\ cursor' = Nobody
        BY Zenon, <1>1, <2>1, <4>1
      <4>3. \A i \in 1 .. Len(<<>>) - 1 : FALSE
        OBVIOUS
      <4> QED BY Zenon, <4>2, <4>3 DEF ListIsQueue
    <3>2. CASE Len(q) > 1
      <4>1. /\ Tail(q) # <<>> /\ queue_next[q[1]] = q[2]
            /\ Tail(q)[1] = q[2] /\ Tail(q)[Len(q) - 1] = q[Len(q)]
            /\ queue_next[q[Len(q)]] = Nobody
        <5>1. /\ Len(q) # 0 => queue_next[q[Len(q)]] = Nobody
              /\ \A i \in 1 .. Len(q) - 1 : queue_next[q[i]] = q[i + 1]
          BY ListFacts
        <5>2. 1 \in 1 .. Len(q) - 1 /\ Len(q) - 1 \in 1 .. Len(q) - 1 /\ (Len(q) - 1) + 1 = Len(q)
              /\ 1 + 1 = 2
          BY <2>2, <3>2
        <5>3. Tail(q)[1] = q[2] /\ Tail(q)[Len(q) - 1] = q[Len(q)]
          BY <2>2, <5>2
        <5>4. Tail(q) # <<>>
          <6>1. Len(Tail(q)) # 0
            <7>1. \A m \in Nat : m > 1 => m - 1 # 0
              OBVIOUS
            <7> QED BY Zenon, <2>2, <2>3, <3>2, <7>1
          <6>2. \A s \in Seq(Pid) : s = <<>> => Len(s) = 0
            OBVIOUS
          <6> QED BY Zenon, <2>2, <6>1, <6>2
        <5> QED BY <2>2, <5>1, <5>2, <5>3, <5>4
      <4>2. \A i \in 1 .. Len(q) - 2 :
              /\ Tail(q)[i] = q[i + 1] /\ Tail(q)[i + 1] = q[i + 2]
              /\ queue_next[q[i + 1]] = q[i + 2]
        <5> TAKE i \in 1 .. Len(q) - 2
        <5>1. /\ i \in 1 .. Len(q) - 1 /\ i + 1 \in 1 .. Len(q) - 1
              /\ (i + 1) + 1 = i + 2
          BY <2>2
        <5> QED BY <2>2, <5>1 DEF ListInv, ListIsQueue
      <4>3. /\ Len(ready_queue') = Len(q) - 1
            /\ \A i \in 1 .. (Len(q) - 1) - 1 : queue_next'[ready_queue'[i]] = ready_queue'[i + 1]
            /\ ready_queue_head' = ready_queue'[1]
            /\ queue_next'[ready_queue'[Len(q) - 1]] = Nobody
        BY <1>1, <2>1, <2>2, <2>3, <4>1, <4>2
      <4> QED BY <1>1, <2>1, <4>1, <4>3 DEF ListIsQueue
    <3> QED BY <2>2, <3>1, <3>2
  <2>6. CursorPlaced'
    BY <1>1, <1>5 DEF CursorPlaced
  <2> QED BY <1>1, <1>3, <1>4, <1>5, <2>4, <2>5, <2>6 DEF ListInv
<1> QED BY <1>6, <1>7

\* The first process passes through the list at once.
LEMMA BootKeepsList ==
  ASSUME ListInv, BootFirst
  PROVE  ListInv' /\ Boot
<1>1. PICK p \in Pid :
        /\ FirstFree(p)
        /\ queue_next' = [queue_next EXCEPT ![p] = Nobody]
        /\ ScheduleList([status EXCEPT ![p] = "READY"], p, queue_next',
                        Insert(ready_queue, p), frame)
  BY Zenon DEF BootFirst
<1>2. machine = "boot" /\ cursor' = Nobody /\ parent' = parent
      /\ ready_queue = <<>> /\ Insert(ready_queue, p) = <<p>> /\ p # Nobody
  BY DEF BootFirst, ListInv, IInv, PoolInv, CursorPlaced, Insert, Nobody, Pid
<1>3. Schedule([status EXCEPT ![p] = "READY"], Insert(ready_queue, p))
  <2>1. <<p>> # <<>> /\ Head(<<p>>) = p
    OBVIOUS
  <2> QED BY Zenon, <1>1, <1>2, <2>1 DEF ScheduleList, Schedule
<1>4. Boot
  BY Zenon, <1>1, <1>2, <1>3 DEF Boot
<1>5. IInv'
  BY <1>4, BootStep DEF ListInv
<1>6. CsrShape' /\ InterruptsOff' /\ where' # "walk" /\ machine' # "boot"
  <2>1. SwitchTo(p, frame, csr.sie) /\ where # "user" /\ machine' # "boot"
    BY <1>1, <1>2 DEF ScheduleList, ListInv, BootFirst, CursorPlaced
  <2> QED BY Zenon, <2>1 DEF SwitchTo, ListInv, CsrShape, InterruptsOff
<1>7. ready_queue' = <<>> /\ ready_queue_head' = Nobody
      /\ queue_next' \in [Pid -> Pid \cup {Nobody}]
  <2>1. ready_queue' = Tail(<<p>>) /\ ready_queue_head' = queue_next'[p]
    BY Zenon, <1>1, <1>2 DEF ScheduleList, ListTail
  <2>2. queue_next' \in [Pid -> Pid \cup {Nobody}] /\ queue_next'[p] = Nobody
    BY <1>1 DEF ListInv
  <2>3. Tail(<<p>>) = <<>>
    OBVIOUS
  <2> QED BY <2>1, <2>2, <2>3
<1> QED BY <1>2, <1>4, <1>5, <1>6, <1>7 DEF ListInv, ListIsQueue, CursorPlaced

\* The three cases of insert_to_ready_queue.
LEMMA CursorCase ==
  ASSUME NEW c \in Pid
  PROVE  /\ cursor = Nobody => Linked(c) = [queue_next EXCEPT ![c] = Nobody]
         /\ cursor \notin {Nobody, c} =>
              Linked(c) = [queue_next EXCEPT ![cursor] = c, ![c] = Nobody]
<1>1. c # Nobody
  BY DEF Nobody, Pid
<1> QED BY <1>1 DEF Linked

\* The child becomes the last of the list.
LEMMA ForkKeepsList ==
  ASSUME ListInv, TpInv, ForkReturn
  PROVE  ListInv' /\ Fork
<1> DEFINE q == ready_queue
           n == Len(ready_queue)
<1>1. PICK c \in Pid :
        /\ FirstFree(c)
        /\ cursor \notin {Nobody, c} => queue_next[cursor] = Nobody
        /\ queue_next' = Linked(c)
        /\ ready_queue_head' = IF ready_queue_head = Nobody THEN c ELSE ready_queue_head
        /\ status' = [status EXCEPT ![c] = "READY"]
        /\ parent' = [parent EXCEPT ![c] = current]
        /\ ready_queue' = Insert(ready_queue, c)
        /\ \E fr : SwitchTo(current, fr, csr.sie)
  BY Zenon DEF ForkReturn, IrqRestored
<1>2. machine = "on" /\ where = "walk" /\ cursor' = Nobody /\ UNCHANGED <<current, machine>>
  BY DEF ForkReturn
<1>3. Fork
  BY Zenon, <1>1, <1>2 DEF Fork, TpInv
<1>4. IInv'
  BY <1>3, ForkStep DEF ListInv
<1>5. CsrShape' /\ InterruptsOff' /\ where' # "walk"
  BY Zenon, <1>1, <1>2 DEF SwitchTo, ListInv, CsrShape, InterruptsOff
<1>6. /\ \A i \in DOMAIN q : q[i] \in Pid /\ q[i] # c
      /\ q \in Seq(Pid)
  BY <1>1, FreeIsFresh DEF ListInv, IInv, TypeOK, Pid
<1>7. /\ q' \in Seq(Pid) /\ Len(q') = n + 1 /\ n \in Nat /\ DOMAIN q = 1 .. n
      /\ \A i \in 1 .. n : q'[i] = q[i]
      /\ q'[n + 1] = c
  BY Zenon, <1>1, <1>6, AppendFacts
<1>8. c # Nobody /\ \A i, j \in 1 .. n : q[i] = q[j] => i = j
  BY <1>7 DEF ListInv, IInv, SchedulerConsistent, Nobody, Pid
<1> HIDE DEF q, n
<1>9. CASE cursor = Nobody
  <2>1. q = <<>> /\ n = 0 /\ ready_queue_head = Nobody
    BY <1>2, <1>9, HeadIsHead DEF ListInv, CursorPlaced, q, n
  <2>2. /\ queue_next' = [queue_next EXCEPT ![c] = Nobody] /\ ready_queue_head' = c
        /\ queue_next' \in [Pid -> Pid \cup {Nobody}] /\ queue_next'[c] = Nobody
    <3>1. queue_next' = [queue_next EXCEPT ![c] = Nobody] /\ ready_queue_head' = c
      BY <1>1, <1>9, <2>1, CursorCase
    <3> QED BY <3>1 DEF ListInv
  <2>3. ListIsQueue'
    <3>1. Len(ready_queue') = 1 /\ ready_queue'[1] = c
      <4>1. n + 1 = 1
        BY <2>1
      <4> QED BY <1>7, <4>1 DEF q
    <3>2. ready_queue' # <<>>
      <4>1. \A s \in Seq(Pid) : s = <<>> => Len(s) = 0
        OBVIOUS
      <4> QED BY <1>7, <3>1, <4>1 DEF q
    <3> QED BY <1>2, <2>2, <3>1, <3>2 DEF ListIsQueue
  <2> QED BY <1>2, <1>3, <1>4, <1>5, <2>2, <2>3 DEF ListInv, CursorPlaced
<1>10. CASE cursor # Nobody
  <2>1. PICK k \in 1 .. n : cursor = q[k]
    BY <1>10 DEF ListInv, ListIsQueue, q, n
  <2>2. cursor \in Pid /\ cursor # c /\ queue_next[cursor] = Nobody
    BY Zenon, <1>1, <1>6, <1>7, <1>10, <2>1
  <2>3. k = n
    <3>1. k < n => queue_next[q[k]] = q[k + 1] /\ q[k + 1] \in Pid
      BY <1>6, <1>7, <2>1 DEF ListInv, ListIsQueue, q, n
    <3> QED BY <1>7, <2>1, <2>2, <3>1, ProcessAssumption DEF Nobody, Pid
  <2>4. q # <<>> /\ ready_queue_head = q[1] /\ q[1] \in Pid
    BY <1>6, <1>7, <2>1 DEF ListInv, ListIsQueue, q, n
  <2>5. /\ queue_next' = [queue_next EXCEPT ![cursor] = c, ![c] = Nobody]
        /\ ready_queue_head' = q'[1] /\ ready_queue_head' \in Pid
    BY <1>1, <1>7, <1>8, <1>10, <2>1, <2>2, <2>4, CursorCase DEF Nobody, Pid
  <2>6. /\ queue_next' \in [Pid -> Pid \cup {Nobody}]
        /\ queue_next'[cursor] = c /\ queue_next'[c] = Nobody
        /\ \A p \in Pid : p # cursor /\ p # c => queue_next'[p] = queue_next[p]
    BY <2>2, <2>5 DEF ListInv
  <2>7. \A i \in 1 .. n : queue_next'[q'[i]] = q'[i + 1]
    <3> TAKE i \in 1 .. n
    <3>1. CASE i = n
      BY <1>7, <2>1, <2>3, <2>6, <3>1
    <3>2. CASE i < n
      <4>1. q[i] # cursor /\ q[i] # c /\ q[i] \in Pid
        BY <1>6, <1>7, <1>8, <2>1, <2>3, <3>2
      <4>2. queue_next[q[i]] = q[i + 1] /\ i + 1 \in 1 .. n
        BY <1>7, <3>2 DEF ListInv, ListIsQueue, q, n
      <4> QED BY <1>7, <2>6, <4>1, <4>2
    <3> QED BY <1>7, <3>1, <3>2
  <2>8. ListIsQueue'
    BY <1>2, <1>7, <2>5, <2>6, <2>7 DEF ListIsQueue, q
  <2> QED BY <1>2, <1>3, <1>4, <1>5, <2>5, <2>6, <2>8 DEF ListInv, CursorPlaced
<1> QED BY <1>9, <1>10

\* Every step of the trap code is a step of Process or changes none of its state.
LEMMA TrapStep ==
  ASSUME ListInv, TpInv, [TrapNext]_trapVars
  PROVE  ListInv' /\ [Next]_vars
<1>1. CASE UNCHANGED trapVars
  <2>1. UNCHANGED <<vars, listVars, where, csr>>
    BY <1>1 DEF trapVars
  <2>2. IInv' /\ ListIsQueue'
    BY <2>1, IInvStep DEF ListInv, ListIsQueue, vars, listVars
  <2> QED BY <2>1, <2>2 DEF ListInv, CsrShape, InterruptsOff, CursorPlaced, listVars, vars
<1>2. CASE TrapNext
  <2>1. Quiet \/ MachineTrap \/ HandlerPanic \/ PagesLost \/ ForkCall \/ Walk \/ ExitCall \/ BootFirst
        \/ ForkReturn
    BY <1>2 DEF TrapNext, Program, Kernel, Quiet
  <2> QED BY <2>1, QuietKeepsList, StopKeepsList, WalkKeepsList, ExitKeepsList,
             BootKeepsList, ForkKeepsList DEF Next
<1> QED BY <1>1, <1>2

-----------------------------------------------------------------------------
\* Trapframes are apart from each other and from g_itrframe.
LEMMA FramesApart ==
  /\ \A p \in Pid : Frame(p) \in NPROC .. Itr /\ Frame(p) # Itr /\ Frame(p) \in Int
  /\ \A p, r \in Pid : Frame(p) = Frame(r) => p = r
  /\ Itr \in NPROC .. Itr /\ Itr \in Int /\ Nobody \in Int /\ \A p \in Pid : p \in Int
BY ProcessAssumption DEF Frame, Itr, Pid, Nobody

\* A trapframe that holds what its program expects.
Holds(fr, cx) == fr.a0 = cx.a0 /\ fr.lo = cx.lo /\ fr.hi = cx.hi /\ fr.epc = cx.pc

\* switch_to a process whose trapframe holds what it expects.
LEMMA SwitchKeeps ==
  ASSUME NEW p \in Pid, NEW fr, NEW ie, TrapTypeOK, CsrShape,
         SwitchTo(p, fr, ie), current' = p, machine' = "on", pc' = pc,
         fr \in [NPROC .. Itr -> Frames],
         ctx' \in [Pid -> [a0 : Int, lo : Int, hi : Int, t6 : Int, pc : Int]],
         ~csr.ssip => Holds(fr[Frame(p)], ctx'[p]),
         ~csr.ssip => \A r \in Pid : status'[r] = "READY" => Holds(fr[Frame(r)], ctx'[r])
  PROVE  TrapInv'
<1>1. /\ csr'.sscratch = Frame(p) /\ csr'.sepc = fr[Frame(p)].epc /\ ~csr'.spp
      /\ csr'.ssip = csr.ssip /\ where' = "restore_lo"
      /\ regs' = [a0 |-> Frame(p), lo |-> Junk, hi |-> Junk, t6 |-> Frame(p)]
      /\ regs'.t6 = Frame(p)
      /\ frame' = [fr EXCEPT ![Frame(p)].kernel_sp = p]
  BY DEF SwitchTo, CsrShape, Switched
<1>2. frame' \in [NPROC .. Itr -> Frames] /\ frame'[Frame(p)].kernel_sp = p
      /\ \A r \in Pid : /\ frame'[Frame(r)].a0 = fr[Frame(r)].a0
                         /\ frame'[Frame(r)].lo = fr[Frame(r)].lo
                         /\ frame'[Frame(r)].hi = fr[Frame(r)].hi
                         /\ frame'[Frame(r)].epc = fr[Frame(r)].epc
  BY ZenonT(60), <1>1, FramesApart DEF Frames
<1>3. TrapTypeOK'
  <2>1. fr[Frame(p)].epc \in Int
    BY FramesApart DEF Frames
  <2>2. Frame(p) \in Int /\ Junk \in Int
    BY FramesApart DEF Junk
  <2>3. regs' \in [a0 : Int, lo : Int, hi : Int, t6 : Int]
    BY <1>1, <2>2
  <2>4. pc' \in Int /\ csr'.sscratch \in Int /\ csr'.sepc \in Int
    BY <1>1, <2>1, <2>2 DEF TrapTypeOK
  <2> QED BY Zenon, <1>2, <2>3, <2>4 DEF TrapTypeOK
<1>4. FramesNew' /\ FrameInPlace'
  BY <1>1, <1>2 DEF FramesNew, FrameInPlace, Saving, Restoring
<1>5. RegistersInPlace'
  BY <1>1, <1>2 DEF RegistersInPlace, Saving, Restoring, Holds
<1>6. ContextKept'
  BY <1>1, <1>2 DEF ContextKept, Holds
<1> QED BY <1>3, <1>4, <1>5, <1>6 DEF TrapInv

\* While the machine is on, current is one of the processes and RUNNING.
LEMMA CurrentRuns ==
  ASSUME ListInv, machine = "on"
  PROVE  current \in Pid /\ status[current] = "RUNNING"
BY DEF ListInv, IInv, PoolInv, SchedulerConsistent

\* An instruction of the program that does not trap.
LEMMA ComputeKeeps ==
  ASSUME ListInv, TrapInv, Compute
  PROVE  TrapInv'
<1> DEFINE w == Word(current)
<1>1. /\ machine = "on" /\ where = "user" /\ current \in Pid /\ status[current] = "RUNNING"
      /\ regs' = [regs EXCEPT !.lo = w, !.hi = w, !.t6 = w]
      /\ ctx' = [ctx EXCEPT ![current] = [@ EXCEPT !.lo = w, !.hi = w, !.t6 = w]]
      /\ UNCHANGED <<status, current, machine, where, pc, csr, stack, frame>>
  BY CurrentRuns DEF Compute, User, vars
<1>2. w \in Int
  BY <1>1, FramesApart DEF Word
<1> HIDE DEF w
<1>3. TrapTypeOK'
  BY Zenon, <1>1, <1>2 DEF TrapInv, TrapTypeOK
<1>4. FramesNew' /\ FrameInPlace' /\ RegistersInPlace'
  BY <1>1 DEF TrapInv, FramesNew, FrameInPlace, RegistersInPlace, Saving, Restoring
<1>5. regs'.a0 = regs.a0 /\ regs'.lo = w /\ regs'.hi = w
      /\ ctx'[current].a0 = ctx[current].a0 /\ ctx'[current].pc = ctx[current].pc
      /\ ctx'[current].lo = w /\ ctx'[current].hi = w
      /\ \A p \in Pid : p # current => ctx'[p] = ctx[p]
  BY <1>1 DEF TrapInv, TrapTypeOK
<1>6. ContextKept'
  BY <1>1, <1>5 DEF TrapInv, ContextKept
<1> QED BY <1>3, <1>4, <1>6 DEF TrapInv

\* A trap from user mode: the program's registers are as it left them, and the
\* program expects to go on behind an ecall and at an instruction that faulted.
LEMMA TrapKeeps ==
  ASSUME ListInv, TrapInv, NEW cause, machine = "on", where = "user", Trap(cause),
         ctx' \in [Pid -> [a0 : Int, lo : Int, hi : Int, t6 : Int, pc : Int]],
         regs' \in [a0 : Int, lo : Int, hi : Int, t6 : Int],
         regs'.lo = regs.lo, regs'.hi = regs.hi,
         ctx'[current].lo = ctx[current].lo, ctx'[current].hi = ctx[current].hi,
         \A p \in Pid : p # current => ctx'[p] = ctx[p],
         cause = "ecall" /\ ~csr.ssip => ctx'[current].pc = 1,
         cause \in {"store", "load"} => ctx'[current].pc = 0 /\ regs' = regs
                                       /\ ctx'[current].a0 = ctx[current].a0
  PROVE  TrapInv'
<1>1. /\ csr'.sscratch = csr.sscratch /\ csr'.sepc = 0 /\ ~csr'.spp /\ csr'.scause = cause
      /\ csr'.ssip = csr.ssip /\ where' = "vector"
      /\ current \in Pid /\ status[current] = "RUNNING"
      /\ UNCHANGED <<status, current, machine, pc, stack, frame>>
  BY Zenon, CurrentRuns DEF Trap, ListInv, CsrShape, vars
<1>2. TrapTypeOK'
  <2>1. csr'.sscratch \in Int /\ csr'.sepc \in Int
    BY <1>1 DEF TrapInv, TrapTypeOK
  <2> QED BY Zenon, <1>1, <2>1 DEF TrapInv, TrapTypeOK
<1>3. FramesNew' /\ FrameInPlace'
  BY Zenon, <1>1 DEF TrapInv, FramesNew, FrameInPlace, Saving, Restoring
<1>4. RegistersInPlace'
  BY Zenon, <1>1 DEF TrapInv, ContextKept, RegistersInPlace, Saving, Restoring
<1>5. ContextKept'
  <2>1. "vector" # "user" /\ "READY" # "RUNNING"
    OBVIOUS
  <2> QED BY ZenonT(60), <1>1, <2>1 DEF TrapInv, ContextKept
<1> QED BY Zenon, <1>2, <1>3, <1>4, <1>5 DEF TrapInv

\* The traps of user mode.
LEMMA UserTrapKeeps ==
  ASSUME ListInv, TrapInv,
         StoreFault \/ LoadFault \/ OtherTrap \/ Interrupt \/ \E n \in Int : Ecall(n)
  PROVE  TrapInv'
<1>1. machine = "on" /\ where = "user" /\ current \in Pid
  BY CurrentRuns DEF StoreFault, LoadFault, OtherTrap, Interrupt, Ecall, User,
                     ListInv, InterruptsOff
<1>2. /\ ctx \in [Pid -> [a0 : Int, lo : Int, hi : Int, t6 : Int, pc : Int]]
      /\ regs \in [a0 : Int, lo : Int, hi : Int, t6 : Int]
  BY DEF TrapInv, TrapTypeOK
<1>3. CASE StoreFault \/ LoadFault
  <2>1. PICK cause \in {"store", "load"} : Trap(cause)
    BY <1>3 DEF StoreFault, LoadFault
  <2>2. ctx' = [ctx EXCEPT ![current].pc = 0] /\ regs' = regs
    BY <1>3 DEF StoreFault, LoadFault
  <2>3. /\ ctx' \in [Pid -> [a0 : Int, lo : Int, hi : Int, t6 : Int, pc : Int]]
        /\ ctx'[current].lo = ctx[current].lo /\ ctx'[current].hi = ctx[current].hi
        /\ ctx'[current].pc = 0 /\ ctx'[current].a0 = ctx[current].a0
        /\ \A p \in Pid : p # current => ctx'[p] = ctx[p]
    BY <1>1, <1>2, <2>2
  <2> QED BY <1>1, <1>2, <2>1, <2>2, <2>3, TrapKeeps
<1>4. CASE OtherTrap \/ Interrupt
  <2>1. PICK cause \in {"other", "timer"} : Trap(cause)
    BY <1>4 DEF OtherTrap, Interrupt
  <2>2. UNCHANGED <<ctx, regs>>
    BY <1>4 DEF OtherTrap, Interrupt, userVars
  <2> QED BY <1>1, <1>2, <2>1, <2>2, TrapKeeps
<1>5. CASE \E n \in Int : Ecall(n)
  <2>1. PICK n \in Int : Ecall(n)
    BY <1>5
  <2>2. /\ regs' = [regs EXCEPT !.a0 = n] /\ Trap("ecall")
        /\ ctx' = [ctx EXCEPT ![current] = [@ EXCEPT !.t6 = Dead, !.pc = 1]]
    BY <2>1 DEF Ecall
  <2>3. /\ ctx' \in [Pid -> [a0 : Int, lo : Int, hi : Int, t6 : Int, pc : Int]]
        /\ regs' \in [a0 : Int, lo : Int, hi : Int, t6 : Int]
        /\ ctx'[current].lo = ctx[current].lo /\ ctx'[current].hi = ctx[current].hi
        /\ ctx'[current].pc = 1
        /\ \A p \in Pid : p # current => ctx'[p] = ctx[p]
        /\ regs'.lo = regs.lo /\ regs'.hi = regs.hi
    <3>1. Dead \in Int
      BY DEF Dead
    <3>2. ctx' \in [Pid -> [a0 : Int, lo : Int, hi : Int, t6 : Int, pc : Int]]
      <4> DEFINE cx == [ctx[current] EXCEPT !.t6 = Dead, !.pc = 1]
      <4>1. cx \in [a0 : Int, lo : Int, hi : Int, t6 : Int, pc : Int]
        <5>1. ctx[current] \in [a0 : Int, lo : Int, hi : Int, t6 : Int, pc : Int]
          BY <1>1, <1>2
        <5>2. \A x \in [a0 : Int, lo : Int, hi : Int, t6 : Int, pc : Int], d, e \in Int :
                [x EXCEPT !.t6 = d, !.pc = e] \in [a0 : Int, lo : Int, hi : Int, t6 : Int, pc : Int]
          BY Zenon
        <5>3. 1 \in Int
          OBVIOUS
        <5> QED BY <3>1, <5>1, <5>2, <5>3, Zenon
      <4>2. ctx' = [ctx EXCEPT ![current] = cx]
        BY <2>2
      <4> QED BY Zenon, <1>2, <4>1, <4>2
    <3>3. regs' \in [a0 : Int, lo : Int, hi : Int, t6 : Int]
      BY <1>2, <2>2
    <3> QED BY <1>1, <1>2, <2>2, <3>2, <3>3
  <2> QED BY <1>1, <2>2, <2>3, TrapKeeps
<1> QED BY <1>3, <1>4, <1>5

\* The machine timer.
LEMMA TickKeeps ==
  ASSUME ListInv, TrapInv, Tick
  PROVE  TrapInv'
<1>1. /\ csr'.sscratch = csr.sscratch /\ csr'.sepc = csr.sepc /\ csr'.spp = csr.spp
      /\ csr'.ssip
      /\ regs' = [regs EXCEPT !.t6 = Itr]
      /\ frame' = [frame EXCEPT ![Itr].a0 = regs.a0, ![Itr].lo = regs.lo,
                                ![Itr].hi = regs.hi, ![Itr].t6 = Itr]
      /\ UNCHANGED <<status, current, machine, where, pc, stack, ctx>>
  BY DEF Tick, ListInv, CsrShape, vars, userVars
<1>2. TrapTypeOK'
  <2>1. frame' \in [NPROC .. Itr -> Frames] /\ regs' \in [a0 : Int, lo : Int, hi : Int, t6 : Int]
    <3>1. /\ regs \in [a0 : Int, lo : Int, hi : Int, t6 : Int] /\ Itr \in Int
          /\ frame \in [NPROC .. Itr -> Frames]
      BY FramesApart DEF TrapInv, TrapTypeOK
    <3>2. regs.a0 \in Int /\ regs.lo \in Int /\ regs.hi \in Int
      BY <3>1
    <3>3. regs' \in [a0 : Int, lo : Int, hi : Int, t6 : Int]
      BY <1>1, <3>1
    <3>4. frame[Itr] \in Frames
      BY <3>1, FramesApart
    <3> DEFINE fi == [frame[Itr] EXCEPT !.a0 = regs.a0, !.lo = regs.lo, !.hi = regs.hi, !.t6 = Itr]
    <3>5. fi \in Frames
      BY Zenon, <3>1, <3>2, <3>4 DEF Frames
    <3>6. frame' = [frame EXCEPT ![Itr] = fi]
      BY Zenon, <1>1, <3>1, FramesApart
    <3> QED BY <3>1, <3>3, <3>5, <3>6, FramesApart
  <2> QED BY <1>1, <2>1 DEF TrapInv, TrapTypeOK
<1>3. \A p \in Pid : frame'[Frame(p)] = frame[Frame(p)]
  BY <1>1, FramesApart DEF TrapInv, TrapTypeOK
<1>4. machine = "on" => current \in Pid
  BY CurrentRuns
<1>5. regs'.a0 = regs.a0 /\ regs'.t6 = Itr
  BY <1>1 DEF TrapInv, TrapTypeOK
<1>6. FramesNew' /\ FrameInPlace'
  BY Zenon, <1>1, <1>3, <1>4, <1>5 DEF TrapInv, FramesNew, FrameInPlace
<1> QED BY <1>1, <1>2, <1>6 DEF TrapInv, RegistersInPlace, ContextKept

\* Another value in one field of one trapframe.
LEMMA FrameExcept ==
  ASSUME NEW fr \in [NPROC .. Itr -> Frames], NEW a \in NPROC .. Itr, NEW x \in Int
  PROVE  /\ [fr EXCEPT ![a].a0 = x] \in [NPROC .. Itr -> Frames]
         /\ [fr EXCEPT ![a].lo = x] \in [NPROC .. Itr -> Frames]
         /\ [fr EXCEPT ![a].hi = x] \in [NPROC .. Itr -> Frames]
         /\ [fr EXCEPT ![a].t6 = x] \in [NPROC .. Itr -> Frames]
         /\ [fr EXCEPT ![a].epc = x] \in [NPROC .. Itr -> Frames]
<1>1. fr[a] \in Frames
  OBVIOUS
<1>2. /\ [fr[a] EXCEPT !.a0 = x] \in Frames /\ [fr[a] EXCEPT !.lo = x] \in Frames
      /\ [fr[a] EXCEPT !.hi = x] \in Frames /\ [fr[a] EXCEPT !.t6 = x] \in Frames
      /\ [fr[a] EXCEPT !.epc = x] \in Frames
  BY <1>1 DEF Frames
<1> QED BY <1>2

\* smode_trap_vector up to the macro.
LEMMA VectorKeeps ==
  ASSUME ListInv, TrapInv, Vector
  PROVE  TrapInv'
<1>1. /\ csr'.sscratch = regs.a0 /\ csr'.sepc = csr.sepc /\ csr'.spp = csr.spp
      /\ csr'.ssip = csr.ssip /\ csr'.scause = csr.scause
      /\ machine = "on" /\ where = "vector" /\ where' = "save_lo" /\ current \in Pid
      /\ regs' = [regs EXCEPT !.a0 = csr.sscratch, !.t6 = csr.sscratch]
      /\ UNCHANGED <<status, current, machine, pc, stack, frame, ctx>>
  BY CurrentRuns DEF Vector, ListInv, CsrShape, vars, userVars
<1>2. /\ regs'.a0 = csr.sscratch /\ regs'.t6 = csr.sscratch
      /\ regs'.lo = regs.lo /\ regs'.hi = regs.hi
      /\ regs' \in [a0 : Int, lo : Int, hi : Int, t6 : Int]
      /\ regs.a0 \in Int
  BY Zenon, <1>1 DEF TrapInv, TrapTypeOK
<1>3. TrapTypeOK'
  BY Zenon, <1>1, <1>2 DEF TrapInv, TrapTypeOK
<1>4. FramesNew' /\ FrameInPlace'
  BY <1>1, <1>2 DEF TrapInv, FramesNew, FrameInPlace, Saving, Restoring
<1>5. RegistersInPlace'
  BY <1>1, <1>2 DEF TrapInv, FrameInPlace, RegistersInPlace, Saving, Restoring
<1>6. ContextKept'
  BY <1>1 DEF TrapInv, ContextKept
<1> QED BY <1>3, <1>4, <1>5, <1>6 DEF TrapInv

\* store_all_registers, first half.
LEMMA SaveLoKeeps ==
  ASSUME ListInv, TrapInv, SaveLo
  PROVE  TrapInv'
<1>1. /\ machine = "on" /\ where = "save_lo" /\ where' = "save_hi"
      /\ current \in Pid /\ status[current] = "RUNNING"
      /\ frame' = [frame EXCEPT ![regs.t6].lo = regs.lo]
      /\ UNCHANGED <<status, current, machine, regs, pc, csr, stack, ctx>>
  BY CurrentRuns DEF SaveLo, vars, userVars
<1>2. regs.t6 \in {Frame(current), Itr} /\ regs.t6 \in NPROC .. Itr /\ regs.lo \in Int
  BY <1>1, FramesApart DEF TrapInv, TrapTypeOK, FrameInPlace, Saving
<1>3. TrapTypeOK'
  BY Zenon, <1>1, <1>2, FrameExcept DEF TrapInv, TrapTypeOK
<1>4. /\ \A p \in Pid : p # current => frame'[Frame(p)] = frame[Frame(p)]
      /\ frame'[Frame(current)].kernel_sp = frame[Frame(current)].kernel_sp
      /\ regs.t6 = Frame(current) => frame'[Frame(current)].lo = regs.lo
  BY ZenonT(60), <1>1, <1>2, FramesApart DEF TrapInv, TrapTypeOK, Frames
<1>5. FramesNew' /\ FrameInPlace'
  BY <1>1, <1>4 DEF TrapInv, FramesNew, FrameInPlace, Saving, Restoring
<1>6. RegistersInPlace'
  BY <1>1, <1>4 DEF TrapInv, RegistersInPlace, Saving, Restoring
<1>7. ContextKept'
  BY Zenon, <1>1, <1>4 DEF TrapInv, ContextKept
<1> QED BY <1>3, <1>5, <1>6, <1>7 DEF TrapInv

\* store_all_registers, second half, and the kernel stack.
LEMMA SaveHiKeeps ==
  ASSUME ListInv, TrapInv, SaveHi
  PROVE  TrapInv'
<1>1. /\ machine = "on" /\ where = "save_hi" /\ where' = "handler"
      /\ current \in Pid /\ status[current] = "RUNNING"
      /\ frame' = [frame EXCEPT ![regs.t6].hi = regs.hi, ![regs.t6].t6 = regs.t6,
                                ![regs.a0].a0 = csr.sscratch]
      /\ stack' = frame[regs.a0].kernel_sp
      /\ UNCHANGED <<status, current, machine, regs, pc, csr, ctx>>
  BY CurrentRuns DEF SaveHi, vars, userVars
<1>2. /\ regs.t6 \in {Frame(current), Itr} /\ regs.t6 \in NPROC .. Itr
      /\ regs.hi \in Int /\ regs.t6 \in Int /\ csr.sscratch \in Int
      /\ regs.a0 = Frame(current) /\ regs.a0 \in NPROC .. Itr
      /\ frame[Frame(current)].kernel_sp = current
  BY <1>1, FramesApart DEF TrapInv, TrapTypeOK, FrameInPlace, Saving
<1>3. TrapTypeOK'
  <2> DEFINE f1 == [frame EXCEPT ![regs.t6].hi = regs.hi]
             f2 == [f1 EXCEPT ![regs.t6].t6 = regs.t6]
             f3 == [f2 EXCEPT ![regs.a0].a0 = csr.sscratch]
  <2>1. f1 \in [NPROC .. Itr -> Frames]
    BY Zenon, <1>2, FrameExcept DEF TrapInv, TrapTypeOK
  <2>2. frame' = f3
    BY <1>1
  <2> HIDE DEF f1
  <2>3. f2 \in [NPROC .. Itr -> Frames]
    BY Zenon, <1>2, <2>1, FrameExcept
  <2> HIDE DEF f2
  <2>4. f3 \in [NPROC .. Itr -> Frames]
    BY Zenon, <1>2, <2>3, FrameExcept
  <2> QED BY Zenon, <1>1, <2>2, <2>4 DEF TrapInv, TrapTypeOK
<1>4. /\ \A p \in Pid : p # current => frame'[Frame(p)] = frame[Frame(p)]
      /\ frame'[Frame(current)].kernel_sp = frame[Frame(current)].kernel_sp
      /\ frame'[Frame(current)].lo = frame[Frame(current)].lo
      /\ frame'[Frame(current)].a0 = csr.sscratch
      /\ regs.t6 = Frame(current) => frame'[Frame(current)].hi = regs.hi
  <2>1. frame \in [NPROC .. Itr -> Frames]
    BY DEF TrapInv, TrapTypeOK
  <2>2. CASE regs.t6 = Frame(current)
    <3>1. frame' = [frame EXCEPT ![Frame(current)] =
                      [@ EXCEPT !.hi = regs.hi, !.t6 = regs.t6, !.a0 = csr.sscratch]]
      BY Zenon, <1>1, <1>2, <2>1, <2>2, FramesApart
    <3>2. frame'[Frame(current)] = [frame[Frame(current)] EXCEPT !.hi = regs.hi, !.t6 = regs.t6,
                                                                 !.a0 = csr.sscratch]
          /\ \A p \in Pid : p # current => frame'[Frame(p)] = frame[Frame(p)]
      BY Zenon, <1>1, <2>1, <3>1, FramesApart
    <3>3. frame[Frame(current)] \in Frames
      BY <1>1, <2>1, FramesApart
    <3>4. \A x \in Frames, a, b, c \in Int :
             LET y == [x EXCEPT !.hi = a, !.t6 = b, !.a0 = c]
             IN  y.kernel_sp = x.kernel_sp /\ y.lo = x.lo /\ y.a0 = c /\ y.hi = a
      BY DEF Frames
    <3> QED BY <1>2, <3>2, <3>3, <3>4
  <2>3. CASE regs.t6 = Itr
    <3>1. /\ frame'[Frame(current)] = [frame[Frame(current)] EXCEPT !.a0 = csr.sscratch]
          /\ \A p \in Pid : p # current => frame'[Frame(p)] = frame[Frame(p)]
      BY <1>1, <1>2, <2>1, <2>3, FramesApart
    <3>2. frame[Frame(current)] \in Frames
      BY <1>1, <2>1, FramesApart
    <3>3. \A x \in Frames, c \in Int :
             LET y == [x EXCEPT !.a0 = c]
             IN  y.kernel_sp = x.kernel_sp /\ y.lo = x.lo /\ y.a0 = c
      BY DEF Frames
    <3>4. regs.t6 # Frame(current)
      BY Zenon, <1>1, <2>3, FramesApart
    <3> QED BY <1>2, <3>1, <3>2, <3>3, <3>4
  <2> QED BY Zenon, <1>2, <2>2, <2>3
<1>5. FramesNew' /\ FrameInPlace'
  BY Zenon, <1>1, <1>2, <1>4 DEF TrapInv, FramesNew, FrameInPlace, Saving, Restoring
<1>6. RegistersInPlace'
  BY Zenon, <1>1, <1>4 DEF TrapInv, RegistersInPlace, Saving, Restoring
<1>7. ContextKept'
  BY ZenonT(60), <1>1, <1>4 DEF TrapInv, ContextKept
<1> QED BY <1>3, <1>5, <1>6, <1>7 DEF TrapInv

\* restore_all_registers and sret.
LEMMA RestoreKeeps ==
  ASSUME ListInv, TrapInv, RestoreLo \/ RestoreHi
  PROVE  TrapInv'
<1>1. /\ machine = "on" /\ where \in Restoring /\ current \in Pid
      /\ csr'.sscratch = csr.sscratch /\ csr'.sepc = csr.sepc /\ csr'.ssip = csr.ssip
      /\ csr'.scause = csr.scause
      /\ UNCHANGED <<status, current, machine, stack, frame, ctx>>
  BY Zenon, CurrentRuns DEF RestoreLo, RestoreHi, ListInv, CsrShape, vars, userVars, Restoring
<1>2. /\ regs.t6 \in NPROC .. Itr /\ frame[regs.t6] \in Frames
      /\ ~csr.ssip => regs.t6 = Frame(current)
  BY Zenon, <1>1, FramesApart DEF TrapInv, TrapTypeOK, FrameInPlace, RegistersInPlace
<1>3. CASE RestoreLo
  <2>1. /\ where = "restore_lo" /\ where' = "restore_hi" /\ pc' = pc /\ csr' = csr
        /\ regs' = [regs EXCEPT !.a0 = frame[regs.t6].a0, !.lo = frame[regs.t6].lo]
    BY <1>3 DEF RestoreLo
  <2>2. /\ regs'.a0 = frame[regs.t6].a0 /\ regs'.lo = frame[regs.t6].lo
        /\ regs'.t6 = regs.t6 /\ regs' \in [a0 : Int, lo : Int, hi : Int, t6 : Int]
    BY Zenon, <1>2, <2>1 DEF TrapInv, TrapTypeOK, Frames
  <2>3. TrapTypeOK' /\ FramesNew' /\ FrameInPlace'
    BY Zenon, <1>1, <2>1, <2>2
       DEF TrapInv, TrapTypeOK, FramesNew, FrameInPlace, Saving, Restoring
  <2>4. RegistersInPlace' /\ ContextKept'
    BY <1>1, <1>2, <2>1, <2>2
    DEF TrapInv, RegistersInPlace, ContextKept, Saving, Restoring
  <2> QED BY <2>3, <2>4 DEF TrapInv
<1>4. CASE RestoreHi
  <2>1. /\ where = "restore_hi" /\ where' = "user" /\ pc' = csr.sepc
        /\ regs' = [regs EXCEPT !.hi = frame[regs.t6].hi, !.t6 = frame[regs.t6].t6]
    BY <1>4 DEF RestoreHi
  <2>2. /\ regs'.a0 = regs.a0 /\ regs'.lo = regs.lo
        /\ regs'.hi = frame[regs.t6].hi /\ regs' \in [a0 : Int, lo : Int, hi : Int, t6 : Int]
    BY Zenon, <1>2, <2>1 DEF TrapInv, TrapTypeOK, Frames
  <2>3. TrapTypeOK' /\ FramesNew' /\ FrameInPlace'
    BY Zenon, <1>1, <2>1, <2>2
       DEF TrapInv, TrapTypeOK, FramesNew, FrameInPlace, Saving, Restoring
  <2>4. RegistersInPlace' /\ ContextKept'
    BY <1>1, <1>2, <2>1, <2>2
    DEF TrapInv, RegistersInPlace, ContextKept, Saving, Restoring
  <2> QED BY <2>3, <2>4 DEF TrapInv
<1> QED BY <1>3, <1>4

\* The result of a system call, in what its caller expects.
LEMMA ContextExcept ==
  ASSUME NEW cx \in [Pid -> [a0 : Int, lo : Int, hi : Int, t6 : Int, pc : Int]],
         NEW p \in Pid, NEW x \in Int
  PROVE  LET y == [cx EXCEPT ![p].a0 = x]
         IN  /\ y \in [Pid -> [a0 : Int, lo : Int, hi : Int, t6 : Int, pc : Int]]
             /\ y[p].a0 = x /\ y[p].lo = cx[p].lo /\ y[p].hi = cx[p].hi /\ y[p].pc = cx[p].pc
             /\ \A r \in Pid : r # p => y[r] = cx[r]
  OBVIOUS

\* What a handler that returns to current has in hand.
LEMMA HandlerFacts ==
  ASSUME ListInv, TrapInv, machine = "on", where = "handler"
  PROVE  /\ current \in Pid /\ status[current] = "RUNNING"
         /\ Saved \in [NPROC .. Itr -> Frames]
         /\ \A p \in Pid : p # current => Saved[Frame(p)] = frame[Frame(p)]
         /\ Saved[Frame(current)] = [frame[Frame(current)] EXCEPT !.epc = SavedEpc(csr.scause)]
         /\ csr.scause \in {"ecall", "store", "load"} /\ ~csr.ssip =>
              /\ Saved[Frame(current)].lo = ctx[current].lo
              /\ Saved[Frame(current)].hi = ctx[current].hi
              /\ Saved[Frame(current)].epc = ctx[current].pc
              /\ csr.scause # "ecall" => Saved[Frame(current)].a0 = ctx[current].a0
<1>1. current \in Pid /\ status[current] = "RUNNING" /\ frame \in [NPROC .. Itr -> Frames]
      /\ csr.sepc \in Int
  BY CurrentRuns DEF TrapInv, TrapTypeOK
<1>2. SavedEpc(csr.scause) \in Int /\ Frame(current) \in NPROC .. Itr
  BY <1>1, FramesApart DEF SavedEpc
<1>3. /\ Saved \in [NPROC .. Itr -> Frames]
      /\ \A p \in Pid : p # current => Saved[Frame(p)] = frame[Frame(p)]
      /\ Saved[Frame(current)] = [frame[Frame(current)] EXCEPT !.epc = SavedEpc(csr.scause)]
  BY ZenonT(60), <1>1, <1>2, FrameExcept, FramesApart DEF Saved
<1>4. frame[Frame(current)] \in Frames
  BY <1>1, <1>2
<1>5. \A x \in Frames, e \in Int :
         LET y == [x EXCEPT !.epc = e]
         IN  y.lo = x.lo /\ y.hi = x.hi /\ y.a0 = x.a0 /\ y.epc = e
  BY DEF Frames
<1>6. /\ Saved[Frame(current)].lo = frame[Frame(current)].lo
      /\ Saved[Frame(current)].hi = frame[Frame(current)].hi
      /\ Saved[Frame(current)].a0 = frame[Frame(current)].a0
      /\ Saved[Frame(current)].epc = SavedEpc(csr.scause)
  BY <1>2, <1>3, <1>4, <1>5
<1>7. csr.scause \in {"ecall", "store", "load"} /\ ~csr.ssip =>
        SavedEpc(csr.scause) = ctx[current].pc
  <2>1. csr.scause \in {"ecall", "store", "load"} /\ ~csr.ssip =>
          /\ csr.sepc = 0
          /\ csr.scause \in {"store", "load"} => ctx[current].pc = 0
          /\ csr.scause = "ecall" => ctx[current].pc = 1
    BY Zenon DEF TrapInv, RegistersInPlace
  <2>2. 0 + 1 = 1
    OBVIOUS
  <2> QED BY Zenon, <2>1, <2>2 DEF SavedEpc
<1>8. csr.scause \in {"ecall", "store", "load"} /\ ~csr.ssip =>
        /\ frame[Frame(current)].lo = ctx[current].lo
        /\ frame[Frame(current)].hi = ctx[current].hi
        /\ csr.scause # "ecall" => frame[Frame(current)].a0 = ctx[current].a0
  BY Zenon DEF TrapInv, RegistersInPlace
<1> QED BY <1>1, <1>3, <1>6, <1>7, <1>8

\* Every process that waits has what it expects in its trapframe.
LEMMA WaitersHold ==
  ASSUME TrapInv, machine = "on", ~csr.ssip, NEW p \in Pid, status[p] = "READY"
  PROVE  Holds(frame[Frame(p)], ctx[p])
BY Zenon DEF TrapInv, ContextKept, Holds

\* Faults that return.
LEMMA FaultKeeps ==
  ASSUME ListInv, TrapInv, StoreHandled \/ LoadHandled
  PROVE  TrapInv'
<1>1. PICK ie : SwitchTo(current, Saved, ie)
  BY DEF StoreHandled, LoadHandled
<1>2. /\ machine = "on" /\ where = "handler" /\ csr.scause \in {"store", "load"}
      /\ UNCHANGED <<status, current, machine, pc, ctx>>
  BY DEF StoreHandled, LoadHandled, Handler, vars, userVars
<1>3. TrapTypeOK /\ CsrShape
      /\ ctx' \in [Pid -> [a0 : Int, lo : Int, hi : Int, t6 : Int, pc : Int]]
  BY <1>2 DEF ListInv, TrapInv, TrapTypeOK
<1>4. ~csr.ssip => Holds(Saved[Frame(current)], ctx'[current])
  BY <1>2, HandlerFacts DEF Holds
<1>5. ~csr.ssip => \A r \in Pid : status'[r] = "READY" => Holds(Saved[Frame(r)], ctx'[r])
  BY <1>2, HandlerFacts, WaitersHold
<1> QED BY Zenon, <1>1, <1>2, <1>3, <1>4, <1>5, HandlerFacts, SwitchKeeps

\* A system call that returns 0.
LEMMA OtherCallKeeps ==
  ASSUME ListInv, TrapInv, OtherCall
  PROVE  TrapInv'
<1> DEFINE fr == Result(Saved, 0)
<1>1. /\ machine = "on" /\ where = "handler" /\ csr.scause = "ecall"
      /\ SwitchTo(current, fr, csr.sie)
      /\ ctx' = [ctx EXCEPT ![current].a0 = 0]
      /\ UNCHANGED <<status, current, machine, pc>>
  BY DEF OtherCall, Called, Handler, vars, userVars
<1>2. TrapTypeOK /\ CsrShape /\ current \in Pid /\ Frame(current) \in NPROC .. Itr
  BY <1>1, FramesApart, CurrentRuns DEF ListInv, TrapInv
<1>3. /\ ctx' \in [Pid -> [a0 : Int, lo : Int, hi : Int, t6 : Int, pc : Int]]
      /\ ctx'[current].a0 = 0 /\ ctx'[current].lo = ctx[current].lo
      /\ ctx'[current].hi = ctx[current].hi /\ ctx'[current].pc = ctx[current].pc
      /\ \A r \in Pid : r # current => ctx'[r] = ctx[r]
  <2>1. ctx \in [Pid -> [a0 : Int, lo : Int, hi : Int, t6 : Int, pc : Int]]
    BY <1>2 DEF TrapTypeOK
  <2> QED BY <1>1, <1>2, <2>1, ContextExcept
<1>4. fr \in [NPROC .. Itr -> Frames]
  <2>1. Saved \in [NPROC .. Itr -> Frames] /\ 0 \in Int
    BY <1>1, HandlerFacts
  <2> QED BY ZenonT(60), <1>2, <2>1, FrameExcept DEF Result
<1>5. /\ fr[Frame(current)].a0 = 0 /\ fr[Frame(current)].lo = Saved[Frame(current)].lo
      /\ fr[Frame(current)].hi = Saved[Frame(current)].hi
      /\ fr[Frame(current)].epc = Saved[Frame(current)].epc
      /\ \A r \in Pid : r # current => fr[Frame(r)] = Saved[Frame(r)]
  <2>1. Saved \in [NPROC .. Itr -> Frames]
    BY <1>1, HandlerFacts
  <2> QED BY <1>2, <2>1, FramesApart DEF Result, Frames
<1> HIDE DEF fr
<1>6. ~csr.ssip => Holds(fr[Frame(current)], ctx'[current])
  BY <1>1, <1>3, <1>5, HandlerFacts DEF Holds
<1>7. ~csr.ssip => \A r \in Pid : status'[r] = "READY" => Holds(fr[Frame(r)], ctx'[r])
  BY <1>1, <1>3, <1>5, HandlerFacts, WaitersHold
<1> QED BY Zenon, <1>1, <1>2, <1>3, <1>4, <1>6, <1>7, SwitchKeeps

\* A stop ends everything the invariant speaks of.
LEMMA StopKeeps ==
  ASSUME TrapInv, MachineTrap \/ HandlerPanic \/ PagesLost
  PROVE  TrapInv'
BY Zenon DEF TrapInv, TrapTypeOK, FramesNew, FrameInPlace, RegistersInPlace, ContextKept,
       MachineTrap, HandlerPanic, PagesLost, Panic, Stop, userVars

\* The first process starts with a new frame.
LEMMA BootKeeps ==
  ASSUME ListInv, TrapInv, BootFirst
  PROVE  TrapInv'
<1>1. PICK p \in Pid :
        /\ FirstFree(p)
        /\ ScheduleList([status EXCEPT ![p] = "READY"], p, queue_next',
                        Insert(ready_queue, p), frame)
  BY Zenon DEF BootFirst
<1>2. /\ machine = "boot" /\ p # Nobody /\ UNCHANGED <<pc, ctx>>
      /\ \A r \in Pid : status[r] = "FREE"
      /\ status \in [Pid -> {"FREE", "READY", "RUNNING", "BLOCKED", "ZOMBIE"}]
  BY DEF BootFirst, userVars, ListInv, IInv, PoolInv, TypeOK, Nobody, Pid
<1>3. /\ SwitchTo(p, frame, csr.sie) /\ current' = p /\ machine' = "on"
      /\ \A r \in Pid : status'[r] # "READY"
  BY <1>1, <1>2 DEF ScheduleList
<1>4. TrapTypeOK /\ CsrShape /\ frame \in [NPROC .. Itr -> Frames]
      /\ ctx' \in [Pid -> [a0 : Int, lo : Int, hi : Int, t6 : Int, pc : Int]]
  BY Zenon, <1>2 DEF ListInv, TrapInv, TrapTypeOK
<1>5. Holds(frame[Frame(p)], ctx'[p])
  <2>1. frame[Frame(p)] = Frame0 /\ ctx'[p] = Context0
    BY Zenon, <1>2 DEF TrapInv, FramesNew
  <2>2. Holds(Frame0, Context0)
    BY DEF Holds, Frame0, Context0
  <2> QED BY Zenon, <2>1, <2>2
<1> QED BY Zenon, <1>2, <1>3, <1>4, <1>5, SwitchKeeps

\* exit switches to a process that waits, or stops the machine.
LEMMA ExitKeeps ==
  ASSUME ListInv, TrapInv, ExitCall
  PROVE  TrapInv'
<1> DEFINE st == FreeProcess(status, current)
           h  == ready_queue_head
<1>1. /\ machine = "on" /\ where = "handler" /\ UNCHANGED pc
      /\ ScheduleList(st, h, queue_next, ready_queue, Saved)
      /\ ctx' = [ctx EXCEPT ![current] = Context0]
  BY DEF ExitCall, Called, Handler
<1>2. /\ TrapTypeOK /\ CsrShape /\ current \in Pid
      /\ status \in [Pid -> {"FREE", "READY", "RUNNING", "BLOCKED", "ZOMBIE"}]
      /\ ctx \in [Pid -> [a0 : Int, lo : Int, hi : Int, t6 : Int, pc : Int]]
  BY Zenon, <1>1, CurrentRuns DEF ListInv, TrapInv, TrapTypeOK, IInv, TypeOK
<1>3. Context0 \in [a0 : Int, lo : Int, hi : Int, t6 : Int, pc : Int]
  <2>1. Dead \in Int
    BY DEF Dead
  <2> QED BY <2>1 DEF Context0
<1>4. /\ ctx' \in [Pid -> [a0 : Int, lo : Int, hi : Int, t6 : Int, pc : Int]]
      /\ \A r \in Pid : r # current => ctx'[r] = ctx[r]
  BY <1>1, <1>2, <1>3
<1>5. Saved \in [NPROC .. Itr -> Frames]
      /\ \A r \in Pid : r # current => Saved[Frame(r)] = frame[Frame(r)]
  BY <1>1, HandlerFacts
<1>6. CASE h = Nobody
  <2>1. machine' \notin {"on", "boot"} /\ frame' = Saved /\ UNCHANGED <<regs, csr>>
    BY <1>1, <1>6 DEF ScheduleList
  <2>2. TrapTypeOK'
    BY Zenon, <1>1, <1>2, <1>4, <1>5, <2>1 DEF TrapTypeOK
  <2> QED BY Zenon, <2>1, <2>2 DEF TrapInv, FramesNew, FrameInPlace, RegistersInPlace, ContextKept
<1>7. CASE h # Nobody
  <2>1. h \in Pid /\ status[h] = "READY"
    <3>1. ready_queue # <<>> /\ h = Head(ready_queue)
      BY <1>7, HeadIsHead
    <3>2. h = ready_queue[1] /\ 1 \in DOMAIN ready_queue
      BY <3>1, TailFacts DEF ListInv, IInv, TypeOK
    <3> QED BY <1>7, <3>2 DEF ListInv, IInv, SchedulerConsistent
  <2>2. h # current /\ status[current] = "RUNNING"
    BY <1>1, <2>1, CurrentRuns
  <2>3. /\ SwitchTo(h, Saved, csr.sie) /\ current' = h /\ machine' = "on"
        /\ status' = [st EXCEPT ![h] = "RUNNING"]
    BY <1>1, <1>2, <1>7, <2>1, <2>2 DEF ScheduleList, FreeProcess
  <2>4. \A r \in Pid : status'[r] = "READY" => status[r] = "READY" /\ r # current
    BY <1>2, <2>1, <2>2, <2>3 DEF FreeProcess
  <2>5. ~csr.ssip => Holds(Saved[Frame(h)], ctx'[h])
    BY Zenon, <1>1, <1>4, <1>5, <2>1, <2>2, WaitersHold
  <2>6. ~csr.ssip => \A r \in Pid : status'[r] = "READY" => Holds(Saved[Frame(r)], ctx'[r])
    BY <1>1, <1>4, <1>5, <2>4, WaitersHold
  <2> QED BY Zenon, <1>1, <1>2, <1>4, <1>5, <2>1, <2>3, <2>5, <2>6, SwitchKeeps
<1> QED BY <1>6, <1>7

\* The walk does not touch a frame.
LEMMA WalkKeeps ==
  ASSUME ListInv, TrapInv, ForkCall \/ Walk
  PROVE  TrapInv'
<1>1. CASE ForkCall
  <2>1. /\ machine = "on" /\ where = "handler" /\ where' = "walk" /\ frame' = Saved
        /\ csr.scause = "ecall"
        /\ UNCHANGED <<status, current, machine, regs, pc, csr, stack, ctx>>
    BY <1>1 DEF ForkCall, Called, Handler, vars, userVars
  <2>2. /\ current \in Pid /\ status[current] = "RUNNING"
        /\ Saved \in [NPROC .. Itr -> Frames]
        /\ Saved[Frame(current)] = [frame[Frame(current)] EXCEPT !.epc = SavedEpc(csr.scause)]
        /\ \A p \in Pid : p # current => Saved[Frame(p)] = frame[Frame(p)]
    BY <2>1, HandlerFacts
  <2>3. ~csr.ssip => /\ Saved[Frame(current)].lo = ctx[current].lo
                     /\ Saved[Frame(current)].hi = ctx[current].hi
                     /\ Saved[Frame(current)].epc = ctx[current].pc
    BY <2>1, HandlerFacts
  <2>4. Saved[Frame(current)].kernel_sp = current
    <3>1. frame[Frame(current)] \in Frames /\ frame[Frame(current)].kernel_sp = current
      BY <2>1, <2>2, FramesApart DEF TrapInv, TrapTypeOK, FrameInPlace
    <3>2. \A x \in Frames : \A e : [x EXCEPT !.epc = e].kernel_sp = x.kernel_sp
      BY DEF Frames
    <3> QED BY <2>2, <3>1, <3>2
  <2>5. TrapTypeOK' /\ FramesNew' /\ FrameInPlace'
    BY <2>1, <2>2, <2>4
       DEF TrapInv, TrapTypeOK, FramesNew, FrameInPlace, Saving, Restoring
  <2>6. RegistersInPlace'
    BY Zenon, <2>1, <2>3 DEF RegistersInPlace, Saving, Restoring
  <2>7. ContextKept'
    BY <2>1, <2>2 DEF TrapInv, ContextKept
  <2> QED BY <2>5, <2>6, <2>7 DEF TrapInv
<1>2. CASE Walk
  <2>1. UNCHANGED <<status, current, machine, where, regs, pc, csr, stack, frame, ctx>>
    BY Zenon, <1>2 DEF Walk, vars, userVars
  <2>2. TrapTypeOK' /\ FramesNew' /\ FrameInPlace' /\ ContextKept'
    BY Zenon, <2>1 DEF TrapInv, TrapTypeOK, FramesNew, FrameInPlace, ContextKept
  <2>3. RegistersInPlace'
    BY Zenon, <2>1 DEF TrapInv, RegistersInPlace
  <2> QED BY Zenon, <2>2, <2>3 DEF TrapInv
<1> QED BY <1>1, <1>2

\* The child gets its parent's frame, and expects what its parent expects, but
\* for the result.
LEMMA ForkKeeps ==
  ASSUME ListInv, TrapInv, ForkReturn
  PROVE  TrapInv'
<1> DEFINE f  == Frame(current)
           C  == [a0 : Int, lo : Int, hi : Int, t6 : Int, pc : Int]
<1>1. PICK c \in Pid :
        /\ FirstFree(c)
        /\ status' = [status EXCEPT ![c] = "READY"]
        /\ SwitchTo(current,
                    Result([frame EXCEPT ![Frame(c)] = [frame[f] EXCEPT !.a0 = 0]], c),
                    IrqRestored(csr.sie))
        /\ ctx' = [ctx EXCEPT ![c] = [ctx[current] EXCEPT !.a0 = 0], ![current].a0 = c]
  BY Zenon DEF ForkReturn
<1> DEFINE new == [frame[f] EXCEPT !.a0 = 0]
           f1  == [frame EXCEPT ![Frame(c)] = new]
           fr  == Result(f1, c)
           cx  == [ctx[current] EXCEPT !.a0 = 0]
           x1  == [ctx EXCEPT ![c] = cx]
<1>2. /\ machine = "on" /\ where = "walk" /\ UNCHANGED <<current, machine, pc>>
      /\ current \in Pid /\ status[current] = "RUNNING" /\ status[c] = "FREE" /\ c # current
      /\ TrapTypeOK /\ CsrShape /\ frame \in [NPROC .. Itr -> Frames]
      /\ ctx \in [Pid -> C]
      /\ status \in [Pid -> {"FREE", "READY", "RUNNING", "BLOCKED", "ZOMBIE"}]
  BY Zenon, <1>1, CurrentRuns DEF ForkReturn, FirstFree, ListInv, IInv, TypeOK, TrapInv, TrapTypeOK
<1>3. /\ f \in NPROC .. Itr /\ Frame(c) \in NPROC .. Itr /\ f # Frame(c)
      /\ c \in Int /\ frame[f] \in Frames /\ ctx[current] \in C /\ 0 \in Int
  BY <1>2, FramesApart
<1>4. /\ new \in Frames /\ new.a0 = 0 /\ new.lo = frame[f].lo /\ new.hi = frame[f].hi
      /\ new.epc = frame[f].epc
  BY <1>3 DEF Frames
<1>5. /\ cx \in C /\ cx.a0 = 0 /\ cx.lo = ctx[current].lo /\ cx.hi = ctx[current].hi
      /\ cx.pc = ctx[current].pc
  BY <1>3
<1> HIDE DEF new, cx
<1>6. /\ f1 \in [NPROC .. Itr -> Frames] /\ f1[Frame(c)] = new /\ f1[f] = frame[f]
      /\ \A r \in Pid : r # c => f1[Frame(r)] = frame[Frame(r)]
  BY Zenon, <1>2, <1>3, <1>4, FramesApart
<1>7. x1 \in [Pid -> C] /\ x1[c] = cx /\ \A r \in Pid : r # c => x1[r] = ctx[r]
  BY <1>2, <1>5
<1>8. ctx' = [x1 EXCEPT ![current].a0 = c]
  BY <1>1 DEF cx
<1>9. SwitchTo(current, fr, IrqRestored(csr.sie))
  BY <1>1 DEF new
<1> HIDE DEF f1, x1
<1>10. /\ fr \in [NPROC .. Itr -> Frames] /\ fr[f].a0 = c
       /\ fr[f].lo = frame[f].lo /\ fr[f].hi = frame[f].hi /\ fr[f].epc = frame[f].epc
       /\ \A r \in Pid : r # current => fr[Frame(r)] = f1[Frame(r)]
  <2>1. fr \in [NPROC .. Itr -> Frames]
    BY ZenonT(60), <1>3, <1>6, FrameExcept DEF Result
  <2>2. fr[f] = [f1[f] EXCEPT !.a0 = c]
        /\ \A r \in Pid : r # current => fr[Frame(r)] = f1[Frame(r)]
    BY <1>2, <1>3, <1>6, FramesApart DEF Result
  <2>3. \A x \in Frames, e \in Int :
           LET y == [x EXCEPT !.a0 = e]
           IN  y.lo = x.lo /\ y.hi = x.hi /\ y.a0 = e /\ y.epc = x.epc
    BY DEF Frames
  <2> HIDE DEF fr
  <2> QED BY <1>3, <1>6, <2>1, <2>2, <2>3
<1>11. /\ ctx' \in [Pid -> C] /\ ctx'[current].a0 = c
       /\ ctx'[current].lo = ctx[current].lo /\ ctx'[current].hi = ctx[current].hi
       /\ ctx'[current].pc = ctx[current].pc
       /\ \A r \in Pid : r # current => ctx'[r] = x1[r]
  <2> DEFINE y == [x1 EXCEPT ![current].a0 = c]
  <2>1. /\ y \in [Pid -> C] /\ y[current].a0 = c
        /\ y[current].lo = x1[current].lo /\ y[current].hi = x1[current].hi
        /\ y[current].pc = x1[current].pc
        /\ \A r \in Pid : r # current => y[r] = x1[r]
    <3>1. x1 \in [Pid -> C] /\ current \in Pid /\ c \in Int
      BY <1>2, <1>3, <1>7
    <3> QED BY <3>1, ContextExcept
  <2>2. x1[current] = ctx[current]
    BY <1>2, <1>7
  <2> HIDE DEF y
  <2>3. ctx' = y
    BY Zenon, <1>8 DEF y
  <2> QED BY <2>1, <2>2, <2>3
<1> HIDE DEF fr
<1>12. ~csr.ssip => /\ frame[f].lo = ctx[current].lo /\ frame[f].hi = ctx[current].hi
                    /\ frame[f].epc = ctx[current].pc
  BY Zenon, <1>2 DEF TrapInv, RegistersInPlace
<1>13. ~csr.ssip => Holds(fr[Frame(current)], ctx'[current])
  BY Zenon, <1>10, <1>11, <1>12 DEF Holds
<1>14. ~csr.ssip => Holds(fr[Frame(c)], ctx'[c])
  <2>1. fr[Frame(c)] = new /\ ctx'[c] = cx
    BY Zenon, <1>2, <1>6, <1>7, <1>10, <1>11
  <2> QED BY Zenon, <1>4, <1>5, <1>12, <2>1 DEF Holds
<1>15. \A r \in Pid : status'[r] = "READY" /\ r # c =>
          /\ status[r] = "READY" /\ fr[Frame(r)] = frame[Frame(r)] /\ ctx'[r] = ctx[r]
  <2>1. \A r \in Pid : r # c => status'[r] = status[r]
    BY <1>1, <1>2
  <2>2. \A r \in Pid : status[r] = "READY" => r # current
    BY <1>2
  <2> QED BY ZenonT(60), <1>6, <1>7, <1>10, <1>11, <2>1, <2>2
<1>16. ~csr.ssip => \A r \in Pid : status'[r] = "READY" => Holds(fr[Frame(r)], ctx'[r])
  BY Zenon, <1>2, <1>14, <1>15, WaitersHold
<1> QED BY Zenon, <1>2, <1>9, <1>10, <1>11, <1>13, <1>16, SwitchKeeps

\* A process's tp is known from its place in the tree of processes.
LEMMA TpFacts ==
  ASSUME ListInv, NEW p \in Pid
  PROVE  TpOf(p) \in Int /\ (TpOf(p) = Hart <=> parent[p] = Nobody)
BY FramesApart, ProcessAssumption DEF TpOf, Proc, Hart, Itr, Pid

\* Steps that touch neither processes nor tp.
LEMMA TpQuiet ==
  ASSUME ListInv, TrapInv, TpInv,
         \/ Compute \/ StoreFault \/ LoadFault \/ OtherTrap \/ Interrupt
         \/ \E n \in Int : Ecall(n)
         \/ Vector \/ SaveHi \/ RestoreHi \/ OtherCall \/ StoreHandled \/ LoadHandled
  PROVE  TpInv'
<1>1. UNCHANGED <<vars, tpVars>> /\ machine = "on" /\ csr'.ssip = csr.ssip
  BY Zenon DEF Compute, StoreFault, LoadFault, OtherTrap, Interrupt, Ecall, Vector, SaveHi, RestoreHi,
         OtherCall, StoreHandled, LoadHandled, User, Trap, Called, Handler, SwitchTo,
         ListInv, CsrShape
<1>2. \/ where' = where /\ csr' = csr
      \/ where = "user" /\ where' = "vector" /\ (csr'.scause = "timer" \/ ~csr.ssip)
         /\ (csr'.scause = "timer" => csr.ssip)
      \/ where = "vector" /\ where' = "save_lo" /\ csr'.scause = csr.scause
      \/ where = "save_hi" /\ where' = "handler" /\ csr'.scause = csr.scause
      \/ where = "handler" /\ where' = "restore_lo" /\ csr'.scause = csr.scause
      \/ where = "restore_hi" /\ where' = "user" /\ csr'.scause = csr.scause
  <2>1. CASE Compute \/ SaveHi \/ Vector \/ RestoreHi
    BY Zenon, <2>1 DEF Compute, SaveHi, Vector, RestoreHi, ListInv, CsrShape
  <2>2. CASE StoreFault \/ LoadFault \/ OtherTrap \/ Interrupt \/ \E n \in Int : Ecall(n)
    BY Zenon, <2>2 DEF StoreFault, LoadFault, OtherTrap, Interrupt, Ecall, User, Trap,
                ListInv, CsrShape, InterruptsOff
  <2>3. CASE OtherCall \/ StoreHandled \/ LoadHandled
    BY Zenon, <2>3 DEF OtherCall, StoreHandled, LoadHandled, Called, Handler, SwitchTo,
                ListInv, CsrShape
  <2> QED BY <2>1, <2>2, <2>3
<1>3. TpOf(current)' = TpOf(current) /\ \A p \in Pid : TpOf(p)' = TpOf(p)
  BY Zenon, <1>1 DEF TpOf, vars
<1> QED BY Zenon, <1>1, <1>2, <1>3 DEF TpInv, vars, tpVars, Saving, HartKnown

\* The timer, and the macros that move tp.
LEMMA TpMoves ==
  ASSUME ListInv, TrapInv, TpInv, Tick \/ SaveLo \/ RestoreLo
  PROVE  TpInv'
<1>1. UNCHANGED vars /\ csr'.scause = csr.scause /\ (csr'.ssip \/ csr' = csr)
  BY DEF Tick, SaveLo, RestoreLo, ListInv, CsrShape
<1>2. TpOf(current)' = TpOf(current) /\ \A p \in Pid : TpOf(p)' = TpOf(p)
  BY Zenon, <1>1 DEF TpOf, vars
<1>3. CASE Tick
  <2>1. frame_tp' = [frame_tp EXCEPT ![Itr] = tp] /\ UNCHANGED <<where, tp>> /\ csr'.ssip
    BY <1>3 DEF Tick, ListInv, CsrShape
  <2>2. frame_tp' \in [NPROC .. Itr -> Int]
        /\ \A p \in Pid : frame_tp'[Frame(p)] = frame_tp[Frame(p)]
    BY Zenon, <2>1, FramesApart DEF TpInv
  <2> QED BY Zenon, <1>1, <1>2, <2>1, <2>2 DEF TpInv, vars, HartKnown
<1>4. CASE SaveLo
  <2>1. /\ frame_tp' = [frame_tp EXCEPT ![regs.t6] = tp] /\ UNCHANGED <<tp, csr>>
        /\ machine = "on" /\ where = "save_lo" /\ where' = "save_hi"
        /\ current \in Pid /\ status[current] = "RUNNING"
    BY Zenon, <1>4, CurrentRuns DEF SaveLo
  <2>2. regs.t6 \in {Frame(current), Itr} /\ (~csr.ssip => regs.t6 = Frame(current))
    BY Zenon, <2>1 DEF TrapInv, FrameInPlace, RegistersInPlace, Saving
  <2>3. frame_tp' \in [NPROC .. Itr -> Int]
        /\ (~csr.ssip => frame_tp'[Frame(current)] = tp)
        /\ \A p \in Pid : p # current => frame_tp'[Frame(p)] = frame_tp[Frame(p)]
    BY Zenon, <2>1, <2>2, FramesApart DEF TpInv
  <2> QED BY <1>1, <1>2, <2>1, <2>3 DEF TpInv, vars, Saving
<1>5. CASE RestoreLo
  <2>1. /\ tp' = frame_tp[regs.t6] /\ UNCHANGED <<frame_tp, csr>>
        /\ machine = "on" /\ where = "restore_lo" /\ where' = "restore_hi"
    BY Zenon, <1>5 DEF RestoreLo
  <2>2. regs.t6 \in NPROC .. Itr /\ (~csr.ssip => regs.t6 = Frame(current))
    BY Zenon, <2>1, FramesApart, CurrentRuns DEF TrapInv, FrameInPlace, RegistersInPlace, Restoring
  <2>3. tp' \in Int
    BY <2>1, <2>2 DEF TpInv
  <2> QED BY <1>1, <1>2, <2>1, <2>2, <2>3 DEF TpInv, vars, Saving
<1> QED BY <1>3, <1>4, <1>5

\* fork: the call passes only with the number of the hart in tp, and the child
\* gets an address.
LEMMA TpFork ==
  ASSUME ListInv, TrapInv, TpInv, ForkCall \/ Walk \/ ForkReturn
  PROVE  TpInv'
<1>1. machine = "on" /\ current \in Pid /\ status[current] = "RUNNING"
  BY Zenon, CurrentRuns DEF ForkCall, Walk, ForkReturn, Called, Handler
<1>2. CASE ForkCall
  <2>1. /\ where = "handler" /\ where' = "walk" /\ csr.scause = "ecall" /\ tp = Hart
        /\ UNCHANGED <<vars, csr, tpVars>>
    BY <1>2 DEF ForkCall, Called, Handler
  <2>2. HartKnown
    BY Zenon, <1>1, <2>1, TpFacts DEF TpInv, HartKnown
  <2> QED BY Zenon, <1>1, <2>1, <2>2 DEF TpInv, vars, tpVars, HartKnown, TpOf, Saving
<1>3. CASE Walk
  <2>1. UNCHANGED <<vars, where, csr, tpVars>>
    BY Zenon, <1>3 DEF Walk
  <2> QED BY Zenon, <2>1 DEF TpInv, vars, tpVars, HartKnown, TpOf
<1>4. CASE ForkReturn
  <2>1. PICK c \in Pid :
          /\ FirstFree(c)
          /\ status' = [status EXCEPT ![c] = "READY"]
          /\ parent' = [parent EXCEPT ![c] = current]
          /\ frame_tp' = [frame_tp EXCEPT ![Frame(c)] = Proc(c)]
          /\ \E fr : SwitchTo(current, fr, csr.sie)
    BY Zenon, <1>4 DEF ForkReturn, IrqRestored
  <2>2. /\ where = "walk" /\ where' = "restore_lo" /\ csr'.ssip = csr.ssip
        /\ csr'.scause = csr.scause /\ UNCHANGED <<current, machine, tp>>
    BY Zenon, <1>4, <2>1 DEF ForkReturn, SwitchTo, ListInv, CsrShape
  <2>3. /\ c # current /\ current # Nobody /\ Proc(c) \in Int
        /\ \A p \in Pid : p # c => status'[p] = status[p] /\ parent'[p] = parent[p]
        /\ parent'[c] = current
    BY <1>1, <2>1, ProcessAssumption
    DEF FirstFree, ListInv, IInv, TypeOK, Proc, Itr, Pid, Nobody
  <2>4. /\ frame_tp' \in [NPROC .. Itr -> Int] /\ frame_tp'[Frame(c)] = Proc(c)
        /\ \A p \in Pid : p # c => frame_tp'[Frame(p)] = frame_tp[Frame(p)]
    BY Zenon, <2>1, <2>3, FramesApart DEF TpInv
  <2>5. TpOf(c)' = Proc(c) /\ \A p \in Pid : p # c => TpOf(p)' = TpOf(p)
    BY <2>3 DEF TpOf
  <2>6. TpOf(current)' = TpOf(current)
    BY <1>1, <2>2, <2>3 DEF TpOf
  <2>7. \A p \in Pid : status'[p] = "READY" => frame_tp'[Frame(p)] = TpOf(p)'
    <3>1. \A p \in Pid : p # c /\ status'[p] = "READY" => frame_tp'[Frame(p)] = TpOf(p)'
      <4>1. \A p \in Pid : status[p] = "READY" => frame_tp[Frame(p)] = TpOf(p)
        BY Zenon, <1>1 DEF TpInv
      <4> QED BY Zenon, <2>3, <2>4, <2>5, <4>1
    <3>2. frame_tp'[Frame(c)] = TpOf(c)'
      BY Zenon, <2>4, <2>5
    <3> QED BY Zenon, <3>1, <3>2
  <2>8. frame_tp'[Frame(current)] = frame_tp[Frame(current)]
    BY Zenon, <1>1, <2>3, <2>4
  <2> QED BY Zenon, <1>1, <2>2, <2>4, <2>6, <2>7, <2>8 DEF TpInv, Saving
<1> QED BY <1>2, <1>3, <1>4

\* schedule() goes on with a process whose tp is in its frame.
LEMMA TpSchedule ==
  ASSUME ListInv, TrapInv, TpInv, BootFirst \/ ExitCall
  PROVE  TpInv'
<1>1. UNCHANGED <<parent, tpVars>>
  BY DEF BootFirst, ExitCall
<1>2. \A p \in Pid : TpOf(p)' = TpOf(p)
  BY Zenon, <1>1 DEF TpOf
<1>3. CASE BootFirst
  <2>1. machine = "boot" /\ \A p \in Pid : status[p] = "FREE" /\ parent[p] = Nobody
    BY Zenon, <1>3 DEF BootFirst, ListInv, IInv, PoolInv
  <2>2. PICK p \in Pid :
          /\ SwitchTo(p, frame, csr.sie) /\ current' = p
          /\ status' = [[status EXCEPT ![p] = "READY"] EXCEPT ![p] = "RUNNING"]
          /\ machine' # "boot"
    BY <1>3 DEF BootFirst, ScheduleList, Nobody, Pid
  <2>3. /\ where' = "restore_lo" /\ csr'.ssip = csr.ssip /\ csr'.scause = csr.scause
        /\ \A r \in Pid : status'[r] # "READY" /\ TpOf(r) = Hart
    BY <2>1, <2>2 DEF SwitchTo, TpOf, ListInv, CsrShape, IInv, TypeOK
  <2>4. TpOf(current)' = Hart
    BY Zenon, <1>1, <2>1, <2>2 DEF TpOf
  <2> QED BY Zenon, <1>1, <2>1, <2>2, <2>3, <2>4 DEF TpInv, tpVars, Saving
<1>4. CASE ExitCall
  <2>1. machine = "on" /\ current \in Pid /\ status[current] = "RUNNING"
        /\ ScheduleList(FreeProcess(status, current), ready_queue_head, queue_next, ready_queue,
                        Saved)
    BY Zenon, <1>4, CurrentRuns DEF ExitCall, Called, Handler
  <2>2. CASE ready_queue_head = Nobody
    <3>1. machine' \notin {"on", "boot"} /\ csr' = csr
      BY Zenon, <2>1, <2>2 DEF ScheduleList
    <3> QED BY Zenon, <1>1, <3>1 DEF TpInv, tpVars
  <2>3. CASE ready_queue_head # Nobody
    <3> DEFINE h == ready_queue_head
    <3>1. h \in Pid /\ status[h] = "READY"
      <4>1. ready_queue # <<>> /\ h = Head(ready_queue)
        BY <2>3, HeadIsHead
      <4>2. h = ready_queue[1] /\ 1 \in DOMAIN ready_queue
        BY <4>1, TailFacts DEF ListInv, IInv, TypeOK
      <4> QED BY <2>3, <4>2 DEF ListInv, IInv, SchedulerConsistent
    <3>2. /\ SwitchTo(h, Saved, csr.sie) /\ current' = h /\ machine' # "boot"
          /\ status' = [FreeProcess(status, current) EXCEPT ![h] = "RUNNING"]
      BY Zenon, <2>1, <2>3 DEF ScheduleList
    <3>3. /\ where' = "restore_lo" /\ csr'.ssip = csr.ssip /\ csr'.scause = csr.scause
          /\ \A r \in Pid : status'[r] = "READY" => status[r] = "READY"
      BY <2>1, <3>1, <3>2 DEF SwitchTo, ListInv, CsrShape, IInv, TypeOK, FreeProcess
    <3>4. TpOf(current)' = TpOf(h)
      BY <1>1, <3>2 DEF TpOf
    <3> QED BY Zenon, <1>1, <1>2, <2>1, <3>1, <3>2, <3>3, <3>4 DEF TpInv, tpVars, Saving
  <2> QED BY Zenon, <2>2, <2>3
<1> QED BY <1>3, <1>4

\* Every step keeps each process's tp in its place.
LEMMA TpStep ==
  ASSUME ListInv, TrapInv, TpInv, [TrapNext]_trapVars
  PROVE  TpInv'
<1>1. CASE UNCHANGED trapVars
  <2>1. UNCHANGED <<vars, where, csr, tpVars>>
    BY <1>1 DEF trapVars
  <2> QED BY Zenon, <2>1 DEF TpInv, vars, tpVars, HartKnown, TpOf
<1>2. CASE TrapNext
  <2>1. \A n \in {SYS_user_print, SYS_user_fork, SYS_user_yield, SYS_user_exit} : n \in Int
    BY DEF SYS_user_print, SYS_user_fork, SYS_user_yield, SYS_user_exit
  <2>2. CASE MachineTrap \/ HandlerPanic \/ PagesLost
    <3>1. machine' \in {"panic", "lost"} /\ UNCHANGED <<csr, tpVars>>
      BY <2>2 DEF MachineTrap, HandlerPanic, PagesLost, Panic, Stop
    <3> QED BY Zenon, <3>1 DEF TpInv, tpVars
  <2>3. \/ Compute \/ StoreFault \/ LoadFault \/ OtherTrap \/ Interrupt
        \/ \E n \in Int : Ecall(n)
        \/ Tick \/ Vector \/ SaveLo \/ SaveHi \/ RestoreLo \/ RestoreHi
        \/ OtherCall \/ StoreHandled \/ LoadHandled
        \/ MachineTrap \/ HandlerPanic \/ PagesLost \/ BootFirst \/ ExitCall \/ ForkCall
        \/ Walk \/ ForkReturn
    BY <1>2, <2>1 DEF TrapNext, Program, Kernel
  <2> QED BY <2>2, <2>3, TpQuiet, TpMoves, TpFork, TpSchedule
<1> QED BY Zenon, <1>1, <1>2

\* The three invariants hold from boot to shutdown.
LEMMA TrapInvAlways == TrapSpec => [](ListInv /\ TrapInv /\ TpInv)
<1>0. TrapInit => ListInv /\ TpInv
  <2>1. TrapInit => ListInv
    <3>1. TrapInit => CsrShape /\ InterruptsOff
      BY DEF TrapInit, CsrShape, InterruptsOff
    <3>2. \A i \in 1 .. Len(<<>>) - 1 : FALSE
      OBVIOUS
    <3>3. TrapInit => ListIsQueue /\ CursorPlaced
      BY Zenon, <3>2 DEF TrapInit, Init, ListIsQueue, CursorPlaced
    <3>4. TrapInit => /\ ready_queue_head \in Pid \cup {Nobody}
                      /\ queue_next \in [Pid -> Pid \cup {Nobody}]
      BY Zenon DEF TrapInit
    <3> QED BY Zenon, <3>1, <3>3, <3>4, IInvInit DEF TrapInit, ListInv
  <2>2. TrapInit => TpInv
    <3>1. Hart = 0 /\ Hart \in Int /\ 0 \in Int
      BY DEF Hart
    <3>2. TrapInit => /\ tp \in Int /\ frame_tp \in [NPROC .. Itr -> Int]
                      /\ \A p \in Pid : frame_tp[Frame(p)] = Hart
      BY Zenon, <3>1, FramesApart DEF TrapInit
    <3>3. TrapInit => machine # "on" /\ csr.scause # "timer"
      BY DEF TrapInit, Init
    <3> QED BY Zenon, <3>2, <3>3 DEF TpInv
  <2> QED BY Zenon, <2>1, <2>2
<1>1. TrapInit => TrapInv
  <2>1. Junk \in Int /\ Nobody \in Int /\ Dead \in Int
    BY DEF Junk, Nobody, Dead
  <2>2. Frame0 \in Frames /\ Context0 \in [a0 : Int, lo : Int, hi : Int, t6 : Int, pc : Int]
    BY <2>1 DEF Frame0, Context0, Frames
  <2>3. TrapInit => TrapTypeOK
    BY <2>1, <2>2 DEF TrapInit, TrapTypeOK
  <2>4. TrapInit => FramesNew
    BY Zenon, FramesApart DEF TrapInit, FramesNew
  <2> QED BY Zenon, <2>3, <2>4
          DEF TrapInit, Init, TrapInv, FrameInPlace, RegistersInPlace, ContextKept
<1>2. ListInv /\ TrapInv /\ [TrapNext]_trapVars => TrapInv'
  <2> SUFFICES ASSUME ListInv, TrapInv, [TrapNext]_trapVars PROVE TrapInv'
    OBVIOUS
  <2>1. CASE UNCHANGED trapVars
    <3>1. UNCHANGED <<status, current, machine, where, regs, pc, csr, stack, frame, ctx>>
      BY <2>1 DEF trapVars, vars, userVars
    <3>2. TrapTypeOK' /\ FramesNew'
      BY Zenon, <3>1 DEF TrapInv, TrapTypeOK, FramesNew
    <3>3. FrameInPlace' /\ ContextKept'
      BY Zenon, <3>1 DEF TrapInv, FrameInPlace, ContextKept
    <3>4. RegistersInPlace'
      BY Zenon, <3>1 DEF TrapInv, RegistersInPlace
    <3> QED BY <3>2, <3>3, <3>4 DEF TrapInv
  <2>2. CASE TrapNext
    <3>1. \A n \in {SYS_user_print, SYS_user_fork, SYS_user_yield, SYS_user_exit} : n \in Int
      BY DEF SYS_user_print, SYS_user_fork, SYS_user_yield, SYS_user_exit
    <3>2. \/ Compute \/ StoreFault \/ LoadFault \/ OtherTrap \/ Interrupt
          \/ \E n \in Int : Ecall(n)
          \/ Tick \/ Vector \/ SaveLo \/ SaveHi \/ RestoreLo \/ RestoreHi
          \/ OtherCall \/ StoreHandled \/ LoadHandled
          \/ MachineTrap \/ HandlerPanic \/ PagesLost \/ BootFirst \/ ExitCall \/ ForkCall \/ Walk
          \/ ForkReturn
      BY <2>2, <3>1 DEF TrapNext, Program, Kernel
    <3> QED BY <3>2, ComputeKeeps, UserTrapKeeps, TickKeeps, VectorKeeps, SaveLoKeeps,
               SaveHiKeeps, RestoreKeeps, OtherCallKeeps, FaultKeeps, StopKeeps, BootKeeps,
               ExitKeeps, WalkKeeps, ForkKeeps
  <2> QED BY <2>1, <2>2
<1>3. ListInv /\ TpInv /\ [TrapNext]_trapVars => ListInv'
  BY TrapStep
<1>4. ListInv /\ TrapInv /\ TpInv /\ [TrapNext]_trapVars => TpInv'
  BY TpStep
<1> QED BY <1>0, <1>1, <1>2, <1>3, <1>4, PTL DEF TrapSpec

\* The list is the ready queue, for any size of the pool.
THEOREM TrapsListIsQueue == TrapSpec => []ListIsQueue
  BY TrapInvAlways, PTL DEF ListInv

\* The trap code implements the scheduler of module Process.
THEOREM TrapsImplementProcess == TrapSpec => ImplementsProcess
<1>1. TrapInit => Init
  BY DEF TrapInit
<1>2. ListInv /\ TpInv /\ [TrapNext]_trapVars => [Next]_vars
  BY TrapStep
<1> QED BY <1>1, <1>2, TrapInvAlways, PTL DEF TrapSpec, ImplementsProcess, Spec

\* What module Process promises, it promises of the trap code.
THEOREM TrapsScheduleRight ==
  TrapSpec => [](SchedulerConsistent /\ ScheduleChecksHold /\ RunsInForkOrder)
  BY TrapInvAlways, PTL DEF ListInv, IInv

\* The handler has current's frame and current's stack, for any number of
\* processes and wherever the timer interrupts.
THEOREM TrapsHandlerIsCurrents == TrapSpec => []HandlerIsCurrents
<1>1. ListInv /\ TrapInv => HandlerIsCurrents
  BY DEF TrapInv, FrameInPlace, HandlerIsCurrents
<1> QED BY <1>1, TrapInvAlways, PTL

\* Every program finds its registers again, for any number of processes.
THEOREM TrapsContextKept == TrapSpec => []ContextKept
  BY TrapInvAlways, PTL DEF TrapInv

\* In the first process, and only there, the handler finds the number of the
\* hart in tp: what the comment of read_tp promises fails in every child.
THEOREM TrapsTpOfFirst ==
  TrapSpec => [](machine = "on" /\ where = "handler" /\ csr.scause # "timer"
                   => (tp = Hart <=> HartKnown))
<1>1. ListInv /\ TrapInv /\ TpInv =>
        (machine = "on" /\ where = "handler" /\ csr.scause # "timer"
           => (tp = Hart <=> HartKnown))
  BY CurrentRuns, TpFacts DEF TpInv, HartKnown
<1> QED BY <1>1, TrapInvAlways, PTL
=============================================================================

------------------------------- MODULE Traps -------------------------------
(***************************************************************************)
(* Traps from their first instruction to sret: kernel/strap_vector.S,      *)
(* kernel/strap.c, switch_to of kernel/process.c and the machine timer of  *)
(* kernel/machine, with the linked ready queue of kernel/sched.c.  Module  *)
(* Process takes a trap as one step; this module shows what happens inside *)
(* it, where the timer can interrupt.                                      *)
(*                                                                         *)
(* A register file is four words: a0; lo for the registers that the macros *)
(* of util/load_store.S move early; hi for those they move late; and t6,   *)
(* the macros' own pointer.  tp, one of the early registers, is apart,     *)
(* because the kernel takes the number of the hart from it.  Pids and      *)
(* results are small numbers, addresses lie above them, a program's own    *)
(* words below 0.                                                          *)
(***************************************************************************)
EXTENDS Process

VARIABLES ready_queue_head, queue_next,   \* the list behind ready_queue
          cursor,       \* the p of insert_to_ready_queue
          where,        \* what the hart executes
          regs, pc,     \* registers; 0 at the instruction that trapped, 1 behind it
          csr,          \* the control registers of S mode
          stack,        \* whose kernel stack sp points to
          frame,        \* every trapframe, and g_itrframe
          tp, frame_tp, \* the register tp, and its place in each of the frames
          cow,          \* has the live process a copy-on-write page
          insn,         \* "load" while the next instruction is a bad load
          ctx           \* history: what each live program should find in its registers

listVars == <<ready_queue_head, queue_next, cursor>>
userVars == <<cow, insn, ctx>>
tpVars   == <<tp, frame_tp>>
trapVars == <<vars, listVars, where, regs, pc, csr, stack, frame, tpVars, userVars>>

SYS_user_print == 64
SYS_user_exit  == 65
SYS_user_fork  == 68
SYS_user_yield == 69

Frame(p) == NPROC + p          \* the address of procs[p].trapframe
Itr      == 2 * NPROC          \* the address of g_itrframe
Proc(p)  == Itr + 1 + p        \* the address of procs[p]
Hart     == 0                  \* the number of the only hart, in tp since reset
Word(p)  == -3 - p             \* what program p computes
Junk     == -1                 \* what the kernel leaves in a register
Dead     == -2                 \* a register the program does not rely on

\* A program that starts, and the trapframe alloc_process clears.
Context0 == [a0 |-> 0, lo |-> 0, hi |-> 0, t6 |-> Dead, pc |-> 0]
Frame0   == [a0 |-> 0, lo |-> 0, hi |-> 0, t6 |-> 0, epc |-> 0, kernel_sp |-> Nobody]

TrapInit ==
    /\ Init
    /\ ready_queue_head = Nobody /\ queue_next = [p \in Pid |-> Nobody]
    /\ cursor = Nobody
    /\ where = "boot"
    /\ regs = [a0 |-> Junk, lo |-> Junk, hi |-> Junk, t6 |-> Junk] /\ pc = 0
    /\ csr = [sscratch |-> Junk, sepc |-> 0, scause |-> "none",
              spp |-> FALSE, spie |-> FALSE, sie |-> FALSE, ssip |-> FALSE]
    /\ stack = Nobody
    /\ frame = [a \in NPROC .. Itr |-> Frame0]
    /\ tp = Hart /\ frame_tp = [a \in NPROC .. Itr |-> 0]
    /\ cow = [p \in Pid |-> FALSE]
    /\ insn = "any"
    /\ ctx = [p \in Pid |-> Context0]
-----------------------------------------------------------------------------
\* User mode.  A pending interrupt is taken before any instruction.
User == machine = "on" /\ where = "user" /\ ~csr.ssip

\* The hart enters S mode at stvec.
Trap(cause) ==
    /\ where' = "vector"
    /\ csr' = [csr EXCEPT !.spp = (where # "user"), !.spie = csr.sie, !.sie = FALSE,
                          !.sepc = 0, !.scause = cause]
    /\ UNCHANGED <<vars, listVars, pc, stack, frame, tpVars>>

Compute ==
    /\ User /\ insn = "any"
    /\ LET w == Word(current)
       IN  /\ regs' = [regs EXCEPT !.lo = w, !.hi = w, !.t6 = w]
           /\ ctx' = [ctx EXCEPT ![current] = [@ EXCEPT !.lo = w, !.hi = w, !.t6 = w]]
    /\ UNCHANGED <<vars, listVars, where, pc, csr, stack, frame, tpVars, cow, insn>>

\* do_user_call: the number is in a0.  The caller does not rely on t6, and
\* expects to go on behind the ecall.
Ecall(n) ==
    /\ User /\ insn = "any"
    /\ regs' = [regs EXCEPT !.a0 = n]
    /\ ctx' = [ctx EXCEPT ![current] = [@ EXCEPT !.t6 = Dead, !.pc = 1]]
    /\ Trap("ecall")
    /\ UNCHANGED <<cow, insn>>

\* A store to a page shared since a fork.
StoreFault ==
    /\ User /\ insn = "any" /\ cow[current]
    /\ Trap("store")
    /\ ctx' = [ctx EXCEPT ![current].pc = 0]
    /\ UNCHANGED <<regs, cow, insn>>

\* A load from an address that is not mapped, again and again.
LoadFault ==
    /\ User
    /\ insn' = "load"
    /\ Trap("load")
    /\ ctx' = [ctx EXCEPT ![current].pc = 0]
    /\ UNCHANGED <<regs, cow>>

\* Exceptions that smode_trap_handler has no case for.
OtherTrap ==
    /\ User /\ insn = "any"
    /\ Trap("other")
    /\ UNCHANGED <<regs, userVars>>

\* Exceptions that are not delegated: handle_mtrap panics.
MachineTrap ==
    /\ User /\ insn = "any"
    /\ Panic
    /\ UNCHANGED <<listVars, where, regs, pc, csr, stack, frame, tpVars, userVars>>

\* The software interrupt is taken in user mode, and in S mode where enabled.
Interrupt ==
    /\ machine = "on" /\ csr.ssip
    /\ where = "user" \/ csr.sie
    /\ Trap("timer")
    /\ UNCHANGED <<regs, userVars>>

\* A timer that does not hand its interrupt on.
TickLost ==
    /\ machine \in {"boot", "on"} /\ ~csr.ssip
    /\ frame' = [frame EXCEPT ![Itr].a0 = regs.a0, ![Itr].lo = regs.lo,
                              ![Itr].hi = regs.hi, ![Itr].t6 = Itr]
    /\ frame_tp' = [frame_tp EXCEPT ![Itr] = tp]
    /\ regs' = [regs EXCEPT !.t6 = Itr]
    /\ UNCHANGED <<vars, listVars, where, pc, csr, stack, tp, userVars>>

\* mtrapvec and handle_timer, in M mode and so in one step: the registers go to
\* g_itrframe and come back, with t6 the address of g_itrframe.
Tick ==
    /\ machine \in {"boot", "on"} /\ ~csr.ssip
    /\ frame' = [frame EXCEPT ![Itr].a0 = regs.a0, ![Itr].lo = regs.lo,
                              ![Itr].hi = regs.hi, ![Itr].t6 = Itr]
    /\ frame_tp' = [frame_tp EXCEPT ![Itr] = tp]
    /\ regs' = [regs EXCEPT !.t6 = Itr]
    /\ csr' = [csr EXCEPT !.ssip = TRUE]
    /\ UNCHANGED <<vars, listVars, where, pc, stack, tp, userVars>>
-----------------------------------------------------------------------------
\* smode_trap_vector: a0 and sscratch are swapped and t6 set.
Vector ==
    /\ machine = "on" /\ where = "vector"
    /\ regs' = [regs EXCEPT !.a0 = csr.sscratch, !.t6 = csr.sscratch]
    /\ csr' = [csr EXCEPT !.sscratch = regs.a0]
    /\ where' = "save_lo"
    /\ UNCHANGED <<vars, listVars, pc, stack, frame, tpVars, userVars>>

\* store_all_registers, up to some register.
SaveLo ==
    /\ machine = "on" /\ where = "save_lo"
    /\ frame' = [frame EXCEPT ![regs.t6].lo = regs.lo]
    /\ frame_tp' = [frame_tp EXCEPT ![regs.t6] = tp]
    /\ where' = "save_hi"
    /\ UNCHANGED <<vars, listVars, regs, pc, csr, stack, tp, userVars>>

\* The others; then a0 by way of sscratch, and the kernel stack.
SaveHi ==
    /\ machine = "on" /\ where = "save_hi"
    /\ frame' = [frame EXCEPT ![regs.t6].hi = regs.hi, ![regs.t6].t6 = regs.t6,
                              ![regs.a0].a0 = csr.sscratch]
    /\ stack' = frame[regs.a0].kernel_sp
    /\ where' = "handler"
    /\ UNCHANGED <<vars, listVars, regs, pc, csr, tpVars, userVars>>

\* return_to_user: the first half of restore_all_registers.
RestoreLo ==
    /\ machine = "on" /\ where = "restore_lo"
    /\ regs' = [regs EXCEPT !.a0 = frame[regs.t6].a0, !.lo = frame[regs.t6].lo]
    /\ tp' = frame_tp[regs.t6]
    /\ where' = "restore_hi"
    /\ UNCHANGED <<vars, listVars, pc, csr, stack, frame, frame_tp, userVars>>

\* The second half, t6 last, and sret.
RestoreHi ==
    /\ machine = "on" /\ where = "restore_hi"
    /\ regs' = [regs EXCEPT !.hi = frame[regs.t6].hi, !.t6 = frame[regs.t6].t6]
    /\ pc' = csr.sepc
    /\ csr' = [csr EXCEPT !.sie = csr.spie, !.spie = TRUE, !.spp = FALSE]
    /\ where' = "user"
    /\ UNCHANGED <<vars, listVars, stack, frame, tpVars, userVars>>
-----------------------------------------------------------------------------
\* A switch that keeps the kernel stack found in the frame.
SwitchedKeepingSp(fr, p) == fr

\* The trapframes after switch_to(p).
Switched(fr, p) == [fr EXCEPT ![Frame(p)].kernel_sp = p]

\* switch_to(p) and return_to_user up to the macro, with trapframes fr and
\* interrupts enabled as in ie.
SwitchTo(p, fr, ie) ==
    /\ frame' = Switched(fr, p)
    /\ csr' = [csr EXCEPT !.spp = FALSE, !.spie = TRUE, !.sie = ie,
                          !.sepc = fr[Frame(p)].epc, !.sscratch = Frame(p)]
    /\ regs' = [a0 |-> Frame(p), lo |-> Junk, hi |-> Junk, t6 |-> Frame(p)]
    /\ where' = "restore_lo"

\* A restore that always enables.
IrqAlwaysOn(old) == TRUE

\* disable_irqsave and enable_irqrestore around the page allocator.
IrqRestored(old) == old

\* A program counter that is not moved past the ecall before the call is served.
EpcNotMoved(cause) == csr.sepc

\* epc as smode_trap_handler and handle_syscall leave it.
SavedEpc(cause) == IF cause = "ecall" THEN csr.sepc + 1 ELSE csr.sepc

\* smode_trap_handler has found a trap from user mode with this cause.
Handler(cause) == machine = "on" /\ where = "handler" /\ ~csr.spp /\ csr.scause = cause
Saved          == [frame EXCEPT ![Frame(current)].epc = SavedEpc(csr.scause)]
Called(n)      == Handler("ecall") /\ frame[Frame(current)].a0 = n
Result(fr, r)  == [fr EXCEPT ![Frame(current)].a0 = r]

\* A system call that changes no process and returns 0.
OtherCall ==
    /\ Called(SYS_user_print)
    /\ SwitchTo(current, Result(Saved, 0), csr.sie)
    /\ ctx' = [ctx EXCEPT ![current].a0 = 0]
    /\ UNCHANGED <<vars, listVars, pc, stack, tpVars, cow, insn>>

\* handle_user_page_fault: a copy-on-write page becomes writable, in place or
\* (with the number of the hart in tp) by a copy.
StoreHandled ==
    /\ Handler("store")
    /\ cow' = [cow EXCEPT ![current] = FALSE]
    /\ SwitchTo(current, Saved, IrqRestored(csr.sie))
    /\ UNCHANGED <<vars, listVars, pc, stack, tpVars, insn, ctx>>

\* Its default case does nothing.
LoadHandled ==
    /\ Handler("load")
    /\ SwitchTo(current, Saved, csr.sie)
    /\ UNCHANGED <<vars, listVars, pc, stack, tpVars, userVars>>

\* What the handler does not handle: a trap from S mode, the timer, an exception
\* with no case, yield, a fork without a process structure and a store for which
\* there is no page.
Unhandled ==
    \/ csr.spp
    \/ csr.scause \in {"timer", "other", "store"}
    \/ Called(SYS_user_yield)
    \/ Called(SYS_user_fork) /\ \A p \in Pid : status[p] # "FREE"

HandlerPanic ==
    /\ machine = "on" /\ where = "handler"
    /\ Unhandled
    /\ Panic
    /\ UNCHANGED <<listVars, where, regs, pc, csr, stack, frame, tpVars, userVars>>

\* fork, or a store that needs a copy, takes a page from pcpu_caches[tp].  What
\* follows when tp is not the number of a hart is not modelled.
PagesLost ==
    /\ \/ Called(SYS_user_fork) /\ \E p \in Pid : status[p] = "FREE"
       \/ Handler("store")
    /\ tp # Hart
    /\ Stop("lost")
    /\ UNCHANGED <<listVars, where, regs, pc, csr, stack, frame, tpVars, userVars>>
-----------------------------------------------------------------------------
\* ready_queue_head after schedule().
ListTail(head, next) == next[head]

\* schedule(), from the list, with trapframes fr.  The list stands for queue q.
ScheduleList(st, head, next, q, fr) ==
    \/ /\ head = Nobody
       /\ machine' = IF AllDone(st) THEN "shutdown" ELSE "unfinished"
       /\ status' = st
       /\ frame' = fr
       /\ UNCHANGED <<ready_queue, current, ready_queue_head, where, regs, csr>>
    \/ /\ head # Nobody
       /\ current' = head
       /\ machine' = IF st[head] = "READY" THEN "on" ELSE "assert"
       /\ ready_queue_head' = ListTail(head, next)
       /\ status' = [st EXCEPT ![head] = "RUNNING"]
       /\ ready_queue' = Tail(q)
       /\ SwitchTo(head, fr, csr.sie)

\* s_start: the first process is the whole list.
BootFirst ==
    /\ machine = "boot"
    /\ \E p \in Pid :
         /\ FirstFree(p)
         /\ queue_next' = [queue_next EXCEPT ![p] = Nobody]
         /\ ScheduleList([status EXCEPT ![p] = "READY"], p, queue_next',
                         Insert(ready_queue, p), frame)
    /\ UNCHANGED <<parent, cursor, pc, stack, tpVars, userVars>>

\* sys_user_exit.
ExitCall ==
    /\ Called(SYS_user_exit)
    /\ ScheduleList(FreeProcess(status, current), ready_queue_head, queue_next, ready_queue,
                    Saved)
    /\ cow' = [cow EXCEPT ![current] = FALSE]
    /\ ctx' = [ctx EXCEPT ![current] = Context0]
    /\ UNCHANGED <<parent, queue_next, cursor, pc, stack, tpVars, insn>>

\* do_fork as far as insert_to_ready_queue.
ForkCall ==
    /\ Called(SYS_user_fork) /\ tp = Hart
    /\ \E p \in Pid : status[p] = "FREE"
    /\ frame' = Saved
    /\ cursor' = ready_queue_head
    /\ where' = "walk"
    /\ UNCHANGED <<vars, ready_queue_head, queue_next, regs, pc, csr, stack, tpVars, userVars>>

\* One turn of the loop that looks for the end of the list.
Walk ==
    /\ machine = "on" /\ where = "walk"
    /\ cursor # Nobody /\ queue_next[cursor] # Nobody /\ ~FirstFree(cursor)
    /\ cursor' = queue_next[cursor]
    /\ UNCHANGED <<vars, ready_queue_head, queue_next, where, regs, pc, csr, stack, frame,
                   tpVars, userVars>>

\* A link behind the head, and one that forgets the predecessor.
LinkedBehindHead(p) ==
    IF ready_queue_head = Nobody THEN [queue_next EXCEPT ![p] = Nobody]
    ELSE [queue_next EXCEPT ![ready_queue_head] = p, ![p] = Nobody]

LinkedNowhere(p) == [queue_next EXCEPT ![p] = Nobody]

\* queue_next after insert_to_ready_queue(p), the loop having ended.
Linked(p) ==
    CASE cursor = Nobody -> [queue_next EXCEPT ![p] = Nobody]
      [] cursor = p      -> queue_next
      [] OTHER           -> [queue_next EXCEPT ![cursor] = p, ![p] = Nobody]

\* The end of insert_to_ready_queue and of do_fork: the child has the parent's
\* frame with a0 = 0 and its own address in tp, and the parent returns its pid.
ForkReturn ==
    /\ machine = "on" /\ where = "walk"
    /\ \E child \in Pid :
         /\ FirstFree(child)
         /\ cursor \notin {Nobody, child} => queue_next[cursor] = Nobody
         /\ queue_next' = Linked(child)
         /\ ready_queue_head' = IF ready_queue_head = Nobody THEN child ELSE ready_queue_head
         /\ status' = [status EXCEPT ![child] = "READY"]
         /\ parent' = [parent EXCEPT ![child] = current]
         /\ ready_queue' = Insert(ready_queue, child)
         /\ SwitchTo(current,
                     Result([frame EXCEPT ![Frame(child)] = [frame[Frame(current)] EXCEPT !.a0 = 0]],
                            child),
                     IrqRestored(csr.sie))
         /\ frame_tp' = [frame_tp EXCEPT ![Frame(child)] = Proc(child)]
         /\ cow' = [cow EXCEPT ![child] = TRUE, ![current] = TRUE]
         /\ ctx' = [ctx EXCEPT ![child] = [ctx[current] EXCEPT !.a0 = 0],
                               ![current].a0 = child]
    /\ cursor' = Nobody
    /\ UNCHANGED <<current, machine, pc, stack, tp, insn>>

Program == \/ Compute
           \/ \E n \in {SYS_user_print, SYS_user_fork, SYS_user_yield} : Ecall(n)
           \/ StoreFault \/ OtherTrap \/ MachineTrap
Kernel  == \/ BootFirst \/ Interrupt \/ Vector \/ SaveLo \/ SaveHi \/ RestoreLo \/ RestoreHi
           \/ OtherCall \/ StoreHandled \/ LoadHandled \/ HandlerPanic \/ PagesLost \/ ExitCall
           \/ ForkCall \/ Walk \/ ForkReturn

TrapNext == Program \/ Ecall(SYS_user_exit) \/ LoadFault \/ Kernel \/ Tick

\* The kernel goes on; a load that faults is executed again; a program that is
\* not stuck in one calls exit in the end.
TrapSpec == /\ TrapInit /\ [][TrapNext]_trapVars
            /\ WF_trapVars(Kernel)
            /\ WF_trapVars(insn = "load" /\ LoadFault)
            /\ SF_trapVars(Ecall(SYS_user_exit))
-----------------------------------------------------------------------------
\* While no timer interrupt is pending, a program finds in its registers what
\* it left there or what its system call returned, at the instruction where it
\* should go on; and a process that waits has all this in its trapframe.  A
\* child finds what its parent had, and 0.  (t6 is the subject of T6Kept.)
ContextKept ==
    machine = "on" /\ ~csr.ssip =>
      /\ where = "user" =>
           /\ regs.a0 = ctx[current].a0 /\ regs.lo = ctx[current].lo
           /\ regs.hi = ctx[current].hi /\ pc = ctx[current].pc
      /\ \A p \in Pid : status[p] = "READY" =>
           LET fr == frame[Frame(p)]
           IN  fr.a0 = ctx[p].a0 /\ fr.lo = ctx[p].lo /\ fr.hi = ctx[p].hi /\ fr.epc = ctx[p].pc

\* "restores all registers from trapframe ... so as to resort the execution of
\* a process" (strap_vector.S): this includes t6.
T6Kept ==
    machine = "on" /\ ~csr.ssip /\ where = "user" /\ insn = "any" =>
        ctx[current].t6 \in {Dead, regs.t6}

\* "tp, the thread pointer, holding hartid" (riscv.h): so alloc_page and pfree
\* read it, while a trap is handled.
TpHoldsHartid == machine = "on" /\ where \in {"handler", "walk"} => tp = Hart

\* smode_trap_handler only ever handles a trap from user mode, with current's
\* trapframe and on current's kernel stack, although the frame of a child is a
\* copy of its parent's and the timer may interrupt the vector.
HandlerIsCurrents ==
    machine = "on" /\ where = "handler" =>
        ~csr.spp /\ regs.a0 = Frame(current) /\ stack = current

\* The list from ready_queue_head over queue_next is the ready queue, before
\* and while insert_to_ready_queue looks for its end.
ListIsQueue ==
    LET n == Len(ready_queue)
    IN  /\ ready_queue = <<>> => ready_queue_head = Nobody
        /\ ready_queue # <<>> => /\ ready_queue_head = ready_queue[1]
                                 /\ queue_next[ready_queue[n]] = Nobody
        /\ \A i \in 1 .. n - 1 : queue_next[ready_queue[i]] = ready_queue[i + 1]
        /\ cursor # Nobody => \E i \in 1 .. n : cursor = ready_queue[i]

\* What happens inside a trap is, seen from outside, one of the steps of module
\* Process or nothing: the list implements the queue of the scheduler.
ImplementsProcess == Spec

\* Every process made READY gets to run, unless the kernel panics, takes a page
\* without knowing its hart, or the process that runs is stuck at a load that
\* faults.
EveryReadyRuns ==
    \A p \in Pid : status[p] = "READY" ~>
        (status[p] = "RUNNING" \/ machine \in {"panic", "lost"} \/ insn = "load")

\* A process stuck at a load that faults, which handle_user_page_fault leaves
\* as it is, is ended by the timer as long as there is one.
LoadFaultEnds ==
    WF_trapVars(Tick) => (insn = "load" ~> machine = "panic")
=============================================================================

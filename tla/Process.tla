------------------------------ MODULE Process ------------------------------
(***************************************************************************)
(* Process management: the pool procs[] of kernel/process.c, the scheduler *)
(* of kernel/sched.c, and the system calls and traps of kernel/syscall.c   *)
(* and kernel/strap.c that create, end or switch processes.                *)
(*                                                                         *)
(* The kernel runs on one hart with interrupts off, so a trap is handled   *)
(* from smode_trap_handler to the return_to_user of switch_to in one step. *)
(* The ready queue is the sequence of the pids linked by queue_next.  What *)
(* happens inside a trap, and that the links implement the queue, is the   *)
(* subject of module Traps.                                                *)
(***************************************************************************)
EXTENDS Integers, Sequences

CONSTANT NPROC                  \* size of the process pool

ASSUME ProcessAssumption == NPROC \in Nat \ {0}

Pid    == 0 .. NPROC - 1
Nobody == -1                    \* the NULL pointer

VARIABLES status, parent,       \* of each process structure
          ready_queue,          \* ready_queue_head and what it links to
          current,
          machine               \* "boot", "on", or why it stopped

vars == <<status, parent, ready_queue, current, machine>>

\* "panic": an announced limit (no free process structure, yield and timer not
\* implemented); "unfinished" and "assert": the scheduler's own two checks;
\* "lost": see Lost.
Stopped == {"shutdown", "panic", "unfinished", "assert", "lost"}

Init ==
    /\ status = [p \in Pid |-> "FREE"]
    /\ parent = [p \in Pid |-> Nobody]
    /\ ready_queue = <<>>
    /\ current = Nobody
    /\ machine = "boot"
-----------------------------------------------------------------------------
\* insert_to_ready_queue: the end of the queue, unless already in it.
Insert(q, p) == IF \E i \in DOMAIN q : q[i] = p THEN q ELSE Append(q, p)

\* A shutdown test that forgets terminated processes.
AllFree(st) == \A p \in Pid : st[p] = "FREE"

\* should_shutdown of schedule().
AllDone(st) == \A p \in Pid : st[p] \in {"FREE", "ZOMBIE"}

\* schedule(), called with statuses st and queue q.
Schedule(st, q) ==
    \/ /\ q = <<>>
       /\ machine' = IF AllDone(st) THEN "shutdown" ELSE "unfinished"
       /\ status' = st
       /\ UNCHANGED <<ready_queue, current>>
    \/ /\ q # <<>>
       /\ current' = Head(q)
       /\ ready_queue' = Tail(q)
       /\ status' = [st EXCEPT ![Head(q)] = "RUNNING"]
       /\ machine' = IF st[Head(q)] = "READY" THEN "on" ELSE "assert"

\* A structure that can be taken again at once.
FreeProcessReuse(st, p) == [st EXCEPT ![p] = "FREE"]

\* free_process: the process becomes a zombie and keeps its memory.
FreeProcess(st, p) == [st EXCEPT ![p] = "ZOMBIE"]

\* The last usable structure instead of the first.
LastFree(p) == status[p] = "FREE" /\ \A r \in Pid : r > p => status[r] # "FREE"

\* alloc_process takes the first FREE structure.
FirstFree(p) == status[p] = "FREE" /\ \A r \in Pid : r < p => status[r] # "FREE"

Stop(why) ==
    /\ machine' = why
    /\ UNCHANGED <<status, parent, ready_queue, current>>

Panic == Stop("panic")

\* alloc_page and pfree take the number of the hart from tp.  do_fork stores
\* the address of the child's structure in the child's tp, and nothing sets tp
\* back, so a number is there only while the first process runs.
HartKnown == parent[current] = Nobody
-----------------------------------------------------------------------------
\* s_start: insert_to_ready_queue(load_user_program()), then schedule().
Boot ==
    /\ machine = "boot"
    /\ \E p \in Pid :
         /\ FirstFree(p)
         /\ Schedule([status EXCEPT ![p] = "READY"], Insert(ready_queue, p))
    /\ UNCHANGED parent

\* sys_user_fork and do_fork; the caller goes on running.
Fork ==
    /\ machine = "on" /\ HartKnown
    /\ \E child \in Pid :
         /\ FirstFree(child)
         /\ status' = [status EXCEPT ![child] = "READY"]
         /\ parent' = [parent EXCEPT ![child] = current]
         /\ ready_queue' = Insert(ready_queue, child)
    /\ UNCHANGED <<current, machine>>

\* "cannot find any free process structure."
ForkPanic ==
    /\ machine = "on"
    /\ \A p \in Pid : status[p] # "FREE"
    /\ Panic

\* A child needs a page, or frees one: pcpu_caches is indexed with an address.
\* What the kernel does behind such an access is not followed.
Lost ==
    /\ machine = "on" /\ ~HartKnown
    /\ Stop("lost")

\* sys_user_exit: free_process(current), then schedule().
Exit ==
    /\ machine = "on"
    /\ Schedule(FreeProcess(status, current), ready_queue)
    /\ UNCHANGED parent

\* sys_user_yield, the timer interrupt and traps with no handler all panic.
YieldOrTimer ==
    /\ machine = "on"
    /\ Panic

Next == Boot \/ Fork \/ ForkPanic \/ Lost \/ Exit \/ YieldOrTimer

Spec == Init /\ [][Next]_vars
-----------------------------------------------------------------------------
TypeOK ==
    /\ status \in [Pid -> {"FREE", "READY", "RUNNING", "BLOCKED", "ZOMBIE"}]
    /\ parent \in [Pid -> Pid \cup {Nobody}]
    /\ ready_queue \in Seq(Pid)
    /\ current \in Pid \cup {Nobody}
    /\ machine \in {"boot", "on"} \cup Stopped

\* The scheduler's two records agree: the queue holds exactly the READY
\* processes, each once, and while the machine is on the one RUNNING process
\* is current.
SchedulerConsistent ==
    /\ \A i \in DOMAIN ready_queue : status[ready_queue[i]] = "READY"
    /\ \A p \in Pid : status[p] = "READY" => \E i \in DOMAIN ready_queue : ready_queue[i] = p
    /\ \A i, j \in DOMAIN ready_queue : ready_queue[i] = ready_queue[j] => i = j
    /\ machine = "on" => \A p \in Pid : status[p] = "RUNNING" <=> p = current

\* Neither "Not handled: we should let system wait for unfinished processes"
\* nor the assertion status == READY in schedule() is ever reached, and the
\* machine shuts down only when every started process has ended.
ScheduleChecksHold ==
    /\ machine \notin {"unfinished", "assert"}
    /\ machine = "shutdown" => \A p \in Pid : status[p] \in {"FREE", "ZOMBIE"}

\* Processes run one after the other, to their end, in the order they were
\* forked: those before the current one are zombies, those after it waiting.
RunsInForkOrder ==
    machine = "on" =>
       /\ \A p \in Pid : p < current <=> status[p] = "ZOMBIE"
       /\ \A i, j \in DOMAIN ready_queue : i < j => ready_queue[i] < ready_queue[j]

\* A child first runs when its parent has already ended: parent and child
\* never compete for the hart, nothing being able to switch between them.
ParentEndedFirst ==
    machine = "on" /\ parent[current] # Nobody => status[parent[current]] = "ZOMBIE"
=============================================================================

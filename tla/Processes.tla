------------------------------ MODULE Processes ------------------------------
(***************************************************************************)
(* The process table, the round-robin scheduler and the traps that change  *)
(* the state of a process: kernel/src/process.rs, scheduler.rs, traps.rs,  *)
(* syscall.rs and the process half of global_state.rs.                     *)
(*                                                                         *)
(* There is one hart.  A trap from user mode runs with interrupts off, and *)
(* an interrupt taken inside the kernel never touches a process, so a      *)
(* handler is one step up to the point where it switches context; what     *)
(* follows the switch is a step of its own, taken when the process is      *)
(* scheduled again.  Traps that leave the process table alone (console and *)
(* memory system calls, device interrupts) are stuttering steps.           *)
(***************************************************************************)
EXTENDS Naturals, Sequences

CONSTANTS
    MaxPid,          \* bound on the PID counter, which the code never bounds
    MAXIMUM_PROCESS  \* number of kernel stacks mapped at boot, for pids 0, 1, ...

ASSUME ProcessesAssumption ==
    /\ MaxPid \in Nat \ {0}
    /\ MAXIMUM_PROCESS \in Nat \ {0}

VARIABLES
    PID,              \* the counter in assign_process
    process_state,    \* Process::process_state, without its payload
    waiting_for,      \* payload of ProcessState::Waiting, 0 otherwise
    parent,           \* Process::parent, 0 for None
    children,         \* Process::children
    context,          \* where switch_context left the process
    loaded,           \* whether map_other_pages set the kernel stack pointer
    pids,             \* GlobalState::pids
    current_process,  \* GlobalState::current_process, 0 for None
    stack,            \* the process on whose kernel stack the hart runs
    user,             \* owners of the satp and the sepc of the last return to user mode
    hart              \* what the hart executes

table == <<PID, parent, loaded>>
vars == <<PID, process_state, waiting_for, parent, children, context, loaded,
          pids, current_process, stack, user, hart>>

Pids == 1..MaxPid

\* "idle" and "first" are contexts of a process that never ran; "timer" and
\* "yield" those of a process switched out inside yield_cpu, called by the
\* timer branch of user_trap or by the Yield system call; "exit" is the
\* context saved by exit, after which the code says unreachable!().
Contexts == {"idle", "first", "timer", "yield", "exit"}

\* The panic handler never returns.  A supervisor exception on a stack that is not
\* mapped never gets out of the trap vector, Shutdown turns the machine off, and
\* "unreachable" is the end of exit.
Stops == {"panic", "fault", "off", "unreachable"}
Stopped == hart \in Stops

Ready(p)      == process_state[p] = "Ready"
Waiting(p, w) == process_state[p] = "Waiting" /\ waiting_for[p] = w
OnCpu(p)      == hart \in {"kernel", "user", "exception"} /\ stack = p

TypeOK ==
    /\ PID \in Pids
    /\ process_state \in
         [Pids -> {"NotUsed", "Ready", "Running", "Waiting", "Terminated"}]
    /\ waiting_for \in [Pids -> Pids \cup {0}]
    /\ parent \in [Pids -> Pids \cup {0}]
    /\ children \in [Pids -> SUBSET Pids]
    /\ context \in [Pids -> Contexts]
    /\ loaded \in [Pids -> BOOLEAN]
    /\ pids \in Seq(Pids)
    /\ current_process \in Pids \cup {0}
    /\ stack \in Pids \cup {0}
    /\ user \in [satp : Pids \cup {0}, sepc : Pids \cup {0}]
    /\ hart \in {"scheduler", "kernel", "user", "exception"} \cup Stops

-----------------------------------------------------------------------------
(* Boot: main has called assign_process for the shell and enters schedule. *)

Init ==
    /\ PID = 1
    /\ process_state = [p \in Pids |-> IF p = 1 THEN "Ready" ELSE "NotUsed"]
    /\ waiting_for = [p \in Pids |-> 0]
    /\ parent = [p \in Pids |-> 0]
    /\ children = [p \in Pids |-> {}]
    /\ context = [p \in Pids |-> IF p = 1 THEN "first" ELSE "idle"]
    /\ loaded = [p \in Pids |-> p = 1]
    /\ pids = <<1>>
    /\ current_process = 0
    /\ stack = 0
    /\ user = [satp |-> 0, sepc |-> 0]
    /\ hart = "scheduler"

-----------------------------------------------------------------------------
(* The scheduler *)

\* Mutants: the queue is searched in place, or a pid is popped for good.
NotRotated(i) == pids
PoppedForGood(i) == SubSeq(pids, i + 1, Len(pids)) \o SubSeq(pids, 1, i - 1)

\* The queue after find_ready_process popped and pushed back its first i pids.
Rotated(i) == SubSeq(pids, i + 1, Len(pids)) \o SubSeq(pids, 1, i)

\* find_ready_process: the first Ready pid in queue order.
IsFirstReady(i) ==
    /\ Ready(pids[i])
    /\ \A j \in 1..(i - 1) : ~Ready(pids[j])

\* The kernel stack of p is mapped and p's saved stack pointer points to it.
HasKernelStack(p) == loaded[p] /\ p < MAXIMUM_PROCESS

\* Mutant: the current process is set once, by the first process scheduled.
SetOnce(p) == current_process' = IF current_process = 0 THEN p ELSE current_process

set_current_process(p) == current_process' = p

\* schedule found a process: it becomes Running and current, and the hart
\* switches to its context, which faults when there is no stack behind it.
schedule ==
    /\ hart = "scheduler"
    /\ \E i \in 1..Len(pids) :
         LET p == pids[i] IN
         /\ IsFirstReady(i)
         /\ pids' = Rotated(i)
         /\ process_state' = [process_state EXCEPT ![p] = "Running"]
         /\ set_current_process(p)
         /\ stack' = p
         /\ hart' = IF HasKernelStack(p) THEN "kernel" ELSE "fault"
    /\ UNCHANGED <<table, waiting_for, children, context, user>>

\* schedule found nothing Ready: wfi, and round the loop again.
wfi ==
    /\ hart = "scheduler"
    /\ \A i \in 1..Len(pids) : ~Ready(pids[i])
    /\ UNCHANGED vars

\* A process on its way back to user mode.  return_to_user_mode loads the satp
\* of the trapframe it is handed, set_up_supervisor_to_user_mode_transition
\* the sepc of whoever is current_process.
ReturnToUser(trapframe) ==
    /\ user' = [satp |-> trapframe, sepc |-> current_process]
    /\ hart' = "user"

prepare_first_time_execution ==
    /\ hart = "kernel"
    /\ context[stack] = "first"
    /\ ReturnToUser(current_process)
    /\ UNCHANGED <<table, process_state, waiting_for, children, context, pids,
                   current_process, stack>>

\* The process continues behind the switch_context that suspended it: the tail
\* of user_trap, with the trapframe it read before the switch, or the
\* unreachable!() of exit.
Resume ==
    /\ hart = "kernel"
    /\ context[stack] # "first"
    /\ IF context[stack] = "exit"
         THEN hart' = "unreachable" /\ UNCHANGED user
         ELSE ReturnToUser(stack)
    /\ UNCHANGED <<table, process_state, waiting_for, children, context, pids,
                   current_process, stack>>

\* switch_to_scheduler_context, called by the current process at point c.
SwitchToScheduler(c) ==
    /\ context' = [context EXCEPT ![current_process] = c]
    /\ hart' = "scheduler"

-----------------------------------------------------------------------------
(* Traps from user mode, taken by current_process *)

\* Mutant: the process that gives up the hart is Ready whatever it waits for.
AlwaysReady(p) == "Ready"

\* What yield_cpu makes of the state of the process that gives up the hart: a
\* process that spawned with wait is already Waiting and stays so.
Yielded(p) == IF process_state[p] = "Running" THEN "Ready" ELSE process_state[p]

yield_cpu(c) ==
    /\ hart = "user"
    /\ process_state' = [process_state EXCEPT ![current_process] = Yielded(current_process)]
    /\ SwitchToScheduler(c)
    /\ UNCHANGED <<table, waiting_for, children, pids, current_process, stack, user>>

TimerInterrupt == yield_cpu("timer")
SyscallYield   == yield_cpu("yield")

\* Mutant: the pid counter is bumped a second time by the caller.
CountedTwice(c, good) ==
    /\ PID' = c + 1
    /\ pids' = Append(pids, c)
    /\ context' = [context EXCEPT ![c] = "first"]
    /\ loaded' = [loaded EXCEPT ![c] = good]

\* The table entry that assign_process creates for pid c, the ELF image being
\* good or not: it is Ready before the image is looked at.
NewEntry(c, good) ==
    /\ PID' = c
    /\ pids' = Append(pids, c)
    /\ context' = [context EXCEPT ![c] = "first"]
    /\ loaded' = [loaded EXCEPT ![c] = good]

\* spawn whose assign_process succeeds.  With wait the caller is marked
\* Waiting but keeps the hart: it returns to user mode with the child's pid.
spawn(wait) ==
    /\ hart = "user"
    /\ PID < MaxPid
    /\ LET c == PID + 1
           p == current_process IN
       /\ NewEntry(c, TRUE)
       /\ parent' = [parent EXCEPT ![c] = p]
       /\ children' = [children EXCEPT ![p] = @ \cup {c}]
       /\ process_state' = [process_state EXCEPT ![c] = "Ready",
                                                 ![p] = IF wait THEN "Waiting" ELSE @]
       /\ waiting_for' = [waiting_for EXCEPT ![p] = IF wait THEN c ELSE @]
    /\ UNCHANGED <<current_process, stack, user, hart>>

\* spawn whose assign_process returns an error, for a malformed image or for
\* want of memory for a segment: the caller gets the error and carries on, the
\* new entry stays in the table.
SpawnFails ==
    /\ hart = "user"
    /\ PID < MaxPid
    /\ NewEntry(PID + 1, FALSE)
    /\ process_state' = [process_state EXCEPT ![PID + 1] = "Ready"]
    /\ UNCHANGED <<parent, children, waiting_for, current_process, stack, user, hart>>

\* Mutants: exit wakes the parent whatever it does, or whatever child it waits
\* for, or compares the awaited pid with the parent's own.
WakeAlways(q, p) == TRUE
WakeAnyWaiter(q, p) == process_state[q] = "Waiting"
WakeWrongPid(q, p) == process_state[q] = "Waiting" /\ waiting_for[q] = q

\* The condition under which exit makes the parent q of process p Ready.
Awaits(q, p) == process_state[q] = "Waiting" /\ waiting_for[q] = p

\* exit: the process is Terminated, its parent inherits its children and is
\* woken when it waits for this very process.  Neither remove_from_vec nor the
\* loop that clears the children's parent does anything (both build an iterator
\* and drop it), so children keep their parent and the parent keeps the dead
\* child.  The parent can always be upgraded: the table is never cleaned.
exit ==
    /\ hart = "user"
    /\ LET p == current_process
           q == parent[p]
           woken == q # 0 /\ Awaits(q, p) IN
       /\ process_state' = [r \in Pids |-> IF r = p THEN "Terminated"
                                           ELSE IF r = q /\ woken THEN "Ready"
                                           ELSE process_state[r]]
       /\ waiting_for' = [r \in Pids |-> IF r = p \/ (r = q /\ woken) THEN 0
                                         ELSE waiting_for[r]]
       /\ children' = [r \in Pids |-> IF r = p THEN {}
                                      ELSE IF r = q THEN children[q] \cup children[p]
                                      ELSE children[r]]
    /\ SwitchToScheduler("exit")
    /\ UNCHANGED <<table, pids, current_process, stack, user>>

\* An exception of the program, or a page fault that cannot be served: user_trap
\* takes the lock of the process and starts to print its message, with the process
\* in the table as it was.
Exception ==
    /\ hart = "user"
    /\ hart' = "exception"
    /\ UNCHANGED <<table, process_state, waiting_for, children, context, pids,
                   current_process, stack, user>>

\* How that ends, on either of its ways.  The println is that of janglib and makes
\* a system call, which nobody answers in the kernel: get_result panics (the steps
\* are in module Kucom).  Had the message been printed, exit would take the lock
\* that user_trap still holds, and Mutex::lock panics (module Mutex).
ExceptionPanics ==
    /\ hart = "exception"
    /\ hart' = "panic"
    /\ UNCHANGED <<table, process_state, waiting_for, children, context, pids,
                   current_process, stack, user>>

\* A system call that panics in the kernel: no Syscall in the KUCOM page, a name
\* that is not UTF-8, no memory for the page table, the trapframe or the stack
\* of a child.
SyscallPanics ==
    /\ hart = "user"
    /\ hart' = "panic"
    /\ UNCHANGED <<table, process_state, waiting_for, children, context, pids,
                   current_process, stack, user>>

Shutdown ==
    /\ hart = "user"
    /\ hart' = "off"
    /\ UNCHANGED <<table, process_state, waiting_for, children, context, pids,
                   current_process, stack, user>>

\* The panic handler, whose message is a system call of janglib too and panics
\* again before it reaches loop {}, and the machine that is off.
Halted == Stopped /\ UNCHANGED vars

Next ==
    \/ schedule
    \/ wfi
    \/ prepare_first_time_execution
    \/ Resume
    \/ TimerInterrupt
    \/ SyscallYield
    \/ \E wait \in BOOLEAN : spawn(wait)
    \/ SpawnFails
    \/ exit
    \/ Exception
    \/ ExceptionPanics
    \/ SyscallPanics
    \/ Shutdown
    \/ Halted

Spec == Init /\ [][Next]_vars

\* The scheduler loop, the code behind a switch and a handler run on; the
\* timer is re-armed on every timer interrupt and is never masked in user mode,
\* so a program that keeps the hart is interrupted.
Fairness ==
    /\ WF_vars(schedule)
    /\ WF_vars(prepare_first_time_execution \/ Resume)
    /\ WF_vars(TimerInterrupt)
    /\ WF_vars(ExceptionPanics)

FairSpec == Spec /\ Fairness

-----------------------------------------------------------------------------
(* Properties *)

\* The processes that were created and have not exited.
Alive(p) == p <= PID /\ process_state[p] # "Terminated"

\* exit never continues behind its switch to the scheduler: a process that
\* terminated is never made Ready again, by a yield or by the wake-up of a late
\* child, and so never reaches unreachable!("EXIT UNREACHABLE") in syscall.rs.
ExitNeverResumes == hart # "unreachable"

\* Who waits in a Waiting state waits for a younger child of its own which has
\* not exited, so that the exit that wakes it is still to come: the Waiting that
\* spawn stores and the test in exit leave no wake-up behind.
NoLostWakeup ==
    \A p \in Pids : process_state[p] = "Waiting" =>
        LET w == waiting_for[p] IN
        /\ w \in Pids
        /\ Alive(w)
        /\ parent[w] = p
        /\ p < w

\* The scheduler never idles in wfi with a process that waits: as long as
\* somebody is Waiting, somebody is Ready or has the hart.  (An idle kernel
\* would never leave wfi again: no interrupt handler makes a process Ready.)
SomeoneCanRun ==
    (~Stopped /\ \E p \in Pids : process_state[p] = "Waiting")
        => \E r \in Pids : Ready(r) \/ OnCpu(r)

\* User mode is entered with the page table and the program counter of one and
\* the same process, the one that current_process names and on whose kernel
\* stack the trap ran, although user_trap reads the trapframe before it gives up
\* the hart and set_up_supervisor_to_user_mode_transition reads it afterwards.
ReturnsToItself ==
    hart = "user" => user = [satp |-> stack, sepc |-> stack] /\ current_process = stack

\* At most the process on the hart is Running, and none while the scheduler
\* looks for one: yield_cpu and exit never leave a process Running behind, which
\* find_ready_process would pass over for ever.
RunningHasHart ==
    ~Stopped => \A p \in Pids : process_state[p] = "Running" => OnCpu(p)

\* The run queue holds every pid given out exactly once: find_ready_process
\* loses none and add_process adds none twice.
QueueComplete ==
    /\ Len(pids) = PID
    /\ \A p \in 1..PID : \E i \in 1..Len(pids) : pids[i] = p

\* A process leaves Waiting because the child it waits for terminates in that
\* very step, or by its own doing while it still has the hart (spawn returns to
\* the caller before it stops; it may spawn again, or exit).
WaitsForItsChild ==
    [][\A p \in Pids :
         (process_state[p] = "Waiting"
            /\ <<process_state[p], waiting_for[p]>>' # <<process_state[p], waiting_for[p]>>)
         => \/ process_state[waiting_for[p]] # "Terminated"
               /\ process_state'[waiting_for[p]] = "Terminated"
            \/ hart = "user" /\ current_process = p]_vars

\* A Ready process gets the hart, however many others yield, spawn or are
\* preempted, unless the kernel stops: find_ready_process serves in turn.
StarvationFree == \A p \in Pids : Ready(p) ~> (OnCpu(p) \/ Stopped)

\* The table, the queue and the contexts seen as the abstract scheduler: a process
\* is blocked when its state is Waiting, and has the hart when its kernel stack is
\* the one in use.
Living   == {p \in Pids : Alive(p)}
Ended    == {p \in Pids : process_state[p] = "Terminated"}
Runnable == {p \in Pids : Ready(p)}
OnHart   == IF hart \in {"kernel", "user", "exception"} THEN stack ELSE 0
Awaited  == [p \in Pids |-> IF process_state[p] = "Waiting" THEN waiting_for[p] ELSE 0]

Abstract == INSTANCE Scheduler WITH
    Procs <- Pids, First <- 1,
    alive <- Living, done <- Ended, ready <- Runnable, cpu <- OnHart,
    awaits <- Awaited, stopped <- Stopped

\* The kernel keeps the promise of module Scheduler: whatever the programs do, exit
\* wakes all who await the process and nobody else, a process that gives up the
\* hart stays in the running unless it awaits a child, and find_ready_process
\* serves each process that is ready again and again.
ImplementsScheduler == Abstract!FairSpec

-----------------------------------------------------------------------------
(* What the repository says of the code and the code does not do *)

\* Every process that may be scheduled has a kernel stack: map_kernel_stack maps
\* one for each of MAXIMUM_PROCESS processes.
EveryProcessHasStack == \A p \in Pids : Ready(p) /\ loaded[p] => p < MAXIMUM_PROCESS

\* A spawn that returned an error to its caller (Spawn(Result<usize>)) leaves
\* nothing behind that the scheduler would run.
FailedSpawnLeavesNothing == \A p \in Pids : Ready(p) => loaded[p]

=============================================================================

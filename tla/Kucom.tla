-------------------------------- MODULE Kucom --------------------------------
(***************************************************************************)
(* System calls through the kernel-user communication page: the wrappers   *)
(* of janglib (lib.rs, io.rs, memory.rs) on one side and syscall::handle   *)
(* on the other, on top of module Processes.  Every process has its own    *)
(* KUCOM page.  A wrapper writes the call into it, executes ecall and      *)
(* reads the result from the same page, in three steps between which the   *)
(* program may be preempted for any time; the kernel reads the call and    *)
(* writes the result through the page table it finds at the start of       *)
(* handle, for Yield after it has run other processes in between.          *)
(***************************************************************************)
EXTENDS Processes

VARIABLES
    page,   \* the KUCOM page of each process
    step,   \* how far its program is in a wrapper
    call,   \* the call it makes
    dying,  \* how far it is in the panic handler of janglib
    kernel_page,  \* what lies at KUCOM_PAGE in the kernel's own page table
    printing      \* how far the kernel is in its println about an exception

kprint == <<kernel_page, printing>>
kucom == <<page, step, call, dying, kprint>>
kuvars == <<vars, kucom>>

Syscalls == {"WantMemory", "Write", "ReadChar", "Exit", "Spawn", "Yield", "Shutdown"}

\* SyscallInfo: a Syscall or a SyscallResult of process p, Empty, and the zeroes of
\* a page nothing was written to.
Syscall(c, p)       == [tag |-> "Syscall", call |-> c, of |-> p]
SyscallResult(c, p) == [tag |-> "SyscallResult", call |-> c, of |-> p]
Empty  == [tag |-> "Empty", call |-> "none", of |-> 0]
Zeroes == [tag |-> "zeroes", call |-> "none", of |-> 0]

KuTypeOK ==
    /\ page \in [Pids -> [tag : {"Syscall", "SyscallResult", "Empty", "zeroes"},
                          call : Syscalls \cup {"none"}, of : Pids \cup {0}]]
    /\ \A p \in Pids : page[p].of \in {0, p}
    /\ step \in [Pids -> {"run", "written", "yielding", "returned", "gone"}]
    /\ call \in [Pids -> Syscalls \cup {"none"}]
    /\ dying \in [Pids -> {"no", "message", "exit"}]
    /\ kernel_page \in {Zeroes, Syscall("Write", 0)}
    /\ printing \in {"no", "written", "returned"}

KuInit ==
    /\ Init
    /\ page = [p \in Pids |-> Zeroes]
    /\ step = [p \in Pids |-> "run"]
    /\ call = [p \in Pids |-> "none"]
    /\ dying = [p \in Pids |-> "no"]
    /\ kernel_page = Zeroes
    /\ printing = "no"

\* Mutant: one page for all processes.
SharedPage(pt) == 1

\* The page that KUCOM_PAGE is in the page table of pt.
PageOf(pt) == pt

-----------------------------------------------------------------------------
(* The program: current_process, in user mode, in the address space of     *)
(* user.satp                                                               *)

me == current_process
InUser(s) == hart = "user" /\ step[me] = s

\* Mutant: the panic handler does not call exit.
MessageForever(c) == dying[me] = "no" \/ c = "Write"

\* Any call at any time, except in the panic handler: a message and Exit.
MayMake(c) ==
    \/ dying[me] = "no"
    \/ dying[me] = "message" /\ c = "Write"
    \/ dying[me] = "exit" /\ c = "Exit"

write_syscall(c) ==
    /\ InUser("run")
    /\ MayMake(c)
    /\ page' = [page EXCEPT ![PageOf(user.satp)] = Syscall(c, me)]
    /\ call' = [call EXCEPT ![me] = c]
    /\ step' = [step EXCEPT ![me] = "written"]
    /\ UNCHANGED <<vars, dying, kprint>>

\* The two tests in get_result and check; the wrapper of Yield does not look.
ResultIsWrong ==
    LET result == page[PageOf(user.satp)] IN
    call[me] # "Yield" /\ (result.tag # "SyscallResult" \/ result.call # call[me])

\* A program panics by itself; one that finds a wrong result has no other way.
panic ==
    /\ hart = "user"
    /\ step[me] \in {"run", "returned"} /\ dying[me] = "no"
    /\ step[me] = "returned" => ResultIsWrong
    /\ dying' = [dying EXCEPT ![me] = "message"]
    /\ step' = [step EXCEPT ![me] = "run"]
    /\ UNCHANGED <<vars, page, call, kprint>>

\* get_result leaves Empty behind.
ResultTaken(p) == IF call[p] = "Yield" THEN page ELSE [page EXCEPT ![PageOf(p)] = Empty]

\* get_result and check.
check ==
    /\ InUser("returned")
    /\ ~ResultIsWrong
    /\ page' = ResultTaken(user.satp)
    /\ step' = [step EXCEPT ![me] = "run"]
    /\ dying' = [dying EXCEPT ![me] = IF @ = "message" THEN "exit" ELSE @]
    /\ UNCHANGED <<vars, call, kprint>>

-----------------------------------------------------------------------------
(* The kernel: syscall::handle *)

\* What handle finds in the page of the current process.
Found == page[PageOf(me)]
Asked(c) == InUser("written") /\ Found.tag = "Syscall" /\ Found.call = c

\* handle_syscall: the program goes on behind its ecall.
BehindEcall == "returned"

\* The end of handle, of the process with page table pt.
Answers(c, pt) ==
    /\ page' = [page EXCEPT ![PageOf(pt)] = SyscallResult(c, pt)]
    /\ step' = [step EXCEPT ![pt] = BehindEcall]
    /\ UNCHANGED <<call, dying, kprint>>

\* Calls that leave the process table alone.
HandleSimple ==
    /\ \E c \in {"WantMemory", "Write", "ReadChar"} : Asked(c) /\ Answers(c, me)
    /\ UNCHANGED vars

\* The child's KUCOM page is a new page, and so all zeroes.
HandleSpawn ==
    /\ Asked("Spawn")
    /\ SpawnFails \/ \E wait \in BOOLEAN : spawn(wait)
    /\ Answers("Spawn", me)

\* handle stops in yield_cpu; its frame holds the page table.
HandleYield ==
    /\ Asked("Yield")
    /\ SyscallYield
    /\ step' = [step EXCEPT ![me] = "yielding"]
    /\ UNCHANGED <<page, call, dying, kprint>>

HandleExit ==
    /\ Asked("Exit")
    /\ exit
    /\ step' = [step EXCEPT ![me] = "gone"]
    /\ UNCHANGED <<page, call, dying, kprint>>

HandleShutdown == Asked("Shutdown") /\ Shutdown /\ UNCHANGED kucom

\* "Expected Syscall, found ...", or a panic in spawn.
HandlePanics ==
    /\ InUser("written")
    /\ Found.tag # "Syscall" \/ Found.call = "Spawn"
    /\ SyscallPanics
    /\ UNCHANGED kucom

\* A process continues in the kernel: behind yield_cpu in handle, which answers, or
\* behind that of the timer branch.
KuResume ==
    /\ Resume
    /\ IF context[stack] = "yield" THEN Answers("Yield", stack) ELSE UNCHANGED kucom

-----------------------------------------------------------------------------
(* The exception branch of user_trap, with interrupts off and the lock of  *)
(* the process held: the kernel reports the exception with the println of  *)
(* janglib, a wrapper like those of the programs                           *)

\* write_syscall stores through KUCOM_PAGE, which in the kernel's page table is a
\* page of the kernel stack of pid 0, a pid that no process has.
KernelPrints ==
    /\ hart = "exception" /\ printing = "no"
    /\ kernel_page' = Syscall("Write", 0)
    /\ printing' = "written"
    /\ UNCHANGED <<vars, page, step, call, dying>>

\* The ecall is one of supervisor mode: it goes to the firmware, which returns an
\* error code in a register and knows nothing of the page.
FirmwareReturns ==
    /\ hart = "exception" /\ printing = "written"
    /\ printing' = "returned"
    /\ UNCHANGED <<vars, page, step, call, dying, kernel_page>>

\* get_result finds the call where it looks for a result, and panics.  (Behind a
\* result exit would follow, and panic in Mutex::lock.)  The panic handler prints
\* the same way and panics again.
KernelGetResult ==
    /\ printing = "returned"
    /\ kernel_page.tag # "SyscallResult"
    /\ ExceptionPanics
    /\ UNCHANGED kucom

KernelReports == KernelPrints \/ FirmwareReturns \/ KernelGetResult

KuNext ==
    \/ \E c \in Syscalls : write_syscall(c)
    \/ panic
    \/ check
    \/ HandleSimple
    \/ HandleSpawn
    \/ HandleYield
    \/ HandleExit
    \/ HandleShutdown
    \/ HandlePanics
    \/ Exception /\ UNCHANGED kucom
    \/ KernelReports
    \/ KuResume
    \/ schedule /\ UNCHANGED kucom
    \/ wfi /\ UNCHANGED kucom
    \/ prepare_first_time_execution /\ UNCHANGED kucom
    \/ TimerInterrupt /\ UNCHANGED kucom
    \/ Halted /\ UNCHANGED kucom

KuSpec == KuInit /\ [][KuNext]_kuvars

\* The fairness of module Processes, and of a program: one that gets the hart again
\* and again gets on, since its time slice is long enough for a wrapper.
Program == check \/ (dying[me] # "no" /\ \E c \in Syscalls : write_syscall(c))
Kernel == HandleSimple \/ HandleYield \/ HandleExit \/ HandleShutdown \/ HandlePanics

KuFairSpec ==
    /\ KuSpec
    /\ WF_kuvars(schedule /\ UNCHANGED kucom)
    /\ WF_kuvars((prepare_first_time_execution /\ UNCHANGED kucom) \/ KuResume)
    /\ WF_kuvars(TimerInterrupt /\ UNCHANGED kucom)
    /\ WF_kuvars(KernelReports)
    /\ \A p \in Pids : SF_kuvars(me = p /\ (Program \/ Kernel))

-----------------------------------------------------------------------------
(* Properties *)

\* A program's page is in step with its wrapper, whatever other programs called,
\* spawned or yielded between its steps: it holds the program's own call until the
\* kernel takes it, so that the kernel never panics with "Expected Syscall, found ...";
\* the answer to that very call behind the ecall, so that the panic!() in get_result
\* and the one in check are never reached; and outside of the wrappers no result that
\* a later call could take for its own, the unread one of a Yield excepted.
PageFollowsWrapper ==
    \A p \in Pids :
        /\ step[p] \in {"written", "yielding"} => page[p] = Syscall(call[p], p)
        /\ step[p] = "returned" => page[p] = SyscallResult(call[p], p)
        /\ step[p] = "run" /\ page[p].tag = "SyscallResult" => page[p].call = "Yield"

\* A program that panics gets its message out and exits, unless the machine stops or
\* the program waits for a child that does not end.
PanicEnds ==
    \A p \in Pids :
        dying[p] # "no" ~> step[p] = "gone" \/ Stopped \/ process_state[p] = "Waiting"

=============================================================================

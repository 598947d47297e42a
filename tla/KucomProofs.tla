----------------------------- MODULE KucomProofs -----------------------------
(***************************************************************************)
(* Proofs about system calls through the KUCOM pages, for every number of  *)
(* processes.  Every step is a step of module Processes or leaves its      *)
(* variables alone, so the invariant of ProcessesProofs carries over; what *)
(* it says of the hart gives that a wrapper and the handler it waits for   *)
(* use one and the same page.                                              *)
(***************************************************************************)
EXTENDS Kucom, ProcessesProofs

-----------------------------------------------------------------------------
(* The inductive invariant *)

\* A program inside handle of a Yield is where its wrapper made that call.
YieldingInv == \A p \in Pids : step[p] = "yielding" => call[p] = "Yield"

\* Who was switched out behind the Yield system call, and has not been back in
\* user mode since, has its answer still to come: the context that Resume looks
\* at is not left over from an earlier Yield.
SuspendedInv ==
    \A p \in Pids :
        (context[p] = "yield" /\ hart \in {"scheduler", "kernel", "user"}
           /\ ~(hart = "user" /\ stack = p))
        => step[p] = "yielding"

KuInv ==
    /\ KuTypeOK
    /\ PageFollowsWrapper
    /\ YieldingInv
    /\ SuspendedInv

\* Initially all pages are zeroes and nobody is in a wrapper.
LEMMA KuInitInv == KuInit => KuInv
<1> SUFFICES ASSUME KuInit PROVE KuInv
  OBVIOUS
<1>1. /\ page = [p \in Pids |-> Zeroes]
      /\ step = [p \in Pids |-> "run"]
      /\ call = [p \in Pids |-> "none"]
      /\ dying = [p \in Pids |-> "no"]
      /\ kernel_page = Zeroes /\ printing = "no"
  BY DEF KuInit
<1>2. \A p \in Pids : context[p] # "yield"
  BY DEF KuInit, Init
<1>3. KuTypeOK
  BY <1>1 DEF KuTypeOK, Zeroes
<1>4. PageFollowsWrapper
  BY <1>1 DEF PageFollowsWrapper, Zeroes
<1>5. YieldingInv
  BY <1>1 DEF YieldingInv
<1>6. SuspendedInv
  BY <1>2 DEF SuspendedInv
<1> QED
  BY <1>3, <1>4, <1>5, <1>6 DEF KuInv

\* In user mode the program, the page its satp maps and the page the kernel finds
\* are those of one process.
LEMMA UserIsMe ==
    ASSUME IInv, hart = "user"
    PROVE  me \in Pids /\ user.satp = me /\ stack = me /\ PageOf(user.satp) = me /\ PageOf(me) = me
<1>1. stack \in 1..PID /\ PID \in Pids /\ current_process = stack
  BY DEF IInv, HartInv, TypeOK
<1>2. stack \in Pids
  BY <1>1, ProcessesAssumption DEF Pids
<1>3. user = [satp |-> stack, sepc |-> stack]
  BY DEF IInv, ReturnsToItself
<1> QED
  BY <1>1, <1>2, <1>3 DEF me, PageOf

\* What handle finds is the call that the wrapper made.
LEMMA AskedIsCall ==
    ASSUME IInv, KuInv, NEW c, Asked(c)
    PROVE  hart = "user" /\ call[me] = c /\ step[me] = "written"
<1>1. hart = "user" /\ step[me] = "written" /\ page[PageOf(me)].call = c
  BY DEF Asked, InUser, Found
<1>2. me \in Pids /\ PageOf(me) = me
  BY <1>1, UserIsMe
<1>3. page[me] = Syscall(call[me], me)
  BY <1>1, <1>2 DEF KuInv, PageFollowsWrapper
<1> QED
  BY <1>1, <1>2, <1>3 DEF Syscall

-----------------------------------------------------------------------------
(* The steps *)

\* The end of handle keeps pages and wrappers in step when it answers the call
\* that the wrapper made.
LEMMA AnswersInv ==
    ASSUME KuInv, NEW p \in Pids, NEW c \in Syscalls, call[p] = c, Answers(c, p)
    PROVE  KuTypeOK' /\ PageFollowsWrapper' /\ YieldingInv'
<1>1. /\ page' = [page EXCEPT ![p] = SyscallResult(c, p)]
      /\ step' = [step EXCEPT ![p] = "returned"]
      /\ UNCHANGED <<call, dying, kernel_page, printing>>
  BY DEF Answers, kprint, PageOf, BehindEcall
<1>2. KuTypeOK'
  BY <1>1 DEF KuInv, KuTypeOK, SyscallResult
<1>3. PageFollowsWrapper'
  BY <1>1 DEF KuInv, KuTypeOK, PageFollowsWrapper, SyscallResult, Syscall
<1>4. YieldingInv'
  BY <1>1 DEF KuInv, KuTypeOK, YieldingInv
<1> QED
  BY <1>2, <1>3, <1>4

\* The steps of a program in a wrapper or in its panic handler, which has the hart
\* in user mode.
LEMMA ProgramInv ==
    ASSUME IInv, KuInv, (\E c \in Syscalls : write_syscall(c)) \/ panic \/ check
    PROVE  KuInv'
<1>1. hart = "user" /\ UNCHANGED vars
  BY DEF write_syscall, panic, check, InUser
<1>2. /\ me \in Pids /\ user.satp = me /\ stack = me /\ PageOf(user.satp) = me
      /\ PageOf(me) = me
  BY <1>1, UserIsMe
<1>3. UNCHANGED <<context, hart, stack>>
  BY <1>1 DEF vars
<1> DEFINE w == me
<1>4. CASE \E c \in Syscalls : write_syscall(c)
  <2>1. PICK c \in Syscalls : write_syscall(c)
    BY <1>4
  <2>2. /\ page' = [page EXCEPT ![w] = Syscall(c, w)]
        /\ call' = [call EXCEPT ![w] = c]
        /\ step' = [step EXCEPT ![w] = "written"]
        /\ UNCHANGED <<dying, kernel_page, printing>>
    BY <1>2, <2>1 DEF write_syscall, kprint
  <2>3. w \in Pids /\ stack = w
    BY <1>2
  <2> HIDE DEF w
  <2>4. KuTypeOK'
    BY <2>2, <2>3 DEF KuInv, KuTypeOK, Syscall
  <2>5. PageFollowsWrapper'
    BY <2>2, <2>3 DEF KuInv, KuTypeOK, PageFollowsWrapper, Syscall, SyscallResult
  <2>6. YieldingInv' /\ SuspendedInv'
    BY <1>1, <1>3, <2>2, <2>3 DEF KuInv, KuTypeOK, YieldingInv, SuspendedInv
  <2> QED
    BY <2>4, <2>5, <2>6 DEF KuInv
<1>5. CASE panic
  <2>1. step[w] = "run"
    <3>1. ASSUME step[w] = "returned", ResultIsWrong PROVE FALSE
      <4>1. page[w] = SyscallResult(call[w], w)
        BY <1>2, <3>1 DEF KuInv, PageFollowsWrapper
      <4>2. page[w].tag = "SyscallResult" /\ page[w].call = call[w]
        BY <4>1 DEF SyscallResult
      <4>3. PageOf(user.satp) = w
        BY <1>2
      <4> QED
        BY <3>1, <4>2, <4>3 DEF ResultIsWrong
    <3> QED
      BY <1>5, <3>1 DEF panic
  <2>2. /\ dying' = [dying EXCEPT ![w] = "message"]
        /\ step' = [step EXCEPT ![w] = "run"]
        /\ UNCHANGED <<page, call, kernel_page, printing>>
    BY <1>5 DEF panic, kprint
  <2>3. step' = step
    BY <2>1, <2>2 DEF KuInv, KuTypeOK
  <2>4. KuTypeOK'
    BY <1>2, <2>2, <2>3 DEF KuInv, KuTypeOK
  <2>5. PageFollowsWrapper' /\ YieldingInv' /\ SuspendedInv'
    BY <1>3, <2>2, <2>3 DEF KuInv, PageFollowsWrapper, YieldingInv, SuspendedInv
  <2> QED
    BY <2>4, <2>5 DEF KuInv
<1>6. CASE check
  <2>1. /\ step[w] = "returned"
        /\ page' = IF call[w] = "Yield" THEN page ELSE [page EXCEPT ![w] = Empty]
        /\ step' = [step EXCEPT ![w] = "run"]
        /\ dying' = [dying EXCEPT ![w] = IF @ = "message" THEN "exit" ELSE @]
        /\ UNCHANGED <<call, kernel_page, printing>>
    BY <1>2, <1>6 DEF check, kprint, ResultTaken, InUser
  <2>2. w \in Pids /\ stack = w
    BY <1>2
  <2> HIDE DEF w
  <2>3. page[w] = SyscallResult(call[w], w)
    BY <2>1, <2>2 DEF KuInv, PageFollowsWrapper
  <2>4. KuTypeOK'
    BY <2>1, <2>2 DEF KuInv, KuTypeOK, Empty
  <2>5. PageFollowsWrapper'
    BY <2>1, <2>2, <2>3
      DEF KuInv, KuTypeOK, PageFollowsWrapper, Syscall, SyscallResult, Empty
  <2>6. YieldingInv' /\ SuspendedInv'
    BY <1>1, <1>3, <2>1, <2>2 DEF KuInv, KuTypeOK, YieldingInv, SuspendedInv
  <2> QED
    BY <2>4, <2>5, <2>6 DEF KuInv
<1> QED
  BY <1>4, <1>5, <1>6

\* The kernel answers a call that it handles at once, the process table changing
\* for Spawn only.
LEMMA HandleInv ==
    ASSUME IInv, KuInv, HandleSimple \/ HandleSpawn
    PROVE  KuInv'
<1>1. PICK c \in Syscalls : Asked(c) /\ Answers(c, me)
  BY DEF HandleSimple, HandleSpawn, Syscalls
<1>2. hart = "user" /\ call[me] = c
  BY <1>1, AskedIsCall
<1>3. me \in Pids /\ stack = me /\ PageOf(me) = me
  BY <1>2, UserIsMe
<1>4. KuTypeOK' /\ PageFollowsWrapper' /\ YieldingInv'
  BY <1>1, <1>2, <1>3, AnswersInv
<1>5. /\ UNCHANGED <<hart, stack>>
      /\ \A p \in Pids : context'[p] = "yield" => context[p] = "yield"
  BY DEF HandleSimple, HandleSpawn, SpawnFails, spawn, NewEntry, vars, IInv, TypeOK
<1>6. \A p \in Pids : p # stack => step'[p] = step[p]
  BY <1>1, <1>3 DEF Answers, KuInv, KuTypeOK
<1>7. SuspendedInv'
  BY <1>2, <1>5, <1>6 DEF KuInv, SuspendedInv
<1> QED
  BY <1>4, <1>7 DEF KuInv

\* handle is left in yield_cpu, with the call still in the page and the context of
\* a Yield.
LEMMA HandleYieldInv ==
    ASSUME IInv, KuInv, HandleYield
    PROVE  KuInv'
<1> DEFINE w == me
<1>1. hart = "user" /\ call[w] = "Yield" /\ step[w] = "written"
  BY AskedIsCall DEF HandleYield
<1>2. w \in Pids /\ stack = w /\ current_process = w
  BY <1>1, UserIsMe DEF me
<1>3. /\ context' = [context EXCEPT ![w] = "yield"]
      /\ hart' = "scheduler"
      /\ stack' = stack
      /\ step' = [step EXCEPT ![w] = "yielding"]
      /\ UNCHANGED <<page, call, dying, kernel_page, printing>>
  BY <1>2 DEF HandleYield, kprint, SyscallYield, yield_cpu, SwitchToScheduler
<1> HIDE DEF w
<1>4. KuTypeOK'
  BY <1>2, <1>3 DEF KuInv, KuTypeOK
<1>5. PageFollowsWrapper'
  BY <1>1, <1>2, <1>3 DEF KuInv, KuTypeOK, PageFollowsWrapper
<1>6. YieldingInv'
  BY <1>1, <1>2, <1>3 DEF KuInv, KuTypeOK, YieldingInv
<1>7. SuspendedInv'
  BY <1>1, <1>2, <1>3 DEF KuInv, KuTypeOK, SuspendedInv, IInv, TypeOK
<1> QED
  BY <1>4, <1>5, <1>6, <1>7 DEF KuInv

\* A process that exits never looks at its page again.
LEMMA HandleExitInv ==
    ASSUME IInv, KuInv, HandleExit
    PROVE  KuInv'
<1> DEFINE w == me
<1>1. hart = "user" /\ step[w] = "written"
  BY AskedIsCall DEF HandleExit
<1>2. w \in Pids /\ stack = w /\ current_process = w
  BY <1>1, UserIsMe DEF me
<1>3. /\ context' = [context EXCEPT ![w] = "exit"]
      /\ hart' = "scheduler"
      /\ stack' = stack
      /\ step' = [step EXCEPT ![w] = "gone"]
      /\ UNCHANGED <<page, call, dying, kernel_page, printing>>
  BY <1>2 DEF HandleExit, kprint, exit, SwitchToScheduler
<1> HIDE DEF w
<1>4. KuTypeOK'
  BY <1>2, <1>3 DEF KuInv, KuTypeOK
<1>5. PageFollowsWrapper' /\ YieldingInv'
  BY <1>2, <1>3 DEF KuInv, KuTypeOK, PageFollowsWrapper, YieldingInv
<1>6. SuspendedInv'
  BY <1>1, <1>2, <1>3 DEF KuInv, KuTypeOK, SuspendedInv, IInv, TypeOK
<1> QED
  BY <1>4, <1>5, <1>6 DEF KuInv

\* The process that the scheduler switched to answers its own Yield, and no other.
LEMMA KuResumeInv ==
    ASSUME IInv, KuInv, KuResume
    PROVE  KuInv'
<1>1. hart = "kernel" /\ UNCHANGED <<context, stack>>
  BY DEF KuResume, Resume
<1>2. stack \in Pids
  BY <1>1 DEF IInv, HartInv, TypeOK, Pids
<1>3. hart' = "user"
  <2>1. context[stack] # "exit"
    BY <1>1, <1>2 DEF IInv, HartInv, ContextInv
  <2> QED
    BY <2>1 DEF KuResume, Resume, ReturnToUser
<1>4. CASE context[stack] = "yield"
  <2>1. call[stack] = "Yield"
    BY <1>1, <1>2, <1>4 DEF KuInv, SuspendedInv, YieldingInv
  <2>2. Answers("Yield", stack)
    BY <1>4 DEF KuResume
  <2>3. KuTypeOK' /\ PageFollowsWrapper' /\ YieldingInv'
    BY <1>2, <2>1, <2>2, AnswersInv DEF Syscalls
  <2>4. \A p \in Pids : p # stack => step'[p] = step[p]
    BY <1>2, <2>2 DEF Answers, KuInv, KuTypeOK
  <2>5. SuspendedInv'
    BY <1>1, <1>3, <2>4 DEF KuInv, SuspendedInv
  <2> QED
    BY <2>3, <2>5 DEF KuInv
<1>5. CASE context[stack] # "yield"
  <2>1. UNCHANGED kucom
    BY <1>5 DEF KuResume
  <2>2. KuTypeOK' /\ PageFollowsWrapper' /\ YieldingInv'
    BY <2>1 DEF kucom, kprint, KuInv, KuTypeOK, PageFollowsWrapper, YieldingInv
  <2>3. SuspendedInv'
    BY <1>1, <1>3, <2>1 DEF kucom, KuInv, SuspendedInv
  <2> QED
    BY <2>2, <2>3 DEF KuInv
<1> QED
  BY <1>4, <1>5

\* The steps of the kernel that leave all pages and wrappers alone.
LEMMA KuQuietInv ==
    ASSUME IInv, KuInv, UNCHANGED kucom,
           \/ Shutdown \/ SyscallPanics \/ Exception \/ ExceptionPanics \/ UNCHANGED vars
           \/ schedule \/ prepare_first_time_execution \/ TimerInterrupt
    PROVE  KuInv'
<1>1. KuTypeOK' /\ PageFollowsWrapper' /\ YieldingInv'
  BY DEF kucom, kprint, KuInv, KuTypeOK, PageFollowsWrapper, YieldingInv
<1>2. step' = step
  BY DEF kucom
<1>3. SuspendedInv'
  <2>1. CASE Shutdown \/ SyscallPanics \/ Exception \/ ExceptionPanics
    <3>1. hart' \notin {"scheduler", "kernel", "user"}
      BY <2>1 DEF Shutdown, SyscallPanics, Exception, ExceptionPanics
    <3> QED
      BY <3>1 DEF SuspendedInv
  <2>2. CASE UNCHANGED vars
    BY <1>2, <2>2 DEF vars, KuInv, SuspendedInv
  <2>3. CASE schedule
    <3>1. hart = "scheduler" /\ hart' # "user" /\ context' = context
      BY <2>3 DEF schedule
    <3> QED
      BY <1>2, <3>1 DEF KuInv, SuspendedInv
  <2>4. CASE prepare_first_time_execution
    <3>1. hart = "kernel" /\ hart' = "user" /\ UNCHANGED <<context, stack>>
      BY <2>4 DEF prepare_first_time_execution, ReturnToUser
    <3> QED
      BY <1>2, <3>1 DEF KuInv, SuspendedInv
  <2>5. CASE TimerInterrupt
    <3>1. /\ hart = "user" /\ hart' = "scheduler" /\ stack' = stack
          /\ context' = [context EXCEPT ![current_process] = "timer"]
      BY <2>5 DEF TimerInterrupt, yield_cpu, SwitchToScheduler
    <3>2. current_process = stack /\ stack \in Pids
      BY <3>1, UserIsMe DEF me
    <3> QED
      BY <1>2, <3>1, <3>2 DEF KuInv, SuspendedInv, IInv, TypeOK
  <2> QED
    BY <2>1, <2>2, <2>3, <2>4, <2>5
<1> QED
  BY <1>1, <1>3 DEF KuInv

\* The steps of the kernel's println disturb no page of a program.
LEMMA KernelReportsInv == ASSUME IInv, KuInv, KernelReports PROVE KuInv'
<1>1. CASE KernelPrints \/ FirmwareReturns
  <2>1. /\ UNCHANGED <<vars, page, step, call, dying>>
        /\ kernel_page' \in {kernel_page, Syscall("Write", 0)}
        /\ printing' \in {"written", "returned"}
    BY <1>1 DEF KernelPrints, FirmwareReturns
  <2>2. KuTypeOK'
    BY <2>1 DEF KuInv, KuTypeOK
  <2>3. PageFollowsWrapper' /\ YieldingInv' /\ SuspendedInv'
    BY <2>1 DEF vars, KuInv, PageFollowsWrapper, YieldingInv, SuspendedInv
  <2> QED
    BY <2>2, <2>3 DEF KuInv
<1>2. CASE KernelGetResult
  BY <1>2, KuQuietInv DEF KernelGetResult
<1> QED
  BY <1>1, <1>2 DEF KernelReports

\* Every step is one of the process table, or leaves it alone.
LEMMA KuNextIsNext == [KuNext]_kuvars => [Next]_vars
<1> SUFFICES ASSUME [KuNext]_kuvars PROVE [Next]_vars
  OBVIOUS
<1>1. CASE UNCHANGED kuvars
  BY <1>1 DEF kuvars
<1>2. CASE (\E c \in Syscalls : write_syscall(c)) \/ panic \/ check \/ HandleSimple
  BY <1>2 DEF write_syscall, panic, check, HandleSimple
<1>3. CASE HandleSpawn \/ HandleYield \/ HandleExit \/ HandleShutdown
  BY <1>3 DEF HandleSpawn, HandleYield, HandleExit, HandleShutdown, Next
<1>4. CASE HandlePanics \/ KernelReports \/ KuResume
  BY <1>4 DEF HandlePanics, KernelReports, KernelPrints, FirmwareReturns,
              KernelGetResult, KuResume, Next
<1>5. CASE schedule \/ wfi \/ prepare_first_time_execution \/ TimerInterrupt \/ Halted
              \/ Exception
  BY <1>5 DEF Next
<1> QED
  BY <1>1, <1>2, <1>3, <1>4, <1>5 DEF KuNext

\* Every step keeps pages and wrappers in step.
LEMMA KuNextInv == IInv /\ KuInv /\ [KuNext]_kuvars => KuInv'
<1> SUFFICES ASSUME IInv, KuInv, [KuNext]_kuvars PROVE KuInv'
  OBVIOUS
<1>1. CASE UNCHANGED kuvars
  BY <1>1, KuQuietInv DEF kuvars
<1>2. CASE (\E c \in Syscalls : write_syscall(c)) \/ panic \/ check
  BY <1>2, ProgramInv
<1>3. CASE HandleSimple \/ HandleSpawn
  BY <1>3, HandleInv
<1>4. CASE HandleYield
  BY <1>4, HandleYieldInv
<1>5. CASE HandleExit
  BY <1>5, HandleExitInv
<1>6. CASE HandleShutdown \/ HandlePanics \/ (Exception /\ UNCHANGED kucom)
  BY <1>6, KuQuietInv DEF HandleShutdown, HandlePanics
<1>7. CASE KuResume
  BY <1>7, KuResumeInv
<1>8. CASE (schedule \/ prepare_first_time_execution \/ TimerInterrupt) /\ UNCHANGED kucom
  BY <1>8, KuQuietInv
<1>9. CASE (wfi \/ Halted) /\ UNCHANGED kucom
  BY <1>9, KuQuietInv DEF wfi, Halted
<1>10. CASE KernelReports
  BY <1>10, KernelReportsInv
<1> QED
  BY <1>1, <1>2, <1>3, <1>4, <1>5, <1>6, <1>7, <1>8, <1>9, <1>10 DEF KuNext

-----------------------------------------------------------------------------
(* The theorems *)

\* KuSpec only adds pages to Spec, step by step: everything proved of Spec holds of
\* KuSpec too.
LEMMA KuImplementsProcesses == KuSpec => Spec
<1>1. KuInit => Init
  BY DEF KuInit
<1> QED
  BY <1>1, KuNextIsNext, PTL DEF KuSpec, Spec

\* The inductive invariant holds in every reachable state.
THEOREM KuInvariant == KuSpec => [](IInv /\ KuInv)
<1>1. KuInit => IInv /\ KuInv
  BY InitInv, KuInitInv DEF KuInit
<1>2. (IInv /\ KuInv) /\ [KuNext]_kuvars => (IInv /\ KuInv)'
  BY NextInv, KuNextIsNext, KuNextInv
<1> QED BY <1>1, <1>2, PTL DEF KuSpec

\* The types of the pages and wrappers, and that a page only ever holds calls and
\* results of the process it belongs to (syscall::handle, write_syscall).
THEOREM KuTypeCorrectness == KuSpec => []KuTypeOK
<1>1. KuInv => KuTypeOK
  BY DEF KuInv
<1> QED BY <1>1, KuInvariant, PTL

\* A program's page is in step with its wrapper: the kernel never panics for want
\* of a Syscall (syscall::handle), a program never for a wrong result (get_result
\* and check of janglib).
THEOREM PagesAreInStep == KuSpec => []PageFollowsWrapper
<1>1. KuInv => PageFollowsWrapper
  BY DEF KuInv
<1> QED BY <1>1, KuInvariant, PTL
=============================================================================

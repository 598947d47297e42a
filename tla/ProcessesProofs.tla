-------------------------- MODULE ProcessesProofs --------------------------
(***************************************************************************)
(* Proofs about the process model, for every number of processes and of    *)
(* kernel stacks: type correctness, and the safety properties of Processes *)
(* from one inductive invariant.                                           *)
(***************************************************************************)
EXTENDS Processes, SequenceTheorems, WellFoundedInduction, TLAPS

-----------------------------------------------------------------------------
(* The inductive invariant *)

\* Exactly the pids given out have an entry that is in use.
TableInv == \A p \in Pids : process_state[p] = "NotUsed" <=> p > PID

\* Only a terminated process was left inside exit.
ContextInv == \A p \in Pids : context[p] = "exit" => process_state[p] = "Terminated"

\* The process on the hart is the current one.  It is Running when the scheduler
\* hands it the hart, and in user mode it may have made itself Waiting.
HartInv ==
    /\ hart # "unreachable"
    /\ hart \in {"kernel", "user", "exception"} =>
         /\ stack \in 1..PID
         /\ current_process = stack
    /\ hart = "kernel" => process_state[stack] = "Running"
    /\ hart = "user" => process_state[stack] \in {"Running", "Waiting"}

IInv ==
    /\ TypeOK
    /\ TableInv
    /\ ContextInv
    /\ HartInv
    /\ NoLostWakeup
    /\ ReturnsToItself
    /\ RunningHasHart
    /\ QueueComplete

-----------------------------------------------------------------------------
(* Lemmas *)

\* What find_ready_process makes of the queue has the same length and the same
\* pids in it.
LEMMA RotatedQueue ==
    ASSUME TypeOK, QueueComplete, NEW i \in 1..Len(pids)
    PROVE  /\ Rotated(i) \in Seq(Pids)
           /\ Len(Rotated(i)) = PID
           /\ \A p \in 1..PID : \E j \in 1..Len(Rotated(i)) : Rotated(i)[j] = p
<1> DEFINE a == SubSeq(pids, i + 1, Len(pids))
           b == SubSeq(pids, 1, i)
<1>1. pids \in Seq(Pids) /\ Len(pids) \in Nat /\ i \in Nat /\ i <= Len(pids) /\ i >= 1
  BY LenProperties DEF TypeOK
<1>2. \A k \in 1..Len(pids) : pids[k] \in Pids
  BY <1>1, ElementOfSeq
<1>3. /\ a \in Seq(Pids)
      /\ Len(a) = Len(pids) - i
      /\ \A k \in 1..(Len(pids) - i) : a[k] = pids[i + k]
  <2>1. /\ a \in Seq(Pids)
        /\ Len(a) = IF i + 1 <= Len(pids) THEN Len(pids) - (i + 1) + 1 ELSE 0
        /\ \A k \in 1..(Len(pids) - (i + 1) + 1) : a[k] = pids[(i + 1) + k - 1]
    <3>1. \A k \in (i + 1)..Len(pids) : pids[k] \in Pids
      BY <1>1, <1>2
    <3>2. i + 1 \in Int /\ Len(pids) \in Int
      BY <1>1
    <3> QED BY <3>1, <3>2, SubSeqProperties
  <2>2. \A k \in 1..(Len(pids) - i) : (i + 1) + k - 1 = i + k
    BY <1>1
  <2> QED BY <1>1, <2>1, <2>2
<1>4. /\ b \in Seq(Pids)
      /\ Len(b) = i
      /\ \A k \in 1..i : b[k] = pids[k]
  <2>1. /\ b \in Seq(Pids)
        /\ Len(b) = IF 1 <= i THEN i - 1 + 1 ELSE 0
        /\ \A k \in 1..(i - 1 + 1) : b[k] = pids[1 + k - 1]
    <3>1. \A k \in 1..i : pids[k] \in Pids
      BY <1>1, <1>2
    <3>2. 1 \in Int /\ i \in Int
      BY <1>1
    <3> QED BY <3>1, <3>2, SubSeqProperties
  <2> QED BY <1>1, <2>1
<1> HIDE DEF a, b
<1>5. /\ a \o b \in Seq(Pids)
      /\ Len(a \o b) = Len(a) + Len(b)
      /\ \A k \in 1..(Len(a) + Len(b)) :
           (a \o b)[k] = IF k <= Len(a) THEN a[k] ELSE b[k - Len(a)]
  BY <1>3, <1>4, ConcatProperties
<1>6. Len(a \o b) = PID
  BY <1>1, <1>3, <1>4, <1>5 DEF QueueComplete
<1>7. ASSUME NEW p \in 1..PID
      PROVE  \E j \in 1..Len(a \o b) : (a \o b)[j] = p
  <2>1. PICK k \in 1..Len(pids) : pids[k] = p
    BY DEF QueueComplete
  <2>2. CASE k <= i
    <3> DEFINE j == Len(a) + k
    <3>1. j \in 1..(Len(a) + Len(b)) /\ ~(j <= Len(a)) /\ j - Len(a) = k /\ k \in 1..i
      BY <1>1, <1>3, <1>4, <2>2
    <3>2. (a \o b)[j] = b[k] /\ b[k] = p
      BY <3>1, <1>4, <1>5, <2>1
    <3> QED BY <3>1, <3>2, <1>5
  <2>3. CASE k > i
    <3> DEFINE j == k - i
    <3>1. j \in 1..(Len(a) + Len(b)) /\ j <= Len(a) /\ j \in 1..(Len(pids) - i) /\ i + j = k
      BY <1>1, <1>3, <1>4, <2>3
    <3>2. (a \o b)[j] = a[j] /\ a[j] = p
      BY <3>1, <1>3, <1>5, <2>1
    <3> QED BY <3>1, <3>2, <1>5
  <2> QED BY <1>1, <2>2, <2>3
<1> QED BY <1>5, <1>6, <1>7 DEF Rotated, a, b

\* The queue after add_process: the new pid is the last.
LEMMA AppendedQueue ==
    ASSUME TypeOK, QueueComplete, PID < MaxPid
    PROVE  /\ Append(pids, PID + 1) \in Seq(Pids)
           /\ Len(Append(pids, PID + 1)) = PID + 1
           /\ \A p \in 1..(PID + 1) :
                \E j \in 1..Len(Append(pids, PID + 1)) : Append(pids, PID + 1)[j] = p
<1> DEFINE q == Append(pids, PID + 1)
<1>1. pids \in Seq(Pids) /\ Len(pids) = PID /\ PID \in Nat /\ PID + 1 \in Pids
  BY ProcessesAssumption DEF TypeOK, QueueComplete, Pids
<1>2. /\ q \in Seq(Pids)
      /\ Len(q) = PID + 1
      /\ \A i \in 1..PID : q[i] = pids[i]
      /\ q[PID + 1] = PID + 1
  BY <1>1, AppendProperties
<1> HIDE DEF q
<1>3. ASSUME NEW p \in 1..(PID + 1)
      PROVE  \E j \in 1..Len(q) : q[j] = p
  <2>1. CASE p = PID + 1
    BY <1>1, <1>2, <2>1
  <2>2. CASE p \in 1..PID
    <3>1. PICK i \in 1..Len(pids) : pids[i] = p
      BY <2>2 DEF QueueComplete
    <3> QED BY <1>1, <1>2, <3>1
  <2> QED BY <1>1, <2>1, <2>2
<1> QED BY <1>2, <1>3 DEF q

\* The state in which main enters schedule satisfies the invariant.
LEMMA InitInv == Init => IInv
<1> SUFFICES ASSUME Init PROVE IInv
  OBVIOUS
<1> USE ProcessesAssumption DEF Init, Pids
<1>1. TypeOK
  <2>1. <<1>> \in Seq(1..MaxPid)
    OBVIOUS
  <2> QED BY <2>1 DEF TypeOK, Contexts, Stops
<1>2. TableInv /\ ContextInv /\ HartInv
  BY DEF TableInv, ContextInv, HartInv
<1>3. NoLostWakeup /\ ReturnsToItself /\ RunningHasHart
  BY DEF NoLostWakeup, ReturnsToItself, RunningHasHart
<1>4. QueueComplete
  BY DEF QueueComplete
<1> QED BY <1>1, <1>2, <1>3, <1>4 DEF IInv

\* schedule hands the hart to a Ready process and preserves the invariant.
LEMMA ScheduleInv ==
    ASSUME IInv, schedule
    PROVE  IInv'
<1> USE DEF IInv
<1>1. PICK i \in 1..Len(pids) :
        /\ IsFirstReady(i)
        /\ pids' = Rotated(i)
        /\ process_state' = [process_state EXCEPT ![pids[i]] = "Running"]
        /\ current_process' = pids[i]
        /\ stack' = pids[i]
        /\ hart' = IF HasKernelStack(pids[i]) THEN "kernel" ELSE "fault"
  BY DEF schedule, set_current_process
<1> DEFINE p == pids[i]
<1>2. p \in Pids /\ Ready(p)
  BY <1>1, ElementOfSeq DEF TypeOK, IsFirstReady
<1>3. hart = "scheduler" /\ PID \in Pids /\ PID \in Nat
  BY DEF schedule, TypeOK, Pids
<1>4. UNCHANGED <<PID, parent, loaded, waiting_for, children, context, user>>
  BY DEF schedule, table
<1> HIDE DEF p
<1>5. TypeOK'
  BY <1>1, <1>2, <1>4, RotatedQueue DEF TypeOK, p, Stops
<1>6. p \in 1..PID
  BY <1>2, <1>3 DEF TableInv, Ready, Pids
<1>7. TableInv' /\ ContextInv'
  BY <1>1, <1>2, <1>4, <1>6 DEF TableInv, ContextInv, Ready, TypeOK, p
<1>8. HartInv' /\ ReturnsToItself'
  BY <1>1, <1>2, <1>4, <1>6 DEF HartInv, ReturnsToItself, TypeOK, p
<1>9. NoLostWakeup'
  BY <1>1, <1>2, <1>4 DEF NoLostWakeup, Alive, Ready, TypeOK, p
<1>10. RunningHasHart'
  BY <1>1, <1>2, <1>3 DEF RunningHasHart, OnCpu, Stopped, Stops, TypeOK, p
<1>11. QueueComplete'
  <2>1. /\ Len(Rotated(i)) = PID
        /\ \A q \in 1..PID : \E j \in 1..Len(Rotated(i)) : Rotated(i)[j] = q
    BY RotatedQueue
  <2>2. pids' = Rotated(i) /\ PID' = PID
    BY <1>1, <1>4
  <2> QED BY <2>1, <2>2 DEF QueueComplete
<1> QED BY <1>5, <1>7, <1>8, <1>9, <1>10, <1>11

\* The two ways back to user mode.
LEMMA ReturnInv ==
    ASSUME IInv, prepare_first_time_execution \/ Resume
    PROVE  IInv'
<1> USE DEF IInv
<1>1. /\ hart = "kernel"
      /\ UNCHANGED <<PID, parent, loaded, process_state, waiting_for, children, context,
                     pids, current_process, stack>>
  BY DEF prepare_first_time_execution, Resume, table
<1>2. stack \in 1..PID /\ stack \in Pids /\ current_process = stack
      /\ process_state[stack] = "Running"
  BY <1>1 DEF HartInv, TypeOK, Pids
<1>3. hart' = "user" /\ user' = [satp |-> stack, sepc |-> stack]
  <2>1. context[stack] # "exit"
    BY <1>2 DEF ContextInv
  <2> QED
    BY <1>2, <2>1 DEF prepare_first_time_execution, Resume, ReturnToUser
<1>4. TypeOK'
  BY <1>1, <1>2, <1>3 DEF TypeOK
<1>5. TableInv' /\ ContextInv' /\ HartInv' /\ ReturnsToItself'
  BY <1>1, <1>2, <1>3 DEF TableInv, ContextInv, HartInv, ReturnsToItself
<1>6. NoLostWakeup' /\ QueueComplete'
  BY <1>1 DEF NoLostWakeup, Alive, QueueComplete
<1>7. RunningHasHart'
  BY <1>1, <1>2, <1>3 DEF RunningHasHart, OnCpu, Stopped, Stops
<1> QED BY <1>4, <1>5, <1>6, <1>7

\* A process gives up the hart, whether preempted or by its own will.
LEMMA YieldInv ==
    ASSUME IInv, NEW c \in {"timer", "yield"}, yield_cpu(c)
    PROVE  IInv'
<1> USE DEF IInv
<1> DEFINE p == current_process
<1>1. /\ hart = "user"
      /\ process_state' = [process_state EXCEPT ![p] = Yielded(p)]
      /\ context' = [context EXCEPT ![p] = c]
      /\ hart' = "scheduler"
      /\ UNCHANGED <<PID, parent, loaded, waiting_for, children, pids,
                     current_process, stack, user>>
  BY DEF yield_cpu, SwitchToScheduler, table
<1>2. p \in 1..PID /\ p \in Pids /\ process_state[p] \in {"Running", "Waiting"}
      /\ stack = p
  BY <1>1 DEF HartInv, TypeOK, Pids
<1>3. Yielded(p) \in {"Ready", "Waiting"} /\ (Yielded(p) = "Waiting" <=> process_state[p] = "Waiting")
  BY <1>2 DEF Yielded
<1> HIDE DEF p
<1>4. TypeOK'
  BY <1>1, <1>2, <1>3 DEF TypeOK, Contexts
<1>5. TableInv' /\ ContextInv' /\ HartInv' /\ ReturnsToItself'
  BY <1>1, <1>2, <1>3 DEF TableInv, ContextInv, HartInv, ReturnsToItself, TypeOK
<1>6. NoLostWakeup'
  BY <1>1, <1>2, <1>3 DEF NoLostWakeup, Alive, TypeOK
<1>7. QueueComplete'
  BY <1>1 DEF QueueComplete
<1>8. RunningHasHart'
  BY <1>1, <1>2, <1>3 DEF RunningHasHart, OnCpu, Stopped, Stops, TypeOK
<1> QED BY <1>4, <1>5, <1>6, <1>7, <1>8

\* A successful spawn, with or without wait, preserves the invariant.
LEMMA SpawnInv ==
    ASSUME IInv, NEW wait \in BOOLEAN, spawn(wait)
    PROVE  IInv'
<1> USE DEF IInv
<1> DEFINE c == PID + 1
           p == current_process
<1>1. /\ hart = "user"
      /\ PID < MaxPid
      /\ PID' = c
      /\ pids' = Append(pids, c)
      /\ context' = [context EXCEPT ![c] = "first"]
      /\ loaded' = [loaded EXCEPT ![c] = TRUE]
      /\ parent' = [parent EXCEPT ![c] = p]
      /\ children' = [children EXCEPT ![p] = @ \cup {c}]
      /\ process_state' = [process_state EXCEPT ![c] = "Ready",
                                                ![p] = IF wait THEN "Waiting" ELSE @]
      /\ waiting_for' = [waiting_for EXCEPT ![p] = IF wait THEN c ELSE @]
      /\ UNCHANGED <<current_process, stack, user, hart>>
  BY DEF spawn, NewEntry
<1>2. p \in 1..PID /\ p \in Pids /\ process_state[p] \in {"Running", "Waiting"} /\ stack = p
  BY <1>1 DEF HartInv, TypeOK, Pids
<1>3. PID \in Nat /\ PID >= 1 /\ c \in Pids /\ c # p /\ c > PID /\ MaxPid \in Nat
  BY <1>1, <1>2, ProcessesAssumption DEF TypeOK, Pids
<1>4. /\ process_state'[c] = "Ready"
      /\ \A r \in Pids \ {c, p} : process_state'[r] = process_state[r]
      /\ \/ process_state'[p] = "Waiting" /\ waiting_for'[p] = c
         \/ process_state'[p] = process_state[p] /\ waiting_for'[p] = waiting_for[p]
      /\ \A r \in Pids \ {p} : waiting_for'[r] = waiting_for[r]
      /\ parent'[c] = p
      /\ \A r \in Pids \ {c} : parent'[r] = parent[r]
  <2>1. CASE wait = TRUE
    BY <1>1, <1>2, <1>3, <2>1 DEF TypeOK
  <2>2. CASE wait = FALSE
    BY <1>1, <1>2, <1>3, <2>2 DEF TypeOK
  <2> QED BY <2>1, <2>2
<1> HIDE DEF p
<1>a. /\ hart = "user" /\ PID' = PID + 1 /\ PID < PID'
      /\ 1..PID \subseteq 1..PID'
      /\ UNCHANGED <<current_process, stack, user, hart>>
  BY <1>1, <1>3
<1>5. TypeOK'
  BY <1>1, <1>2, <1>3, AppendedQueue DEF TypeOK, Contexts
<1>6. TableInv'
  <2> SUFFICES ASSUME NEW r \in Pids
               PROVE  process_state'[r] = "NotUsed" <=> r > PID'
    BY DEF TableInv
  <2>1. CASE r = c
    BY <1>3, <1>4, <1>a, <2>1
  <2>2. CASE r # c
    <3>1. process_state'[r] = "NotUsed" <=> process_state[r] = "NotUsed"
      BY <1>2, <1>4, <2>2
    <3>2. r > PID' <=> r > PID
      BY <1>3, <1>a, <2>2 DEF Pids
    <3> QED BY <3>1, <3>2 DEF TableInv
  <2> QED BY <2>1, <2>2
<1>7. ContextInv'
  BY <1>1, <1>2, <1>3, <1>4 DEF ContextInv, TypeOK, TableInv
<1>8. HartInv' /\ ReturnsToItself'
  <2>1. process_state'[stack] \in {"Running", "Waiting"}
    BY <1>2, <1>4
  <2> QED BY <1>2, <1>a, <2>1 DEF HartInv, ReturnsToItself
<1>9. NoLostWakeup'
  <2> SUFFICES ASSUME NEW r \in Pids, process_state'[r] = "Waiting"
               PROVE  LET w == waiting_for'[r] IN
                      /\ w \in Pids
                      /\ w <= PID' /\ process_state'[w] # "Terminated"
                      /\ parent'[w] = r
                      /\ r < w
    BY DEF NoLostWakeup, Alive
  <2>1. r # c
    BY <1>4
  <2>2. CASE r = p /\ waiting_for'[p] = c
    <3>1. c <= PID' /\ p < c
      BY <1>2, <1>3, <1>a
    <3> QED BY <1>3, <1>4, <2>2, <3>1
  <2>3. CASE ~(r = p /\ waiting_for'[p] = c)
    <3>1. process_state[r] = "Waiting" /\ waiting_for'[r] = waiting_for[r]
      BY <1>2, <1>4, <2>1, <2>3
    <3> DEFINE w == waiting_for[r]
    <3>2. w \in Pids /\ w <= PID /\ process_state[w] # "Terminated" /\ parent[w] = r /\ r < w
      BY <3>1 DEF NoLostWakeup, Alive
    <3>3. w # c /\ w <= PID'
      BY <1>1, <1>3, <3>2 DEF Pids
    <3> QED BY <1>2, <1>4, <3>1, <3>2, <3>3
  <2> QED BY <2>2, <2>3
<1>10. RunningHasHart'
  BY <1>1, <1>2, <1>3, <1>4 DEF RunningHasHart, OnCpu, Stopped, Stops
<1>11. QueueComplete'
  BY <1>1, AppendedQueue DEF QueueComplete
<1> QED BY <1>5, <1>6, <1>7, <1>8, <1>9, <1>10, <1>11

\* A failed spawn, which leaves a Ready process behind, preserves the invariant.
LEMMA SpawnFailsInv ==
    ASSUME IInv, SpawnFails
    PROVE  IInv'
<1> USE DEF IInv
<1> DEFINE c == PID + 1
<1>1. /\ hart = "user"
      /\ PID < MaxPid
      /\ PID' = c
      /\ pids' = Append(pids, c)
      /\ context' = [context EXCEPT ![c] = "first"]
      /\ loaded' = [loaded EXCEPT ![c] = FALSE]
      /\ process_state' = [process_state EXCEPT ![c] = "Ready"]
      /\ UNCHANGED <<parent, children, waiting_for, current_process, stack, user, hart>>
  BY DEF SpawnFails, NewEntry
<1>2. PID \in Nat /\ PID >= 1 /\ c \in Pids /\ c > PID /\ stack \in 1..PID /\ stack # c
      /\ stack \in Pids
  BY <1>1, ProcessesAssumption DEF TypeOK, Pids, HartInv
<1>3. TypeOK'
  BY <1>1, <1>2, AppendedQueue DEF TypeOK, Contexts
<1>4. TableInv'
  <2> SUFFICES ASSUME NEW r \in Pids
               PROVE  process_state'[r] = "NotUsed" <=> r > PID'
    BY DEF TableInv
  <2> QED BY <1>1, <1>2 DEF TableInv, Pids, TypeOK
<1>5. ContextInv' /\ HartInv' /\ ReturnsToItself'
  BY <1>1, <1>2 DEF ContextInv, HartInv, ReturnsToItself, TypeOK, TableInv
<1>6. NoLostWakeup'
  <2> SUFFICES ASSUME NEW r \in Pids, process_state'[r] = "Waiting"
               PROVE  LET w == waiting_for[r] IN
                      /\ w \in Pids
                      /\ w <= PID' /\ process_state'[w] # "Terminated"
                      /\ parent[w] = r
                      /\ r < w
    BY <1>1 DEF NoLostWakeup, Alive
  <2> DEFINE w == waiting_for[r]
  <2>1. process_state[r] = "Waiting"
    BY <1>1, <1>2 DEF TypeOK
  <2>2. w \in Pids /\ w <= PID /\ process_state[w] # "Terminated" /\ parent[w] = r /\ r < w
    BY <2>1 DEF NoLostWakeup, Alive
  <2>3. w # c /\ w <= PID'
    BY <1>1, <1>2, <2>2 DEF Pids
  <2> QED BY <1>1, <1>2, <2>2, <2>3 DEF TypeOK
<1>7. RunningHasHart'
  BY <1>1, <1>2 DEF RunningHasHart, OnCpu, Stopped, Stops, TypeOK
<1>8. QueueComplete'
  BY <1>1, AppendedQueue DEF QueueComplete
<1> QED BY <1>3, <1>4, <1>5, <1>6, <1>7, <1>8

\* Whoever waits for the process that exits is its parent, and is woken.
LEMMA ExitInv ==
    ASSUME IInv, exit
    PROVE  IInv'
<1> USE DEF IInv
<1> DEFINE p == current_process
           q == parent[p]
           woken == q # 0 /\ Awaits(q, p)
<1>1. /\ hart = "user"
      /\ process_state' = [r \in Pids |-> IF r = p THEN "Terminated"
                                          ELSE IF r = q /\ woken THEN "Ready"
                                          ELSE process_state[r]]
      /\ waiting_for' = [r \in Pids |-> IF r = p \/ (r = q /\ woken) THEN 0
                                        ELSE waiting_for[r]]
      /\ children' = [r \in Pids |-> IF r = p THEN {}
                                     ELSE IF r = q THEN children[q] \cup children[p]
                                     ELSE children[r]]
      /\ context' = [context EXCEPT ![p] = "exit"]
      /\ hart' = "scheduler"
      /\ UNCHANGED <<PID, parent, loaded, pids, current_process, stack, user>>
  BY DEF exit, SwitchToScheduler, table
<1>2. p \in 1..PID /\ p \in Pids /\ process_state[p] \in {"Running", "Waiting"} /\ stack = p
  BY <1>1 DEF HartInv, TypeOK, Pids
<1>3. PID \in Nat /\ q \in Pids \cup {0}
  BY <1>2 DEF TypeOK, Pids
<1>4. woken => q \in Pids /\ process_state[q] = "Waiting"
  BY <1>3 DEF Awaits
<1> HIDE DEF p, q, woken
<1>5. TypeOK'
  BY <1>1, <1>2, <1>3 DEF TypeOK, Contexts
<1>6. TableInv'
  BY <1>1, <1>2, <1>4 DEF TableInv, Pids
<1>7. ContextInv'
  BY <1>1, <1>2, <1>4 DEF ContextInv, TypeOK
<1>8. HartInv' /\ ReturnsToItself'
  BY <1>1 DEF HartInv, ReturnsToItself
<1>9. NoLostWakeup'
  <2> SUFFICES ASSUME NEW r \in Pids, process_state'[r] = "Waiting"
               PROVE  LET w == waiting_for'[r] IN
                      /\ w \in Pids
                      /\ w <= PID /\ process_state'[w] # "Terminated"
                      /\ parent[w] = r
                      /\ r < w
    BY <1>1 DEF NoLostWakeup, Alive
  <2>1. r # p /\ ~(r = q /\ woken) /\ process_state[r] = "Waiting"
        /\ waiting_for'[r] = waiting_for[r]
    BY <1>1
  <2> DEFINE w == waiting_for[r]
  <2>2. w \in Pids /\ w <= PID /\ process_state[w] # "Terminated" /\ parent[w] = r /\ r < w
    BY <2>1 DEF NoLostWakeup, Alive
  <2>3. w # p
    <3>1. r # 0
      BY DEF Pids
    <3> QED BY <2>1, <2>2, <3>1 DEF woken, q, Awaits
  <2> QED BY <1>1, <2>1, <2>2, <2>3
<1>10. RunningHasHart'
  BY <1>1, <1>2, <1>4 DEF RunningHasHart, OnCpu, Stopped, Stops
<1>11. QueueComplete'
  BY <1>1 DEF QueueComplete
<1> QED BY <1>5, <1>6, <1>7, <1>8, <1>9, <1>10, <1>11

\* The steps that leave the process table alone: the ends of the kernel, the
\* idle loop and stuttering.
LEMMA QuietInv ==
    ASSUME IInv, Exception \/ ExceptionPanics \/ SyscallPanics \/ Shutdown \/ UNCHANGED vars
    PROVE  IInv'
<1> USE DEF IInv
<1>1. /\ UNCHANGED <<PID, parent, loaded, process_state, waiting_for, children, context,
                     pids, current_process, stack, user>>
      /\ \/ hart' = hart \/ hart' \in {"panic", "off"}
         \/ hart = "user" /\ hart' = "exception"
  BY DEF Exception, ExceptionPanics, SyscallPanics, Shutdown, vars, table
<1>2. TypeOK' /\ TableInv' /\ ContextInv' /\ HartInv' /\ ReturnsToItself'
  BY <1>1 DEF TypeOK, TableInv, ContextInv, HartInv, ReturnsToItself, Stops
<1>3. NoLostWakeup' /\ QueueComplete'
  BY <1>1 DEF NoLostWakeup, Alive, QueueComplete
<1>4. RunningHasHart'
  BY <1>1 DEF RunningHasHart, OnCpu, Stopped, Stops
<1> QED BY <1>2, <1>3, <1>4

\* Every step of the kernel preserves the invariant.
LEMMA NextInv == IInv /\ [Next]_vars => IInv'
<1> SUFFICES ASSUME IInv, [Next]_vars PROVE IInv'
  OBVIOUS
<1>1. CASE schedule
  BY <1>1, ScheduleInv
<1>2. CASE prepare_first_time_execution \/ Resume
  BY <1>2, ReturnInv
<1>3. CASE TimerInterrupt \/ SyscallYield
  BY <1>3, YieldInv DEF TimerInterrupt, SyscallYield
<1>4. CASE \E wait \in BOOLEAN : spawn(wait)
  BY <1>4, SpawnInv
<1>5. CASE SpawnFails
  BY <1>5, SpawnFailsInv
<1>6. CASE exit
  BY <1>6, ExitInv
<1>7. CASE Exception \/ ExceptionPanics \/ SyscallPanics \/ Shutdown \/ UNCHANGED vars
  BY <1>7, QuietInv
<1>8. CASE wfi \/ Halted
  BY <1>8, QuietInv DEF wfi, Halted
<1> QED
  BY <1>1, <1>2, <1>3, <1>4, <1>5, <1>6, <1>7, <1>8 DEF Next

-----------------------------------------------------------------------------
(* The theorems *)

\* The inductive invariant holds in every reachable state.
THEOREM Invariant == Spec => []IInv
<1>1. Init => IInv
  BY InitInv
<1>2. IInv /\ [Next]_vars => IInv'
  BY NextInv
<1> QED BY <1>1, <1>2, PTL DEF Spec

\* The types of the process table, the run queue and the hart.
THEOREM TypeCorrectness == Spec => []TypeOK
<1>1. IInv => TypeOK
  BY DEF IInv
<1> QED BY <1>1, Invariant, PTL

\* A process that called exit is never resumed (syscall.rs, exit).
THEOREM ExitIsFinal == Spec => []ExitNeverResumes
<1>1. IInv => ExitNeverResumes
  BY DEF IInv, HartInv, ExitNeverResumes
<1> QED BY <1>1, Invariant, PTL

\* Whoever is Waiting waits for a live child of its own (spawn and exit).
THEOREM WakeupsAreNotLost == Spec => []NoLostWakeup
<1>1. IInv => NoLostWakeup
  BY DEF IInv
<1> QED BY <1>1, Invariant, PTL

\* Every return to user mode is to the process that trapped (user_trap).
THEOREM ReturnsAreConsistent == Spec => []ReturnsToItself
<1>1. IInv => ReturnsToItself
  BY DEF IInv
<1> QED BY <1>1, Invariant, PTL

\* Running means to have the hart (yield_cpu, schedule, exit).
THEOREM RunningMeansHart == Spec => []RunningHasHart
<1>1. IInv => RunningHasHart
  BY DEF IInv
<1> QED BY <1>1, Invariant, PTL

\* The queue loses nobody (find_ready_process, add_process).
THEOREM QueueIsSound == Spec => []QueueComplete
<1>1. IInv => QueueComplete
  BY DEF IInv
<1> QED BY <1>1, Invariant, PTL

\* A set of waiting processes has a youngest member.
LEMMA YoungestWaiting ==
    ASSUME NEW T \in SUBSET Pids, T # {}
    PROVE  \E p \in T : \A r \in T : r <= p
<1> DEFINE D == {MaxPid - p : p \in T}
<1>1. MaxPid \in Nat /\ \A p \in T : p \in Nat /\ MaxPid - p \in Nat
  BY ProcessesAssumption DEF Pids
<1>2. D \subseteq Nat /\ D # {}
  BY <1>1
<1>3. PICK x \in D : \A y \in D : ~(<<y, x>> \in OpToRel(<, Nat))
  BY <1>2, NatLessThanWellFounded, WFMin
<1>4. \A y \in D : ~(y < x)
  BY <1>2, <1>3 DEF OpToRel
<1>5. PICK p \in T : x = MaxPid - p
  OBVIOUS
<1>6. \A r \in T : r <= p
  <2> TAKE r \in T
  <2>1. ~(MaxPid - r < MaxPid - p)
    BY <1>4, <1>5
  <2> QED BY <1>1, <2>1
<1> QED BY <1>6

\* Not everybody waits for everybody: the youngest of the waiting processes
\* waits for one that is Ready or on the hart.
THEOREM NoDeadlock == Spec => []SomeoneCanRun
<1>1. IInv => SomeoneCanRun
  <2> SUFFICES ASSUME IInv, ~Stopped, NEW p0 \in Pids, process_state[p0] = "Waiting"
               PROVE  \E r \in Pids : Ready(r) \/ OnCpu(r)
    BY DEF SomeoneCanRun
  <2> DEFINE T == {p \in Pids : process_state[p] = "Waiting"}
  <2>1. PICK p \in T : \A r \in T : r <= p
    <3>1. T \in SUBSET Pids /\ T # {}
      OBVIOUS
    <3> HIDE DEF T
    <3> QED BY <3>1, YoungestWaiting
  <2> DEFINE w == waiting_for[p]
  <2>2. w \in Pids /\ w <= PID /\ process_state[w] # "Terminated" /\ p < w
    BY <2>1 DEF IInv, NoLostWakeup, Alive
  <2>3. process_state[w] # "Waiting"
    BY <2>1, <2>2 DEF Pids
  <2>4. process_state[w] # "NotUsed"
    BY <2>2 DEF IInv, TableInv, TypeOK, Pids
  <2>5. process_state[w] \in {"Ready", "Running"}
    BY <2>2, <2>3, <2>4 DEF IInv, TypeOK
  <2> QED BY <2>2, <2>5 DEF IInv, RunningHasHart, Ready
<1> QED BY <1>1, Invariant, PTL

\* A wait ends with the awaited child, or by the waiter's own next system call
\* while it still has the hart (spawn, exit and yield_cpu).
THEOREM WaitsEndProperly == Spec => WaitsForItsChild
<1> DEFINE Kept ==
      \A p \in Pids :
        (process_state[p] = "Waiting"
           /\ <<process_state[p], waiting_for[p]>>' # <<process_state[p], waiting_for[p]>>)
        => \/ process_state[waiting_for[p]] # "Terminated"
              /\ process_state'[waiting_for[p]] = "Terminated"
           \/ hart = "user" /\ current_process = p
<1>1. IInv /\ [Next]_vars => [Kept]_vars
  <2> SUFFICES ASSUME IInv, Next, NEW p \in Pids, process_state[p] = "Waiting",
                      ~(hart = "user" /\ current_process = p),
                      <<process_state'[p], waiting_for'[p]>> # <<process_state[p], waiting_for[p]>>
               PROVE  /\ process_state[waiting_for[p]] # "Terminated"
                      /\ process_state'[waiting_for[p]] = "Terminated"
    OBVIOUS
  <2> USE DEF IInv
  <2>0. process_state \in [Pids -> {"NotUsed", "Ready", "Running", "Waiting", "Terminated"}]
        /\ waiting_for \in [Pids -> Pids \cup {0}] /\ PID \in Nat
    BY DEF TypeOK, Pids
  <2>1. CASE schedule
    BY <2>0, <2>1 DEF schedule, IsFirstReady, Ready
  <2>2. CASE TimerInterrupt \/ SyscallYield
    BY <2>0, <2>2 DEF TimerInterrupt, SyscallYield, yield_cpu
  <2>3. CASE (\E wait \in BOOLEAN : spawn(wait)) \/ SpawnFails
    <3>1. p # PID + 1
      BY <2>0 DEF TableInv
    <3> QED BY <2>0, <2>3, <3>1 DEF spawn, SpawnFails
  <2>4. CASE exit
    <3> DEFINE c == current_process
    <3>1. p # c /\ c \in Pids
      BY <2>4 DEF exit, HartInv, TypeOK, Pids
    <3>2. p = parent[c] /\ Awaits(p, c)
      BY <2>0, <2>4, <3>1 DEF exit
    <3>3. process_state[c] # "Terminated" /\ process_state'[c] = "Terminated"
      BY <2>0, <2>4, <3>1 DEF exit, HartInv
    <3> QED BY <3>2, <3>3 DEF Awaits
  <2>5. CASE \/ prepare_first_time_execution \/ Resume \/ wfi \/ Halted
             \/ Exception \/ ExceptionPanics \/ SyscallPanics \/ Shutdown
    BY <2>5 DEF prepare_first_time_execution, Resume, wfi, Halted, Exception,
                ExceptionPanics, SyscallPanics, Shutdown, vars
  <2> QED BY <2>1, <2>2, <2>3, <2>4, <2>5 DEF Next
<1> QED BY <1>1, Invariant, PTL DEF Spec, WaitsForItsChild

-----------------------------------------------------------------------------
(* The process table implements the abstract scheduler *)

\* The state functions of the refinement mapping are well typed.
LEMMA MappingTypes ==
    ASSUME IInv
    PROVE  /\ Living \subseteq Pids /\ Runnable \subseteq Living /\ Ended \subseteq Pids
           /\ Living \cap Ended = {}
           /\ \A p \in Pids : p \in Living \cup Ended <=> p <= PID
           /\ Awaited \in [Pids -> Pids \cup {0}]
           /\ \A p \in Pids : Awaited[p] # 0 <=> process_state[p] = "Waiting"
<1>1. process_state \in [Pids -> {"NotUsed", "Ready", "Running", "Waiting", "Terminated"}]
      /\ waiting_for \in [Pids -> Pids \cup {0}] /\ PID \in Nat /\ Pids \subseteq Nat
  BY DEF IInv, TypeOK, Pids
<1>2. \A p \in Pids : process_state[p] = "NotUsed" <=> p > PID
  BY DEF IInv, TableInv
<1>3. Living \subseteq Pids /\ Runnable \subseteq Living /\ Ended \subseteq Pids
      /\ Living \cap Ended = {}
  <2>1. \A p \in Pids : process_state[p] = "Ready" => p <= PID
    BY <1>1, <1>2
  <2> QED BY <2>1 DEF Living, Runnable, Ended, Alive, Ready
<1>4. \A p \in Pids : p \in Living \cup Ended <=> p <= PID
  BY <1>1, <1>2 DEF Living, Ended, Alive
<1>5. Awaited \in [Pids -> Pids \cup {0}]
  BY <1>1 DEF Awaited
<1>6. \A p \in Pids : Awaited[p] # 0 <=> process_state[p] = "Waiting"
  BY <1>1 DEF Awaited, IInv, NoLostWakeup, Pids
<1> QED BY <1>3, <1>4, <1>5, <1>6

\* schedule gives the hart to a process that is ready, or stops the machine when
\* there is no stack for it.
LEMMA ScheduleRefines == ASSUME IInv, schedule PROVE Abstract!Next
<1>1. PICK i \in 1..Len(pids) :
        /\ Ready(pids[i])
        /\ process_state' = [process_state EXCEPT ![pids[i]] = "Running"]
        /\ stack' = pids[i]
        /\ hart' = IF HasKernelStack(pids[i]) THEN "kernel" ELSE "fault"
  BY DEF schedule, IsFirstReady
<1> DEFINE p == pids[i]
<1>2. p \in Pids /\ process_state \in [Pids -> {"NotUsed", "Ready", "Running", "Waiting", "Terminated"}]
  BY ElementOfSeq DEF IInv, TypeOK
<1>3. hart = "scheduler" /\ UNCHANGED <<PID, waiting_for>>
  BY DEF schedule, table
<1> HIDE DEF p
<1>4. p \in Runnable /\ Runnable' = Runnable \ {p} /\ Living' = Living /\ Ended' = Ended
  BY <1>1, <1>2, <1>3 DEF Runnable, Living, Ended, Alive, Ready, p
<1>5. Awaited' = Awaited
  BY <1>1, <1>2, <1>3 DEF Awaited, Ready, p
<1>6. OnHart = 0 /\ ~Stopped
  BY <1>3 DEF OnHart, Stopped, Stops
<1>7. CASE HasKernelStack(p)
  <2>1. OnHart' = p /\ Stopped' = Stopped
    BY <1>1, <1>6, <1>7 DEF OnHart, Stopped, Stops, p
  <2>2. Abstract!Dispatch(p)
    BY <1>4, <1>5, <1>6, <2>1 DEF Abstract!Dispatch
  <2> QED BY <1>2, <2>2 DEF Abstract!Next
<1>8. CASE ~HasKernelStack(p)
  <2>1. OnHart' = 0 /\ Stopped' = TRUE
    BY <1>1, <1>8 DEF OnHart, Stopped, Stops, p
  <2>2. Abstract!Stop
    BY <1>4, <1>5, <1>6, <2>1 DEF Abstract!Stop
  <2> QED BY <2>2 DEF Abstract!Next
<1> QED BY <1>7, <1>8

\* yield_cpu gives the hart up, and the process wants it back unless it awaits a
\* child.
LEMMA YieldRefines == ASSUME IInv, NEW c \in Contexts, yield_cpu(c) PROVE Abstract!Next
<1> DEFINE p == current_process
<1>1. /\ hart = "user" /\ hart' = "scheduler" /\ UNCHANGED <<PID, waiting_for>>
      /\ process_state' = [process_state EXCEPT ![p] = Yielded(p)]
  BY DEF yield_cpu, SwitchToScheduler, table
<1>2. /\ p \in Pids /\ p = stack /\ process_state[p] \in {"Running", "Waiting"}
      /\ process_state \in [Pids -> {"NotUsed", "Ready", "Running", "Waiting", "Terminated"}]
  BY <1>1 DEF IInv, HartInv, TypeOK, Pids
<1> HIDE DEF p
<1>3. OnHart = p /\ OnHart' = 0 /\ ~Stopped /\ Stopped' = Stopped
  BY <1>1, <1>2 DEF OnHart, Stopped, Stops
<1>4. Living' = Living /\ Ended' = Ended /\ Awaited' = Awaited
  BY <1>1, <1>2 DEF Living, Ended, Awaited, Alive, Yielded
<1>5. Runnable' = IF Awaited[p] = 0 THEN Runnable \cup {p} ELSE Runnable
  <2>1. Awaited[p] = 0 <=> process_state[p] = "Running"
    BY <1>2, MappingTypes
  <2> QED BY <1>1, <1>2, <2>1 DEF Runnable, Ready, Yielded
<1>6. Abstract!GiveUp(p)
  BY <1>3, <1>4, <1>5 DEF Abstract!GiveUp
<1> QED BY <1>2, <1>6 DEF Abstract!Next

\* spawn, also one that fails, creates the next process.
LEMMA SpawnRefines ==
    ASSUME IInv, (\E wait \in BOOLEAN : spawn(wait)) \/ SpawnFails PROVE Abstract!Next
<1> DEFINE p == current_process
           c == PID + 1
<1>1. PICK wait \in BOOLEAN :
        /\ process_state' = [process_state EXCEPT ![c] = "Ready",
                                                  ![p] = IF wait THEN "Waiting" ELSE @]
        /\ waiting_for' = [waiting_for EXCEPT ![p] = IF wait THEN c ELSE @]
  <2>0. /\ p \in Pids /\ p # c
        /\ process_state \in [Pids -> {"NotUsed", "Ready", "Running", "Waiting", "Terminated"}]
        /\ waiting_for \in [Pids -> Pids \cup {0}]
    <3>1. hart = "user"
      BY DEF spawn, SpawnFails
    <3> QED BY <3>1 DEF IInv, HartInv, TypeOK, Pids
  <2>1. CASE \E wait \in BOOLEAN : spawn(wait)
    BY <2>1 DEF spawn
  <2>2. CASE SpawnFails
    <3>1. process_state' = [process_state EXCEPT ![c] = "Ready"] /\ waiting_for' = waiting_for
      BY <2>2 DEF SpawnFails
    <3>2. process_state' = [process_state EXCEPT ![c] = "Ready", ![p] = IF FALSE THEN "Waiting" ELSE @]
          /\ waiting_for' = [waiting_for EXCEPT ![p] = IF FALSE THEN c ELSE @]
      BY <2>0, <3>1
    <3> QED BY <3>2
  <2> QED BY <2>1, <2>2
<1>2. /\ hart = "user" /\ UNCHANGED <<hart, stack>> /\ PID' = c /\ PID < MaxPid
  BY DEF spawn, SpawnFails, NewEntry
<1>3. /\ p \in Pids /\ p = stack /\ p <= PID /\ c \in Pids /\ p # c /\ PID \in Nat
      /\ process_state[p] \in {"Running", "Waiting"} /\ process_state[c] = "NotUsed"
      /\ process_state \in [Pids -> {"NotUsed", "Ready", "Running", "Waiting", "Terminated"}]
      /\ waiting_for \in [Pids -> Pids \cup {0}]
  BY <1>2, ProcessesAssumption DEF IInv, HartInv, TableInv, TypeOK, Pids
<1> HIDE DEF p, c
<1>4. OnHart = p /\ OnHart' = OnHart /\ ~Stopped /\ Stopped' = Stopped
  BY <1>2, <1>3 DEF OnHart, Stopped, Stops
<1>5. c \notin Living \cup Ended
  BY <1>3, MappingTypes DEF c
<1>6. Living' = Living \cup {c} /\ Ended' = Ended
  <2>1. \A r \in Pids : r <= c <=> r <= PID \/ r = c
    BY <1>3 DEF c, Pids
  <2> QED BY <1>1, <1>2, <1>3, <2>1 DEF Living, Ended, Alive
<1>7. Runnable' = Runnable \cup {c}
  BY <1>1, <1>3 DEF Runnable, Ready
<1>8. Awaited' = IF wait THEN [Awaited EXCEPT ![p] = c] ELSE Awaited
  <2>1. CASE wait
    BY <1>1, <1>3, <2>1 DEF Awaited
  <2>2. CASE ~wait
    BY <1>1, <1>3, <2>2 DEF Awaited
  <2> QED BY <2>1, <2>2
<1>9. Abstract!Create(p, c, wait)
  BY <1>4, <1>5, <1>6, <1>7, <1>8 DEF Abstract!Create
<1> QED BY <1>3, <1>9 DEF Abstract!Next

\* exit ends the process and wakes all who await it: they are one at most, its
\* parent.
LEMMA ExitRefines == ASSUME IInv, exit PROVE Abstract!Next
<1> DEFINE p == current_process
           q == parent[p]
           woken == q # 0 /\ Awaits(q, p)
<1>1. /\ hart = "user" /\ hart' = "scheduler" /\ UNCHANGED PID
      /\ process_state' = [r \in Pids |-> IF r = p THEN "Terminated"
                                          ELSE IF r = q /\ woken THEN "Ready"
                                          ELSE process_state[r]]
      /\ waiting_for' = [r \in Pids |-> IF r = p \/ (r = q /\ woken) THEN 0
                                        ELSE waiting_for[r]]
  BY DEF exit, SwitchToScheduler, table
<1>2. /\ p \in Pids /\ p = stack /\ p <= PID
      /\ process_state[p] \in {"Running", "Waiting"}
      /\ process_state \in [Pids -> {"NotUsed", "Ready", "Running", "Waiting", "Terminated"}]
      /\ waiting_for \in [Pids -> Pids \cup {0}]
  BY <1>1 DEF IInv, HartInv, TypeOK, Pids
<1>3. \A r \in Pids : Awaited[r] = p => r = q /\ woken /\ r # p
  <2> SUFFICES ASSUME NEW r \in Pids, Awaited[r] = p PROVE r = q /\ woken /\ r # p
    OBVIOUS
  <2>1. p # 0 /\ r # 0
    BY <1>2 DEF Pids
  <2>2. process_state[r] = "Waiting" /\ waiting_for[r] = p
    BY <2>1 DEF Awaited
  <2>3. parent[p] = r /\ r < p
    BY <2>2 DEF IInv, NoLostWakeup
  <2> QED BY <2>1, <2>2, <2>3, <1>2 DEF Awaits, Pids
<1>4. \A r \in Pids : r = q /\ woken => Awaited[r] = p /\ r # p /\ process_state[r] = "Waiting"
  <2> SUFFICES ASSUME NEW r \in Pids, r = q, woken
               PROVE  Awaited[r] = p /\ r # p /\ process_state[r] = "Waiting"
    OBVIOUS
  <2>1. process_state[r] = "Waiting" /\ waiting_for[r] = p
    BY DEF Awaits
  <2>2. r < p
    BY <2>1 DEF IInv, NoLostWakeup
  <2> QED BY <2>1, <2>2, <1>2 DEF Awaited, Pids
<1> HIDE DEF p, q, woken
<1>5. OnHart = p /\ OnHart' = 0 /\ ~Stopped /\ Stopped' = Stopped
  BY <1>1, <1>2 DEF OnHart, Stopped, Stops
<1>6. Living' = Living \ {p} /\ Ended' = Ended \cup {p}
  BY <1>1, <1>2, <1>4 DEF Living, Ended, Alive
<1>7. Runnable' = Runnable \cup {r \in Living : Awaited[r] = p}
  <2>1. \A r \in Pids : process_state[r] = "Waiting" => r \in Living
    BY <1>2 DEF Living, Alive, IInv, TableInv, TypeOK, Pids
  <2>2. \A r \in Pids : Ready(r)' <=> Ready(r) \/ Awaited[r] = p
    BY <1>1, <1>2, <1>3, <1>4 DEF Ready
  <2>3. Living \subseteq Pids /\ \A r \in Pids : Awaited[r] = p => r \in Living
    BY <1>3, <1>4, <2>1 DEF Living
  <2> QED BY <2>2, <2>3 DEF Runnable
<1>8. Awaited' = [r \in Pids |-> IF r = p \/ Awaited[r] = p THEN 0 ELSE Awaited[r]]
  BY <1>1, <1>2, <1>3, <1>4 DEF Awaited
<1>9. Abstract!End(p)
  BY <1>5, <1>6, <1>7, <1>8 DEF Abstract!End
<1> QED BY <1>2, <1>9 DEF Abstract!Next

\* What stops the machine, and what the abstract scheduler does not see: the way
\* back to user mode and the idle loop.
LEMMA OthersRefine ==
    ASSUME IInv,
           \/ prepare_first_time_execution \/ Resume
           \/ Exception \/ ExceptionPanics \/ SyscallPanics \/ Shutdown \/ UNCHANGED vars
    PROVE  [Abstract!Next]_(Abstract!vars)
<1>1. UNCHANGED <<PID, process_state, waiting_for, stack>>
  BY DEF prepare_first_time_execution, Resume, Exception, ExceptionPanics, SyscallPanics,
         Shutdown, vars, table
<1>2. Living' = Living /\ Ended' = Ended /\ Runnable' = Runnable /\ Awaited' = Awaited
  BY <1>1 DEF Living, Ended, Runnable, Awaited, Alive, Ready
<1>3. CASE prepare_first_time_execution \/ Resume \/ Exception
  <2>1. hart \in {"kernel", "user"} /\ hart' \in {"user", "exception"}
    BY <1>3 DEF prepare_first_time_execution, Resume, ReturnToUser, Exception, IInv,
                HartInv, ContextInv, TypeOK, Pids
  <2>2. OnHart' = OnHart /\ Stopped' = Stopped
    BY <1>1, <2>1 DEF OnHart, Stopped, Stops
  <2> QED BY <1>2, <2>2 DEF Abstract!vars
<1>4. CASE ExceptionPanics \/ SyscallPanics \/ Shutdown
  <2>1. hart \in {"user", "exception"} /\ hart' \in {"panic", "off"}
    BY <1>4 DEF ExceptionPanics, SyscallPanics, Shutdown
  <2>2. OnHart' = 0 /\ ~Stopped /\ Stopped' = TRUE
    BY <2>1 DEF OnHart, Stopped, Stops
  <2>3. Runnable' = Runnable \ {0}
    BY <1>2 DEF Runnable, Pids
  <2>4. Abstract!Stop
    BY <1>2, <2>2, <2>3 DEF Abstract!Stop
  <2> QED BY <2>4 DEF Abstract!Next
<1>5. CASE UNCHANGED vars
  <2>1. OnHart' = OnHart /\ Stopped' = Stopped
    BY <1>5 DEF vars, OnHart, Stopped, Stops
  <2> QED BY <1>2, <2>1 DEF Abstract!vars
<1> QED BY <1>3, <1>4, <1>5

\* The kernel implements the abstract scheduler, its fairness apart: every step of
\* process.rs, scheduler.rs, syscall.rs and traps.rs dispatches, suspends, creates
\* or ends a process as module Scheduler says, or changes nothing it can see.
THEOREM ImplementsSchedulerSafely == Spec => Abstract!Spec
<1>1. Init => Abstract!Init
  <2> SUFFICES ASSUME Init PROVE Abstract!Init
    OBVIOUS
  <2>1. 1 \in Pids /\ \A p \in Pids : p <= 1 <=> p = 1
    BY ProcessesAssumption DEF Pids
  <2>2. Living = {1} /\ Ended = {} /\ Runnable = {1}
    BY <2>1 DEF Init, Living, Ended, Runnable, Alive, Ready
  <2>3. OnHart = 0 /\ Stopped = FALSE /\ Awaited = [p \in Pids |-> 0]
    BY <2>1 DEF Init, OnHart, Stopped, Stops, Awaited
  <2> QED BY <2>2, <2>3 DEF Abstract!Init
<1>2. IInv /\ [Next]_vars => [Abstract!Next]_(Abstract!vars)
  <2> SUFFICES ASSUME IInv, [Next]_vars PROVE [Abstract!Next]_(Abstract!vars)
    OBVIOUS
  <2>1. CASE schedule
    BY <2>1, ScheduleRefines
  <2>2. CASE TimerInterrupt \/ SyscallYield
    BY <2>2, YieldRefines DEF TimerInterrupt, SyscallYield, Contexts
  <2>3. CASE (\E wait \in BOOLEAN : spawn(wait)) \/ SpawnFails
    BY <2>3, SpawnRefines
  <2>4. CASE exit
    BY <2>4, ExitRefines
  <2>5. CASE \/ prepare_first_time_execution \/ Resume
             \/ Exception \/ ExceptionPanics \/ SyscallPanics \/ Shutdown \/ UNCHANGED vars
    BY <2>5, OthersRefine
  <2>6. CASE wfi \/ Halted
    BY <2>6, OthersRefine DEF wfi, Halted
  <2> QED BY <2>1, <2>2, <2>3, <2>4, <2>5, <2>6 DEF Next
<1> QED BY <1>1, <1>2, Invariant, PTL DEF Spec, Abstract!Spec

=============================================================================

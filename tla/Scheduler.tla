------------------------------- MODULE Scheduler -------------------------------
(***************************************************************************)
(* What the kernel promises its programs about the hart, without tables,   *)
(* queues, contexts or trapframes: a live process is on the hart, ready    *)
(* for it, or blocked until the one child it awaits has ended, and a       *)
(* process that is ready time and again gets the hart.  Module Processes   *)
(* implements this specification.                                          *)
(***************************************************************************)
EXTENDS Naturals

CONSTANTS
    Procs,  \* the processes there can ever be, numbered from 1
    First   \* one of them: the shell

VARIABLES
    alive,   \* created and not ended
    done,    \* ended
    ready,   \* those that want the hart
    cpu,     \* the one that has it, 0 for none
    awaits,  \* the child each one waits for, 0 for none
    stopped  \* whether the machine has stopped for good

vars == <<alive, done, ready, cpu, awaits, stopped>>

Init ==
    /\ alive = {First}
    /\ done = {}
    /\ ready = {First}
    /\ cpu = 0
    /\ awaits = [p \in Procs |-> 0]
    /\ stopped = FALSE

\* The hart goes to a process that wants it.
Dispatch(p) ==
    /\ ~stopped /\ cpu = 0
    /\ p \in ready
    /\ ready' = ready \ {p}
    /\ cpu' = p
    /\ UNCHANGED <<alive, done, awaits, stopped>>

\* A process gives the hart up, or loses it, and wants it back unless it awaits
\* a child.
GiveUp(p) ==
    /\ ~stopped /\ cpu = p
    /\ cpu' = 0
    /\ ready' = IF awaits[p] = 0 THEN ready \cup {p} ELSE ready
    /\ UNCHANGED <<alive, done, awaits, stopped>>

\* The process on the hart creates c.  A process that awaits c keeps the hart
\* until it gives it up; what it awaited before is forgotten.
Create(p, c, wait) ==
    /\ ~stopped /\ cpu = p
    /\ c \notin alive \cup done
    /\ alive' = alive \cup {c}
    /\ ready' = ready \cup {c}
    /\ awaits' = IF wait THEN [awaits EXCEPT ![p] = c] ELSE awaits
    /\ UNCHANGED <<done, cpu, stopped>>

\* The process on the hart ends: all who await it, and nobody else, are ready.
End(p) ==
    /\ ~stopped /\ cpu = p
    /\ alive' = alive \ {p}
    /\ done' = done \cup {p}
    /\ ready' = ready \cup {q \in alive : awaits[q] = p}
    /\ awaits' = [q \in Procs |-> IF q = p \/ awaits[q] = p THEN 0 ELSE awaits[q]]
    /\ cpu' = 0
    /\ UNCHANGED stopped

\* The machine is turned off or the kernel fails, possibly on the way to a
\* process that was ready.
Stop ==
    /\ ~stopped
    /\ stopped' = TRUE
    /\ cpu' = 0
    /\ \E p \in ready \cup {0} : ready' = ready \ {p}
    /\ UNCHANGED <<alive, done, awaits>>

Next ==
    \/ \E p \in Procs : Dispatch(p) \/ GiveUp(p) \/ End(p)
    \/ \E p, c \in Procs : \E wait \in BOOLEAN : Create(p, c, wait)
    \/ Stop

Spec == Init /\ [][Next]_vars

\* A process on the hart loses it; one that is ready again and again gets it.
FairSpec ==
    /\ Spec
    /\ WF_vars(\E p \in Procs : GiveUp(p))
    /\ \A p \in Procs : SF_vars(Dispatch(p))

=============================================================================

-------------------------------- MODULE Mutex --------------------------------
(***************************************************************************)
(* The spinlock of the sync crate (sync/src/lib.rs and mutex.rs) on the    *)
(* one hart of arch/riscv, with what makes it hard: interrupts taken in    *)
(* the kernel, whose handlers take locks too, and the way into and out of  *)
(* user mode, which switches the trap vector (kernel/src/traps.rs).        *)
(*                                                                         *)
(* The kernel code is abstracted to any nesting of lock and unlock, in any *)
(* order.  A step goes as far as the next point at which an interrupt can  *)
(* make a difference: SIE is read in one step and cleared in the next.     *)
(***************************************************************************)
EXTENDS Integers, FiniteSets

CONSTANTS
    Locks,     \* the locks of the kernel
    IrqLocks,  \* those that interrupt handlers take (INPUT_BUFFER)
    Relocked,  \* those locked again by their holder (the process, in user_trap
               \* and then in exit, after an exception)
    MaxFailed  \* bound on the calls of try_lock that fail

ASSUME MutexAssumption ==
    /\ IsFiniteSet(Locks)
    /\ Locks # {}
    /\ IrqLocks \subseteq Locks
    /\ Relocked \subseteq Locks
    /\ MaxFailed \in Nat

VARIABLES
    SIE,                 \* sstatus.SIE
    stvec,               \* the trap vector: "supervisor" or "user"
    running,             \* "main" kernel code, an "irq" handler, or "user" code
    NESTING_LEVEL,
    WERE_INTERRUPTS_ORIGINALLY_ENABLED,
    is_locked,           \* Mutex::is_locked of each lock
    holding_hart,        \* Mutex::holding_hart of each lock
    pc,                  \* how far each of main and irq is in lock or unlock
    arg,                 \* the lock it is about
    seen,                \* were_interrupts_originally_enabled in push
    held,                \* the guards it holds
    failed,              \* the calls of try_lock that failed
    found                \* SIE as the kernel code had it outside all locks

level  == <<NESTING_LEVEL, WERE_INTERRUPTS_ORIGINALLY_ENABLED>>
locks  == <<is_locked, holding_hart>>
locals == <<pc, arg, seen, held, failed>>
vars == <<SIE, stvec, running, level, locks, locals, found>>

Codes == {"main", "irq"}
THIS_HART == 1  \* get_hart_id() + 1

TypeOK ==
    /\ SIE \in BOOLEAN
    /\ stvec \in {"supervisor", "user"}
    /\ running \in Codes \cup {"user", "panic"}
    /\ NESTING_LEVEL \in Nat
    /\ WERE_INTERRUPTS_ORIGINALLY_ENABLED \in BOOLEAN
    /\ is_locked \in [Locks -> BOOLEAN]
    /\ holding_hart \in [Locks -> {0, THIS_HART}]
    /\ pc \in [Codes -> {"run", "push", "trypush", "lock", "try", "store", "pop", "entry"}]
    /\ arg \in [Codes -> Locks]
    /\ seen \in [Codes -> BOOLEAN]
    /\ held \in [Codes -> SUBSET Locks]
    /\ failed \in 0..MaxFailed
    /\ found \in BOOLEAN

\* The kernel has booted: Riscv::new called initialise_traps.
Init ==
    /\ SIE = TRUE
    /\ stvec = "supervisor"
    /\ running = "main"
    /\ NESTING_LEVEL = 0
    /\ WERE_INTERRUPTS_ORIGINALLY_ENABLED = FALSE
    /\ is_locked = [l \in Locks |-> FALSE]
    /\ holding_hart = [l \in Locks |-> 0]
    /\ pc = [c \in Codes |-> "run"]
    /\ arg \in [Codes -> {CHOOSE l \in Locks : TRUE}]
    /\ seen = [c \in Codes |-> FALSE]
    /\ held = [c \in Codes |-> {}]
    /\ failed = 0
    /\ found = TRUE

-----------------------------------------------------------------------------
(* push and pop *)

\* The first line of push, called by lock or try_lock: SIE is read, and nothing
\* else.
PushReads(c, l, caller) ==
    /\ seen' = [seen EXCEPT ![c] = SIE]
    /\ arg' = [arg EXCEPT ![c] = l]
    /\ pc' = [pc EXCEPT ![c] = IF caller = "lock" THEN "push" ELSE "trypush"]

\* Mutant: the status is saved at every level.
SavedAlways(c) == seen[c]

\* The status that push leaves behind: saved at the outermost level only.
Saved(c) == IF NESTING_LEVEL = 0 THEN seen[c] ELSE WERE_INTERRUPTS_ORIGINALLY_ENABLED

\* disable_interrupts
Disabled == FALSE

\* Mutant: only the outermost lock counts.
CountedOnce == 1

\* increase_nesting_level
Increased == NESTING_LEVEL + 1

PushDisables(c) ==
    /\ running = c /\ pc[c] \in {"push", "trypush"}
    /\ SIE' = Disabled
    /\ WERE_INTERRUPTS_ORIGINALLY_ENABLED' = Saved(c)
    /\ NESTING_LEVEL' = Increased
    /\ pc' = [pc EXCEPT ![c] = IF @ = "push" THEN "lock" ELSE "try"]
    /\ UNCHANGED <<stvec, running, locks, arg, seen, held, failed, found>>

\* Mutants: interrupts come back with the innermost unlock, or whatever they
\* were before the lock.
EnabledEarly == SIE \/ WERE_INTERRUPTS_ORIGINALLY_ENABLED
EnabledAlways == SIE \/ NESTING_LEVEL = 1

\* SIE after pop.
Restored == SIE \/ (NESTING_LEVEL = 1 /\ WERE_INTERRUPTS_ORIGINALLY_ENABLED)

\* Mutant: unlock and the guard both pop.
DecreasedTwice == NESTING_LEVEL - 2

\* decrease_nesting_level
Decreased == NESTING_LEVEL - 1

pop(c) ==
    /\ running = c /\ pc[c] = "pop"
    /\ NESTING_LEVEL' = Decreased
    /\ SIE' = Restored
    /\ pc' = [pc EXCEPT ![c] = "run"]
    /\ UNCHANGED <<stvec, running, WERE_INTERRUPTS_ORIGINALLY_ENABLED, locks, arg, seen,
                   held, failed, found>>

-----------------------------------------------------------------------------
(* Mutex::lock and unlock *)

\* The code calls lock on a lock it does not hold, or does it all the same.
MayCall(c, l) == l \notin held[c] \/ (c = "main" /\ l \in Relocked)

lock(c, l) ==
    /\ running = c /\ pc[c] = "run"
    /\ MayCall(c, l)
    /\ PushReads(c, l, "lock")
    /\ UNCHANGED <<SIE, stvec, running, level, locks, held, failed, found>>

is_current_hart_holding(l) == is_locked[l] /\ holding_hart[l] = THIS_HART

\* The hart holds this lock already: panic!("DEADLOCK").
LockPanics(c) ==
    /\ running = c /\ pc[c] = "lock"
    /\ is_current_hart_holding(arg[c])
    /\ running' = "panic"
    /\ UNCHANGED <<SIE, stvec, level, locks, locals, found>>

\* The compare_exchange succeeds.  When it does not, the hart spins.
LockTakes(c) ==
    /\ running = c /\ pc[c] = "lock"
    /\ ~is_current_hart_holding(arg[c])
    /\ ~is_locked[arg[c]]
    /\ is_locked' = [is_locked EXCEPT ![arg[c]] = TRUE]
    /\ pc' = [pc EXCEPT ![c] = "store"]
    /\ UNCHANGED <<SIE, stvec, running, level, holding_hart, arg, seen, held, failed, found>>

LockStores(c) ==
    /\ running = c /\ pc[c] = "store"
    /\ holding_hart' = [holding_hart EXCEPT ![arg[c]] = THIS_HART]
    /\ held' = [held EXCEPT ![c] = @ \cup {arg[c]}]
    /\ pc' = [pc EXCEPT ![c] = "run"]
    /\ UNCHANGED <<SIE, stvec, running, level, is_locked, arg, seen, failed, found>>

\* try_lock, which nothing but RwLock calls; is_locked() is a try_lock and, when it
\* succeeds, an unlock.
try_lock(c, l) ==
    /\ running = c /\ pc[c] = "run"
    /\ failed < MaxFailed
    /\ PushReads(c, l, "try_lock")
    /\ UNCHANGED <<SIE, stvec, running, level, locks, held, failed, found>>

TryLockTakes(c) ==
    /\ running = c /\ pc[c] = "try"
    /\ ~is_locked[arg[c]]
    /\ is_locked' = [is_locked EXCEPT ![arg[c]] = TRUE]
    /\ pc' = [pc EXCEPT ![c] = "store"]
    /\ UNCHANGED <<SIE, stvec, running, level, holding_hart, arg, seen, held, failed, found>>

\* The compare_exchange fails: false is returned without a pop, so the nesting
\* level stays raised for good.
TryLockFails(c) ==
    /\ running = c /\ pc[c] = "try"
    /\ is_locked[arg[c]]
    /\ failed' = failed + 1
    /\ pc' = [pc EXCEPT ![c] = "run"]
    /\ UNCHANGED <<SIE, stvec, running, level, locks, arg, seen, held, found>>

HolderErased(l) == [holding_hart EXCEPT ![l] = 0]

\* A guard is dropped.
unlock(c, l) ==
    /\ running = c /\ pc[c] = "run"
    /\ l \in held[c]
    /\ holding_hart' = HolderErased(l)
    /\ is_locked' = [is_locked EXCEPT ![l] = FALSE]
    /\ held' = [held EXCEPT ![c] = @ \ {l}]
    /\ arg' = [arg EXCEPT ![c] = l]
    /\ pc' = [pc EXCEPT ![c] = "pop"]
    /\ UNCHANGED <<SIE, stvec, running, level, seen, failed, found>>

-----------------------------------------------------------------------------
(* Traps *)

\* An interrupt in the kernel: the hart clears SIE and runs the handler.
Interrupt ==
    /\ running = "main" /\ SIE /\ stvec = "supervisor"
    /\ running' = "irq"
    /\ SIE' = FALSE
    /\ UNCHANGED <<stvec, level, locks, locals, found>>

\* supervisor_trap is over: sret brings SIE back, which was on.
InterruptReturns ==
    /\ running = "irq" /\ pc["irq"] = "run" /\ held["irq"] = {}
    /\ running' = "main"
    /\ SIE' = TRUE
    /\ UNCHANGED <<stvec, level, locks, locals, found>>

\* A trap from user mode: the hart clears SIE and goes through the trampoline to
\* user_trap with the vector still that of user mode.
UserTraps ==
    /\ running = "user"
    /\ running' = "main"
    /\ SIE' = FALSE
    /\ found' = FALSE
    /\ pc' = [pc EXCEPT !["main"] = "entry"]
    /\ UNCHANGED <<stvec, level, locks, arg, seen, held, failed>>

set_supervisor_mode_trap_handler ==
    /\ running = "main" /\ pc["main"] = "entry"
    /\ stvec' = "supervisor"
    /\ pc' = [pc EXCEPT !["main"] = "run"]
    /\ UNCHANGED <<SIE, running, level, locks, arg, seen, held, failed, found>>

\* disable_interrupts before the switch of the vector.
Masked == FALSE

\* The start of set_up_supervisor_to_user_mode_transition: interrupts go off and
\* the vector is that of user mode from here on.  The kernel holds no lock here.
SetUpTransition ==
    /\ running = "main" /\ pc["main"] = "run" /\ held["main"] = {}
    /\ stvec = "supervisor"
    /\ SIE' = Masked
    /\ found' = Masked
    /\ stvec' = "user"
    /\ UNCHANGED <<running, level, locks, locals>>

\* The process's lock is taken and released, then return_to_user_mode: sret, with
\* SPIE set.
ReturnToUser ==
    /\ running = "main" /\ pc["main"] = "run" /\ held["main"] = {}
    /\ stvec = "user"
    /\ running' = "user"
    /\ SIE' = TRUE
    /\ UNCHANGED <<stvec, level, locks, locals, found>>

\* The panic handler never returns.
Halted == running = "panic" /\ UNCHANGED vars

\* The locks that kernel code or a handler takes.
Wanted(c) == IF c = "main" THEN Locks ELSE IrqLocks

\* What is under way in lock, try_lock or unlock goes on.
CallSteps(c) ==
    \/ PushDisables(c)
    \/ LockPanics(c)
    \/ LockTakes(c)
    \/ TryLockTakes(c)
    \/ TryLockFails(c)
    \/ LockStores(c)
    \/ pop(c)

\* The ways into and out of user mode, and of an interrupt handler.
TrapSteps ==
    \/ Interrupt
    \/ InterruptReturns
    \/ UserTraps
    \/ set_supervisor_mode_trap_handler

UserModeSteps == SetUpTransition \/ ReturnToUser

Next ==
    \/ \E c \in Codes :
         \/ \E l \in Wanted(c) : lock(c, l) \/ unlock(c, l)
         \/ CallSteps(c)
    \/ \E l \in Locks : try_lock("main", l)
    \/ TrapSteps
    \/ UserModeSteps
    \/ Halted

Spec == Init /\ [][Next]_vars

-----------------------------------------------------------------------------
(* Properties *)

\* As long as a lock is taken, from the compare_exchange to the store that frees
\* it, the kernel runs with interrupts off: no handler can meet a lock that the
\* code below it holds, for which it would spin or panic.
LockedMeansMasked ==
    (running \in Codes /\ \E l \in Locks : is_locked[l]) => ~SIE

\* Outside all locks the kernel code has interrupts as it had them before,
\* whatever was nested and whatever handlers ran in between: pop restores what
\* push saved, although an interrupt between push's reading of SIE and its
\* disabling overwrites the saved status.  A try_lock that fails ends this.
InterruptsRestored ==
    running = "main" /\ pc["main"] = "run" /\ held["main"] = {} /\ failed = 0
        => SIE = found

\* NESTING_LEVEL counts the locks held and about to be, so that it is zero
\* exactly when the outermost pop may enable interrupts, and every try_lock that
\* failed, after which no pop of the kernel enables them again.
LevelCounts ==
    NESTING_LEVEL =
        Cardinality(held["main"]) + Cardinality(held["irq"]) + failed
          + Cardinality({c \in Codes : pc[c] \in {"lock", "try", "store", "pop"}})

\* "we don't want an interrupt to be handled by it while we are still in
\* supervisor mode": with the vector of user mode, the kernel runs with interrupts
\* off, also after set_up_supervisor_to_user_mode_transition locked and unlocked
\* the process.
NoInterruptThroughUserVector == running \in Codes /\ stvec = "user" => ~SIE

=============================================================================

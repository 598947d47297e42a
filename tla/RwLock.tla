-------------------------------- MODULE RwLock --------------------------------
(***************************************************************************)
(* The reader-writer lock of the sync crate (sync/src/rwlock.rs), which    *)
(* the kernel puts around its map of processes: a number of readers in a   *)
(* Mutex.  A reader holds that Mutex only while it counts itself in or     *)
(* out, a writer keeps it locked.  Built on module Mutex, with interrupts  *)
(* between any two steps; only kernel code, no handler, takes this lock.   *)
(***************************************************************************)
EXTENDS Mutex

CONSTANTS
    RW,         \* the Mutex that holds num_readers
    MaxReaders  \* bound on the read guards of the kernel code

ASSUME RwLockAssumption ==
    /\ RW \in Locks \ (IrqLocks \cup Relocked)
    /\ MaxReaders \in Nat \ {0}

VARIABLES
    num_readers,  \* the number in the Mutex
    op,           \* the operation of RwLock under way, "none" outside of them
    readers,      \* the read guards the kernel code holds
    writing       \* whether it holds the write guard

rw == <<num_readers, op, readers, writing>>
rwvars == <<vars, rw>>

Operations == {"lock_shared", "try_lock_shared", "unlock_shared",
               "lock_exclusive", "try_lock_exclusive"}

RwTypeOK ==
    /\ TypeOK
    /\ num_readers \in 0..MaxReaders
    /\ op \in Operations \cup {"none", "spin"}
    /\ readers \in 0..MaxReaders
    /\ writing \in BOOLEAN

RwInit ==
    /\ Init
    /\ num_readers = 0
    /\ op = "none"
    /\ readers = 0
    /\ writing = FALSE

-----------------------------------------------------------------------------
(* Calls.  The code calls lock_shared and the like in any order that its   *)
(* guards allow, also lock_exclusive while it holds a read guard itself.   *)

Calls(o) ==
    \/ o \in {"lock_shared", "try_lock_shared"} /\ readers < MaxReaders
    \/ o = "unlock_shared" /\ readers > 0
    \/ o \in {"lock_exclusive", "try_lock_exclusive"} /\ ~writing

\* All but try_lock_shared start with num_readers.lock(), try_lock_exclusive too.
\* A call that comes while the code holds the write guard would lock RW twice: the
\* kernel makes none but the harmless try_lock_shared.
Begin(o) ==
    /\ op = "none"
    /\ Calls(o)
    /\ IF o = "try_lock_shared" THEN try_lock("main", RW) ELSE lock("main", RW)
    /\ op' = o
    /\ UNCHANGED <<num_readers, readers, writing>>

\* The kernel code has the guard of num_readers, in operation o.
Counting(o) == op = o /\ running = "main" /\ pc["main"] = "run" /\ RW \in held["main"]

\* Mutant: a reader that leaves is not counted out.
NotCountedOut == num_readers

CountedOut == num_readers - 1

\* The guard is dropped when the reader is counted.
Shared ==
    /\ \E o \in {"lock_shared", "try_lock_shared"} : Counting(o) /\ ~writing
    /\ num_readers' = num_readers + 1
    /\ readers' = readers + 1
    /\ op' = "none"
    /\ unlock("main", RW)
    /\ UNCHANGED writing

\* try_lock found the Mutex locked, by the writer.
SharedFails ==
    /\ op = "try_lock_shared" /\ failed > 0
    /\ running = "main" /\ pc["main"] = "run" /\ writing
    /\ op' = "none"
    /\ UNCHANGED <<vars, num_readers, readers, writing>>

Unshared ==
    /\ Counting("unlock_shared")
    /\ num_readers' = CountedOut
    /\ readers' = readers - 1
    /\ op' = "none"
    /\ unlock("main", RW)
    /\ UNCHANGED writing

\* Mutant: the readers are not looked at.
ReadersIgnored == TRUE

NoReaders == num_readers = 0

\* The guard is kept: ManuallyDrop.
Exclusive ==
    /\ Counting("lock_exclusive") \/ Counting("try_lock_exclusive")
    /\ NoReaders
    /\ writing' = TRUE
    /\ op' = "none"
    /\ UNCHANGED <<vars, num_readers, readers>>

\* There are readers: the guard is dropped, and lock_exclusive starts again.
ExclusiveFails ==
    /\ Counting("lock_exclusive") \/ Counting("try_lock_exclusive")
    /\ ~NoReaders
    /\ op' = IF op = "lock_exclusive" THEN "spin" ELSE "none"
    /\ unlock("main", RW)
    /\ UNCHANGED <<num_readers, readers, writing>>

Spin ==
    /\ op = "spin"
    /\ lock("main", RW)
    /\ op' = "lock_exclusive"
    /\ UNCHANGED <<num_readers, readers, writing>>

\* force_unlock
unlock_exclusive ==
    /\ op = "none" /\ writing
    /\ unlock("main", RW)
    /\ writing' = FALSE
    /\ UNCHANGED <<num_readers, op, readers>>

-----------------------------------------------------------------------------
(* Everything else is module Mutex: kernel code takes other locks outside of *)
(* these operations, handlers run at any time, and the kernel returns to     *)
(* user mode without a guard.                                                *)

OtherLock(l) ==
    /\ op = "none"
    /\ lock("main", l) \/ unlock("main", l) \/ try_lock("main", l)
    /\ UNCHANGED rw

HandlerLocks ==
    /\ \E l \in Wanted("irq") : lock("irq", l) \/ unlock("irq", l)
    /\ UNCHANGED rw

ToUserMode ==
    /\ op = "none" /\ readers = 0
    /\ UserModeSteps
    /\ UNCHANGED rw

RwNext ==
    \/ \E o \in Operations : Begin(o)
    \/ Shared
    \/ SharedFails
    \/ Unshared
    \/ Exclusive
    \/ ExclusiveFails
    \/ Spin
    \/ unlock_exclusive
    \/ \E l \in Locks \ {RW} : OtherLock(l)
    \/ HandlerLocks
    \/ \E c \in Codes : CallSteps(c) /\ UNCHANGED rw
    \/ TrapSteps /\ UNCHANGED rw
    \/ ToUserMode
    \/ Halted /\ UNCHANGED rw

RwSpec == RwInit /\ [][RwNext]_rwvars

-----------------------------------------------------------------------------
(* Properties *)

\* A writer is alone: nobody reads while it holds its guard, and it runs with
\* interrupts off from lock_exclusive to unlock_exclusive, whatever it locks and
\* unlocks in between.
WriterAlone ==
    writing => readers = 0 /\ is_current_hart_holding(RW) /\ (running \in Codes => ~SIE)

\* A writer that finds readers finds its own read guard: no interrupt and no other
\* path leaves a reader counted in that lock_exclusive would wait for on the one
\* hart that would have to run it.  (The kernel never writes under a read guard.)
WriterWaitsForItself == op = "spin" => readers > 0

=============================================================================

----------------------------- MODULE LocksProofs -----------------------------
(***************************************************************************)
(* Proofs about the locks.  First the spinlock and its nesting level, for  *)
(* every set of locks and every number of failing try_locks: the safety    *)
(* properties of Mutex from one inductive invariant.  Then the reader-     *)
(* writer lock, for every number of readers: each of its steps is a step   *)
(* of module Mutex or leaves the variables of Mutex alone, so the first    *)
(* invariant carries over; that the guard in held is the lock word and     *)
(* masks interrupts comes from there.                                      *)
(***************************************************************************)
EXTENDS RwLock, FiniteSetTheorems, TLAPS

-----------------------------------------------------------------------------
(* The inductive invariant *)

\* The points between push and the end of lock or try_lock, and between the store
\* that frees a lock and pop.
Inside == {"lock", "try", "store", "pop"}

\* A lock is taken exactly by the code that has its guard or is about to get it,
\* and by one only.
HolderInv ==
    /\ \A l \in Locks : is_locked[l] =>
         \E c \in Codes : l \in held[c] \/ (pc[c] = "store" /\ arg[c] = l)
    /\ \A c \in Codes : \A l \in held[c] : is_locked[l] /\ holding_hart[l] = THIS_HART
    /\ \A c \in Codes : pc[c] = "store" =>
         is_locked[arg[c]] /\ \A d \in Codes : arg[c] \notin held[d]
    /\ held["main"] \cap held["irq"] = {}

\* A handler does nothing unless it runs, and it runs only where kernel code
\* outside all locks was interrupted; it finds interrupts off and leaves them so.
HandlerInv ==
    /\ running \in {"main", "user"} => pc["irq"] = "run" /\ held["irq"] = {}
    /\ running = "irq" =>
         /\ held["main"] = {} /\ pc["main"] \notin Inside /\ failed = 0
         /\ ~SIE /\ found /\ stvec = "supervisor"
         /\ pc["irq"] = "push" => ~seen["irq"]
         /\ NESTING_LEVEL > 0 => ~WERE_INTERRUPTS_ORIGINALLY_ENABLED
    /\ running = "user" => pc["main"] = "run" /\ held["main"] = {}

\* Only kernel code calls try_lock, within the bound.
TryInv ==
    /\ pc["irq"] \notin {"try", "trypush"}
    /\ pc["main"] \in {"try", "trypush"} => failed < MaxFailed

\* The kernel has interrupts on outside all locks only, and never with the vector
\* of user mode.
MaskInv ==
    running \in Codes =>
        /\ SIE => NESTING_LEVEL = 0
        /\ stvec = "user" => ~found

\* Where SIE as the kernel code had it is kept: in SIE itself, in what push has
\* read, or in the status saved by the outermost push.
SavedInv ==
    (running \in Codes /\ failed = 0) =>
        /\ pc["main"] \in {"push", "trypush"} /\ held["main"] = {} => seen["main"] = found
        /\ running = "main" /\ NESTING_LEVEL = 0 => SIE = found
        /\ running = "main" /\ NESTING_LEVEL > 0 =>
             WERE_INTERRUPTS_ORIGINALLY_ENABLED = found

IInv ==
    /\ TypeOK
    /\ LevelCounts
    /\ HolderInv
    /\ HandlerInv
    /\ TryInv
    /\ MaskInv
    /\ SavedInv

-----------------------------------------------------------------------------
(* The nesting level, term by term *)

In(point) == IF point \in Inside THEN 1 ELSE 0

\* The codes that are inside lock or unlock, counted one by one.
LEMMA CountInside ==
    \A f : Cardinality({c \in Codes : f[c] \in {"lock", "try", "store", "pop"}})
              = In(f["main"]) + In(f["irq"])
<1> SUFFICES ASSUME NEW f
             PROVE  Cardinality({c \in Codes : f[c] \in Inside}) = In(f["main"]) + In(f["irq"])
  BY DEF Inside
<1> DEFINE S == {c \in Codes : f[c] \in Inside}
<1>1. CASE f["main"] \in Inside /\ f["irq"] \in Inside
  <2>1. S = {"main"} \cup {"irq"}
    BY <1>1 DEF Codes
  <2>2. IsFiniteSet({"main"}) /\ Cardinality({"main"}) = 1
    BY FS_Singleton
  <2>3. Cardinality({"main"} \cup {"irq"}) = 2
    BY <2>2, FS_AddElement
  <2> QED
    BY <1>1, <2>1, <2>3 DEF In
<1>2. CASE f["main"] \in Inside /\ f["irq"] \notin Inside
  <2>1. S = {"main"}
    BY <1>2 DEF Codes
  <2>2. Cardinality({"main"}) = 1
    BY FS_Singleton
  <2> QED
    BY <1>2, <2>1, <2>2 DEF In
<1>3. CASE f["main"] \notin Inside /\ f["irq"] \in Inside
  <2>1. S = {"irq"}
    BY <1>3 DEF Codes
  <2>2. Cardinality({"irq"}) = 1
    BY FS_Singleton
  <2> QED
    BY <1>3, <2>1, <2>2 DEF In
<1>4. CASE f["main"] \notin Inside /\ f["irq"] \notin Inside
  <2>1. S = {}
    BY <1>4 DEF Codes
  <2> QED
    BY <1>4, <2>1, FS_EmptySet DEF In
<1> QED
  BY <1>1, <1>2, <1>3, <1>4

\* A guard more or less is one more or less of them.
LEMMA CountHeld ==
    \A H \in SUBSET Locks :
        /\ Cardinality(H) \in Nat
        /\ Cardinality(H) = 0 <=> H = {}
        /\ \A l \in Locks \ H : Cardinality(H \cup {l}) = Cardinality(H) + 1
        /\ \A l \in H : Cardinality(H \ {l}) = Cardinality(H) - 1
<1> SUFFICES ASSUME NEW H \in SUBSET Locks
             PROVE  /\ Cardinality(H) \in Nat
                    /\ Cardinality(H) = 0 <=> H = {}
                    /\ \A l \in Locks \ H : Cardinality(H \cup {l}) = Cardinality(H) + 1
                    /\ \A l \in H : Cardinality(H \ {l}) = Cardinality(H) - 1
  OBVIOUS
<1>1. IsFiniteSet(H)
  BY MutexAssumption, FS_Subset
<1> QED
  BY <1>1, FS_CardinalityType, FS_EmptySet, FS_AddElement, FS_RemoveElement

\* The level that LevelCounts asks for, of guards h, points p and f failed calls.
LevelOf(h, p, f) ==
    Cardinality(h["main"]) + Cardinality(h["irq"]) + f
      + (In(p["main"]) + In(p["irq"]))

\* LevelCounts, with the counting written out in LevelOf.
LEMMA LevelForm == LevelCounts <=> NESTING_LEVEL = LevelOf(held, pc, failed)
BY CountInside, Zenon DEF LevelCounts, LevelOf

\* The same in the next state.
LEMMA LevelFormNext == LevelCounts' <=> NESTING_LEVEL' = LevelOf(held', pc', failed')
BY CountInside, Zenon DEF LevelCounts, LevelOf

\* What a sum of counts says of its terms.
LEMMA SumTerms ==
    \A a, b, f, i, j \in Nat :
        /\ a + b + f + (i + j) = 0 => a = 0 /\ b = 0 /\ f = 0 /\ i = 0 /\ j = 0
        /\ a + b + f + (i + j) >= f
        /\ i = 1 \/ j = 1 => a + b + f + (i + j) >= 1 + f
        /\ a = 0 /\ b = 0 /\ i = 0 /\ j = 0 => a + b + f + (i + j) = f
OBVIOUS

\* With a nesting level of zero nobody holds or is about to hold a lock, and when
\* nobody does, the level is the number of failed try_locks.
LEMMA LevelZero ==
    ASSUME TypeOK, LevelCounts
    PROVE  /\ NESTING_LEVEL \in Nat
           /\ NESTING_LEVEL >= failed
           /\ NESTING_LEVEL = 0 =>
                /\ failed = 0
                /\ \A c \in Codes : held[c] = {} /\ pc[c] \notin Inside
           /\ (\A c \in Codes : held[c] = {} /\ pc[c] \notin Inside) =>
                NESTING_LEVEL = failed
           /\ \A c \in Codes : pc[c] \in Inside => NESTING_LEVEL >= 1 + failed
<1>1. /\ held["main"] \in SUBSET Locks /\ held["irq"] \in SUBSET Locks
      /\ NESTING_LEVEL \in Nat /\ failed \in Nat
  BY MutexAssumption DEF TypeOK, Codes
<1>2. /\ Cardinality(held["main"]) \in Nat /\ Cardinality(held["irq"]) \in Nat
      /\ Cardinality(held["main"]) = 0 <=> held["main"] = {}
      /\ Cardinality(held["irq"]) = 0 <=> held["irq"] = {}
  BY <1>1, CountHeld
<1> DEFINE a == Cardinality(held["main"])
           b == Cardinality(held["irq"])
           i == In(pc["main"])
           j == In(pc["irq"])
<1>3. NESTING_LEVEL = a + b + failed + (i + j)
  BY LevelForm DEF LevelOf
<1>4. /\ i \in Nat /\ j \in Nat
      /\ IF pc["main"] \in Inside THEN i = 1 ELSE i = 0
      /\ IF pc["irq"] \in Inside THEN j = 1 ELSE j = 0
  BY DEF In
<1> HIDE DEF a, b, i, j
<1>5. /\ NESTING_LEVEL = 0 => a = 0 /\ b = 0 /\ failed = 0 /\ i = 0 /\ j = 0
      /\ NESTING_LEVEL >= failed
      /\ i = 1 \/ j = 1 => NESTING_LEVEL >= 1 + failed
      /\ a = 0 /\ b = 0 /\ i = 0 /\ j = 0 => NESTING_LEVEL = failed
  BY <1>1, <1>2, <1>3, <1>4, SumTerms DEF a, b
<1> QED
  BY <1>1, <1>2, <1>4, <1>5 DEF Codes, a, b

-----------------------------------------------------------------------------
(* Initially *)

\* Main code and handler start outside of every lock, with nothing to restore.
LEMMA InitInv == Init => IInv
<1> SUFFICES ASSUME Init PROVE IInv
  OBVIOUS
<1>1. TypeOK
  <2>1. \E l \in Locks : TRUE
    BY MutexAssumption
  <2>2. (CHOOSE l \in Locks : TRUE) \in Locks
    BY <2>1
  <2>3. arg \in [Codes -> Locks]
    BY <2>2 DEF Init
  <2>4. failed \in 0..MaxFailed
    BY MutexAssumption DEF Init
  <2>5. seen \in [Codes -> BOOLEAN] /\ held \in [Codes -> SUBSET Locks]
        /\ is_locked \in [Locks -> BOOLEAN]
    BY DEF Init
  <2>6. SIE \in BOOLEAN /\ WERE_INTERRUPTS_ORIGINALLY_ENABLED \in BOOLEAN /\ found \in BOOLEAN
    BY DEF Init
  <2> QED
    BY <2>3, <2>4, <2>5, <2>6 DEF Init, TypeOK, Codes
<1>2. LevelCounts
  <2>1. NESTING_LEVEL = LevelOf(held, pc, failed)
    BY FS_EmptySet DEF Init, LevelOf, In, Inside, Codes
  <2> QED
    BY <2>1, LevelForm
<1>3. HolderInv /\ HandlerInv /\ TryInv
  BY DEF Init, HolderInv, HandlerInv, TryInv, Codes
<1>4. MaskInv /\ SavedInv
  BY DEF Init, MaskInv, SavedInv, Codes
<1> QED
  BY <1>1, <1>2, <1>3, <1>4 DEF IInv

-----------------------------------------------------------------------------
(* The steps of lock, try_lock and unlock *)

\* While one of the two runs, the other is not inside lock or unlock.
LEMMA OtherCode ==
    ASSUME TypeOK, HandlerInv, NEW c \in Codes, running = c, NEW d \in Codes, d # c
    PROVE  pc[d] \notin Inside
BY DEF HandlerInv, Codes, Inside

\* push has read SIE and nothing else has changed.
LEMMA CallInv ==
    ASSUME IInv,
           \/ \E c \in Codes : \E l \in Wanted(c) : lock(c, l)
           \/ \E l \in Locks : try_lock("main", l)
    PROVE  IInv'
<1>1. PICK c \in Codes, l \in Locks :
        /\ running = c /\ pc[c] = "run"
        /\ \/ PushReads(c, l, "lock")
           \/ c = "main" /\ PushReads(c, l, "try_lock") /\ failed < MaxFailed
        /\ UNCHANGED <<SIE, stvec, running, level, locks, held, failed, found>>
  BY MutexAssumption DEF lock, try_lock, Wanted, Codes
<1>2. PICK next \in {"push", "trypush"} :
        /\ seen' = [seen EXCEPT ![c] = SIE]
        /\ arg' = [arg EXCEPT ![c] = l]
        /\ pc' = [pc EXCEPT ![c] = next]
        /\ next = "trypush" => c = "main" /\ failed < MaxFailed
  BY <1>1 DEF PushReads
<1>3. UNCHANGED <<SIE, stvec, running, NESTING_LEVEL, WERE_INTERRUPTS_ORIGINALLY_ENABLED,
                  is_locked, holding_hart, held, failed, found>>
  BY <1>1 DEF level, locks
<1>4. TypeOK'
  BY <1>2, <1>3 DEF IInv, TypeOK
<1>5. LevelCounts'
  <2>1. LevelOf(held', pc', failed') = LevelOf(held, pc, failed)
    BY <1>1, <1>2, <1>3 DEF LevelOf, In, Inside, IInv, TypeOK, Codes
  <2> QED
    BY <1>3, <2>1, LevelForm, LevelFormNext DEF IInv
<1>6. HolderInv'
  BY <1>1, <1>2, <1>3 DEF IInv, TypeOK, HolderInv
<1>7. HandlerInv'
  BY <1>1, <1>2, <1>3 DEF IInv, TypeOK, HandlerInv, Codes, Inside
<1>8. TryInv'
  BY <1>1, <1>2, <1>3 DEF IInv, TypeOK, TryInv, Codes
<1>9. MaskInv'
  BY <1>3 DEF IInv, MaskInv
<1>10. SavedInv'
  <2>1. ASSUME running = "main", failed = 0, held["main"] = {}, c = "main"
        PROVE  SIE = found
    <3>1. NESTING_LEVEL = 0
      BY <1>1, <2>1, LevelZero DEF IInv, HandlerInv, Codes, Inside
    <3> QED
      BY <2>1, <3>1 DEF IInv, SavedInv, Codes
  <2>2. c = "main" => running = "main" /\ seen'["main"] = SIE
    BY <1>1, <1>2 DEF IInv, TypeOK
  <2>3. c # "main" => seen'["main"] = seen["main"] /\ pc'["main"] = pc["main"]
    BY <1>2 DEF IInv, TypeOK, Codes
  <2>4. c \in {"main", "irq"} /\ running = c
    BY <1>1 DEF Codes
  <2> QED
    BY <1>3, <2>1, <2>2, <2>3, <2>4 DEF IInv, SavedInv, Codes
<1> QED
  BY <1>4, <1>5, <1>6, <1>7, <1>8, <1>9, <1>10 DEF IInv

\* The rest of push: interrupts go off and the level goes up.
LEMMA PushDisablesInv ==
    ASSUME IInv, NEW c \in Codes, PushDisables(c)
    PROVE  IInv'
<1>1. PICK next \in {"lock", "try"} :
        /\ running = c /\ pc[c] \in {"push", "trypush"}
        /\ pc' = [pc EXCEPT ![c] = next]
        /\ next = "try" => pc[c] = "trypush"
        /\ SIE' = FALSE
        /\ WERE_INTERRUPTS_ORIGINALLY_ENABLED' =
              IF NESTING_LEVEL = 0 THEN seen[c] ELSE WERE_INTERRUPTS_ORIGINALLY_ENABLED
        /\ NESTING_LEVEL' = NESTING_LEVEL + 1
  BY DEF PushDisables, Disabled, Saved, Increased, IInv, TypeOK
<1>2. UNCHANGED <<stvec, running, is_locked, holding_hart, arg, seen, held, failed, found>>
  BY DEF PushDisables, locks
<1>3. TypeOK'
  <2>1. WERE_INTERRUPTS_ORIGINALLY_ENABLED' \in BOOLEAN
    BY <1>1, Zenon DEF IInv, TypeOK
  <2>2. SIE' \in BOOLEAN
    BY <1>1
  <2>3. NESTING_LEVEL' \in Nat
    BY <1>1 DEF IInv, TypeOK
  <2>4. pc' \in [Codes -> {"run", "push", "trypush", "lock", "try", "store", "pop", "entry"}]
    BY <1>1 DEF IInv, TypeOK
  <2> QED
    BY <1>2, <2>1, <2>2, <2>3, <2>4 DEF IInv, TypeOK
<1>4. LevelCounts'
  <2>1. LevelOf(held', pc', failed') = LevelOf(held, pc, failed) + 1
    BY <1>1, <1>2, CountHeld, MutexAssumption DEF LevelOf, In, Inside, IInv, TypeOK, Codes
  <2> QED
    BY <1>1, <2>1, LevelForm, LevelFormNext DEF IInv
<1>5. HolderInv'
  BY <1>1, <1>2 DEF IInv, TypeOK, HolderInv
<1>6. HandlerInv'
  BY <1>1, <1>2, LevelZero DEF IInv, TypeOK, HandlerInv, Codes, Inside, TryInv
<1>7. TryInv'
  BY <1>1, <1>2 DEF IInv, TypeOK, TryInv, Codes
<1>8. MaskInv'
  BY <1>1, <1>2 DEF IInv, MaskInv
<1>9. SavedInv'
  BY <1>1, <1>2, LevelZero DEF IInv, TypeOK, SavedInv, HandlerInv, Codes
<1> QED
  BY <1>3, <1>4, <1>5, <1>6, <1>7, <1>8, <1>9 DEF IInv

\* The panic of lock changes nothing of the lock.
LEMMA LockPanicsInv ==
    ASSUME IInv, NEW c \in Codes, LockPanics(c)
    PROVE  IInv'
<1>1. /\ running' = "panic"
      /\ UNCHANGED <<SIE, stvec, NESTING_LEVEL, WERE_INTERRUPTS_ORIGINALLY_ENABLED, is_locked,
                     holding_hart, pc, arg, seen, held, failed, found>>
  BY DEF LockPanics, level, locks, locals
<1>2. TypeOK'
  BY <1>1 DEF IInv, TypeOK
<1>3. LevelCounts' /\ HolderInv' /\ TryInv'
  BY <1>1 DEF IInv, LevelCounts, HolderInv, TryInv
<1>4. HandlerInv' /\ MaskInv' /\ SavedInv'
  BY <1>1 DEF HandlerInv, MaskInv, SavedInv, Codes
<1> QED
  BY <1>2, <1>3, <1>4 DEF IInv

\* A compare_exchange that succeeds, in lock or in try_lock.
LEMMA TakesInv ==
    ASSUME IInv, NEW c \in Codes, LockTakes(c) \/ TryLockTakes(c)
    PROVE  IInv'
<1>1. /\ running = c /\ pc[c] \in {"lock", "try"}
      /\ ~is_locked[arg[c]]
      /\ is_locked' = [is_locked EXCEPT ![arg[c]] = TRUE]
      /\ pc' = [pc EXCEPT ![c] = "store"]
  BY DEF LockTakes, TryLockTakes
<1>2. UNCHANGED <<SIE, stvec, running, NESTING_LEVEL, WERE_INTERRUPTS_ORIGINALLY_ENABLED,
                  holding_hart, arg, seen, held, failed, found>>
  BY DEF LockTakes, TryLockTakes, level
<1>3. TypeOK'
  BY <1>1, <1>2 DEF IInv, TypeOK
<1>4. LevelCounts'
  <2>1. LevelOf(held', pc', failed') = LevelOf(held, pc, failed)
    BY <1>1, <1>2 DEF LevelOf, In, Inside, IInv, TypeOK, Codes
  <2> QED
    BY <1>2, <2>1, LevelForm, LevelFormNext DEF IInv
<1>5. HolderInv'
  <2>1. \A d \in Codes : pc[d] # "store"
    BY <1>1, OtherCode DEF IInv, Inside
  <2>2. \A d \in Codes : arg[c] \notin held[d] /\ arg[d] \in Locks /\ held[d] \subseteq Locks
    BY <1>1 DEF IInv, HolderInv, TypeOK
  <2>3. \A l \in Locks : is_locked'[l] <=> is_locked[l] \/ l = arg[c]
    BY <1>1, <2>2 DEF IInv, TypeOK
  <2>4. \A d \in Codes : pc'[d] = "store" <=> d = c
    BY <1>1, <2>1 DEF IInv, TypeOK
  <2> QED
    BY <1>2, <2>1, <2>2, <2>3, <2>4 DEF IInv, HolderInv
<1>6. HandlerInv'
  BY <1>1, <1>2 DEF IInv, TypeOK, HandlerInv, Codes, Inside
<1>7. TryInv'
  BY <1>1, <1>2 DEF IInv, TypeOK, TryInv, Codes
<1>8. MaskInv'
  BY <1>2 DEF IInv, MaskInv
<1>9. SavedInv'
  BY <1>1, <1>2 DEF IInv, TypeOK, SavedInv, Codes
<1> QED
  BY <1>3, <1>4, <1>5, <1>6, <1>7, <1>8, <1>9 DEF IInv

\* The holder is stored and the guard is there.
LEMMA LockStoresInv ==
    ASSUME IInv, NEW c \in Codes, LockStores(c)
    PROVE  IInv'
<1>1. /\ running = c /\ pc[c] = "store"
      /\ holding_hart' = [holding_hart EXCEPT ![arg[c]] = THIS_HART]
      /\ held' = [held EXCEPT ![c] = @ \cup {arg[c]}]
      /\ pc' = [pc EXCEPT ![c] = "run"]
  BY DEF LockStores
<1>2. UNCHANGED <<SIE, stvec, running, NESTING_LEVEL, WERE_INTERRUPTS_ORIGINALLY_ENABLED,
                  is_locked, arg, seen, failed, found>>
  BY DEF LockStores, level
<1>3. arg[c] \in Locks /\ held[c] \in SUBSET Locks /\ arg[c] \notin held[c]
  BY <1>1 DEF IInv, HolderInv, TypeOK
<1>4. TypeOK'
  BY <1>1, <1>2, <1>3 DEF IInv, TypeOK
<1>5. LevelCounts'
  <2>1. Cardinality(held'[c]) = Cardinality(held[c]) + 1 /\ Cardinality(held[c]) \in Nat
    BY <1>1, <1>3, CountHeld DEF IInv, TypeOK
  <2>2. In(pc[c]) = 1 /\ In(pc'[c]) = 0
    BY <1>1 DEF In, Inside, IInv, TypeOK
  <2>3. \A d \in Codes : d # c => held'[d] = held[d] /\ pc'[d] = pc[d]
    BY <1>1 DEF IInv, TypeOK
  <2>4. \A d \in Codes : Cardinality(held[d]) \in Nat /\ In(pc[d]) \in Nat
    BY CountHeld DEF IInv, TypeOK, In
  <2>5. LevelOf(held', pc', failed') = LevelOf(held, pc, failed)
    BY <1>2, <2>1, <2>2, <2>3, <2>4, MutexAssumption DEF LevelOf, Codes, IInv, TypeOK
  <2> QED
    BY <1>2, <2>5, LevelForm, LevelFormNext DEF IInv
<1>6. HolderInv'
  <2>1. \A d \in Codes : pc[d] = "store" => d = c
    BY <1>1, OtherCode DEF IInv, Inside
  <2>2. \A d \in Codes : pc'[d] # "store"
    BY <1>1, <2>1 DEF IInv, TypeOK
  <2>3. \A d \in Codes : held'[d] = IF d = c THEN held[d] \cup {arg[c]} ELSE held[d]
    BY <1>1 DEF IInv, TypeOK
  <2>4. \A l \in Locks : holding_hart'[l] = IF l = arg[c] THEN THIS_HART ELSE holding_hart[l]
    BY <1>1, <1>3 DEF IInv, TypeOK
  <2>5. is_locked[arg[c]] /\ \A d \in Codes : arg[c] \notin held[d] /\ held[d] \subseteq Locks
    BY <1>1 DEF IInv, HolderInv, TypeOK
  <2>6. \A l \in Locks : is_locked'[l] => \E d \in Codes : l \in held'[d]
    <3> SUFFICES ASSUME NEW l \in Locks, is_locked[l]
                 PROVE  \E d \in Codes : l \in held'[d]
      BY <1>2
    <3>1. PICK d \in Codes : l \in held[d] \/ (pc[d] = "store" /\ arg[d] = l)
      BY DEF IInv, HolderInv
    <3>2. CASE l \in held[d]
      BY <2>3, <3>2
    <3>3. CASE pc[d] = "store" /\ arg[d] = l
      BY <2>1, <2>3, <3>3
    <3> QED
      BY <3>1, <3>2, <3>3
  <2>7. \A d \in Codes : \A l \in held'[d] : is_locked'[l] /\ holding_hart'[l] = THIS_HART
    <3> SUFFICES ASSUME NEW d \in Codes, NEW l \in held'[d]
                 PROVE  is_locked[l] /\ holding_hart'[l] = THIS_HART
      BY <1>2
    <3>1. CASE l \in held[d]
      <4>1. l \in Locks /\ is_locked[l] /\ holding_hart[l] = THIS_HART
        BY <2>5, <3>1 DEF IInv, HolderInv
      <4> QED
        BY <2>4, <4>1
    <3>2. CASE l = arg[c]
      BY <1>3, <2>4, <2>5, <3>2
    <3> QED
      BY <2>3, <3>1, <3>2
  <2>8. held'["main"] \cap held'["irq"] = {}
    BY <2>3, <2>5 DEF IInv, HolderInv, Codes
  <2> QED
    BY <2>2, <2>6, <2>7, <2>8 DEF HolderInv
<1>7. HandlerInv'
  BY <1>1, <1>2 DEF IInv, TypeOK, HandlerInv, Codes, Inside
<1>8. TryInv'
  BY <1>1, <1>2 DEF IInv, TypeOK, TryInv, Codes
<1>9. MaskInv'
  BY <1>2 DEF IInv, MaskInv
<1>10. SavedInv'
  BY <1>1, <1>2 DEF IInv, TypeOK, SavedInv, Codes
<1> QED
  BY <1>4, <1>5, <1>6, <1>7, <1>8, <1>9, <1>10 DEF IInv

\* A try_lock that fails leaves the level raised.
LEMMA TryLockFailsInv ==
    ASSUME IInv, NEW c \in Codes, TryLockFails(c)
    PROVE  IInv'
<1>1. /\ running = c /\ pc[c] = "try"
      /\ failed' = failed + 1
      /\ pc' = [pc EXCEPT ![c] = "run"]
  BY DEF TryLockFails
<1>2. UNCHANGED <<SIE, stvec, running, NESTING_LEVEL, WERE_INTERRUPTS_ORIGINALLY_ENABLED,
                  is_locked, holding_hart, arg, seen, held, found>>
  BY DEF TryLockFails, level, locks
<1>3. c = "main" /\ failed < MaxFailed /\ failed \in 0..MaxFailed /\ MaxFailed \in Nat
  BY <1>1, MutexAssumption DEF IInv, TryInv, Codes, TypeOK
<1>4. TypeOK'
  BY <1>1, <1>2, <1>3 DEF IInv, TypeOK
<1>5. LevelCounts'
  <2>1. LevelOf(held', pc', failed') = LevelOf(held, pc, failed)
    <3>1. In(pc["main"]) = 1 /\ In(pc'["main"]) = 0 /\ pc'["irq"] = pc["irq"]
      BY <1>1, <1>3 DEF In, Inside, IInv, TypeOK, Codes
    <3>2. Cardinality(held["main"]) \in Nat /\ Cardinality(held["irq"]) \in Nat
          /\ In(pc["irq"]) \in Nat
      BY CountHeld DEF IInv, TypeOK, In, Codes
    <3> QED
      BY <1>1, <1>2, <1>3, <3>1, <3>2 DEF LevelOf
  <2> QED
    BY <1>2, <2>1, LevelForm, LevelFormNext DEF IInv
<1>6. HolderInv'
  BY <1>1, <1>2 DEF IInv, TypeOK, HolderInv
<1>7. HandlerInv'
  BY <1>1, <1>2, <1>3 DEF IInv, TypeOK, HandlerInv, Codes
<1>8. TryInv'
  BY <1>1, <1>2, <1>3 DEF IInv, TypeOK, TryInv, Codes
<1>9. MaskInv'
  BY <1>2 DEF IInv, MaskInv
<1>10. SavedInv'
  BY <1>1, <1>2, <1>3 DEF SavedInv
<1> QED
  BY <1>4, <1>5, <1>6, <1>7, <1>8, <1>9, <1>10 DEF IInv

\* unlock up to the store that frees the lock.
LEMMA UnlockInv ==
    ASSUME IInv, NEW c \in Codes, NEW l \in Locks, unlock(c, l)
    PROVE  IInv'
<1>1. /\ running = c /\ pc[c] = "run" /\ l \in held[c]
      /\ holding_hart' = [holding_hart EXCEPT ![l] = 0]
      /\ is_locked' = [is_locked EXCEPT ![l] = FALSE]
      /\ held' = [held EXCEPT ![c] = @ \ {l}]
      /\ arg' = [arg EXCEPT ![c] = l]
      /\ pc' = [pc EXCEPT ![c] = "pop"]
  BY DEF unlock, HolderErased
<1>2. UNCHANGED <<SIE, stvec, running, NESTING_LEVEL, WERE_INTERRUPTS_ORIGINALLY_ENABLED,
                  seen, failed, found>>
  BY DEF unlock, level
<1>3. TypeOK'
  BY <1>1, <1>2 DEF IInv, TypeOK
<1>4. LevelCounts'
  <2>1. Cardinality(held'[c]) = Cardinality(held[c]) - 1 /\ Cardinality(held[c]) \in Nat
    BY <1>1, CountHeld DEF IInv, TypeOK
  <2>2. In(pc[c]) = 0 /\ In(pc'[c]) = 1
    BY <1>1 DEF In, Inside, IInv, TypeOK
  <2>3. \A d \in Codes : d # c => held'[d] = held[d] /\ pc'[d] = pc[d]
    BY <1>1 DEF IInv, TypeOK
  <2>4. \A d \in Codes : Cardinality(held[d]) \in Nat /\ In(pc[d]) \in Nat
    BY CountHeld DEF IInv, TypeOK, In
  <2>5. LevelOf(held', pc', failed') = LevelOf(held, pc, failed)
    BY <1>2, <2>1, <2>2, <2>3, <2>4, MutexAssumption DEF LevelOf, Codes, IInv, TypeOK
  <2> QED
    BY <1>2, <2>5, LevelForm, LevelFormNext DEF IInv
<1>5. HolderInv'
  <2>1. \A d \in Codes : pc[d] # "store"
    BY <1>1, OtherCode DEF IInv, Inside
  <2>2. \A d \in Codes : pc'[d] # "store"
    BY <1>1, <2>1 DEF IInv, TypeOK
  <2>3. \A d \in Codes : held'[d] = IF d = c THEN held[d] \ {l} ELSE held[d]
    BY <1>1 DEF IInv, TypeOK
  <2>4. \A k \in Locks : k # l =>
          is_locked'[k] = is_locked[k] /\ holding_hart'[k] = holding_hart[k]
    BY <1>1 DEF IInv, TypeOK
  <2>5. ~is_locked'[l]
    BY <1>1 DEF IInv, TypeOK
  <2>6. \A d \in Codes : l \notin held'[d] /\ held[d] \subseteq Locks /\ held'[d] \subseteq held[d]
    BY <1>1, <2>3 DEF IInv, HolderInv, TypeOK, Codes
  <2>7. \A k \in Locks : is_locked'[k] => \E d \in Codes : k \in held'[d]
    <3> SUFFICES ASSUME NEW k \in Locks, is_locked'[k]
                 PROVE  \E d \in Codes : k \in held'[d]
      OBVIOUS
    <3>1. k # l /\ is_locked[k]
      BY <2>4, <2>5
    <3>2. PICK d \in Codes : k \in held[d]
      BY <2>1, <3>1 DEF IInv, HolderInv
    <3> QED
      BY <2>3, <3>1, <3>2
  <2>8. \A d \in Codes : \A k \in held'[d] : is_locked'[k] /\ holding_hart'[k] = THIS_HART
    <3> SUFFICES ASSUME NEW d \in Codes, NEW k \in held'[d]
                 PROVE  is_locked'[k] /\ holding_hart'[k] = THIS_HART
      OBVIOUS
    <3>1. k \in held[d] /\ k \in Locks /\ k # l
      BY <2>6
    <3>2. is_locked[k] /\ holding_hart[k] = THIS_HART
      BY <3>1 DEF IInv, HolderInv
    <3> QED
      BY <2>4, <3>1, <3>2
  <2>9. held'["main"] \cap held'["irq"] = {}
    BY <2>6 DEF IInv, HolderInv, Codes
  <2> QED
    BY <2>2, <2>7, <2>8, <2>9 DEF HolderInv
<1>6. HandlerInv'
  BY <1>1, <1>2 DEF IInv, TypeOK, HandlerInv, Codes
<1>7. TryInv'
  BY <1>1, <1>2 DEF IInv, TypeOK, TryInv, Codes
<1>8. MaskInv'
  BY <1>2 DEF IInv, MaskInv
<1>9. SavedInv'
  BY <1>1, <1>2 DEF IInv, TypeOK, SavedInv, HandlerInv, Codes
<1> QED
  BY <1>3, <1>4, <1>5, <1>6, <1>7, <1>8, <1>9 DEF IInv

\* pop: at the outermost level of the kernel code SIE is back as it was, and a
\* handler's pop leaves interrupts off.
LEMMA PopInv ==
    ASSUME IInv, NEW c \in Codes, pop(c)
    PROVE  IInv'
<1>1. /\ running = c /\ pc[c] = "pop"
      /\ NESTING_LEVEL' = NESTING_LEVEL - 1
      /\ SIE' = (SIE \/ (NESTING_LEVEL = 1 /\ WERE_INTERRUPTS_ORIGINALLY_ENABLED))
      /\ pc' = [pc EXCEPT ![c] = "run"]
  BY DEF pop, Decreased, Restored
<1>2. UNCHANGED <<stvec, running, WERE_INTERRUPTS_ORIGINALLY_ENABLED, is_locked, holding_hart,
                  arg, seen, held, failed, found>>
  BY DEF pop, locks
<1>3. NESTING_LEVEL \in Nat /\ failed \in Nat /\ NESTING_LEVEL >= 1 + failed
  BY <1>1, LevelZero, MutexAssumption DEF IInv, Inside, TypeOK
<1>4. ~SIE
  BY <1>1, <1>3 DEF IInv, MaskInv
<1>5. SIE' = (NESTING_LEVEL = 1 /\ WERE_INTERRUPTS_ORIGINALLY_ENABLED)
  BY <1>1, <1>4
<1>6. TypeOK'
  <2>1. SIE' \in BOOLEAN
    BY <1>5
  <2>2. NESTING_LEVEL' \in Nat
    BY <1>1, <1>3
  <2>3. pc' \in [Codes -> {"run", "push", "trypush", "lock", "try", "store", "pop", "entry"}]
    BY <1>1 DEF IInv, TypeOK
  <2> QED
    BY <1>2, <2>1, <2>2, <2>3 DEF IInv, TypeOK
<1>7. LevelCounts'
  <2>1. In(pc[c]) = 1 /\ In(pc'[c]) = 0
    BY <1>1 DEF In, Inside, IInv, TypeOK
  <2>2. \A d \in Codes : d # c => pc'[d] = pc[d]
    BY <1>1 DEF IInv, TypeOK
  <2>3. \A d \in Codes : Cardinality(held[d]) \in Nat /\ In(pc[d]) \in Nat
    BY CountHeld DEF IInv, TypeOK, In
  <2>4. LevelOf(held', pc', failed') = LevelOf(held, pc, failed) - 1
    BY <1>2, <1>3, <2>1, <2>2, <2>3 DEF LevelOf, Codes
  <2> QED
    BY <1>1, <2>4, LevelForm, LevelFormNext DEF IInv
<1>8. HolderInv'
  BY <1>1, <1>2 DEF IInv, TypeOK, HolderInv
<1>9. c = "irq" => ~SIE'
  <2>1. c = "irq" => ~WERE_INTERRUPTS_ORIGINALLY_ENABLED
    BY <1>1, <1>3 DEF IInv, HandlerInv
  <2> QED
    BY <1>5, <2>1, Zenon
<1>10. HandlerInv'
  <2>1. NESTING_LEVEL' > 0 => NESTING_LEVEL > 0
    BY <1>1, <1>3
  <2> QED
    BY <1>1, <1>2, <1>9, <2>1 DEF IInv, TypeOK, HandlerInv, Codes, Inside
<1>11. TryInv'
  BY <1>1, <1>2 DEF IInv, TypeOK, TryInv, Codes
<1>12. MaskInv'
  <2>1. SIE' => NESTING_LEVEL = 1
    BY <1>5, Zenon
  <2>2. NESTING_LEVEL = 1 => NESTING_LEVEL' = 0
    BY <1>1
  <2> QED
    BY <1>2, <2>1, <2>2 DEF IInv, MaskInv
<1>13. SavedInv'
  <2>1. c = "main" /\ failed = 0 => WERE_INTERRUPTS_ORIGINALLY_ENABLED = found
    BY <1>1, <1>3 DEF IInv, SavedInv, Codes
  <2>2. NESTING_LEVEL' = 0 <=> NESTING_LEVEL = 1
    BY <1>1, <1>3
  <2>3. c = "main" /\ failed = 0 /\ NESTING_LEVEL' = 0 => SIE' = found
    BY <1>5, <2>1, <2>2 DEF IInv, TypeOK
  <2>4. pc'["main"] \in {"push", "trypush"} => c = "irq" /\ pc["main"] = pc'["main"]
    BY <1>1 DEF IInv, TypeOK, Codes
  <2> QED
    BY <1>1, <1>2, <2>1, <2>3, <2>4 DEF IInv, SavedInv
<1> QED
  BY <1>6, <1>7, <1>8, <1>10, <1>11, <1>12, <1>13 DEF IInv

-----------------------------------------------------------------------------
(* The steps of traps *)

\* What the trap steps leave alone.
LEMMA TrapStepsLocks ==
    ASSUME IInv, TrapSteps \/ UserModeSteps
    PROVE  /\ UNCHANGED <<NESTING_LEVEL, WERE_INTERRUPTS_ORIGINALLY_ENABLED, is_locked,
                          holding_hart, arg, seen, held, failed>>
           /\ \A c \in Codes : pc'[c] = pc[c] \/ {pc'[c], pc[c]} \cap Inside = {}
           /\ LevelCounts' /\ HolderInv' /\ TryInv'
<1>1. /\ UNCHANGED <<NESTING_LEVEL, WERE_INTERRUPTS_ORIGINALLY_ENABLED, is_locked,
                     holding_hart, arg, seen, held, failed>>
      /\ \/ pc' = pc
         \/ pc["main"] = "run" /\ pc' = [pc EXCEPT !["main"] = "entry"]
         \/ pc["main"] = "entry" /\ pc' = [pc EXCEPT !["main"] = "run"]
  BY DEF TrapSteps, UserModeSteps, Interrupt, InterruptReturns, UserTraps, SetUpTransition,
         set_supervisor_mode_trap_handler, ReturnToUser, level, locks, locals, IInv, HandlerInv
<1>2. \A c \in Codes : pc'[c] = pc[c] \/ {pc'[c], pc[c]} \subseteq {"run", "entry"}
  BY <1>1 DEF IInv, TypeOK
<1>3. \A c \in Codes : pc'[c] = pc[c] \/ {pc'[c], pc[c]} \cap Inside = {}
  BY <1>2 DEF Inside
<1>4. LevelCounts'
  <2>1. \A c \in Codes : In(pc'[c]) = In(pc[c])
    BY <1>3 DEF In
  <2>2. LevelOf(held', pc', failed') = LevelOf(held, pc, failed)
    BY <1>1, <2>1 DEF LevelOf, Codes
  <2> QED
    BY <1>1, <2>2, LevelForm, LevelFormNext DEF IInv
<1>5. HolderInv'
  <2>1. \A c \in Codes : pc'[c] = "store" <=> pc[c] = "store"
    BY <1>2
  <2> QED
    BY <1>1, <2>1 DEF IInv, HolderInv
<1>6. TryInv'
  BY <1>1, <1>2 DEF IInv, TryInv, Codes
<1> QED
  BY <1>1, <1>3, <1>4, <1>5, <1>6

\* An interrupt comes in only where the level is zero; when its handler is over,
\* interrupts are on as before.
LEMMA InterruptInv ==
    ASSUME IInv, Interrupt \/ InterruptReturns
    PROVE  IInv'
<1>1. /\ UNCHANGED <<NESTING_LEVEL, WERE_INTERRUPTS_ORIGINALLY_ENABLED, is_locked,
                     holding_hart, arg, seen, held, failed>>
      /\ LevelCounts' /\ HolderInv' /\ TryInv'
  BY TrapStepsLocks DEF TrapSteps
<1>2. UNCHANGED <<stvec, pc, found>>
  BY DEF Interrupt, InterruptReturns, locals
<1>3. CASE Interrupt
  <2>1. running = "main" /\ SIE /\ stvec = "supervisor" /\ running' = "irq" /\ SIE' = FALSE
    BY <1>3 DEF Interrupt
  <2>2. NESTING_LEVEL = 0
    BY <2>1 DEF IInv, MaskInv, Codes
  <2>3. failed = 0 /\ \A c \in Codes : held[c] = {} /\ pc[c] \notin Inside
    BY <2>2, LevelZero DEF IInv
  <2>4. found
    BY <2>1, <2>2, <2>3 DEF IInv, SavedInv, Codes
  <2>5. TypeOK'
    BY <1>1, <1>2, <2>1 DEF IInv, TypeOK, Codes
  <2>6. HandlerInv'
    BY <1>1, <1>2, <2>1, <2>2, <2>3, <2>4 DEF IInv, HandlerInv, Codes
  <2>7. MaskInv' /\ SavedInv'
    BY <1>1, <1>2, <2>1, <2>2, <2>3 DEF IInv, MaskInv, SavedInv, Codes
  <2> QED
    BY <1>1, <2>5, <2>6, <2>7 DEF IInv
<1>4. CASE InterruptReturns
  <2>1. /\ running = "irq" /\ pc["irq"] = "run" /\ held["irq"] = {}
        /\ running' = "main" /\ SIE' = TRUE
    BY <1>4 DEF InterruptReturns
  <2>2. held["main"] = {} /\ pc["main"] \notin Inside /\ failed = 0 /\ found
        /\ stvec = "supervisor"
    BY <2>1 DEF IInv, HandlerInv
  <2>3. NESTING_LEVEL = 0
    BY <2>1, <2>2, LevelZero DEF IInv, Codes, Inside
  <2>4. TypeOK'
    BY <1>1, <1>2, <2>1 DEF IInv, TypeOK, Codes
  <2>5. HandlerInv'
    BY <1>1, <1>2, <2>1 DEF HandlerInv
  <2>6. MaskInv'
    BY <1>1, <1>2, <2>1, <2>2, <2>3 DEF MaskInv
  <2>7. SavedInv'
    <3>1. SIE' = found'
      BY <1>2, <2>1, <2>2 DEF IInv, TypeOK
    <3>2. ~(NESTING_LEVEL' > 0)
      BY <1>1, <2>3
    <3>3. pc'["main"] \in {"push", "trypush"} /\ held'["main"] = {} => seen'["main"] = found'
      BY <1>1, <1>2, <2>1, <2>2 DEF IInv, SavedInv, Codes
    <3> QED
      BY <3>1, <3>2, <3>3 DEF SavedInv
  <2> QED
    BY <1>1, <2>4, <2>5, <2>6, <2>7 DEF IInv
<1> QED
  BY <1>3, <1>4

\* The way into the kernel and out of it, where the kernel holds no lock.
LEMMA UserModeInv ==
    ASSUME IInv, UserTraps \/ set_supervisor_mode_trap_handler \/ UserModeSteps
    PROVE  IInv'
<1>1. /\ UNCHANGED <<NESTING_LEVEL, WERE_INTERRUPTS_ORIGINALLY_ENABLED, is_locked,
                     holding_hart, arg, seen, held, failed>>
      /\ LevelCounts' /\ HolderInv' /\ TryInv'
  BY TrapStepsLocks DEF TrapSteps
<1>2. running \in {"main", "user"} /\ pc["irq"] = "run" /\ held["irq"] = {}
  BY DEF UserTraps, set_supervisor_mode_trap_handler, UserModeSteps, SetUpTransition,
         ReturnToUser, IInv, HandlerInv
<1>3. held["main"] = {} /\ pc["main"] = "run" => NESTING_LEVEL = failed
  BY <1>2, LevelZero DEF IInv, Codes, Inside
<1>4. failed \in Nat
  BY MutexAssumption DEF IInv, TypeOK
<1>5. CASE UserTraps
  <2>1. /\ running = "user" /\ running' = "main" /\ SIE' = FALSE /\ found' = FALSE
        /\ pc' = [pc EXCEPT !["main"] = "entry"] /\ stvec' = stvec
    BY <1>5 DEF UserTraps
  <2>2. held["main"] = {} /\ pc["main"] = "run"
    BY <2>1 DEF IInv, HandlerInv
  <2>3. TypeOK'
    BY <1>1, <2>1 DEF IInv, TypeOK, Codes
  <2>4. pc'["irq"] = "run" /\ pc'["main"] = "entry"
    BY <1>2, <2>1 DEF IInv, TypeOK, Codes
  <2>5. HandlerInv' /\ MaskInv'
    BY <1>1, <1>2, <2>1, <2>4 DEF HandlerInv, MaskInv
  <2>6. SavedInv'
    <3>1. SIE' = found' /\ pc'["main"] = "entry"
      BY <2>1, <2>4
    <3>2. failed' = 0 => ~(NESTING_LEVEL' > 0)
      BY <1>1, <1>3, <2>2
    <3> QED
      BY <3>1, <3>2 DEF SavedInv
  <2> QED
    BY <1>1, <2>3, <2>5, <2>6 DEF IInv
<1>6. CASE set_supervisor_mode_trap_handler
  <2>1. /\ running = "main" /\ pc["main"] = "entry" /\ stvec' = "supervisor"
        /\ pc' = [pc EXCEPT !["main"] = "run"] /\ UNCHANGED <<SIE, running, found>>
    BY <1>6 DEF set_supervisor_mode_trap_handler
  <2>2. TypeOK'
    BY <1>1, <2>1 DEF IInv, TypeOK, Codes
  <2>3. pc'["irq"] = "run" /\ pc'["main"] = "run"
    BY <1>2, <2>1 DEF IInv, TypeOK, Codes
  <2>4. HandlerInv' /\ MaskInv'
    BY <1>1, <1>2, <2>1, <2>3 DEF IInv, HandlerInv, MaskInv
  <2>5. SavedInv'
    BY <1>1, <2>1, <2>3 DEF IInv, SavedInv
  <2> QED
    BY <1>1, <2>2, <2>4, <2>5 DEF IInv
<1>7. CASE SetUpTransition
  <2>1. /\ running = "main" /\ pc["main"] = "run" /\ held["main"] = {}
        /\ stvec' = "user" /\ SIE' = FALSE /\ found' = FALSE /\ UNCHANGED <<running, pc>>
    BY <1>7 DEF SetUpTransition, Masked, locals
  <2>2. TypeOK'
    BY <1>1, <2>1 DEF IInv, TypeOK
  <2>3. HandlerInv' /\ MaskInv'
    BY <1>1, <1>2, <2>1 DEF HandlerInv, MaskInv
  <2>4. SavedInv'
    <3>1. SIE' = found' /\ pc'["main"] = "run"
      BY <2>1
    <3>2. failed' = 0 => ~(NESTING_LEVEL' > 0)
      BY <1>1, <1>3, <2>1
    <3> QED
      BY <3>1, <3>2 DEF SavedInv
  <2> QED
    BY <1>1, <2>2, <2>3, <2>4 DEF IInv
<1>8. CASE ReturnToUser
  <2>1. /\ pc["main"] = "run" /\ held["main"] = {} /\ running' = "user"
        /\ SIE' = TRUE /\ UNCHANGED <<stvec, found, pc>>
    BY <1>8 DEF ReturnToUser, locals
  <2>2. TypeOK'
    BY <1>1, <2>1 DEF IInv, TypeOK
  <2>3. HandlerInv' /\ MaskInv' /\ SavedInv'
    BY <1>1, <1>2, <2>1 DEF HandlerInv, MaskInv, SavedInv, Codes
  <2> QED
    BY <1>1, <2>2, <2>3 DEF IInv
<1> QED
  BY <1>5, <1>6, <1>7, <1>8 DEF UserModeSteps

\* A machine that has panicked, and stuttering.
LEMMA QuietInv ==
    ASSUME IInv, UNCHANGED vars
    PROVE  IInv'
<1>1. UNCHANGED <<SIE, stvec, running, NESTING_LEVEL, WERE_INTERRUPTS_ORIGINALLY_ENABLED,
                  is_locked, holding_hart, pc, arg, seen, held, failed, found>>
  BY DEF vars, level, locks, locals
<1> QED
  BY <1>1 DEF IInv, TypeOK, LevelCounts, HolderInv, HandlerInv, TryInv, MaskInv, SavedInv

\* Every step of kernel code, handlers and traps preserves the invariant.
LEMMA NextInv == IInv /\ [Next]_vars => IInv'
<1> SUFFICES ASSUME IInv, [Next]_vars PROVE IInv'
  OBVIOUS
<1>1. ASSUME NEW c \in Codes, NEW l \in Wanted(c), lock(c, l) PROVE IInv'
  BY <1>1, CallInv
<1>2. ASSUME NEW c \in Codes, NEW l \in Wanted(c), unlock(c, l) PROVE IInv'
  <2>1. l \in Locks
    BY MutexAssumption DEF Wanted
  <2> QED
    BY <1>2, <2>1, UnlockInv
<1>3. ASSUME NEW c \in Codes, CallSteps(c) PROVE IInv'
  BY <1>3, PushDisablesInv, LockPanicsInv, TakesInv, TryLockFailsInv, LockStoresInv, PopInv
    DEF CallSteps
<1>4. ASSUME NEW l \in Locks, try_lock("main", l) PROVE IInv'
  BY <1>4, CallInv
<1>5. CASE TrapSteps \/ UserModeSteps
  BY <1>5, InterruptInv, UserModeInv DEF TrapSteps
<1>6. CASE Halted \/ UNCHANGED vars
  BY <1>6, QuietInv DEF Halted
<1> QED
  BY <1>1, <1>2, <1>3, <1>4, <1>5, <1>6 DEF Next

-----------------------------------------------------------------------------
(* The theorems *)

\* What the invariant says of interrupts and locks.
LEMMA InvGivesSafety ==
    ASSUME IInv
    PROVE  /\ LockedMeansMasked
           /\ InterruptsRestored
           /\ NoInterruptThroughUserVector
<1>1. LockedMeansMasked
  <2> SUFFICES ASSUME running \in Codes, NEW l \in Locks, is_locked[l], SIE PROVE FALSE
    BY DEF LockedMeansMasked
  <2>1. NESTING_LEVEL = 0
    BY DEF IInv, MaskInv
  <2>2. \A c \in Codes : held[c] = {} /\ pc[c] # "store"
    BY <2>1, LevelZero DEF IInv, Inside
  <2> QED
    BY <2>2 DEF IInv, HolderInv
<1>2. InterruptsRestored
  <2> SUFFICES ASSUME running = "main", pc["main"] = "run", held["main"] = {}, failed = 0
               PROVE  SIE = found
    BY DEF InterruptsRestored
  <2>1. NESTING_LEVEL = 0
    BY LevelZero DEF IInv, HandlerInv, Codes, Inside
  <2> QED
    BY <2>1 DEF IInv, SavedInv, Codes
<1>3. NoInterruptThroughUserVector
  <2> SUFFICES ASSUME running \in Codes, stvec = "user", SIE PROVE FALSE
    BY DEF NoInterruptThroughUserVector
  <2>1. NESTING_LEVEL = 0 /\ ~found
    BY DEF IInv, MaskInv
  <2>2. failed = 0 /\ running = "main"
    BY <2>1, LevelZero DEF IInv, HandlerInv, Codes
  <2> QED
    BY <2>1, <2>2 DEF IInv, SavedInv, Codes
<1> QED
  BY <1>1, <1>2, <1>3

\* The inductive invariant holds in every reachable state.
THEOREM Invariant == Spec => []IInv
<1> QED BY InitInv, NextInv, PTL DEF Spec

\* The types of the lock words, the nesting level and the trap registers.
THEOREM TypeCorrectness == Spec => []TypeOK
<1>1. IInv => TypeOK
  BY DEF IInv
<1> QED BY <1>1, Invariant, PTL

\* NESTING_LEVEL counts locks, unfinished calls and failed try_locks (push, pop and
\* try_lock of the sync crate).
THEOREM LevelIsExact == Spec => []LevelCounts
<1>1. IInv => LevelCounts
  BY DEF IInv
<1> QED BY <1>1, Invariant, PTL

\* No handler runs while a lock is taken (lock and unlock).
THEOREM LocksMaskInterrupts == Spec => []LockedMeansMasked
<1>1. IInv => LockedMeansMasked
  BY InvGivesSafety
<1> QED BY <1>1, Invariant, PTL

\* Behind the last unlock interrupts are as before the first lock (push and pop).
THEOREM PopRestores == Spec => []InterruptsRestored
<1>1. IInv => InterruptsRestored
  BY InvGivesSafety
<1> QED BY <1>1, Invariant, PTL

\* The kernel never takes an interrupt through the trap vector of user mode
\* (set_up_supervisor_to_user_mode_transition, user_trap).
THEOREM UserVectorIsSafe == Spec => []NoInterruptThroughUserVector
<1>1. IInv => NoInterruptThroughUserVector
  BY InvGivesSafety
<1> QED BY <1>1, Invariant, PTL

-----------------------------------------------------------------------------
(* The reader-writer lock: the inductive invariant *)

\* The number in the Mutex is that of the read guards; a writer keeps the Mutex and
\* found no readers; an operation under way still may do what it was called for.
CountInv ==
    /\ num_readers = readers
    /\ writing => RW \in held["main"] /\ readers = 0
    /\ op \in {"lock_shared", "try_lock_shared"} => readers < MaxReaders
    /\ op \in {"unlock_shared", "spin"} => readers > 0

RwInv == RwTypeOK /\ CountInv

\* The lock made by new has no readers and no writer.
LEMMA RwInitInv == RwInit => RwInv
<1> SUFFICES ASSUME RwInit PROVE RwInv
  OBVIOUS
<1>1. TypeOK
  BY InitInv DEF RwInit, IInv
<1>2. RwTypeOK
  <2>1. writing \in BOOLEAN
    BY DEF RwInit
  <2>2. num_readers \in 0..MaxReaders /\ readers \in 0..MaxReaders /\ op = "none"
    BY RwLockAssumption DEF RwInit
  <2> QED
    BY <1>1, <2>1, <2>2 DEF RwTypeOK
<1>3. CountInv
  BY DEF RwInit, CountInv
<1> QED
  BY <1>2, <1>3 DEF RwInv

-----------------------------------------------------------------------------
(* The steps *)

\* Every step is one of module Mutex, or leaves it alone.
LEMMA RwNextIsNext == [RwNext]_rwvars => [Next]_vars
<1> SUFFICES ASSUME [RwNext]_rwvars PROVE [Next]_vars
  OBVIOUS
<1>1. RW \in Wanted("main") /\ RW \in Locks /\ "main" \in Codes /\ "irq" \in Codes
      /\ Wanted("main") = Locks
  BY RwLockAssumption DEF Wanted, Codes
<1>2. (\E l \in Locks : lock("main", l) \/ unlock("main", l) \/ try_lock("main", l)) => Next
  BY <1>1 DEF Next
<1>3. CASE UNCHANGED rwvars
  BY <1>3 DEF rwvars
<1>4. CASE \E o \in Operations : Begin(o)
  <2>1. lock("main", RW) \/ try_lock("main", RW)
    BY <1>4 DEF Begin
  <2> QED
    BY <1>1, <1>2, <2>1
<1>5. CASE Shared \/ Unshared \/ ExclusiveFails \/ unlock_exclusive \/ Spin
  <2>1. unlock("main", RW) \/ lock("main", RW)
    BY <1>5 DEF Shared, Unshared, ExclusiveFails, unlock_exclusive, Spin
  <2> QED
    BY <1>1, <1>2, <2>1
<1>6. CASE SharedFails \/ Exclusive
  BY <1>6 DEF SharedFails, Exclusive
<1>7. CASE \E l \in Locks \ {RW} : OtherLock(l)
  BY <1>2, <1>7 DEF OtherLock
<1>8. CASE HandlerLocks
  BY <1>1, <1>8 DEF HandlerLocks, Next
<1>9. CASE \E c \in Codes : CallSteps(c)
  BY <1>9 DEF Next
<1>10. CASE TrapSteps \/ ToUserMode \/ Halted
  BY <1>10 DEF ToUserMode, Next
<1> QED
  BY <1>3, <1>4, <1>5, <1>6, <1>7, <1>8, <1>9, <1>10 DEF RwNext

\* Only a step that drops its guard takes RW from the kernel code.
LEMMA GuardStays ==
    ASSUME IInv, NEW c \in Codes, NEW l \in Locks,
           \/ lock(c, l) \/ try_lock(c, l) \/ CallSteps(c) \/ TrapSteps \/ UserModeSteps
           \/ unlock(c, l) /\ (c = "irq" \/ l # RW)
           \/ Halted \/ UNCHANGED vars,
           RW \in held["main"]
    PROVE  RW \in held'["main"]
<1>1. \/ held' = held
      \/ held' = [held EXCEPT ![c] = @ \cup {arg[c]}]
      \/ held' = [held EXCEPT ![c] = @ \ {l}] /\ (c = "irq" \/ l # RW)
  BY DEF lock, try_lock, CallSteps, PushDisables, LockPanics, LockTakes, TryLockTakes,
         TryLockFails, LockStores, pop, unlock, TrapSteps, Interrupt, InterruptReturns,
         UserTraps, set_supervisor_mode_trap_handler, UserModeSteps, SetUpTransition,
         ReturnToUser, Halted, vars, locals
<1> QED
  BY <1>1 DEF IInv, TypeOK, Codes

\* The steps of module Mutex outside of the operations of RwLock.
LEMMA OthersInv ==
    ASSUME IInv, RwInv, TypeOK', UNCHANGED rw,
           \/ \E l \in Locks \ {RW} : OtherLock(l)
           \/ HandlerLocks
           \/ \E c \in Codes : CallSteps(c)
           \/ TrapSteps \/ ToUserMode \/ Halted \/ UNCHANGED vars
    PROVE  RwInv'
<1>1. UNCHANGED <<num_readers, op, readers, writing>>
  BY DEF rw
<1>2. RW \in held["main"] => RW \in held'["main"]
  <2> USE MutexAssumption, RwLockAssumption DEF Codes
  <2>1. ASSUME NEW l \in Locks \ {RW}, OtherLock(l) PROVE RW \in held["main"] => RW \in held'["main"]
    BY <2>1, GuardStays DEF OtherLock
  <2>2. CASE HandlerLocks
    BY <2>2, GuardStays DEF HandlerLocks, Wanted
  <2>3. ASSUME NEW c \in Codes, CallSteps(c) PROVE RW \in held["main"] => RW \in held'["main"]
    BY <2>3, GuardStays
  <2>4. CASE TrapSteps \/ ToUserMode \/ Halted \/ UNCHANGED vars
    BY <2>4, GuardStays DEF ToUserMode
  <2> QED
    BY <2>1, <2>2, <2>3, <2>4
<1>3. RwTypeOK'
  BY <1>1 DEF RwInv, RwTypeOK
<1>4. CountInv'
  BY <1>1, <1>2 DEF RwInv, CountInv
<1> QED
  BY <1>3, <1>4 DEF RwInv

\* An operation starts, with the lock or the try_lock of RW: no guard and no count
\* changes before that is through.
LEMMA BeginInv ==
    ASSUME IInv, RwInv, TypeOK', NEW o \in Operations, Begin(o)
    PROVE  RwInv'
<1>1. /\ op' = o /\ held' = held
      /\ UNCHANGED <<num_readers, readers, writing>>
      /\ o \in {"lock_shared", "try_lock_shared"} => readers < MaxReaders
      /\ o = "unlock_shared" => readers > 0
  BY DEF Begin, Calls, lock, try_lock
<1>2. RwTypeOK'
  BY <1>1 DEF RwInv, RwTypeOK
<1>3. o # "spin"
  BY DEF Operations
<1>4. CountInv'
  BY <1>1, <1>3 DEF RwInv, CountInv
<1> QED
  BY <1>2, <1>4 DEF RwInv

\* A reader is counted in or out while nobody writes.
LEMMA SharedInv ==
    ASSUME IInv, RwInv, TypeOK', Shared \/ Unshared
    PROVE  RwInv'
<1> USE RwLockAssumption
<1>1. readers \in 0..MaxReaders /\ num_readers = readers /\ MaxReaders \in Nat
  BY DEF RwInv, RwTypeOK, CountInv
<1>2. op' = "none" /\ writing' = writing
  BY DEF Shared, Unshared
<1>3. ~writing
  BY <1>1 DEF Shared, Unshared, Counting, RwInv, CountInv
<1>4. num_readers' = readers' /\ readers' \in 0..MaxReaders
  <2>1. CASE Shared
    <3>1. readers < MaxReaders /\ num_readers' = num_readers + 1 /\ readers' = readers + 1
      BY <2>1 DEF Shared, Counting, RwInv, CountInv
    <3> QED
      BY <1>1, <3>1
  <2>2. CASE Unshared
    <3>1. readers > 0 /\ num_readers' = num_readers - 1 /\ readers' = readers - 1
      BY <2>2 DEF Unshared, Counting, CountedOut, RwInv, CountInv
    <3> QED
      BY <1>1, <3>1
  <2> QED
    BY <2>1, <2>2
<1>5. RwTypeOK'
  BY <1>2, <1>4 DEF RwInv, RwTypeOK
<1>6. CountInv'
  BY <1>2, <1>3, <1>4 DEF CountInv
<1> QED
  BY <1>5, <1>6 DEF RwInv

\* The outcomes of the two operations of a writer and of a try_lock_shared that
\* fails, the start of the next round, and the end of the write guard.
LEMMA ExclusiveInv ==
    ASSUME IInv, RwInv, TypeOK',
           SharedFails \/ Exclusive \/ ExclusiveFails \/ Spin \/ unlock_exclusive
    PROVE  RwInv'
<1>1. readers \in 0..MaxReaders /\ num_readers = readers /\ MaxReaders \in Nat
  BY RwLockAssumption DEF RwInv, RwTypeOK, CountInv
<1>2. UNCHANGED <<num_readers, readers>>
  BY DEF SharedFails, Exclusive, ExclusiveFails, Spin, unlock_exclusive
<1>3. CASE SharedFails
  <2>1. op' = "none" /\ writing' = writing /\ held' = held
    BY <1>3 DEF SharedFails, vars, locals
  <2> QED
    BY <1>2, <2>1 DEF RwInv, RwTypeOK, CountInv
<1>4. CASE Exclusive
  <2>1. op' = "none" /\ writing' = TRUE /\ held' = held /\ num_readers = 0
        /\ RW \in held["main"]
    BY <1>4 DEF Exclusive, Counting, NoReaders, vars, locals
  <2>2. RwTypeOK'
    BY <1>2, <2>1 DEF RwInv, RwTypeOK
  <2>3. CountInv'
    BY <1>1, <1>2, <2>1 DEF CountInv
  <2> QED
    BY <2>2, <2>3 DEF RwInv
<1>5. CASE ExclusiveFails
  <2>1. op' \in {"spin", "none"} /\ writing' = writing /\ num_readers # 0
    BY <1>5 DEF ExclusiveFails, NoReaders
  <2>2. readers > 0 /\ ~writing
    BY <1>1, <2>1 DEF RwInv, CountInv
  <2>3. RwTypeOK'
    BY <1>2, <2>1 DEF RwInv, RwTypeOK
  <2>4. CountInv'
    BY <1>1, <1>2, <2>1, <2>2 DEF CountInv
  <2> QED
    BY <2>3, <2>4 DEF RwInv
<1>6. CASE Spin
  <2>1. op' = "lock_exclusive" /\ writing' = writing /\ held' = held
    BY <1>6 DEF Spin, lock
  <2> QED
    BY <1>2, <2>1 DEF RwInv, RwTypeOK, CountInv, Operations
<1>7. CASE unlock_exclusive
  <2>1. op' = op /\ writing' = FALSE
    BY <1>7 DEF unlock_exclusive
  <2>2. RwTypeOK'
    BY <1>2, <2>1 DEF RwInv, RwTypeOK
  <2>3. CountInv'
    BY <1>2, <2>1 DEF RwInv, CountInv
  <2> QED
    BY <2>2, <2>3 DEF RwInv
<1> QED
  BY <1>3, <1>4, <1>5, <1>6, <1>7

\* Every step preserves what is counted.
LEMMA RwNextInv == IInv /\ RwInv /\ [RwNext]_rwvars => RwInv'
<1> SUFFICES ASSUME IInv, RwInv, [RwNext]_rwvars PROVE RwInv'
  OBVIOUS
<1>1. TypeOK'
  BY NextInv, RwNextIsNext DEF IInv
<1>2. CASE \E o \in Operations : Begin(o)
  BY <1>1, <1>2, BeginInv
<1>3. CASE Shared \/ Unshared
  BY <1>1, <1>3, SharedInv
<1>4. CASE SharedFails \/ Exclusive \/ ExclusiveFails \/ Spin \/ unlock_exclusive
  BY <1>1, <1>4, ExclusiveInv
<1>5. CASE \E l \in Locks \ {RW} : OtherLock(l)
  BY <1>1, <1>5, OthersInv DEF OtherLock
<1>6. CASE HandlerLocks \/ ToUserMode
  BY <1>1, <1>6, OthersInv DEF HandlerLocks, ToUserMode
<1>7. CASE (\E c \in Codes : CallSteps(c)) /\ UNCHANGED rw
  BY <1>1, <1>7, OthersInv
<1>8. CASE (TrapSteps \/ Halted) /\ UNCHANGED rw
  BY <1>1, <1>8, OthersInv
<1>9. CASE UNCHANGED rwvars
  BY <1>1, <1>9, OthersInv DEF rwvars
<1> QED
  BY <1>2, <1>3, <1>4, <1>5, <1>6, <1>7, <1>8, <1>9 DEF RwNext

-----------------------------------------------------------------------------
(* The theorems *)

\* RwSpec only adds the guards of RwLock to Spec: everything proved of Spec holds of
\* RwSpec too.
LEMMA RwImplementsMutex == RwSpec => Spec
<1>1. RwInit => Init
  BY DEF RwInit
<1> QED
  BY <1>1, RwNextIsNext, PTL DEF RwSpec, Spec

\* The inductive invariant holds in every reachable state.
THEOREM RwInvariant == RwSpec => [](IInv /\ RwInv)
<1>1. RwInit => IInv /\ RwInv
  BY InitInv, RwInitInv DEF RwInit
<1>2. (IInv /\ RwInv) /\ [RwNext]_rwvars => (IInv /\ RwInv)'
  BY NextInv, RwNextIsNext, RwNextInv
<1> QED BY <1>1, <1>2, PTL DEF RwSpec

\* The types of the lock and of the number of readers, which never gets below zero.
THEOREM RwTypeCorrectness == RwSpec => []RwTypeOK
<1>1. RwInv => RwTypeOK
  BY DEF RwInv
<1> QED BY <1>1, RwInvariant, PTL

\* Nobody reads while somebody writes, and no interrupt comes in (lock_exclusive
\* and force_unlock of rwlock.rs).
THEOREM WritersAreAlone == RwSpec => []WriterAlone
<1>1. IInv /\ RwInv => WriterAlone
  <2> SUFFICES ASSUME IInv, RwInv, writing
               PROVE  readers = 0 /\ is_current_hart_holding(RW) /\ (running \in Codes => ~SIE)
    BY DEF WriterAlone
  <2>1. RW \in held["main"] /\ readers = 0 /\ RW \in Locks
    BY RwLockAssumption DEF RwInv, CountInv
  <2>2. is_locked[RW] /\ holding_hart[RW] = THIS_HART
    BY <2>1 DEF IInv, HolderInv, Codes
  <2>3. running \in Codes => ~SIE
    BY <2>1, <2>2, InvGivesSafety DEF LockedMeansMasked
  <2> QED
    BY <2>1, <2>2, <2>3 DEF is_current_hart_holding
<1> QED BY <1>1, RwInvariant, PTL

\* A writer spins only for a read guard of its own (lock_exclusive).
THEOREM WritersSpinForThemselves == RwSpec => []WriterWaitsForItself
<1>1. RwInv => WriterWaitsForItself
  BY DEF RwInv, CountInv, WriterWaitsForItself
<1> QED BY <1>1, RwInvariant, PTL
=============================================================================

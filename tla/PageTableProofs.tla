-------------------------- MODULE PageTableProofs --------------------------
(***************************************************************************)
(* Proofs about the page tables, for any number of levels, entries and     *)
(* processes and any amount of memory: what PageTable does to the memory   *)
(* are calls and writes that PageAllocator allows, the tables of all       *)
(* processes form a forest whose leaves are data, and so no program ever   *)
(* maps a table, and exit gives back the tables and nothing else.          *)
(***************************************************************************)
EXTENDS PageTable, PageAllocatorProofs

-----------------------------------------------------------------------------
(* A forest of tables *)

AnyFrame == Addresses \cup {Nil, TrampolineCode}
AnyEntry == [kind : {"zero", "bare", "leaf", "junk"}, to : AnyFrame]

\* The levels of the tables.
LevelMap == [Addresses -> 0..(Levels - 1)]

\* Entry e of table t: nothing, a table one level below, or, on the lowest level, a
\* frame of the data D.
EntryOK(e, t, T, D, lev) ==
    \/ e.kind = "zero"
    \/ /\ e.kind = "bare" /\ e.to \in T
       /\ lev[t] > 0 /\ lev[e.to] = lev[t] - 1
    \/ /\ e.kind = "leaf" /\ e.to \in D \cup {TrampolineCode}
       /\ lev[t] = 0

\* Entry i of table s in P is the link to table t.
Link(P, s, i, t) == P[s][i].kind = "bare" /\ P[s][i].to = t

\* The frames T are tables on the levels lev, and their entries lead to each other and
\* to D.  All but the tops have one entry that leads to them, and the tops have none.
Forest(P, T, D, tops, lev) ==
    /\ P \in [Addresses -> [Indices -> AnyEntry]]
    /\ lev \in LevelMap
    /\ tops \subseteq T /\ T \subseteq Addresses /\ D \subseteq Addresses
    /\ \A t \in T : \A i \in Indices : EntryOK(P[t][i], t, T, D, lev)
    /\ \A s, t, u \in T : \A i, j \in Indices :
         Link(P, s, i, u) /\ Link(P, t, j, u) => s = t /\ i = j
    /\ \A t \in T : t \in tops <=> ~ \E s \in T : \E i \in Indices : Link(P, s, i, t)

-----------------------------------------------------------------------------
(* The inductive invariant *)

TableFrames == {t \in Addresses : Block(t, 1) \in live \ data}
DataFrames == UNION {BlockPages(b) : b \in data}

\* The processes that have a root.
Active == {p \in Spaces : space[p] \in {"new", "loading", "living", "failed", "exiting"}}

\* The table that the walk has allocated and not linked yet.
Unlinked == IF walk = NoWalk THEN {} ELSE {walk.child} \ {Nil}
Tops == {root[p] : p \in Active} \cup Unlinked

MappedThings == {"segment", "stack", "trampoline", "trapframe", "kucom", "heap"}
Regional == [what : MappedThings, va : Int, size : Wanted,
             flags : (SUBSET {"R", "W", "X"}) \ {{}}]

\* What the kernel relies on and does not test (process.rs:161-175): every segment of every
\* program can be read, written or executed.  MCPageTable's FlaglessProgram shows that
\* CleansTablesOnly fails without it.
FlagsGiven == \A program \in Programs : \A i \in 1..Len(program) : program[i].flags # {}

ControlInv ==
    /\ space \in [Spaces -> {"none", "new", "loading", "living", "failed", "exiting", "gone"}]
    /\ root \in [Spaces -> Addresses \cup {Nil}]
    /\ trapframe \in [Spaces -> Addresses \cup {Nil}]
    /\ heap_start \in [Spaces -> Nat]
    /\ who \in Spaces \cup {0}
    /\ todo \in Seq(Regional)
    /\ stopped \in BOOLEAN
    /\ who = 0 => todo = <<>> /\ path = <<>>
    /\ who # 0 => space[who] \in {"new", "loading", "living", "exiting"}
    /\ \A p \in Spaces : space[p] \in {"new", "loading", "exiting"} => p = who
    /\ who # 0 /\ space[who] = "exiting" => todo = <<>>
    /\ who # 0 /\ space[who] # "exiting" => path = <<>>
    /\ walk # NoWalk => todo # <<>> /\ space[who] \in {"loading", "living"}

\* Blocks that are not data are single pages, and data stays.
BlocksInv ==
    /\ data \subseteq live
    /\ data \subseteq [start : Addresses, size : Wanted]
    /\ \A b \in live \ data : b.size = 1
    /\ \A p \in Spaces : space[p] \notin {"none", "new"} => trapframe[p] \in DataFrames

\* The roots of different processes are different tables of the highest level.
RootInv(lev) ==
    /\ \A p, q \in Active : root[p] = root[q] => p = q
    /\ \A p \in Active : root[p] \notin Unlinked /\ lev[root[p]] = Levels - 1

\* The walk is at a table of its level, and the frames it will map are data.
WalkInv(lev) ==
    walk # NoWalk =>
        /\ walk \in [level : 0..(Levels - 1), table : TableFrames,
                     child : TableFrames \cup {Nil}, va : Int, pa : Int, left : Nat \ {0}]
        /\ walk.left <= Head(todo).size
        /\ lev[walk.table] = walk.level
        /\ walk.child # Nil => /\ walk.level > 0 /\ lev[walk.child] = walk.level - 1
                               /\ ~is_valid(Here)
        /\ \/ walk.pa = TrampolineCode /\ walk.left = 1
           \/ walk.pa..(walk.pa + walk.left - 1) \subseteq DataFrames

\* The calls of recursive_clean on tables T.
Calls(T) == [table : T, index : 0..Entries]

\* In P the calls s lead from a table of the highest level down, and what lies before the
\* index of a call is no table.
PathOK(P, T, s, lev) ==
    /\ s \in Seq(Calls(T))
    /\ \A k \in 1..Len(s) :
         /\ lev[s[k].table] = Levels - k
         /\ \A i \in Indices : i < s[k].index => ~IsTable(P[s[k].table][i])
         /\ k < Len(s) => s[k].index \in Indices /\ Link(P, s[k].table, s[k].index, s[k + 1].table)

\* The clean-up starts at the root.
PathInv(lev) ==
    /\ PathOK(pte, TableFrames, path, lev)
    /\ who # 0 /\ space[who] = "exiting" => path # <<>> /\ path[1].table = root[who]

TreeInv(lev) ==
    /\ Forest(pte, TableFrames, DataFrames, Tops, lev)
    /\ RootInv(lev) /\ WalkInv(lev) /\ PathInv(lev)

PtInv == ControlInv /\ BlocksInv /\ \E lev \in LevelMap : TreeInv(lev)

-----------------------------------------------------------------------------
(* What the operations do to a forest *)

\* More data, and whatever happens outside of the tables.
LEMMA ForestData ==
    ASSUME NEW P, NEW T, NEW D, NEW tops, NEW lev, Forest(P, T, D, tops, lev),
           NEW Q \in [Addresses -> [Indices -> AnyEntry]], \A t \in T : Q[t] = P[t],
           NEW E, D \subseteq E, E \subseteq Addresses
    PROVE  Forest(Q, T, E, tops, lev)
BY DEF Forest, EntryOK, Link

\* A new table without entries is a top of any level.
LEMMA ForestGrows ==
    ASSUME NEW P, NEW T, NEW D, NEW tops, NEW lev, Forest(P, T, D, tops, lev),
           NEW c \in Addresses \ T, NEW n \in 0..(Levels - 1),
           NEW Q \in [Addresses -> [Indices -> AnyEntry]],
           \A t \in T : Q[t] = P[t], \A i \in Indices : Q[c][i].kind = "zero"
    PROVE  Forest(Q, T \cup {c}, D, tops \cup {c}, [lev EXCEPT ![c] = n])
<1> DEFINE l == [lev EXCEPT ![c] = n]
<1>1. l \in LevelMap /\ \A t \in T : l[t] = lev[t]
  BY DEF Forest, LevelMap
<1>2. \A t \in T : \A i \in Indices : EntryOK(Q[t][i], t, T \cup {c}, D, l)
  BY <1>1 DEF Forest, EntryOK
<1>3. \A t \in T \cup {c} : \A i \in Indices : EntryOK(Q[t][i], t, T \cup {c}, D, l)
  BY <1>2 DEF EntryOK
<1> HIDE DEF l
<1>4. \A s, u \in T \cup {c} : \A i \in Indices :
        Link(Q, s, i, u) <=> s \in T /\ u \in T /\ Link(P, s, i, u)
  <2>1. \A s \in T : \A i \in Indices : P[s][i].kind = "bare" => P[s][i].to \in T
    BY DEF Forest, EntryOK
  <2> QED BY <2>1 DEF Link
<1>5. \A s, t, u \in T \cup {c} : \A i, j \in Indices :
        Link(Q, s, i, u) /\ Link(Q, t, j, u) => s = t /\ i = j
  BY <1>4 DEF Forest
<1>6. \A t \in T \cup {c} : t \in tops \cup {c} <=>
        ~ \E s \in T \cup {c} : \E i \in Indices : Link(Q, s, i, t)
  BY <1>4 DEF Forest
<1> QED BY <1>1, <1>3, <1>5, <1>6 DEF Forest, l

\* A top is linked to an entry that was free.
LEMMA ForestLinks ==
    ASSUME NEW P, NEW T, NEW D, NEW tops, NEW lev, Forest(P, T, D, tops, lev),
           NEW s \in T, NEW i \in Indices, ~is_valid(P[s][i]), NEW c \in tops,
           lev[s] > 0, lev[c] = lev[s] - 1
    PROVE  Forest([P EXCEPT ![s][i] = Entry("bare", c)], T, D, tops \ {c}, lev)
<1> DEFINE Q == [P EXCEPT ![s][i] = Entry("bare", c)]
<1>1. /\ P \in [Addresses -> [Indices -> AnyEntry]] /\ s \in Addresses /\ c \in T
      /\ T \subseteq Addresses
  BY DEF Forest
<1>2. Entry("bare", c) \in AnyEntry
  BY <1>1 DEF Entry, AnyEntry, AnyFrame
<1>3. /\ Q \in [Addresses -> [Indices -> AnyEntry]]
      /\ \A t \in Addresses : \A j \in Indices :
           Q[t][j] = IF t = s /\ j = i THEN Entry("bare", c) ELSE P[t][j]
  BY <1>1, <1>2
<1> HIDE DEF Q
<1>4. \A t \in T : \A j \in Indices : EntryOK(Q[t][j], t, T, D, lev)
  BY <1>1, <1>3 DEF Forest, EntryOK, Entry
<1>5. \A t, u \in T : \A j \in Indices :
        Link(Q, t, j, u) <=> (t = s /\ j = i /\ u = c) \/ Link(P, t, j, u)
  BY <1>1, <1>3 DEF Link, Entry, is_valid
<1>6. ~ \E t \in T : \E j \in Indices : Link(P, t, j, c)
  BY <1>1 DEF Forest
<1>7. \A t, u, v \in T : \A j, k \in Indices :
        Link(Q, t, j, v) /\ Link(Q, u, k, v) => t = u /\ j = k
  BY <1>5, <1>6 DEF Forest
<1>8. \A t \in T : t \in tops \ {c} <=> ~ \E u \in T : \E j \in Indices : Link(Q, u, j, t)
  BY <1>5, <1>6 DEF Forest
<1> QED BY <1>3, <1>4, <1>7, <1>8 DEF Forest, Q

\* An entry that is no link becomes a leaf of the lowest level, or is cleared.
LEMMA ForestMaps ==
    ASSUME NEW P, NEW T, NEW D, NEW tops, NEW lev, Forest(P, T, D, tops, lev),
           NEW s \in T, NEW i \in Indices, P[s][i].kind # "bare",
           NEW e \in AnyEntry, e.kind \in {"zero", "leaf"}, EntryOK(e, s, T, D, lev)
    PROVE  Forest([P EXCEPT ![s][i] = e], T, D, tops, lev)
<1> DEFINE Q == [P EXCEPT ![s][i] = e]
<1>1. /\ P \in [Addresses -> [Indices -> AnyEntry]] /\ s \in Addresses
      /\ T \subseteq Addresses
  BY DEF Forest
<1>2. /\ Q \in [Addresses -> [Indices -> AnyEntry]]
      /\ \A t \in Addresses : \A j \in Indices : Q[t][j] = IF t = s /\ j = i THEN e ELSE P[t][j]
  BY <1>1
<1> HIDE DEF Q
<1>3. \A t \in T : \A j \in Indices : EntryOK(Q[t][j], t, T, D, lev)
  BY <1>1, <1>2 DEF Forest
<1>4. \A t, u \in T : \A j \in Indices : Link(Q, t, j, u) <=> Link(P, t, j, u)
  BY <1>1, <1>2 DEF Link
<1>5. \A t, u, v \in T : \A j, k \in Indices :
        Link(Q, t, j, v) /\ Link(Q, u, k, v) => t = u /\ j = k
  BY <1>4 DEF Forest
<1>6. \A t \in T : t \in tops <=> ~ \E u \in T : \E j \in Indices : Link(Q, u, j, t)
  BY <1>4 DEF Forest
<1>7. /\ lev \in LevelMap /\ tops \subseteq T /\ D \subseteq Addresses
  BY DEF Forest
<1> QED BY <1>1, <1>2, <1>3, <1>5, <1>6, <1>7 DEF Forest, Q

\* A top that has no table below it is given up.
LEMMA ForestLosesTop ==
    ASSUME NEW P, NEW T, NEW D, NEW tops, NEW lev, Forest(P, T, D, tops, lev),
           NEW t \in tops, \A i \in Indices : P[t][i].kind # "bare",
           NEW Q \in [Addresses -> [Indices -> AnyEntry]], \A s \in T \ {t} : Q[s] = P[s]
    PROVE  Forest(Q, T \ {t}, D, tops \ {t}, lev)
<1>1. \A s \in T : \A i \in Indices : ~Link(P, s, i, t)
  BY DEF Forest
<1>2. \A s \in T \ {t} : \A i \in Indices : EntryOK(Q[s][i], s, T \ {t}, D, lev)
  BY <1>1 DEF Forest, EntryOK, Link
<1>3. \A s, u \in T \ {t} : \A j \in Indices : Link(Q, s, j, u) <=> Link(P, s, j, u)
  BY DEF Link
<1>4. \A u \in T : \A j \in Indices : ~Link(P, t, j, u)
  BY DEF Link
<1>5. \A u \in T \ {t} : u \in tops \ {t} <=>
        ~ \E s \in T \ {t} : \E j \in Indices : Link(Q, s, j, u)
  BY <1>3, <1>4 DEF Forest
<1>6. \A s, u, v \in T \ {t} : \A j, k \in Indices :
        Link(Q, s, j, v) /\ Link(Q, u, k, v) => s = u /\ j = k
  BY <1>3 DEF Forest
<1>7. /\ lev \in LevelMap /\ tops \ {t} \subseteq T \ {t} /\ T \ {t} \subseteq Addresses
      /\ D \subseteq Addresses
  BY DEF Forest
<1> QED BY <1>2, <1>5, <1>6, <1>7 DEF Forest

\* A table that has none below it is given up, and the link to it cleared.
LEMMA ForestLosesLeaf ==
    ASSUME NEW P, NEW T, NEW D, NEW tops, NEW lev, Forest(P, T, D, tops, lev),
           NEW t \in T, \A i \in Indices : P[t][i].kind # "bare",
           NEW s \in T, NEW i \in Indices, Link(P, s, i, t),
           NEW Q \in [Addresses -> [Indices -> AnyEntry]],
           \A u \in T \ {t} : \A j \in Indices :
               Q[u][j] = IF u = s /\ j = i THEN Zero ELSE P[u][j]
    PROVE  Forest(Q, T \ {t}, D, tops, lev)
<1>1. \A u \in T : \A j \in Indices : Link(P, u, j, t) => u = s /\ j = i
  BY DEF Forest
<1>2. \A u \in T \ {t} : \A j \in Indices : EntryOK(Q[u][j], u, T \ {t}, D, lev)
  BY <1>1 DEF Forest, EntryOK, Link, Zero, Entry
<1>3. \A u, v \in T \ {t} : \A j \in Indices : Link(Q, u, j, v) <=> Link(P, u, j, v)
  BY DEF Link, Zero, Entry
<1>4. \A u \in T : \A j \in Indices : ~Link(P, t, j, u)
  BY DEF Link
<1>5. t \notin tops
  BY DEF Forest
<1>6. \A u \in T \ {t} : u \in tops <=>
        ~ \E v \in T \ {t} : \E j \in Indices : Link(Q, v, j, u)
  <2>1. \A u \in T \ {t} : u \in tops <=> ~ \E v \in T : \E j \in Indices : Link(P, v, j, u)
    BY DEF Forest
  <2>2. \A u \in T \ {t} : (\E v \in T : \E j \in Indices : Link(P, v, j, u))
          <=> \E v \in T \ {t} : \E j \in Indices : Link(P, v, j, u)
    BY <1>4
  <2> QED BY <1>3, <2>1, <2>2
<1>7. \A u, v, w \in T \ {t} : \A j, k \in Indices :
        Link(Q, u, j, w) /\ Link(Q, v, k, w) => u = v /\ j = k
  BY <1>3 DEF Forest
<1>8. /\ lev \in LevelMap /\ tops \subseteq T \ {t} /\ T \ {t} \subseteq Addresses
      /\ D \subseteq Addresses
  BY <1>5 DEF Forest
<1> QED BY <1>2, <1>6, <1>7, <1>8 DEF Forest

-----------------------------------------------------------------------------
(* Recursion over the levels *)

\* The function step leads from each value to the next, and g follows it.
IsStep(step, n, S) == step \in [(1..n) \X S -> S]
Follows(g, first, step, n, S) ==
    g \in [0..n -> S] /\ g[0] = first /\ \A k \in 1..n : g[k] = step[<<k, g[k - 1]>>]

\* A function on 0..n can be defined from each value to the next.
LEMMA Recursion ==
    ASSUME NEW S, NEW first \in S, NEW n \in Nat, NEW step, IsStep(step, n, S)
    PROVE  \E g : Follows(g, first, step, n, S)
<1> USE DEF IsStep, Follows
<1> DEFINE IsRun(m, g) == /\ g \in [0..m -> S] /\ g[0] = first
                          /\ \A k \in 1..m : g[k] = step[<<k, g[k - 1]>>]
           Bad == {m \in 0..n : ~ \E g : IsRun(m, g)}
<1> SUFFICES Bad = {}
  <2>1. n \in 0..n
    OBVIOUS
  <2> QED BY <2>1
<1> SUFFICES ASSUME Bad # {} PROVE FALSE
  OBVIOUS
<1>1. Bad \subseteq Nat
  OBVIOUS
<1>2. PICK m \in Bad : \A y \in Bad : m <= y
  BY <1>1, Least
<1>3. m \in 0..n /\ ~ \E g : IsRun(m, g)
  OBVIOUS
<1>4. m # 0
  <2>1. IsRun(0, [k \in 0..0 |-> first])
    OBVIOUS
  <2> QED BY <1>3, <2>1
<1>5. m - 1 \in 0..n /\ ~(m <= m - 1) /\ m \in 1..n /\ m - 1 \in 0..(m - 1)
  BY <1>3, <1>4
<1>6. PICK g : IsRun(m - 1, g)
  BY <1>2, <1>5
<1> DEFINE h == [k \in 0..m |-> IF k = m THEN step[<<m, g[m - 1]>>] ELSE g[k]]
<1>7. step[<<m, g[m - 1]>>] \in S
  BY <1>5, <1>6
<1>8. h \in [0..m -> S] /\ h[0] = first
  BY <1>3, <1>4, <1>6, <1>7
<1>9. ASSUME NEW k \in 1..m PROVE h[k] = step[<<k, h[k - 1]>>]
  <2>1. k - 1 \in 0..m /\ k - 1 # m /\ k \in 0..m /\ (k # m => k \in 1..(m - 1))
    BY <1>3
  <2>2. h[k - 1] = g[k - 1]
    BY <2>1
  <2>3. CASE k = m
    BY <2>1, <2>2, <2>3
  <2>4. CASE k # m
    BY <1>6, <2>1, <2>2, <2>4
  <2> QED BY <2>3, <2>4
<1>10. IsRun(m, h)
  BY <1>8, <1>9
<1> QED BY <1>3, <1>10

\* The spans are positive.
LEMMA SpanFacts == \A l \in 0..Levels : Span[l] \in Nat \ {0}
<1> DEFINE IsSpan(f) == f = [l \in 0..Levels |-> IF l = 0 THEN 1 ELSE Entries * f[l - 1]]
<1>0. Levels \in Nat /\ Entries \in Nat \ {0}
  BY PageTableAssumption
<1>1. \E f : IsSpan(f)
  <2> DEFINE step == [x \in (1..Levels) \X Nat |-> Entries * x[2]]
  <2>1. IsStep(step, Levels, Nat)
    BY <1>0 DEF IsStep
  <2>2. PICK g \in [0..Levels -> Nat] :
          g[0] = 1 /\ \A k \in 1..Levels : g[k] = step[<<k, g[k - 1]>>]
    <3> HIDE DEF step
    <3>1. \E g : Follows(g, 1, step, Levels, Nat)
      BY <1>0, <2>1, Recursion
    <3> QED BY <3>1 DEF Follows
  <2>3. ASSUME NEW k \in 1..Levels PROVE g[k] = Entries * g[k - 1]
    <3>1. g[k - 1] \in Nat
      BY <1>0, <2>2
    <3> QED BY <2>2, <3>1
  <2>4. \A k \in 0..Levels : k # 0 => k \in 1..Levels
    BY <1>0
  <2>5. IsSpan(g)
    BY <2>2, <2>3, <2>4
  <2> QED BY <2>5
<1>2. IsSpan(Span)
  BY <1>1 DEF Span
<1> HIDE DEF IsSpan
<1>3. Span[0] = 1 /\ \A l \in 1..Levels : Span[l] = Entries * Span[l - 1]
  BY <1>0, <1>2 DEF IsSpan
<1> DEFINE Bad == {l \in 0..Levels : Span[l] \notin Nat \ {0}}
<1>4. ASSUME Bad # {} PROVE FALSE
  <2>1. Bad \subseteq Nat
    BY <1>0
  <2>2. PICK l \in Bad : \A y \in Bad : l <= y
    BY <1>4, <2>1, Least
  <2>3. l \in 1..Levels /\ l - 1 \in 0..Levels /\ ~(l <= l - 1)
    BY <1>0, <1>3
  <2>4. Span[l - 1] \in Nat \ {0}
    BY <2>2, <2>3
  <2>5. \A x \in Nat \ {0} : Entries * x \in Nat \ {0}
    BY <1>0
  <2> QED BY <1>3, <2>3, <2>4, <2>5
<1> QED BY <1>4

\* The index of a level is that of an entry.
LEMMA IndexIsEntry ==
    ASSUME NEW l \in 0..(Levels - 1), NEW va \in Int PROVE level_to_index(l, va) \in Indices
<1>1. Span[l] \in Nat \ {0} /\ Entries \in Nat \ {0}
  BY SpanFacts, PageTableAssumption
<1>2. va \div Span[l] \in Int
  BY <1>1
<1> QED BY <1>1, <1>2 DEF level_to_index, Indices

-----------------------------------------------------------------------------
(* The control, and the calls of the allocator *)

\* The kernel starts with nothing to do.
LEMMA ControlInit == PtInit => ControlInv
<1> SUFFICES ASSUME PtInit PROVE ControlInv
  OBVIOUS
<1>1. <<>> \in Seq(Regional)
  OBVIOUS
<1> QED BY <1>1 DEF PtInit, ControlInv

\* What is to be mapped for a program.
LEMMA RegionsFacts ==
    ASSUME FlagsGiven, NEW program \in Programs
    PROVE  Regions(program) \in Seq(Regional) /\ Regions(program) # <<>>
<1>1. Span[Levels] \in Int
  BY SpanFacts, PageTableAssumption
<1>2. STACK_PAGES \in Wanted /\ STACK_PAGES \in Int /\ 1 \in Wanted
  <2>1. HeapSizes \cup {1, STACK_PAGES} \subseteq Wanted /\ Wanted \subseteq Nat
    BY PageTableAssumption, PageAllocatorAssumption
  <2>2. STACK_PAGES \in Wanted /\ 1 \in Wanted
    BY <2>1, Zenon
  <2> QED BY <2>1, <2>2
<1>3. TRAMPOLINE \in Int /\ TRAPFRAME \in Int /\ KUCOM_PAGE \in Int /\ STACK_START \in Int
  BY <1>1, <1>2 DEF TRAMPOLINE, TRAPFRAME, KUCOM_PAGE, STACK_START
<1>4. OtherRegions \in Seq(Regional) /\ Len(OtherRegions) = 4
  <2>1. /\ Region("stack", STACK_START, STACK_PAGES, {"R", "W"}) \in Regional
        /\ Region("trampoline", TRAMPOLINE, 1, {"R", "X"}) \in Regional
        /\ Region("trapframe", TRAPFRAME, 1, {"R", "W"}) \in Regional
        /\ Region("kucom", KUCOM_PAGE, 1, {"R", "W"}) \in Regional
    BY <1>2, <1>3 DEF Region, Regional, MappedThings
  <2> QED BY <2>1 DEF OtherRegions
<1>5. SegmentRegions(program) \in Seq(Regional)
  <2>1. program \in Seq(Segments)
    BY PageTableAssumption
  <2>2. Len(program) \in Nat
    BY <2>1, LenProperties
  <2>3. ASSUME NEW i \in 1..Len(program)
        PROVE  Region("segment", program[i].va, program[i].size, program[i].flags) \in Regional
    <3>1. program[i] \in Segments /\ program[i].flags # {}
      BY <2>1, ElementOfSeq DEF FlagsGiven
    <3> QED BY <3>1 DEF Segments, Region, Regional, MappedThings
  <2> QED BY <2>2, <2>3, IsASeq DEF SegmentRegions
<1>6. /\ SegmentRegions(program) \o OtherRegions \in Seq(Regional)
      /\ Len(SegmentRegions(program) \o OtherRegions) = Len(SegmentRegions(program)) + 4
  <2>1. ASSUME NEW a \in Seq(Regional), NEW b \in Seq(Regional)
        PROVE  a \o b \in Seq(Regional) /\ Len(a \o b) = Len(a) + Len(b)
    BY ConcatProperties
  <2> QED BY <1>4, <1>5, <2>1
<1>7. Len(SegmentRegions(program)) \in Nat
  BY <1>5, LenProperties
<1> QED BY <1>6, <1>7, EmptySeq DEF Regions

\* What is to be mapped for a page fault.
LEMMA HeapRegionFacts ==
    ASSUME NEW va \in Nat, NEW n \in HeapSizes
    PROVE  LET todos == <<Region("heap", va, n, {"R", "W"})>>
           IN  todos \in Seq(Regional) /\ todos # <<>>
<1>1. n \in Wanted
  BY PageTableAssumption
<1>2. Region("heap", va, n, {"R", "W"}) \in Regional
  BY <1>1 DEF Region, Regional, MappedThings
<1> QED BY <1>2

\* The region that is mapped next, and the others.
LEMMA TodoHead ==
    ASSUME ControlInv, todo # <<>>
    PROVE  /\ Tail(todo) \in Seq(Regional)
           /\ Head(todo).size \in Wanted /\ Head(todo).size \in Nat \ {0}
           /\ Head(todo).va \in Int /\ Head(todo).what \in MappedThings
           /\ Head(todo).flags # {}
<1>1. todo \in Seq(Regional)
  BY DEF ControlInv
<1>2. Head(todo) \in Regional /\ Tail(todo) \in Seq(Regional)
  BY <1>1
<1> QED BY <1>2, PageAllocatorAssumption DEF Regional

\* An error in a mapping leaves the control consistent.
LEMMA ErrorControl ==
    ASSUME ControlInv, Mapping, Error PROVE ControlInv'
<1>1. who \in Spaces /\ who # 0 /\ space[who] \in {"loading", "living"}
  BY DEF Mapping, Busy, ControlInv
<1>2. path = <<>> /\ path' = path /\ todo' = <<>> /\ walk' = NoWalk /\ UNCHANGED <<root, trapframe, heap_start>>
  BY <1>1 DEF Error, ControlInv
<1>3. todo' \in Seq(Regional)
  BY <1>2
<1>4. CASE /\ space' = [space EXCEPT ![who] = "failed"] /\ who' = 0 /\ UNCHANGED stopped
  <2>1. 0 \notin Spaces
    BY DEF Spaces
  <2> QED BY <1>1, <1>2, <1>3, <1>4, <2>1 DEF ControlInv
<1>5. CASE stopped' = TRUE /\ UNCHANGED <<space, who>>
  BY <1>1, <1>2, <1>3, <1>5 DEF ControlInv
<1> QED BY <1>4, <1>5 DEF Error

\* What an allocation hands out: a block apart from all others, of empty tables.
LEMMA AllocatesFacts ==
    ASSUME IInv, NEW m \in Wanted, Allocates(m)
    PROVE  \E a \in Addresses :
             /\ Allocated = Block(a, m) /\ Block(a, m) \notin live
             /\ live' = live \cup {Block(a, m)}
             /\ PagesOf(a, m) \subseteq Addresses /\ a \in PagesOf(a, m)
             /\ \A b \in live : Disjoint(BlockPages(b), PagesOf(a, m))
             /\ pte' = [f \in Addresses |-> IF f \in PagesOf(a, m) THEN ZeroTable ELSE pte[f]]
<1>1. Next
  BY DEF Allocates, Next
<1>2. IInv'
  BY <1>1, NextInv
<1>3. \A b \in live' \ live : \A a \in BlockPages(b) : content'[a] = "zero"
  BY <1>1, HandsOutNext
<1>4. PICK a : live' = live \cup {Block(a, m)}
  BY DEF Allocates, allocate, AllocateExact, AllocateSplit, AllocateNew, AllocatePanics,
         AllocateNone, vars
<1>5. Block(a, m) \notin live /\ Block(a, m) \in live' /\ live' \ live = {Block(a, m)}
  BY <1>4 DEF Allocates
<1>6. Allocated = Block(a, m)
  BY <1>5 DEF Allocated
<1>7. Block(a, m) \in [start : Addresses, size : Nat \ {0}]
  BY <1>2, <1>5 DEF IInv, TypeOK
<1>8. a \in Addresses /\ m \in Nat \ {0} /\ BlockPages(Block(a, m)) = PagesOf(a, m)
  BY <1>7 DEF Block, BlockPages
<1>9. a \in PagesOf(a, m)
  BY <1>8 DEF PagesOf, Addresses
<1>10. PagesOf(a, m) \subseteq Addresses
  <2>1. BlockPages(Block(a, m)) \subseteq 0..(current_start' - 1)
    BY <1>2, <1>5 DEF IInv, NoOverlap
  <2>2. current_start' \in 0..Pages /\ Pages \in Nat
    BY <1>2, PageAllocatorAssumption DEF IInv, TypeOK
  <2>3. \A n \in Nat : \A x \in 0..n : 0..(x - 1) \subseteq 0..(n - 1)
    OBVIOUS
  <2> QED BY <1>8, <2>1, <2>2, <2>3 DEF Addresses
<1>11. \A b \in live : Disjoint(BlockPages(b), PagesOf(a, m))
  <2>1. \A b \in live : b \in live' /\ b # Block(a, m)
    BY <1>4, <1>5
  <2> QED BY <1>2, <1>5, <1>8, <2>1 DEF IInv, NoOverlap
<1>12. \A f \in PagesOf(a, m) : content'[f] = "zero"
  BY <1>3, <1>5, <1>8
<1>13. pte' = [f \in Addresses |-> IF f \in PagesOf(a, m) THEN ZeroTable ELSE pte[f]]
  BY <1>6, <1>8, <1>12 DEF Allocates
<1> QED BY <1>4, <1>5, <1>6, <1>8, <1>9, <1>10, <1>11, <1>13

\* Every action leaves the control consistent.
LEMMA ControlNext ==
    ASSUME FlagsGiven, IInv, ControlInv, [PtNext]_ptvars PROVE ControlInv'
<1>0. 0 \notin Spaces /\ 1 \in Wanted
  BY PageTableAssumption DEF Spaces
<1>a. ASSUME NEW m \in Wanted, Allocates(m) PROVE Allocated.start \in Addresses
  <2>1. PICK a \in Addresses : Allocated = Block(a, m)
    BY <1>a, AllocatesFacts
  <2> QED BY <2>1 DEF Block
<1>1. ASSUME NEW p \in Spaces, NEW program \in Programs, assign_process(p, program)
      PROVE  ControlInv'
  <2>1. root' \in [Spaces -> Addresses \cup {Nil}]
    BY <1>0, <1>a, <1>1 DEF assign_process, ControlInv
  <2>2. who = 0 /\ walk = NoWalk /\ path = <<>> /\ todo = <<>>
    BY <1>1 DEF assign_process, Idle, ControlInv
  <2> QED BY <1>0, <1>1, <2>1, <2>2, RegionsFacts DEF assign_process, ControlInv
<1>2. ASSUME NewTrapframe PROVE ControlInv'
  <2>1. trapframe' \in [Spaces -> Addresses \cup {Nil}]
    BY <1>0, <1>a, <1>2 DEF NewTrapframe, ControlInv
  <2>2. who \in Spaces
    BY <1>2 DEF NewTrapframe, Busy, ControlInv
  <2> QED BY <1>2, <2>1, <2>2 DEF NewTrapframe, Busy, ControlInv, job
<1>3. ASSUME NewFails PROVE ControlInv'
  BY <1>3 DEF NewFails, ControlInv, job
<1>4. ASSUME StartRegion \/ StartFixed \/ WalkDown \/ WalkAllocates \/ WalkLinks PROVE ControlInv'
  <2>1. Mapping /\ UNCHANGED <<space, root, trapframe, heap_start, who, todo, path, stopped>>
    BY <1>4 DEF StartRegion, StartFixed, WalkDown, WalkAllocates, WalkLinks, Walking
  <2> QED BY <2>1 DEF ControlInv, Mapping
<1>5. ASSUME StartFails \/ WalkFails \/ PageAlreadyMapped PROVE ControlInv'
  <2>1. Mapping /\ Error
    BY <1>5 DEF StartFails, WalkFails, PageAlreadyMapped, Walking
  <2> QED BY <2>1, ErrorControl
<1>6. ASSUME MapPage PROVE ControlInv'
  <2>1. /\ Mapping /\ who \in Spaces /\ who # 0 /\ space[who] \in {"loading", "living"}
        /\ path = <<>> /\ UNCHANGED <<root, trapframe, path, stopped>>
    BY <1>6 DEF MapPage, Walking, Mapping, Busy, ControlInv
  <2>2. CASE UNCHANGED <<space, heap_start, who, todo>>
    BY <2>1, <2>2 DEF Mapping, ControlInv
  <2>3. CASE /\ walk' = NoWalk
             /\ todo' = Tail(todo)
             /\ heap_start' = [heap_start EXCEPT ![who] = HeapBehind(@, Head(todo))]
             /\ space' = [space EXCEPT ![who] = IF Tail(todo) = <<>> THEN "living" ELSE @]
             /\ who' = IF Tail(todo) = <<>> THEN 0 ELSE who
    <3>1. todo' \in Seq(Regional)
      BY <2>1, <2>3, TodoHead DEF Mapping
    <3>4. heap_start' \in [Spaces -> Nat]
      <4>1. Head(todo).va \in Int /\ heap_start[who] \in Nat /\ heap_start \in [Spaces -> Nat]
        BY <2>1, TodoHead DEF Mapping, ControlInv
      <4>2. HeapBehind(heap_start[who], Head(todo)) \in Nat
        BY <4>1 DEF HeapBehind
      <4> QED BY <2>1, <2>3, <4>1, <4>2
    <3>2. CASE Tail(todo) = <<>>
      BY <1>0, <2>1, <2>3, <3>1, <3>4, <3>2 DEF ControlInv
    <3>3. CASE Tail(todo) # <<>>
      BY <1>0, <2>1, <2>3, <3>1, <3>4, <3>3 DEF ControlInv
    <3> QED BY <3>2, <3>3
  <2> QED BY <1>6, <2>2, <2>3 DEF MapPage
<1>7. ASSUME NEW p \in Spaces, NEW size \in HeapSizes, HeapFault(p, size) PROVE ControlInv'
  <2>1. /\ who = 0 /\ walk = NoWalk /\ path = <<>> /\ space[p] = "living"
        /\ who' = p /\ todo' = <<Region("heap", heap_start[p], size, {"R", "W"})>>
        /\ heap_start[p] \in Nat
        /\ UNCHANGED <<space, root, trapframe, heap_start, walk, path, stopped>>
    BY <1>7 DEF HeapFault, Idle, ControlInv
  <2>2. todo' \in Seq(Regional) /\ todo' # <<>>
    BY <2>1, HeapRegionFacts
  <2> QED BY <1>0, <2>1, <2>2 DEF ControlInv
<1>8. ASSUME NEW p \in Spaces, exit(p) PROVE ControlInv'
  BY <1>0, <1>8 DEF exit, Idle, ControlInv
<1>9. ASSUME CleanTable \/ CleanEntry PROVE ControlInv'
  <2>1. who # 0 /\ space[who] = "exiting" /\ UNCHANGED <<space, root, trapframe, heap_start, who, todo, walk, stopped>>
    BY <1>9 DEF CleanTable, CleanEntry, AtEntry, Cleaning, Busy
  <2> QED BY <2>1 DEF ControlInv
<1>10. ASSUME CleanDone PROVE ControlInv'
  <2>1. /\ who # 0 /\ who \in Spaces /\ space[who] = "exiting" /\ todo = <<>>
        /\ UNCHANGED <<root, trapframe, heap_start, todo, walk, stopped>>
    BY <1>10 DEF CleanDone, Cleaning, Busy, ControlInv
  <2>2. CASE path' = <<>> /\ who' = 0 /\ space' = [space EXCEPT ![who] = "gone"]
    BY <1>0, <2>1, <2>2 DEF ControlInv
  <2>3. CASE UNCHANGED <<who, space>>
    BY <2>1, <2>3 DEF ControlInv
  <2> QED BY <1>10, <2>2, <2>3 DEF CleanDone
<1>11. ASSUME PtHalted \/ UNCHANGED ptvars PROVE ControlInv'
  BY <1>11 DEF PtHalted, ptvars, job, ControlInv
<1> QED
  BY <1>1, <1>2, <1>3, <1>4, <1>5, <1>6, <1>7, <1>8, <1>9, <1>10, <1>11 DEF PtNext

-----------------------------------------------------------------------------
(* Tables and data in memory *)

\* Tables and data are different frames.
LEMMA TablesAreNotData ==
    ASSUME IInv, BlocksInv
    PROVE  /\ DataFrames \subseteq Addresses
           /\ \A t \in TableFrames : t \notin DataFrames /\ t \in BlockPages(Block(t, 1))
<1>1. \A b \in live : BlockPages(b) \subseteq Addresses
  <2>1. current_start \in 0..Pages /\ Pages \in Nat
    BY PageAllocatorAssumption DEF IInv, TypeOK
  <2>2. \A n \in Nat : \A x \in 0..n : 0..(x - 1) \subseteq 0..(n - 1)
    OBVIOUS
  <2>3. \A b \in live : BlockPages(b) \subseteq 0..(current_start - 1)
    BY DEF IInv, NoOverlap
  <2> QED BY <2>1, <2>2, <2>3 DEF Addresses
<1>2. DataFrames \subseteq Addresses
  BY <1>1 DEF BlocksInv, DataFrames
<1>3. \A t \in TableFrames : t \in BlockPages(Block(t, 1))
  BY DEF TableFrames, BlockPages, Block, PagesOf, Addresses
<1>4. ASSUME NEW t \in TableFrames, NEW b \in data PROVE t \notin BlockPages(b)
  <2>1. Block(t, 1) \in live /\ b \in live /\ Block(t, 1) # b
    BY DEF TableFrames, BlocksInv
  <2>2. Disjoint(BlockPages(Block(t, 1)), BlockPages(b))
    BY <2>1 DEF IInv, NoOverlap
  <2> QED BY <1>3, <2>2 DEF Disjoint
<1>5. \A t \in TableFrames : t \notin DataFrames
  BY <1>4 DEF DataFrames
<1> QED BY <1>2, <1>3, <1>5

\* A table is allocated: its frame was none before, and its entries are empty.
LEMMA AllocatesTable ==
    ASSUME IInv, BlocksInv, Allocates(1), data' = data,
           NEW lev, Forest(pte, TableFrames, DataFrames, Tops, lev), NEW n \in 0..(Levels - 1)
    PROVE  \E a \in Addresses :
             /\ Allocated.start = a /\ a \notin TableFrames
             /\ TableFrames' = TableFrames \cup {a} /\ DataFrames' = DataFrames
             /\ live' = live \cup {Block(a, 1)} /\ Block(a, 1) \notin live
             /\ \A t \in TableFrames : pte'[t] = pte[t]
             /\ Forest(pte', TableFrames', DataFrames', Tops \cup {a}, [lev EXCEPT ![a] = n])
<1>0. 1 \in Wanted
  BY PageTableAssumption
<1>1. PICK a \in Addresses :
        /\ Allocated = Block(a, 1) /\ Block(a, 1) \notin live
        /\ live' = live \cup {Block(a, 1)}
        /\ PagesOf(a, 1) \subseteq Addresses /\ a \in PagesOf(a, 1)
        /\ \A b \in live : Disjoint(BlockPages(b), PagesOf(a, 1))
        /\ pte' = [f \in Addresses |-> IF f \in PagesOf(a, 1) THEN ZeroTable ELSE pte[f]]
  BY <1>0, AllocatesFacts
<1>2. Allocated.start = a
  BY <1>1 DEF Block
<1>3. a \notin TableFrames /\ Block(a, 1) \notin data
  BY <1>1 DEF TableFrames, BlocksInv
<1>4. \A t, u : Block(t, 1) = Block(u, 1) => t = u
  BY DEF Block
<1>5. TableFrames' = TableFrames \cup {a}
  BY <1>1, <1>3, <1>4 DEF TableFrames
<1>6. DataFrames' = DataFrames
  BY DEF DataFrames, BlockPages
<1>7. \A t \in TableFrames : t \in Addresses /\ t \notin PagesOf(a, 1)
  <2>1. \A t \in TableFrames : t \in BlockPages(Block(t, 1)) /\ Block(t, 1) \in live /\ t \in Addresses
    BY TablesAreNotData DEF TableFrames
  <2> QED BY <1>1, <2>1 DEF Disjoint
<1>8. \A t \in TableFrames : pte'[t] = pte[t]
  BY <1>1, <1>7
<1>9. pte' \in [Addresses -> [Indices -> AnyEntry]] /\ \A i \in Indices : pte'[a][i].kind = "zero"
  <2>1. ZeroTable \in [Indices -> AnyEntry] /\ \A i \in Indices : ZeroTable[i].kind = "zero"
    BY DEF ZeroTable, Zero, Entry, AnyEntry, AnyFrame
  <2>2. pte \in [Addresses -> [Indices -> AnyEntry]]
    BY DEF Forest
  <2>3. pte'[a] = ZeroTable
    BY <1>1
  <2> QED BY <1>1, <2>1, <2>2, <2>3
<1>10. Forest(pte', TableFrames \cup {a}, DataFrames, Tops \cup {a}, [lev EXCEPT ![a] = n])
  BY <1>3, <1>8, <1>9, ForestGrows
<1> QED BY <1>1, <1>2, <1>3, <1>5, <1>6, <1>8, <1>10

\* Anything else is allocated: the frames are data, and the tables stay.
LEMMA AllocatesData ==
    ASSUME IInv, BlocksInv, NEW m \in Wanted, Allocates(m), data' = data \cup {Allocated},
           NEW lev, Forest(pte, TableFrames, DataFrames, Tops, lev)
    PROVE  \E a \in Addresses :
             /\ Allocated = Block(a, m) /\ PagesOf(a, m) \subseteq DataFrames'
             /\ a \in DataFrames' /\ DataFrames \subseteq DataFrames'
             /\ live' = live \cup {Block(a, m)}
             /\ TableFrames' = TableFrames
             /\ \A t \in TableFrames : pte'[t] = pte[t]
             /\ Forest(pte', TableFrames', DataFrames', Tops, lev)
<1>1. PICK a \in Addresses :
        /\ Allocated = Block(a, m) /\ Block(a, m) \notin live
        /\ live' = live \cup {Block(a, m)}
        /\ PagesOf(a, m) \subseteq Addresses /\ a \in PagesOf(a, m)
        /\ \A b \in live : Disjoint(BlockPages(b), PagesOf(a, m))
        /\ pte' = [f \in Addresses |-> IF f \in PagesOf(a, m) THEN ZeroTable ELSE pte[f]]
  BY AllocatesFacts
<1>2. live' \ data' = live \ data
  BY <1>1 DEF BlocksInv
<1>3. TableFrames' = TableFrames
  BY <1>2 DEF TableFrames
<1>4. DataFrames' = DataFrames \cup PagesOf(a, m)
  <2>1. BlockPages(Block(a, m)) = PagesOf(a, m)
    BY DEF BlockPages, Block
  <2>2. DataFrames' = UNION {BlockPages(b) : b \in data'}
    BY DEF DataFrames, BlockPages
  <2> QED BY <1>1, <2>1, <2>2 DEF DataFrames
<1>5. \A t \in TableFrames : t \in Addresses /\ t \notin PagesOf(a, m)
  <2>1. \A t \in TableFrames : t \in BlockPages(Block(t, 1)) /\ Block(t, 1) \in live /\ t \in Addresses
    BY TablesAreNotData DEF TableFrames
  <2> QED BY <1>1, <2>1 DEF Disjoint
<1>6. \A t \in TableFrames : pte'[t] = pte[t]
  BY <1>1, <1>5
<1>7. pte' \in [Addresses -> [Indices -> AnyEntry]]
  <2>1. ZeroTable \in [Indices -> AnyEntry]
    BY DEF ZeroTable, Zero, Entry, AnyEntry, AnyFrame
  <2>2. pte \in [Addresses -> [Indices -> AnyEntry]]
    BY DEF Forest
  <2> QED BY <1>1, <2>1, <2>2
<1>8. DataFrames' \subseteq Addresses /\ DataFrames \subseteq DataFrames'
  BY <1>1, <1>4, TablesAreNotData
<1>9. Forest(pte', TableFrames, DataFrames', Tops, lev)
  BY <1>6, <1>7, <1>8, ForestData
<1> QED BY <1>1, <1>3, <1>4, <1>6, <1>8, <1>9

\* The calls of the allocator that fail, and the stores, change no block.
LEMMA NoBlockChanges ==
    /\ \A m : AllocationFails(m) => live' = live /\ pte' = pte
    /\ \A t, i, e : Stores(t, i, e) => live' = live
    /\ UNCHANGED vars => live' = live
BY DEF AllocationFails, AllocateNone, AllocatePanics, Stores, ClientWrites, vars

\* What is not valid in a table is zero: the bits of the new entry are ORed into nothing.
LEMMA StoresFree ==
    ASSUME NEW t, NEW i, NEW e, Stores(t, i, e), ~is_valid(pte[t][i]),
           NEW T, NEW D, NEW lev, EntryOK(pte[t][i], t, T, D, lev)
    PROVE  pte' = [pte EXCEPT ![t][i] = e]
<1>1. pte[t][i].kind = "zero"
  BY DEF EntryOK, is_valid
<1>2. Ored(pte[t][i], e) = {e}
  BY <1>1 DEF Ored
<1> QED BY <1>2 DEF Stores

\* The table that the clean-up is in.
LEMMA DeepestFacts ==
    ASSUME ControlInv, NEW lev, PathInv(lev), Cleaning
    PROVE  /\ who \in Spaces /\ space[who] = "exiting" /\ walk = NoWalk /\ todo = <<>>
           /\ Len(path) \in Nat \ {0} /\ Len(path) \in 1..Len(path)
           /\ Deepest = path[Len(path)]
           /\ Deepest.table \in TableFrames /\ Deepest.index \in 0..Entries
<1>1. /\ who \in Spaces /\ who # 0 /\ space[who] = "exiting" /\ walk = NoWalk /\ todo = <<>>
  BY DEF Cleaning, Busy, ControlInv
<1>2. path \in Seq(Calls(TableFrames)) /\ path # <<>>
  BY <1>1 DEF PathInv, PathOK
<1>3. Len(path) \in Nat \ {0} /\ Len(path) \in 1..Len(path)
  BY <1>2, EmptySeq, LenProperties
<1>4. path[Len(path)] \in Calls(TableFrames)
  BY <1>2, <1>3, ElementOfSeq
<1> QED BY <1>1, <1>3, <1>4 DEF Deepest, Calls

\* Data stays, and what is not data is a page.
LEMMA BlocksNext ==
    ASSUME IInv, ControlInv, BlocksInv, NEW lev, PathInv(lev), [PtNext]_ptvars
    PROVE  BlocksInv'
<1>0. 1 \in Wanted
  BY PageTableAssumption
<1>q. ASSUME live' = live, data' = data, trapframe' = trapframe,
             \A p \in Spaces : space'[p] \notin {"none", "new"} => space[p] \notin {"none", "new"}
      PROVE  BlocksInv'
  <2>1. DataFrames' = DataFrames
    BY <1>q DEF DataFrames, BlockPages
  <2> QED BY <1>q, <2>1 DEF BlocksInv
<1>t. ASSUME Allocates(1), data' = data, trapframe' = trapframe,
             \A p \in Spaces : space'[p] \notin {"none", "new"} => space[p] \notin {"none", "new"}
      PROVE  BlocksInv'
  <2>1. DataFrames' = DataFrames
    BY <1>t DEF DataFrames, BlockPages
  <2>2. PICK a \in Addresses : live' = live \cup {Block(a, 1)}
    BY <1>0, <1>t, AllocatesFacts
  <2>3. Block(a, 1).size = 1
    BY DEF Block
  <2> QED BY <1>t, <2>1, <2>2, <2>3 DEF BlocksInv
<1>d. ASSUME NEW m \in Wanted, Allocates(m), data' = data \cup {Allocated}
      PROVE  /\ DataFrames \subseteq DataFrames' /\ Allocated.start \in DataFrames'
             /\ data' \subseteq live' /\ data' \subseteq [start : Addresses, size : Wanted]
             /\ \A b \in live' \ data' : b.size = 1
  <2>1. PICK a \in Addresses :
          Allocated = Block(a, m) /\ live' = live \cup {Block(a, m)} /\ a \in PagesOf(a, m)
    BY <1>d, AllocatesFacts
  <2>2. BlockPages(Block(a, m)) = PagesOf(a, m)
    BY DEF BlockPages, Block
  <2>3. DataFrames' = UNION {BlockPages(b) : b \in data'}
    BY DEF DataFrames, BlockPages
  <2>4. DataFrames \subseteq DataFrames' /\ a \in DataFrames'
    BY <1>d, <2>1, <2>2, <2>3 DEF DataFrames
  <2>5. Block(a, m) \in [start : Addresses, size : Wanted] /\ Block(a, m).start = a
    BY DEF Block
  <2> QED BY <1>d, <2>1, <2>4, <2>5 DEF BlocksInv
<1>1. ASSUME NEW p \in Spaces, NEW program \in Programs, assign_process(p, program)
      PROVE  BlocksInv'
  BY <1>1, <1>t DEF assign_process, ControlInv
<1>2. ASSUME NewTrapframe PROVE BlocksInv'
  <2>1. who \in Spaces /\ \A p \in Spaces : p # who => space'[p] = space[p] /\ trapframe'[p] = trapframe[p]
    BY <1>2 DEF NewTrapframe, Busy, ControlInv
  <2>2. trapframe'[who] = Allocated.start
    BY <1>2, <2>1 DEF NewTrapframe, ControlInv
  <2>3. /\ DataFrames \subseteq DataFrames' /\ Allocated.start \in DataFrames'
        /\ data' \subseteq live' /\ data' \subseteq [start : Addresses, size : Wanted]
        /\ \A b \in live' \ data' : b.size = 1
    BY <1>0, <1>2, <1>d DEF NewTrapframe
  <2> QED BY <2>1, <2>2, <2>3 DEF BlocksInv
<1>3. ASSUME StartRegion PROVE BlocksInv'
  <2>1. FramesFor(Head(todo)) \in Wanted
    BY <1>3, TodoHead DEF FramesFor, StartRegion, Mapping
  <2>2. /\ DataFrames \subseteq DataFrames'
        /\ data' \subseteq live' /\ data' \subseteq [start : Addresses, size : Wanted]
        /\ \A b \in live' \ data' : b.size = 1
    BY <1>3, <1>d, <2>1 DEF StartRegion
  <2> QED BY <1>3, <2>2 DEF BlocksInv, StartRegion
<1>4. ASSUME NewFails \/ StartFixed \/ WalkDown PROVE BlocksInv'
  BY <1>4, <1>q, NoBlockChanges DEF NewFails, StartFixed, WalkDown
<1>5. ASSUME WalkAllocates PROVE BlocksInv'
  BY <1>5, <1>t DEF WalkAllocates
<1>6. ASSUME WalkLinks PROVE BlocksInv'
  BY <1>6, <1>q, NoBlockChanges DEF WalkLinks
<1>7. ASSUME StartFails \/ WalkFails \/ PageAlreadyMapped PROVE BlocksInv'
  <2>1. live' = live /\ Error /\ Mapping
    BY <1>7, NoBlockChanges DEF StartFails, WalkFails, PageAlreadyMapped, Walking
  <2>2. \A p \in Spaces : space'[p] \notin {"none", "new"} => space[p] \notin {"none", "new"}
    BY <2>1 DEF Error, Mapping, Busy, ControlInv
  <2> QED BY <1>q, <2>1, <2>2 DEF Error
<1>8. ASSUME MapPage PROVE BlocksInv'
  <2>1. \A p \in Spaces : space'[p] \notin {"none", "new"} => space[p] \notin {"none", "new"}
    BY <1>8 DEF MapPage, Walking, Mapping, Busy, ControlInv
  <2> QED BY <1>8, <1>q, <2>1, NoBlockChanges DEF MapPage
<1>9. ASSUME NEW p \in Spaces, exit(p) \/ \E size \in HeapSizes : HeapFault(p, size) PROVE BlocksInv'
  BY <1>9, <1>q, NoBlockChanges DEF exit, HeapFault, ControlInv
<1>10. ASSUME CleanTable \/ CleanEntry \/ PtHalted \/ UNCHANGED ptvars PROVE BlocksInv'
  BY <1>10, <1>q, NoBlockChanges DEF CleanTable, CleanEntry, PtHalted, ptvars
<1>11. ASSUME CleanDone PROVE BlocksInv'
  <2>1. Deepest.table \in TableFrames /\ who \in Spaces /\ space[who] = "exiting"
    BY <1>11, DeepestFacts DEF CleanDone
  <2>2. live' = live \ {Block(Deepest.table, 1)} /\ Block(Deepest.table, 1) \notin data
    BY <1>11, <2>1 DEF CleanDone, deallocate, TableFrames
  <2>3. data' = data /\ trapframe' = trapframe /\ DataFrames' = DataFrames
    BY <1>11 DEF CleanDone, DataFrames, BlockPages
  <2>4. \A p \in Spaces : space'[p] \notin {"none", "new"} => space[p] \notin {"none", "new"}
    BY <1>11, <2>1 DEF CleanDone, ControlInv
  <2> QED BY <2>2, <2>3, <2>4 DEF BlocksInv
<1> QED
  BY <1>1, <1>2, <1>3, <1>4, <1>5, <1>6, <1>7, <1>8, <1>9, <1>10, <1>11 DEF PtNext

-----------------------------------------------------------------------------
(* The forest, action by action *)

\* While no process comes or goes and no table is waiting for its link, the tops stay.
LEMMA SameTops ==
    ASSUME NEW lev, RootInv(lev), root' = root, Unlinked' = Unlinked,
           \A p \in Spaces : p \in Active' <=> p \in Active
    PROVE  Tops' = Tops /\ RootInv(lev)' /\ Active' = Active
<1>1. Active' = Active
  BY DEF Active
<1> QED BY <1>1 DEF Tops, RootInv

\* Between two walks and two clean-ups there is nothing to keep track of.
LEMMA AtRest ==
    ASSUME NEW lev
    PROVE  /\ walk' = NoWalk => WalkInv(lev)' /\ Unlinked' = {}
           /\ walk = NoWalk => Unlinked = {}
           /\ path' = <<>> /\ (who' # 0 => space'[who'] # "exiting") => PathInv(lev)'
<1>1. walk' = NoWalk => WalkInv(lev)' /\ Unlinked' = {}
  BY DEF WalkInv, Unlinked
<1>2. ASSUME path' = <<>>, who' # 0 => space'[who'] # "exiting" PROVE PathInv(lev)'
  <2>1. path' \in Seq(Calls(TableFrames)') /\ Len(path') = 0
    BY <1>2
  <2>2. \A k \in 1..Len(path') : FALSE
    BY <2>1
  <2> QED BY <1>2, <2>1, <2>2 DEF PathInv, PathOK
<1> QED BY <1>1, <1>2 DEF Unlinked

\* A process gets its root.
LEMMA AssignTree ==
    ASSUME IInv, ControlInv, BlocksInv, NEW lev, TreeInv(lev),
           NEW p \in Spaces, NEW program \in Programs, assign_process(p, program)
    PROVE  \E l \in LevelMap : TreeInv(l)'
<1>1. /\ who = 0 /\ todo = <<>> /\ walk = NoWalk /\ path = <<>> /\ walk' = walk /\ path' = path
      /\ who' = p /\ space[p] = "none" /\ 0 \notin Spaces
  BY DEF assign_process, Idle, ControlInv, Spaces
<1>2. /\ \A q \in Spaces : q # p => space'[q] = space[q] /\ root'[q] = root[q]
      /\ space'[p] = "new" /\ root'[p] = Allocated.start
  BY DEF assign_process, ControlInv
<1>3. Levels - 1 \in 0..(Levels - 1) /\ Levels \in Nat
  BY PageTableAssumption
<1>4. PICK a \in Addresses :
        /\ Allocated.start = a /\ a \notin TableFrames
        /\ \A t \in TableFrames : pte'[t] = pte[t]
        /\ Forest(pte', TableFrames', DataFrames', Tops \cup {a}, [lev EXCEPT ![a] = Levels - 1])
  BY <1>3, AllocatesTable DEF assign_process, TreeInv
<1> DEFINE l == [lev EXCEPT ![a] = Levels - 1]
<1>5. l \in LevelMap /\ lev \in LevelMap /\ Tops \subseteq TableFrames /\ TableFrames \subseteq Addresses
  BY <1>4 DEF Forest, TreeInv
<1>6. l[a] = Levels - 1 /\ \A t \in TableFrames : l[t] = lev[t]
  BY <1>4, <1>5 DEF LevelMap
<1>7. Unlinked = {} /\ Unlinked' = {} /\ WalkInv(l)' /\ PathInv(l)'
  BY <1>1, <1>2, AtRest
<1> HIDE DEF l
<1>8. Active' = Active \cup {p} /\ p \notin Active
  BY <1>1, <1>2 DEF Active
<1>9. Tops' = Tops \cup {a}
  BY <1>2, <1>4, <1>7, <1>8 DEF Tops, Active
<1>10. \A q \in Active : root[q] \in TableFrames /\ root[q] # a /\ root'[q] = root[q]
  BY <1>2, <1>4, <1>5, <1>8 DEF Tops, Active
<1>11. RootInv(l)'
  BY <1>2, <1>4, <1>6, <1>7, <1>8, <1>10 DEF RootInv, TreeInv
<1>12. Forest(pte', TableFrames', DataFrames', Tops', l)
  BY <1>4, <1>9 DEF l
<1> QED BY <1>5, <1>7, <1>11, <1>12 DEF TreeInv

\* A process gets its trapframe.
LEMMA TrapframeTree ==
    ASSUME IInv, ControlInv, BlocksInv, NEW lev, TreeInv(lev), NewTrapframe
    PROVE  TreeInv(lev)'
<1>1. /\ who \in Spaces /\ who # 0 /\ space[who] = "new" /\ path = <<>> /\ walk = NoWalk
      /\ UNCHANGED <<who, walk, path, root>> /\ space' = [space EXCEPT ![who] = "loading"]
  BY DEF NewTrapframe, Busy, ControlInv, job
<1>2. 1 \in Wanted
  BY PageTableAssumption
<1>3. Forest(pte', TableFrames', DataFrames', Tops, lev)
  BY <1>2, AllocatesData DEF NewTrapframe, TreeInv
<1>4. \A p \in Spaces : p \in Active' <=> p \in Active
  BY <1>1 DEF Active, ControlInv
<1>5. space'[who] = "loading"
  BY <1>1 DEF ControlInv
<1>6. Unlinked' = Unlinked /\ WalkInv(lev)' /\ PathInv(lev)'
  BY <1>1, <1>5, AtRest
<1>7. Tops' = Tops /\ RootInv(lev)'
  BY <1>1, <1>4, <1>6, SameTops DEF TreeInv
<1> QED BY <1>3, <1>6, <1>7 DEF TreeInv

\* Blocks and tables stay as they are.
LEMMA SameFrames ==
    ASSUME live' = live, data' = data
    PROVE  TableFrames' = TableFrames /\ DataFrames' = DataFrames
BY DEF TableFrames, DataFrames, BlockPages

\* An error ends the walk, and leaves what it has linked.
LEMMA ErrorTree ==
    ASSUME ControlInv, NEW lev, TreeInv(lev), Mapping, Error, live' = live, pte' = pte,
           Unlinked = {}
    PROVE  TreeInv(lev)'
<1>1. /\ who \in Spaces /\ who # 0 /\ space[who] \in {"loading", "living"} /\ path = <<>>
      /\ walk' = NoWalk /\ UNCHANGED <<path, root, data>>
  BY DEF Mapping, Busy, ControlInv, Error
<1>2. \/ space' = [space EXCEPT ![who] = "failed"] /\ who' = 0
      \/ UNCHANGED <<space, who>>
  BY DEF Error
<1>3. \A p \in Spaces : p \in Active' <=> p \in Active
  BY <1>1, <1>2 DEF Active, ControlInv
<1>4. who' # 0 => space'[who'] # "exiting"
  BY <1>1, <1>2
<1>5. Unlinked' = Unlinked /\ WalkInv(lev)' /\ PathInv(lev)'
  BY <1>1, <1>4, AtRest
<1>6. Tops' = Tops /\ RootInv(lev)'
  BY <1>1, <1>3, <1>5, SameTops DEF TreeInv
<1> QED BY <1>1, <1>5, <1>6, SameFrames DEF TreeInv

\* The walk for a page of data, or for the trampoline, starts at the root.
LEMMA StartsWalk ==
    ASSUME ControlInv, NEW lev, RootInv(lev), Mapping, Tops \subseteq TableFrames',
           UNCHANGED <<who, root, space, todo, path>>,
           NEW va \in Int, NEW pa \in Int, NEW left \in Nat \ {0}, left <= Head(todo).size,
           walk' = Walk(va, pa, left),
           \/ pa = TrampolineCode /\ left = 1
           \/ pa..(pa + left - 1) \subseteq DataFrames'
    PROVE  WalkInv(lev)' /\ Unlinked' = {} /\ PathInv(lev)'
<1>1. /\ who \in Spaces /\ who # 0 /\ space[who] \in {"loading", "living"} /\ path = <<>>
  BY DEF Mapping, Busy, ControlInv
<1>2. root[who] \in TableFrames' /\ lev[root[who]] = Levels - 1
  BY <1>1 DEF Tops, Active, RootInv
<1>3. /\ walk'.level = Levels - 1 /\ walk'.table = root[who] /\ walk'.child = Nil
      /\ walk'.va = va /\ walk'.pa = pa /\ walk'.left = left
  BY DEF Walk
<1>4. walk' # NoWalk
  <2>1. Levels - 1 # Nil
    BY PageTableAssumption DEF Nil
  <2>2. NoWalk.level = Nil
    BY DEF NoWalk
  <2> QED BY <1>3, <2>1, <2>2
<1>5. Unlinked' = {}
  BY <1>3, <1>4 DEF Unlinked
<1>6. PathInv(lev)'
  BY <1>1, AtRest
<1>7. Levels - 1 \in 0..(Levels - 1)
  BY PageTableAssumption
<1>8. walk' \in [level : 0..(Levels - 1), table : TableFrames',
                 child : TableFrames' \cup {Nil}, va : Int, pa : Int, left : Nat \ {0}]
  BY <1>2, <1>7 DEF Walk
<1>9. WalkInv(lev)'
  BY <1>2, <1>3, <1>8 DEF WalkInv
<1> QED BY <1>5, <1>6, <1>9

\* A region on memory of its own starts.
LEMMA StartRegionTree ==
    ASSUME IInv, ControlInv, BlocksInv, NEW lev, TreeInv(lev), StartRegion
    PROVE  TreeInv(lev)'
<1>1. /\ Mapping /\ walk = NoWalk /\ todo # <<>>
      /\ UNCHANGED <<space, root, trapframe, who, todo, path, stopped>>
  BY DEF StartRegion, Mapping
<1> DEFINE m == Head(todo).size
<1>2. m \in Wanted /\ m \in Nat \ {0} /\ Head(todo).va \in Int
  BY <1>1, TodoHead
<1>3. /\ Allocates(m) /\ data' = data \cup {Allocated}
      /\ walk' = Walk(Head(todo).va, Allocated.start, m)
  BY DEF StartRegion, FramesFor
<1> HIDE DEF m
<1>4. PICK a \in Addresses :
        /\ Allocated = Block(a, m) /\ PagesOf(a, m) \subseteq DataFrames'
        /\ TableFrames' = TableFrames
        /\ Forest(pte', TableFrames', DataFrames', Tops, lev)
  BY <1>2, <1>3, AllocatesData DEF TreeInv
<1>5. Allocated.start = a /\ a..(a + m - 1) \subseteq DataFrames' /\ a \in Int
  BY <1>4 DEF Block, PagesOf, Addresses
<1>6. m <= Head(todo).size
  BY <1>2 DEF m
<1>7. Tops \subseteq TableFrames'
  BY <1>4 DEF Forest
<1>8. WalkInv(lev)' /\ Unlinked' = {} /\ PathInv(lev)'
  BY <1>1, <1>2, <1>3, <1>5, <1>6, <1>7, StartsWalk DEF TreeInv
<1>9. Tops' = Tops /\ RootInv(lev)'
  BY <1>1, <1>8, AtRest, SameTops DEF TreeInv, Active
<1> QED BY <1>4, <1>8, <1>9 DEF TreeInv

\* The trampoline or the trapframe starts.
LEMMA StartFixedTree ==
    ASSUME IInv, ControlInv, BlocksInv, NEW lev, TreeInv(lev), StartFixed
    PROVE  TreeInv(lev)'
<1>1. /\ Mapping /\ walk = NoWalk /\ todo # <<>> /\ UNCHANGED vars
      /\ UNCHANGED <<pte, space, root, trapframe, who, todo, path, data>>
  BY DEF StartFixed, Mapping
<1>2. live' = live /\ TableFrames' = TableFrames /\ DataFrames' = DataFrames
  BY <1>1, NoBlockChanges, SameFrames
<1>3. /\ Forest(pte', TableFrames', DataFrames', Tops, lev) /\ Tops \subseteq TableFrames'
      /\ DataFrames \subseteq Int
  BY <1>1, <1>2 DEF TreeInv, Forest, Addresses
<1>4. trapframe[who] \in DataFrames
  BY <1>1 DEF Mapping, Busy, ControlInv, BlocksInv
<1>5. TRAMPOLINE \in Int /\ TRAPFRAME \in Int
  BY SpanFacts, PageTableAssumption DEF TRAMPOLINE, TRAPFRAME
<1>6. 1 <= Head(todo).size
  BY <1>1, TodoHead
<1>7. PICK va \in Int, pa \in Int :
        /\ walk' = Walk(va, pa, 1)
        /\ pa = TrampolineCode \/ pa \in DataFrames'
  <2>0. TrampolineCode \in Int
    BY DEF TrampolineCode
  <2>1. TrampolineCode \in Int /\ trapframe[who] \in Int /\ trapframe[who] \in DataFrames'
    BY <1>2, <1>3, <1>4, <2>0
  <2>2. \/ walk' = Walk(TRAMPOLINE, TrampolineCode, 1)
        \/ walk' = Walk(TRAPFRAME, trapframe[who], 1)
    BY DEF StartFixed
  <2> QED BY <1>5, <2>1, <2>2
<1>8. pa = TrampolineCode \/ pa..(pa + 1 - 1) \subseteq DataFrames'
  BY <1>7
<1>9. WalkInv(lev)' /\ Unlinked' = {} /\ PathInv(lev)'
  BY <1>1, <1>3, <1>6, <1>7, <1>8, StartsWalk DEF TreeInv
<1>10. Tops' = Tops /\ RootInv(lev)'
  BY <1>1, <1>9, AtRest, SameTops DEF TreeInv, Active
<1> QED BY <1>3, <1>9, <1>10 DEF TreeInv

\* Where the walk is.
LEMMA WalkFacts ==
    ASSUME ControlInv, NEW lev, TreeInv(lev), Mapping, walk # NoWalk
    PROVE  /\ who \in Spaces /\ who # 0 /\ space[who] \in {"loading", "living"} /\ path = <<>>
           /\ walk \in [level : 0..(Levels - 1), table : TableFrames,
                        child : TableFrames \cup {Nil}, va : Int, pa : Int, left : Nat \ {0}]
           /\ walk.level \in 0..(Levels - 1) /\ walk.table \in TableFrames
           /\ walk.child \in TableFrames \cup {Nil} /\ walk.left \in Nat \ {0}
           /\ walk.va \in Int /\ walk.pa \in Int
           /\ level_to_index(walk.level, walk.va) \in Indices
           /\ EntryOK(Here, walk.table, TableFrames, DataFrames, lev)
           /\ lev[walk.table] = walk.level
           /\ Nil \notin TableFrames
           /\ Unlinked = {walk.child} \ {Nil}
<1>1. /\ who \in Spaces /\ who # 0 /\ space[who] \in {"loading", "living"} /\ path = <<>>
  BY DEF Mapping, Busy, ControlInv
<1>2. /\ walk \in [level : 0..(Levels - 1), table : TableFrames,
                   child : TableFrames \cup {Nil}, va : Int, pa : Int, left : Nat \ {0}]
      /\ lev[walk.table] = walk.level
  BY DEF TreeInv, WalkInv
<1>3. /\ walk.level \in 0..(Levels - 1) /\ walk.table \in TableFrames
      /\ walk.child \in TableFrames \cup {Nil} /\ walk.left \in Nat \ {0}
      /\ walk.va \in Int /\ walk.pa \in Int
  BY <1>2
<1>4. level_to_index(walk.level, walk.va) \in Indices
  BY <1>3, IndexIsEntry
<1>5. EntryOK(Here, walk.table, TableFrames, DataFrames, lev)
  BY <1>3, <1>4 DEF TreeInv, Forest, Here
<1>6. Nil \notin TableFrames
  BY DEF TableFrames, Addresses, Nil
<1> QED BY <1>1, <1>2, <1>3, <1>4, <1>5, <1>6 DEF Unlinked

\* The walk goes down to a table that is there.
LEMMA WalkDownTree ==
    ASSUME ControlInv, NEW lev, TreeInv(lev), WalkDown
    PROVE  TreeInv(lev)'
<1>1. /\ Mapping /\ walk # NoWalk /\ walk.level \in 1..Levels /\ is_valid(Here)
      /\ walk' = [walk EXCEPT !.table = Here.to, !.level = @ - 1]
      /\ UNCHANGED vars /\ UNCHANGED <<pte, space, root, trapframe, who, todo, path, data>>
  BY DEF WalkDown, Walking
<1>2. live' = live /\ TableFrames' = TableFrames /\ DataFrames' = DataFrames
  BY <1>1, NoBlockChanges, SameFrames
<1>3. /\ who \in Spaces /\ who # 0 /\ space[who] \in {"loading", "living"} /\ path = <<>>
      /\ walk \in [level : 0..(Levels - 1), table : TableFrames,
                   child : TableFrames \cup {Nil}, va : Int, pa : Int, left : Nat \ {0}]
      /\ EntryOK(Here, walk.table, TableFrames, DataFrames, lev)
      /\ lev[walk.table] = walk.level
      /\ Unlinked = {walk.child} \ {Nil}
  BY <1>1, WalkFacts
<1>4. Here.to \in TableFrames /\ lev[Here.to] = walk.level - 1
  BY <1>1, <1>3 DEF EntryOK, is_valid
<1>5. walk.child = Nil
  BY <1>1 DEF TreeInv, WalkInv
<1>6. walk.level - 1 \in 0..(Levels - 1)
  BY <1>1, PageTableAssumption
<1>7. /\ walk'.level = walk.level - 1 /\ walk'.table = Here.to /\ walk'.child = Nil
      /\ walk'.pa = walk.pa /\ walk'.left = walk.left
      /\ walk' \in [level : 0..(Levels - 1), table : TableFrames',
                    child : TableFrames' \cup {Nil}, va : Int, pa : Int, left : Nat \ {0}]
  BY <1>1, <1>2, <1>3, <1>4, <1>5, <1>6
<1>8. WalkInv(lev)'
  BY <1>1, <1>2, <1>4, <1>7 DEF TreeInv, WalkInv
<1>9. Unlinked' = {} /\ Unlinked = {}
  BY <1>3, <1>5, <1>7 DEF Unlinked
<1>10. PathInv(lev)'
  BY <1>1, <1>3, AtRest
<1>11. Tops' = Tops /\ RootInv(lev)'
  BY <1>1, <1>9, SameTops DEF TreeInv, Active
<1> QED BY <1>1, <1>2, <1>8, <1>10, <1>11 DEF TreeInv

\* The walk allocates the table that is missing.
LEMMA WalkAllocatesTree ==
    ASSUME IInv, ControlInv, BlocksInv, NEW lev, TreeInv(lev), WalkAllocates
    PROVE  \E l \in LevelMap : TreeInv(l)'
<1>1. /\ Mapping /\ walk # NoWalk /\ walk.level \in 1..Levels /\ ~is_valid(Here)
      /\ walk.child = Nil /\ Allocates(1)
      /\ walk' = [walk EXCEPT !.child = Allocated.start]
      /\ UNCHANGED <<space, root, trapframe, who, todo, path, data>>
  BY DEF WalkAllocates, Walking
<1>2. /\ who \in Spaces /\ who # 0 /\ space[who] \in {"loading", "living"} /\ path = <<>>
      /\ walk \in [level : 0..(Levels - 1), table : TableFrames,
                   child : TableFrames \cup {Nil}, va : Int, pa : Int, left : Nat \ {0}]
      /\ lev[walk.table] = walk.level /\ walk.table \in TableFrames
      /\ Unlinked = {}
  BY <1>1, WalkFacts
<1>3. walk.level - 1 \in 0..(Levels - 1)
  BY <1>1, PageTableAssumption
<1>4. PICK a \in Addresses :
        /\ Allocated.start = a /\ a \notin TableFrames
        /\ TableFrames' = TableFrames \cup {a} /\ DataFrames' = DataFrames
        /\ \A t \in TableFrames : pte'[t] = pte[t]
        /\ Forest(pte', TableFrames', DataFrames', Tops \cup {a}, [lev EXCEPT ![a] = walk.level - 1])
  BY <1>1, <1>3, AllocatesTable DEF TreeInv
<1>5. PICK l : l = [lev EXCEPT ![a] = walk.level - 1]
  OBVIOUS
<1>6. l \in LevelMap /\ lev \in LevelMap /\ Tops \subseteq TableFrames
  BY <1>4, <1>5 DEF Forest, TreeInv
<1>7. l[a] = walk.level - 1 /\ \A t \in TableFrames : l[t] = lev[t]
  BY <1>4, <1>5, <1>6 DEF LevelMap
<1>8. /\ walk'.level = walk.level /\ walk'.table = walk.table /\ walk'.child = a
      /\ walk'.pa = walk.pa /\ walk'.left = walk.left /\ walk'.va = walk.va
      /\ walk' \in [level : 0..(Levels - 1), table : TableFrames',
                    child : TableFrames' \cup {Nil}, va : Int, pa : Int, left : Nat \ {0}]
  BY <1>1, <1>2, <1>4
<1>9. ~is_valid(Here')
  <2>1. Here' = Here
    BY <1>2, <1>4, <1>8 DEF Here, level_to_index
  <2> QED BY <1>1, <2>1 DEF is_valid
<1>10. WalkInv(l)'
  <2>1. /\ walk.left <= Head(todo).size
        /\ \/ walk.pa = TrampolineCode /\ walk.left = 1
           \/ walk.pa..(walk.pa + walk.left - 1) \subseteq DataFrames
    BY <1>1 DEF TreeInv, WalkInv
  <2>2. is_valid(Here)' <=> is_valid(Here')
    BY DEF is_valid
  <2> QED BY <1>1, <1>2, <1>4, <1>7, <1>8, <1>9, <2>1, <2>2 DEF WalkInv
<1>11. walk' # NoWalk /\ a # Nil
  <2>1. NoWalk.level = Nil /\ walk.level # Nil
    BY <1>1 DEF NoWalk, Nil
  <2> QED BY <1>8, <2>1 DEF Addresses, Nil
<1>12. Unlinked' = {a} /\ Active' = Active
  BY <1>1, <1>8, <1>11 DEF Unlinked, Active
<1>13. Tops' = Tops \cup {a}
  BY <1>1, <1>2, <1>12 DEF Tops
<1>14. RootInv(l)'
  <2>1. \A p \in Active : root[p] \in TableFrames
    BY <1>6 DEF Tops
  <2> QED BY <1>1, <1>4, <1>7, <1>12, <2>1 DEF RootInv, TreeInv
<1>15. PathInv(l)'
  BY <1>1, <1>2, AtRest
<1> QED BY <1>4, <1>5, <1>6, <1>10, <1>13, <1>14, <1>15 DEF TreeInv

\* The walk links the table it has allocated, and goes down to it.
LEMMA WalkLinksTree ==
    ASSUME ControlInv, NEW lev, TreeInv(lev), WalkLinks
    PROVE  TreeInv(lev)'
<1> DEFINE i == level_to_index(walk.level, walk.va)
           c == walk.child
           s == walk.table
<1>1. /\ Mapping /\ walk # NoWalk /\ walk.level \in 1..Levels /\ c # Nil
      /\ Stores(s, i, Entry("bare", c))
      /\ walk' = [walk EXCEPT !.table = c, !.level = @ - 1, !.child = Nil]
      /\ UNCHANGED <<space, root, trapframe, who, todo, path, data>>
  BY DEF WalkLinks, Walking
<1>2. live' = live /\ TableFrames' = TableFrames /\ DataFrames' = DataFrames
  BY <1>1, NoBlockChanges, SameFrames
<1>3. /\ who \in Spaces /\ who # 0 /\ space[who] \in {"loading", "living"} /\ path = <<>>
      /\ walk \in [level : 0..(Levels - 1), table : TableFrames,
                   child : TableFrames \cup {Nil}, va : Int, pa : Int, left : Nat \ {0}]
      /\ lev[s] = walk.level /\ s \in TableFrames /\ c \in TableFrames
      /\ i \in Indices /\ Unlinked = {c}
      /\ EntryOK(pte[s][i], s, TableFrames, DataFrames, lev)
  BY <1>1, WalkFacts DEF Here
<1>4. /\ lev[c] = walk.level - 1 /\ lev[s] > 0
      /\ ~is_valid(pte[s][i])
      /\ walk.left <= Head(todo).size
      /\ \/ walk.pa = TrampolineCode /\ walk.left = 1
         \/ walk.pa..(walk.pa + walk.left - 1) \subseteq DataFrames
  BY <1>1, <1>3 DEF TreeInv, WalkInv, Here
<1>p. pte' = [pte EXCEPT ![s][i] = Entry("bare", c)]
  BY <1>1, <1>3, <1>4, StoresFree
<1>5. walk.level - 1 \in 0..(Levels - 1)
  BY <1>1, PageTableAssumption
<1>6. /\ walk'.level = walk.level - 1 /\ walk'.table = c /\ walk'.child = Nil
      /\ walk'.pa = walk.pa /\ walk'.left = walk.left
      /\ walk' \in [level : 0..(Levels - 1), table : TableFrames',
                    child : TableFrames' \cup {Nil}, va : Int, pa : Int, left : Nat \ {0}]
  BY <1>1, <1>2, <1>3, <1>5
<1> HIDE DEF i, c, s
<1>7. Forest(pte', TableFrames', DataFrames', Tops \ {c}, lev)
  <2>1. c \in Tops
    BY <1>3 DEF Tops
  <2>2. Forest([pte EXCEPT ![s][i] = Entry("bare", c)], TableFrames, DataFrames, Tops \ {c}, lev)
    BY <1>3, <1>4, <2>1, ForestLinks DEF TreeInv
  <2> QED BY <1>p, <1>2, <2>2
<1>8. WalkInv(lev)'
  BY <1>1, <1>2, <1>4, <1>6 DEF WalkInv
<1>9. Unlinked' = {} /\ Active' = Active
  BY <1>1, <1>6 DEF Unlinked, Active
<1>10. \A p \in Active : root[p] # c
  BY <1>3 DEF RootInv, TreeInv
<1>11. Tops' = Tops \ {c}
  BY <1>1, <1>3, <1>9, <1>10 DEF Tops
<1>12. RootInv(lev)'
  BY <1>1, <1>9 DEF RootInv, TreeInv
<1>13. PathInv(lev)'
  BY <1>1, <1>3, AtRest
<1> QED BY <1>7, <1>8, <1>11, <1>12, <1>13 DEF TreeInv

\* A page is mapped.
LEMMA MapPageTree ==
    ASSUME ControlInv, NEW lev, TreeInv(lev), MapPage
    PROVE  TreeInv(lev)'
<1> DEFINE i == level_to_index(walk.level, walk.va)
           s == walk.table
           e == PageEntry(Head(todo), walk.pa)
<1>1. /\ Mapping /\ walk # NoWalk /\ walk.level = 0 /\ ~is_valid(Here)
      /\ Stores(s, i, e)
      /\ UNCHANGED <<root, trapframe, path, data>>
  BY DEF MapPage, Walking, Taken
<1>2. live' = live /\ TableFrames' = TableFrames /\ DataFrames' = DataFrames
  BY <1>1, NoBlockChanges, SameFrames
<1>3. /\ who \in Spaces /\ who # 0 /\ space[who] \in {"loading", "living"} /\ path = <<>>
      /\ walk.va \in Int /\ walk.pa \in Int /\ walk.left \in Nat \ {0}
      /\ lev[s] = 0 /\ s \in TableFrames /\ i \in Indices
      /\ walk.child \in TableFrames \cup {Nil} /\ Unlinked = {walk.child} \ {Nil}
      /\ EntryOK(pte[s][i], s, TableFrames, DataFrames, lev)
  BY <1>1, WalkFacts DEF Here
<1>p. pte' = [pte EXCEPT ![s][i] = e]
  BY <1>1, <1>3, StoresFree DEF Here
<1>4. /\ walk.child = Nil /\ walk.left <= Head(todo).size
      /\ \/ walk.pa = TrampolineCode /\ walk.left = 1
         \/ walk.pa..(walk.pa + walk.left - 1) \subseteq DataFrames
  BY <1>1 DEF TreeInv, WalkInv
<1>5. walk.pa \in DataFrames \cup {TrampolineCode}
  BY <1>3, <1>4
<1>6. e \in AnyEntry /\ e.kind = "leaf" /\ e.to = walk.pa
  <2>1. walk.pa \in AnyFrame
    BY <1>5 DEF TreeInv, Forest, AnyFrame
  <2>2. Head(todo).flags # {}
    BY <1>1, TodoHead DEF Mapping
  <2> QED BY <2>1, <2>2 DEF PageEntry, Entry, AnyEntry
<1>7. pte[s][i].kind # "bare"
  BY <1>1 DEF Here, is_valid
<1> HIDE DEF i, s, e
<1>8. Forest(pte', TableFrames', DataFrames', Tops, lev) /\ Tops \subseteq TableFrames'
  <2>1. EntryOK(e, s, TableFrames, DataFrames, lev)
    BY <1>3, <1>5, <1>6 DEF EntryOK
  <2>2. Forest([pte EXCEPT ![s][i] = e], TableFrames, DataFrames, Tops, lev)
    BY <1>3, <1>6, <1>7, <2>1, ForestMaps DEF TreeInv
  <2>3. Tops \subseteq TableFrames
    BY DEF TreeInv, Forest
  <2> QED BY <1>p, <1>2, <2>2, <2>3
<1>9. Unlinked = {}
  BY <1>3, <1>4
<1>10. CASE walk.left > 1
  <2>1. walk' = Walk(walk.va + 1, walk.pa + 1, walk.left - 1) /\ UNCHANGED <<space, who, todo>>
    BY <1>10 DEF MapPage
  <2>2. walk.va + 1 \in Int /\ walk.pa + 1 \in Int /\ walk.left - 1 \in Nat \ {0}
    BY <1>3, <1>10
  <2>3. walk.left - 1 <= Head(todo).size
    <3>1. Head(todo).size \in Nat
      BY <1>1, TodoHead DEF Mapping
    <3> QED BY <1>3, <1>4, <3>1
  <2>4. (walk.pa + 1)..((walk.pa + 1) + (walk.left - 1) - 1) \subseteq DataFrames'
    <3>1. walk.pa..(walk.pa + walk.left - 1) \subseteq DataFrames
      BY <1>3, <1>4, <1>10
    <3>2. \A a \in Int : \A n \in Nat : (a + 1)..((a + 1) + (n - 1) - 1) \subseteq a..(a + n - 1)
      OBVIOUS
    <3> QED BY <1>2, <1>3, <3>1, <3>2
  <2>5. WalkInv(lev)' /\ Unlinked' = {} /\ PathInv(lev)'
    BY <1>1, <1>8, <2>1, <2>2, <2>3, <2>4, StartsWalk DEF TreeInv
  <2>6. Tops' = Tops /\ RootInv(lev)'
    BY <1>1, <1>9, <2>1, <2>5, SameTops DEF TreeInv, Active
  <2> QED BY <1>8, <2>5, <2>6 DEF TreeInv
<1>11. CASE ~(walk.left > 1)
  <2>1. /\ walk' = NoWalk
        /\ space' = [space EXCEPT ![who] = IF Tail(todo) = <<>> THEN "living" ELSE @]
        /\ who' = IF Tail(todo) = <<>> THEN 0 ELSE who
    BY <1>11 DEF MapPage
  <2>2. \A p \in Spaces : p \in Active' <=> p \in Active
    BY <1>3, <2>1 DEF Active, ControlInv
  <2>3. who' # 0 => space'[who'] # "exiting"
    BY <1>3, <2>1 DEF ControlInv
  <2>4. WalkInv(lev)' /\ Unlinked' = {} /\ PathInv(lev)'
    BY <1>1, <1>3, <2>1, <2>3, AtRest
  <2>5. Tops' = Tops /\ RootInv(lev)'
    BY <1>1, <1>9, <2>2, <2>4, SameTops DEF TreeInv
  <2> QED BY <1>8, <2>4, <2>5 DEF TreeInv
<1> QED BY <1>10, <1>11

\* A page fault in the heap begins.
LEMMA FaultTree ==
    ASSUME ControlInv, NEW lev, TreeInv(lev), NEW p \in Spaces, NEW size \in HeapSizes,
           HeapFault(p, size)
    PROVE  TreeInv(lev)'
<1>1. /\ who = 0 /\ walk = NoWalk /\ path = <<>> /\ space[p] = "living" /\ who' = p
      /\ UNCHANGED vars /\ UNCHANGED <<pte, space, root, walk, path, data>>
  BY DEF HeapFault, Idle, ControlInv
<1>2. live' = live /\ TableFrames' = TableFrames /\ DataFrames' = DataFrames
  BY <1>1, NoBlockChanges, SameFrames
<1>3. WalkInv(lev)' /\ Unlinked' = Unlinked /\ PathInv(lev)'
  BY <1>1, AtRest
<1>4. Tops' = Tops /\ RootInv(lev)'
  BY <1>1, <1>3, SameTops DEF TreeInv, Active
<1> QED BY <1>1, <1>2, <1>3, <1>4 DEF TreeInv

\* A process exits: the clean-up begins at its root.
LEMMA ExitTree ==
    ASSUME ControlInv, NEW lev, TreeInv(lev), NEW p \in Spaces, exit(p)
    PROVE  TreeInv(lev)'
<1>1. /\ who = 0 /\ walk = NoWalk /\ path = <<>> /\ space[p] = "living" /\ who' = p
      /\ space' = [space EXCEPT ![p] = "exiting"]
      /\ path' = << [table |-> root[p], index |-> 0] >>
      /\ UNCHANGED vars /\ UNCHANGED <<pte, root, walk, data>>
  BY DEF exit, Idle, ControlInv
<1>2. live' = live /\ TableFrames' = TableFrames /\ DataFrames' = DataFrames
  BY <1>1, NoBlockChanges, SameFrames
<1>3. \A q \in Spaces : q \in Active' <=> q \in Active
  BY <1>1 DEF Active, ControlInv
<1>4. WalkInv(lev)' /\ Unlinked' = Unlinked
  BY <1>1, AtRest
<1>5. Tops' = Tops /\ RootInv(lev)'
  BY <1>1, <1>3, <1>4, SameTops DEF TreeInv
<1>6. root[p] \in TableFrames /\ lev[root[p]] = Levels - 1
  BY <1>1 DEF TreeInv, Forest, RootInv, Tops, Active
<1>7. PathInv(lev)'
  <2> DEFINE x == [table |-> root[p], index |-> 0]
  <2>0. 0 \in 0..Entries
    BY PageTableAssumption
  <2>1. x \in Calls(TableFrames) /\ x.table = root[p] /\ x.index = 0
    BY <1>6, <2>0 DEF Calls
  <2> HIDE DEF x
  <2>2. path' = <<x>> /\ path' # <<>> /\ Len(path') = 1 /\ path'[1] = x
    BY <1>1 DEF x
  <2>3. path' \in Seq(Calls(TableFrames'))
    BY <1>2, <2>1, <2>2
  <2>4. \A k \in 1..Len(path') : k = 1 /\ ~(k < Len(path'))
    BY <2>2
  <2>5. \A i \in Indices : ~(i < 0)
    BY PageTableAssumption DEF Indices
  <2> QED BY <1>1, <1>6, <2>1, <2>2, <2>3, <2>4, <2>5 DEF PathInv, PathOK
<1> QED BY <1>1, <1>2, <1>4, <1>5, <1>7 DEF TreeInv

\* The next entry of the deepest table.
LEMMA AdvancedFacts ==
    ASSUME NEW T, NEW s \in Seq(Calls(T)), s # <<>>, s[Len(s)].index \in Indices
    PROVE  /\ Advanced(s) \in Seq(Calls(T)) /\ Advanced(s) # <<>> /\ Len(Advanced(s)) = Len(s)
           /\ \A k \in 1..Len(s) :
                /\ Advanced(s)[k].table = s[k].table
                /\ Advanced(s)[k].index = IF k = Len(s) THEN s[k].index + 1 ELSE s[k].index
<1>1. Len(s) \in Nat \ {0} /\ Len(s) \in 1..Len(s)
  BY EmptySeq, LenProperties
<1>2. s[Len(s)] \in Calls(T)
  BY <1>1, ElementOfSeq
<1> DEFINE n == Len(s)
           e == [s[n] EXCEPT !.index = @ + 1]
<1>3. s[n].index + 1 \in 0..Entries
  BY PageTableAssumption DEF Indices
<1>4. e \in Calls(T) /\ e.table = s[n].table /\ e.index = s[n].index + 1
  BY <1>2, <1>3 DEF Calls
<1>5. Advanced(s) = [s EXCEPT ![n] = e]
  BY DEF Advanced
<1> HIDE DEF e
<1>6. /\ [s EXCEPT ![n] = e] \in Seq(Calls(T))
      /\ Len([s EXCEPT ![n] = e]) = Len(s)
      /\ \A j \in 1..Len(s) : [s EXCEPT ![n] = e][j] = IF j = n THEN e ELSE s[j]
  BY <1>1, <1>4, ExceptSeq
<1>7. Advanced(s) # <<>>
  BY <1>1, <1>5, <1>6, EmptySeq
<1> QED BY <1>4, <1>5, <1>6, <1>7

\* The tables and indices on the path.
LEMMA PathFacts ==
    ASSUME NEW lev, PathInv(lev)
    PROVE  \A k \in 1..Len(path) : path[k].table \in TableFrames /\ path[k].index \in 0..Entries
<1>1. \A k \in 1..Len(path) : path[k] \in Calls(TableFrames)
  BY ElementOfSeq DEF PathInv, PathOK
<1> QED BY <1>1 DEF Calls

\* The clean-up enters a table.
LEMMA CleanTableTree ==
    ASSUME ControlInv, NEW lev, TreeInv(lev), CleanTable
    PROVE  TreeInv(lev)'
<1> DEFINE n == Len(path)
           x == [table |-> Found.to, index |-> 0]
<1>1. /\ Cleaning /\ Deepest.index < Entries /\ Found.kind = "bare" /\ path' = Append(path, x)
      /\ UNCHANGED vars /\ UNCHANGED <<pte, space, root, who, walk, data>>
  BY DEF CleanTable, AtEntry, IsTable
<1>2. live' = live /\ TableFrames' = TableFrames /\ DataFrames' = DataFrames
  BY <1>1, NoBlockChanges, SameFrames
<1>3. /\ walk = NoWalk /\ n \in Nat \ {0} /\ n \in 1..n /\ Deepest = path[n]
      /\ Deepest.table \in TableFrames /\ Deepest.index \in 0..Entries
  BY <1>1, DeepestFacts DEF TreeInv
<1>4. WalkInv(lev)' /\ Unlinked' = Unlinked
  BY <1>1, <1>3, AtRest
<1>5. Tops' = Tops /\ RootInv(lev)'
  BY <1>1, <1>4, SameTops DEF TreeInv, Active
<1>6. Deepest.index \in Indices
  BY <1>1, <1>3, PageTableAssumption DEF Indices
<1>7. Found.to \in TableFrames /\ lev[Found.to] = lev[Deepest.table] - 1
  <2>1. EntryOK(Found, Deepest.table, TableFrames, DataFrames, lev)
    BY <1>3, <1>6 DEF TreeInv, Forest, Found
  <2> QED BY <1>1, <2>1 DEF EntryOK
<1>8. Link(pte, path[n].table, path[n].index, Found.to)
  BY <1>1, <1>3 DEF Link, Found
<1>9. lev[Found.to] = Levels - (n + 1)
  <2>1. lev[path[n].table] = Levels - n
    BY <1>3 DEF TreeInv, PathInv, PathOK
  <2> QED BY <1>3, <1>7, <2>1, PageTableAssumption
<1>10. x \in Calls(TableFrames) /\ x.table = Found.to /\ x.index = 0
  BY <1>7, PageTableAssumption DEF Calls
<1> HIDE DEF x, n
<1>11. /\ path' \in Seq(Calls(TableFrames')) /\ path' # <<>> /\ Len(path') = n + 1
       /\ \A k \in 1..n : path'[k] = path[k]
       /\ path'[n + 1] = x
  <2>1. path \in Seq(Calls(TableFrames))
    BY DEF TreeInv, PathInv, PathOK
  <2> QED BY <1>1, <1>2, <1>10, <2>1, AppendProperties DEF n
<1>12. ASSUME NEW k \in 1..Len(path')
       PROVE  /\ lev[path'[k].table] = Levels - k
              /\ \A i \in Indices : i < path'[k].index => ~IsTable(pte[path'[k].table][i])
              /\ k < Len(path') => /\ path'[k].index \in Indices
                                   /\ Link(pte, path'[k].table, path'[k].index, path'[k + 1].table)
  <2>1. CASE k = n + 1
    <3>1. \A i \in Indices : ~(i < 0)
      BY PageTableAssumption DEF Indices
    <3> QED BY <1>3, <1>9, <1>10, <1>11, <2>1, <3>1
  <2>2. CASE k = n
    <3>1. lev[path[n].table] = Levels - n
          /\ \A i \in Indices : i < path[n].index => ~IsTable(pte[path[n].table][i])
      BY <1>3 DEF TreeInv, PathInv, PathOK, n
    <3> QED BY <1>3, <1>6, <1>8, <1>10, <1>11, <2>2, <3>1
  <2>3. CASE k \in 1..(n - 1)
    <3>1. k \in 1..n /\ k + 1 \in 1..n /\ k < n
      BY <1>3, <2>3
    <3>2. /\ lev[path[k].table] = Levels - k
          /\ \A i \in Indices : i < path[k].index => ~IsTable(pte[path[k].table][i])
          /\ path[k].index \in Indices
          /\ Link(pte, path[k].table, path[k].index, path[k + 1].table)
      BY <3>1 DEF TreeInv, PathInv, PathOK, n
    <3> QED BY <1>11, <3>1, <3>2
  <2>4. k = n + 1 \/ k = n \/ k \in 1..(n - 1)
    BY <1>3, <1>11
  <2> QED BY <2>1, <2>2, <2>3, <2>4
<1>13. who' # 0 /\ space'[who'] = "exiting" => path'[1].table = root'[who']
  <2>1. 1 \in 1..n
    BY <1>3
  <2> QED BY <1>1, <1>11, <2>1 DEF TreeInv, PathInv, PathOK
<1>14. PathInv(lev)'
  BY <1>1, <1>11, <1>12, <1>13 DEF PathInv, PathOK
<1> QED BY <1>1, <1>2, <1>4, <1>5, <1>14 DEF TreeInv

\* When P becomes Q, the entry of the last of the first n calls is no table any more, no
\* entry of their tables becomes one, and the links above stay.
Harmless(P, Q, s, n) ==
    /\ ~IsTable(Q[s[n].table][s[n].index])
    /\ \A k \in 1..n : \A i \in Indices :
         ~IsTable(P[s[k].table][i]) => ~IsTable(Q[s[k].table][i])
    /\ \A k \in 1..(n - 1) : Q[s[k].table][s[k].index] = P[s[k].table][s[k].index]

\* The upper part of the path goes on with the next entry.
LEMMA AdvancedPath ==
    ASSUME NEW lev, PathInv(lev), NEW n \in Nat \ {0}, n <= Len(path), NEW s,
           NEW T, s \in Seq(Calls(T)), Len(s) = n, \A k \in 1..n : s[k] = path[k],
           path[n].index \in Indices, NEW Q, Harmless(pte, Q, path, n)
    PROVE  /\ PathOK(Q, T, Advanced(s), lev)
           /\ Advanced(s) # <<>> /\ Advanced(s)[1].table = path[1].table
<1> USE DEF Harmless
<1>0. n \in 1..n /\ 1 \in 1..n /\ Len(path) \in Nat
  BY LenProperties DEF PathInv, PathOK
<1>1. s # <<>> /\ s[Len(s)].index \in Indices
  BY <1>0, EmptySeq
<1>2. PICK r : r = Advanced(s)
  OBVIOUS
<1>3. /\ r \in Seq(Calls(T)) /\ r # <<>> /\ Len(r) = n
      /\ \A k \in 1..n : /\ r[k].table = s[k].table
                         /\ r[k].index = IF k = n THEN s[k].index + 1 ELSE s[k].index
  BY <1>1, <1>2, AdvancedFacts
<1>4. \A k \in 1..n : /\ r[k].table = path[k].table
                      /\ r[k].index = IF k = n THEN path[k].index + 1 ELSE path[k].index
  BY <1>3
<1>5. ASSUME NEW k \in 1..n
      PROVE  /\ lev[r[k].table] = Levels - k
             /\ \A i \in Indices : i < r[k].index => ~IsTable(Q[r[k].table][i])
             /\ k < n => r[k].index \in Indices /\ Link(Q, r[k].table, r[k].index, r[k + 1].table)
  <2>1. k \in 1..Len(path) /\ k \in Nat
    BY <1>0
  <2>2. /\ lev[path[k].table] = Levels - k
        /\ \A i \in Indices : i < path[k].index => ~IsTable(pte[path[k].table][i])
        /\ k < Len(path) => /\ path[k].index \in Indices
                            /\ Link(pte, path[k].table, path[k].index, path[k + 1].table)
    BY <2>1 DEF PathInv, PathOK
  <2>3. CASE k = n
    <3>1. \A i \in Indices : i < path[n].index + 1 => i < path[n].index \/ i = path[n].index
      BY PageTableAssumption DEF Indices
    <3>2. \A i \in Indices : i < path[n].index + 1 => ~IsTable(Q[path[n].table][i])
      BY <2>2, <2>3, <3>1
    <3> QED BY <1>4, <2>2, <2>3, <3>2
  <2>4. CASE k # n
    <3>1. k \in 1..(n - 1) /\ k + 1 \in 1..n /\ k < Len(path)
      BY <1>0, <2>4
    <3>2. \A i \in Indices : i < path[k].index => ~IsTable(Q[path[k].table][i])
      BY <2>2
    <3>3. Link(Q, path[k].table, path[k].index, path[k + 1].table)
      BY <2>2, <3>1 DEF Link
    <3> QED BY <1>4, <2>2, <2>4, <3>1, <3>2, <3>3
  <2> QED BY <2>3, <2>4
<1>6. PathOK(Q, T, r, lev)
  BY <1>3, <1>5 DEF PathOK
<1> QED BY <1>0, <1>2, <1>3, <1>4, <1>6

\* The clean-up clears a leaf, or passes an entry over.
LEMMA CleanEntryTree ==
    ASSUME ControlInv, NEW lev, TreeInv(lev), CleanEntry
    PROVE  TreeInv(lev)'
<1>1. /\ Cleaning /\ Deepest.index < Entries /\ Found.kind # "bare"
      /\ path' = Advanced(path)
      /\ UNCHANGED vars /\ UNCHANGED <<space, root, who, walk, data>>
  BY DEF CleanEntry, AtEntry, IsTable
<1>2. live' = live /\ TableFrames' = TableFrames /\ DataFrames' = DataFrames
  BY <1>1, NoBlockChanges, SameFrames
<1> DEFINE n == Len(path)
           t == Deepest.table
           j == Deepest.index
           e == IF is_valid(Found) THEN Zero ELSE Found
<1>3. /\ walk = NoWalk /\ n \in Nat \ {0} /\ n \in 1..n /\ Deepest = path[n]
      /\ t \in TableFrames /\ j \in 0..Entries /\ who \in Spaces /\ space[who] = "exiting"
  BY <1>1, DeepestFacts DEF TreeInv
<1>4. j \in Indices
  BY <1>1, <1>3, PageTableAssumption DEF Indices
<1>5. WalkInv(lev)' /\ Unlinked' = Unlinked
  BY <1>1, <1>3, AtRest
<1>6. Tops' = Tops /\ RootInv(lev)'
  BY <1>1, <1>5, SameTops DEF TreeInv, Active
<1>7. /\ pte \in [Addresses -> [Indices -> AnyEntry]] /\ TableFrames \subseteq Addresses
      /\ EntryOK(Found, t, TableFrames, DataFrames, lev) /\ Found \in AnyEntry
  BY <1>3, <1>4 DEF TreeInv, Forest, Found
<1>8. e \in AnyEntry /\ e.kind = "zero"
  <2>1. Zero \in AnyEntry /\ Zero.kind = "zero"
    BY DEF Zero, Entry, AnyEntry, AnyFrame
  <2> QED BY <1>1, <1>7, <2>1 DEF EntryOK, is_valid
<1>9. pte' = [pte EXCEPT ![t][j] = e]
  BY DEF CleanEntry, Found
<1> HIDE DEF e, t, j, n
<1>10. Forest(pte', TableFrames', DataFrames', Tops, lev)
  <2>1. EntryOK(e, t, TableFrames, DataFrames, lev)
    BY <1>8 DEF EntryOK
  <2>2. pte[t][j].kind # "bare"
    BY <1>1 DEF Found, t, j
  <2>3. Forest([pte EXCEPT ![t][j] = e], TableFrames, DataFrames, Tops, lev)
    BY <1>3, <1>4, <1>8, <2>1, <2>2, ForestMaps DEF TreeInv
  <2> QED BY <1>2, <1>9, <2>3
<1>11. \A u \in Addresses : \A i \in Indices : pte'[u][i] = IF u = t /\ i = j THEN e ELSE pte[u][i]
  BY <1>3, <1>4, <1>7, <1>9
<1>12. \A k \in 1..n : path[k].table \in TableFrames /\ path[k].table \in Addresses
  BY <1>7, PathFacts DEF TreeInv, n
<1>13. path[n].table = t /\ path[n].index = j /\ ~IsTable(pte'[t][j])
  BY <1>3, <1>4, <1>7, <1>8, <1>11 DEF t, j, IsTable
<1>14. \A k \in 1..n : \A i \in Indices :
         ~IsTable(pte[path[k].table][i]) => ~IsTable(pte'[path[k].table][i])
  BY <1>8, <1>11, <1>12 DEF IsTable
<1>15. ASSUME NEW k \in 1..(n - 1)
       PROVE  pte'[path[k].table][path[k].index] = pte[path[k].table][path[k].index]
  <2>1. k \in 1..n /\ k < n
    BY <1>3
  <2>2. path[k].index \in Indices /\ Link(pte, path[k].table, path[k].index, path[k + 1].table)
    BY <2>1 DEF TreeInv, PathInv, PathOK, n
  <2>3. pte[t][j].kind # "bare"
    BY <1>1 DEF Found, t, j
  <2> QED BY <1>11, <1>12, <2>1, <2>2, <2>3 DEF Link
<1>16. path \in Seq(Calls(TableFrames)) /\ n <= Len(path) /\ Len(path) = n
  BY <1>3 DEF TreeInv, PathInv, PathOK, n
<1>17. PathOK(pte', TableFrames, path', lev) /\ path' # <<>> /\ path'[1].table = path[1].table
  <2>1. Harmless(pte, pte', path, n)
    BY <1>13, <1>14, <1>15 DEF Harmless
  <2>2. PICK Q : Q = pte'
    OBVIOUS
  <2>3. /\ PathOK(Q, TableFrames, Advanced(path), lev)
        /\ Advanced(path) # <<>> /\ Advanced(path)[1].table = path[1].table
    BY <1>3, <1>4, <1>13, <1>16, <2>1, <2>2, AdvancedPath DEF TreeInv
  <2> QED BY <1>1, <2>2, <2>3
<1>18. path[1].table = root[who]
  BY <1>1, <1>3 DEF TreeInv, PathInv, PathOK, Cleaning, Busy
<1>19. PathInv(lev)'
  BY <1>1, <1>2, <1>17, <1>18 DEF PathInv
<1> QED BY <1>5, <1>6, <1>10, <1>19 DEF TreeInv

\* What the end of a call of recursive_clean does to the memory: its table, which leads to
\* no other, is given back.
LEMMA GivesBack ==
    ASSUME ControlInv, NEW lev, TreeInv(lev), CleanDone, NEW t, t = Deepest.table
    PROVE  /\ t \in TableFrames /\ TableFrames' = TableFrames \ {t} /\ DataFrames' = DataFrames
           /\ \A i \in Indices : pte[t][i].kind # "bare"
           /\ 0 \in Indices /\ Junk \in AnyEntry
<1>1. /\ Cleaning /\ Deepest.index = Entries /\ live' = live \ {Block(t, 1)} /\ data' = data
  BY DEF CleanDone, deallocate
<1>2. /\ t \in TableFrames /\ Len(path) \in 1..Len(path) /\ Deepest = path[Len(path)]
  BY <1>1, DeepestFacts DEF TreeInv
<1>3. \A u, v : Block(u, 1) = Block(v, 1) => u = v
  BY DEF Block
<1>4. TableFrames' = TableFrames \ {t}
  BY <1>1, <1>2, <1>3 DEF TableFrames
<1>5. DataFrames' = DataFrames
  BY <1>1 DEF DataFrames, BlockPages
<1>6. \A i \in Indices : pte[t][i].kind # "bare"
  <2>1. \A i \in Indices : i < Entries
    BY PageTableAssumption DEF Indices
  <2> QED BY <1>1, <1>2, <2>1 DEF TreeInv, PathInv, PathOK, IsTable
<1>7. 0 \in Indices /\ Junk \in AnyEntry
  BY PageTableAssumption DEF Indices, Junk, Entry, AnyEntry, AnyFrame
<1> QED BY <1>2, <1>4, <1>5, <1>6, <1>7

\* The clean-up ends: the root is given back, and the process is gone.
LEMMA CleanRootTree ==
    ASSUME ControlInv, NEW lev, TreeInv(lev), CleanDone,
           SubSeq(path, 1, Len(path) - 1) = <<>>
    PROVE  TreeInv(lev)'
<1>1. PICK t : t = Deepest.table
  OBVIOUS
<1>2. /\ t \in TableFrames /\ TableFrames' = TableFrames \ {t} /\ DataFrames' = DataFrames
      /\ \A i \in Indices : pte[t][i].kind # "bare"
      /\ 0 \in Indices /\ Junk \in AnyEntry
  BY <1>1, GivesBack
<1>3. /\ Cleaning /\ pte' = [pte EXCEPT ![t][0] = Junk] /\ path' = <<>> /\ who' = 0
      /\ space' = [space EXCEPT ![who] = "gone"] /\ UNCHANGED <<root, walk>>
  BY <1>1 DEF CleanDone
<1>4. /\ who \in Spaces /\ who # 0 /\ space[who] = "exiting" /\ walk = NoWalk
      /\ Len(path) \in Nat \ {0} /\ Deepest = path[Len(path)]
  BY <1>3, DeepestFacts DEF TreeInv, Cleaning, Busy
<1>5. Len(path) = 1
  <2>1. \A k \in 1..Len(path) : path[k] \in Calls(TableFrames)
    BY ElementOfSeq DEF TreeInv, PathInv, PathOK
  <2>2. Len(SubSeq(path, 1, Len(path) - 1))
          = IF 1 <= Len(path) - 1 THEN (Len(path) - 1) - 1 + 1 ELSE 0
    <3>1. \A k \in 1..(Len(path) - 1) : path[k] \in Calls(TableFrames)
      BY <1>4, <2>1
    <3>2. 1 \in Int /\ Len(path) - 1 \in Int
      BY <1>4
    <3> QED BY <3>1, <3>2, SubSeqProperties
  <2>3. Len(SubSeq(path, 1, Len(path) - 1)) = 0
    BY EmptySeq
  <2>4. \A n \in Nat \ {0} : (IF 1 <= n - 1 THEN (n - 1) - 1 + 1 ELSE 0) = 0 => n = 1
    OBVIOUS
  <2> QED BY <1>4, <2>2, <2>3, <2>4
<1>6. t = root[who]
  BY <1>1, <1>4, <1>5 DEF TreeInv, PathInv
<1>7. who \in Active /\ t \in Tops
  BY <1>4, <1>6 DEF Active, Tops
<1>8. WalkInv(lev)' /\ Unlinked' = {} /\ Unlinked = {} /\ PathInv(lev)'
  BY <1>3, <1>4, AtRest
<1>9. Active' = Active \ {who}
  BY <1>3, <1>4 DEF Active, ControlInv
<1>10. \A p \in Active : root[p] = t => p = who
  BY <1>6, <1>7 DEF TreeInv, RootInv
<1>11. Tops' = Tops \ {t}
  BY <1>3, <1>6, <1>8, <1>9, <1>10 DEF Tops
<1>12. RootInv(lev)'
  BY <1>3, <1>8, <1>9 DEF TreeInv, RootInv
<1>13. Forest(pte', TableFrames', DataFrames', Tops', lev)
  <2>1. pte \in [Addresses -> [Indices -> AnyEntry]] /\ TableFrames \subseteq Addresses
    BY DEF TreeInv, Forest
  <2>2. pte' \in [Addresses -> [Indices -> AnyEntry]] /\ \A s \in TableFrames \ {t} : pte'[s] = pte[s]
    BY <1>2, <1>3, <2>1
  <2>3. PICK Q : Q = pte'
    OBVIOUS
  <2>4. Forest(Q, TableFrames \ {t}, DataFrames, Tops \ {t}, lev)
    BY <1>2, <1>7, <2>2, <2>3, ForestLosesTop DEF TreeInv
  <2> QED BY <1>2, <1>11, <2>3, <2>4
<1> QED BY <1>8, <1>12, <1>13 DEF TreeInv

\* The clean-up goes back to the table above, and clears the link.
LEMMA CleanBackTree ==
    ASSUME ControlInv, NEW lev, TreeInv(lev), CleanDone,
           SubSeq(path, 1, Len(path) - 1) # <<>>
    PROVE  TreeInv(lev)'
<1>1. PICK t : t = Deepest.table
  OBVIOUS
<1>2. /\ t \in TableFrames /\ TableFrames' = TableFrames \ {t} /\ DataFrames' = DataFrames
      /\ \A i \in Indices : pte[t][i].kind # "bare"
      /\ 0 \in Indices /\ Junk \in AnyEntry
  BY <1>1, GivesBack
<1>3. PICK above : above = SubSeq(path, 1, Len(path) - 1)
  OBVIOUS
<1>4. PICK freed : freed = [pte EXCEPT ![t][0] = Junk]
  OBVIOUS
<1>5. PICK n : n = Len(above)
  OBVIOUS
<1>6. /\ Cleaning /\ pte' = [freed EXCEPT ![above[n].table][above[n].index] = Zero]
      /\ path' = Advanced(above) /\ UNCHANGED <<who, space, root, walk>>
  BY <1>1, <1>3, <1>4, <1>5 DEF CleanDone
<1>7. /\ who \in Spaces /\ who # 0 /\ space[who] = "exiting" /\ walk = NoWalk
      /\ Len(path) \in Nat \ {0} /\ Deepest = path[Len(path)]
  BY <1>6, DeepestFacts DEF TreeInv, Cleaning, Busy
<1>8. /\ n \in Nat \ {0} /\ Len(path) = n + 1
      /\ \A k \in 1..n : above[k] = path[k]
  <2>1. \A k \in 1..(Len(path) - 1) : path[k] \in Calls(TableFrames)
    <3>1. \A k \in 1..Len(path) : path[k] \in Calls(TableFrames)
      BY ElementOfSeq DEF TreeInv, PathInv, PathOK
    <3> QED BY <1>7, <3>1
  <2>2. 1 \in Int /\ Len(path) - 1 \in Int
    BY <1>7
  <2>3. /\ above \in Seq(Calls(TableFrames))
        /\ n = IF 1 <= Len(path) - 1 THEN (Len(path) - 1) - 1 + 1 ELSE 0
        /\ \A k \in 1..((Len(path) - 1) - 1 + 1) : above[k] = path[1 + k - 1]
    BY <1>3, <1>5, <2>1, <2>2, SubSeqProperties
  <2>4. n \in Nat \ {0}
    BY <1>3, <1>5, <2>3, EmptySeq
  <2>5. Len(path) = n + 1
    BY <1>7, <2>3, <2>4
  <2>6. \A k \in 1..n : k \in 1..((Len(path) - 1) - 1 + 1) /\ 1 + k - 1 = k
    BY <2>4, <2>5
  <2> QED BY <2>3, <2>4, <2>5, <2>6
<1>9. \A k \in 1..n : k \in 1..Len(path) /\ k < Len(path)
  BY <1>8
<1>10. /\ pte \in [Addresses -> [Indices -> AnyEntry]] /\ TableFrames \subseteq Addresses
  BY DEF TreeInv, Forest
<1>11. \A k \in 1..n :
         /\ path[k].table \in TableFrames /\ path[k].index \in Indices
         /\ lev[path[k].table] = Levels - k
         /\ Link(pte, path[k].table, path[k].index, path[k + 1].table)
  BY <1>9, PathFacts DEF TreeInv, PathInv, PathOK
<1>12. PICK s, i : s = path[n].table /\ i = path[n].index
  OBVIOUS
<1>13. /\ s \in TableFrames /\ i \in Indices /\ Link(pte, s, i, t) /\ s \in Addresses
       /\ above[n] = path[n] /\ n \in 1..n
  <2>1. n \in 1..n /\ path[n + 1] = Deepest
    BY <1>7, <1>8
  <2> QED BY <1>1, <1>8, <1>10, <1>11, <1>12, <2>1
<1>14. \A k \in 1..n : path[k].table # t
  <2>1. lev[t] = Levels - (n + 1)
    <3>1. n + 1 \in 1..Len(path) /\ path[n + 1].table = t
      BY <1>1, <1>7, <1>8
    <3>2. lev[path[n + 1].table] = Levels - (n + 1)
      BY <3>1 DEF TreeInv, PathInv, PathOK
    <3> QED BY <3>1, <3>2
  <2>2. \A k \in 1..n : Levels - k # Levels - (n + 1)
    BY <1>8, PageTableAssumption
  <2> QED BY <1>11, <2>1, <2>2
<1>15. /\ pte' \in [Addresses -> [Indices -> AnyEntry]]
       /\ \A u \in Addresses \ {t} : \A j \in Indices :
            pte'[u][j] = IF u = s /\ j = i THEN Zero ELSE pte[u][j]
  <2>1. Zero \in AnyEntry
    BY DEF Zero, Entry, AnyEntry, AnyFrame
  <2>2. /\ freed \in [Addresses -> [Indices -> AnyEntry]]
        /\ \A u \in Addresses \ {t} : freed[u] = pte[u]
    BY <1>2, <1>4, <1>10
  <2>3. pte' = [freed EXCEPT ![s][i] = Zero]
    BY <1>6, <1>12, <1>13
  <2> QED BY <1>13, <2>1, <2>2, <2>3
<1>16. Forest(pte', TableFrames \ {t}, DataFrames, Tops, lev)
  <2>1. PICK Q : Q = pte'
    OBVIOUS
  <2>2. \A u \in TableFrames \ {t} : u \in Addresses \ {t}
    BY <1>10
  <2>3. Forest(Q, TableFrames \ {t}, DataFrames, Tops, lev)
    BY <1>2, <1>13, <1>15, <2>1, <2>2, ForestLosesLeaf DEF TreeInv
  <2> QED BY <2>1, <2>3
<1>17. WalkInv(lev)' /\ Unlinked' = Unlinked
  BY <1>6, <1>7, AtRest
<1>18. Tops' = Tops /\ RootInv(lev)'
  BY <1>6, <1>17, SameTops DEF TreeInv, Active
<1>19. above \in Seq(Calls(TableFrames'))
  <2>1. \A k \in 1..n : above[k] \in Calls(TableFrames \ {t})
    <3>1. \A k \in 1..Len(path) : path[k] \in Calls(TableFrames)
      BY ElementOfSeq DEF TreeInv, PathInv, PathOK
    <3> QED BY <1>8, <1>9, <1>14, <3>1 DEF Calls
  <2>2. \A k \in 1..(Len(path) - 1) : path[k] \in Calls(TableFrames \ {t})
    <3>1. Len(path) - 1 = n
      BY <1>8
    <3> QED BY <1>8, <2>1, <3>1
  <2>3. 1 \in Int /\ Len(path) - 1 \in Int
    BY <1>7
  <2> QED BY <1>2, <1>3, <2>2, <2>3, SubSeqProperties
<1>20. Harmless(pte, pte', path, n)
  <2>1. \A k \in 1..n : path[k].table \in Addresses \ {t}
    BY <1>10, <1>11, <1>14
  <2>2. ~IsTable(Zero)
    BY DEF IsTable, Zero, Entry
  <2>3. ~IsTable(pte'[path[n].table][path[n].index])
    BY <1>12, <1>13, <1>15, <2>1, <2>2
  <2>4. \A k \in 1..n : \A j \in Indices :
          ~IsTable(pte[path[k].table][j]) => ~IsTable(pte'[path[k].table][j])
    BY <1>15, <2>1, <2>2
  <2>5. ASSUME NEW k \in 1..(n - 1)
        PROVE  pte'[path[k].table][path[k].index] = pte[path[k].table][path[k].index]
    <3>1. k \in 1..n /\ Levels - k # Levels - n
      BY <1>8, PageTableAssumption
    <3>2. path[k].table # s
      BY <1>11, <1>12, <1>13, <3>1
    <3> QED BY <1>11, <1>15, <2>1, <3>1, <3>2
  <2> QED BY <2>3, <2>4, <2>5 DEF Harmless
<1>21. PathOK(pte', TableFrames', path', lev) /\ path' # <<>> /\ path'[1].table = path[1].table
  <2>1. PICK Q : Q = pte'
    OBVIOUS
  <2>2. PICK T : T = TableFrames'
    OBVIOUS
  <2>3. n <= Len(path) /\ path[n].index \in Indices
    BY <1>8, <1>11, <1>13
  <2>4. /\ PathOK(Q, T, Advanced(above), lev)
        /\ Advanced(above) # <<>> /\ Advanced(above)[1].table = path[1].table
    BY <1>5, <1>8, <1>19, <1>20, <2>1, <2>2, <2>3, AdvancedPath DEF TreeInv
  <2> QED BY <1>6, <2>1, <2>2, <2>4
<1>22. PathInv(lev)'
  BY <1>6, <1>7, <1>21 DEF TreeInv, PathInv
<1> QED BY <1>2, <1>16, <1>17, <1>18, <1>22 DEF TreeInv

-----------------------------------------------------------------------------
(* The inductive invariant holds *)

\* At first there are no tables.
LEMMA PtInitInv == PtInit => PtInv
<1> SUFFICES ASSUME PtInit PROVE PtInv
  OBVIOUS
<1>1. ControlInv
  BY ControlInit
<1>2. live = {} /\ data = {} /\ walk = NoWalk /\ path = <<>> /\ who = 0
  BY DEF PtInit, Init
<1>3. TableFrames = {} /\ DataFrames = {} /\ Unlinked = {}
  BY <1>2 DEF TableFrames, DataFrames, Unlinked
<1>4. Active = {} /\ Tops = {}
  BY <1>3 DEF PtInit, Active, Tops
<1>5. BlocksInv
  BY <1>2 DEF PtInit, BlocksInv
<1>6. PICK lev : lev = [t \in Addresses |-> 0]
  OBVIOUS
<1>7. lev \in LevelMap
  BY <1>6, PageTableAssumption DEF LevelMap
<1>8. pte \in [Addresses -> [Indices -> AnyEntry]]
  <2>1. Junk \in AnyEntry
    BY DEF Junk, Entry, AnyEntry, AnyFrame
  <2> QED BY <2>1 DEF PtInit
<1>9. Forest(pte, TableFrames, DataFrames, Tops, lev)
  BY <1>3, <1>4, <1>7, <1>8 DEF Forest
<1>10. RootInv(lev) /\ WalkInv(lev)
  BY <1>2, <1>4 DEF RootInv, WalkInv
<1>11. PathInv(lev)
  <2>1. path \in Seq(Calls(TableFrames)) /\ \A k \in 1..Len(path) : FALSE
    BY <1>2
  <2> QED BY <1>2, <2>1 DEF PathInv, PathOK
<1> QED BY <1>1, <1>5, <1>7, <1>9, <1>10, <1>11 DEF PtInv, TreeInv

\* Every action keeps the invariant.
LEMMA PtNextInv ==
    ASSUME FlagsGiven, IInv, PtInv, [PtNext]_ptvars PROVE PtInv'
<1>1. ControlInv /\ BlocksInv
  BY DEF PtInv
<1>2. PICK lev \in LevelMap : TreeInv(lev)
  BY DEF PtInv
<1>3. ControlInv' /\ BlocksInv'
  BY <1>1, <1>2, ControlNext, BlocksNext DEF TreeInv
<1> SUFFICES \E l \in LevelMap : TreeInv(l)'
  BY <1>3 DEF PtInv
<1>4. ASSUME NEW p \in Spaces, NEW program \in Programs, assign_process(p, program)
      PROVE  \E l \in LevelMap : TreeInv(l)'
  BY <1>1, <1>2, <1>4, AssignTree
<1>5. ASSUME WalkAllocates PROVE \E l \in LevelMap : TreeInv(l)'
  BY <1>1, <1>2, <1>5, WalkAllocatesTree
<1>6. ASSUME StartFails \/ WalkFails \/ PageAlreadyMapped PROVE TreeInv(lev)'
  <2>1. Mapping /\ Error /\ live' = live /\ pte' = pte
    BY <1>6, NoBlockChanges DEF StartFails, WalkFails, PageAlreadyMapped, Walking
  <2>2. Unlinked = {}
    <3>1. CASE walk = NoWalk
      BY <3>1 DEF Unlinked
    <3>2. CASE walk # NoWalk
      <4>1. walk.child = Nil \/ walk.level = 0
        BY <1>6, <3>2 DEF StartFails, WalkFails, PageAlreadyMapped, Walking
      <4>2. walk.child = Nil
        BY <1>2, <3>2, <4>1 DEF TreeInv, WalkInv
      <4> QED BY <4>2 DEF Unlinked
    <3> QED BY <3>1, <3>2
  <2> QED BY <1>1, <1>2, <2>1, <2>2, ErrorTree
<1>7. ASSUME NewFails \/ PtHalted \/ UNCHANGED ptvars PROVE TreeInv(lev)'
  <2>1. live' = live /\ UNCHANGED <<pte, space, root, who, todo, walk, path, data>>
    BY <1>7, NoBlockChanges DEF NewFails, PtHalted, ptvars, job
  <2>2. TableFrames' = TableFrames /\ DataFrames' = DataFrames
    BY <2>1, SameFrames
  <2>3. Unlinked' = Unlinked /\ Active' = Active
    BY <2>1 DEF Unlinked, Active
  <2>4. Tops' = Tops /\ RootInv(lev)'
    BY <1>2, <2>1, <2>3, SameTops DEF TreeInv
  <2>5. WalkInv(lev)'
    BY <1>2, <2>1, <2>2 DEF TreeInv, WalkInv, is_valid, Here, level_to_index
  <2>6. PathInv(lev)'
    BY <1>2, <2>1, <2>2 DEF TreeInv, PathInv
  <2> QED BY <1>2, <2>1, <2>2, <2>4, <2>5, <2>6 DEF TreeInv
<1>8. ASSUME NEW p \in Spaces, exit(p) \/ \E size \in HeapSizes : HeapFault(p, size)
      PROVE  TreeInv(lev)'
  BY <1>1, <1>2, <1>8, ExitTree, FaultTree
<1>9. ASSUME NewTrapframe \/ StartRegion \/ StartFixed \/ WalkDown \/ WalkLinks \/ MapPage
      PROVE  TreeInv(lev)'
  BY <1>1, <1>2, <1>9, TrapframeTree, StartRegionTree, StartFixedTree, WalkDownTree,
     WalkLinksTree, MapPageTree
<1>10. ASSUME CleanTable \/ CleanEntry \/ CleanDone PROVE TreeInv(lev)'
  BY <1>1, <1>2, <1>10, CleanTableTree, CleanEntryTree, CleanRootTree, CleanBackTree
<1>11. TreeInv(lev)' => \E l \in LevelMap : TreeInv(l)'
  BY <1>2
<1> QED
  BY <1>4, <1>5, <1>6, <1>7, <1>8, <1>9, <1>10, <1>11 DEF PtNext

\* What the kernel does to the memory is what clients of the allocator may do: the sizes
\* that it asks for are wanted, the entries that it writes lie in tables that it holds,
\* and the table that the clean-up gives back is held, and a single page.
LEMMA PtNextIsNext ==
    ASSUME ControlInv, NEW lev, TreeInv(lev), [PtNext]_ptvars PROVE [Next]_vars
<1>1. \A m \in Wanted : Allocates(m) \/ AllocationFails(m) => Next
  BY DEF Allocates, AllocationFails, Next, allocate
<1>2. \A t \in TableFrames : \A i, e : Stores(t, i, e) => Next
  BY DEF Stores, Next, TableFrames
<1>3. 1 \in Wanted
  BY PageTableAssumption
<1>4. todo # <<>> => FramesFor(Head(todo)) \in Wanted
  BY TodoHead DEF FramesFor
<1>5. ASSUME NEW p \in Spaces, NEW program \in Programs, assign_process(p, program) PROVE Next
  BY <1>1, <1>3, <1>5 DEF assign_process
<1>6. NewTrapframe \/ NewFails => Next
  BY <1>1, <1>3 DEF NewTrapframe, NewFails
<1>7. StartRegion \/ StartFails => Next
  BY <1>1, <1>4 DEF StartRegion, StartFails, Mapping
<1>8. WalkAllocates \/ WalkFails => Next
  BY <1>1, <1>3 DEF WalkAllocates, WalkFails
<1>9. ASSUME WalkLinks \/ MapPage PROVE Next
  <2>1. walk.table \in TableFrames
    BY <1>9, WalkFacts DEF WalkLinks, MapPage, Walking
  <2> QED BY <1>2, <1>9, <2>1 DEF WalkLinks, MapPage
<1>10. ASSUME CleanDone PROVE Next
  <2>1. Deepest.table \in TableFrames
    BY <1>10, DeepestFacts DEF CleanDone, TreeInv
  <2>2. Block(Deepest.table, 1) \in live /\ Block(Deepest.table, 1).size \in Freed
    BY <2>1, PageTableAssumption DEF TableFrames, Block
  <2> QED BY <1>10, <2>2 DEF CleanDone, Next
<1>11. StartFixed \/ WalkDown \/ PageAlreadyMapped \/ CleanTable \/ CleanEntry => UNCHANGED vars
  BY DEF StartFixed, WalkDown, PageAlreadyMapped, CleanTable, CleanEntry
<1>12. ASSUME NEW p \in Spaces, exit(p) \/ \E size \in HeapSizes : HeapFault(p, size)
       PROVE UNCHANGED vars
  BY <1>12 DEF exit, HeapFault
<1>13. PtHalted \/ UNCHANGED ptvars => UNCHANGED vars
  BY DEF PtHalted, ptvars
<1> QED
  BY <1>5, <1>6, <1>7, <1>8, <1>9, <1>10, <1>11, <1>12, <1>13 DEF PtNext

-----------------------------------------------------------------------------
(* What is found from a root *)

\* Induction from the highest level down.
LEMMA Downwards ==
    ASSUME NEW top \in Nat, NEW S, top \in S, \A l \in 1..top : l \in S => l - 1 \in S
    PROVE  \A l \in 0..top : l \in S
<1> DEFINE Bad == {k \in 0..top : top - k \notin S}
<1>1. ASSUME Bad # {} PROVE FALSE
  <2>1. Bad \subseteq Nat
    OBVIOUS
  <2>2. PICK k \in Bad : \A y \in Bad : k <= y
    BY <1>1, <2>1, Least
  <2>3. k \in 1..top /\ k - 1 \in 0..top /\ ~(k <= k - 1) /\ top - k \notin S
    OBVIOUS
  <2>4. top - (k - 1) \in S
    BY <2>2, <2>3
  <2>5. top - (k - 1) \in 1..top /\ (top - (k - 1)) - 1 = top - k
    BY <2>3
  <2> QED BY <2>3, <2>4, <2>5
<1>2. \A l \in 0..top : top - l \in 0..top /\ top - (top - l) = l
  OBVIOUS
<1> QED BY <1>1, <1>2

\* The function g leads from the highest level down as step says, within W.
Descends(g, top, first, step, W) ==
    /\ g = [l \in 0..top |-> g[l]]
    /\ g[top] = first
    /\ \A l \in 0..top : <<l, g[l]>> \in W
    /\ \A l \in 1..top : g[l - 1] = step[<<l, g[l]>>]

\* A function can be defined from each level to the next one below.
LEMMA Descent ==
    ASSUME NEW top \in Nat, NEW first, NEW step, NEW W, <<top, first>> \in W,
           \A l \in 1..top : \A x : <<l, x>> \in W => <<l - 1, step[<<l, x>>]>> \in W
    PROVE  \E g : Descends(g, top, first, step, W)
<1> DEFINE Down(m, g) == /\ g = [l \in 0..top |-> g[l]]
                         /\ g[top] = first
                         /\ \A l \in m..top : <<l, g[l]>> \in W
                         /\ \A l \in (m + 1)..top : g[l - 1] = step[<<l, g[l]>>]
           S == {m \in 0..top : \E g : Down(m, g)}
<1>1. top \in S
  <2>1. Down(top, [l \in 0..top |-> first])
    OBVIOUS
  <2> HIDE DEF Down
  <2> QED BY <2>1
<1>2. ASSUME NEW m \in 1..top, m \in S PROVE m - 1 \in S
  <2>1. PICK g : Down(m, g)
    BY <1>2
  <2> DEFINE x == step[<<m, g[m]>>]
             h == [l \in 0..top |-> IF l = m - 1 THEN x ELSE g[l]]
  <2>2. <<m, g[m]>> \in W
    BY <2>1
  <2>3. <<m - 1, x>> \in W
    BY <2>2
  <2> HIDE DEF x
  <2>4. h = [l \in 0..top |-> h[l]] /\ h[top] = first
    BY <2>1
  <2>5. \A l \in m..top : h[l] = g[l]
    OBVIOUS
  <2>6. h[m - 1] = x
    OBVIOUS
  <2> HIDE DEF h
  <2>7. \A l \in (m - 1)..top : <<l, h[l]>> \in W
    <3>1. \A l \in (m - 1)..top : l = m - 1 \/ l \in m..top
      OBVIOUS
    <3> QED BY <2>1, <2>3, <2>5, <2>6, <3>1
  <2>8. \A l \in ((m - 1) + 1)..top : h[l - 1] = step[<<l, h[l]>>]
    <3>1. ASSUME NEW l \in ((m - 1) + 1)..top PROVE h[l - 1] = step[<<l, h[l]>>]
      <4>1. CASE l = m
        BY <2>5, <2>6, <4>1 DEF x
      <4>2. CASE l # m
        <5>1. l \in (m + 1)..top /\ l - 1 \in m..top /\ l \in m..top
          BY <4>2
        <5> QED BY <2>1, <2>5, <5>1
      <4> QED BY <4>1, <4>2
    <3> QED BY <3>1
  <2>9. Down(m - 1, h)
    BY <2>4, <2>7, <2>8
  <2>10. m - 1 \in 0..top
    OBVIOUS
  <2> HIDE DEF Down
  <2> QED BY <2>9, <2>10
<1> HIDE DEF S
<1>3. 0 \in S
  BY <1>1, <1>2, Downwards
<1>4. PICK g : Down(0, g)
  BY <1>3 DEF S
<1>5. \A l \in 1..top : l \in (0 + 1)..top
  OBVIOUS
<1> QED BY <1>4, <1>5 DEF Descends

\* The tables of a process on each level.
LevelsOf(p, f) ==
    f = [l \in 0..(Levels - 1) |->
            IF l = Levels - 1 THEN {root[p]} \ {Nil} ELSE UNION {Below(t) : t \in f[l + 1]}]

\* What Tables collects.
LEMMA TablesForm ==
    ASSUME NEW p, \E f : LevelsOf(p, f)
    PROVE  \E f : LevelsOf(p, f) /\ Tables(p) = UNION {f[l] : l \in 0..(Levels - 1)}
<1> DEFINE g == CHOOSE f : LevelsOf(p, f)
<1>1. LevelsOf(p, g)
  OBVIOUS
<1>2. Tables(p) = UNION {g[l] : l \in 0..(Levels - 1)}
  BY DEF Tables, LevelsOf
<1> QED BY <1>1, <1>2

\* The levels of a process hold tables of these levels, from its root down.
LEMMA LevelsFacts ==
    ASSUME NEW lev, TreeInv(lev), NEW p \in Active
    PROVE  \E f : /\ LevelsOf(p, f)
                  /\ Tables(p) = UNION {f[l] : l \in 0..(Levels - 1)}
                  /\ f[Levels - 1] = {root[p]}
                  /\ \A l \in 1..(Levels - 1) : f[l - 1] = UNION {Below(t) : t \in f[l]}
                  /\ \A l \in 0..(Levels - 1) : \A t \in f[l] : t \in TableFrames /\ lev[t] = l
<1> DEFINE top == Levels - 1
           W == {w \in (0..top) \X SUBSET TableFrames : \A t \in w[2] : lev[t] = w[1]}
           step == [w \in W |-> UNION {Below(t) : t \in w[2]}]
<1>1. top \in Nat /\ Levels \in Nat
  BY PageTableAssumption
<1>2. root[p] \in TableFrames /\ lev[root[p]] = top /\ Nil \notin TableFrames
  <2>1. root[p] \in TableFrames /\ lev[root[p]] = top
    BY DEF TreeInv, Forest, Tops, RootInv
  <2>2. Nil \notin TableFrames
    BY DEF TableFrames, Addresses, Nil
  <2> QED BY <2>1, <2>2
<1> DEFINE first == {root[p]} \ {Nil}
<1>3. first = {root[p]} /\ top \in 0..top
  BY <1>1, <1>2
<1>4. <<top, first>> \in W
  BY <1>1, <1>2, <1>3
<1>5. ASSUME NEW t \in TableFrames, NEW u \in Below(t)
      PROVE  u \in TableFrames /\ lev[t] > 0 /\ lev[u] = lev[t] - 1
  <2>1. PICK i \in Indices : pte[t][i].kind = "bare" /\ u = pte[t][i].to
    BY DEF Below, IsTable
  <2>2. EntryOK(pte[t][i], t, TableFrames, DataFrames, lev)
    BY DEF TreeInv, Forest
  <2> QED BY <2>1, <2>2 DEF EntryOK
<1>6. ASSUME NEW l \in 1..top, NEW x, <<l, x>> \in W
      PROVE  /\ <<l - 1, step[<<l, x>>]>> \in W
             /\ step[<<l, x>>] = UNION {Below(t) : t \in x}
  <2>1. x \in SUBSET TableFrames /\ \A t \in x : lev[t] = l
    BY <1>6
  <2>2. step[<<l, x>>] = UNION {Below(t) : t \in x}
    BY <1>6
  <2> HIDE DEF step
  <2>3. \A u \in step[<<l, x>>] : u \in TableFrames /\ lev[u] = l - 1
    BY <1>5, <2>1, <2>2
  <2>4. l - 1 \in 0..top
    BY <1>1
  <2> QED BY <2>2, <2>3, <2>4
<1> HIDE DEF step, W, first, top
<1>7. PICK g : Descends(g, top, first, step, W)
  BY <1>1, <1>4, <1>6, Descent
<1>8. \A l \in 0..top : l # top => l + 1 \in 1..top /\ (l + 1) - 1 = l
  BY <1>1
<1>9. LevelsOf(p, g)
  <2>1. ASSUME NEW l \in 0..top
        PROVE  g[l] = IF l = top THEN first ELSE UNION {Below(t) : t \in g[l + 1]}
    <3>1. CASE l = top
      BY <1>7, <3>1 DEF Descends
    <3>2. CASE l # top
      <4>1. l + 1 \in 1..top /\ (l + 1) - 1 = l /\ l + 1 \in 0..top
        BY <1>1, <1>8, <3>2
      <4>2. g[(l + 1) - 1] = step[<<l + 1, g[l + 1]>>] /\ <<l + 1, g[l + 1]>> \in W
        BY <1>7, <4>1 DEF Descends
      <4> QED BY <1>6, <3>2, <4>1, <4>2
    <3> QED BY <3>1, <3>2
  <2>2. g = [l \in 0..top |-> g[l]]
    BY <1>7 DEF Descends
  <2>3. g = [l \in 0..top |-> IF l = top THEN first ELSE UNION {Below(t) : t \in g[l + 1]}]
    BY <2>1, <2>2
  <2> QED BY <2>3 DEF LevelsOf, top, first
<1>10. PICK f : LevelsOf(p, f) /\ Tables(p) = UNION {f[l] : l \in 0..(Levels - 1)}
  BY <1>9, TablesForm
<1>11. f = [l \in 0..top |-> IF l = top THEN first ELSE UNION {Below(t) : t \in f[l + 1]}]
  BY <1>10 DEF LevelsOf, top, first
<1>12. f[top] = first
  BY <1>1, <1>11
<1>13. ASSUME NEW l \in 1..top PROVE f[l - 1] = UNION {Below(t) : t \in f[l]}
  <2>1. l - 1 \in 0..top /\ l - 1 # top /\ (l - 1) + 1 = l
    BY <1>1
  <2> QED BY <1>11, <2>1
<1>14. \A l \in 0..top : f[l] = g[l]
  <2> DEFINE S == {l \in 0..top : f[l] = g[l]}
  <2>1. top \in S
    BY <1>1, <1>7, <1>12 DEF Descends
  <2>2. ASSUME NEW l \in 1..top, l \in S PROVE l - 1 \in S
    <3>1. l - 1 \in 0..top /\ f[l] = g[l] /\ l \in 0..top
      BY <1>1, <2>2
    <3>2. g[l - 1] = step[<<l, g[l]>>] /\ <<l, g[l]>> \in W
      BY <1>7, <3>1 DEF Descends
    <3>3. f[l - 1] = g[l - 1]
      BY <1>6, <1>13, <3>1, <3>2
    <3> QED BY <3>1, <3>3
  <2> HIDE DEF S
  <2>3. \A l \in 0..top : l \in S
    BY <1>1, <2>1, <2>2, Downwards
  <2> QED BY <2>3 DEF S
<1>15. ASSUME NEW l \in 0..top, NEW t \in f[l] PROVE t \in TableFrames /\ lev[t] = l
  <2>1. <<l, g[l]>> \in W
    BY <1>7 DEF Descends
  <2> QED BY <1>14, <1>15, <2>1 DEF W
<1> QED BY <1>3, <1>10, <1>12, <1>13, <1>15 DEF top

\* A process's tables are tables, and every table is one of a process when no walk has
\* a table in hand.
LEMMA TablesFacts ==
    ASSUME NEW lev, TreeInv(lev)
    PROVE  /\ \A p \in Active : Tables(p) \subseteq TableFrames
           /\ Unlinked = {} => TableFrames = UNION {Tables(p) : p \in Active}
<1> DEFINE top == Levels - 1
<1>1. top \in Nat /\ Levels \in Nat
  BY PageTableAssumption
<1>2. ASSUME NEW p \in Active PROVE Tables(p) \subseteq TableFrames
  <2>1. PICK f : /\ Tables(p) = UNION {f[l] : l \in 0..(Levels - 1)}
                 /\ \A l \in 0..(Levels - 1) : \A t \in f[l] : t \in TableFrames /\ lev[t] = l
    BY LevelsFacts
  <2> QED BY <2>1
<1>3. ASSUME Unlinked = {}, NEW t \in TableFrames PROVE \E p \in Active : t \in Tables(p)
  <2> DEFINE Reached(l, u) == \E p \in Active : \A f : LevelsOf(p, f) => u \in f[l]
             S == {l \in 0..top : \A u \in TableFrames : lev[u] = l => Reached(l, u)}
  <2>1. \A u \in TableFrames : lev[u] \in 0..top
    BY DEF TreeInv, Forest, LevelMap
  <2>2. ASSUME NEW u \in TableFrames, u \in Tops PROVE Reached(top, u)
    <3>1. PICK p \in Active : u = root[p]
      BY <1>3, <2>2 DEF Tops
    <3>2. u # Nil
      BY DEF TableFrames, Addresses, Nil
    <3>3. \A f : LevelsOf(p, f) => u \in f[top]
      BY <1>1, <3>1, <3>2 DEF LevelsOf
    <3> QED BY <3>3
  <2>3. ASSUME NEW u \in TableFrames, u \notin Tops
        PROVE  \E s \in TableFrames : lev[s] > 0 /\ lev[u] = lev[s] - 1 /\ u \in Below(s)
    <3>1. PICK s \in TableFrames, i \in Indices : Link(pte, s, i, u)
      BY <2>3 DEF TreeInv, Forest
    <3>2. EntryOK(pte[s][i], s, TableFrames, DataFrames, lev)
      BY DEF TreeInv, Forest
    <3>3. lev[s] > 0 /\ lev[u] = lev[s] - 1
      BY <3>1, <3>2 DEF EntryOK, Link
    <3>4. u \in Below(s)
      BY <3>1 DEF Below, Link, IsTable
    <3> QED BY <3>3, <3>4
  <2>4. ASSUME NEW u \in TableFrames, u \in Tops PROVE lev[u] = top
    BY <1>3, <2>4 DEF Tops, TreeInv, RootInv
  <2>5. top \in S
    <3>1. ASSUME NEW u \in TableFrames, lev[u] = top PROVE Reached(top, u)
      <4>1. CASE u \in Tops
        BY <2>2, <4>1
      <4>2. CASE u \notin Tops
        <5>1. PICK s \in TableFrames : lev[u] = lev[s] - 1
          BY <2>3, <4>2
        <5> QED BY <1>1, <2>1, <3>1, <5>1
      <4> QED BY <4>1, <4>2
    <3> HIDE DEF Reached
    <3> QED BY <1>1, <3>1
  <2>6. ASSUME NEW l \in 1..top, l \in S PROVE l - 1 \in S
    <3>1. ASSUME NEW u \in TableFrames, lev[u] = l - 1 PROVE Reached(l - 1, u)
      <4>1. u \notin Tops
        BY <1>1, <2>4, <3>1
      <4>2. PICK s \in TableFrames : lev[s] > 0 /\ lev[u] = lev[s] - 1 /\ u \in Below(s)
        BY <2>3, <4>1
      <4>3. lev[s] = l
        BY <1>1, <2>1, <3>1, <4>2
      <4>4. Reached(l, s)
        BY <2>6, <4>3
      <4>5. PICK p \in Active : \A f : LevelsOf(p, f) => s \in f[l]
        BY <4>4
      <4>6. ASSUME NEW f, LevelsOf(p, f) PROVE u \in f[l - 1]
        <5>1. l - 1 \in 0..(Levels - 1) /\ l - 1 # Levels - 1 /\ (l - 1) + 1 = l
          BY <1>1
        <5>2. f[l - 1] = UNION {Below(v) : v \in f[l]}
          BY <4>6, <5>1 DEF LevelsOf
        <5> QED BY <4>2, <4>5, <4>6, <5>2
      <4> QED BY <4>5, <4>6
    <3>2. l - 1 \in 0..top
      BY <1>1
    <3> HIDE DEF Reached
    <3> QED BY <3>1, <3>2
  <2> HIDE DEF S
  <2>7. \A l \in 0..top : l \in S
    BY <1>1, <2>5, <2>6, Downwards
  <2>8. Reached(lev[t], t)
    BY <2>1, <2>7 DEF S
  <2>9. PICK p \in Active : \A f : LevelsOf(p, f) => t \in f[lev[t]]
    BY <2>8
  <2>10. PICK f : LevelsOf(p, f) /\ Tables(p) = UNION {f[l] : l \in 0..(Levels - 1)}
    BY LevelsFacts
  <2> QED BY <2>1, <2>9, <2>10
<1> QED BY <1>2, <1>3

\* Where the walk of va2pa is on each level, and what it finds in the end.
Slot(t, l, va) == pte[t][level_to_index(l, va)]
WalksTo(p, va, f) ==
    f = [l \in 0..(Levels - 1) |->
            IF l = Levels - 1 THEN root[p]
            ELSE IF f[l + 1] # Nil /\ is_valid(Slot(f[l + 1], l + 1, va))
                 THEN Slot(f[l + 1], l + 1, va).to ELSE Nil]
Finds(f, va) == IF f[0] # Nil /\ is_valid(Slot(f[0], 0, va)) THEN Slot(f[0], 0, va).to ELSE Nil

\* What va2pa finds.
LEMMA WalkForm ==
    ASSUME NEW p, NEW va, \E f : WalksTo(p, va, f)
    PROVE  \E f : WalksTo(p, va, f) /\ va2pa(p, va) = Finds(f, va)
<1> DEFINE g == CHOOSE f : WalksTo(p, va, f)
<1>1. WalksTo(p, va, g)
  OBVIOUS
<1>2. va2pa(p, va) = Finds(g, va)
  BY DEF va2pa, WalksTo, Finds, Slot
<1> QED BY <1>1, <1>2

\* The walk of va2pa passes tables only and ends at data, at the trampoline or nowhere.
LEMMA FindsData ==
    ASSUME NEW lev, TreeInv(lev), NEW p \in Active, NEW va \in Int
    PROVE  va2pa(p, va) \in DataFrames \cup {TrampolineCode, Nil}
<1> DEFINE top == Levels - 1
           W == {w \in (0..top) \X (TableFrames \cup {Nil}) : w[2] # Nil => lev[w[2]] = w[1]}
           Go(l, t) == IF t # Nil /\ is_valid(Slot(t, l, va)) THEN Slot(t, l, va).to ELSE Nil
           step == [w \in W |-> Go(w[1], w[2])]
<1>1. top \in Nat /\ Levels \in Nat /\ top \in 0..top
  BY PageTableAssumption
<1>2. root[p] \in TableFrames /\ lev[root[p]] = top
  BY DEF TreeInv, Forest, Tops, RootInv
<1>3. <<top, root[p]>> \in W
  BY <1>1, <1>2
<1>4. ASSUME NEW l \in 0..top, NEW t \in TableFrames
      PROVE  EntryOK(Slot(t, l, va), t, TableFrames, DataFrames, lev)
  <2>1. level_to_index(l, va) \in Indices
    BY IndexIsEntry
  <2> QED BY <2>1 DEF TreeInv, Forest, Slot
<1>5. ASSUME NEW l \in 0..top, NEW x, <<l, x>> \in W
      PROVE  /\ x \in TableFrames \cup {Nil} /\ (x # Nil => lev[x] = l)
             /\ step[<<l, x>>] = Go(l, x)
  BY <1>5
<1>6. ASSUME NEW l \in 1..top, NEW x, <<l, x>> \in W
      PROVE  <<l - 1, step[<<l, x>>]>> \in W /\ step[<<l, x>>] = Go(l, x)
  <2>1. l \in 0..top /\ l - 1 \in 0..top /\ l > 0
    BY <1>1
  <2>2. x \in TableFrames \cup {Nil} /\ (x # Nil => lev[x] = l) /\ step[<<l, x>>] = Go(l, x)
    BY <1>5, <1>6, <2>1
  <2>3. CASE x # Nil /\ is_valid(Slot(x, l, va))
    <3>1. EntryOK(Slot(x, l, va), x, TableFrames, DataFrames, lev)
      BY <1>4, <2>1, <2>2, <2>3
    <3>2. Slot(x, l, va).to \in TableFrames /\ lev[Slot(x, l, va).to] = l - 1
      BY <2>1, <2>2, <2>3, <3>1 DEF EntryOK, is_valid
    <3> QED BY <2>1, <2>2, <2>3, <3>2
  <2>4. CASE ~(x # Nil /\ is_valid(Slot(x, l, va)))
    BY <2>1, <2>2, <2>4
  <2> QED BY <2>3, <2>4
<1> HIDE DEF step, W, top
<1>7. PICK g : Descends(g, top, root[p], step, W)
  BY <1>1, <1>3, <1>6, Descent
<1>8. WalksTo(p, va, g)
  <2>1. ASSUME NEW l \in 0..top PROVE g[l] = IF l = top THEN root[p] ELSE Go(l + 1, g[l + 1])
    <3>1. CASE l = top
      BY <1>7, <3>1 DEF Descends
    <3>2. CASE l # top
      <4>1. l + 1 \in 1..top /\ (l + 1) - 1 = l /\ l + 1 \in 0..top
        BY <1>1, <3>2
      <4>2. g[(l + 1) - 1] = step[<<l + 1, g[l + 1]>>] /\ <<l + 1, g[l + 1]>> \in W
        BY <1>7, <4>1 DEF Descends
      <4>3. step[<<l + 1, g[l + 1]>>] = Go(l + 1, g[l + 1])
        BY <1>6, <4>1, <4>2
      <4> QED BY <3>2, <4>1, <4>2, <4>3
    <3> QED BY <3>1, <3>2
  <2>2. g = [l \in 0..top |-> g[l]]
    BY <1>7 DEF Descends
  <2>3. g = [l \in 0..top |-> IF l = top THEN root[p] ELSE Go(l + 1, g[l + 1])]
    BY <2>1, <2>2
  <2> QED BY <2>3 DEF WalksTo, top
<1>9. PICK f : WalksTo(p, va, f) /\ va2pa(p, va) = Finds(f, va)
  BY <1>8, WalkForm
<1>10. f = [l \in 0..top |-> IF l = top THEN root[p] ELSE Go(l + 1, f[l + 1])]
  BY <1>9 DEF WalksTo, top
<1> HIDE DEF Go
<1>11. f[top] = root[p]
  BY <1>1, <1>10
<1>12. ASSUME NEW l \in 1..top PROVE f[l - 1] = Go(l, f[l])
  <2>1. l - 1 \in 0..top /\ l - 1 # top /\ (l - 1) + 1 = l
    BY <1>1
  <2> QED BY <1>10, <2>1
<1>13. \A l \in 0..top : <<l, f[l]>> \in W
  <2> DEFINE S == {l \in 0..top : <<l, f[l]>> \in W}
  <2>1. top \in S
    BY <1>1, <1>3, <1>11
  <2>2. ASSUME NEW l \in 1..top, l \in S PROVE l - 1 \in S
    <3>1. l - 1 \in 0..top /\ <<l, f[l]>> \in W
      BY <1>1, <2>2
    <3> QED BY <1>6, <1>12, <3>1
  <2> HIDE DEF S
  <2>3. \A l \in 0..top : l \in S
    BY <1>1, <2>1, <2>2, Downwards
  <2> QED BY <2>3 DEF S
<1>14. 0 \in 0..top /\ f[0] \in TableFrames \cup {Nil} /\ (f[0] # Nil => lev[f[0]] = 0)
  <2>1. 0 \in 0..top /\ <<0, f[0]>> \in W
    BY <1>1, <1>13
  <2> QED BY <1>5, <2>1
<1>15. CASE f[0] # Nil /\ is_valid(Slot(f[0], 0, va))
  <2>1. EntryOK(Slot(f[0], 0, va), f[0], TableFrames, DataFrames, lev)
    BY <1>4, <1>14, <1>15
  <2>2. Slot(f[0], 0, va).to \in DataFrames \cup {TrampolineCode}
    BY <1>14, <1>15, <2>1 DEF EntryOK, is_valid
  <2> QED BY <1>9, <1>15, <2>2 DEF Finds
<1>16. CASE ~(f[0] # Nil /\ is_valid(Slot(f[0], 0, va)))
  BY <1>9, <1>16 DEF Finds
<1> QED BY <1>15, <1>16

-----------------------------------------------------------------------------
(* The theorems *)

\* A step of the page tables is one of the allocator and its clients, or none of theirs.
LEMMA PtStepsAllocator == PtInv /\ [PtNext]_ptvars => [Next]_vars
<1> SUFFICES ASSUME PtInv, [PtNext]_ptvars PROVE [Next]_vars
  OBVIOUS
<1>1. PICK lev \in LevelMap : TreeInv(lev)
  BY DEF PtInv
<1> QED BY <1>1, PtNextIsNext DEF PtInv

\* The invariant holds, together with that of the allocator.
THEOREM PtInvariant ==
    ASSUME FlagsGiven
    PROVE  PtSpec => [](IInv /\ PtInv)
<1>1. PtInit => IInv /\ PtInv
  BY InitInv, PtInitInv DEF PtInit
<1>2. IInv /\ PtInv /\ [PtNext]_ptvars => IInv' /\ PtInv'
  BY PtStepsAllocator, NextInv, PtNextInv
<1> QED BY <1>1, <1>2, PTL DEF PtSpec

\* The page tables use the allocator as its clients must, although neither deallocate nor a
\* store tests it: map writes entries only into tables that are allocated, and
\* clean_up_page_table gives back only pages that are, each of them once.  So every property
\* of the allocator holds below the page tables.
THEOREM PtImplementsPageAllocator ==
    ASSUME FlagsGiven
    PROVE  PtSpec => Spec
<1>1. PtInit => Init
  BY DEF PtInit
<1> QED BY <1>1, PtStepsAllocator, PtInvariant, PTL DEF PtSpec, Spec

\* With page tables that give back single pages only, allocate never panics: the kernel
\* stops for want of memory, never for a list that is empty against its bit.
THEOREM PtNeverPanics ==
    ASSUME FlagsGiven, Freed \subseteq {1}
    PROVE  PtSpec => []NeverPanics
BY PtImplementsPageAllocator, SinglePagesNeverPanic, PTL

\* The state keeps its types: in particular the walk of map stays within the levels and
\* recursive_clean never calls itself deeper than there are levels.
THEOREM PtTypeCorrectness ==
    ASSUME FlagsGiven
    PROVE  PtSpec => []PtTypeOK
<1>1. IInv /\ PtInv => PtTypeOK
  <2> SUFFICES ASSUME IInv, PtInv PROVE PtTypeOK
    OBVIOUS
  <2>1. ControlInv /\ BlocksInv
    BY DEF PtInv
  <2>2. PICK lev \in LevelMap : TreeInv(lev)
    BY DEF PtInv
  <2>3. pte \in [Addresses -> [Indices -> [kind : {"zero", "bare", "leaf", "junk"},
                                           to : Addresses \cup {Nil, TrampolineCode}]]]
    BY <2>2 DEF TreeInv, Forest, AnyEntry, AnyFrame
  <2>4. walk = NoWalk \/ (walk.level \in 0..(Levels - 1) /\ walk.left \in 1..Head(todo).size)
    <3>1. CASE walk # NoWalk
      <4>1. walk.level \in 0..(Levels - 1) /\ walk.left \in Nat \ {0} /\ walk.left <= Head(todo).size
        BY <2>2, <3>1 DEF TreeInv, WalkInv
      <4>2. Head(todo).size \in Nat
        BY <2>1, <3>1, TodoHead DEF ControlInv
      <4> QED BY <4>1, <4>2
    <3> QED BY <3>1
  <2>5. Len(path) <= Levels
    <3>1. Len(path) \in Nat /\ Levels \in Nat
      BY <2>2, LenProperties, PageTableAssumption DEF TreeInv, PathInv, PathOK
    <3>2. CASE Len(path) # 0
      <4>1. Len(path) \in 1..Len(path)
        BY <3>1, <3>2
      <4>2. /\ path[Len(path)].table \in TableFrames
            /\ lev[path[Len(path)].table] = Levels - Len(path)
        BY <2>2, <4>1, PathFacts DEF TreeInv, PathInv, PathOK
      <4>3. lev[path[Len(path)].table] \in 0..(Levels - 1)
        BY <4>2 DEF LevelMap, TableFrames
      <4> QED BY <3>1, <4>2, <4>3
    <3> QED BY <3>1, <3>2
  <2> QED BY <2>1, <2>3, <2>4, <2>5 DEF PtTypeOK, ControlInv, BlocksInv
<1> QED BY <1>1, PtInvariant, PTL

\* No program reaches a page table: what va2pa finds in an address space is never a table
\* of any process, for any depth of the tables and however often frames were reused.
THEOREM TablesAreNeverMapped ==
    ASSUME FlagsGiven
    PROVE  PtSpec => []NoTableIsMapped
<1>1. IInv /\ PtInv => NoTableIsMapped
  <2> SUFFICES ASSUME IInv, PtInv, NEW p \in Whole, NEW va \in VirtualPages
               PROVE  va2pa(p, va) \notin UNION {Tables(q) : q \in Whole}
    BY DEF NoTableIsMapped
  <2>1. BlocksInv
    BY DEF PtInv
  <2>2. PICK lev \in LevelMap : TreeInv(lev)
    BY DEF PtInv
  <2>3. \A q \in Whole : q \in Active
    BY DEF Whole, Active
  <2>4. va \in Int
    BY SpanFacts, PageTableAssumption DEF VirtualPages
  <2>5. va2pa(p, va) \in DataFrames \cup {TrampolineCode, Nil}
    BY <2>2, <2>3, <2>4, FindsData
  <2>6. UNION {Tables(q) : q \in Whole} \subseteq TableFrames
    BY <2>2, <2>3, TablesFacts
  <2>7. TrampolineCode \notin TableFrames /\ Nil \notin TableFrames
    BY DEF TableFrames, Addresses, TrampolineCode, Nil
  <2>8. \A t \in TableFrames : t \notin DataFrames
    BY <2>1, TablesAreNotData
  <2> QED BY <2>5, <2>6, <2>7, <2>8
<1> QED BY <1>1, PtInvariant, PTL

\* exit gives back every table of the process and nothing else, whatever was mapped: when
\* the kernel is idle, the blocks that are not data are the tables of the processes that
\* have not exited, and no block of data has been freed.
THEOREM TablesAreGivenBack ==
    ASSUME FlagsGiven
    PROVE  PtSpec => []OnlyDataLeaks
<1>1. IInv /\ PtInv => OnlyDataLeaks
  <2> SUFFICES ASSUME IInv, PtInv PROVE OnlyDataLeaks
    OBVIOUS
  <2>1. ControlInv /\ BlocksInv
    BY DEF PtInv
  <2>2. PICK lev \in LevelMap : TreeInv(lev)
    BY DEF PtInv
  <2>3. ASSUME who = 0
        PROVE  live \ data = {Block(t, 1) : t \in UNION {Tables(p) : p \in Whole}}
    <3>1. walk = NoWalk /\ 0 \notin Spaces
      BY <2>1, <2>3 DEF ControlInv, Spaces
    <3>2. Active = Whole
      BY <2>1, <2>3, <3>1 DEF ControlInv, Active, Whole
    <3>3. TableFrames = UNION {Tables(p) : p \in Whole}
      BY <2>2, <3>1, <3>2, TablesFacts DEF Unlinked
    <3>4. ASSUME NEW b \in live \ data PROVE b.start \in TableFrames /\ b = Block(b.start, 1)
      <4>1. b \in [start : Addresses, size : Nat \ {0}] /\ b.size = 1
        BY <2>1 DEF IInv, TypeOK, BlocksInv
      <4>2. b = Block(b.start, 1) /\ b.start \in Addresses
        BY <4>1 DEF Block
      <4> QED BY <4>2 DEF TableFrames
    <3>5. \A t \in TableFrames : Block(t, 1) \in live \ data
      BY DEF TableFrames
    <3>6. live \ data = {Block(t, 1) : t \in TableFrames}
      BY <3>4, <3>5
    <3> QED BY <3>3, <3>6
  <2>4. CleansTablesOnly
    BY <2>2, PathFacts DEF TreeInv, CleansTablesOnly, TableFrames
  <2> QED BY <2>1, <2>3, <2>4 DEF OnlyDataLeaks, BlocksInv
<1> QED BY <1>1, PtInvariant, PTL
=============================================================================

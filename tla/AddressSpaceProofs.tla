------------------------- MODULE AddressSpaceProofs -------------------------
(***************************************************************************)
(* Proofs about the heap of a process and the kernel's reading of its      *)
(* buffers, for every program image that can be loaded and every amount of *)
(* memory.  The argument rests on where heap_start lies: behind the start  *)
(* of every segment, so that what is mapped of the heap is one block.      *)
(***************************************************************************)
EXTENDS AddressSpace, WellFoundedInduction, TLAPS

-----------------------------------------------------------------------------
(* The inductive invariant *)

\* The types of TypeOK; that the heap stays below the guard is LowHeap.
Typed ==
    /\ page_table \in [Pages -> 0..Frames]
    /\ used \in 0..Frames
    /\ heap_start \in Nat /\ heap_end \in Nat /\ currently_unmapped_start \in heap_start..heap_end
    /\ blocks \subseteq SUBSET Pages
    /\ misread \in BOOLEAN
    /\ access \in Pages \cup {NoAccess}
    /\ denied \in BOOLEAN
    /\ kernel \in {"ok", "already mapped", "no memory", "not mapped"}

\* A heap that has grown ends below the guard.
LowHeap == heap_end = heap_start \/ heap_end < STACK_GUARD

\* A block lies in memory as it does in the address space.
Contiguous ==
    \A block \in blocks : \A a, b \in block :
        Mapped(a) /\ page_table[b] + a = page_table[a] + b

\* What is mapped where the heap is or will be is one block, which heap_start is in: the
\* end of a segment, or the heap itself.
HeapIsOneBlock ==
    \A a \in heap_start..(STACK_GUARD - 1) :
        Mapped(a) => \E block \in blocks : heap_start..a \subseteq block

\* The mark passes a page that is not mapped only for a program that faults for ever.
MarkInv ==
    kernel = "ok" =>
        \/ \A a \in heap_start..(currently_unmapped_start - 1) : Mapped(a)
        \/ /\ access # NoAccess /\ (~Mapped(access) \/ denied)
           /\ currently_unmapped_start = heap_end

IInv ==
    /\ Typed
    /\ LowHeap
    /\ Contiguous
    /\ HeapIsOneBlock
    /\ MarkInv
    /\ ReadsTheBuffer

-----------------------------------------------------------------------------
(* Recursion and induction over the regions *)

\* A set of numbers has a least one: induction is done by the least exception.
LEMMA Least ==
    ASSUME NEW T, T \subseteq Nat, T # {}
    PROVE  \E x \in T : \A y \in T : x <= y
<1> DEFINE R == OpToRel(<, Nat)
<1>1. IsWellFoundedOn(R, Nat)
  BY NatLessThanWellFounded
<1>2. \A x, y \in Nat : y < x => <<y, x>> \in R
  BY DEF OpToRel
<1> HIDE DEF R
<1>3. PICK x \in T : \A y \in T : ~(<<y, x>> \in R)
  BY <1>1, WFMin
<1>4. ASSUME NEW y \in T PROVE x <= y
  <2>1. x \in Nat /\ y \in Nat /\ ~(y < x)
    BY <1>2, <1>3
  <2> QED BY <2>1
<1> QED BY <1>4

\* The function step leads from each value to the next, and g follows it.
IsStep(step, n, S) == step \in [(1..n) \X S -> S]
Follows(g, first, step, n, S) ==
    g \in [0..n -> S] /\ g[0] = first /\ \A k \in 1..n : g[k] = step[<<k, g[k - 1]>>]

\* A function on 0..n can be defined from each value to the next.
LEMMA Recursion ==
    ASSUME NEW S, NEW first \in S, NEW n \in Nat, NEW step, IsStep(step, n, S)
    PROVE  \E g : Follows(g, first, step, n, S)
<1> USE DEF IsStep, Follows
<1> DEFINE IsRun(m, g) == /\ g \in [0..m -> S] /\ g[0] = first
                          /\ \A k \in 1..m : g[k] = step[<<k, g[k - 1]>>]
           Bad == {m \in 0..n : ~ \E g : IsRun(m, g)}
<1> SUFFICES Bad = {}
  <2>1. n \in 0..n
    OBVIOUS
  <2> QED BY <2>1
<1> SUFFICES ASSUME Bad # {} PROVE FALSE
  OBVIOUS
<1>1. Bad \subseteq Nat
  OBVIOUS
<1>2. PICK m \in Bad : \A y \in Bad : m <= y
  BY <1>1, Least
<1>3. m \in 0..n /\ ~ \E g : IsRun(m, g)
  OBVIOUS
<1>4. m # 0
  <2>1. IsRun(0, [k \in 0..0 |-> first])
    OBVIOUS
  <2> QED BY <1>3, <2>1
<1>5. m - 1 \in 0..n /\ ~(m <= m - 1) /\ m \in 1..n /\ m - 1 \in 0..(m - 1)
  BY <1>3, <1>4
<1>6. PICK g : IsRun(m - 1, g)
  BY <1>2, <1>5
<1> DEFINE h == [k \in 0..m |-> IF k = m THEN step[<<m, g[m - 1]>>] ELSE g[k]]
<1>7. step[<<m, g[m - 1]>>] \in S
  BY <1>5, <1>6
<1>8. h \in [0..m -> S] /\ h[0] = first
  BY <1>3, <1>4, <1>6, <1>7
<1>9. ASSUME NEW k \in 1..m PROVE h[k] = step[<<k, h[k - 1]>>]
  <2>1. k - 1 \in 0..m /\ k - 1 # m /\ k \in 0..m /\ (k # m => k \in 1..(m - 1))
    BY <1>3
  <2>2. h[k - 1] = g[k - 1]
    BY <2>1
  <2>3. CASE k = m
    BY <2>1, <2>2, <2>3
  <2>4. CASE k # m
    BY <1>6, <2>1, <2>2, <2>4
  <2> QED BY <2>3, <2>4
<1>10. IsRun(m, h)
  BY <1>8, <1>9
<1> QED BY <1>3, <1>10

-----------------------------------------------------------------------------
(* Where the loader leaves heap_start *)

Region == [start : Nat, memsz : Nat \ {0}]
Segments == Seq(Region)

LEMMA SegmentFacts ==
    ASSUME NEW segments \in Segments
    PROVE  /\ Len(segments) \in Nat
           /\ DOMAIN segments = 1..Len(segments)
           /\ \A i \in 1..Len(segments) :
                segments[i].start \in Nat /\ segments[i].memsz \in Nat \ {0}
<1>1. Len(segments) \in Nat /\ DOMAIN segments = 1..Len(segments)
  BY DEF Segments
<1>2. ASSUME NEW i \in 1..Len(segments) PROVE segments[i] \in Region
  BY DEF Segments
<1> QED BY <1>1, <1>2 DEF Region

\* The recursive function of HeapStart.
HeapForm(segments, f) ==
    f = [i \in 0..Len(segments) |->
          IF i = 0 THEN 0
          ELSE IF f[i - 1] <= segments[i].start
               THEN f[i - 1] + segments[i].start + 1
               ELSE f[i - 1]]

\* It exists.
LEMMA HeapFormExists ==
    ASSUME NEW segments \in Segments
    PROVE  \E f : HeapForm(segments, f)
<1> DEFINE n == Len(segments)
           Behind(i, x) == IF x <= segments[i].start THEN x + segments[i].start + 1 ELSE x
           step == [x \in (1..n) \X Nat |-> Behind(x[1], x[2])]
<1>1. n \in Nat /\ \A i \in 1..n : segments[i].start \in Nat
  BY SegmentFacts
<1>2. \A i \in 1..n : \A x \in Nat : Behind(i, x) \in Nat
  BY <1>1
<1>3. IsStep(step, n, Nat)
  <2> HIDE DEF n, Behind
  <2> QED BY <1>1, <1>2 DEF IsStep
<1>4. PICK g \in [0..n -> Nat] : g[0] = 0 /\ \A k \in 1..n : g[k] = step[<<k, g[k - 1]>>]
  <2> HIDE DEF step, n
  <2>1. \E g : Follows(g, 0, step, n, Nat)
    BY <1>1, <1>3, Recursion
  <2> QED BY <2>1 DEF Follows
<1>5. ASSUME NEW k \in 1..n PROVE g[k] = Behind(k, g[k - 1])
  <2>1. g[k - 1] \in Nat
    BY <1>1, <1>4
  <2> HIDE DEF n, Behind
  <2> QED BY <1>4, <2>1
<1>6. \A k \in 0..n : k # 0 => k \in 1..n
  BY <1>1
<1>7. HeapForm(segments, g)
  BY <1>4, <1>5, <1>6 DEF HeapForm
<1> QED BY <1>7

\* The heap starts behind the start of every segment.
LEMMA HeapStartFacts ==
    ASSUME NEW segments \in Segments
    PROVE  /\ HeapStart(segments) \in Nat
           /\ \A i \in DOMAIN segments : segments[i].start < HeapStart(segments)
<1> DEFINE n == Len(segments)
           f == CHOOSE f : HeapForm(segments, f)
           Good(k) == f[k] \in Nat /\ \A i \in 1..k : segments[i].start < f[k]
           Bad == {k \in 0..n : ~Good(k)}
<1>1. n \in Nat /\ DOMAIN segments = 1..n /\ \A i \in 1..n : segments[i].start \in Nat
  BY SegmentFacts
<1>2. HeapStart(segments) = f[n]
  BY DEF HeapStart, HeapForm
<1>3. HeapForm(segments, f)
  BY HeapFormExists
<1> HIDE DEF f, n
<1>4. /\ f[0] = 0
      /\ \A k \in 1..n : f[k] = IF f[k - 1] <= segments[k].start
                                THEN f[k - 1] + segments[k].start + 1 ELSE f[k - 1]
  BY <1>1, <1>3 DEF HeapForm, n
<1>5. ASSUME Bad # {} PROVE FALSE
  <2>1. Bad \subseteq Nat
    BY <1>1
  <2>2. PICK k \in Bad : \A y \in Bad : k <= y
    BY <1>5, <2>1, Least
  <2>3. k \in 1..n /\ k - 1 \in 0..n /\ ~(k <= k - 1) /\ k \in Nat
    BY <1>1, <1>4
  <2>4. Good(k - 1)
    BY <2>2, <2>3
  <2>5. f[k] \in Nat /\ segments[k].start < f[k] /\ f[k - 1] <= f[k]
    <3>1. segments[k].start \in Nat /\ f[k - 1] \in Nat
      BY <1>1, <2>3, <2>4
    <3>2. f[k] = IF f[k - 1] <= segments[k].start
                 THEN f[k - 1] + segments[k].start + 1 ELSE f[k - 1]
      BY <1>4, <2>3
    <3>3. \A x, s \in Nat : LET y == IF x <= s THEN x + s + 1 ELSE x IN
                             y \in Nat /\ s < y /\ x <= y
      OBVIOUS
    <3> QED BY <3>1, <3>2, <3>3
  <2>6. ASSUME NEW i \in 1..k PROVE segments[i].start < f[k]
    <3>1. i = k \/ i \in 1..(k - 1)
      BY <2>3
    <3>2. segments[i].start \in Nat
      BY <1>1, <2>3
    <3> QED BY <2>4, <2>5, <3>1, <3>2
  <2> QED BY <2>2, <2>5, <2>6
<1>6. Good(n)
  <2>1. n \in 0..n
    BY <1>1
  <2> QED BY <1>5, <2>1
<1> QED BY <1>1, <1>2, <1>6

-----------------------------------------------------------------------------
(* The frames of the regions *)

\* The recursive function of Before.
BeforeForm(regions, f) ==
    f = [i \in 1..(Len(regions) + 1) |->
          IF i = 1 THEN 0 ELSE f[i - 1] + regions[i - 1].memsz + 1]

\* It exists.
LEMMA BeforeFormExists ==
    ASSUME NEW regions \in Segments
    PROVE  \E f : BeforeForm(regions, f)
<1> DEFINE n == Len(regions)
           step == [x \in (1..n) \X Nat |-> x[2] + regions[x[1]].memsz + 1]
<1>1. n \in Nat /\ \A i \in 1..n : regions[i].memsz \in Nat
  BY SegmentFacts
<1>2. IsStep(step, n, Nat)
  <2>1. \A i \in 1..n : \A x \in Nat : x + regions[i].memsz + 1 \in Nat
    BY <1>1
  <2> HIDE DEF n
  <2> QED BY <1>1, <2>1 DEF IsStep
<1>3. PICK g \in [0..n -> Nat] : g[0] = 0 /\ \A k \in 1..n : g[k] = step[<<k, g[k - 1]>>]
  <2> HIDE DEF step, n
  <2>1. \E g : Follows(g, 0, step, n, Nat)
    BY <1>1, <1>2, Recursion
  <2> QED BY <2>1 DEF Follows
<1>4. ASSUME NEW k \in 1..n PROVE g[k] = g[k - 1] + regions[k].memsz + 1
  <2>1. g[k - 1] \in Nat
    BY <1>1, <1>3
  <2> HIDE DEF n
  <2> QED BY <1>3, <2>1
<1> DEFINE f == [i \in 1..(n + 1) |-> g[i - 1]]
<1>5. ASSUME NEW i \in 1..(n + 1)
      PROVE  f[i] = IF i = 1 THEN 0 ELSE f[i - 1] + regions[i - 1].memsz + 1
  <2>1. CASE i = 1
    BY <1>3, <2>1
  <2>2. CASE i # 1
    <3>1. i - 1 \in 1..n /\ i - 1 \in 1..(n + 1)
      BY <1>1, <2>2
    <3> QED BY <1>4, <2>2, <3>1
  <2> QED BY <2>1, <2>2
<1>6. BeforeForm(regions, f)
  BY <1>5 DEF BeforeForm
<1> QED BY <1>6

\* Region i gets the frames behind Before(regions)[i], and all of them are used.
LEMMA BeforeFacts ==
    ASSUME NEW regions \in Segments
    PROVE  /\ Before(regions)[Len(regions) + 1] \in Nat
           /\ \A i \in 1..Len(regions) :
                /\ Before(regions)[i] \in Nat
                /\ Before(regions)[i] + regions[i].memsz <= Before(regions)[Len(regions) + 1]
<1> DEFINE n == Len(regions)
           f == CHOOSE f : BeforeForm(regions, f)
           Good(k) == /\ f[k] \in Nat
                      /\ \A i \in 1..(k - 1) : f[i] \in Nat /\ f[i] + regions[i].memsz <= f[k]
           Bad == {k \in 1..(n + 1) : ~Good(k)}
<1>1. n \in Nat /\ \A i \in 1..n : regions[i].memsz \in Nat
  BY SegmentFacts
<1>2. Before(regions) = f
  BY DEF Before, BeforeForm
<1>3. BeforeForm(regions, f)
  BY BeforeFormExists
<1> HIDE DEF f, n
<1>4. /\ f[1] = 0
      /\ \A k \in 2..(n + 1) : f[k] = f[k - 1] + regions[k - 1].memsz + 1
  BY <1>1, <1>3 DEF BeforeForm, n
<1>5. ASSUME Bad # {} PROVE FALSE
  <2>1. Bad \subseteq Nat
    BY <1>1
  <2>2. PICK k \in Bad : \A y \in Bad : k <= y
    BY <1>5, <2>1, Least
  <2>3. k \in 2..(n + 1) /\ k - 1 \in 1..(n + 1) /\ ~(k <= k - 1) /\ k - 1 \in 1..n
    BY <1>1, <1>4
  <2>4. Good(k - 1)
    BY <2>2, <2>3
  <2>5. f[k] \in Nat /\ f[k - 1] + regions[k - 1].memsz <= f[k] /\ f[k - 1] <= f[k]
    BY <1>1, <1>4, <2>3, <2>4
  <2>6. ASSUME NEW i \in 1..(k - 1)
        PROVE  f[i] \in Nat /\ f[i] + regions[i].memsz <= f[k]
    <3>1. i = k - 1 \/ i \in 1..(k - 1 - 1)
      BY <2>3
    <3>2. regions[i].memsz \in Nat
      BY <1>1, <2>3
    <3> QED BY <2>4, <2>5, <3>1, <3>2
  <2> QED BY <2>2, <2>5, <2>6
<1>6. Good(n + 1)
  <2>1. n + 1 \in 1..(n + 1)
    BY <1>1
  <2> QED BY <1>5, <2>1
<1>7. \A i \in 1..n : i \in 1..(n + 1 - 1)
  BY <1>1
<1> QED BY <1>1, <1>2, <1>6, <1>7 DEF n

\* The regions of an image that can be loaded: inside the address space, with frames
\* of their own, and apart.
LEMMA LoadedFacts ==
    ASSUME NEW segments \in Images, CanLoad(segments)
    PROVE  LET regions == Loaded(segments) IN
           /\ segments \in Segments /\ regions \in Segments
           /\ DOMAIN regions = 1..Len(regions)
           /\ \A i \in DOMAIN regions :
                /\ PagesOf(regions[i]) \subseteq Pages
                /\ \/ regions[i].start = STACK_START
                   \/ i \in DOMAIN segments /\ regions[i].start = segments[i].start
                /\ \A j \in DOMAIN regions :
                     i # j => PagesOf(regions[i]) \cap PagesOf(regions[j]) = {}
<1> DEFINE n == Len(segments)
           stack == [start |-> STACK_START, memsz |-> STACK_PAGES]
           regions == Loaded(segments)
<1>1. STACK_GUARD \in Nat \ {0} /\ STACK_PAGES \in Nat \ {0} /\ segments \in Segments
  BY AddressSpaceAssumption DEF Segments, Region
<1>2. n \in Nat /\ DOMAIN segments = 1..n
  BY <1>1, SegmentFacts
<1>3. stack \in Region
  BY <1>1 DEF Region, STACK_START
<1>4. /\ regions \in Segments /\ Len(regions) = n + 1 /\ DOMAIN regions = 1..(n + 1)
      /\ regions[n + 1] = stack
      /\ \A i \in 1..n : regions[i] = segments[i]
  <2> HIDE DEF stack
  <2> QED BY <1>1, <1>2, <1>3 DEF Segments, Loaded, stack
<1>5. \A i \in 1..(n + 1) : i \in 1..n \/ i = n + 1
  BY <1>2
<1>6. ASSUME NEW i \in 1..n
      PROVE  PagesOf(segments[i]) \subseteq 0..(STACK_GUARD - 1)
  <2>1. segments[i].start \in Nat /\ segments[i].memsz \in Nat
    BY <1>1, SegmentFacts
  <2>2. segments[i].start + segments[i].memsz <= STACK_GUARD
    BY <1>2 DEF CanLoad
  <2> QED BY <1>1, <2>1, <2>2 DEF PagesOf, Range
<1>7. PagesOf(stack) \subseteq Pages \ 0..(STACK_GUARD - 1)
  BY <1>1 DEF PagesOf, Range, Pages, STACK_START
<1>8. 0..(STACK_GUARD - 1) \subseteq Pages
  BY <1>1 DEF Pages
<1>9. \A i, j \in 1..n : i # j => PagesOf(segments[i]) \cap PagesOf(segments[j]) = {}
  BY <1>2 DEF CanLoad
<1>10. ASSUME NEW i \in 1..(n + 1), NEW j \in 1..(n + 1), i # j
       PROVE  PagesOf(regions[i]) \cap PagesOf(regions[j]) = {}
  <2> HIDE DEF stack, regions, n
  <2> QED BY <1>4, <1>5, <1>6, <1>7, <1>9, <1>10
<1>11. ASSUME NEW i \in 1..(n + 1)
       PROVE  /\ PagesOf(regions[i]) \subseteq Pages
              /\ \/ regions[i].start = STACK_START
                 \/ i \in DOMAIN segments /\ regions[i].start = segments[i].start
  <2>1. stack.start = STACK_START
    OBVIOUS
  <2> HIDE DEF stack, regions, n
  <2> QED BY <1>2, <1>4, <1>5, <1>6, <1>7, <1>8, <2>1
<1> HIDE DEF regions, n
<1> QED BY <1>1, <1>4, <1>10, <1>11 DEF regions

\* The frame of a page of region i.
LEMMA LoadedFrameFacts ==
    ASSUME NEW regions, NEW i \in DOMAIN regions, NEW a \in PagesOf(regions[i]),
           \A j \in DOMAIN regions : i # j => PagesOf(regions[i]) \cap PagesOf(regions[j]) = {}
    PROVE  LoadedFrame(regions, a) = Before(regions)[i] + 1 + (a - regions[i].start)
<1>1. i = CHOOSE j \in DOMAIN regions : a \in PagesOf(regions[j])
  <2>1. \A j \in DOMAIN regions : a \in PagesOf(regions[j]) => j = i
    OBVIOUS
  <2> QED BY <2>1
<1> QED BY <1>1 DEF LoadedFrame

\* The loader establishes the invariant.
LEMMA InitInv == Init => IInv
<1> SUFFICES ASSUME Init PROVE IInv
  OBVIOUS
<1>1. PICK segments \in Images :
        LET regions == Loaded(segments) IN
        /\ CanLoad(segments)
        /\ used = Before(regions)[Len(regions) + 1]
        /\ page_table = [a \in Pages |-> LoadedFrame(regions, a)]
        /\ blocks = {PagesOf(regions[i]) : i \in DOMAIN regions}
        /\ misread = FALSE
        /\ heap_start = HeapStart(segments)
        /\ heap_end = heap_start
        /\ currently_unmapped_start = heap_end
        /\ access = NoAccess
        /\ denied = FALSE
        /\ kernel = "ok"
  BY DEF Init
<1> DEFINE regions == Loaded(segments)
           B == Before(regions)
           n == Len(regions)
<1>2. /\ segments \in Segments /\ regions \in Segments
      /\ DOMAIN regions = 1..n
      /\ \A i \in 1..n :
           /\ PagesOf(regions[i]) \subseteq Pages
           /\ \/ regions[i].start = STACK_START
              \/ i \in DOMAIN segments /\ regions[i].start = segments[i].start
           /\ \A j \in 1..n : i # j => PagesOf(regions[i]) \cap PagesOf(regions[j]) = {}
  BY <1>1, LoadedFacts
<1>3. STACK_GUARD \in Nat /\ STACK_PAGES \in Nat /\ Frames \in Nat
  BY AddressSpaceAssumption
<1>4. B[n + 1] \in Nat /\ B[n + 1] <= Frames
  BY <1>1, <1>2, BeforeFacts DEF CanLoad
<1>5. \A i \in 1..n : B[i] \in Nat /\ B[i] + regions[i].memsz <= B[n + 1]
  BY <1>2, BeforeFacts
<1>6. \A i \in 1..n : regions[i].start \in Nat /\ regions[i].memsz \in Nat \ {0}
  BY <1>2, SegmentFacts
<1>7. /\ used = B[n + 1]
      /\ page_table = [a \in Pages |-> LoadedFrame(regions, a)]
      /\ blocks = {PagesOf(regions[i]) : i \in 1..n}
  BY <1>1, <1>2
<1>8. heap_start \in Nat /\ \A i \in DOMAIN segments : segments[i].start < heap_start
  BY <1>1, <1>2, HeapStartFacts
<1> HIDE DEF regions, B, n
<1>9. ASSUME NEW i \in 1..n, NEW a \in PagesOf(regions[i])
      PROVE  /\ a \in Pages /\ a \in Nat /\ page_table[a] = B[i] + 1 + (a - regions[i].start)
             /\ page_table[a] \in 1..Frames
             /\ regions[i].start <= a /\ a < regions[i].start + regions[i].memsz
  <2>1. a \in Pages /\ a \in Nat
    BY <1>2 DEF Pages
  <2>2. regions[i].start <= a /\ a < regions[i].start + regions[i].memsz
    BY <1>6 DEF PagesOf, Range
  <2>3. LoadedFrame(regions, a) = B[i] + 1 + (a - regions[i].start)
    BY <1>2, LoadedFrameFacts DEF B
  <2>4. page_table[a] = B[i] + 1 + (a - regions[i].start)
    BY <1>7, <2>1, <2>3
  <2> QED BY <1>3, <1>4, <1>5, <1>6, <2>1, <2>2, <2>4
<1>10. ASSUME NEW a \in Pages, \A i \in 1..n : a \notin PagesOf(regions[i])
       PROVE  page_table[a] = 0
  BY <1>2, <1>7, <1>10 DEF LoadedFrame
<1>11. page_table \in [Pages -> 0..Frames]
  <2>1. \A a \in Pages : page_table[a] \in 0..Frames
    BY <1>3, <1>9, <1>10
  <2> QED BY <1>7, <2>1
<1>12. Typed
  <2>1. blocks \subseteq SUBSET Pages
    BY <1>2, <1>7
  <2>2. used \in 0..Frames
    BY <1>3, <1>4, <1>7
  <2>3. currently_unmapped_start \in heap_start..heap_end /\ heap_end \in Nat
    BY <1>1, <1>8
  <2> QED BY <1>1, <1>8, <1>11, <2>1, <2>2, <2>3 DEF Typed
<1>13. Contiguous
  <2> SUFFICES ASSUME NEW i \in 1..n, NEW a \in PagesOf(regions[i]), NEW b \in PagesOf(regions[i])
               PROVE  Mapped(a) /\ page_table[b] + a = page_table[a] + b
    BY <1>7 DEF Contiguous
  <2>1. page_table[a] # 0
    BY <1>3, <1>9
  <2>2. page_table[a] = B[i] + 1 + (a - regions[i].start) /\ a \in Nat
    BY <1>9
  <2>3. page_table[b] = B[i] + 1 + (b - regions[i].start) /\ b \in Nat
    BY <1>9
  <2> QED BY <1>5, <1>6, <2>1, <2>2, <2>3 DEF Mapped
<1>14. HeapIsOneBlock
  <2> SUFFICES ASSUME NEW a \in heap_start..(STACK_GUARD - 1), Mapped(a)
               PROVE  \E block \in blocks : heap_start..a \subseteq block
    BY DEF HeapIsOneBlock
  <2>1. a \in Pages /\ a \in Nat /\ heap_start <= a /\ a < STACK_START
    BY <1>3, <1>8 DEF Pages, STACK_START
  <2>2. PICK i \in 1..n : a \in PagesOf(regions[i])
    BY <1>10, <2>1 DEF Mapped
  <2>3. regions[i].start <= a /\ a < regions[i].start + regions[i].memsz
    BY <1>9, <2>2
  <2>4. regions[i].start < heap_start
    <3>1. regions[i].start # STACK_START
      BY <1>3, <1>6, <2>1, <2>3 DEF STACK_START
    <3> QED BY <1>2, <1>8, <3>1
  <2>5. heap_start..a \subseteq PagesOf(regions[i])
    BY <1>6, <1>8, <2>1, <2>3, <2>4 DEF PagesOf, Range
  <2> QED BY <1>7, <2>5
<1>15. LowHeap /\ ReadsTheBuffer
  BY <1>1 DEF LowHeap, ReadsTheBuffer
<1>16. MarkInv
  <2>1. heap_start..(currently_unmapped_start - 1) = {}
    BY <1>1, <1>8
  <2> QED BY <2>1 DEF MarkInv
<1> QED BY <1>12, <1>13, <1>14, <1>15, <1>16 DEF IInv

-----------------------------------------------------------------------------
(* The steps *)

LEMMA Bounds ==
    /\ STACK_GUARD \in Nat \ {0} /\ STACK_PAGES \in Nat \ {0} /\ Frames \in Nat
    /\ Pages \subseteq Nat /\ NoAccess \in Nat
BY AddressSpaceAssumption DEF Pages, NoAccess

\* What the types say of numbers.
LEMMA TypedFacts ==
    ASSUME Typed
    PROVE  /\ used \in Nat /\ access \in Nat
           /\ heap_start \in Nat /\ heap_end \in Nat /\ currently_unmapped_start \in Nat
           /\ heap_start <= currently_unmapped_start /\ currently_unmapped_start <= heap_end
           /\ \A a \in Pages : page_table[a] \in 0..Frames /\ page_table[a] \in Nat
<1>1. used \in 0..Frames /\ access \in Pages \cup {NoAccess}
  BY DEF Typed
<1>2. used \in Nat /\ access \in Nat
  BY <1>1, Bounds
<1>3. heap_start \in Nat /\ heap_end \in Nat /\ currently_unmapped_start \in heap_start..heap_end
  BY DEF Typed
<1>4. ASSUME NEW a \in Pages PROVE page_table[a] \in 0..Frames /\ page_table[a] \in Nat
  <2>1. page_table \in [Pages -> 0..Frames]
    BY DEF Typed
  <2>2. page_table[a] \in 0..Frames
    BY <2>1
  <2> QED BY <2>2, Bounds
<1> QED BY <1>2, <1>3, <1>4

\* The page table and its blocks, and where the heap starts, stay as they are.
LEMMA TableUnchanged ==
    ASSUME Contiguous, HeapIsOneBlock, UNCHANGED <<page_table, blocks, heap_start>>
    PROVE  Contiguous' /\ HeapIsOneBlock'
BY DEF Contiguous, HeapIsOneBlock, Mapped

LEMMA WantMemoryInv ==
    ASSUME IInv, NEW n \in 0..MAX_ALLOC, want_memory(n)
    PROVE  IInv'
<1> USE DEF IInv
<1>1. n \in Nat
  BY AddressSpaceAssumption
<1>2. Contiguous' /\ HeapIsOneBlock'
  BY TableUnchanged DEF want_memory
<1>3. Typed'
  <2>1. heap_end' \in Nat /\ currently_unmapped_start' \in heap_start'..heap_end'
    BY <1>1, TypedFacts DEF want_memory, Grows
  <2> QED BY <2>1 DEF Typed, want_memory, Pages, NoAccess, tried
<1>4. LowHeap' /\ ReadsTheBuffer'
  BY DEF LowHeap, want_memory, Grows, Fits, ReadsTheBuffer
<1>5. MarkInv'
  BY DEF MarkInv, want_memory, Grows, Running, Mapped, tried
<1> QED BY <1>2, <1>3, <1>4, <1>5

LEMMA AccessInv ==
    ASSUME IInv, NEW a \in Pages, NEW forbidden \in BOOLEAN, Access(a, forbidden)
    PROVE  IInv'
<1> USE DEF IInv
<1>1. Contiguous' /\ HeapIsOneBlock'
  BY TableUnchanged DEF Access, heap
<1>2. Typed'
  BY DEF Typed, Access, Pages, NoAccess, heap, tried
<1>3. LowHeap' /\ ReadsTheBuffer'
  BY DEF LowHeap, Access, ReadsTheBuffer, heap
<1>4. MarkInv'
  BY DEF MarkInv, Access, Running, Mapped, heap
<1> QED BY <1>1, <1>2, <1>3, <1>4

LEMMA AccessSucceedsInv ==
    ASSUME IInv, AccessSucceeds
    PROVE  IInv'
<1> USE DEF IInv
<1>1. Contiguous' /\ HeapIsOneBlock'
  BY TableUnchanged DEF AccessSucceeds, heap
<1>2. Typed'
  BY DEF Typed, AccessSucceeds, Pages, NoAccess, heap, tried
<1>3. LowHeap' /\ ReadsTheBuffer'
  BY DEF LowHeap, AccessSucceeds, ReadsTheBuffer, heap
<1>4. MarkInv'
  BY DEF MarkInv, AccessSucceeds, Mapped, heap
<1> QED BY <1>1, <1>2, <1>3, <1>4

LEMMA PageFaultFailsInv ==
    ASSUME IInv, PageFaultFails
    PROVE  IInv'
<1> USE DEF IInv
<1>1. Contiguous' /\ HeapIsOneBlock'
  BY TableUnchanged DEF PageFaultFails, heap
<1>2. kernel' \in {"no memory", "already mapped"}
  BY DEF PageFaultFails
<1>3. Typed'
  BY <1>2 DEF Typed, PageFaultFails, Pages, NoAccess, heap, tried
<1>4. LowHeap' /\ ReadsTheBuffer'
  BY DEF LowHeap, PageFaultFails, ReadsTheBuffer, heap
<1>5. MarkInv'
  BY <1>2 DEF MarkInv
<1> QED BY <1>1, <1>3, <1>4, <1>5

LEMMA PageFaultElsewhereInv ==
    ASSUME IInv, PageFaultElsewhere
    PROVE  IInv'
<1> USE DEF IInv
<1>1. Contiguous' /\ HeapIsOneBlock'
  BY TableUnchanged DEF PageFaultElsewhere
<1>2. Typed'
  <2>1. currently_unmapped_start' \in heap_start'..heap_end'
    BY TypedFacts DEF PageFaultElsewhere
  <2> QED BY <2>1 DEF Typed, PageFaultElsewhere, Pages, NoAccess, tried
<1>3. LowHeap' /\ ReadsTheBuffer'
  BY DEF LowHeap, PageFaultElsewhere, ReadsTheBuffer
<1>4. MarkInv'
  BY DEF MarkInv, PageFaultElsewhere, Faults, Mapped, NoAccess, tried
<1> QED BY <1>1, <1>2, <1>3, <1>4

\* The heap that a fault fills: it lies below the guard, and nothing is mapped there.
LEMMA FreshHeap ==
    ASSUME IInv, PageFaultServed
    PROVE  /\ heap_start \in Nat /\ heap_end \in Nat /\ heap_start < heap_end
           /\ heap_end < STACK_GUARD
           /\ Range(heap_start, Size) = heap_start..(heap_end - 1)
           /\ Range(heap_start, Size) \subseteq Pages
           /\ \A a \in heap_start..(STACK_GUARD - 1) : ~Mapped(a)
<1> USE DEF IInv
<1>1. STACK_GUARD \in Nat /\ STACK_PAGES \in Nat
  BY AddressSpaceAssumption
<1>2. heap_start \in Nat /\ heap_end \in Nat /\ heap_start < heap_end
  <2>1. access >= currently_unmapped_start /\ access < heap_end
    BY DEF PageFaultServed, InWindow
  <2> QED BY <2>1, TypedFacts
<1>3. heap_end < STACK_GUARD
  BY <1>2 DEF LowHeap
<1>4. Range(heap_start, Size) = heap_start..(heap_end - 1)
  BY <1>2 DEF Range, Size
<1>5. Range(heap_start, Size) \subseteq Pages
  BY <1>1, <1>2, <1>3, <1>4 DEF Pages
<1>6. ASSUME NEW a \in heap_start..(STACK_GUARD - 1), Mapped(a) PROVE FALSE
  <2>1. PICK block \in blocks : heap_start..a \subseteq block
    BY <1>6 DEF HeapIsOneBlock
  <2>2. heap_start \in block
    BY <1>1, <1>2, <2>1
  <2>3. Mapped(heap_start)
    BY <2>2 DEF Contiguous
  <2>4. heap_start \in Range(heap_start, Size)
    BY <1>2, <1>4
  <2> QED BY <2>3, <2>4 DEF PageFaultServed
<1> QED BY <1>2, <1>3, <1>4, <1>5, <1>6

LEMMA PageFaultServedInv ==
    ASSUME IInv, PageFaultServed
    PROVE  IInv'
<1> DEFINE H == heap_start..(heap_end - 1)
<1>1. /\ heap_start \in Nat /\ heap_end \in Nat /\ heap_start < heap_end
      /\ heap_end < STACK_GUARD /\ H \subseteq Pages
      /\ \A a \in heap_start..(STACK_GUARD - 1) : ~Mapped(a)
  BY FreshHeap
<1>2. /\ page_table' = [a \in Pages |-> IF a \in H THEN FrameFor(a) ELSE page_table[a]]
      /\ blocks' = blocks \cup {H}
      /\ used' = used + (heap_end - heap_start) /\ used' <= Frames
      /\ currently_unmapped_start' = heap_end
      /\ UNCHANGED <<heap_start, heap_end, misread, access, denied, kernel>>
  BY FreshHeap DEF PageFaultServed, Size, tried
<1>3. STACK_GUARD \in Nat /\ STACK_PAGES \in Nat /\ Frames \in Nat
  BY AddressSpaceAssumption
<1>4. ASSUME NEW a \in H
      PROVE  page_table'[a] = used + 1 + (a - heap_start) /\ page_table'[a] \in 1..Frames
  <2>1. used \in Nat
    BY TypedFacts DEF IInv
  <2>2. page_table'[a] = used + 1 + (a - heap_start)
    BY <1>1, <1>2 DEF FrameFor
  <2> QED BY <1>1, <1>2, <1>3, <2>1, <2>2
<1>5. ASSUME NEW a \in Pages, a \notin H PROVE page_table'[a] = page_table[a]
  BY <1>2, <1>5
<1>6. Typed'
  <2>1. \A a \in Pages : page_table'[a] \in 0..Frames
    <3>1. \A a \in Pages : page_table[a] \in 0..Frames
      BY TypedFacts DEF IInv
    <3>2. \A x \in 1..Frames : x \in 0..Frames
      BY <1>3
    <3> HIDE DEF H
    <3> QED BY <1>4, <1>5, <3>1, <3>2
  <2>2. page_table' \in [Pages -> 0..Frames]
    BY <1>2, <2>1
  <2>3. used' \in 0..Frames
    <3>1. used \in Nat
      BY TypedFacts DEF IInv
    <3> QED BY <1>1, <1>2, <1>3, <3>1
  <2>4. currently_unmapped_start' \in heap_start'..heap_end'
    BY <1>1, <1>2
  <2>5. blocks' \subseteq SUBSET Pages
    BY <1>1, <1>2 DEF IInv, Typed
  <2> HIDE DEF H
  <2> QED BY <1>2, <2>2, <2>3, <2>4, <2>5 DEF IInv, Typed, Pages, NoAccess
<1>7. LowHeap' /\ ReadsTheBuffer'
  BY <1>2 DEF IInv, LowHeap, ReadsTheBuffer
<1>8. Contiguous'
  <2>1. ASSUME NEW block \in blocks, NEW a \in block, NEW b \in block
        PROVE  page_table'[a] # 0 /\ page_table'[b] + a = page_table'[a] + b
    <3>1. Mapped(a) /\ Mapped(b) /\ page_table[b] + a = page_table[a] + b
      BY DEF IInv, Contiguous
    <3>2. a \in Pages /\ b \in Pages
      BY DEF IInv, Typed
    <3>3. a \notin H /\ b \notin H
      BY <1>1, <1>3, <3>1
    <3> QED BY <1>5, <3>1, <3>2, <3>3 DEF Mapped
  <2>2. ASSUME NEW a \in H, NEW b \in H
        PROVE  page_table'[a] # 0 /\ page_table'[b] + a = page_table'[a] + b
    <3>1. used \in Nat /\ a \in Nat /\ b \in Nat
      BY <1>1, TypedFacts DEF IInv
    <3> QED BY <1>1, <1>3, <1>4, <3>1
  <2>3. \A block \in blocks' : block \in blocks \/ block = H
    BY <1>2
  <2> HIDE DEF H
  <2> QED BY <2>1, <2>2, <2>3 DEF Contiguous, Mapped
<1>9. HeapIsOneBlock'
  <2> SUFFICES ASSUME NEW a \in heap_start..(STACK_GUARD - 1), page_table'[a] # 0
               PROVE  heap_start..a \subseteq H
    BY <1>2 DEF HeapIsOneBlock, Mapped
  <2>1. a \in Pages
    BY <1>1, <1>3 DEF Pages
  <2>2. a \in H
    BY <1>1, <1>5, <2>1 DEF Mapped
  <2> QED BY <1>1, <2>2
<1>10. MarkInv'
  <2>1. \A a \in H : page_table'[a] # 0
    BY <1>3, <1>4
  <2> QED BY <1>2, <2>1 DEF MarkInv, Mapped
<1> QED BY <1>6, <1>7, <1>8, <1>9, <1>10 DEF IInv

\* A buffer whose first page is mapped lies in one block.
LEMMA BufferInBlock ==
    ASSUME IInv, NEW a \in Pages, NEW n \in 1..MAX_BUFFER, IsBuffer(a, n), Mapped(a)
    PROVE  \E block \in blocks : Range(a, n) \subseteq block
<1>1. /\ STACK_GUARD \in Nat /\ a \in Nat /\ n \in Nat \ {0}
      /\ heap_start \in Nat /\ heap_end \in Nat
  BY Bounds, TypedFacts, AddressSpaceAssumption DEF IInv
<1>2. CASE \A b \in Range(a, n) : Granted(b)
  <2> DEFINE last == a + n - 1
  <2>1. last \in Nat /\ last \in Range(a, n) /\ a \in Range(a, n)
    BY <1>1 DEF Range
  <2>2. Granted(a) /\ Granted(last)
    BY <1>2, <2>1
  <2>3. Mapped(last)
    BY <2>1 DEF IsBuffer
  <2>4. last \in heap_start..(STACK_GUARD - 1)
    BY <1>1, <2>1, <2>2 DEF Granted, IInv, LowHeap
  <2>5. PICK block \in blocks : heap_start..last \subseteq block
    BY <2>3, <2>4 DEF IInv, HeapIsOneBlock
  <2>6. Range(a, n) \subseteq heap_start..last
    BY <1>1, <2>2 DEF Range, Granted
  <2> QED BY <2>5, <2>6
<1> QED BY <1>2 DEF IsBuffer

LEMMA SyscallReadsInv ==
    ASSUME IInv, NEW a \in Pages, NEW n \in 1..MAX_BUFFER, SyscallReads(a, n)
    PROVE  IInv'
<1>1. Contiguous' /\ HeapIsOneBlock'
  BY TableUnchanged DEF SyscallReads, heap, IInv
<1>2. kernel' \in {"ok", "not mapped"} /\ (kernel' = "ok" => Mapped(a))
  BY DEF SyscallReads
<1>3. Typed'
  BY <1>2 DEF Typed, SyscallReads, Pages, NoAccess, heap, tried, IInv
<1>4. LowHeap'
  BY DEF LowHeap, SyscallReads, heap, IInv
<1>5. MarkInv'
  BY DEF MarkInv, SyscallReads, Running, Mapped, heap, tried, IInv
<1>6. ASSUME Mapped(a), NEW i \in 0..(n - 1) PROVE FrameRead(a, i) = page_table[a + i]
  <2>1. PICK block \in blocks : Range(a, n) \subseteq block
    BY <1>6, BufferInBlock DEF SyscallReads
  <2>2. a \in Nat /\ n \in Nat \ {0} /\ i \in Nat
    BY AddressSpaceAssumption DEF Pages
  <2>3. a \in block /\ a + i \in block
    BY <2>1, <2>2 DEF Range
  <2>4. page_table[a + i] + a = page_table[a] + (a + i)
    BY <2>3 DEF IInv, Contiguous
  <2>5. page_table[a] \in Nat /\ page_table[a + i] \in Nat
    <3>1. a + i \in Pages
      BY <2>3 DEF IInv, Typed
    <3> QED BY <3>1, TypedFacts DEF IInv
  <2> QED BY <2>2, <2>4, <2>5 DEF FrameRead
<1>7. ReadsTheBuffer'
  BY <1>6 DEF ReadsTheBuffer, SyscallReads
<1> QED BY <1>1, <1>3, <1>4, <1>5, <1>7 DEF IInv

LEMMA NextInv ==
    ASSUME IInv, [Next]_vars
    PROVE  IInv'
<1>1. CASE UNCHANGED vars
  BY <1>1 DEF IInv, vars, heap, tried, Typed, LowHeap, Contiguous, HeapIsOneBlock, MarkInv,
              ReadsTheBuffer, Mapped
<1>2. ASSUME NEW n \in 0..MAX_ALLOC, want_memory(n) \/ WantMemoryFails(n) PROVE IInv'
  BY <1>1, <1>2, WantMemoryInv DEF WantMemoryFails
<1>3. ASSUME NEW a \in Pages, NEW forbidden \in BOOLEAN, Access(a, forbidden) PROVE IInv'
  BY <1>3, AccessInv
<1>4. ASSUME NEW a \in Pages, NEW n \in 1..MAX_BUFFER, SyscallReads(a, n) PROVE IInv'
  BY <1>4, SyscallReadsInv
<1>5. CASE PageFault
  BY <1>5, PageFaultServedInv, PageFaultFailsInv, PageFaultElsewhereInv DEF PageFault
<1> QED BY <1>1, <1>2, <1>3, <1>4, <1>5, AccessSucceedsInv DEF Next, Halted

-----------------------------------------------------------------------------
(* The results *)

\* IInv holds in every reachable state.
THEOREM Invariant == Spec => []IInv
<1>1. Init => IInv
  BY InitInv
<1>2. IInv /\ [Next]_vars => IInv'
  BY NextInv
<1> QED BY <1>1, <1>2, PTL DEF Spec

\* While the program runs, every page of the heap below currently_unmapped_start is
\* mapped, whatever was asked for by want_memory and whichever faults came.
THEOREM MarkIsTrue == Spec => []BelowMarkIsBacked
<1>1. IInv => BelowMarkIsBacked
  BY DEF IInv, MarkInv, BelowMarkIsBacked, Running
<1> QED BY <1>1, Invariant, PTL

\* UserMemorySlice::read, which translates the first page only, reads the program's
\* buffer and nothing else.
THEOREM KernelReadsTheBuffer == Spec => []ReadsTheBuffer
<1>1. IInv => ReadsTheBuffer
  BY DEF IInv
<1> QED BY <1>1, Invariant, PTL

\* The programs for which the sum that assign_process computes for heap_start is not
\* past the guard page.
HeapsFit == \A segments \in Images : CanLoad(segments) => HeapStart(segments) <= STACK_GUARD

\* The heap of such a program never grows past the guard page below its stack.
THEOREM TypeCorrectness ==
    ASSUME HeapsFit
    PROVE  Spec => []TypeOK
<1> DEFINE Below == heap_start <= STACK_GUARD
<1>1. Init => Below
  BY DEF Init, HeapsFit
<1>2. Below /\ [Next]_vars => Below'
  BY DEF Next, vars, heap, want_memory, WantMemoryFails, Access, AccessSucceeds, PageFault,
         PageFaultServed, PageFaultFails, PageFaultElsewhere, SyscallReads, Halted
<1>3. IInv /\ Below => TypeOK
  <2> SUFFICES ASSUME IInv, Below PROVE TypeOK
    OBVIOUS
  <2>1. STACK_GUARD \in Nat
    BY AddressSpaceAssumption
  <2>2. {heap_end, currently_unmapped_start} \subseteq heap_start..STACK_GUARD
    <3>1. heap_end <= STACK_GUARD
      BY <2>1, TypedFacts DEF IInv, LowHeap
    <3> QED BY <2>1, <3>1, TypedFacts DEF IInv
  <2> QED BY <2>2 DEF IInv, Typed, TypeOK
<1> HIDE DEF Below
<1> QED BY <1>1, <1>2, <1>3, Invariant, PTL DEF Spec

=============================================================================

-------------------------- MODULE FreeListsProofs --------------------------
(***************************************************************************)
(* Proofs about the representation below the page allocator, for every     *)
(* amount of memory and every shape of the bitmap: it implements           *)
(* PageAllocator, the pointers in memory are the lists of free blocks, and *)
(* the search of the words finds the smallest large enough block.          *)
(***************************************************************************)
EXTENDS FreeLists, PageAllocatorProofs, FiniteSetTheorems

-----------------------------------------------------------------------------
(* The inductive invariant *)

Pointers == Addresses \cup {None, Junk}

LinksType(l) ==
    l \in [head : [Multiples -> Pointers], next : [Addresses -> Pointers],
           prev : [Addresses -> Pointers]]

\* The head of list m, and next and prev in its nodes, are those of the blocks s.
Chain(l, m, s) ==
    /\ l.head[m] = IF s = <<>> THEN None ELSE s[1]
    /\ \A i \in 1..Len(s) :
         /\ l.next[s[i]] = IF i = Len(s) THEN None ELSE s[i + 1]
         /\ l.prev[s[i]] = IF i = 1 THEN None ELSE s[i - 1]

Chains(l, L) == LinksType(l) /\ \A m \in Multiples : Chain(l, m, L[m])

\* The bits of the words w are the multiples of B.
BitsOf(w, B) ==
    /\ w \in [Words -> SUBSET Bits]
    /\ \A m \in Multiples : m \in B <=> Offset(m) \in w[Index(m)]

FlInv == Chains(links, list) /\ BitsOf(inner, bitmaps)

-----------------------------------------------------------------------------
(* The words and bits of the multiples *)

\* Min is the least member of a set of naturals.
LEMMA MinFacts ==
    ASSUME NEW T, T \subseteq Nat, T # {}
    PROVE  Min(T) \in T /\ \A y \in T : Min(T) <= y
<1>1. PICK x \in T : \A y \in T : x <= y
  BY Least
<1> QED BY <1>1 DEF Min

\* What division with remainder computes.
LEMMA DivMod ==
    ASSUME NEW n \in Nat \ {0}, NEW x \in Nat
    PROVE  /\ x \div n \in Nat /\ x % n \in 0..(n - 1)
           /\ x = (x \div n) * n + (x % n)
OBVIOUS

\* The order of numbers is that of their quotients.
LEMMA WordOrder ==
    ASSUME NEW n \in Nat \ {0}, NEW i \in Nat, NEW j \in Nat,
           NEW r \in 0..(n - 1), NEW s \in 0..(n - 1), i < j
    PROVE  i * n + r < j * n + s
<1>1. (i + 1) * n <= j * n
  OBVIOUS
<1>2. (i + 1) * n = i * n + n
  OBVIOUS
<1>3. i * n \in Nat /\ j * n \in Nat
  OBVIOUS
<1> QED BY <1>1, <1>2, <1>3

\* A multiple is what its word and its bit say, and they determine it.
LEMMA IndexFacts ==
    ASSUME NEW m \in Nat \ {0}
    PROVE  /\ Index(m) \in Nat /\ Offset(m) \in Bits
           /\ m = Index(m) * NUM_MULTIPLES_PER_BITMAP + Offset(m) + 1
           /\ m \in Multiples => Index(m) \in Words
<1> DEFINE n == NUM_MULTIPLES_PER_BITMAP
<1>0. n \in Nat \ {0} /\ NUM_BITMAPS \in Nat \ {0} /\ m - 1 \in Nat
      /\ NUM_MULTIPLES = NUM_BITMAPS * n
  BY FreeListsAssumption
<1>1. Index(m) \in Nat /\ Offset(m) \in 0..(n - 1) /\ m - 1 = Index(m) * n + Offset(m)
  BY <1>0, DivMod DEF Index, Offset
<1> HIDE DEF n
<1>2. Index(m) * n \in Nat
  BY <1>0, <1>1
<1>3. m = Index(m) * n + Offset(m) + 1
  BY <1>1, <1>2, <1>0
<1>4. ASSUME m \in Multiples PROVE Index(m) < NUM_BITMAPS
  <2>1. SUFFICES ASSUME ~(Index(m) < NUM_BITMAPS) PROVE FALSE
    OBVIOUS
  <2>2. NUM_BITMAPS * n <= Index(m) * n
    BY <1>0, <1>1, <2>1
  <2>3. NUM_BITMAPS * n \in Nat
    BY <1>0
  <2> QED BY <1>0, <1>1, <1>2, <1>3, <1>4, <2>2, <2>3 DEF Multiples
<1> QED BY <1>0, <1>1, <1>3, <1>4 DEF Bits, Words, n

\* The multiple of a word and a bit.
LEMMA MultipleOf ==
    ASSUME NEW i \in Words, NEW j \in Bits
    PROVE  LET v == i * NUM_MULTIPLES_PER_BITMAP + j + 1 IN
           v \in Multiples /\ Index(v) = i /\ Offset(v) = j
<1> DEFINE n == NUM_MULTIPLES_PER_BITMAP
           v == i * n + j + 1
<1>0. n \in Nat \ {0} /\ NUM_BITMAPS \in Nat \ {0} /\ NUM_MULTIPLES = NUM_BITMAPS * n
      /\ i \in Nat /\ i < NUM_BITMAPS /\ j \in 0..(n - 1)
  BY FreeListsAssumption DEF Words, Bits
<1>1. i * n \in Nat /\ NUM_BITMAPS * n \in Nat
  BY <1>0
<1>2. v \in Nat \ {0} /\ v - 1 = i * n + j
  BY <1>0, <1>1
<1>3. i * n + j < NUM_BITMAPS * n + 0
  BY <1>0, WordOrder
<1>4. v \in Multiples
  BY <1>0, <1>1, <1>2, <1>3 DEF Multiples
<1>5. Index(v) \in Nat /\ Offset(v) \in 0..(n - 1) /\ v = Index(v) * n + Offset(v) + 1
  BY <1>2, IndexFacts DEF Bits
<1> HIDE DEF v, n
<1>6. Index(v) * n + Offset(v) = i * n + j
  <2>1. Index(v) * n \in Nat
    BY <1>0, <1>5
  <2> QED BY <1>0, <1>1, <1>2, <1>5, <2>1
<1>7. ~(Index(v) < i) /\ ~(i < Index(v))
  <2>1. Index(v) < i => Index(v) * n + Offset(v) < i * n + j
    BY <1>0, <1>5, WordOrder
  <2>2. i < Index(v) => i * n + j < Index(v) * n + Offset(v)
    BY <1>0, <1>5, WordOrder
  <2> QED BY <1>0, <1>1, <1>6, <2>1, <2>2
<1>8. Index(v) = i
  BY <1>0, <1>5, <1>7
<1>9. Offset(v) = j
  BY <1>0, <1>1, <1>5, <1>6, <1>8
<1> QED BY <1>4, <1>8, <1>9 DEF v, n

\* Words and bits tell the multiples apart.
LEMMA SameWordAndBit ==
    ASSUME NEW m \in Multiples, NEW k \in Multiples,
           Index(m) = Index(k), Offset(m) = Offset(k)
    PROVE  m = k
<1>1. m \in Nat \ {0} /\ k \in Nat \ {0}
  BY PageAllocatorAssumption DEF Multiples
<1> QED BY <1>1, IndexFacts

\* mark_available sets the bit of one multiple and leaves the others.
LEMMA MarkAvailable ==
    ASSUME NEW w, NEW B, NEW k \in Multiples, BitsOf(w, B)
    PROVE  BitsOf(mark_available(w, k), B \cup {k})
<1>0. \A m \in Multiples : m \in Nat \ {0}
  BY PageAllocatorAssumption DEF Multiples
<1>1. \A m \in Multiples : Index(m) \in Words /\ Offset(m) \in Bits
  BY <1>0, IndexFacts
<1> QED BY <1>1, SameWordAndBit DEF BitsOf, mark_available

\* mark_unavailable clears the bit of one multiple and leaves the others.
LEMMA MarkUnavailable ==
    ASSUME NEW w, NEW B, NEW k \in Multiples, BitsOf(w, B)
    PROVE  BitsOf(mark_unavailable(w, k), B \ {k})
<1>0. \A m \in Multiples : m \in Nat \ {0}
  BY PageAllocatorAssumption DEF Multiples
<1>1. \A m \in Multiples : Index(m) \in Words /\ Offset(m) \in Bits
  BY <1>0, IndexFacts
<1> QED BY <1>1, SameWordAndBit DEF BitsOf, mark_unavailable

\* The search of the words finds a multiple that is marked and large enough.
LEMMA SearchMeets ==
    ASSUME BitsOf(inner, bitmaps), bitmaps \subseteq Multiples, NEW m \in Nat \ {0},
           NEW u \in bitmaps, u >= m
    PROVE  /\ Index(u) \in Index(m)..(NUM_BITMAPS - 1)
           /\ Offset(u) \in FoundIn(Index(u), m)
<1> DEFINE n == NUM_MULTIPLES_PER_BITMAP
<1>0. u \in Multiples /\ u \in Nat \ {0} /\ n \in Nat \ {0}
  BY PageAllocatorAssumption, FreeListsAssumption DEF Multiples
<1>1. /\ Index(u) \in Nat /\ Offset(u) \in 0..(n - 1) /\ Index(u) \in Words
      /\ u = Index(u) * n + Offset(u) + 1
  BY <1>0, IndexFacts DEF Bits
<1>2. /\ Index(m) \in Nat /\ Offset(m) \in 0..(n - 1)
      /\ m = Index(m) * n + Offset(m) + 1
  BY IndexFacts DEF Bits
<1> HIDE DEF n
<1>3. Index(u) * n \in Nat /\ Index(m) * n \in Nat
  BY <1>0, <1>1, <1>2
<1>4. ~(Index(u) < Index(m))
  <2>1. Index(u) < Index(m) => Index(u) * n + Offset(u) < Index(m) * n + Offset(m)
    BY <1>0, <1>1, <1>2, WordOrder
  <2> QED BY <1>1, <1>2, <1>3, <2>1
<1>5. Index(u) = Index(m) => Offset(u) >= Offset(m)
  BY <1>1, <1>2, <1>3
<1>6. Offset(u) >= OffsetIn(Index(u), m)
  BY <1>1, <1>5 DEF OffsetIn
<1>7. Offset(u) \in inner[Index(u)]
  BY <1>0 DEF BitsOf
<1>8. Index(u) \in Index(m)..(NUM_BITMAPS - 1)
  BY <1>1, <1>2, <1>4, FreeListsAssumption DEF Words
<1> QED BY <1>6, <1>7, <1>8 DEF FoundIn

\* first_available is the smallest multiple in the bitmap that is at least m.
LEMMA SearchIsFirst ==
    ASSUME BitsOf(inner, bitmaps), bitmaps \subseteq Multiples, NEW m \in Nat \ {0}
    PROVE  IF first_available(m) = None THEN NoneAvailable(m)
           ELSE IsFirstAvailable(first_available(m), m)
<1> DEFINE n == NUM_MULTIPLES_PER_BITMAP
           found == {i \in Index(m)..(NUM_BITMAPS - 1) : FoundIn(i, m) # {}}
<1>0. /\ n \in Nat \ {0} /\ NUM_BITMAPS \in Nat
      /\ Index(m) \in Nat /\ Offset(m) \in 0..(n - 1)
      /\ m = Index(m) * n + Offset(m) + 1
  BY IndexFacts, FreeListsAssumption DEF Bits
<1>1. \A u \in bitmaps : u >= m => Index(u) \in found /\ Offset(u) \in FoundIn(Index(u), m)
  BY SearchMeets
<1>2. \A u \in bitmaps : u \in Nat \ {0} /\ u \in Multiples
  BY PageAllocatorAssumption DEF Multiples
<1>3. CASE found = {}
  <2>1. first_available(m) = None
    BY <1>3 DEF first_available
  <2>2. NoneAvailable(m)
    BY <1>1, <1>2, <1>3 DEF NoneAvailable
  <2> QED BY <2>1, <2>2
<1>4. CASE found # {}
  <2> DEFINE i == Min(found)
             j == Min(FoundIn(i, m))
             v == i * n + j + 1
  <2>1. found \subseteq Nat
    BY <1>0
  <2>2. i \in found /\ \A x \in found : i <= x
    BY <1>4, <2>1, MinFacts
  <2>3. i \in Words /\ i \in Nat /\ Index(m) <= i /\ FoundIn(i, m) # {}
    BY <1>0, <2>2 DEF Words
  <2> HIDE DEF i
  <2>4. inner[i] \subseteq Bits /\ Bits \subseteq Nat
    <3>1. inner[i] \in SUBSET Bits
      BY <2>3 DEF BitsOf
    <3>2. Bits \subseteq Nat
      BY <1>0 DEF Bits
    <3> QED BY <3>1, <3>2
  <2>5. FoundIn(i, m) \subseteq Nat
    BY <2>4 DEF FoundIn
  <2>6. j \in FoundIn(i, m) /\ \A y \in FoundIn(i, m) : j <= y
    BY <2>3, <2>5, MinFacts
  <2>7. j \in inner[i] /\ j \in Bits /\ j >= OffsetIn(i, m) /\ j \in 0..(n - 1)
    BY <2>4, <2>6 DEF FoundIn, Bits
  <2>8. first_available(m) = v
    BY <1>4 DEF first_available, i
  <2> HIDE DEF j, found
  <2>9. v \in Multiples /\ Index(v) = i /\ Offset(v) = j
    BY <2>3, <2>7, MultipleOf
  <2> HIDE DEF n
  <2>10. v = i * n + j + 1 /\ i * n \in Nat /\ Index(m) * n \in Nat /\ v \in Nat
    BY <1>0, <2>3, <2>7 DEF v
  <2> HIDE DEF v
  <2>11. v \in bitmaps
    BY <2>7, <2>9 DEF BitsOf
  <2>12. v >= m
    <3>1. CASE i = Index(m)
      BY <1>0, <2>7, <2>10, <3>1 DEF OffsetIn
    <3>2. CASE Index(m) < i
      <4>1. Index(m) * n + Offset(m) < i * n + j
        BY <1>0, <2>3, <2>7, <3>2, WordOrder
      <4> QED BY <1>0, <2>7, <2>10, <4>1
    <3> QED BY <1>0, <2>3, <3>1, <3>2
  <2>13. ASSUME NEW u \in bitmaps, u >= m PROVE v <= u
    <3>1. i <= Index(u) /\ Offset(u) \in FoundIn(Index(u), m)
      BY <1>1, <2>2, <2>13
    <3>2. /\ Index(u) \in Nat /\ Offset(u) \in 0..(n - 1) /\ u \in Nat
          /\ u = Index(u) * n + Offset(u) + 1
      BY <1>2, IndexFacts DEF Bits, n
    <3>3. Index(u) * n \in Nat
      BY <1>0, <3>2
    <3>4. CASE i = Index(u)
      <4>1. j <= Offset(u)
        BY <2>6, <3>1, <3>4
      <4> QED BY <2>7, <2>10, <3>2, <3>3, <3>4, <4>1
    <3>5. CASE i < Index(u)
      <4>1. i * n + j < Index(u) * n + Offset(u)
        BY <1>0, <2>3, <2>7, <3>2, <3>5, WordOrder
      <4> QED BY <2>7, <2>10, <3>2, <3>3, <4>1
    <3> QED BY <2>3, <3>1, <3>2, <3>4, <3>5
  <2>14. first_available(m) # None
    BY <2>8, <2>10 DEF None
  <2> QED BY <2>8, <2>11, <2>12, <2>13, <2>14 DEF IsFirstAvailable
<1> QED BY <1>3, <1>4

-----------------------------------------------------------------------------
(* Walking a list *)

\* What the definition of Nodes asks of the function walk.
IsWalk(l, m, walk) ==
    walk = [k \in 0..Pages |->
             IF k = 0 THEN <<>>
             ELSE IF Behind(l, m, walk[k - 1]) = None THEN walk[k - 1]
                  ELSE Append(walk[k - 1], Behind(l, m, walk[k - 1]))]

\* The first k blocks of s, or all of them.
Met(s, k) == [i \in 1..(IF k < Len(s) THEN k ELSE Len(s)) |-> s[i]]

\* One step along a chain meets the next block, until all are met.
LEMMA MetNext ==
    ASSUME NEW l, NEW m, NEW s \in Seq(Addresses), Chain(l, m, s), NEW k \in Nat
    PROVE  /\ Met(s, k) \in Seq(Addresses)
           /\ k < Len(s) => /\ Behind(l, m, Met(s, k)) # None
                            /\ Met(s, k + 1) = Append(Met(s, k), Behind(l, m, Met(s, k)))
           /\ ~(k < Len(s)) => /\ Behind(l, m, Met(s, k)) = None
                               /\ Met(s, k + 1) = Met(s, k)
<1> DEFINE met == Met(s, k)
           c == IF k < Len(s) THEN k ELSE Len(s)
<1>1. Len(s) \in Nat /\ \A i \in 1..Len(s) : s[i] \in Addresses
  BY ElementOfSeq
<1>2. c \in Nat /\ c <= Len(s)
  BY <1>1
<1>3. met = [i \in 1..c |-> s[i]] /\ met \in Seq(Addresses) /\ Len(met) = c
  BY <1>1, <1>2 DEF Met
<1>4. \A a \in Addresses : a # None
  BY DEF Addresses, None
<1>5. met = <<>> <=> c = 0
  BY <1>3, EmptySeq
<1> HIDE DEF met
<1>6. c > 0 => Last(met) = s[c] /\ c \in 1..Len(s) /\ Last(met) \in Addresses
  BY <1>1, <1>2, <1>3 DEF Last
<1>7. s = <<>> <=> Len(s) = 0
  BY EmptySeq
<1>8. Behind(l, m, met) = IF k < Len(s) THEN s[k + 1] ELSE None
  <2>1. CASE c = 0
    BY <1>1, <1>5, <1>7, <2>1 DEF Behind, Chain
  <2>2. CASE c > 0
    <3>1. Behind(l, m, met) = l.next[s[c]]
      BY <1>5, <1>6, <2>2 DEF Behind
    <3> QED BY <1>1, <1>2, <1>6, <2>2, <3>1 DEF Chain
  <2> QED BY <1>2, <2>1, <2>2
<1>9. ASSUME k < Len(s) PROVE Met(s, k + 1) = Append(met, s[k + 1])
  <2>1. Met(s, k + 1) = [i \in 1..(k + 1) |-> s[i]]
    BY <1>1, <1>9 DEF Met
  <2>2. s[k + 1] \in Addresses
    BY <1>1, <1>9
  <2> QED BY <1>3, <1>9, <2>1, <2>2
<1>10. ASSUME ~(k < Len(s)) PROVE Met(s, k + 1) = met
  <2>1. ~(k + 1 < Len(s)) /\ c = Len(s)
    BY <1>1, <1>10
  <2> QED BY <1>3, <2>1 DEF Met
<1>11. k < Len(s) => s[k + 1] # None
  BY <1>1, <1>4
<1> QED BY <1>3, <1>8, <1>9, <1>10, <1>11 DEF met

\* Following next along a chain meets exactly its blocks, in their order.
LEMMA NodesOfChain ==
    ASSUME NEW l, NEW m, NEW s \in Seq(Addresses), Len(s) <= Pages, Chain(l, m, s)
    PROVE  Nodes(l, m) = s
<1> DEFINE W == [k \in 0..Pages |-> Met(s, k)]
<1>0. Pages \in Nat /\ Len(s) \in Nat
  BY PageAllocatorAssumption
<1>1. Met(s, 0) = <<>>
  BY <1>0, EmptySeq DEF Met
<1>2. \A k \in 1..Pages :
        Met(s, k) = IF Behind(l, m, Met(s, k - 1)) = None THEN Met(s, k - 1)
                    ELSE Append(Met(s, k - 1), Behind(l, m, Met(s, k - 1)))
  <2> SUFFICES ASSUME NEW k \in 1..Pages
               PROVE Met(s, k) = IF Behind(l, m, Met(s, k - 1)) = None THEN Met(s, k - 1)
                          ELSE Append(Met(s, k - 1), Behind(l, m, Met(s, k - 1)))
    OBVIOUS
  <2>1. k - 1 \in Nat /\ (k - 1) + 1 = k
    BY <1>0
  <2> QED BY <2>1, MetNext
<1>3. IsWalk(l, m, W)
  <2>1. \A k \in 0..Pages : k # 0 => k \in 1..Pages /\ k - 1 \in 0..Pages
    BY <1>0
  <2> QED BY <1>1, <1>2, <2>1 DEF IsWalk
<1>4. PICK w : IsWalk(l, m, w) /\ Nodes(l, m) = w[Pages]
  <2>1. \E w : IsWalk(l, m, w)
    BY <1>3
  <2> QED BY <2>1 DEF IsWalk, Nodes
<1> DEFINE Step(k) == IF Behind(l, m, w[k - 1]) = None THEN w[k - 1]
                      ELSE Append(w[k - 1], Behind(l, m, w[k - 1]))
<1> HIDE DEF Step
<1>5. \A k \in 0..Pages : w[k] = IF k = 0 THEN <<>> ELSE Step(k)
  BY <1>4 DEF IsWalk, Step
<1>6. \A k \in 0..Pages : w[k] = Met(s, k)
  <2> DEFINE T == {k \in 0..Pages : w[k] # Met(s, k)}
  <2> SUFFICES ASSUME T # {} PROVE FALSE
    OBVIOUS
  <2>1. T \subseteq Nat
    BY <1>0
  <2>2. PICK k \in T : \A y \in T : k <= y
    BY <2>1, Least
  <2>3. k \in 0..Pages /\ w[k] # Met(s, k)
    OBVIOUS
  <2>4. w[0] = <<>>
    BY <1>0, <1>5
  <2>5. k # 0
    BY <1>1, <2>3, <2>4
  <2>6. k \in 1..Pages /\ k - 1 \in 0..Pages /\ ~(k <= k - 1)
    BY <1>0, <2>3, <2>5
  <2>7. w[k - 1] = Met(s, k - 1)
    BY <2>2, <2>6
  <2>8. w[k] = Step(k)
    BY <1>5, <2>3, <2>5
  <2> QED BY <1>2, <2>3, <2>6, <2>7, <2>8 DEF Step
<1>7. Met(s, Pages) = s
  BY <1>0 DEF Met
<1> QED BY <1>0, <1>4, <1>6, <1>7

-----------------------------------------------------------------------------
(* What the operations on links do to chains *)

\* No block is on two lists or twice on one, and a is on none.
Lists == [Multiples -> Seq(Addresses)]
Fresh(L, a) == \A m \in Multiples : \A i \in 1..Len(L[m]) : L[m][i] # a
Separate(L) ==
    \A m, n \in Multiples : \A i \in 1..Len(L[m]), j \in 1..Len(L[n]) :
        <<m, i>> # <<n, j>> => L[m][i] # L[n][j]

\* A list is no longer than the memory has pages.
LEMMA ShortLists ==
    ASSUME NEW L \in Lists, Separate(L), NEW m \in Multiples
    PROVE  Len(L[m]) <= Pages
<1> DEFINE s == L[m]
<1>1. s \in Seq(Addresses) /\ Len(s) \in Nat /\ s \in [1..Len(s) -> Addresses]
  BY DEF Lists
<1>2. Pages \in Nat
  BY PageAllocatorAssumption
<1>3. IsFiniteSet(1..Len(s)) /\ Cardinality(1..Len(s)) = Len(s)
  <2>1. \A n \in Nat : IsFiniteSet(1..n) /\ Cardinality(1..n) = n
    BY FS_Interval
  <2> QED BY <1>1, <2>1
<1>4. IsFiniteSet(Addresses) /\ Cardinality(Addresses) = Pages
  BY <1>2, FS_Interval DEF Addresses
<1>5. \A i, j \in 1..Len(s) : i # j => s[i] # s[j]
  BY DEF Separate
<1> HIDE DEF s
<1>6. ~(Cardinality(Addresses) < Cardinality(1..Len(s)))
  BY <1>1, <1>3, <1>4, <1>5, FS_PigeonHole
<1> QED BY <1>1, <1>2, <1>3, <1>4, <1>6 DEF s

\* Pointers that do not touch the nodes of the lists leave the chains.
LEMMA ChainsKept ==
    ASSUME NEW l, NEW k, NEW L \in Lists, Chains(l, L), LinksType(k), k.head = l.head,
           \A m \in Multiples : \A i \in 1..Len(L[m]) :
              k.next[L[m][i]] = l.next[L[m][i]] /\ k.prev[L[m][i]] = l.prev[L[m][i]]
    PROVE  Chains(k, L)
BY DEF Chains, Chain

\* A new node where no list has one.
LEMMA NodeNewChains ==
    ASSUME NEW l, NEW L \in Lists, Chains(l, L), NEW a \in Addresses, Fresh(L, a)
    PROVE  /\ Chains(NodeNew(l, a), L)
           /\ NodeNew(l, a).next[a] = None /\ NodeNew(l, a).prev[a] = None
           /\ NodeNew(l, a).head = l.head
<1>1. LinksType(l)
  BY DEF Chains
<1>2. /\ LinksType(NodeNew(l, a)) /\ NodeNew(l, a).head = l.head
      /\ \A b \in Addresses : NodeNew(l, a).next[b] = (IF b = a THEN None ELSE l.next[b])
                          /\ NodeNew(l, a).prev[b] = (IF b = a THEN None ELSE l.prev[b])
  BY <1>1 DEF NodeNew, LinksType, Pointers
<1>3. \A m \in Multiples : \A i \in 1..Len(L[m]) : L[m][i] \in Addresses /\ L[m][i] # a
  BY ElementOfSeq DEF Lists, Fresh
<1> HIDE DEF NodeNew
<1>4. Chains(NodeNew(l, a), L)
  BY <1>2, <1>3, ChainsKept
<1> QED BY <1>2, <1>4

\* Writing over pages in which no list has a node.
LEMMA OverwrittenChains ==
    ASSUME NEW l, NEW L \in Lists, Chains(l, L), NEW s, NEW m, NEW p \in {None, Junk},
           \A n \in Multiples : \A i \in 1..Len(L[n]) : L[n][i] \notin PagesOf(s, m)
    PROVE  Chains(Overwritten(l, s, m, p), L)
<1> DEFINE o == Overwritten(l, s, m, p)
<1>1. LinksType(l)
  BY DEF Chains
<1>2. /\ LinksType(o) /\ o.head = l.head
      /\ \A b \in Addresses : b \notin PagesOf(s, m) =>
            o.next[b] = l.next[b] /\ o.prev[b] = l.prev[b]
  BY <1>1 DEF Overwritten, LinksType, Pointers
<1>3. \A n \in Multiples : \A i \in 1..Len(L[n]) : L[n][i] \in Addresses
  BY ElementOfSeq DEF Lists
<1> HIDE DEF o
<1>4. Chains(o, L)
  BY <1>2, <1>3, ChainsKept
<1> QED BY <1>4 DEF o

\* The lists when the first block of list v is gone.
Popped(L, v) == [L EXCEPT ![v] = Tail(@)]

\* What the tail of one list leaves of the blocks.
LEMMA TailLists ==
    ASSUME NEW L \in Lists, Separate(L), NEW v \in Multiples, L[v] # <<>>, NEW T,
           T = Popped(L, v)
    PROVE  /\ T \in Lists /\ Separate(T) /\ Fresh(T, L[v][1])
           /\ \A a : Fresh(L, a) => Fresh(T, a)
<1>1. L[v] \in Seq(Addresses)
  BY DEF Lists
<1>2. /\ Len(L[v]) \in Nat /\ Len(L[v]) >= 1 /\ Tail(L[v]) \in Seq(Addresses)
      /\ Len(Tail(L[v])) = Len(L[v]) - 1
      /\ \A i \in 1..Len(Tail(L[v])) : i + 1 \in 2..Len(L[v]) /\ Tail(L[v])[i] = L[v][i + 1]
  BY <1>1, PopFacts
<1>3. T \in Lists /\ T[v] = Tail(L[v]) /\ \A m \in Multiples : m # v => T[m] = L[m]
  BY <1>2 DEF Lists, Popped
<1> DEFINE P(m, i) == IF m = v THEN i + 1 ELSE i
<1>4. \A m \in Multiples : \A i \in 1..Len(T[m]) :
        P(m, i) \in 1..Len(L[m]) /\ T[m][i] = L[m][P(m, i)] /\ <<m, P(m, i)>> # <<v, 1>>
  <2>1. \A i \in 1..Len(T[v]) : i + 1 \in 1..Len(L[v]) /\ i + 1 # 1 /\ T[v][i] = L[v][i + 1]
    <3> SUFFICES ASSUME NEW i \in 1..Len(Tail(L[v]))
                 PROVE  i + 1 \in 1..Len(L[v]) /\ i + 1 # 1 /\ Tail(L[v])[i] = L[v][i + 1]
      BY <1>3
    <3>1. i + 1 \in 2..Len(L[v]) /\ Tail(L[v])[i] = L[v][i + 1]
      BY <1>2
    <3>2. \A n \in Nat : \A x \in 2..n : x \in 1..n /\ x # 1
      OBVIOUS
    <3> QED BY <1>2, <3>1, <3>2
  <2>2. \A m \in Multiples : m # v => T[m] = L[m]
    BY <1>3
  <2> QED BY <2>1, <2>2
<1>5. \A m \in Multiples : \A i, j \in 1..Len(T[m]) : i # j => P(m, i) # P(m, j)
  <2>1. \A m \in Multiples : Len(T[m]) \in Nat
    BY <1>3 DEF Lists
  <2> QED BY <2>1
<1>6. Separate(T)
  <2> SUFFICES ASSUME NEW m \in Multiples, NEW n \in Multiples,
                      NEW i \in 1..Len(T[m]), NEW j \in 1..Len(T[n]), <<m, i>> # <<n, j>>
               PROVE  T[m][i] # T[n][j]
    BY DEF Separate
  <2>1. <<m, P(m, i)>> # <<n, P(n, j)>>
    BY <1>5
  <2>2. P(m, i) \in 1..Len(L[m]) /\ P(n, j) \in 1..Len(L[n])
    BY <1>4
  <2>3. T[m][i] = L[m][P(m, i)] /\ T[n][j] = L[n][P(n, j)]
    BY <1>4
  <2> HIDE DEF P
  <2>4. L[m][P(m, i)] # L[n][P(n, j)]
    BY <2>1, <2>2 DEF Separate
  <2> QED BY <2>3, <2>4
<1>7. Fresh(T, L[v][1])
  <2>1. 1 \in 1..Len(L[v])
    BY <1>2
  <2> HIDE DEF P
  <2>2. ASSUME NEW m \in Multiples, NEW i \in 1..Len(T[m]) PROVE T[m][i] # L[v][1]
    <3>1. PICK x \in 1..Len(L[m]) : x = P(m, i)
      BY <1>4
    <3>2. T[m][i] = L[m][x] /\ <<m, x>> # <<v, 1>>
      BY <1>4, <3>1
    <3>3. L[m][x] # L[v][1]
      BY <2>1, <3>2 DEF Separate
    <3> QED BY <3>2, <3>3
  <2> QED BY <2>2 DEF Fresh
<1>8. \A a : Fresh(L, a) => Fresh(T, a)
  <2> HIDE DEF P
  <2> QED BY <1>4 DEF Fresh
<1> QED BY <1>3, <1>6, <1>7, <1>8

\* pop_front takes the first block off the chain and leaves the chain of the others;
\* its list is empty afterwards when the head is None.
LEMMA PopChains ==
    ASSUME NEW l, NEW L \in Lists, Chains(l, L), Separate(L), NEW v \in Multiples,
           L[v] # <<>>, NEW T, T = Popped(L, v)
    PROVE  /\ Chains(pop_front(l, v), T)
           /\ l.head[v] = L[v][1]
           /\ pop_front(l, v).head[v] = None <=> Tail(L[v]) = <<>>
<1> DEFINE s == L[v]
           t == T[v]
           p == pop_front(l, v)
<1>0. T \in Lists /\ Separate(T)
  BY TailLists
<1>1. /\ s \in Seq(Addresses) /\ t \in Seq(Addresses) /\ t = Tail(s) /\ s # <<>>
      /\ \A m \in Multiples : m # v => T[m] = L[m]
  BY <1>0 DEF Lists, Popped
<1>2. Chain(l, v, s) /\ LinksType(l)
  BY DEF Chains
<1>3. /\ T[v] = t /\ (Tail(L[v]) = <<>> <=> t = <<>>)
      /\ L[v][1] = s[1]
  BY <1>1
<1> HIDE DEF s, t
<1>4. /\ Len(s) \in Nat /\ Len(s) >= 1 /\ Len(t) \in Nat /\ Len(t) = Len(s) - 1
      /\ s[1] \in Addresses
      /\ \A i \in 1..Len(t) : i + 1 \in 2..Len(s) /\ t[i] = s[i + 1] /\ t[i] \in Addresses
  <2>1. /\ Len(s) \in Nat /\ Len(s) >= 1 /\ Len(t) = Len(s) - 1 /\ s[1] \in Addresses
        /\ \A i \in 1..Len(t) : i + 1 \in 2..Len(s) /\ t[i] = s[i + 1]
    BY <1>1, PopFacts
  <2>2. Len(t) \in Nat /\ \A i \in 1..Len(t) : t[i] \in Addresses
    BY <1>1, ElementOfSeq
  <2> QED BY <2>1, <2>2
<1>5. /\ l.head[v] = s[1]
      /\ l.next[s[1]] = IF 1 = Len(s) THEN None ELSE s[1 + 1]
  <2>1. 1 \in 1..Len(s)
    BY <1>4
  <2> QED BY <1>1, <1>2, <2>1 DEF Chain
<1>6. /\ t = <<>> <=> Len(s) = 1
      /\ \A a \in Addresses : a # None
      /\ \A m \in Multiples : \A i \in 1..Len(T[m]) : T[m][i] \in Addresses
  <2>1. t = <<>> <=> Len(t) = 0
    BY <1>1, EmptySeq
  <2>2. Len(t) = 0 <=> Len(s) = 1
    BY <1>4
  <2>3. \A a \in Addresses : a # None
    BY DEF Addresses, None
  <2>4. \A m \in Multiples : \A i \in 1..Len(T[m]) : T[m][i] \in Addresses
    BY <1>0, ElementOfSeq DEF Lists
  <2> QED BY <2>1, <2>2, <2>3, <2>4
<1>7. CASE Len(s) = 1
  <2>1. p = [l EXCEPT !.head[v] = None]
    BY <1>5, <1>7 DEF pop_front
  <2>2. /\ LinksType(p) /\ p.next = l.next /\ p.prev = l.prev /\ p.head[v] = None
        /\ \A m \in Multiples : m # v => p.head[m] = l.head[m]
    BY <1>2, <2>1 DEF LinksType, Pointers
  <2> HIDE DEF p
  <2>3. Chain(p, v, t)
    <3>1. t = <<>> /\ 1..Len(t) = {}
      BY <1>4, <1>6, <1>7
    <3> QED BY <2>2, <3>1 DEF Chain
  <2>4. ASSUME NEW m \in Multiples, m # v PROVE Chain(p, m, T[m])
    <3>1. T[m] = L[m] /\ Chain(l, m, L[m]) /\ p.head[m] = l.head[m]
      BY <1>1, <2>2, <2>4 DEF Chains
    <3> DEFINE q == L[m]
    <3>2. Chain(l, m, q) /\ T[m] = q
      BY <3>1
    <3> HIDE DEF q
    <3>3. Chain(p, m, q)
      BY <2>2, <3>1, <3>2 DEF Chain
    <3> QED BY <3>2, <3>3
  <2>5. Chains(p, T)
    BY <1>3, <2>2, <2>3, <2>4 DEF Chains
  <2> QED BY <1>3, <1>5, <1>6, <1>7, <2>2, <2>5 DEF p
<1>8. CASE Len(s) # 1
  <2>0. 1 \in 1..Len(t) /\ s[1 + 1] \in Addresses /\ t[1] = s[1 + 1]
    <3>1. 1 \in 1..Len(t)
      BY <1>4, <1>8
    <3> QED BY <1>4, <3>1
  <2> DEFINE q == t[1]
  <2>1. q \in Addresses /\ l.next[s[1]] = q /\ q # None
    BY <1>5, <1>6, <1>8, <2>0
  <2> HIDE DEF q
  <2>2. p = [l EXCEPT !.head[v] = q, !.prev[q] = None]
    BY <1>2, <1>5, <2>1 DEF pop_front, LinksType
  <2>3. /\ LinksType(p) /\ p.next = l.next /\ p.head[v] = q
        /\ \A m \in Multiples : m # v => p.head[m] = l.head[m]
        /\ \A a \in Addresses : p.prev[a] = IF a = q THEN None ELSE l.prev[a]
    <3> DEFINE h == [l.head EXCEPT ![v] = q]
               b == [l.prev EXCEPT ![q] = None]
    <3>1. h \in [Multiples -> Pointers] /\ b \in [Addresses -> Pointers]
      BY <1>2, <2>1 DEF LinksType, Pointers
    <3>2. /\ \A a \in Addresses : b[a] = IF a = q THEN None ELSE l.prev[a]
          /\ \A m \in Multiples : m # v => h[m] = l.head[m]
          /\ h[v] = q
      BY <1>2, <2>1 DEF LinksType
    <3> HIDE DEF h, b
    <3>3. p = [l EXCEPT !.head = h, !.prev = b]
      BY <1>2, <2>2 DEF LinksType, h, b
    <3>4. p.head = h /\ p.prev = b /\ p.next = l.next /\ LinksType(p)
      BY <1>2, <3>1, <3>3 DEF LinksType
    <3> QED BY <3>2, <3>4
  <2> HIDE DEF p
  <2>4. \A m \in Multiples : \A i \in 1..Len(T[m]) : <<m, i>> # <<v, 1>> => T[m][i] # q
    <3>1. 1 \in 1..Len(T[v]) /\ T[v][1] = q
      BY <1>3, <2>0 DEF q
    <3> QED BY <1>0, <3>1 DEF Separate
  <2>5. Chain(p, v, t)
    <3>1. p.head[v] = t[1] /\ t # <<>>
      BY <1>6, <1>8, <2>3 DEF q
    <3>2. ASSUME NEW i \in 1..Len(t)
          PROVE  /\ p.next[t[i]] = IF i = Len(t) THEN None ELSE t[i + 1]
                 /\ p.prev[t[i]] = IF i = 1 THEN None ELSE t[i - 1]
      <4>0. i \in Nat /\ i <= Len(t) /\ i >= 1 /\ t[i] = s[i + 1] /\ t[i] \in Addresses
        BY <1>4
      <4>1. i + 1 \in 1..Len(s) /\ i + 1 # 1 /\ (i + 1) - 1 = i
        BY <1>4, <4>0
      <4>2. l.next[s[i + 1]] = IF i + 1 = Len(s) THEN None ELSE s[(i + 1) + 1]
        BY <1>2, <4>1 DEF Chain
      <4>3. l.prev[s[i + 1]] = s[i]
        BY <1>2, <4>1 DEF Chain
      <4>4. i # Len(t) => t[i + 1] = s[(i + 1) + 1]
        <5>1. i # Len(t) => i + 1 \in 1..Len(t)
          BY <1>4, <4>0
        <5> QED BY <1>4, <5>1
      <4>5. p.next[t[i]] = IF i = Len(t) THEN None ELSE t[i + 1]
        <5>1. i + 1 = Len(s) <=> i = Len(t)
          BY <1>4, <4>0
        <5> QED BY <2>3, <4>0, <4>2, <4>4, <5>1
      <4>6. i # 1 => t[i - 1] = s[i]
        <5>1. i # 1 => i - 1 \in 1..Len(t) /\ (i - 1) + 1 = i
          BY <1>4, <4>0
        <5> QED BY <1>4, <5>1
      <4>7. i # 1 => t[i] # q
        BY <1>3, <2>4
      <4>8. p.prev[t[i]] = IF i = 1 THEN None ELSE t[i - 1]
        BY <2>3, <4>0, <4>3, <4>6, <4>7 DEF q
      <4> QED BY <4>5, <4>8
    <3> QED BY <3>1, <3>2 DEF Chain
  <2>6. ASSUME NEW m \in Multiples, m # v PROVE Chain(p, m, T[m])
    <3>1. \A i \in 1..Len(T[m]) : p.prev[T[m][i]] = l.prev[T[m][i]]
      BY <1>6, <2>3, <2>4, <2>6
    <3>2. T[m] = L[m] /\ Chain(l, m, L[m])
      BY <1>1, <2>6 DEF Chains
    <3> QED BY <2>3, <2>6, <3>1, <3>2 DEF Chain
  <2>7. Chains(p, T)
    BY <1>3, <2>3, <2>5, <2>6 DEF Chains
  <2> QED BY <1>3, <1>5, <1>6, <1>8, <2>1, <2>3, <2>7 DEF p
<1> QED BY <1>7, <1>8

\* The lists when block a is behind the others of list k.
Pushed(L, k, a) == [L EXCEPT ![k] = Append(@, a)]

\* push_front, which walks to the last node, makes the chain one block longer.
LEMMA PushChains ==
    ASSUME NEW l, NEW L \in Lists, Chains(l, L), Separate(L), NEW k \in Multiples,
           NEW a \in Addresses, Fresh(L, a), l.next[a] = None, l.prev[a] = None,
           NEW T, T = Pushed(L, k, a)
    PROVE  Chains(push_front(l, k, a), T)
<1> DEFINE s == L[k]
           t == T[k]
           p == push_front(l, k, a)
<1>1. /\ s \in Seq(Addresses) /\ t = Append(s, a)
      /\ \A m \in Multiples : m # k => T[m] = L[m]
  BY DEF Lists, Pushed
<1>2. Chain(l, k, s) /\ LinksType(l) /\ Len(s) <= Pages
  BY ShortLists DEF Chains
<1>3. /\ \A i \in 1..Len(s) : s[i] # a
      /\ \A i, j \in 1..Len(s) : i # j => s[i] # s[j]
      /\ \A m \in Multiples : \A i \in 1..Len(L[m]), j \in 1..Len(s) :
            m # k => L[m][i] # s[j]
  BY DEF Separate, Fresh
<1>4. T[k] = t /\ \A m \in Multiples : \A i \in 1..Len(L[m]) : L[m][i] # a /\ L[m][i] \in Addresses
  BY ElementOfSeq DEF Fresh, Lists
<1>5. \A m \in Multiples : m # k => T[m] = L[m] /\ Chain(l, m, L[m])
  BY <1>1 DEF Chains
<1> HIDE DEF s, t
<1>6. Nodes(l, k) = s
  BY <1>1, <1>2, NodesOfChain
<1>7. /\ Len(s) \in Nat /\ Len(t) = Len(s) + 1 /\ t[Len(s) + 1] = a
      /\ \A i \in 1..Len(s) : t[i] = s[i] /\ s[i] \in Addresses
      /\ t # <<>>
  <2>1. Len(s) \in Nat /\ \A i \in 1..Len(s) : s[i] \in Addresses
    BY <1>1, ElementOfSeq
  <2>2. t \in Seq(Addresses) /\ Len(t) = Len(s) + 1 /\ t[Len(s) + 1] = a /\ \A i \in 1..Len(s) : t[i] = s[i]
    BY <1>1, AppendProperties
  <2> QED BY <2>1, <2>2, EmptySeq
<1>8. CASE s = <<>>
  <2>1. Len(s) = 0
    BY <1>8, EmptySeq
  <2>2. p = [l EXCEPT !.head[k] = a]
    BY <1>6, <1>8 DEF push_front
  <2>3. /\ LinksType(p) /\ p.next = l.next /\ p.prev = l.prev /\ p.head[k] = a
        /\ \A m \in Multiples : m # k => p.head[m] = l.head[m]
    BY <1>2, <2>2 DEF LinksType, Pointers
  <2> HIDE DEF p
  <2>4. Chain(p, k, t)
    <3>1. Len(t) = 1 /\ t[1] = a /\ t # <<>>
      BY <1>7, <2>1
    <3>2. \A i \in 1..Len(t) : i = 1
      BY <3>1
    <3> QED BY <2>3, <3>1, <3>2 DEF Chain
  <2>5. ASSUME NEW m \in Multiples, m # k PROVE Chain(p, m, T[m])
    <3>1. Chain(l, m, L[m]) /\ T[m] = L[m] /\ p.head[m] = l.head[m]
      BY <1>5, <2>3, <2>5
    <3>2. Chain(p, m, L[m])
      <4> DEFINE q == L[m]
      <4> HIDE DEF q
      <4>1. Chain(l, m, q)
        BY <3>1 DEF q
      <4>2. Chain(p, m, q)
        BY <2>3, <3>1, <4>1 DEF Chain
      <4> QED BY <4>2 DEF q
    <3> QED BY <3>1, <3>2
  <2>6. Chains(p, T)
    BY <1>4, <2>3, <2>4, <2>5 DEF Chains
  <2> QED BY <2>6 DEF p
<1>9. CASE s # <<>>
  <2> DEFINE q == s[Len(s)]
  <2>1. Len(s) \in 1..Len(s) /\ q \in Addresses /\ q # a
    <3>1. Len(s) >= 1
      BY <1>1, <1>7, <1>9, EmptySeq
    <3>2. Len(s) \in 1..Len(s)
      BY <1>7, <3>1
    <3> QED BY <1>3, <1>7, <3>2
  <2>2. p = [l EXCEPT !.next[q] = a, !.prev[a] = q]
    BY <1>6, <1>9 DEF push_front, Last
  <2>3. /\ \A i \in 1..Len(s) : s[i] = q => i = Len(s)
        /\ \A m \in Multiples : \A i \in 1..Len(L[m]) : m # k => L[m][i] # q
    BY <1>3, <2>1
  <2> HIDE DEF q
  <2>4. /\ LinksType(p) /\ p.head = l.head
        /\ \A b \in Addresses : p.next[b] = IF b = q THEN a ELSE l.next[b]
        /\ \A b \in Addresses : p.prev[b] = IF b = a THEN q ELSE l.prev[b]
    <3> DEFINE f == [l.next EXCEPT ![q] = a]
               g == [l.prev EXCEPT ![a] = q]
    <3>1. f \in [Addresses -> Pointers] /\ g \in [Addresses -> Pointers]
      BY <1>2, <2>1 DEF LinksType, Pointers
    <3>2. /\ \A b \in Addresses : f[b] = IF b = q THEN a ELSE l.next[b]
          /\ \A b \in Addresses : g[b] = IF b = a THEN q ELSE l.prev[b]
      BY <1>2, <2>1 DEF LinksType
    <3> HIDE DEF f, g
    <3>3. p = [l EXCEPT !.next = f, !.prev = g]
      BY <1>2, <2>2 DEF LinksType, f, g
    <3>4. p.next = f /\ p.prev = g /\ p.head = l.head /\ LinksType(p)
      BY <1>2, <3>1, <3>3 DEF LinksType
    <3> QED BY <3>2, <3>4
  <2> HIDE DEF p
  <2>5. Chain(p, k, t)
    <3>1. p.head[k] = t[1] /\ t # <<>>
      <4>1. 1 \in 1..Len(s)
        BY <1>7, <2>1
      <4> QED BY <1>2, <1>7, <1>9, <2>4, <4>1 DEF Chain
    <3>2. ASSUME NEW i \in 1..Len(t)
          PROVE  /\ p.next[t[i]] = IF i = Len(t) THEN None ELSE t[i + 1]
                 /\ p.prev[t[i]] = IF i = 1 THEN None ELSE t[i - 1]
      <4>1. CASE i = Len(t)
        <5>1. t[i] = a /\ i - 1 = Len(s) /\ i # 1 /\ t[i - 1] = q
          BY <1>7, <2>1, <4>1 DEF q
        <5> QED BY <2>1, <2>4, <4>1, <5>1
      <4>2. CASE i # Len(t)
        <5>1. i \in 1..Len(s) /\ i \in Nat
          BY <1>7, <4>2
        <5>2. t[i] = s[i] /\ s[i] \in Addresses /\ s[i] # a
          BY <1>3, <1>7, <5>1
        <5>3. l.next[s[i]] = (IF i = Len(s) THEN None ELSE s[i + 1])
              /\ l.prev[s[i]] = (IF i = 1 THEN None ELSE s[i - 1])
          BY <1>2, <5>1 DEF Chain
        <5>4. p.prev[t[i]] = IF i = 1 THEN None ELSE t[i - 1]
          <6>1. i # 1 => i - 1 \in 1..Len(s)
            BY <1>7, <5>1
          <6> QED BY <1>7, <2>4, <5>2, <5>3, <6>1
        <5>5. p.next[t[i]] = t[i + 1]
          <6>1. CASE i = Len(s)
            BY <1>7, <2>4, <5>2, <6>1 DEF q
          <6>2. CASE i # Len(s)
            <7>1. s[i] # q /\ i + 1 \in 1..Len(s)
              BY <1>7, <2>3, <5>1, <6>2
            <7> QED BY <1>7, <2>4, <5>2, <5>3, <6>2, <7>1
          <6> QED BY <6>1, <6>2
        <5> QED BY <4>2, <5>4, <5>5
      <4> QED BY <4>1, <4>2
    <3> QED BY <3>1, <3>2 DEF Chain
  <2>6. ASSUME NEW m \in Multiples, m # k PROVE Chain(p, m, T[m])
    <3>1. \A i \in 1..Len(L[m]) : p.prev[L[m][i]] = l.prev[L[m][i]] /\ p.next[L[m][i]] = l.next[L[m][i]]
      BY <1>4, <2>3, <2>4, <2>6
    <3>2. T[m] = L[m] /\ Chain(l, m, L[m])
      BY <1>5, <2>6
    <3> QED BY <2>4, <3>1, <3>2 DEF Chain
  <2>7. Chains(p, T)
    BY <1>4, <2>4, <2>5, <2>6 DEF Chains
  <2> QED BY <2>7 DEF p
<1> QED BY <1>8, <1>9

\* A block that can be pushed without meeting itself was on no list.
LEMMA PushedFresh ==
    ASSUME NEW L \in Lists, NEW k \in Multiples, NEW a \in Addresses,
           Separate(Pushed(L, k, a))
    PROVE  Fresh(L, a)
<1> DEFINE T == Pushed(L, k, a)
<1>1. L[k] \in Seq(Addresses) /\ T[k] = Append(L[k], a)
      /\ \A m \in Multiples : m # k => T[m] = L[m]
  BY DEF Lists, Pushed
<1>2. /\ Len(L[k]) \in Nat /\ Len(T[k]) = Len(L[k]) + 1 /\ T[k][Len(L[k]) + 1] = a
      /\ \A i \in 1..Len(L[k]) : T[k][i] = L[k][i]
  BY <1>1, AppendProperties
<1> DEFINE e == Len(L[k]) + 1
<1>3. e \in 1..Len(T[k]) /\ \A i \in 1..Len(L[k]) : i \in 1..Len(T[k]) /\ i # e
  BY <1>2
<1>4. T[k][e] = a
  BY <1>2
<1> HIDE DEF e, T
<1>5. Separate(T)
  BY DEF T
<1>6. ASSUME NEW m \in Multiples, NEW i \in 1..Len(L[m]) PROVE L[m][i] # a
  <2>1. i \in 1..Len(T[m]) /\ <<m, i>> # <<k, e>> /\ T[m][i] = L[m][i]
    BY <1>1, <1>2, <1>3
  <2> QED BY <1>3, <1>4, <1>5, <2>1 DEF Separate
<1> QED BY <1>6 DEF Fresh

-----------------------------------------------------------------------------
(* The steps *)

\* The free blocks start apart from each other.
LEMMA ListFacts ==
    ASSUME IInv PROVE list \in Lists /\ Separate(list)
<1>1. list \in Lists
  BY DEF IInv, TypeOK, Lists
<1>2. \A m \in Multiples : \A i \in 1..Len(list[m]) : list[m][i] \in FreePages(m, i)
  BY HeaderPage
<1>3. Separate(list)
  BY <1>2 DEF IInv, NoOverlap, Disjoint, Separate
<1> QED BY <1>1, <1>3

\* A block's first page is its own.
LEMMA FirstPage ==
    ASSUME NEW a \in Addresses, NEW n \in Nat \ {0} PROVE a \in PagesOf(a, n)
BY DEF Addresses, PagesOf

\* The same in the next state, and apart from the blocks that clients hold.
LEMMA ListFactsNext ==
    ASSUME IInv'
    PROVE  /\ list' \in Lists /\ Separate(list')
           /\ \A b \in live' : \A m \in Multiples : \A i \in 1..Len(list'[m]) :
                 list'[m][i] \notin PagesOf(b.start, b.size)
<1>1. list' \in Lists
  BY DEF IInv, TypeOK, Lists
<1>2. \A m \in Multiples : \A i \in 1..Len(list'[m]) : list'[m][i] \in PagesOf(list'[m][i], m)
  <2>1. \A m \in Multiples : m \in Nat \ {0}
    BY PageAllocatorAssumption DEF Multiples
  <2>2. \A m \in Multiples : \A i \in 1..Len(list'[m]) : list'[m][i] \in Addresses
    BY <1>1, ElementOfSeq DEF Lists
  <2> QED BY <2>1, <2>2, FirstPage
<1>3. Separate(list')
  BY <1>2 DEF IInv, NoOverlap, Disjoint, Separate, FreePages
<1>4. \A b \in live' : \A m \in Multiples : \A i \in 1..Len(list'[m]) :
        list'[m][i] \notin PagesOf(b.start, b.size)
  <2>1. \A b \in live' : \A m \in Multiples : \A i \in 1..Len(list'[m]) :
          Disjoint(PagesOf(b.start, b.size), PagesOf(list'[m][i], m))
    BY DEF IInv, NoOverlap, FreePages, BlockPages
  <2> QED BY <1>2, <2>1 DEF Disjoint
<1> QED BY <1>1, <1>3, <1>4

\* What is written over a block that a client holds touches no chain.
LEMMA OverwrittenNext ==
    ASSUME IInv', NEW l, Chains(l, list'), NEW b \in live', NEW p \in {None, Junk}
    PROVE  Chains(Overwritten(l, b.start, b.size, p), list')
BY ListFactsNext, OverwrittenChains

\* The bits that allocate clears, in the words and in the set.
LEMMA BitsAfterPopBits ==
    ASSUME IInv, FlInv, NEW v \in Multiples, NEW m \in Multiples, list[v] # <<>>
    PROVE  BitsOf(BitsAfterPop(v, m), BitCleared(v, m))
<1>1. pop_front(links, v).head[v] = None <=> Tail(list[v]) = <<>>
  BY ListFacts, PopChains DEF FlInv
<1>2. BitsOf(mark_unavailable(inner, m), bitmaps \ {m}) /\ BitsOf(inner, bitmaps)
  BY MarkUnavailable DEF FlInv
<1> QED BY <1>1, <1>2 DEF BitsAfterPop, BitCleared

\* allocate of a block of the very size.
LEMMA ExactInv ==
    ASSUME IInv, IInv', FlInv, NEW m \in Wanted, FlAllocateExact(m)
    PROVE  FlInv'
<1>1. /\ list[m] # <<>> /\ m \in Multiples /\ list' = Popped(list, m)
      /\ bitmaps' = BitCleared(m, m) /\ live' = live \cup {Block(Head(list[m]), m)}
      /\ inner' = BitsAfterPop(m, m)
      /\ links' = Overwritten(pop_front(links, m), links.head[m], m, None)
  BY DEF FlAllocateExact, AllocateExact, IsFirstAvailable, IInv, TypeOK, Popped
<1>2. BitsOf(inner', bitmaps')
  BY <1>1, BitsAfterPopBits
<1>3. list \in Lists /\ Separate(list) /\ Chains(links, list)
  BY ListFacts DEF FlInv
<1>4. Chains(pop_front(links, m), list') /\ links.head[m] = list[m][1]
  BY <1>1, <1>3, PopChains
<1>5. Head(list[m]) = list[m][1]
  BY <1>1, <1>3 DEF Lists
<1>6. Block(links.head[m], m) \in live'
  BY <1>1, <1>4, <1>5
<1>7. Chains(links', list')
  BY <1>1, <1>4, <1>6, OverwrittenNext DEF Block
<1> QED BY <1>2, <1>7 DEF FlInv

\* allocate that splits a larger block.
LEMMA SplitInv ==
    ASSUME IInv, IInv', FlInv, NEW m \in Wanted, NEW v \in Multiples, FlAllocateSplit(m, v)
    PROVE  FlInv'
<1> DEFINE h == links.head[v]
           a == NotNeededAddr(h, m)
           k == NotNeededMultiple(v, m)
           T == Popped(list, v)
           q == pop_front(links, v)
<1>1. /\ list[v] # <<>> /\ v > m
      /\ bitmaps' = BitCleared(v, m) \cup {k}
      /\ inner' = mark_available(BitsAfterPop(v, m), k)
      /\ links' = Overwritten(push_front(NodeNew(q, a), k, a), h, m, None)
      /\ live' = live \cup {Block(Head(list[v]), m)}
  BY DEF FlAllocateSplit, AllocateSplit
<1>2. list \in Lists /\ Separate(list) /\ Chains(links, list)
  BY ListFacts DEF FlInv
<1>3. Chains(q, T) /\ h = list[v][1] /\ T \in Lists /\ Separate(T)
  BY <1>1, <1>2, PopChains, TailLists
<1>4. Head(list[v]) = h
  BY <1>1, <1>2, <1>3 DEF Lists
<1>5. m \in Multiples /\ k \in Multiples /\ k # v
  BY <1>1, PageAllocatorAssumption DEF Multiples, NotNeededMultiple
<1>6. list' = Pushed(T, k, a)
  <2>1. list' = [list EXCEPT ![v] = Tail(@), ![NotNeededMultiple(v, m)] =
                   Append(@, NotNeededAddr(Head(list[v]), m))]
    BY DEF FlAllocateSplit, AllocateSplit
  <2>2. list' = [list EXCEPT ![v] = Tail(@), ![k] = Append(@, a)]
    BY <1>4, <2>1
  <2> HIDE DEF a, k
  <2>3. [list EXCEPT ![v] = Tail(@), ![k] = Append(@, a)]
          = [[list EXCEPT ![v] = Tail(@)] EXCEPT ![k] = Append(@, a)]
    <3>1. [list EXCEPT ![v] = Tail(@)][k] = list[k]
      BY <1>2, <1>5 DEF Lists
    <3> QED BY <3>1
  <2> QED BY <2>2, <2>3 DEF Pushed, Popped
<1>7. a \in Addresses
  <2>1. PICK x \in Addresses : x = list[v][1] /\ x + m \in Addresses
    BY SplitBlocks DEF FlAllocateSplit
  <2> QED BY <1>3, <2>1 DEF NotNeededAddr
<1> HIDE DEF a, k, T, q, h
<1>8. Fresh(T, a)
  BY <1>3, <1>6, <1>5, <1>7, ListFactsNext, PushedFresh
<1>9. /\ Chains(NodeNew(q, a), T)
      /\ NodeNew(q, a).next[a] = None /\ NodeNew(q, a).prev[a] = None
  BY <1>3, <1>7, <1>8, NodeNewChains
<1>10. Chains(push_front(NodeNew(q, a), k, a), list')
  BY <1>3, <1>6, <1>5, <1>7, <1>8, <1>9, PushChains
<1>11. Block(h, m) \in live'
  BY <1>1, <1>4
<1>12. Chains(links', list')
  BY <1>1, <1>10, <1>11, OverwrittenNext DEF Block
<1>13. BitsOf(inner', bitmaps')
  BY <1>1, <1>5, BitsAfterPopBits, MarkAvailable
<1> QED BY <1>12, <1>13 DEF FlInv

\* deallocate appends the block to the list of its size.
LEMMA FreeInv ==
    ASSUME IInv, IInv', FlInv, NEW b \in live, b.size \in Freed, FlDeallocate(b)
    PROVE  FlInv'
<1>1. /\ b.size \in Multiples /\ list' = Pushed(list, b.size, b.start)
      /\ bitmaps' = bitmaps \cup {b.size} /\ inner' = mark_available(inner, b.size)
      /\ links' = push_front(NodeNew(links, b.start), b.size, b.start)
  BY PageAllocatorAssumption DEF FlDeallocate, deallocate, Pushed, Multiples
<1>2. list \in Lists /\ Separate(list) /\ Chains(links, list) /\ BitsOf(inner, bitmaps)
  BY ListFacts DEF FlInv
<1>3. b.start \in Addresses
  BY DEF IInv, TypeOK
<1>4. Fresh(list, b.start)
  BY <1>1, <1>2, <1>3, ListFactsNext, PushedFresh
<1>5. /\ Chains(NodeNew(links, b.start), list)
      /\ NodeNew(links, b.start).next[b.start] = None
      /\ NodeNew(links, b.start).prev[b.start] = None
  BY <1>2, <1>3, <1>4, NodeNewChains
<1>6. Chains(links', list')
  BY <1>1, <1>2, <1>3, <1>4, <1>5, PushChains
<1>7. BitsOf(inner', bitmaps')
  BY <1>1, <1>2, MarkAvailable
<1> QED BY <1>6, <1>7 DEF FlInv

\* The steps that leave the lists alone: new memory, and a client that writes.
LEMMA WriteInv ==
    ASSUME IInv, IInv', FlInv,
           \/ \E m \in Wanted : FlAllocateNew(m)
           \/ \E b \in live : FlClientWrites(b)
    PROVE  FlInv'
<1>1. \E b \in live', p \in {None, Junk} : links' = Overwritten(links, b.start, b.size, p)
  <2>1. ASSUME NEW m \in Wanted, FlAllocateNew(m)
        PROVE  Block(current_start, m) \in live' /\ links' = Overwritten(links, current_start, m, None)
    BY <2>1 DEF FlAllocateNew, AllocateNew
  <2>2. ASSUME NEW b \in live, FlClientWrites(b)
        PROVE  b \in live' /\ links' = Overwritten(links, b.start, b.size, Junk)
    BY <2>2 DEF FlClientWrites, ClientWrites
  <2>3. \A m : Block(current_start, m).start = current_start /\ Block(current_start, m).size = m
    BY DEF Block
  <2> QED BY <2>1, <2>2, <2>3
<1>2. list' = list /\ bitmaps' = bitmaps /\ inner' = inner
  BY DEF FlAllocateNew, AllocateNew, FlClientWrites, ClientWrites, state
<1>3. Chains(links', list')
  BY <1>1, <1>2, OverwrittenNext DEF FlInv
<1> QED BY <1>2, <1>3 DEF FlInv

\* Empty lists and words of zeroes stand for each other.
LEMMA FlInitInv == FlInit => FlInv
<1> SUFFICES ASSUME FlInit PROVE FlInv
  OBVIOUS
<1>1. \A m \in Multiples : list[m] = <<>> /\ 1..Len(list[m]) = {}
  <2>1. \A m \in Multiples : list[m] = <<>>
    BY DEF FlInit, Init
  <2> QED BY <2>1, EmptySeq
<1>2. LinksType(links) /\ \A m \in Multiples : links.head[m] = None
  BY DEF FlInit, LinksType, Pointers
<1>3. Chains(links, list)
  BY <1>1, <1>2 DEF Chains, Chain
<1>4. \A m \in Multiples : Index(m) \in Words
  <2>1. \A m \in Multiples : m \in Nat \ {0}
    BY PageAllocatorAssumption DEF Multiples
  <2> QED BY <2>1, IndexFacts
<1>5. BitsOf(inner, bitmaps)
  BY <1>4 DEF FlInit, Init, BitsOf
<1> QED BY <1>3, <1>5 DEF FlInv

\* Every step of the representation is a step of the allocator.
LEMMA FlNextIsNext == [FlNext]_flVars => [Next]_vars
<1> SUFFICES ASSUME [FlNext]_flVars PROVE [Next]_vars
  OBVIOUS
<1>1. ASSUME NEW m \in Wanted,
             \/ FlAllocateExact(m)
             \/ \E v \in Multiples : FlAllocateSplit(m, v)
             \/ FlAllocatePanics(m)
             \/ FlAllocateNew(m)
             \/ FlAllocateNone(m)
      PROVE  allocate(m)
  BY <1>1 DEF FlAllocateExact, FlAllocateSplit, FlAllocatePanics, FlAllocateNew,
              FlAllocateNone, allocate
<1>2. ASSUME NEW b \in live, (b.size \in Freed /\ FlDeallocate(b)) \/ FlClientWrites(b)
      PROVE  (b.size \in Freed /\ deallocate(b)) \/ ClientWrites(b)
  BY <1>2 DEF FlDeallocate, FlClientWrites
<1>3. FlHalted => Halted
  BY DEF FlHalted
<1>4. UNCHANGED flVars => UNCHANGED vars
  BY DEF flVars
<1> QED BY <1>1, <1>2, <1>3, <1>4 DEF FlNext, Next

\* Every step keeps pointers and words in step with lists and bitmap.
LEMMA FlNextInv == IInv /\ FlInv /\ [FlNext]_flVars => FlInv'
<1> SUFFICES ASSUME IInv, FlInv, [FlNext]_flVars PROVE FlInv'
  OBVIOUS
<1>1. IInv'
  BY FlNextIsNext, NextInv
<1>2. ASSUME NEW m \in Wanted, FlAllocateExact(m) PROVE FlInv'
  BY <1>1, <1>2, ExactInv
<1>3. ASSUME NEW m \in Wanted, NEW v \in Multiples, FlAllocateSplit(m, v) PROVE FlInv'
  BY <1>1, <1>3, SplitInv
<1>4. ASSUME NEW b \in live, b.size \in Freed, FlDeallocate(b) PROVE FlInv'
  BY <1>1, <1>4, FreeInv
<1>5. ASSUME \/ \E m \in Wanted : FlAllocateNew(m)
             \/ \E b \in live : FlClientWrites(b)
      PROVE  FlInv'
  BY <1>1, <1>5, WriteInv
<1>6. ASSUME \/ \E m \in Wanted : FlAllocatePanics(m) \/ FlAllocateNone(m)
             \/ FlHalted \/ UNCHANGED flVars
      PROVE  FlInv'
  <2>1. UNCHANGED <<links, list, inner, bitmaps>>
    BY <1>6 DEF FlAllocatePanics, FlAllocateNone, AllocatePanics, AllocateNone, FlHalted,
                Halted, flVars, vars, state
  <2> QED BY <2>1 DEF FlInv
<1> QED BY <1>2, <1>3, <1>4, <1>5, <1>6 DEF FlNext

\* What the invariant says of the walks and of the search.
LEMMA FlInvGivesSafety == IInv /\ FlInv => ListsAreChains /\ FirstAvailableIsSmallest
<1> SUFFICES ASSUME IInv, FlInv PROVE ListsAreChains /\ FirstAvailableIsSmallest
  OBVIOUS
<1>1. list \in Lists /\ Separate(list)
  BY ListFacts
<1>2. \A m \in Multiples : Chain(links, m, list[m]) /\ list[m] \in Seq(Addresses)
                          /\ Len(list[m]) <= Pages
  BY <1>1, ShortLists DEF FlInv, Chains, Lists
<1>3. \A m \in Multiples : Nodes(links, m) = list[m]
  BY <1>2, NodesOfChain
<1>4. ListsAreChains
  BY <1>2, <1>3 DEF ListsAreChains, Chain
<1>5. FirstAvailableIsSmallest
  <2>1. BitsOf(inner, bitmaps) /\ bitmaps \subseteq Multiples
    BY DEF FlInv, IInv, TypeOK
  <2>2. \A m \in Wanted : m \in Nat \ {0}
    BY PageAllocatorAssumption
  <2> QED BY <2>1, <2>2, SearchIsFirst DEF FirstAvailableIsSmallest
<1> QED BY <1>4, <1>5

-----------------------------------------------------------------------------
(* Theorems *)

\* The actions of FreeLists are those of PageAllocator with pointers and words beside them,
\* so that what is proved of PageAllocator holds here; that the pointers and the words
\* are right is FreeListsAreChains and SearchIsExact.
LEMMA FlImplementsPageAllocator == FlSpec => Spec
<1>1. FlInit => Init
  BY DEF FlInit
<1> QED BY <1>1, FlNextIsNext, PTL DEF FlSpec, Spec

\* Pointers and words stand for the lists and the bitmap in every reachable state.
THEOREM FlInvariant == FlSpec => [](IInv /\ FlInv)
<1>1. FlInit => Init
  BY DEF FlInit
<1> QED
  BY <1>1, InitInv, NextInv, FlInitInv, FlNextIsNext, FlNextInv, PTL DEF FlSpec

\* Following next from the head of a list meets exactly the free blocks of its size, in
\* order, and ends; prev leads back.
THEOREM FreeListsAreChains == FlSpec => []ListsAreChains
BY FlInvariant, FlInvGivesSafety, PTL

\* first_available returns the smallest marked multiple that is large enough, or None when
\* there is none, whatever the number and the width of the words.
THEOREM SearchIsExact == FlSpec => []FirstAvailableIsSmallest
BY FlInvariant, FlInvGivesSafety, PTL

\* No page is handed out twice, is lost or loses its header, and what is handed out
\* is zero, with the lists in memory and the bitmap in words.
THEOREM FlIsSafe ==
    FlSpec => [](TypeOK /\ NoOverlap /\ NothingLost /\ HeadersIntact) /\ HandsOutZeroes
BY FlImplementsPageAllocator, TypeCorrectness, BlocksNeverOverlap, PagesAreNotLost, HeadersStayIntact, HandedOutIsZero, PTL
=============================================================================

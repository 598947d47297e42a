------------------------ MODULE PageAllocatorProofs ------------------------
(***************************************************************************)
(* Proofs about the page allocator, for every amount of memory and every   *)
(* set of sizes: blocks never overlap, their headers stay as they were     *)
(* written, no page is lost and what is handed out is zero; and when only  *)
(* single pages are given back, as in this kernel, allocate never panics.  *)
(***************************************************************************)
EXTENDS PageAllocator, SequenceTheorems, WellFoundedInduction, TLAPS

-----------------------------------------------------------------------------
(* The inductive invariant *)

Sum == current_start + current_size = Pages
IInv == TypeOK /\ NoOverlap /\ Sum

\* A set of naturals that is not empty has a least member.
LEMMA Least ==
    ASSUME NEW T, T \subseteq Nat, T # {}
    PROVE  \E x \in T : \A y \in T : x <= y
<1> DEFINE R == OpToRel(<, Nat)
<1>1. IsWellFoundedOn(R, Nat)
  BY NatLessThanWellFounded
<1>2. \A x, y \in Nat : y < x => <<y, x>> \in R
  BY DEF OpToRel
<1> HIDE DEF R
<1>3. PICK x \in T : \A y \in T : ~(<<y, x>> \in R)
  BY <1>1, WFMin
<1>4. ASSUME NEW y \in T PROVE x <= y
  <2>1. x \in Nat /\ y \in Nat /\ ~(y < x)
    BY <1>2, <1>3
  <2> QED BY <2>1
<1> QED BY <1>4

\* What pop_front takes from a non-empty free list, and what it leaves.
LEMMA PopFacts ==
    ASSUME NEW S, NEW s \in Seq(S), s # <<>>
    PROVE  /\ Len(s) \in Nat /\ Len(s) >= 1
           /\ Head(s) = s[1] /\ s[1] \in S
           /\ Tail(s) \in Seq(S) /\ Len(Tail(s)) = Len(s) - 1
           /\ \A i \in 1..Len(Tail(s)) : i + 1 \in 2..Len(s) /\ Tail(s)[i] = s[i + 1]
<1>1. Len(s) \in Nat /\ Len(s) >= 1
  BY EmptySeq, LenProperties
<1>2. Head(s) = s[1] /\ s[1] \in S
  BY <1>1, ElementOfSeq
<1>3. Tail(s) \in Seq(S) /\ Len(Tail(s)) = Len(s) - 1
  BY HeadTailProperties
<1>4. \A i \in 1..Len(Tail(s)) : Tail(s)[i] = s[i + 1]
  BY HeadTailProperties
<1> QED BY <1>1, <1>2, <1>3, <1>4

\* The allocator made by new satisfies the invariant.
LEMMA InitInv == Init => IInv
<1> SUFFICES ASSUME Init PROVE IInv
  OBVIOUS
<1>1. \A m \in Multiples : list[m] = <<>> /\ Len(list[m]) = 0
  BY EmptySeq DEF Init
<1>2. list \in [Multiples -> Seq(Addresses)]
  BY EmptySeq DEF Init
<1>3. content \in [Addresses -> {"zero", "node", "data"}]
  BY DEF Init
<1>4. TypeOK /\ Sum
  <2>1. current_start \in 0..Pages /\ current_size \in 0..Pages /\ Sum
    BY PageAllocatorAssumption DEF Init, Sum
  <2>2. bitmaps \subseteq Multiples /\ panicked \in BOOLEAN
        /\ live \subseteq [start : Addresses, size : Nat \ {0}]
    BY Zenon DEF Init
  <2> QED BY <1>2, <1>3, <2>1, <2>2 DEF TypeOK
<1>5. NoOverlap
  <2>1. live = {} /\ \A m \in Multiples : 1..Len(list[m]) = {}
    BY <1>1 DEF Init
  <2> QED BY <2>1 DEF NoOverlap
<1> QED BY <1>4, <1>5 DEF IInv

\* What TypeOK says of the lists and blocks, in the form the proofs use.
LEMMA Types ==
    ASSUME TypeOK
    PROVE  /\ \A m \in Multiples : list[m] \in Seq(Addresses) /\ Len(list[m]) \in Nat /\ m \in Nat \ {0}
           /\ \A m \in Multiples : \A i \in 1..Len(list[m]) : list[m][i] \in Addresses
           /\ \A b \in live : b.start \in Addresses /\ b.size \in Nat \ {0}
           /\ current_start \in Nat /\ current_size \in Nat /\ Pages \in Nat
<1>1. \A m \in Multiples : list[m] \in Seq(Addresses)
  BY DEF TypeOK
<1>2. \A m \in Multiples : Len(list[m]) \in Nat
  BY <1>1, LenProperties
<1>3. \A m \in Multiples : \A i \in 1..Len(list[m]) : list[m][i] \in Addresses
  BY <1>1, ElementOfSeq
<1> QED BY <1>1, <1>2, <1>3, PageAllocatorAssumption DEF TypeOK, Multiples

\* A block cut off the untouched memory lies above all the others.
LEMMA AllocateNewInv ==
    ASSUME IInv, NEW m \in Wanted, AllocateNew(m)
    PROVE  IInv'
<1> USE DEF IInv
<1> DEFINE nb == Block(current_start, m)
<1>1. /\ m < current_size
      /\ current_start' = current_start + m
      /\ current_size' = current_size - m
      /\ content' = Zeroed(content, current_start, m)
      /\ live' = live \cup {nb}
      /\ list' = list /\ bitmaps' = bitmaps /\ panicked' = panicked
  BY DEF AllocateNew, HasRoom
<1>2. m \in Nat \ {0} /\ current_start \in Nat /\ current_size \in Nat /\ Pages \in Nat
      /\ current_start + current_size = Pages
  BY Types, PageAllocatorAssumption DEF Sum
<1>3. TypeOK'
  <2>1. current_start \in Addresses /\ current_start' \in 0..Pages /\ current_size' \in 0..Pages
    BY <1>1, <1>2 DEF Addresses
  <2>2. nb \in [start : Addresses, size : Nat \ {0}]
    BY <1>2, <2>1 DEF Block
  <2>3. content' \in [Addresses -> {"zero", "node", "data"}]
    BY <1>1 DEF TypeOK, Zeroed
  <2> QED BY <1>1, <2>1, <2>2, <2>3 DEF TypeOK
<1>4. Sum'
  BY <1>1, <1>2 DEF Sum
<1>5. /\ BlockPages(nb) \subseteq current_start..(current_start' - 1)
      /\ 0..(current_start - 1) \subseteq 0..(current_start' - 1)
      /\ BlockPages(nb) \subseteq 0..(current_start' - 1)
      /\ \A T : T \subseteq 0..(current_start - 1) => Disjoint(BlockPages(nb), T) /\ Disjoint(T, BlockPages(nb))
  BY <1>1, <1>2 DEF BlockPages, PagesOf, Block, Disjoint
<1> HIDE DEF nb
<1>6. \A n, i : FreePages(n, i)' = FreePages(n, i)
  BY <1>1 DEF FreePages
<1>7. NoOverlap'
  BY <1>1, <1>5, <1>6, Zenon DEF NoOverlap, BlockPages, PagesOf
<1> QED BY <1>3, <1>4, <1>7

\* The head of the list of m pages changes hands as it is.
LEMMA AllocateExactInv ==
    ASSUME IInv, NEW m \in Wanted, AllocateExact(m)
    PROVE  IInv'
<1> USE DEF IInv
<1>h. PICK h : h = list[m][1]
  OBVIOUS
<1>nb. PICK nb : nb = Block(h, m)
  OBVIOUS
<1>1. m \in Multiples /\ m \in Nat \ {0}
  BY PageAllocatorAssumption DEF AllocateExact, IsFirstAvailable, TypeOK, Multiples
<1>2. list[m] \in Seq(Addresses) /\ list[m] # <<>>
  BY <1>1, Types DEF AllocateExact
<1>3. /\ Len(list[m]) \in Nat /\ Len(list[m]) >= 1 /\ Head(list[m]) = h /\ h \in Addresses
      /\ Tail(list[m]) \in Seq(Addresses) /\ Len(Tail(list[m])) = Len(list[m]) - 1
      /\ \A i \in 1..Len(Tail(list[m])) :
           i + 1 \in 2..Len(list[m]) /\ Tail(list[m])[i] = list[m][i + 1]
  BY <1>2, <1>h, PopFacts
<1>4. /\ list' = [list EXCEPT ![m] = Tail(@)]
      /\ bitmaps' \subseteq bitmaps
      /\ content' = Zeroed(content, h, m)
      /\ live' = live \cup {nb}
      /\ UNCHANGED <<current_start, current_size, panicked>>
  BY <1>3, <1>nb DEF AllocateExact, BitCleared
<1>5. list'[m] = Tail(list[m]) /\ \A n \in Multiples : n # m => list'[n] = list[n]
  BY <1>1, <1>4 DEF TypeOK
<1>6. BlockPages(nb) = FreePages(m, 1)
  BY <1>h, <1>nb DEF BlockPages, FreePages, Block
<1>7. TypeOK'
  <2>1. nb \in [start : Addresses, size : Nat \ {0}]
    BY <1>1, <1>3, <1>nb DEF Block
  <2>2. content' \in [Addresses -> {"zero", "node", "data"}]
    BY <1>4 DEF TypeOK, Zeroed
  <2>3. list' \in [Multiples -> Seq(Addresses)]
    BY <1>1, <1>3, <1>4 DEF TypeOK
  <2> QED BY <1>4, <2>1, <2>2, <2>3 DEF TypeOK
<1> DEFINE old(n, i) == IF n = m THEN i + 1 ELSE i
<1>8. \A n \in Multiples : \A i \in 1..Len(list'[n]) :
        /\ old(n, i) \in 1..Len(list[n])
        /\ FreePages(n, i)' = FreePages(n, old(n, i))
        /\ <<n, old(n, i)>> # <<m, 1>>
  <2> SUFFICES ASSUME NEW n \in Multiples, NEW i \in 1..Len(list'[n])
               PROVE  /\ old(n, i) \in 1..Len(list[n])
                      /\ list'[n][i] = list[n][old(n, i)]
                      /\ <<n, old(n, i)>> # <<m, 1>>
    BY DEF FreePages
  <2>1. CASE n = m
    <3>0. old(n, i) = i + 1 /\ i \in 1..Len(Tail(list[m]))
      BY <1>5, <2>1
    <3>1. old(n, i) = i + 1 /\ i \in 1..Len(Tail(list[m])) /\ i \in Nat \ {0}
      BY <1>3, <3>0
    <3>2. i + 1 \in 1..Len(list[m]) /\ i + 1 # 1 /\ list'[m][i] = list[m][i + 1]
      BY <1>3, <1>5, <3>1
    <3> HIDE DEF old
    <3> QED BY <2>1, <3>1, <3>2
  <2>2. CASE n # m
    BY <1>5, <2>2
  <2> QED BY <2>1, <2>2
<1>9. \A n, k \in Multiples : \A i \in 1..Len(list'[n]), j \in 1..Len(list'[k]) :
        <<n, i>> # <<k, j>> => <<n, old(n, i)>> # <<k, old(k, j)>>
  BY <1>3, <1>5
<1>10. 1 \in 1..Len(list[m])
  BY <1>3
<1> HIDE DEF old
<1>11. \A b \in live' : BlockPages(b) \subseteq 0..(current_start' - 1)
  BY <1>1, <1>4, <1>6, <1>10 DEF NoOverlap
<1>12. \A n \in Multiples : \A i \in 1..Len(list'[n]) :
         FreePages(n, i)' \subseteq 0..(current_start' - 1)
  BY <1>4, <1>8 DEF NoOverlap
<1>13. \A b, c \in live' : b # c => Disjoint(BlockPages(b), BlockPages(c))
  BY <1>1, <1>4, <1>6, <1>10 DEF NoOverlap, Disjoint
<1>14. \A n, k \in Multiples : \A i \in 1..Len(list'[n]), j \in 1..Len(list'[k]) :
         <<n, i>> # <<k, j>> => Disjoint(FreePages(n, i)', FreePages(k, j)')
  <2> SUFFICES ASSUME NEW n \in Multiples, NEW k \in Multiples, NEW i \in 1..Len(list'[n]),
                      NEW j \in 1..Len(list'[k]), <<n, i>> # <<k, j>>
               PROVE  Disjoint(FreePages(n, i)', FreePages(k, j)')
    OBVIOUS
  <2>1. /\ old(n, i) \in 1..Len(list[n]) /\ old(k, j) \in 1..Len(list[k])
        /\ <<n, old(n, i)>> # <<k, old(k, j)>>
    BY <1>8, <1>9
  <2>2. Disjoint(FreePages(n, old(n, i)), FreePages(k, old(k, j)))
    BY <2>1 DEF NoOverlap
  <2> QED BY <1>8, <2>2
<1>15. \A b \in live' : \A n \in Multiples : \A i \in 1..Len(list'[n]) :
         Disjoint(BlockPages(b), FreePages(n, i)')
  <2> SUFFICES ASSUME NEW b \in live', NEW n \in Multiples, NEW i \in 1..Len(list'[n])
               PROVE  BlockPages(b) \cap FreePages(n, i)' = {}
    BY DEF Disjoint
  <2>1. CASE b = nb
    <3>1. <<m, 1>> # <<n, old(n, i)>>
      BY <1>8
    <3>2. FreePages(m, 1) \cap FreePages(n, old(n, i)) = {}
      BY <1>1, <1>8, <1>10, <3>1, Zenon DEF NoOverlap, Disjoint
    <3> QED BY <1>6, <1>8, <2>1, <3>2
  <2>2. CASE b \in live
    <3>1. BlockPages(b) \cap FreePages(n, old(n, i)) = {}
      BY <1>8, <2>2, Zenon DEF NoOverlap, Disjoint
    <3> QED BY <1>8, <2>2, <3>1
  <2> QED BY <1>4, <2>1, <2>2
<1>16. NoOverlap'
  BY <1>11, <1>12, <1>13, <1>14, <1>15 DEF NoOverlap
<1>17. Sum'
  BY <1>4 DEF Sum
<1> QED BY <1>7, <1>16, <1>17

\* The head of the list of v pages is cut in two: the first m pages change hands,
\* the others become the last free block of v - m pages.
LEMMA AllocateSplitInv ==
    ASSUME IInv, NEW m \in Wanted, NEW v \in Multiples, AllocateSplit(m, v)
    PROVE  IInv'
<1> USE DEF IInv
<1>h. PICK h : h = list[v][1]
  OBVIOUS
<1>nb. PICK nb : nb = Block(h, m)
  OBVIOUS
<1>k. PICK k : k = v - m
  OBVIOUS
<1>l. PICK last : last = Len(list[k]) + 1
  OBVIOUS
<1>1. m \in Nat \ {0} /\ v \in Nat /\ v > m /\ k \in Multiples /\ k \in Nat \ {0} /\ k # v /\ m + k = v
  BY PageAllocatorAssumption, <1>k DEF AllocateSplit, Multiples
<1>2. list[v] \in Seq(Addresses) /\ list[v] # <<>> /\ list[k] \in Seq(Addresses)
      /\ last \in Nat \ {0}
  BY <1>1, <1>l, Types DEF AllocateSplit
<1>3. /\ Len(list[v]) \in Nat /\ Len(list[v]) >= 1 /\ Head(list[v]) = h /\ h \in Addresses
      /\ Tail(list[v]) \in Seq(Addresses) /\ Len(Tail(list[v])) = Len(list[v]) - 1
      /\ \A i \in 1..Len(Tail(list[v])) :
           i + 1 \in 2..Len(list[v]) /\ Tail(list[v])[i] = list[v][i + 1]
  BY <1>2, <1>h, PopFacts
<1>4. /\ list' = [list EXCEPT ![v] = Tail(@), ![k] = Append(@, h + m)]
      /\ bitmaps' \subseteq bitmaps \cup {k}
      /\ content' = Zeroed(NodeWritten(content, h + m), h, m)
      /\ live' = live \cup {nb}
      /\ UNCHANGED <<current_start, current_size, panicked>>
  BY <1>3, <1>nb, <1>k DEF AllocateSplit, BitCleared, NotNeededAddr, NotNeededMultiple
<1>5. 1 \in 1..Len(list[v])
  BY <1>3
<1>6. FreePages(v, 1) = h..(h + v - 1) /\ FreePages(v, 1) \subseteq 0..(current_start - 1)
  <2>1. FreePages(v, 1) \subseteq 0..(current_start - 1)
    BY <1>5 DEF NoOverlap
  <2> QED BY <2>1, <1>h DEF FreePages, PagesOf
<1>7. h \in Nat /\ h + m \in Addresses
  <2>1. h \in Nat /\ current_start \in Nat /\ current_start <= Pages /\ Pages \in Nat
    BY <1>3, Types DEF Addresses, TypeOK
  <2>2. h + v - 1 \in h..(h + v - 1)
    BY <1>1, <2>1
  <2>3. h + v - 1 <= current_start - 1
    BY <1>6, <2>1, <2>2
  <2> QED BY <1>1, <2>1, <2>3 DEF Addresses
<1>8. /\ BlockPages(nb) \subseteq FreePages(v, 1)
      /\ PagesOf(h + m, k) \subseteq FreePages(v, 1)
      /\ BlockPages(nb) \cap PagesOf(h + m, k) = {}
  <2>1. BlockPages(nb) = h..(h + m - 1) /\ PagesOf(h + m, k) = (h + m)..(h + v - 1)
    BY <1>nb, <1>1, <1>7 DEF BlockPages, Block, PagesOf
  <2> QED BY <1>1, <1>6, <1>7, <2>1
<1>9. /\ list'[v] = Tail(list[v])
      /\ list'[k] = Append(list[k], h + m)
      /\ \A n \in Multiples : n # v /\ n # k => list'[n] = list[n]
  BY <1>1, <1>4 DEF TypeOK
<1>10. /\ list'[k] \in Seq(Addresses) /\ Len(list'[k]) = last /\ list'[k][last] = h + m
       /\ \A i \in 1..(last - 1) : list'[k][i] = list[k][i]
       /\ Len(list[k]) = last - 1
  <2>1. /\ list'[k] \in Seq(Addresses) /\ Len(list'[k]) = Len(list[k]) + 1
        /\ \A i \in 1..Len(list[k]) : list'[k][i] = list[k][i]
        /\ list'[k][Len(list[k]) + 1] = h + m
    BY <1>2, <1>7, <1>9, AppendProperties
  <2>2. Len(list[k]) = last - 1
    BY <1>2, <1>l, LenProperties
  <2> QED BY <1>l, <2>1, <2>2
<1>11. TypeOK'
  <2>1. nb \in [start : Addresses, size : Nat \ {0}]
    BY <1>1, <1>3, <1>nb DEF Block
  <2>2. content' \in [Addresses -> {"zero", "node", "data"}]
    BY <1>4, <1>7 DEF TypeOK, Zeroed, NodeWritten
  <2>3. list' \in [Multiples -> Seq(Addresses)]
    <3>1. Append(list[k], h + m) \in Seq(Addresses)
      BY <1>9, <1>10
    <3> QED BY <1>1, <1>3, <1>4, <3>1 DEF TypeOK
  <2>4. bitmaps' \subseteq Multiples
    BY <1>1, <1>4 DEF TypeOK
  <2> QED BY <1>4, <2>1, <2>2, <2>3, <2>4 DEF TypeOK
<1> DEFINE old(n, i) == IF n = v THEN i + 1 ELSE i
<1>12. FreePages(k, last)' = PagesOf(h + m, k)
  BY <1>10 DEF FreePages
<1>13. ASSUME NEW n \in Multiples, NEW i \in 1..Len(list'[n]), <<n, i>> # <<k, last>>
       PROVE  /\ old(n, i) \in 1..Len(list[n])
              /\ FreePages(n, i)' = FreePages(n, old(n, i))
              /\ <<n, old(n, i)>> # <<v, 1>>
  <2> SUFFICES /\ old(n, i) \in 1..Len(list[n])
               /\ list'[n][i] = list[n][old(n, i)]
               /\ <<n, old(n, i)>> # <<v, 1>>
    BY DEF FreePages
  <2>1. CASE n = v
    <3>0. old(n, i) = i + 1 /\ i \in 1..Len(Tail(list[v]))
      BY <1>9, <2>1
    <3>1. i \in Nat \ {0}
      BY <1>3, <3>0
    <3>2. i + 1 \in 1..Len(list[v]) /\ i + 1 # 1 /\ list'[v][i] = list[v][i + 1]
      BY <1>3, <1>9, <3>0, <3>1
    <3> HIDE DEF old
    <3> QED BY <2>1, <3>0, <3>2
  <2>2. CASE n = k
    <3>1. i \in 1..last /\ i # last
      BY <1>10, <1>13, <2>2
    <3>2. i \in 1..(last - 1)
      BY <1>2, <3>1
    <3> QED BY <1>1, <1>10, <2>2, <3>2
  <2>3. CASE n # v /\ n # k
    BY <1>9, <2>3
  <2> QED BY <2>1, <2>2, <2>3
<1>14. ASSUME NEW n \in Multiples, NEW i \in 1..Len(list'[n]),
              NEW c \in Multiples, NEW j \in 1..Len(list'[c]), <<n, i>> # <<c, j>>
       PROVE  <<n, old(n, i)>> # <<c, old(c, j)>>
  <2>1. \A n1 \in Multiples : Len(list'[n1]) \in Nat
    BY <1>11, LenProperties DEF TypeOK
  <2>2. i \in Nat /\ j \in Nat
    BY <2>1
  <2> QED BY <1>14, <2>2
<1> HIDE DEF old
<1>15. \A b \in live' : BlockPages(b) \subseteq 0..(current_start' - 1)
  BY <1>4, <1>6, <1>8 DEF NoOverlap
<1>16. \A n \in Multiples : \A i \in 1..Len(list'[n]) :
         FreePages(n, i)' \subseteq 0..(current_start' - 1)
  <2> TAKE n \in Multiples
  <2> TAKE i \in 1..Len(list'[n])
  <2>1. CASE <<n, i>> = <<k, last>>
    <3>1. FreePages(n, i)' = PagesOf(h + m, k)
      BY <1>12, <2>1
    <3> QED BY <1>4, <1>6, <1>8, <3>1
  <2>2. CASE <<n, i>> # <<k, last>>
    <3>1. old(n, i) \in 1..Len(list[n]) /\ FreePages(n, i)' = FreePages(n, old(n, i))
      BY <1>13, <2>2
    <3>2. FreePages(n, old(n, i)) \subseteq 0..(current_start - 1)
      BY <3>1 DEF NoOverlap
    <3> QED BY <1>4, <3>1, <3>2
  <2> QED BY <2>1, <2>2
<1>17. \A b, c \in live' : b # c => Disjoint(BlockPages(b), BlockPages(c))
  <2>1. \A b \in live : Disjoint(BlockPages(b), FreePages(v, 1))
    BY <1>5 DEF NoOverlap
  <2>2. \A b \in live : Disjoint(BlockPages(b), BlockPages(nb)) /\ Disjoint(BlockPages(nb), BlockPages(b))
    BY <1>8, <2>1 DEF Disjoint
  <2> QED BY <1>4, <2>2 DEF NoOverlap
<1>18. ASSUME NEW n \in Multiples, NEW i \in 1..Len(list'[n]), <<n, i>> # <<k, last>>,
              NEW T, T \subseteq FreePages(v, 1)
       PROVE  Disjoint(FreePages(n, i)', T) /\ Disjoint(T, FreePages(n, i)')
  <2>1. Disjoint(FreePages(n, old(n, i)), FreePages(v, 1))
    BY <1>5, <1>13, <1>18 DEF NoOverlap
  <2> QED BY <1>13, <1>18, <2>1 DEF Disjoint
<1>19. \A n, c \in Multiples : \A i \in 1..Len(list'[n]), j \in 1..Len(list'[c]) :
         <<n, i>> # <<c, j>> => Disjoint(FreePages(n, i)', FreePages(c, j)')
  <2> SUFFICES ASSUME NEW n \in Multiples, NEW c \in Multiples, NEW i \in 1..Len(list'[n]),
                      NEW j \in 1..Len(list'[c]), <<n, i>> # <<c, j>>
               PROVE  Disjoint(FreePages(n, i)', FreePages(c, j)')
    OBVIOUS
  <2>1. CASE <<n, i>> = <<k, last>>
    <3>1. n = k /\ i = last /\ <<c, j>> # <<k, last>>
      BY <2>1
    <3> QED BY <1>8, <1>12, <1>18, <3>1
  <2>2. CASE <<c, j>> = <<k, last>>
    <3>1. c = k /\ j = last /\ <<n, i>> # <<k, last>>
      BY <2>2
    <3> QED BY <1>8, <1>12, <1>18, <3>1
  <2>3. CASE <<n, i>> # <<k, last>> /\ <<c, j>> # <<k, last>>
    <3>1. /\ old(n, i) \in 1..Len(list[n]) /\ old(c, j) \in 1..Len(list[c])
          /\ FreePages(n, i)' = FreePages(n, old(n, i)) /\ FreePages(c, j)' = FreePages(c, old(c, j))
      BY <1>13, <2>3
    <3>2. <<n, old(n, i)>> # <<c, old(c, j)>>
      BY <1>14
    <3>3. Disjoint(FreePages(n, old(n, i)), FreePages(c, old(c, j)))
      BY <3>1, <3>2 DEF NoOverlap
    <3> QED BY <3>1, <3>3
  <2> QED BY <2>1, <2>2, <2>3
<1>20. \A b \in live' : \A n \in Multiples : \A i \in 1..Len(list'[n]) :
         Disjoint(BlockPages(b), FreePages(n, i)')
  <2> SUFFICES ASSUME NEW b \in live', NEW n \in Multiples, NEW i \in 1..Len(list'[n])
               PROVE  Disjoint(BlockPages(b), FreePages(n, i)')
    OBVIOUS
  <2>1. CASE b = nb /\ <<n, i>> = <<k, last>>
    <3>1. FreePages(n, i)' = PagesOf(h + m, k)
      BY <1>12, <2>1
    <3> QED BY <1>8, <2>1, <3>1 DEF Disjoint
  <2>2. CASE b = nb /\ <<n, i>> # <<k, last>>
    BY <1>8, <1>18, <2>2
  <2>3. CASE b \in live /\ <<n, i>> = <<k, last>>
    <3>1. Disjoint(BlockPages(b), FreePages(v, 1))
      BY <1>5, <2>3 DEF NoOverlap
    <3> QED BY <1>8, <1>12, <2>3, <3>1 DEF Disjoint
  <2>4. CASE b \in live /\ <<n, i>> # <<k, last>>
    <3>1. Disjoint(BlockPages(b), FreePages(n, old(n, i)))
      BY <1>13, <2>4 DEF NoOverlap
    <3> QED BY <1>13, <2>4, <3>1
  <2> QED BY <1>4, <2>1, <2>2, <2>3, <2>4
<1>21. NoOverlap'
  BY <1>15, <1>16, <1>17, <1>19, <1>20 DEF NoOverlap
<1>22. Sum'
  BY <1>4 DEF Sum
<1> QED BY <1>11, <1>21, <1>22

\* A block that is given back becomes the last free block of its size.
LEMMA DeallocateInv ==
    ASSUME IInv, NEW b \in live, b.size \in Freed, deallocate(b)
    PROVE  IInv'
<1> USE DEF IInv
<1>k. PICK k : k = b.size
  OBVIOUS
<1>l. PICK last : last = Len(list[k]) + 1
  OBVIOUS
<1>1. k \in Multiples /\ b.start \in Addresses
  BY <1>k, Types, PageAllocatorAssumption DEF deallocate, Multiples
<1>2. list[k] \in Seq(Addresses) /\ last \in Nat \ {0} /\ Len(list[k]) = last - 1
  BY <1>1, <1>l, Types
<1>3. /\ live' = live \ {b}
      /\ content' = NodeWritten(content, b.start)
      /\ list' = [list EXCEPT ![k] = Append(@, b.start)]
      /\ bitmaps' = bitmaps \cup {k}
      /\ UNCHANGED <<current_start, current_size, panicked>>
  BY <1>k DEF deallocate
<1>4. list'[k] = Append(list[k], b.start) /\ \A n \in Multiples : n # k => list'[n] = list[n]
  BY <1>1, <1>3 DEF TypeOK
<1>5. /\ list'[k] \in Seq(Addresses) /\ Len(list'[k]) = last /\ list'[k][last] = b.start
      /\ \A i \in 1..(last - 1) : list'[k][i] = list[k][i]
  BY <1>1, <1>2, <1>4, <1>l, AppendProperties
<1>6. TypeOK'
  <2>1. content' \in [Addresses -> {"zero", "node", "data"}]
    BY <1>1, <1>3 DEF TypeOK, NodeWritten
  <2>2. list' \in [Multiples -> Seq(Addresses)]
    <3>1. Append(list[k], b.start) \in Seq(Addresses)
      BY <1>4, <1>5
    <3> QED BY <1>1, <1>3, <3>1 DEF TypeOK
  <2> QED BY <1>1, <1>3, <2>1, <2>2 DEF TypeOK
<1>7. FreePages(k, last)' = BlockPages(b)
  BY <1>5, <1>k DEF FreePages, BlockPages
<1>8. ASSUME NEW n \in Multiples, NEW i \in 1..Len(list'[n]), <<n, i>> # <<k, last>>
      PROVE  i \in 1..Len(list[n]) /\ FreePages(n, i)' = FreePages(n, i)
  <2>1. CASE n = k
    <3>1. i \in 1..last /\ i # last
      BY <1>5, <1>8, <2>1
    <3>2. i \in 1..(last - 1)
      BY <1>2, <3>1
    <3> QED BY <1>2, <1>5, <2>1, <3>2 DEF FreePages
  <2>2. CASE n # k
    BY <1>4, <2>2 DEF FreePages
  <2> QED BY <2>1, <2>2
<1>9. \A c \in live' : BlockPages(c) \subseteq 0..(current_start' - 1)
  BY <1>3 DEF NoOverlap
<1>10. \A n \in Multiples : \A i \in 1..Len(list'[n]) :
         FreePages(n, i)' \subseteq 0..(current_start' - 1)
  <2> TAKE n \in Multiples
  <2> TAKE i \in 1..Len(list'[n])
  <2>1. CASE <<n, i>> = <<k, last>>
    <3>1. FreePages(n, i)' = BlockPages(b)
      BY <1>7, <2>1
    <3> QED BY <1>3, <3>1 DEF NoOverlap
  <2>2. CASE <<n, i>> # <<k, last>>
    <3>1. i \in 1..Len(list[n]) /\ FreePages(n, i)' = FreePages(n, i)
      BY <1>8, <2>2
    <3> QED BY <1>3, <3>1 DEF NoOverlap
  <2> QED BY <2>1, <2>2
<1>11. \A c, d \in live' : c # d => Disjoint(BlockPages(c), BlockPages(d))
  BY <1>3 DEF NoOverlap
<1>12. \A n, c \in Multiples : \A i \in 1..Len(list'[n]), j \in 1..Len(list'[c]) :
         <<n, i>> # <<c, j>> => Disjoint(FreePages(n, i)', FreePages(c, j)')
  <2> SUFFICES ASSUME NEW n \in Multiples, NEW c \in Multiples, NEW i \in 1..Len(list'[n]),
                      NEW j \in 1..Len(list'[c]), <<n, i>> # <<c, j>>
               PROVE  Disjoint(FreePages(n, i)', FreePages(c, j)')
    OBVIOUS
  <2>1. CASE <<n, i>> = <<k, last>>
    <3>1. FreePages(n, i)' = BlockPages(b) /\ <<c, j>> # <<k, last>>
      BY <1>7, <2>1
    <3>2. j \in 1..Len(list[c]) /\ FreePages(c, j)' = FreePages(c, j)
      BY <1>8, <3>1
    <3> QED BY <3>1, <3>2 DEF NoOverlap
  <2>2. CASE <<c, j>> = <<k, last>>
    <3>1. FreePages(c, j)' = BlockPages(b) /\ <<n, i>> # <<k, last>>
      BY <1>7, <2>2
    <3>2. i \in 1..Len(list[n]) /\ FreePages(n, i)' = FreePages(n, i)
      BY <1>8, <3>1
    <3>3. Disjoint(BlockPages(b), FreePages(n, i))
      BY <3>2 DEF NoOverlap
    <3> QED BY <3>1, <3>2, <3>3 DEF Disjoint
  <2>3. CASE <<n, i>> # <<k, last>> /\ <<c, j>> # <<k, last>>
    <3>1. i \in 1..Len(list[n]) /\ FreePages(n, i)' = FreePages(n, i)
      BY <1>8, <2>3
    <3>2. j \in 1..Len(list[c]) /\ FreePages(c, j)' = FreePages(c, j)
      BY <1>8, <2>3
    <3> QED BY <3>1, <3>2 DEF NoOverlap
  <2> QED BY <2>1, <2>2, <2>3
<1>13. \A c \in live' : \A n \in Multiples : \A i \in 1..Len(list'[n]) :
         Disjoint(BlockPages(c), FreePages(n, i)')
  <2> SUFFICES ASSUME NEW c \in live', NEW n \in Multiples, NEW i \in 1..Len(list'[n])
               PROVE  Disjoint(BlockPages(c), FreePages(n, i)')
    OBVIOUS
  <2>1. c \in live /\ c # b
    BY <1>3
  <2>2. CASE <<n, i>> = <<k, last>>
    <3>1. FreePages(n, i)' = BlockPages(b)
      BY <1>7, <2>2
    <3> QED BY <2>1, <3>1 DEF NoOverlap
  <2>3. CASE <<n, i>> # <<k, last>>
    <3>1. i \in 1..Len(list[n]) /\ FreePages(n, i)' = FreePages(n, i)
      BY <1>8, <2>3
    <3> QED BY <2>1, <3>1 DEF NoOverlap
  <2> QED BY <2>2, <2>3
<1>14. NoOverlap'
  BY <1>9, <1>10, <1>11, <1>12, <1>13 DEF NoOverlap
<1>15. Sum'
  BY <1>3 DEF Sum
<1> QED BY <1>6, <1>14, <1>15

\* The other steps leave lists and blocks alone.
LEMMA QuietInv ==
    ASSUME IInv,
           \/ \E m \in Wanted : AllocatePanics(m) \/ AllocateNone(m)
           \/ \E b \in live : ClientWrites(b)
           \/ UNCHANGED vars
    PROVE  IInv'
<1> USE DEF IInv
<1>1. /\ UNCHANGED <<bitmaps, list, current_start, current_size, live>>
      /\ panicked' \in BOOLEAN
      /\ content' \in [Addresses -> {"zero", "node", "data"}]
  <2>1. CASE \E m \in Wanted : AllocatePanics(m) \/ AllocateNone(m)
    BY <2>1 DEF AllocatePanics, AllocateNone, vars, state, TypeOK
  <2>2. CASE \E b \in live : ClientWrites(b)
    BY <2>2 DEF ClientWrites, state, TypeOK
  <2>3. CASE UNCHANGED vars
    BY <2>3 DEF vars, TypeOK
  <2> QED BY <2>1, <2>2, <2>3
<1>2. TypeOK' /\ Sum'
  BY <1>1 DEF TypeOK, Sum
<1>3. \A n, i : FreePages(n, i)' = FreePages(n, i)
  BY <1>1 DEF FreePages
<1>4. NoOverlap'
  BY <1>1, <1>3 DEF NoOverlap
<1> QED BY <1>2, <1>4

\* Every step of allocator and clients preserves the invariant.
LEMMA NextInv == IInv /\ [Next]_vars => IInv'
<1> SUFFICES ASSUME IInv, [Next]_vars PROVE IInv'
  OBVIOUS
<1>1. ASSUME NEW m \in Wanted, allocate(m) PROVE IInv'
  BY <1>1, AllocateExactInv, AllocateSplitInv, AllocateNewInv, QuietInv DEF allocate
<1>2. ASSUME NEW b \in live, b.size \in Freed, deallocate(b) PROVE IInv'
  BY <1>2, DeallocateInv
<1>3. CASE (\E b \in live : ClientWrites(b)) \/ Halted \/ UNCHANGED vars
  BY <1>3, QuietInv DEF Halted
<1> QED BY <1>1, <1>2, <1>3 DEF Next

-----------------------------------------------------------------------------
(* The theorems *)

\* The types of the allocator's state, and the blocks' disjointness with them.
THEOREM Invariant == Spec => []IInv
<1> QED BY InitInv, NextInv, PTL DEF Spec

\* The allocator's state keeps its types: no block starts or ends outside the
\* memory it was given.
THEOREM TypeCorrectness == Spec => []TypeOK
<1>1. IInv => TypeOK
  BY DEF IInv
<1> QED BY <1>1, Invariant, PTL

\* No page has two owners, for every amount of memory, every set of sizes and
\* every sequence of calls (allocate and deallocate).
THEOREM BlocksNeverOverlap == Spec => []NoOverlap
<1>1. IInv => NoOverlap
  BY DEF IInv
<1> QED BY <1>1, Invariant, PTL

-----------------------------------------------------------------------------
(* A system that gives back single pages only *)

\* The only list ever used is that of single pages, and its bit is right.
SinglesInv ==
    /\ bitmaps \subseteq {1}
    /\ 1 \in bitmaps => list[1] # <<>>
    /\ ~panicked

\* With single pages given back only, no step marks another list than that of single
\* pages, marks it while it is empty, or panics.
LEMMA SinglesNext ==
    ASSUME Freed \subseteq {1}, IInv, SinglesInv, [Next]_vars
    PROVE  SinglesInv'
<1> USE DEF SinglesInv
<1>1. list \in [Multiples -> Seq(Addresses)] /\ 1 \in Multiples
  BY PageAllocatorAssumption DEF IInv, TypeOK, Multiples
<1>2. ASSUME NEW m \in Wanted, AllocateExact(m) PROVE SinglesInv'
  <2>1. m = 1
    BY <1>2 DEF AllocateExact, IsFirstAvailable
  <2> QED BY <1>1, <1>2, <2>1 DEF AllocateExact, BitCleared
<1>3. ASSUME NEW m \in Wanted, NEW v \in Multiples, AllocateSplit(m, v) PROVE FALSE
  <2>1. v = 1 /\ v > m /\ m \in Nat \ {0}
    BY <1>3, PageAllocatorAssumption DEF AllocateSplit, IsFirstAvailable
  <2> QED BY <2>1
<1>4. ASSUME NEW m \in Wanted, AllocatePanics(m) PROVE FALSE
  BY <1>4 DEF AllocatePanics, IsFirstAvailable
<1>5. ASSUME NEW m \in Wanted, AllocateNew(m) \/ AllocateNone(m) PROVE SinglesInv'
  BY <1>5 DEF AllocateNew, AllocateNone, vars
<1>6. ASSUME NEW b \in live, b.size \in Freed, deallocate(b) PROVE SinglesInv'
  <2>1. b.size = 1 /\ b.start \in Addresses
    BY <1>6, Types DEF deallocate, IInv
  <2>2. Append(list[1], b.start) # <<>>
    BY <1>1, <2>1, AppendProperties
  <2> QED BY <1>1, <1>6, <2>1, <2>2 DEF deallocate
<1>7. ASSUME NEW b \in live, ClientWrites(b) PROVE SinglesInv'
  BY <1>7 DEF ClientWrites, state
<1>8. CASE Halted \/ UNCHANGED vars
  <2>1. UNCHANGED <<bitmaps, list, panicked>>
    BY <1>8 DEF Halted, vars
  <2> QED BY <2>1, Zenon
<1> QED
  BY <1>2, <1>3, <1>4, <1>5, <1>6, <1>7, <1>8 DEF Next, allocate

\* allocate never unwraps an empty list in a system that gives back pages one by
\* one, however much memory it has and whatever sizes it asks for: so does this
\* kernel, where only recursive_clean gives pages back.
THEOREM SinglePagesNeverPanic ==
    ASSUME Freed \subseteq {1}
    PROVE  Spec => []NeverPanics
<1>1. Init => SinglesInv
  BY DEF Init, SinglesInv
<1>2. SinglesInv => NeverPanics
  BY DEF SinglesInv, NeverPanics
<1>3. IInv /\ SinglesInv /\ [Next]_vars => SinglesInv'
  BY SinglesNext
<1> QED BY <1>1, <1>2, <1>3, Invariant, PTL DEF Spec

-----------------------------------------------------------------------------
(* Where the free blocks of a step come from and where they go *)

\* pop_front loses the head and nothing else.
LEMMA PopKeeps ==
    ASSUME NEW S, NEW s \in Seq(S), s # <<>>
    PROVE  /\ \A i \in 1..Len(Tail(s)) : \E j \in 1..Len(s) : j # 1 /\ Tail(s)[i] = s[j]
           /\ \A j \in 1..Len(s) : j # 1 => \E i \in 1..Len(Tail(s)) : Tail(s)[i] = s[j]
<1>1. /\ Len(s) \in Nat /\ Len(Tail(s)) = Len(s) - 1
      /\ \A i \in 1..Len(Tail(s)) : i + 1 \in 2..Len(s) /\ Tail(s)[i] = s[i + 1]
  BY PopFacts
<1>2. ASSUME NEW i \in 1..Len(Tail(s))
      PROVE  \E j \in 1..Len(s) : j # 1 /\ Tail(s)[i] = s[j]
  <2>1. i + 1 \in 1..Len(s) /\ i + 1 # 1 /\ Tail(s)[i] = s[i + 1]
    BY <1>1
  <2> QED BY <2>1
<1>3. ASSUME NEW j \in 1..Len(s), j # 1
      PROVE  \E i \in 1..Len(Tail(s)) : Tail(s)[i] = s[j]
  <2>1. j - 1 \in 1..Len(Tail(s)) /\ (j - 1) + 1 = j
    BY <1>1, <1>3
  <2>2. Tail(s)[j - 1] = s[j]
    BY <1>1, <2>1
  <2> QED BY <2>1, <2>2
<1> QED BY <1>2, <1>3

\* push_front puts one block behind the others.
LEMMA PushKeeps ==
    ASSUME NEW S, NEW s \in Seq(S), NEW e \in S, NEW t, t = Append(s, e)
    PROVE  /\ \E i \in 1..Len(t) : t[i] = e
           /\ \A i \in 1..Len(t) : t[i] = e \/ \E j \in 1..Len(s) : t[i] = s[j]
           /\ \A j \in 1..Len(s) : \E i \in 1..Len(t) : t[i] = s[j]
<1>1. /\ Len(s) \in Nat /\ Len(t) = Len(s) + 1
      /\ \A i \in 1..Len(s) : t[i] = s[i]
      /\ t[Len(s) + 1] = e
  BY AppendProperties, LenProperties
<1>2. Len(s) + 1 \in 1..Len(t)
  BY <1>1
<1>3. ASSUME NEW i \in 1..Len(t)
      PROVE  t[i] = e \/ \E j \in 1..Len(s) : t[i] = s[j]
  <2>1. i = Len(s) + 1 \/ i \in 1..Len(s)
    BY <1>1
  <2> QED BY <1>1, <2>1
<1>4. \A j \in 1..Len(s) : j \in 1..Len(t)
  BY <1>1
<1> QED BY <1>1, <1>2, <1>3, <1>4

\* An address is the start of a free block of n pages.
Starts(l, n, a) == \E i \in 1..Len(l[n]) : l[n][i] = a

\* allocate with a block of the size wanted: that block is gone from the lists, and
\* the free blocks that are left are others.
LEMMA ExactBlocks ==
    ASSUME IInv, NEW m \in Wanted, AllocateExact(m)
    PROVE  \E h \in Addresses :
             /\ m \in Multiples /\ 1 \in 1..Len(list[m]) /\ h = list[m][1]
             /\ content' = Zeroed(content, h, m)
             /\ live' = live \cup {Block(h, m)}
             /\ UNCHANGED <<current_start, current_size>>
             /\ \A n \in Multiples : \A i \in 1..Len(list'[n]) :
                  \E j \in 1..Len(list[n]) : <<n, j>> # <<m, 1>> /\ list'[n][i] = list[n][j]
             /\ \A n \in Multiples : \A j \in 1..Len(list[n]) :
                  <<n, j>> # <<m, 1>> => Starts(list', n, list[n][j])
<1> USE DEF IInv
<1>1. m \in Multiples /\ list[m] \in Seq(Addresses) /\ list[m] # <<>>
  BY Types DEF AllocateExact, IsFirstAvailable, TypeOK
<1>2. Head(list[m]) = list[m][1] /\ list[m][1] \in Addresses /\ 1 \in 1..Len(list[m])
  BY <1>1, PopFacts
<1>3. /\ list' = [list EXCEPT ![m] = Tail(@)]
      /\ content' = Zeroed(content, list[m][1], m)
      /\ live' = live \cup {Block(list[m][1], m)}
      /\ UNCHANGED <<current_start, current_size>>
  BY <1>2 DEF AllocateExact
<1>4. list'[m] = Tail(list[m]) /\ \A n \in Multiples : n # m => list'[n] = list[n]
  BY <1>1, <1>3 DEF TypeOK
<1>5. /\ \A i \in 1..Len(list'[m]) : \E j \in 1..Len(list[m]) : j # 1 /\ list'[m][i] = list[m][j]
      /\ \A j \in 1..Len(list[m]) : j # 1 => Starts(list', m, list[m][j])
  BY <1>1, <1>4, PopKeeps DEF Starts
<1>6. ASSUME NEW n \in Multiples, NEW i \in 1..Len(list'[n])
      PROVE  \E j \in 1..Len(list[n]) : <<n, j>> # <<m, 1>> /\ list'[n][i] = list[n][j]
  <2>1. CASE n = m
    <3>1. PICK j \in 1..Len(list[m]) : j # 1 /\ list'[m][i] = list[m][j]
      BY <1>5, <2>1
    <3>2. <<n, j>> # <<m, 1>>
      BY <3>1
    <3> QED BY <2>1, <3>1, <3>2
  <2>2. CASE n # m
    <3>1. <<n, i>> # <<m, 1>> /\ i \in 1..Len(list[n]) /\ list'[n][i] = list[n][i]
      BY <1>4, <2>2
    <3> QED BY <3>1
  <2> QED BY <2>1, <2>2
<1>7. ASSUME NEW n \in Multiples, NEW j \in 1..Len(list[n]), <<n, j>> # <<m, 1>>
      PROVE  Starts(list', n, list[n][j])
  <2>1. CASE n = m
    <3>1. j # 1
      BY <1>7, <2>1
    <3> QED BY <1>5, <2>1, <3>1
  <2>2. CASE n # m
    BY <1>4, <2>2 DEF Starts
  <2> QED BY <2>1, <2>2
<1> QED BY <1>1, <1>2, <1>3, <1>6, <1>7

\* allocate with a larger block of v pages: the tail of that block is the one free
\* block that is new.
LEMMA SplitBlocks ==
    ASSUME IInv, NEW m \in Wanted, NEW v \in Multiples, AllocateSplit(m, v)
    PROVE  \E h \in Addresses, k \in Multiples :
             /\ 1 \in 1..Len(list[v]) /\ h = list[v][1] /\ m + k = v /\ h + m \in Addresses
             /\ content' = Zeroed(NodeWritten(content, h + m), h, m)
             /\ live' = live \cup {Block(h, m)}
             /\ UNCHANGED <<current_start, current_size>>
             /\ \A n \in Multiples : \A i \in 1..Len(list'[n]) :
                  \/ n = k /\ list'[n][i] = h + m
                  \/ \E j \in 1..Len(list[n]) : <<n, j>> # <<v, 1>> /\ list'[n][i] = list[n][j]
             /\ Starts(list', k, h + m)
             /\ \A n \in Multiples : \A j \in 1..Len(list[n]) :
                  <<n, j>> # <<v, 1>> => Starts(list', n, list[n][j])
<1> USE DEF IInv
<1>h. PICK h : h = list[v][1]
  OBVIOUS
<1>k. PICK k : k = v - m
  OBVIOUS
<1>1. m \in Nat \ {0} /\ v \in Nat /\ v > m /\ k \in Multiples /\ k # v /\ m + k = v
  BY PageAllocatorAssumption, <1>k DEF AllocateSplit, Multiples
<1>2. list[v] \in Seq(Addresses) /\ list[v] # <<>> /\ list[k] \in Seq(Addresses)
  BY <1>1, Types DEF AllocateSplit
<1>3. Head(list[v]) = h /\ h \in Addresses /\ 1 \in 1..Len(list[v])
  BY <1>2, <1>h, PopFacts
<1>4. /\ list' = [list EXCEPT ![v] = Tail(@), ![k] = Append(@, h + m)]
      /\ content' = Zeroed(NodeWritten(content, h + m), h, m)
      /\ live' = live \cup {Block(h, m)}
      /\ UNCHANGED <<current_start, current_size>>
  BY <1>3, <1>k DEF AllocateSplit, NotNeededAddr, NotNeededMultiple
<1>5. h + m \in Addresses
  <2>1. h \in Nat /\ current_start \in Nat /\ current_start <= Pages /\ Pages \in Nat
    BY <1>3, Types DEF Addresses, TypeOK
  <2>2. FreePages(v, 1) \subseteq 0..(current_start - 1)
    BY <1>3 DEF NoOverlap
  <2>3. h + v - 1 \in FreePages(v, 1)
    BY <1>1, <1>h, <2>1 DEF FreePages, PagesOf
  <2>4. h + v - 1 <= current_start - 1
    BY <2>1, <2>2, <2>3
  <2> QED BY <1>1, <2>1, <2>4 DEF Addresses
<1>6. /\ list'[v] = Tail(list[v])
      /\ list'[k] = Append(list[k], h + m)
      /\ \A n \in Multiples : n # v /\ n # k => list'[n] = list[n]
  BY <1>1, <1>4 DEF TypeOK
<1>7. /\ \A i \in 1..Len(list'[v]) : \E j \in 1..Len(list[v]) : j # 1 /\ list'[v][i] = list[v][j]
      /\ \A j \in 1..Len(list[v]) : j # 1 => Starts(list', v, list[v][j])
  <2>1. /\ \A i \in 1..Len(Tail(list[v])) :
             \E j \in 1..Len(list[v]) : j # 1 /\ Tail(list[v])[i] = list[v][j]
        /\ \A j \in 1..Len(list[v]) : j # 1 =>
             \E i \in 1..Len(Tail(list[v])) : Tail(list[v])[i] = list[v][j]
    BY <1>2, PopKeeps
  <2>2. list'[v] = Tail(list[v])
    BY <1>6
  <2>3. \A i \in 1..Len(list'[v]) : \E j \in 1..Len(list[v]) : j # 1 /\ list'[v][i] = list[v][j]
    BY <2>1, <2>2, Zenon
  <2>4. \A j \in 1..Len(list[v]) : j # 1 => \E i \in 1..Len(list'[v]) : list'[v][i] = list[v][j]
    BY <2>1, <2>2, Zenon
  <2> QED BY <2>3, <2>4, Zenon DEF Starts
<1>8. /\ Starts(list', k, h + m)
      /\ \A i \in 1..Len(list'[k]) :
           list'[k][i] = h + m \/ \E j \in 1..Len(list[k]) : list'[k][i] = list[k][j]
      /\ \A j \in 1..Len(list[k]) : Starts(list', k, list[k][j])
  <2>t. PICK t : t = Append(list[k], h + m)
    OBVIOUS
  <2>1. /\ \E i \in 1..Len(t) : t[i] = h + m
        /\ \A i \in 1..Len(t) : t[i] = h + m \/ \E j \in 1..Len(list[k]) : t[i] = list[k][j]
        /\ \A j \in 1..Len(list[k]) : \E i \in 1..Len(t) : t[i] = list[k][j]
    BY <1>2, <1>5, <2>t, PushKeeps
  <2>2. list'[k] = t
    BY <1>6, <2>t
  <2> QED BY <2>1, <2>2, Zenon DEF Starts
<1>9. ASSUME NEW n \in Multiples, NEW i \in 1..Len(list'[n])
      PROVE  \/ n = k /\ list'[n][i] = h + m
             \/ \E j \in 1..Len(list[n]) : <<n, j>> # <<v, 1>> /\ list'[n][i] = list[n][j]
  <2>1. CASE n = v
    <3>1. PICK j \in 1..Len(list[v]) : j # 1 /\ list'[v][i] = list[v][j]
      BY <1>7, <2>1
    <3>2. <<n, j>> # <<v, 1>>
      BY <3>1
    <3> QED BY <2>1, <3>1, <3>2
  <2>2. CASE n = k /\ list'[n][i] # h + m
    <3>1. PICK j \in 1..Len(list[k]) : list'[k][i] = list[k][j]
      BY <1>8, <2>2
    <3>2. <<n, j>> # <<v, 1>>
      BY <1>1, <2>2
    <3> QED BY <2>2, <3>1, <3>2
  <2>3. CASE n # v /\ n # k
    <3>1. <<n, i>> # <<v, 1>> /\ i \in 1..Len(list[n]) /\ list'[n][i] = list[n][i]
      BY <1>6, <2>3
    <3> QED BY <3>1
  <2> QED BY <2>1, <2>2, <2>3
<1>10. ASSUME NEW n \in Multiples, NEW j \in 1..Len(list[n]), <<n, j>> # <<v, 1>>
       PROVE  Starts(list', n, list[n][j])
  <2>1. CASE n = v
    <3>1. j # 1
      BY <1>10, <2>1
    <3> QED BY <1>7, <2>1, <3>1
  <2>2. CASE n = k
    BY <1>8, <2>2
  <2>3. CASE n # v /\ n # k
    BY <1>6, <2>3 DEF Starts
  <2> QED BY <2>1, <2>2, <2>3
<1>11. h \in Addresses /\ k \in Multiples
  BY <1>1, <1>3
<1>12. /\ 1 \in 1..Len(list[v]) /\ m + k = v
       /\ content' = Zeroed(NodeWritten(content, h + m), h, m)
       /\ live' = live \cup {Block(h, m)}
       /\ UNCHANGED <<current_start, current_size>>
  BY <1>1, <1>3, <1>4
<1> QED BY <1>h, <1>5, <1>8, <1>9, <1>10, <1>11, <1>12, Zenon

\* deallocate: the block given back is the one free block that is new.
LEMMA FreedBlocks ==
    ASSUME IInv, NEW b \in live, b.size \in Freed, deallocate(b)
    PROVE  /\ b.size \in Multiples /\ b.start \in Addresses
           /\ content' = NodeWritten(content, b.start)
           /\ live' = live \ {b}
           /\ UNCHANGED <<current_start, current_size>>
           /\ \A n \in Multiples : \A i \in 1..Len(list'[n]) :
                \/ n = b.size /\ list'[n][i] = b.start
                \/ \E j \in 1..Len(list[n]) : list'[n][i] = list[n][j]
           /\ Starts(list', b.size, b.start)
           /\ \A n \in Multiples : \A j \in 1..Len(list[n]) : Starts(list', n, list[n][j])
<1> USE DEF IInv
<1>k. PICK k : k = b.size
  OBVIOUS
<1>1. k \in Multiples /\ b.start \in Addresses
  BY <1>k, Types, PageAllocatorAssumption DEF deallocate, Multiples
<1>2. list[k] \in Seq(Addresses)
  BY <1>1, Types
<1>3. /\ live' = live \ {b}
      /\ content' = NodeWritten(content, b.start)
      /\ list' = [list EXCEPT ![k] = Append(@, b.start)]
      /\ UNCHANGED <<current_start, current_size>>
  BY <1>k DEF deallocate
<1>4. list'[k] = Append(list[k], b.start) /\ \A n \in Multiples : n # k => list'[n] = list[n]
  BY <1>1, <1>3 DEF TypeOK
<1>5. /\ Starts(list', k, b.start)
      /\ \A i \in 1..Len(list'[k]) :
           list'[k][i] = b.start \/ \E j \in 1..Len(list[k]) : list'[k][i] = list[k][j]
      /\ \A j \in 1..Len(list[k]) : Starts(list', k, list[k][j])
  <2>t. PICK t : t = Append(list[k], b.start)
    OBVIOUS
  <2>1. /\ \E i \in 1..Len(t) : t[i] = b.start
        /\ \A i \in 1..Len(t) : t[i] = b.start \/ \E j \in 1..Len(list[k]) : t[i] = list[k][j]
        /\ \A j \in 1..Len(list[k]) : \E i \in 1..Len(t) : t[i] = list[k][j]
    BY <1>1, <1>2, <2>t, PushKeeps
  <2>2. list'[k] = t
    BY <1>4, <2>t
  <2> QED BY <2>1, <2>2, Zenon DEF Starts
<1>6. ASSUME NEW n \in Multiples, NEW i \in 1..Len(list'[n])
      PROVE  \/ n = k /\ list'[n][i] = b.start
             \/ \E j \in 1..Len(list[n]) : list'[n][i] = list[n][j]
  <2>1. CASE n = k
    BY <1>5, <2>1
  <2>2. CASE n # k
    BY <1>4, <2>2
  <2> QED BY <2>1, <2>2
<1>7. ASSUME NEW n \in Multiples, NEW j \in 1..Len(list[n])
      PROVE  Starts(list', n, list[n][j])
  <2>1. CASE n = k
    BY <1>5, <2>1
  <2>2. CASE n # k
    BY <1>4, <2>2 DEF Starts
  <2> QED BY <2>1, <2>2
<1> QED BY <1>k, <1>1, <1>3, <1>5, <1>6, <1>7

-----------------------------------------------------------------------------
(* Headers *)

\* The header of a free block lies in the block's own pages.
LEMMA HeaderPage ==
    ASSUME IInv, NEW n \in Multiples, NEW j \in 1..Len(list[n])
    PROVE  list[n][j] \in FreePages(n, j) /\ list[n][j] \in Addresses /\ list[n][j] \in Nat
<1>1. list[n][j] \in Addresses /\ n \in Nat \ {0}
  BY Types DEF IInv
<1>2. list[n][j] \in Nat
  BY <1>1, PageAllocatorAssumption DEF Addresses
<1> QED BY <1>1, <1>2 DEF FreePages, PagesOf

\* No step writes into the header of a block that stays or becomes free.
LEMMA HeadersNext ==
    ASSUME IInv, HeadersIntact, [Next]_vars
    PROVE  HeadersIntact'
<1> USE DEF HeadersIntact
<1>0. content \in [Addresses -> {"zero", "node", "data"}]
  BY DEF IInv, TypeOK
<1>1. ASSUME NEW m \in Wanted, AllocateExact(m) PROVE HeadersIntact'
  <2>1. PICK h \in Addresses :
          /\ m \in Multiples /\ 1 \in 1..Len(list[m]) /\ h = list[m][1]
          /\ content' = Zeroed(content, h, m)
          /\ \A n \in Multiples : \A i \in 1..Len(list'[n]) :
               \E j \in 1..Len(list[n]) : <<n, j>> # <<m, 1>> /\ list'[n][i] = list[n][j]
    BY <1>1, ExactBlocks
  <2> SUFFICES ASSUME NEW n \in Multiples, NEW i \in 1..Len(list'[n])
               PROVE  content'[list'[n][i]] = "node"
    OBVIOUS
  <2>2. PICK j \in 1..Len(list[n]) : <<n, j>> # <<m, 1>> /\ list'[n][i] = list[n][j]
    BY <2>1
  <2>3. list[n][j] \in FreePages(n, j) /\ list[n][j] \in Addresses
    BY HeaderPage
  <2>4. Disjoint(FreePages(n, j), FreePages(m, 1))
    BY <2>1, <2>2 DEF IInv, NoOverlap
  <2>5. list[n][j] \notin PagesOf(h, m)
    BY <2>1, <2>3, <2>4 DEF Disjoint, FreePages
  <2> QED BY <2>1, <2>2, <2>3, <2>5 DEF Zeroed
<1>2. ASSUME NEW m \in Wanted, NEW v \in Multiples, AllocateSplit(m, v) PROVE HeadersIntact'
  <2>1. PICK h \in Addresses, k \in Multiples :
          /\ 1 \in 1..Len(list[v]) /\ h = list[v][1] /\ m + k = v /\ h + m \in Addresses
          /\ content' = Zeroed(NodeWritten(content, h + m), h, m)
          /\ \A n \in Multiples : \A i \in 1..Len(list'[n]) :
               \/ n = k /\ list'[n][i] = h + m
               \/ \E j \in 1..Len(list[n]) : <<n, j>> # <<v, 1>> /\ list'[n][i] = list[n][j]
    BY <1>2, SplitBlocks
  <2>2. h \in Nat /\ m \in Nat /\ v \in Nat /\ v > m
    BY <1>2, PageAllocatorAssumption DEF Addresses, AllocateSplit, Multiples
  <2>3. PagesOf(h, m) \subseteq FreePages(v, 1) /\ h + m \notin PagesOf(h, m)
    <3>1. PagesOf(h, m) \subseteq PagesOf(h, v) /\ h + m \notin PagesOf(h, m)
      BY <2>2 DEF PagesOf
    <3>2. FreePages(v, 1) = PagesOf(h, v)
      BY <2>1 DEF FreePages
    <3> QED BY <3>1, <3>2
  <2>4. \A a \in Addresses : a \notin PagesOf(h, m) =>
          content'[a] = IF a = h + m THEN "node" ELSE content[a]
    BY <1>0, <2>1 DEF Zeroed, NodeWritten
  <2> SUFFICES ASSUME NEW n \in Multiples, NEW i \in 1..Len(list'[n])
               PROVE  content'[list'[n][i]] = "node"
    OBVIOUS
  <2>5. CASE list'[n][i] = h + m
    BY <2>1, <2>3, <2>4, <2>5
  <2>6. CASE list'[n][i] # h + m
    <3>1. PICK j \in 1..Len(list[n]) : <<n, j>> # <<v, 1>> /\ list'[n][i] = list[n][j]
      BY <2>1, <2>6
    <3>2. list[n][j] \in FreePages(n, j) /\ list[n][j] \in Addresses
      BY HeaderPage
    <3>3. Disjoint(FreePages(n, j), FreePages(v, 1))
      BY <2>1, <3>1 DEF IInv, NoOverlap
    <3>4. list[n][j] \notin PagesOf(h, m)
      BY <2>3, <3>2, <3>3 DEF Disjoint
    <3> QED BY <2>4, <2>6, <3>1, <3>2, <3>4
  <2> QED BY <2>5, <2>6
<1>3. ASSUME NEW m \in Wanted, AllocateNew(m) PROVE HeadersIntact'
  <2>1. list' = list /\ content' = Zeroed(content, current_start, m)
    BY <1>3 DEF AllocateNew
  <2> SUFFICES ASSUME NEW n \in Multiples, NEW i \in 1..Len(list[n])
               PROVE  content'[list[n][i]] = "node"
    BY <2>1
  <2>2. /\ list[n][i] \in FreePages(n, i) /\ list[n][i] \in Addresses /\ list[n][i] \in Nat
        /\ FreePages(n, i) \subseteq 0..(current_start - 1)
    BY HeaderPage DEF IInv, NoOverlap
  <2>3. current_start \in Nat /\ m \in Nat
    BY Types, PageAllocatorAssumption DEF IInv
  <2>4. list[n][i] \notin PagesOf(current_start, m)
    <3>1. list[n][i] <= current_start - 1
      BY <2>2, <2>3
    <3> QED BY <2>2, <2>3, <3>1 DEF PagesOf
  <2> QED BY <2>1, <2>2, <2>4 DEF Zeroed
<1>4. ASSUME NEW b \in live, b.size \in Freed, deallocate(b) PROVE HeadersIntact'
  <2>1. /\ b.start \in Addresses /\ content' = NodeWritten(content, b.start)
        /\ \A n \in Multiples : \A i \in 1..Len(list'[n]) :
             \/ n = b.size /\ list'[n][i] = b.start
             \/ \E j \in 1..Len(list[n]) : list'[n][i] = list[n][j]
    BY <1>4, FreedBlocks
  <2>2. \A a \in Addresses : content'[a] = IF a = b.start THEN "node" ELSE content[a]
    BY <1>0, <2>1 DEF NodeWritten
  <2> SUFFICES ASSUME NEW n \in Multiples, NEW i \in 1..Len(list'[n])
               PROVE  content'[list'[n][i]] = "node"
    OBVIOUS
  <2>3. CASE list'[n][i] = b.start
    BY <2>1, <2>2, <2>3
  <2>4. CASE list'[n][i] # b.start
    <3>1. PICK j \in 1..Len(list[n]) : list'[n][i] = list[n][j]
      BY <2>1, <2>4
    <3>2. list[n][j] \in Addresses
      BY HeaderPage
    <3> QED BY <2>2, <3>1, <3>2
  <2> QED BY <2>3, <2>4
<1>5. ASSUME NEW b \in live, ClientWrites(b) PROVE HeadersIntact'
  <2>1. /\ list' = list
        /\ \A a \in Addresses : a \notin BlockPages(b) => content'[a] = content[a]
    BY <1>5 DEF ClientWrites, state, BlockPages
  <2> SUFFICES ASSUME NEW n \in Multiples, NEW i \in 1..Len(list[n])
               PROVE  content'[list[n][i]] = "node"
    BY <2>1
  <2>2. list[n][i] \in FreePages(n, i) /\ list[n][i] \in Addresses
    BY HeaderPage
  <2>3. list[n][i] \notin BlockPages(b)
    BY <2>2 DEF IInv, NoOverlap, Disjoint
  <2> QED BY <2>1, <2>2, <2>3
<1>6. ASSUME NEW m \in Wanted, AllocatePanics(m) \/ AllocateNone(m) PROVE HeadersIntact'
  BY <1>6 DEF AllocatePanics, AllocateNone, state, vars
<1>7. CASE Halted \/ UNCHANGED vars
  BY <1>7 DEF Halted, vars
<1> QED
  BY <1>1, <1>2, <1>3, <1>4, <1>5, <1>6, <1>7 DEF Next, allocate

\* The headers of free blocks are never overwritten: check_magic never fails in
\* pop_front or push_front of linked_list.rs.
THEOREM HeadersStayIntact == Spec => []HeadersIntact
<1>1. Init => HeadersIntact
  <2> SUFFICES ASSUME Init PROVE HeadersIntact
    OBVIOUS
  <2>1. \A m \in Multiples : 1..Len(list[m]) = {}
    BY EmptySeq DEF Init
  <2> QED BY <2>1 DEF HeadersIntact
<1>2. IInv /\ HeadersIntact /\ [Next]_vars => HeadersIntact'
  BY HeadersNext
<1> QED BY <1>1, <1>2, Invariant, PTL DEF Spec

-----------------------------------------------------------------------------
(* No page is lost *)

\* A page has an owner among blocks L and lists l.
Owned(L, l, a) ==
    \/ \E b \in L : a \in BlockPages(b)
    \/ \E n \in Multiples : \E i \in 1..Len(l[n]) : a \in PagesOf(l[n][i], n)

\* A page of a block that starts a free list entry is owned.
LEMMA StartsOwned ==
    ASSUME NEW L, NEW l, NEW n \in Multiples, NEW x, Starts(l, n, x), NEW a \in PagesOf(x, n)
    PROVE  Owned(L, l, a)
<1>1. PICK i \in 1..Len(l[n]) : l[n][i] = x
  BY DEF Starts
<1> QED BY <1>1 DEF Owned

\* Every step passes each page it takes from one owner on to another.
LEMMA OwnedNext ==
    ASSUME IInv, [Next]_vars, \A a \in 0..(current_start - 1) : Owned(live, list, a)
    PROVE  \A a \in 0..(current_start' - 1) : Owned(live', list', a)
<1>1. ASSUME NEW m \in Wanted, AllocateExact(m), NEW a \in 0..(current_start' - 1)
      PROVE  Owned(live', list', a)
  <2>1. PICK h \in Addresses :
          /\ m \in Multiples /\ h = list[m][1]
          /\ live' = live \cup {Block(h, m)}
          /\ current_start' = current_start
          /\ \A n \in Multiples : \A j \in 1..Len(list[n]) :
               <<n, j>> # <<m, 1>> => Starts(list', n, list[n][j])
    BY <1>1, ExactBlocks
  <2>2. Owned(live, list, a)
    BY <2>1
  <2>3. CASE \E b \in live : a \in BlockPages(b)
    BY <2>1, <2>3 DEF Owned
  <2>4. ASSUME NEW n \in Multiples, NEW j \in 1..Len(list[n]), a \in PagesOf(list[n][j], n)
        PROVE  Owned(live', list', a)
    <3>1. CASE <<n, j>> = <<m, 1>>
      <4>1. a \in BlockPages(Block(h, m))
        BY <2>1, <2>4, <3>1 DEF BlockPages, Block
      <4> QED BY <2>1, <4>1 DEF Owned
    <3>2. CASE <<n, j>> # <<m, 1>>
      BY <2>1, <2>4, <3>2, StartsOwned
    <3> QED BY <3>1, <3>2
  <2> QED BY <2>2, <2>3, <2>4 DEF Owned
<1>2. ASSUME NEW m \in Wanted, NEW v \in Multiples, AllocateSplit(m, v),
             NEW a \in 0..(current_start' - 1)
      PROVE  Owned(live', list', a)
  <2>1. PICK h \in Addresses, k \in Multiples :
          /\ h = list[v][1] /\ m + k = v
          /\ live' = live \cup {Block(h, m)}
          /\ current_start' = current_start
          /\ Starts(list', k, h + m)
          /\ \A n \in Multiples : \A j \in 1..Len(list[n]) :
               <<n, j>> # <<v, 1>> => Starts(list', n, list[n][j])
    BY <1>2, SplitBlocks
  <2>2. Owned(live, list, a)
    BY <2>1
  <2>3. CASE \E b \in live : a \in BlockPages(b)
    BY <2>1, <2>3 DEF Owned
  <2>4. ASSUME NEW n \in Multiples, NEW j \in 1..Len(list[n]), a \in PagesOf(list[n][j], n)
        PROVE  Owned(live', list', a)
    <3>1. CASE <<n, j>> = <<v, 1>>
      <4>1. h \in Nat /\ m \in Nat /\ k \in Nat /\ a \in h..(h + v - 1)
        BY <2>1, <2>4, <3>1, PageAllocatorAssumption DEF Addresses, Multiples, PagesOf
      <4>2. CASE a < h + m
        <5>1. a \in BlockPages(Block(h, m))
          BY <4>1, <4>2 DEF BlockPages, Block, PagesOf
        <5> QED BY <2>1, <5>1 DEF Owned
      <4>3. CASE a >= h + m
        <5>1. a \in PagesOf(h + m, k)
          BY <2>1, <4>1, <4>3 DEF PagesOf
        <5> QED BY <2>1, <5>1, StartsOwned
      <4> QED BY <4>1, <4>2, <4>3
    <3>2. CASE <<n, j>> # <<v, 1>>
      BY <2>1, <2>4, <3>2, StartsOwned
    <3> QED BY <3>1, <3>2
  <2> QED BY <2>2, <2>3, <2>4 DEF Owned
<1>3. ASSUME NEW m \in Wanted, AllocateNew(m), NEW a \in 0..(current_start' - 1)
      PROVE  Owned(live', list', a)
  <2>1. /\ live' = live \cup {Block(current_start, m)} /\ list' = list
        /\ current_start' = current_start + m
    BY <1>3 DEF AllocateNew
  <2>2. current_start \in Nat /\ m \in Nat
    BY Types, PageAllocatorAssumption DEF IInv
  <2>3. CASE a \in 0..(current_start - 1)
    BY <2>1, <2>3 DEF Owned
  <2>4. CASE a \notin 0..(current_start - 1)
    <3>1. a \in BlockPages(Block(current_start, m))
      BY <2>1, <2>2, <2>4 DEF BlockPages, Block, PagesOf
    <3> QED BY <2>1, <3>1 DEF Owned
  <2> QED BY <2>3, <2>4
<1>4. ASSUME NEW b \in live, b.size \in Freed, deallocate(b), NEW a \in 0..(current_start' - 1)
      PROVE  Owned(live', list', a)
  <2>1. /\ b.size \in Multiples
        /\ live' = live \ {b} /\ current_start' = current_start
        /\ Starts(list', b.size, b.start)
        /\ \A n \in Multiples : \A j \in 1..Len(list[n]) : Starts(list', n, list[n][j])
    BY <1>4, FreedBlocks
  <2>2. Owned(live, list, a)
    BY <2>1
  <2>3. ASSUME NEW c \in live, a \in BlockPages(c) PROVE Owned(live', list', a)
    <3>1. CASE c = b
      BY <2>1, <2>3, <3>1, StartsOwned DEF BlockPages
    <3>2. CASE c # b
      BY <2>1, <2>3, <3>2 DEF Owned
    <3> QED BY <3>1, <3>2
  <2>4. ASSUME NEW n \in Multiples, NEW j \in 1..Len(list[n]), a \in PagesOf(list[n][j], n)
        PROVE  Owned(live', list', a)
    BY <2>1, <2>4, StartsOwned
  <2> QED BY <2>2, <2>3, <2>4 DEF Owned
<1>5. ASSUME NEW b \in live, ClientWrites(b) PROVE UNCHANGED <<live, list, current_start>>
  BY <1>5 DEF ClientWrites, state
<1>6. ASSUME NEW m \in Wanted, AllocatePanics(m) \/ AllocateNone(m)
      PROVE  UNCHANGED <<live, list, current_start>>
  BY <1>6 DEF AllocatePanics, AllocateNone, state, vars
<1>7. CASE Halted \/ UNCHANGED vars
  BY <1>7 DEF Halted, vars
<1>8. CASE UNCHANGED <<live, list, current_start>>
  BY <1>8
<1> QED
  BY <1>1, <1>2, <1>3, <1>4, <1>5, <1>6, <1>7, <1>8 DEF Next, allocate

\* Every page below current_start has an owner, and current_size counts the others:
\* neither a split nor a reuse drops a page (allocate and deallocate).
THEOREM PagesAreNotLost == Spec => []NothingLost
<1> DEFINE AllOwned == \A a \in 0..(current_start - 1) : Owned(live, list, a)
<1>1. Init => AllOwned
  <2> SUFFICES ASSUME Init PROVE 0..(current_start - 1) = {}
    OBVIOUS
  <2> QED BY DEF Init
<1>2. IInv /\ AllOwned /\ [Next]_vars => AllOwned'
  BY OwnedNext
<1>3. IInv /\ AllOwned => NothingLost
  BY DEF IInv, Sum, NothingLost, Owned, FreePages
<1> HIDE DEF AllOwned
<1> QED BY <1>1, <1>2, <1>3, Invariant, PTL DEF Spec

-----------------------------------------------------------------------------
(* What is handed out *)

\* The block that a step of allocate hands out is cleared from its first to its last
\* page, on each of the three paths.
LEMMA HandsOutNext ==
    ASSUME IInv, [Next]_vars
    PROVE  \A b \in live' \ live : \A a \in BlockPages(b) : content'[a] = "zero"
<1>1. IInv'
  BY NextInv
<1>2. \A b \in live' : BlockPages(b) \subseteq Addresses
  <2>1. \A b \in live' : BlockPages(b) \subseteq 0..(current_start' - 1)
    BY <1>1 DEF IInv, NoOverlap
  <2>2. 0..(current_start' - 1) \subseteq Addresses
    <3>1. current_start' \in 0..Pages
      BY <1>1 DEF IInv, TypeOK
    <3>2. \A n \in Nat : \A x \in 0..n : 0..(x - 1) \subseteq 0..(n - 1)
      OBVIOUS
    <3>3. Pages \in Nat
      BY PageAllocatorAssumption
    <3> QED BY <3>1, <3>2, <3>3 DEF Addresses
  <2> QED BY <2>1, <2>2
<1>3. ASSUME NEW c, NEW s, NEW m, content' = Zeroed(c, s, m), live' = live \cup {Block(s, m)}
      PROVE  \A b \in live' \ live : \A a \in BlockPages(b) : content'[a] = "zero"
  <2>1. \A b \in live' \ live : BlockPages(b) = PagesOf(s, m)
    BY <1>3 DEF BlockPages, Block
  <2> QED BY <1>2, <1>3, <2>1 DEF Zeroed
<1>4. ASSUME NEW m \in Wanted, AllocateExact(m) \/ AllocateNew(m)
             \/ \E v \in Multiples : AllocateSplit(m, v)
      PROVE  \E c, s : content' = Zeroed(c, s, m) /\ live' = live \cup {Block(s, m)}
  BY <1>4 DEF AllocateExact, AllocateNew, AllocateSplit
<1>5. ASSUME NEW m \in Wanted, AllocatePanics(m) \/ AllocateNone(m) PROVE live' = live
  BY <1>5 DEF AllocatePanics, AllocateNone, vars
<1>6. ASSUME NEW b \in live, deallocate(b) \/ ClientWrites(b) PROVE live' \subseteq live
  BY <1>6 DEF deallocate, ClientWrites
<1>7. CASE Halted \/ UNCHANGED vars
  BY <1>7 DEF Halted, vars
<1> QED
  BY <1>3, <1>4, <1>5, <1>6, <1>7 DEF Next, allocate

\* Whatever allocate hands out is all zeroes, so that a new page table maps nothing.
THEOREM HandedOutIsZero == Spec => HandsOutZeroes
<1>1. IInv /\ [Next]_vars =>
        [\A b \in live' \ live : \A a \in BlockPages(b) : content'[a] = "zero"]_vars
  BY HandsOutNext
<1> QED BY <1>1, Invariant, PTL DEF Spec, HandsOutZeroes
=============================================================================

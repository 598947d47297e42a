------------------------------ MODULE FreeLists ------------------------------
(***************************************************************************)
(* The representation below PageAllocator: the doubly linked lists whose   *)
(* nodes lie in the free blocks themselves (allocator/src/linked_list.rs)  *)
(* and the bitmap as an array of words (bitmap.rs).  Every action is the   *)
(* one of PageAllocator with what it does to pointers and words beside     *)
(* it; the properties say that the sequences and the set PageAllocator     *)
(* uses are what the pointers and the words stand for, so that its guards  *)
(* are the code's.                                                         *)
(***************************************************************************)
EXTENDS PageAllocator, SequencesExt

CONSTANTS
    NUM_BITMAPS,                \* words of the bitmap
    NUM_MULTIPLES_PER_BITMAP    \* bits of a word

ASSUME FreeListsAssumption ==
    /\ NUM_BITMAPS \in Nat \ {0}
    /\ NUM_MULTIPLES_PER_BITMAP \in Nat \ {0}
    /\ NUM_MULTIPLES = NUM_BITMAPS * NUM_MULTIPLES_PER_BITMAP

VARIABLES
    inner,  \* inner[i]: the bits set in word i, counted from the most significant
    links   \* head of each list; next and prev as they stand in each page's first bytes

flVars == <<vars, inner, links>>

None == -1      \* Option::None, which is all zeroes in memory
Junk == -2      \* what a client has written there
Words == 0..(NUM_BITMAPS - 1)
Bits  == 0..(NUM_MULTIPLES_PER_BITMAP - 1)

FlInit ==
    /\ Init
    /\ inner = [i \in Words |-> {}]
    /\ links = [head |-> [m \in Multiples |-> None],
                next |-> [a \in Addresses |-> Junk],
                prev |-> [a \in Addresses |-> Junk]]

-----------------------------------------------------------------------------
(* Bitmap *)

\* Word and bit of a multiple, which are counted from zero.
Index(m)  == (m - 1) \div NUM_MULTIPLES_PER_BITMAP
Offset(m) == (m - 1) % NUM_MULTIPLES_PER_BITMAP

mark_available(w, m)   == [w EXCEPT ![Index(m)] = @ \cup {Offset(m)}]
mark_unavailable(w, m) == [w EXCEPT ![Index(m)] = @ \ {Offset(m)}]

\* Mutant: the offset of the first word is kept for the words after it.
OffsetKept(i, m) == Offset(m)

\* first_available: the bit at which the search of word i starts.
OffsetIn(i, m) == IF i = Index(m) THEN Offset(m) ELSE 0

\* The bits that the search of word i would stop at.
FoundIn(i, m) == {j \in inner[i] : j >= OffsetIn(i, m)}

\* The multiple found: the first bit of the first word that has one.
first_available(m) ==
    LET found == {i \in Index(m)..(NUM_BITMAPS - 1) : FoundIn(i, m) # {}} IN
    IF found = {} THEN None
    ELSE Min(found) * NUM_MULTIPLES_PER_BITMAP + Min(FoundIn(Min(found), m)) + 1

-----------------------------------------------------------------------------
(* LinkedList, and the nodes in memory *)

\* Where the walk of list m goes from the nodes met so far: to the head, then
\* along next.
Behind(l, m, met) ==
    IF met = <<>> THEN l.head[m]
    ELSE IF Last(met) \in Addresses THEN l.next[Last(met)] ELSE None

\* The nodes met when next is followed from the head of list m.
Nodes(l, m) ==
    LET walk[k \in 0..Pages] ==
            IF k = 0 THEN <<>>
            ELSE LET met == walk[k - 1] IN
                 IF Behind(l, m, met) = None THEN met
                 ELSE Append(met, Behind(l, m, met))
    IN  walk[Pages]

\* write_volatile of Node::new(None, None, _).
NodeNew(l, a) == [l EXCEPT !.next[a] = None, !.prev[a] = None]

\* write_bytes of zeroes, or a client's writing, over m pages.
Overwritten(l, s, m, p) ==
    LET over(f) == [a \in Addresses |-> IF a \in PagesOf(s, m) THEN p ELSE f[a]]
    IN  [l EXCEPT !.next = over(@), !.prev = over(@)]

\* Mutant: the node goes in front of the others and their pointers stay.
PushedInFront(l, m, other) ==
    [l EXCEPT !.next[other] = l.head[m], !.head[m] = other]

\* push_front walks to the last node and appends there.
push_front(l, m, other) ==
    LET nodes == Nodes(l, m) IN
    IF nodes = <<>> THEN [l EXCEPT !.head[m] = other]
    ELSE [l EXCEPT !.next[Last(nodes)] = other, !.prev[other] = Last(nodes)]

pop_front(l, m) ==
    LET next == l.next[l.head[m]]
        popped == [l EXCEPT !.head[m] = next]
    IN  IF next = None THEN popped ELSE [popped EXCEPT !.prev[next] = None]

-----------------------------------------------------------------------------
(* The actions *)

\* Behind pop_front of list v: the bit of the size wanted is cleared when the
\* head is None now.
BitsAfterPop(v, m) ==
    IF pop_front(links, v).head[v] = None THEN mark_unavailable(inner, m) ELSE inner

FlAllocateExact(m) ==
    /\ AllocateExact(m)
    /\ inner' = BitsAfterPop(m, m)
    /\ links' = Overwritten(pop_front(links, m), links.head[m], m, None)

FlAllocateSplit(m, v) ==
    /\ AllocateSplit(m, v)
    /\ LET block == links.head[v]
           not_needed_addr == NotNeededAddr(block, m)
           not_needed_multiple == NotNeededMultiple(v, m)
           written == NodeNew(pop_front(links, v), not_needed_addr)
           pushed == push_front(written, not_needed_multiple, not_needed_addr) IN
       /\ inner' = mark_available(BitsAfterPop(v, m), not_needed_multiple)
       /\ links' = Overwritten(pushed, block, m, None)

FlAllocatePanics(m) == AllocatePanics(m) /\ UNCHANGED <<inner, links>>

FlAllocateNew(m) ==
    /\ AllocateNew(m)
    /\ links' = Overwritten(links, current_start, m, None)
    /\ UNCHANGED inner

FlAllocateNone(m) == AllocateNone(m) /\ UNCHANGED <<inner, links>>

FlDeallocate(b) ==
    /\ deallocate(b)
    /\ links' = push_front(NodeNew(links, b.start), b.size, b.start)
    /\ inner' = mark_available(inner, b.size)

FlClientWrites(b) ==
    /\ ClientWrites(b)
    /\ links' = Overwritten(links, b.start, b.size, Junk)
    /\ UNCHANGED inner

FlHalted == Halted /\ UNCHANGED <<inner, links>>

FlNext ==
    \/ \E m \in Wanted :
         \/ FlAllocateExact(m)
         \/ \E v \in Multiples : FlAllocateSplit(m, v)
         \/ FlAllocatePanics(m)
         \/ FlAllocateNew(m)
         \/ FlAllocateNone(m)
    \/ \E b \in live : \/ b.size \in Freed /\ FlDeallocate(b)
                     \/ FlClientWrites(b)
    \/ FlHalted

FlSpec == FlInit /\ [][FlNext]_flVars

-----------------------------------------------------------------------------
(* Properties *)

\* Following next from the head meets exactly the free blocks of the size, in
\* the order of PageAllocator's list, and ends; prev leads back.  No node is skipped,
\* met twice or left pointing into memory that was handed out meanwhile, and
\* head.is_none() tells whether the list is empty.
ListsAreChains ==
    \A m \in Multiples :
        LET nodes == Nodes(links, m) IN
        /\ nodes = list[m]
        /\ \A i \in 1..Len(nodes) :
             links.prev[nodes[i]] = IF i = 1 THEN None ELSE nodes[i - 1]

\* first_available, which searches word by word, returns the smallest multiple
\* marked in the bitmap that is large enough, and None when there is none: no
\* large enough block is overlooked behind a word boundary.
FirstAvailableIsSmallest ==
    \A m \in Wanted :
        IF first_available(m) = None THEN NoneAvailable(m)
        ELSE IsFirstAvailable(first_available(m), m)

=============================================================================

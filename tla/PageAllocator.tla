---------------------------- MODULE PageAllocator ----------------------------
(***************************************************************************)
(* The physical page allocator: allocator/src/page_allocator.rs with its   *)
(* free lists (linked_list.rs) and the bitmap of the lists that hold       *)
(* something (bitmap.rs).  Every call runs under the allocator's lock, so  *)
(* a call is one step.                                                     *)
(*                                                                         *)
(* Sizes and addresses are counted in pages from memory_start.  What a     *)
(* page holds is abstracted to zeroes, the Node header of a free block, or *)
(* data of the client; the pointers of a list are abstracted to the        *)
(* sequence of its blocks (push_front walks to the tail and appends there).*)
(***************************************************************************)
EXTENDS Integers, Sequences

CONSTANTS
    Pages,          \* memory_end - memory_start
    NUM_MULTIPLES,  \* number of free lists, and the largest size that can be freed
    Wanted,         \* sizes that clients ask for
    Freed           \* sizes that clients give back

ASSUME PageAllocatorAssumption ==
    /\ Pages \in Nat
    /\ NUM_MULTIPLES \in Nat \ {0}
    /\ Wanted \subseteq Nat \ {0}
    /\ Freed \subseteq Wanted \cap 1..NUM_MULTIPLES

VARIABLES
    bitmaps,        \* the multiples marked available
    list,           \* list[m]: the free blocks of m pages, from head to tail
    current_start,  \* first page never handed out
    current_size,   \* number of pages never handed out
    content,        \* what each page holds
    live,           \* the blocks that clients hold: records of start and size
    panicked        \* whether unwrap() met None

state == <<bitmaps, list, current_start, current_size>>
vars == <<bitmaps, list, current_start, current_size, content, live, panicked>>

Multiples == 1..NUM_MULTIPLES
Addresses == 0..(Pages - 1)
Block(s, m) == [start |-> s, size |-> m]
PagesOf(s, m) == s..(s + m - 1)

TypeOK ==
    /\ bitmaps \subseteq Multiples
    /\ list \in [Multiples -> Seq(Addresses)]
    /\ current_start \in 0..Pages
    /\ current_size \in 0..Pages
    /\ content \in [Addresses -> {"zero", "node", "data"}]
    /\ live \subseteq [start : Addresses, size : Nat \ {0}]
    /\ panicked \in BOOLEAN

Init ==
    /\ bitmaps = {}
    /\ list = [m \in Multiples |-> <<>>]
    /\ current_start = 0
    /\ current_size = Pages
    /\ content = [a \in Addresses |-> "data"]
    /\ live = {}
    /\ panicked = FALSE

-----------------------------------------------------------------------------
(* Helpers *)

\* Bitmap::first_available: the smallest multiple marked available that is at
\* least m.
IsFirstAvailable(v, m) ==
    /\ v \in bitmaps
    /\ v >= m
    /\ \A u \in bitmaps : u >= m => v <= u

NoneAvailable(m) == \A u \in bitmaps : u < m

\* Mutants: only the first page is cleared, or one page too many.
ZeroedFirst(c, s, m) == [c EXCEPT ![s] = "zero"]
ZeroedTooFar(c, s, m) == [a \in Addresses |-> IF a \in PagesOf(s, m + 1) THEN "zero" ELSE c[a]]

\* write_bytes over a block, and write_volatile of a Node at its start.
Zeroed(c, s, m)   == [a \in Addresses |-> IF a \in PagesOf(s, m) THEN "zero" ELSE c[a]]
NodeWritten(c, s) == [c EXCEPT ![s] = "node"]

-----------------------------------------------------------------------------
(* PageAllocator::allocate *)

\* Mutant: the bit is left set.
BitKept(v, m) == bitmaps

\* The bit cleared when the list that was popped is empty now.  The code clears
\* the bit of the size wanted, which is the bit of that list only when the two
\* sizes are the same.
BitCleared(v, m) == IF Tail(list[v]) = <<>> THEN bitmaps \ {m} ELSE bitmaps

\* A free block of exactly the size wanted.
AllocateExact(m) ==
    /\ ~panicked
    /\ IsFirstAvailable(m, m)
    /\ list[m] # <<>>
    /\ LET block == Head(list[m]) IN
       /\ list' = [list EXCEPT ![m] = Tail(@)]
       /\ bitmaps' = BitCleared(m, m)
       /\ content' = Zeroed(content, block, m)
       /\ live' = live \cup {Block(block, m)}
    /\ UNCHANGED <<current_start, current_size, panicked>>

\* Mutants: the remainder of a split starts one page early, or is a page short.
StartsEarly(block, m) == block + m - 1
OnePageShort(v, m) == IF v - m > 1 THEN v - m - 1 ELSE 1

\* Where the part of the block that is not needed starts, and its size.
NotNeededAddr(block, m) == block + m
NotNeededMultiple(v, m) == v - m

\* A larger free block of v pages: its tail becomes a free block of its own.
AllocateSplit(m, v) ==
    /\ ~panicked
    /\ v > m
    /\ IsFirstAvailable(v, m)
    /\ list[v] # <<>>
    /\ LET block == Head(list[v])
           not_needed_addr == NotNeededAddr(block, m)
           not_needed_multiple == NotNeededMultiple(v, m) IN
       /\ list' = [list EXCEPT ![v] = Tail(@),
                               ![not_needed_multiple] = Append(@, not_needed_addr)]
       /\ bitmaps' = BitCleared(v, m) \cup {not_needed_multiple}
       /\ content' = Zeroed(NodeWritten(content, not_needed_addr), block, m)
       /\ live' = live \cup {Block(block, m)}
    /\ UNCHANGED <<current_start, current_size, panicked>>

\* The list that first_available names is empty: pop_front().unwrap() panics.
AllocatePanics(m) ==
    /\ ~panicked
    /\ \E v \in Multiples : IsFirstAvailable(v, m) /\ list[v] = <<>>
    /\ panicked' = TRUE
    /\ UNCHANGED <<state, content, live>>

\* Mutant: the room is not compared with the size.
AnyRoom(m) == current_start < Pages

\* The test for room behind current_start: size < current_size, so that the
\* last page is never handed out.
HasRoom(m) == current_start < Pages /\ m < current_size

\* No free block is large enough: the block is cut off the untouched memory.
AllocateNew(m) ==
    /\ ~panicked
    /\ NoneAvailable(m)
    /\ HasRoom(m)
    /\ current_start' = current_start + m
    /\ current_size' = current_size - m
    /\ content' = Zeroed(content, current_start, m)
    /\ live' = live \cup {Block(current_start, m)}
    /\ UNCHANGED <<bitmaps, list, panicked>>

\* allocate returns None.
AllocateNone(m) ==
    /\ ~panicked
    /\ NoneAvailable(m)
    /\ ~HasRoom(m)
    /\ UNCHANGED vars

allocate(m) ==
    \/ AllocateExact(m)
    \/ \E v \in Multiples : AllocateSplit(m, v)
    \/ AllocatePanics(m)
    \/ AllocateNew(m)
    \/ AllocateNone(m)

-----------------------------------------------------------------------------
(* PageAllocator::deallocate, which takes the caller's word for the block *)

deallocate(b) ==
    /\ ~panicked
    /\ live' = live \ {b}
    /\ content' = NodeWritten(content, b.start)
    /\ list' = [list EXCEPT ![b.size] = Append(@, b.start)]
    /\ bitmaps' = bitmaps \cup {b.size}
    /\ UNCHANGED <<current_start, current_size, panicked>>

\* A client writes to a block.
ClientWrites(b) ==
    /\ ~panicked
    /\ content' = [a \in Addresses |-> IF a \in PagesOf(b.start, b.size) THEN "data"
                                       ELSE content[a]]
    /\ UNCHANGED <<state, live, panicked>>

\* The panic handler does not return.
Halted == panicked /\ UNCHANGED vars

\* What clients owe: they give back and write to blocks that they hold, and no others.
\* PageTable is shown to do so.
Next ==
    \/ \E m \in Wanted : allocate(m)
    \/ \E b \in live : b.size \in Freed /\ deallocate(b)
    \/ \E b \in live : ClientWrites(b)
    \/ Halted

Spec == Init /\ [][Next]_vars

-----------------------------------------------------------------------------
(* Properties *)

\* The pages of a block, and of the i-th free block of m pages.
BlockPages(b)   == PagesOf(b.start, b.size)
FreePages(m, i) == PagesOf(list[m][i], m)
Disjoint(S, T)  == S \cap T = {}

\* No page is handed out twice or is free twice, and none is both, whatever
\* sequence of splits and reuses led here; all of them lie below current_start.
NoOverlap ==
    /\ \A b \in live : BlockPages(b) \subseteq 0..(current_start - 1)
    /\ \A m \in Multiples : \A i \in 1..Len(list[m]) :
         FreePages(m, i) \subseteq 0..(current_start - 1)
    /\ \A b, c \in live : b # c => Disjoint(BlockPages(b), BlockPages(c))
    /\ \A m, n \in Multiples : \A i \in 1..Len(list[m]), j \in 1..Len(list[n]) :
         <<m, i>> # <<n, j>> => Disjoint(FreePages(m, i), FreePages(n, j))
    /\ \A b \in live : \A m \in Multiples : \A i \in 1..Len(list[m]) :
         Disjoint(BlockPages(b), FreePages(m, i))

\* No page is lost: below current_start every page belongs to a client or to a
\* free block, so that the remainder of a split is never dropped, and
\* current_size counts what is left.
NothingLost ==
    /\ current_start + current_size = Pages
    /\ \A a \in 0..(current_start - 1) :
         \/ \E b \in live : a \in BlockPages(b)
         \/ \E m \in Multiples : \E i \in 1..Len(list[m]) : a \in FreePages(m, i)

\* A block that is handed out holds zeroes, on every path through allocate:
\* page tables are made of it, and what is not zero in them is a mapping.
HandsOutZeroes ==
    [][\A b \in live' \ live : \A a \in BlockPages(b) : content'[a] = "zero"]_vars

\* The header of every free block is intact, so that check_magic never fails:
\* neither a client nor the clearing of a split block's first part reaches it.
HeadersIntact ==
    \A m \in Multiples : \A i \in 1..Len(list[m]) : content[list[m][i]] = "node"

\* allocate's pop_front().unwrap() never meets an empty list.  True of a system
\* that gives back single pages only, as this kernel does (recursive_clean); when
\* larger blocks are given back, AllocatePanics happens.
NeverPanics == ~panicked

=============================================================================

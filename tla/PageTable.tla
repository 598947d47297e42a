------------------------------ MODULE PageTable ------------------------------
(***************************************************************************)
(* The page tables of the processes: the walk of hal/src/vm.rs, map, va2pa *)
(* and clean_up_page_table of arch/riscv/src/vm.rs, as assign_process, the *)
(* page fault handler and exit call them, on frames of PageAllocator.      *)
(*                                                                         *)
(* The kernel does one of these things at a time, under the lock of the    *)
(* architecture.  A step ends at a call of the allocator or at the store   *)
(* of an entry: a failure may come between any two.  Addresses are page    *)
(* numbers.  An entry is zero, bare (valid, with none of read, write and   *)
(* execute, whatever it leads to), a leaf (valid, with some of them), or   *)
(* junk.  What the image and the program put into a program's own frames   *)
(* is left out: they stay as the allocator hands them out, zeroed.         *)
(***************************************************************************)
EXTENDS PageAllocator, FiniteSets

CONSTANTS
    Entries,      \* NUMBER_OF_PAGE_TABLE_ENTRIES_PER_PAGE
    Levels,       \* NUMBER_OF_LEVELS
    MaxSpaces,    \* bound on the processes ever created
    Programs,     \* the PT_LOAD segments of each program, in the order of its image
    STACK_PAGES,
    HeapSizes     \* pages that a page fault in the heap maps

\* Start, pages and p_flags of a segment.
Segments == [va : Nat, size : Wanted, flags : SUBSET {"R", "W", "X"}]

ASSUME PageTableAssumption ==
    /\ Entries \in Nat \ {0, 1}
    /\ Levels \in Nat \ {0}
    /\ MaxSpaces \in Nat
    /\ \A program \in Programs : program \in Seq(Segments)
    /\ HeapSizes \cup {1, STACK_PAGES} \subseteq Wanted
    /\ 1 \in Freed

VARIABLES
    pte,        \* the entries of every frame, seen as a table
    space,      \* how far the address space of each process is
    root,       \* Process::page_table
    trapframe,  \* Process::trapframe
    heap_start, \* Process::heap_start
    who,        \* the process the kernel is working for, 0 for none
    todo,       \* the regions that are still to be mapped for it
    walk,       \* the region being mapped, and where the walk has got to
    path,       \* recursive_clean: the tables entered, and the index in each
    data,       \* the blocks that were allocated for anything but tables
    stopped     \* whether expect() or unwrap() met an error

job == <<who, todo, walk, path>>
ptvars == <<vars, pte, space, root, trapframe, heap_start, job, data, stopped>>

Spaces == 1..MaxSpaces
Indices == 0..(Entries - 1)

\* The pages below an entry of each level, and those of a whole address space.
Span[level \in 0..Levels] == IF level = 0 THEN 1 ELSE Entries * Span[level - 1]
VirtualPages == 0..(Span[Levels] - 1)

Nil == -1              \* no frame, and the errors of va2pa
TrampolineCode == -2   \* the frame of the trampoline, which is part of the kernel

\* hal/src/constants.rs
TRAMPOLINE  == Span[Levels] - 1
TRAPFRAME   == TRAMPOLINE - 2
KUCOM_PAGE  == TRAPFRAME - 2
STACK_START == KUCOM_PAGE - 1 - STACK_PAGES

Entry(kind, frame) == [kind |-> kind, to |-> frame]
Zero == Entry("zero", Nil)
Junk == Entry("junk", Nil)
is_valid(e) == e.kind \in {"bare", "leaf"}
ZeroTable == [i \in Indices |-> Zero]

Region(what, va, size, flags) == [what |-> what, va |-> va, size |-> size, flags |-> flags]
NoWalk == [level |-> Nil]

\* What assign_process maps for the image, with the flags the image gives it, and
\* map_other_pages behind it.
SegmentRegions(program) ==
    [i \in 1..Len(program) |->
        Region("segment", program[i].va, program[i].size, program[i].flags)]
OtherRegions ==
    << Region("stack", STACK_START, STACK_PAGES, {"R", "W"}),
       Region("trampoline", TRAMPOLINE, 1, {"R", "X"}),
       Region("trapframe", TRAPFRAME, 1, {"R", "W"}),
       Region("kucom", KUCOM_PAGE, 1, {"R", "W"}) >>
Regions(program) == SegmentRegions(program) \o OtherRegions

PtTypeOK ==
    /\ pte \in [Addresses -> [Indices -> [kind : {"zero", "bare", "leaf", "junk"},
                                          to : Addresses \cup {Nil, TrampolineCode}]]]
    /\ space \in [Spaces -> {"none", "new", "loading", "living", "failed", "exiting", "gone"}]
    /\ root \in [Spaces -> Addresses \cup {Nil}]
    /\ trapframe \in [Spaces -> Addresses \cup {Nil}]
    /\ heap_start \in [Spaces -> Nat]
    /\ who \in Spaces \cup {0}
    /\ walk = NoWalk \/ (walk.level \in 0..(Levels - 1) /\ walk.left \in 1..Head(todo).size)
    /\ Len(path) <= Levels
    /\ data \subseteq [start : Addresses, size : Wanted]
    /\ stopped \in BOOLEAN

PtInit ==
    /\ Init
    /\ pte = [f \in Addresses |-> [i \in Indices |-> Junk]]
    /\ space = [p \in Spaces |-> "none"]
    /\ root = [p \in Spaces |-> Nil]
    /\ trapframe = [p \in Spaces |-> Nil]
    /\ heap_start = [p \in Spaces |-> 0]
    /\ who = 0
    /\ todo = <<>>
    /\ walk = NoWalk
    /\ path = <<>>
    /\ data = {}
    /\ stopped = FALSE

-----------------------------------------------------------------------------
(* Calls of the allocator *)

Allocated == CHOOSE b \in live' \ live : TRUE

\* A block of m pages is handed out; as tables its frames are what the allocator
\* left in them.
Allocates(m) ==
    /\ allocate(m)
    /\ live' # live
    /\ pte' = [f \in Addresses |->
                 IF f \in BlockPages(Allocated) /\ content'[f] = "zero" THEN ZeroTable
                 ELSE pte[f]]

\* ok_or(MemoryNotAvailable), or the allocator itself panics.
AllocationFails(m) ==
    /\ AllocateNone(m) \/ AllocatePanics(m)
    /\ UNCHANGED pte

\* set_physical_address and the setters of the flags OR their bits into the entry: what
\* is there already blends with them.
Ored(old, e) ==
    IF old.kind = "zero" THEN {e}
    ELSE {Entry(kind, frame) : kind \in {"bare", "leaf"}, frame \in Addresses}

\* The entry of a table is written.
Stores(t, i, e) ==
    /\ ClientWrites(Block(t, 1))
    /\ \E x \in Ored(pte[t][i], e) : pte' = [pte EXCEPT ![t][i] = x]

Idle == ~stopped /\ ~panicked /\ who = 0
Busy == ~stopped /\ ~panicked /\ who # 0

-----------------------------------------------------------------------------
(* assign_process *)

\* The page table, and the trapframe: both are unwrapped.
assign_process(p, program) ==
    /\ Idle
    /\ space[p] = "none" /\ \A q \in 1..(p - 1) : space[q] # "none"
    /\ Allocates(1)
    /\ root' = [root EXCEPT ![p] = Allocated.start]
    /\ space' = [space EXCEPT ![p] = "new"]
    /\ who' = p
    /\ todo' = Regions(program)
    /\ UNCHANGED <<trapframe, heap_start, walk, path, data, stopped>>

NewTrapframe ==
    /\ Busy /\ space[who] = "new"
    /\ Allocates(1)
    /\ trapframe' = [trapframe EXCEPT ![who] = Allocated.start]
    /\ data' = data \cup {Allocated}
    /\ space' = [space EXCEPT ![who] = "loading"]
    /\ UNCHANGED <<root, heap_start, job, stopped>>

NewFails ==
    /\ \/ Idle /\ \E p \in Spaces : space[p] = "none"
       \/ Busy /\ space[who] = "new"
    /\ AllocationFails(1)
    /\ stopped' = TRUE
    /\ UNCHANGED <<space, root, trapframe, heap_start, job, data>>

\* What the heap's page fault handler and every mapping of assign_process do with an
\* error: a segment's is returned and leaves the process half made, that of
\* map_other_pages panics, and an error in a fault stops the kernel too.
Error ==
    /\ IF Head(todo).what = "segment"
       THEN /\ space' = [space EXCEPT ![who] = "failed"]
            /\ who' = 0
            /\ UNCHANGED stopped
       ELSE /\ stopped' = TRUE
            /\ UNCHANGED <<space, who>>
    /\ todo' = <<>>
    /\ walk' = NoWalk
    /\ UNCHANGED <<root, trapframe, heap_start, path, data>>

\* Where the walk for a page starts.
Walk(va, pa, left) ==
    [level |-> Levels - 1, table |-> root[who], child |-> Nil,
     va |-> va, pa |-> pa, left |-> left]

Mapping == Busy /\ space[who] \in {"loading", "living"} /\ todo # <<>>

\* Mutant: one page is allocated, whatever is mapped.
OneFrame(region) == 1

\* The pages that are allocated for a region.
FramesFor(region) == region.size

\* A region on memory of its own.
StartRegion ==
    /\ Mapping /\ walk = NoWalk
    /\ Head(todo).what \notin {"trampoline", "trapframe"}
    /\ Allocates(FramesFor(Head(todo)))
    /\ data' = data \cup {Allocated}
    /\ walk' = Walk(Head(todo).va, Allocated.start, Head(todo).size)
    /\ UNCHANGED <<space, root, trapframe, heap_start, who, todo, path, stopped>>

StartFails ==
    /\ Mapping /\ walk = NoWalk
    /\ Head(todo).what \notin {"trampoline", "trapframe"}
    /\ AllocationFails(FramesFor(Head(todo)))
    /\ Error

\* The trampoline's code and the trapframe have their frames already.
StartFixed ==
    /\ Mapping /\ walk = NoWalk
    /\ \/ Head(todo).what = "trampoline" /\ walk' = Walk(TRAMPOLINE, TrampolineCode, 1)
       \/ Head(todo).what = "trapframe"  /\ walk' = Walk(TRAPFRAME, trapframe[who], 1)
    /\ UNCHANGED <<vars, pte, space, root, trapframe, heap_start, who, todo, path, data, stopped>>

-----------------------------------------------------------------------------
(* get_page_table_entry_address and map *)

Walking(l) == Mapping /\ walk # NoWalk /\ walk.level \in l

level_to_index(level, va) == (va \div Span[level]) % Entries

Here == pte[walk.table][level_to_index(walk.level, walk.va)]

WalkDown ==
    /\ Walking(1..Levels)
    /\ is_valid(Here)
    /\ walk' = [walk EXCEPT !.table = Here.to, !.level = @ - 1]
    /\ UNCHANGED <<vars, pte, space, root, trapframe, heap_start, who, todo, path, data, stopped>>

WalkAllocates ==
    /\ Walking(1..Levels)
    /\ ~is_valid(Here) /\ walk.child = Nil
    /\ Allocates(1)
    /\ walk' = [walk EXCEPT !.child = Allocated.start]
    /\ UNCHANGED <<space, root, trapframe, heap_start, who, todo, path, data, stopped>>

WalkLinks ==
    /\ Walking(1..Levels)
    /\ walk.child # Nil
    /\ Stores(walk.table, level_to_index(walk.level, walk.va), Entry("bare", walk.child))
    /\ walk' = [walk EXCEPT !.table = walk.child, !.level = @ - 1, !.child = Nil]
    /\ UNCHANGED <<space, root, trapframe, heap_start, who, todo, path, data, stopped>>

\* What was linked and mapped so far stays.
WalkFails ==
    /\ Walking(1..Levels)
    /\ ~is_valid(Here) /\ walk.child = Nil
    /\ AllocationFails(1)
    /\ Error

\* Mutant: an entry in use is overwritten.
NeverTaken(e) == FALSE

Taken(e) == is_valid(e)

PageAlreadyMapped ==
    /\ Walking({0})
    /\ Taken(Here)
    /\ UNCHANGED <<vars, pte>>
    /\ Error

\* The entry of a mapped page has the flags of its region, which may be none.
PageEntry(region, frame) == Entry(IF region.flags = {} THEN "bare" ELSE "leaf", frame)

\* The heap is moved behind the start of every segment that starts behind it.
HeapBehind(start, region) ==
    IF region.what = "segment" /\ start <= region.va THEN start + region.va + 1 ELSE start

MapPage ==
    /\ Walking({0})
    /\ ~Taken(Here)
    /\ Stores(walk.table, level_to_index(0, walk.va), PageEntry(Head(todo), walk.pa))
    /\ IF walk.left > 1
       THEN /\ walk' = Walk(walk.va + 1, walk.pa + 1, walk.left - 1)
            /\ UNCHANGED <<space, heap_start, who, todo>>
       ELSE /\ walk' = NoWalk
            /\ todo' = Tail(todo)
            /\ heap_start' = [heap_start EXCEPT ![who] = HeapBehind(@, Head(todo))]
            /\ space' = [space EXCEPT ![who] = IF Tail(todo) = <<>> THEN "living" ELSE @]
            /\ who' = IF Tail(todo) = <<>> THEN 0 ELSE who
    /\ UNCHANGED <<root, trapframe, path, data, stopped>>

\* A page fault in the heap, which the handler maps as one region.
HeapFault(p, size) ==
    /\ Idle
    /\ space[p] = "living"
    /\ who' = p
    /\ todo' = << Region("heap", heap_start[p], size, {"R", "W"}) >>
    /\ UNCHANGED <<vars, pte, space, root, trapframe, heap_start, walk, path, data, stopped>>

-----------------------------------------------------------------------------
(* clean_up_page_table, called by exit *)

exit(p) ==
    /\ Idle
    /\ space[p] = "living"
    /\ space' = [space EXCEPT ![p] = "exiting"]
    /\ who' = p
    /\ path' = << [table |-> root[p], index |-> 0] >>
    /\ UNCHANGED <<vars, pte, root, trapframe, heap_start, todo, walk, data, stopped>>

Cleaning == Busy /\ space[who] = "exiting"
Deepest == path[Len(path)]
AtEntry == Cleaning /\ Deepest.index < Entries
Found == pte[Deepest.table][Deepest.index]
Advanced(s) == [s EXCEPT ![Len(s)].index = @ + 1]

\* Mutant: whatever is valid is a table.
AnyValid(e) == is_valid(e)

\* None of read, write and execute: recursive_clean takes it for a table.
IsTable(e) == e.kind = "bare"

CleanTable ==
    /\ AtEntry
    /\ IsTable(Found)
    /\ path' = Append(path, [table |-> Found.to, index |-> 0])
    /\ UNCHANGED <<vars, pte, space, root, trapframe, heap_start, who, todo, walk, data, stopped>>

\* A leaf is cleared, and the frame it maps is nobody's from then on; an entry that
\* is not valid is passed over.
CleanEntry ==
    /\ AtEntry
    /\ ~IsTable(Found)
    /\ pte' = [pte EXCEPT ![Deepest.table][Deepest.index] = IF is_valid(@) THEN Zero ELSE @]
    /\ path' = Advanced(path)
    /\ UNCHANGED <<vars, space, root, trapframe, heap_start, who, todo, walk, data, stopped>>

\* The end of a call of recursive_clean: the table is given back, with a Node in its
\* first entries, and the caller clears the entry that led to it.
CleanDone ==
    /\ Cleaning /\ Deepest.index = Entries
    /\ deallocate(Block(Deepest.table, 1))
    /\ LET freed == [pte EXCEPT ![Deepest.table][0] = Junk]
           above == SubSeq(path, 1, Len(path) - 1) IN
       IF above = <<>>
       THEN /\ pte' = freed
            /\ path' = <<>>
            /\ who' = 0
            /\ space' = [space EXCEPT ![who] = "gone"]
       ELSE /\ pte' = [freed EXCEPT ![above[Len(above)].table][above[Len(above)].index] = Zero]
            /\ path' = Advanced(above)
            /\ UNCHANGED <<who, space>>
    /\ UNCHANGED <<root, trapframe, heap_start, todo, walk, data, stopped>>

\* The kernel has stopped, or every process has come and gone.
PtHalted ==
    /\ stopped \/ panicked \/ (Idle /\ \A p \in Spaces : space[p] \in {"failed", "gone"})
    /\ UNCHANGED ptvars

PtNext ==
    \/ \E p \in Spaces, program \in Programs : assign_process(p, program)
    \/ NewTrapframe
    \/ NewFails
    \/ StartRegion
    \/ StartFails
    \/ StartFixed
    \/ WalkDown
    \/ WalkAllocates
    \/ WalkLinks
    \/ WalkFails
    \/ PageAlreadyMapped
    \/ MapPage
    \/ \E p \in Spaces, size \in HeapSizes : HeapFault(p, size)
    \/ \E p \in Spaces : exit(p)
    \/ CleanTable
    \/ CleanEntry
    \/ CleanDone
    \/ PtHalted

PtSpec == PtInit /\ [][PtNext]_ptvars

-----------------------------------------------------------------------------
(* Properties *)

\* The frame that va2pa finds, or Nil for NoSuchVirtualAddress: the same walk,
\* which stops where it meets an entry that is not valid.
va2pa(p, va) ==
    LET e(t, l) == pte[t][level_to_index(l, va)]
        table[l \in 0..(Levels - 1)] ==
            IF l = Levels - 1 THEN root[p]
            ELSE LET above == table[l + 1] IN
                 IF above # Nil /\ is_valid(e(above, l + 1)) THEN e(above, l + 1).to ELSE Nil
    IN IF table[0] # Nil /\ is_valid(e(table[0], 0)) THEN e(table[0], 0).to ELSE Nil

\* The tables that a table leads to.
Below(t) == {pte[t][i].to : i \in {j \in Indices : IsTable(pte[t][j])}}

\* The tables of a process, from the root down.
Tables(p) ==
    LET level[l \in 0..(Levels - 1)] ==
            IF l = Levels - 1 THEN {root[p]} \ {Nil}
            ELSE UNION {Below(t) : t \in level[l + 1]}
    IN UNION {level[l] : l \in 0..(Levels - 1)}

\* The processes whose tables are all in place.
Whole == {p \in Spaces : space[p] \in {"new", "loading", "living", "failed"}}

\* What va2pa finds is what was mapped: whatever tables map adds on its way, and
\* wherever it fails, every address space is a map that gains one page at a time on
\* a frame of its own, that keeps the pages it has until its process exits, and
\* that no other process's exit, fault or creation changes.
Mapped == INSTANCE VirtualMap WITH
    Spaces <- Spaces,
    VirtualPages <- VirtualPages,
    Frames <- Addresses,
    Shared <- {TrampolineCode},
    Unmapped <- Nil,
    mapping <- [p \in Spaces |-> [va \in VirtualPages |->
                    IF space[p] = "gone" THEN Nil ELSE va2pa(p, va)]],
    closed <- {p \in Spaces : space[p] \in {"exiting", "gone"}}

ImplementsVirtualMap == Mapped!Spec

\* No program can reach a page table: the frames that a process maps and the frames
\* of the tables are different ones, also when a table is made of a page that was a
\* table of a process that has exited.
NoTableIsMapped ==
    LET tables == UNION {Tables(p) : p \in Whole} IN
    \A p \in Whole : \A va \in VirtualPages : va2pa(p, va) \notin tables

\* recursive_clean enters tables only: it never takes a page of the program for a table,
\* which it would read as entries, clear and give back.
CleansTablesOnly == \A k \in 1..Len(path) : Block(path[k].table, 1) \in live \ data

\* Every block that is not free is a table of a process that has not exited or was
\* allocated for data, and no block of data is ever entered or freed.  So exit gives every
\* table back, and nothing else: what a process that has exited leaves allocated, with
\* no table that leads to it, is its data.
OnlyDataLeaks ==
    /\ CleansTablesOnly
    /\ data \subseteq live
    /\ who = 0 /\ ~stopped =>
         live \ data = {Block(t, 1) : t \in UNION {Tables(p) : p \in Whole}}

=============================================================================

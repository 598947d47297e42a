----------------------------- MODULE AddressSpace -----------------------------
(***************************************************************************)
(* The address space of one process: the segments that assign_process maps *)
(* and the heap that WantMemory grows and page faults fill                 *)
(* (kernel/src/process.rs, syscall.rs, traps.rs; map and va2pa of          *)
(* arch/riscv/src/vm.rs; the sizes of hal/src/constants.rs).               *)
(*                                                                         *)
(* Addresses are pages.  The program is any sequence of requests for       *)
(* memory, of accesses to its own memory, and of system calls that make    *)
(* the kernel read it.  An access that faults is tried again after the     *)
(* handler, as the hart does.  Frames are handed out in order: a block is  *)
(* contiguous, and the tables that map needed lie between two blocks       *)
(* (module PageTable has the tables themselves).                           *)
(***************************************************************************)
EXTENDS Naturals, Sequences, FiniteSets

CONSTANTS
    STACK_GUARD,  \* the page below the stack
    STACK_PAGES,
    Images,       \* the programs: sequences of segments [start, memsz]
    MAX_ALLOC,    \* the largest request that janglib lets through
    MAX_BUFFER,   \* bound on the pages of a buffer that a system call reads
    Frames        \* number of frames the allocator has for this process

ASSUME AddressSpaceAssumption ==
    /\ {STACK_GUARD, STACK_PAGES, MAX_ALLOC, MAX_BUFFER, Frames} \subseteq Nat \ {0}
    /\ Images \subseteq Seq([start : Nat, memsz : Nat \ {0}])

VARIABLES
    page_table,  \* the frame of each page, 0 when the page is not mapped
    used,        \* number of frames handed out
    heap_start, heap_end, currently_unmapped_start,
    blocks,      \* the sets of pages that one block of frames backs
    misread,     \* whether the kernel read anything but the program's buffer
    access,      \* the page of the access being tried, NoAccess when there is none
    denied,      \* whether the flags of its page forbid it: a store to code, say
    kernel       \* "ok", or why the kernel stopped

heap == <<heap_start, heap_end, currently_unmapped_start>>
tried == <<access, denied>>
vars == <<page_table, used, heap, blocks, misread, tried, kernel>>

STACK_START == STACK_GUARD + 1
Pages == 0..(STACK_GUARD + STACK_PAGES)
NoAccess == STACK_GUARD + STACK_PAGES + 1

Range(start, n) == start..(start + n - 1)
Mapped(a) == page_table[a] # 0
Running == kernel = "ok" /\ access = NoAccess

\* The heap ends at the guard page below the stack at the latest, however often it grew.
TypeOK ==
    /\ page_table \in [Pages -> 0..Frames]
    /\ used \in 0..Frames
    /\ heap_start \in Nat
    /\ {heap_end, currently_unmapped_start} \subseteq heap_start..STACK_GUARD
    /\ blocks \subseteq SUBSET Pages
    /\ misread \in BOOLEAN
    /\ access \in Pages \cup {NoAccess}
    /\ denied \in BOOLEAN
    /\ kernel \in {"ok", "already mapped", "no memory", "not mapped"}

-----------------------------------------------------------------------------
(* assign_process *)

\* heap_start after the loop over the segments.
HeapStart(segments) ==
    LET after[i \in 0..Len(segments)] ==
          IF i = 0 THEN 0
          ELSE IF after[i - 1] <= segments[i].start
               THEN after[i - 1] + segments[i].start + 1
               ELSE after[i - 1]
    IN after[Len(segments)]

\* What is mapped: the segments, and then the stack.
Loaded(segments) == Append(segments, [start |-> STACK_START, memsz |-> STACK_PAGES])

\* The frames used before each region is allocated, counting one frame for tables
\* behind each region.
Before(regions) ==
    LET before[i \in 1..(Len(regions) + 1)] ==
          IF i = 1 THEN 0 ELSE before[i - 1] + regions[i - 1].memsz + 1
    IN before

PagesOf(region) == Range(region.start, region.memsz)

\* The image was loaded: there was memory for it, and its segments overlap
\* neither each other nor the stack.
CanLoad(segments) ==
    LET regions == Loaded(segments) IN
    /\ Before(regions)[Len(regions) + 1] <= Frames
    /\ \A i \in DOMAIN segments : segments[i].start + segments[i].memsz <= STACK_GUARD
    /\ \A i, j \in DOMAIN segments : i # j => PagesOf(segments[i]) \cap PagesOf(segments[j]) = {}

\* The frame of page a when the regions have been mapped.
LoadedFrame(regions, a) ==
    IF \E i \in DOMAIN regions : a \in PagesOf(regions[i])
    THEN LET i == CHOOSE i \in DOMAIN regions : a \in PagesOf(regions[i]) IN
         Before(regions)[i] + 1 + (a - regions[i].start)
    ELSE 0

Init ==
    \E segments \in Images :
        LET regions == Loaded(segments) IN
        /\ CanLoad(segments)
        /\ used = Before(regions)[Len(regions) + 1]
        /\ page_table = [a \in Pages |-> LoadedFrame(regions, a)]
        /\ blocks = {PagesOf(regions[i]) : i \in DOMAIN regions}
        /\ misread = FALSE
        /\ heap_start = HeapStart(segments)
        /\ heap_end = heap_start
        /\ currently_unmapped_start = heap_end
        /\ access = NoAccess
        /\ denied = FALSE
        /\ kernel = "ok"

-----------------------------------------------------------------------------
(* The WantMemory system call *)

\* Mutant: the request alone is compared with the guard.
RequestFits(n) == n < STACK_GUARD

\* The heap stays below the guard page with n more pages.
Fits(n) == heap_end + n < STACK_GUARD

\* Mutant: want_memory moves the start of the unmapped part as well.
BothGrow(n) ==
    /\ heap_end' = heap_end + n
    /\ currently_unmapped_start' = heap_end + n

\* Nothing is mapped yet.
Grows(n) ==
    /\ heap_end' = heap_end + n
    /\ UNCHANGED currently_unmapped_start

want_memory(n) ==
    /\ Running
    /\ Fits(n)
    /\ Grows(n)
    /\ UNCHANGED <<page_table, used, heap_start, blocks, misread, tried, kernel>>

\* Err(MemoryNotAvailable).
WantMemoryFails(n) ==
    /\ Running
    /\ ~Fits(n)
    /\ UNCHANGED vars

-----------------------------------------------------------------------------
(* Accesses and page faults *)

Access(a, forbidden) ==
    /\ Running
    /\ access' = a
    /\ denied' = forbidden
    /\ UNCHANGED <<page_table, used, heap, blocks, misread, kernel>>

AccessSucceeds ==
    /\ kernel = "ok" /\ access # NoAccess
    /\ Mapped(access) /\ ~denied
    /\ access' = NoAccess
    /\ UNCHANGED <<denied, page_table, used, heap, blocks, misread, kernel>>

\* A page fault is taken for a page that is not mapped and for a mapped one whose
\* flags forbid the access; the handler does not tell them apart.
Faults == kernel = "ok" /\ access # NoAccess /\ (~Mapped(access) \/ denied)

\* Mutant: the first page of the window is left out.
InWindowStrictly == access > currently_unmapped_start /\ access < heap_end

\* The test of user_trap: the fault is in the part of the heap granted and not
\* mapped.
InWindow == access >= currently_unmapped_start /\ access < heap_end

Size == heap_end - heap_start

\* Mutant: the block is mapped from its end.
FrameFromEnd(a) == used + heap_end - a

\* The frame of page a when a block is mapped at heap_start.
FrameFor(a) == used + 1 + (a - heap_start)

\* The whole heap gets one block, from heap_start on.
PageFaultServed ==
    /\ Faults /\ InWindow
    /\ used + Size <= Frames
    /\ \A a \in Range(heap_start, Size) : ~Mapped(a)
    /\ page_table' = [a \in Pages |-> IF a \in Range(heap_start, Size) THEN FrameFor(a)
                                      ELSE page_table[a]]
    /\ used' = used + Size
    /\ currently_unmapped_start' = heap_end
    /\ blocks' = blocks \cup {Range(heap_start, Size)}
    /\ UNCHANGED <<heap_start, heap_end, misread, tried, kernel>>

\* The block does not fit, or map finds a page of the heap mapped already: user_trap
\* prints with a system call of its own and the kernel stops (module Kucom).  Nothing
\* looks at the pages that map filled in before it failed.
PageFaultFails ==
    /\ Faults /\ InWindow
    /\ kernel' = IF used + Size > Frames THEN "no memory" ELSE "already mapped"
    /\ \/ used + Size > Frames
       \/ \E a \in Range(heap_start, Size) : Mapped(a)
    /\ UNCHANGED <<page_table, used, heap, blocks, misread, tried>>

\* Any other fault: a returns Ok(()), nothing is mapped, the instruction is tried
\* again.
PageFaultElsewhere ==
    /\ Faults /\ ~InWindow
    /\ currently_unmapped_start' = heap_end
    /\ UNCHANGED <<page_table, used, heap_start, heap_end, blocks, misread, tried, kernel>>

\* The buffers that a program passes to Write and Spawn: inside a segment, the stack
\* or the heap it was granted, and all but the first page written by the program.
Granted(a) == a >= heap_start /\ a < heap_end
IsBuffer(a, n) ==
    /\ \/ \E block \in blocks : Range(a, n) \subseteq block
       \/ \A b \in Range(a, n) : Granted(b)
    /\ \A b \in Range(a, n) \ {a} : b \in Pages /\ Mapped(b)

\* UserMemorySlice::read: va2pa finds the first page, or its error is unwrapped; the
\* rest is read behind it in physical memory.
FrameRead(a, i) == page_table[a] + i

SyscallReads(a, n) ==
    /\ Running
    /\ IsBuffer(a, n)
    /\ kernel' = IF Mapped(a) THEN "ok" ELSE "not mapped"
    /\ misread' = (Mapped(a) /\ \E i \in 0..(n - 1) : FrameRead(a, i) # page_table[a + i])
    /\ UNCHANGED <<page_table, used, heap, blocks, tried>>

Halted == kernel # "ok" /\ UNCHANGED vars

PageFault == PageFaultServed \/ PageFaultFails \/ PageFaultElsewhere

Next ==
    \/ \E n \in 0..MAX_ALLOC : want_memory(n) \/ WantMemoryFails(n)
    \/ \E a \in Pages, forbidden \in BOOLEAN : Access(a, forbidden)
    \/ AccessSucceeds
    \/ PageFault
    \/ \E a \in Pages, n \in 1..MAX_BUFFER : SyscallReads(a, n)
    \/ Halted

Spec == Init /\ [][Next]_vars

\* A trap is always taken and the instruction tried again.
FairSpec == Spec /\ WF_vars(AccessSucceeds \/ PageFault)

-----------------------------------------------------------------------------
(* Properties *)

\* As long as the program runs, everything below currently_unmapped_start is
\* backed: no page of the heap is left behind that no later fault would map.  (A
\* fault elsewhere moves the mark too, but that program never runs again.)
BelowMarkIsBacked ==
    Running => \A a \in heap_start..(currently_unmapped_start - 1) : Mapped(a)

\* The kernel translates the first page of a buffer only: the pages behind it in
\* memory are those of the buffer all the same, in every region and however the heap
\* was grown and filled.
ReadsTheBuffer == ~misread

\* A load or a store to granted memory ends: it never faults for ever.
GrantedAccessEnds ==
    (access # NoAccess /\ Granted(access) /\ ~denied) ~> (access = NoAccess \/ kernel # "ok")

-----------------------------------------------------------------------------
(* What the repository says of the code and the code does not do *)

\* want_memory answers Ok((start, size)): memory that the program may use, however
\* often it asks.  A page fault in it never finds a page mapped already.
GrantedCanBeUsed == kernel # "already mapped"

=============================================================================

# A TLA+ model of jangri

jangri is an xv6-style kernel for one RISC-V hart, with a shell and one more
program. These modules model its core: processes and scheduling, system calls,
the physical page allocator down to its pointers, page tables, the locks under
interrupts, the console, and the heap of a process. TLC checks them on small
instances; TLAPS proves every safety invariant that the runs check, for all sizes,
and the refinements between the kernel's layers.

## The system and its parts

| Part | State | Operations | What makes it correct |
|---|---|---|---|
| Processes and scheduler (`kernel/src/process.rs`, `scheduler.rs`, `global_state.rs`) | process map, run queue `pids`, `current_process`, saved contexts | `schedule`, `find_ready_process`, `switch_context`, `assign_process`, `yield_cpu` | nobody is lost, starved, woken for nothing or left asleep; exit is final |
| Traps and system calls (`traps.rs`, `syscall.rs`) | trapframes, KUCOM pages | `user_trap`, `supervisor_trap`, the seven system calls | user mode is entered with one process's page table and pc |
| System call wrappers (`janglib/src/lib.rs`) | the KUCOM page as the program sees it | `write_syscall`, `ecall`, `get_result`, the panic handler | each call gets its own answer; a panic ends the program |
| Page allocator (`allocator/`) | bitmap words, free lists inside the free pages, bump pointer | `allocate`, `deallocate` | blocks are disjoint, complete, zeroed; bitmap and pointers agree with what is free |
| Page tables (`arch/riscv/src/vm.rs`, `vm/pte.rs`, `hal/src/vm.rs`) | four levels of tables in pages of the allocator | `map`, `va2pa`, `clean_up_page_table` | each space is the map its calls made; tables are private, clean and all given back |
| Spinlock (`sync/`, nesting state in `arch/riscv/src/lib.rs`) | `is_locked`, `holding_hart`, `NESTING_LEVEL`, saved interrupt status | `lock`, `try_lock`, `unlock`, `push`, `pop` | interrupts are off under a lock and come back exactly as they were |
| Reader-writer lock (`sync/src/rwlock.rs`) | `num_readers` in a `Mutex` | shared and exclusive lock, try, unlock | a writer is alone and never waits for somebody who cannot run |
| Console (`arch/riscv/src/uart.rs`, `plic.rs`, `janglib/src/io.rs`) | receive FIFO, claimed interrupt, `TX_BUSY`, `CURSOR_POSITION`, `INPUT_BUFFER`, the line being read | `handle_external_interrupt`, `write_char`, `ReadChar`, `read` | the shell reads what the user saw; no byte stays behind |
| Shell (`userspace/src/sh`) | the line | prompt loop, commands | it never ends |
| User memory (`process.rs`, `syscall.rs`, `traps.rs`, `janglib/src/memory.rs`) | page table, `heap_start`, `heap_end`, `currently_unmapped_start` | loading, `want_memory`, page faults, the kernel's reading of buffers | granted memory can be used and is nobody else's; the kernel reads the buffer it was given |

They interact by calls and shared state on the one hart: a trap from user mode
runs the kernel with interrupts off until it returns or switches to the scheduler;
an interrupt in the kernel runs `supervisor_trap` on top of whatever runs. The hard
parts are: what a process finds after it gave up the hart in the middle of a trap;
interrupts between two steps of a lock; failures halfway through a spawn or a `map`;
long sequences of allocations; pages that change their use; bytes that arrive while
others are being read.

## Modules

| Module | Is |
|---|---|
| `Scheduler` | abstract: who has the hart, who wants it, who awaits whom |
| `Processes` | the process table, queue and contexts; implements `Scheduler` |
| `Kucom` | `Processes` together with the wrappers of janglib and the KUCOM pages |
| `PageAllocator` | `allocate` and `deallocate` on sequences and a set |
| `FreeLists` | `PageAllocator` together with the pointers and words that represent them |
| `VirtualMap` | abstract: address spaces as partial maps |
| `PageTable`, `MCPageTable` | the tables of all processes, on `PageAllocator`, and its programs; implements `VirtualMap` |
| `Mutex`, `RwLock` | the spinlock under interrupts, and the lock built on it |
| `Console` | UART, PLIC, handler, `write_char`, `Write`, `ReadChar`, `read` and the shell |
| `AddressSpace`, `MCAddressSpace` | the heap and buffers of one program, and its images |
| `ProcessesProofs`, `KucomProofs`, `PageAllocatorProofs`, `FreeListsProofs`, `PageTableProofs`, `LocksProofs`, `ConsoleProofs`, `AddressSpaceProofs` | the theorems about the module of that name; `LocksProofs` is about `Mutex` and `RwLock` |

**`Processes`** has one action per handler. A handler is one step up to its context
switch, because interrupts are off and only the console's handler could run in
between; what follows the switch is `Resume`. `ReturnToUser` takes the page table
from the trapframe the trap read *before* the switch and the pc from
`current_process` *after* it, as the code does. `exit` models what the code really
does: `remove_from_vec` and the loop that would clear the children's parent build
iterators and drop them.

**`Kucom`** extends `Processes`. A program writes its call to its page, executes
`ecall`, and reads the result, in three steps with anything in between; the kernel's
`handle` finds the call, acts through the actions of `Processes`, and writes the
result, for `Yield` only after it has been resumed. A panic of the program makes the
two calls of janglib's panic handler. An exception of a program puts the hart into
the state "exception" (`Processes`), the branch of `user_trap` that holds the lock of
the process and reports the exception. `Kucom` has the report in steps: its `println!`
is janglib's, so the kernel writes a call to what lies at `KUCOM_PAGE` in its own page
table (`KernelPrints`), its `ecall` goes to the firmware (`FirmwareReturns`), and
`get_result` finds the call and panics (`KernelGetResult`).

**`PageAllocator`** counts in pages. A free list is the sequence of its blocks, the
bitmap the set of sizes marked, and each page holds zeroes, a header or data. One
action per path through `allocate`. **`FreeLists`** conjoins to each of these actions
what it does to `head`, `next`, `prev` and the words of the bitmap. `next` and `prev`
lie in the pages: handing a page out zeroes them, a client overwrites them. The
actions `deallocate(b)` and `ClientWrites(b)` do what the code does for any `b`; that
`b` is allocated is what `Next` says of the clients, and what a module that calls them
has to prove of itself.

**`PageTable`** lets the kernel build, extend and tear down address spaces. A step
ends at a call of the allocator or at the store of an entry, so that a failure can
come between any two. A program is a sequence of `PT_LOAD` segments with their flags,
which may overlap. An entry is known by its bits, as in the code: valid without read,
write and execute it is "bare", whether it leads to a table or to a page, and
`recursive_clean` takes it for a table. A store ORs into the entry: only on zero does it
give what was stored. The refinement maps each process to what `va2pa` finds.

**`Mutex`** splits `push`, `lock`, `try_lock`, `unlock` and `pop` at every point where
an interrupt can matter, for kernel code and for a handler on top of it, with any
locks in any order, and models SIE and stvec on the way to and from user mode.
**`RwLock`** adds the operations on the process map's lock.

**`Console`** starts while `main` prints its last line with interrupts on. Afterwards
any program may print with `Write`, one character after the other; `SIE` says whether
an interrupt can come, of the receiver or of the transmitter. A byte goes from the FIFO
through the handler (one byte per step) and the system call to the shell. What the user sees (`screen`, `shown`, `heard`) is kept in variables that no
code reads.

**`AddressSpace`** has the page table as a function, the three heap marks, and the
access being tried, which is repeated after a fault; it faults when its page is not
mapped or when the page's flags forbid it (`denied`). `blocks` records the buffers the
program may pass to a system call.

Operators commented as mutants (`WakeAlways`, `BitKept`, ...) are faulty versions
of the definition after them. Nothing uses them in the model: put in place of the
original they make the named property fail, which shows that it can.

## Runs

| Run | Bounds | Shows |
|---|---|---|
| `processes` | 4 pids, 3 with stacks | `TypeOK`, `ExitNeverResumes`, `NoLostWakeup`, `SomeoneCanRun`, `ReturnsToItself`, `QueueComplete`, `WaitsForItsChild`, `StarvationFree`, and with fairness `ImplementsScheduler` |
| `kucom` | 2 pids | `KuTypeOK`, `PageFollowsWrapper`, `PanicEnds` |
| `allocator_any` | 7 pages, sizes 1 to 3, two words of two bits | `TypeOK`, `NoOverlap`, `NothingLost`, `HeadersIntact`, `HandsOutZeroes`; `ListsAreChains`, `FirstAvailableIsSmallest` |
| `page_table` | 4 levels of 2 entries, 35 pages, 3 processes, 3 programs | `PtTypeOK`, `NoTableIsMapped`, `OnlyDataLeaks`, `ImplementsVirtualMap`; of the allocator, given single pages back, `NeverPanics` |
| `locks` | 3 locks: one taken twice, one taken by handlers, one inside the `RwLock`; 2 readers, 1 failed `try_lock` | `RwTypeOK`, `LockedMeansMasked`, `InterruptsRestored`, `LevelCounts`, `NoInterruptThroughUserVector`, `WriterAlone`, `WriterWaitsForItself` |
| `console` | 4 bytes, buffer of 3, FIFO of 2 | `TypeOK`, `LineAsShown`, `FirstLineSafe`, `HangsAtBootOnly`, `LineArrives` |
| `address_space` | 6 pages below the guard, 9 frames, 3 programs, buffers of 2 pages | `TypeOK` (with the heap below the guard), `BelowMarkIsBacked`, `ReadsTheBuffer`, `GrantedAccessEnds` |

The bounds are the smallest in which everything happens: four processes give a
grandchild whose parent is gone and two children of one parent, one of them awaited;
two programs are enough to overwrite each other's page, if they shared it; seven
pages give a block that is freed, split, freed and split again, and two words a
search that crosses from one to the other; 35 pages hold two address spaces and not
three, so that every allocation can fail and tables are reused for other spaces, and
the programs have one segment, two side by side, or two that overlap, so that `map`
fails within an image; three locks nest under a handler's lock; four bytes overflow the
buffer of three, and are enough for `shutdown`, newline, `y`, newline; nine frames are enough for one growth and too few for another. `MaxPid`,
`MaxSpaces`, `MaxInput`, `MaxFailed`, `MaxReaders` and `Frames` bound counters that
the code does not bound.

Five more runs end in a violation. Each states what the repository says and the
code does not do:

| Run | Property | What happens |
|---|---|---|
| `processes_stacks` | `EveryProcessHasStack` | pids are never reused nor compared with `MAXIMUM_PROCESS`: the 64th process has no kernel stack |
| `processes_failed_spawn` | `FailedSpawnLeavesNothing` | a process is Ready before its image is parsed; a failed spawn leaves it in the queue |
| `page_table_flags` | `CleansTablesOnly` | `p_flags` are not tested; a segment with none of R, W and X is cleaned and freed as a table when its process exits |
| `console_erase` | `ShellSurvives` | `CURSOR_POSITION` outlives the line; an erasure on an empty line ends the shell |
| `address_space_growth` | `GrantedCanBeUsed` | the second growth of a heap is mapped from `heap_start` again, which stops the kernel |

Five things that the passing runs reach are worth knowing. An exception of a program
stops the kernel: the message "Exception Occured: Terminating process" (`traps.rs:101`)
is printed with janglib's `println!`, which nobody answers inside the kernel, so that
`get_result` panics (`janglib/src/lib.rs:76`), and the panic handler, which prints the
same way, panics again; had it been printed, `exit` would lock the process that
`traps.rs:62` keeps locked, and `Mutex::lock` panics. A split clears the bit of the
size wanted, not of the list it emptied (`page_allocator.rs:77`): in `allocator_any`
this reaches `AllocatePanics`, in `page_table`, where single pages only are given
back, it cannot. `exit` gives all tables back and no data (`OnlyDataLeaks`). A
`try_lock` that fails leaves the nesting level raised (`LevelCounts` counts it), so no
later `unlock` of the kernel enables interrupts. A key pressed while the last boot
line is being sent can hang the machine; later none can, since `Write` prints with
interrupts off (`HangsAtBootOnly`).

## Fairness

`Processes`: weak fairness of `schedule`, of the code behind a switch and of the
exception handler (the hart executes), and of the timer interrupt: `set_next_timer_interrupt` re-arms it in
both trap handlers, and user mode never masks it. No fairness of spawn, exit or yield.
`ImplementsScheduler` shows that this gives the abstract scheduler strong fairness of
every process's dispatch. `Kucom`: the same, and strong fairness for each program: it
may be preempted between any two steps, but a time slice is longer than a wrapper.
`Console`: weak fairness of the handler's steps, which nothing interrupts; strong
fairness of the receiver's interrupt, of the shell (`StarvationFree`) and of what
prints: each of them waits while another has the hart, again and again, and is not
passed over for ever; the boot line ends, and so does a `Write`. `AddressSpace`: a trap is taken and the
instruction tried again.

## Proofs

Every invariant that a passing run checks is a theorem for all values of the
constants. Assumed are only the named `ASSUME`s: the sizes are positive numbers,
`Wanted` holds positive sizes, `Freed` sizes that `deallocate`'s assertions let
through, the bytes of `Console` are told apart, the lock in the `RwLock` is not
taken by handlers, an image is a sequence of segments of at least one page. Three
hypotheses are stated in the theorems that need them, and named below: `FlagsGiven`,
`Freed \subseteq {1}` and `HeapsFit`.

Each module has one inductive invariant (`IInv`, or `KuInv`, `RwInv`, `FlInv`,
`PtInv` beside the `IInv` of the module it extends), one lemma per action, and the
properties follow from it. A module that extends another is first shown to implement
it, so that the invariant of the lower module is there to use. For `Kucom`, `RwLock` and
`FreeLists`, whose actions are those of the lower module with more conjuncts, this is a
lemma without content of its own. For `PageTable` it is a theorem: it has to be shown
that what it writes to and gives back is allocated.

**`ProcessesProofs`.** `NoLostWakeup` needs that only the process on the hart can be
Waiting and run (`HartInv`), `ExitNeverResumes` that a context saved in `exit`
belongs to a Terminated process (`ContextInv`), and both that pids above `PID` are
unused (`TableInv`). By projection: `TypeCorrectness`, `WakeupsAreNotLost`,
`ExitIsFinal`, `ReturnsAreConsistent`, `RunningMeansHart`, `QueueIsSound`. Further:

- `NoDeadlock`: take the youngest waiting process. It waits for a younger one, which is
  alive and not waiting, hence Ready or on the hart;
- `WaitsEndProperly`, an action property, step by step from `IInv`;
- `ImplementsSchedulerSafely`: under the refinement mapping of `Processes`, each
  action is a step of `Scheduler` or leaves its variables alone. `NoLostWakeup` is
  what makes `exit` wake exactly those who await the process.

**`KucomProofs`.** Each step of a wrapper leaves the process table alone or is a step
of it (`KuImplementsProcesses`). `PagesAreInStep` needs that a process whose answer
is outstanding behind a switch has called `Yield` (`YieldingInv`), and that one that
was switched out behind `Yield` still has its answer to come, so that the context
`Resume` looks at is not left over from an earlier call (`SuspendedInv`).

**`PageAllocatorProofs`.** `NoOverlap` with `TypeOK` and
`current_start + current_size = Pages` is inductive; `HeadersIntact` and `NothingLost`
follow the blocks through each way of splitting one. `BlocksNeverOverlap` holds for
any sizes, the faulty bitmap included: it leads to a panic, never to an overlap.
`HandedOutIsZero` is an action property. `SinglePagesNeverPanic` assumes
`Freed \subseteq {1}`, which is how `recursive_clean` uses the allocator, and adds
that only the list of single pages is ever non-empty.

**`FreeListsProofs`.** `FlInv` relates representations: `Chains` says that `head`,
`next` and `prev` spell out each list, `BitsOf` that the words hold the bitmap. The
pointers lie in free pages, so that `NoOverlap` and `HeadersIntact` are what keeps a
client's write from breaking a chain. `FlIsSafe` carries the allocator's properties
over.

**`PageTableProofs`.** All its theorems have the hypothesis `FlagsGiven`: every segment
of every program has one of R, W and X. The code does not test it, and `page_table_flags`
shows what happens otherwise. With it an entry tells a table from a page, and `PtInv` says that the tables of all processes form a forest: a
map gives every table a level, an entry leads one level down, no two entries to one
table, and on the lowest level to data or the trampoline (`Forest`, `RootInv`); that a
`map` under way stands at a table of the level it works on and maps data
(`WalkInv`); and that the calls of `recursive_clean` are a path from the root
(`PathInv`). Each store of an entry and each
free is shown to keep the forest. Then `TablesAreNeverMapped`, because the leaves are
no tables, and `TablesAreGivenBack`, because what is allocated is in the forest or is
data; a store meets a zero entry, so that ORing does no harm. `PtImplementsPageAllocator`
is that `map` writes to allocated frames only and `recursive_clean` frees each table
once. `PtNeverPanics` assumes `Freed \subseteq {1}` as well.

**`LocksProofs`.** Of the properties of `Mutex` none is inductive alone. `LevelCounts`
is proved term by term, with `HolderInv` (a lock is taken exactly by the code that has
its guard or is about to get it), `HandlerInv` and `TryInv` (a handler runs only where
kernel code outside all locks was interrupted), `MaskInv` (the level is zero wherever
interrupts are on) and `SavedInv` (where SIE as the kernel code had it is kept: in SIE,
in what `push` has read, or in the saved status; so the interrupt between the two
halves of `push` does no harm). For the `RwLock`, `CountInv` says that `num_readers` counts the read guards.

**`ConsoleProofs`.** `LineAsShown` is about a fold over the queued bytes, and
`ToBeRead` is that fold. The invariant `OnItsWay` says that there is a function that
takes the line in `read`, byte by byte, to the lines on the screen: the handler
extends it at its end (`WayAppend`), `ReadChar` cuts it at its beginning (`WayHead`),
and when `read` returns a line, the line comes off every value of it (`WayReturn`).
`WayIsRead` shows that this function is the one that `ToBeRead` defines. `CursorInv`
says that `CURSOR_POSITION` is never behind the screen's line and is ahead of it only
after a line of text; each queued erasure without a character has such a line before
it (`Backed`), and so `FirstLineSafe`. `NoHangAfterBoot` needs that `TX_BUSY` is taken
only by what prints, and that a `Write` which holds it has interrupts off and no handler
above it (`BusyInv`).

**`AddressSpaceProofs`.** `heap_start` lies behind the start of every segment
(`HeapStartFacts`), hence whatever is mapped from there up to the guard is one block
that contains `heap_start`: the end of a segment, or the heap (`HeapIsOneBlock`). So a
fault is served only when nothing of the heap is mapped, and a buffer is always in
one block, whose frames are in order (`Contiguous`). `TypeCorrectness` has the
hypothesis `HeapsFit`: the sum that `assign_process` computes for `heap_start` is not
past the guard, as for every program linked with `userspace.ld`, whose few segments
start at the bottom of the address space; the code does not check it, and the other
two theorems do not need it.

Induction over levels, lists and bytes is done by the least counterexample (lemma
`Least`, from the well-foundedness of `<`), and recursive functions are shown to exist
the same way (`Recursion`), because the induction theorems of the library take an
operator as parameter, which the provers cannot instantiate.

Only model-checked: `ImplementsVirtualMap`; and all liveness (`StarvationFree`,
`PanicEnds`, `LineArrives`, `GrantedAccessEnds`, the fairness of
`ImplementsScheduler`), which the prover does not do.

## Not modelled

- Boot, the kernel's own page table and the device tree: straight-line code whose
  result is the initial state of the modules. `wake_up_other_cores` prepares an SBI
  call and never executes it, so there is one hart.
- Saving and restoring registers in the trampoline: assembler without control.
- The heap of janglib above `WantMemory`: it is the crate talc.
- Formatting and what programs print; the text of the shell's commands; greet, which
  prints one line and exits.
- The RAM file system, `unmap`, `is_leaf_pte`, `LinkedList::remove`,
  `Process::wait`: nothing uses them.
- Wrap-around of `heap_end` for a request that does not come through janglib.

## Left to prove

`ImplementsVirtualMap` is a safety property. What is missing is what `va2pa` finds after
each store of an entry, and, beyond `PtInv`, that the frames still to be mapped, the
trapframe among them, are in no leaf, that a new child table has no valid entries, that
the entries `recursive_clean` has passed are not valid, and that a virtual page is
determined by its indices.

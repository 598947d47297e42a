------------------------------- MODULE Console -------------------------------
(***************************************************************************)
(* The way of a key from the UART to the shell: the interrupt handler      *)
(* (arch/riscv/src/uart.rs), which echoes, edits and queues bytes, the     *)
(* ReadChar system call (kernel/src/syscall.rs), the line reader of        *)
(* janglib (io.rs) and the loop of the shell (userspace/src/sh/main.rs).   *)
(*                                                                         *)
(* The handler runs one byte per step while bytes keep arriving; it holds  *)
(* the lock of INPUT_BUFFER and runs with interrupts off, so the shell     *)
(* stands still until it is done (module Mutex).  Between two steps of the *)
(* shell the handler may run.  Every byte that is printed goes through     *)
(* write_char, which takes TX_BUSY, stores the byte and releases it: main  *)
(* prints its last boot message with interrupts on, programs print through *)
(* the Write system call, and the handler echoes.  What is printed is left *)
(* out.                                                                    *)
(***************************************************************************)
EXTENDS Naturals, Sequences, SequencesExt

CONSTANTS
    Chars,     \* the printable bytes, "shutdown" and "y" among them: one byte
               \* stands for the whole word of the command
    Capacity,  \* of INPUT_BUFFER (4096)
    FifoSize,  \* of the UART's receive FIFO (16)
    MaxInput   \* bound on the bytes typed

ASSUME ConsoleAssumption ==
    /\ {"shutdown", "y"} \subseteq Chars
    /\ {"\n", "\r", "bs", "del", "none"} \cap Chars = {}
    /\ {Capacity, FifoSize, MaxInput} \subseteq Nat \ {0}

VARIABLES
    typed,            \* number of bytes typed
    fifo,             \* the UART's receive FIFO
    handling,         \* where handle_external_interrupt is: not running, in the loop
                      \* of handle_interrupt, or behind it
    claimed,          \* whether the PLIC waits for the interrupt to be completed
    TX_BUSY,          \* held in write_char
    printing,         \* whether the boot message or Write is inside write_char
    writing,          \* whether the kernel is in the Write system call of a program
    SIE,              \* whether interrupts are enabled
    CURSOR_POSITION,
    INPUT_BUFFER,
    ch,               \* what read_char returned and read has not looked at yet
    s,                \* the String in read
    shell,            \* what the shell does
    \* What the user sees, which no program keeps:
    screen,           \* the text on the line being typed
    shown,            \* the lines entered that the shell has not read yet
    heard,            \* the lines entered that it has read
    overflowed        \* whether INPUT_BUFFER ever dropped a byte

device == <<typed, fifo, handling, claimed>>
output == <<TX_BUSY, printing>>
mode == <<writing, SIE>>
kernel == <<CURSOR_POSITION, INPUT_BUFFER>>
seen == <<screen, shown, heard>>
vars == <<device, output, mode, kernel, ch, s, shell, seen, overflowed>>

Keys == Chars \cup {"\n", "\r", "bs", "del"}
Queued == Chars \cup {"\n", "bs"}

\* Not started yet; reading a command or the answer to shutdown's question; running a command;
\* ended by the unwrap() in read, by that of a failed spawn, or by shutdown.
Shells == {"boot", "prompt", "confirm", "process", "popped", "spawnless", "off"}
Reading == shell \in {"prompt", "confirm"}

TypeOK ==
    /\ typed \in 0..MaxInput
    /\ fifo \in Seq(Keys) /\ Len(fifo) <= FifoSize
    /\ handling \in {"no", "loop", "done"}
    /\ claimed \in BOOLEAN
    /\ TX_BUSY \in BOOLEAN
    /\ printing \in BOOLEAN
    /\ writing \in BOOLEAN
    /\ SIE \in BOOLEAN
    /\ CURSOR_POSITION \in Nat
    /\ INPUT_BUFFER \in Seq(Queued) /\ Len(INPUT_BUFFER) <= Capacity
    /\ ch \in Queued \cup {"none"}
    /\ s \in Seq(Chars)
    /\ shell \in Shells
    /\ screen \in Seq(Chars)
    /\ shown \in Seq(Seq(Chars))
    /\ heard \in Seq(Seq(Chars))
    /\ overflowed \in BOOLEAN

Init ==
    /\ typed = 0
    /\ fifo = <<>>
    /\ handling = "no"
    /\ claimed = FALSE
    /\ TX_BUSY = FALSE
    /\ printing = FALSE
    /\ writing = FALSE
    /\ SIE = TRUE
    /\ CURSOR_POSITION = 0
    /\ INPUT_BUFFER = <<>>
    /\ ch = "none"
    /\ s = <<>>
    /\ shell = "boot"
    /\ screen = <<>>
    /\ shown = <<>>
    /\ heard = <<>>
    /\ overflowed = FALSE

-----------------------------------------------------------------------------
(* The keyboard and the interrupt handler *)

\* A byte arrives, also while the handler runs.
Type(v) ==
    /\ typed < MaxInput
    /\ Len(fifo) < FifoSize
    /\ typed' = typed + 1
    /\ fifo' = Append(fifo, v)
    /\ UNCHANGED <<handling, claimed, output, mode, kernel, ch, s, shell, seen, overflowed>>

\* The PLIC raises the interrupt of a UART, unless the last one was claimed and not
\* completed, and the hart takes it once interrupts are enabled, which taking it
\* disables.  The handler takes TX_BUSY for stale when the LSR says that the transmitter
\* is empty, which it may be or not.
handle_interrupt ==
    /\ handling = "no" /\ SIE /\ shell # "off"
    /\ ~claimed
    /\ claimed' = TRUE
    /\ handling' = "loop"
    /\ SIE' = FALSE
    /\ TX_BUSY' \in {TX_BUSY, FALSE}
    /\ UNCHANGED <<typed, fifo, printing, writing, kernel, ch, s, shell, seen, overflowed>>

\* IER = 0b11: the UART interrupts while it holds a byte, and whenever the transmitter has
\* run empty, which may be at any time.
ReceiveInterrupt  == fifo # <<>> /\ handle_interrupt
TransmitInterrupt == fifo = <<>> /\ handle_interrupt

\* read_char finds nothing more: the loop ends.
HandlerReturns ==
    /\ handling = "loop"
    /\ fifo = <<>>
    /\ handling' = "done"
    /\ UNCHANGED <<typed, fifo, claimed, output, mode, kernel, ch, s, shell, seen, overflowed>>

\* Mutant: the interrupt is not completed.
NotCompleted == claimed

\* plic::complete
Completed == FALSE

\* A byte that came since the end of the loop raises the interrupt again.
complete ==
    /\ handling = "done"
    /\ claimed' = Completed
    /\ handling' = "no"
    /\ SIE' = TRUE
    /\ UNCHANGED <<typed, fifo, output, writing, kernel, ch, s, shell, seen, overflowed>>

-----------------------------------------------------------------------------
(* write_char, outside of the handler *)

\* The boot message is printed with interrupts on, and so is nothing else.
Prints == handling = "no" /\ (shell = "boot" \/ writing)

\* The compare_exchange succeeds.
WriteCharTakes ==
    /\ Prints /\ ~printing /\ ~TX_BUSY
    /\ TX_BUSY' = TRUE
    /\ printing' = TRUE
    /\ UNCHANGED <<device, mode, kernel, ch, s, shell, seen, overflowed>>

\* What write_char leaves in TX_BUSY.
Released == FALSE

\* The byte goes to the THR.
WriteCharStores ==
    /\ Prints /\ printing
    /\ TX_BUSY' = Released
    /\ printing' = FALSE
    /\ UNCHANGED <<device, mode, kernel, ch, s, shell, seen, overflowed>>

\* The message is complete, and the shell is started.
BootDone ==
    /\ shell = "boot" /\ handling = "no"
    /\ ~printing
    /\ shell' = "prompt"
    /\ UNCHANGED <<device, output, mode, kernel, ch, s, seen, overflowed>>

-----------------------------------------------------------------------------
(* The Write system call, of the shell or of any other program *)

UserMode == handling = "no" /\ ~writing /\ shell \notin {"boot", "off"}

\* Mutant: the kernel handles system calls with interrupts on.
EnabledInSyscall == TRUE

\* The trap disables interrupts, and the locks that user_trap takes and gives back on the
\* way leave them so (module Mutex).
SIEInSyscall == FALSE

SyscallWrite ==
    /\ UserMode
    /\ writing' = TRUE
    /\ SIE' = SIEInSyscall
    /\ UNCHANGED <<device, output, kernel, ch, s, shell, seen, overflowed>>

\* The text is printed, and sret enables interrupts.
WriteReturns ==
    /\ handling = "no" /\ writing /\ ~printing
    /\ writing' = FALSE
    /\ SIE' = TRUE
    /\ UNCHANGED <<device, output, kernel, ch, s, shell, seen, overflowed>>

-----------------------------------------------------------------------------
(* The bytes *)

\* Mutant: a buffer that grows.
EnqueueGrowing(v) == INPUT_BUFFER' = Append(INPUT_BUFFER, v) /\ UNCHANGED overflowed

\* AllocRingBuffer::enqueue: a full buffer drops its oldest byte.
enqueue(v) ==
    LET full == Len(INPUT_BUFFER) = Capacity IN
    /\ INPUT_BUFFER' = Append(IF full THEN Tail(INPUT_BUFFER) ELSE INPUT_BUFFER, v)
    /\ overflowed' = (overflowed \/ full)

\* read_char of uart.rs: the next byte of the FIFO, in the loop of the handler.
NextByte(v) ==
    /\ handling = "loop"
    /\ fifo # <<>>
    /\ v = Head(fifo)
    /\ fifo' = Tail(fifo)
    /\ UNCHANGED <<typed, handling, claimed, output, mode, ch, s, shell, heard>>

\* write_char in the handler: with TX_BUSY taken it spins for ever, since nothing
\* else runs.
Echoes == ~TX_BUSY

IsNewline(v) == v \in {"\n", "\r"}
IsErase(v) == v \in {"bs", "del"}

\* What is queued for a newline: both bytes become '\n'.
NewlineByte(v) == "\n"

\* The cursor position stays as it is.
HandleNewline(v) ==
    /\ NextByte(v)
    /\ IsNewline(v) /\ Echoes
    /\ enqueue(NewlineByte(v))
    /\ shown' = Append(shown, screen)
    /\ screen' = <<>>
    /\ UNCHANGED CURSOR_POSITION

\* Mutant: the cursor position is not looked at.
AlwaysErases == TRUE

\* Whether there is anything to erase, as far as the handler knows.
CanErase == CURSOR_POSITION > 0

Erased(line) == IF line = <<>> THEN <<>> ELSE Front(line)

\* Mutant: the character disappears from the screen only.
EraseOnScreen(v) ==
    /\ NextByte(v)
    /\ IsErase(v)
    /\ CanErase /\ Echoes
    /\ CURSOR_POSITION' = CURSOR_POSITION - 1
    /\ screen' = Erased(screen)
    /\ UNCHANGED <<INPUT_BUFFER, overflowed, shown>>

HandleErase(v) ==
    /\ NextByte(v)
    /\ IsErase(v)
    /\ CanErase /\ Echoes
    /\ enqueue("bs")
    /\ CURSOR_POSITION' = CURSOR_POSITION - 1
    /\ screen' = Erased(screen)
    /\ UNCHANGED shown

\* Nothing to erase: the byte is dropped.
HandleEraseIgnored(v) ==
    /\ NextByte(v)
    /\ IsErase(v)
    /\ ~CanErase
    /\ UNCHANGED <<kernel, screen, shown, overflowed>>

Advanced == CURSOR_POSITION + 1

HandleChar(v) ==
    /\ NextByte(v)
    /\ ~IsNewline(v) /\ ~IsErase(v) /\ Echoes
    /\ CURSOR_POSITION' = Advanced
    /\ enqueue(v)
    /\ screen' = Append(screen, v)
    /\ UNCHANGED shown

-----------------------------------------------------------------------------
(* The shell: read of janglib, polling with the ReadChar system call *)

SyscallReadChar ==
    /\ UserMode /\ Reading /\ ch = "none"
    /\ INPUT_BUFFER # <<>>
    /\ ch' = Head(INPUT_BUFFER)
    /\ INPUT_BUFFER' = Tail(INPUT_BUFFER)
    /\ UNCHANGED <<device, output, mode, CURSOR_POSITION, s, shell, seen, overflowed>>

\* ReadChar found the buffer empty: read asks again.
SyscallReadNothing ==
    /\ UserMode /\ Reading /\ ch = "none"
    /\ INPUT_BUFFER = <<>>
    /\ UNCHANGED vars

ReadPushes ==
    /\ UserMode /\ Reading
    /\ ch \in Chars
    /\ s' = Append(s, ch)
    /\ ch' = "none"
    /\ UNCHANGED <<device, output, mode, kernel, shell, seen, overflowed>>

\* s.pop().unwrap(): the panic handler of janglib exits the shell.
ReadPops ==
    /\ UserMode /\ Reading
    /\ ch = "bs"
    /\ s' = Erased(s)
    /\ shell' = IF s = <<>> THEN "popped" ELSE shell
    /\ ch' = "none"
    /\ UNCHANGED <<device, output, mode, kernel, seen, overflowed>>

Confirms(line) == line = <<"y">>

\* read returns a line: a command, unless it is empty, or the answer.
ReadReturns ==
    /\ UserMode /\ Reading
    /\ ch = "\n"
    /\ shell' = IF shell = "prompt" THEN (IF s = <<>> THEN "prompt" ELSE "process")
                ELSE IF Confirms(s) THEN "off" ELSE "prompt"
    /\ heard' = IF shown = <<>> THEN heard ELSE Append(heard, Head(shown))
    /\ shown' = IF shown = <<>> THEN shown ELSE Tail(shown)
    \* process still looks at the line, read starts with an empty one.
    /\ s' = IF shell = "prompt" THEN s ELSE <<>>
    /\ ch' = "none"
    /\ UNCHANGED <<device, output, mode, kernel, screen, overflowed>>

\* process: shutdown asks first; spawn of greet may fail, which ends the shell.
process ==
    /\ UserMode
    /\ shell = "process"
    /\ \/ /\ s = <<"shutdown">>
          /\ shell' = "confirm"
       \/ /\ s # <<"shutdown">>
          /\ shell' \in {"prompt", "spawnless"}
    /\ s' = <<>>
    /\ UNCHANGED <<device, output, mode, kernel, ch, seen, overflowed>>

\* The shell has ended: the scheduler idles, or the machine is off.
Ended == shell \in {"popped", "spawnless", "off"} /\ UNCHANGED vars

ShellSteps ==
    \/ SyscallReadChar
    \/ SyscallReadNothing
    \/ ReadPushes
    \/ ReadPops
    \/ ReadReturns
    \/ process

PrintSteps ==
    \/ WriteCharTakes
    \/ WriteCharStores
    \/ BootDone
    \/ SyscallWrite
    \/ WriteReturns

\* TX_BUSY is taken, and nobody will release it: the handler has a byte to echo and spins,
\* or Write spins with interrupts off.  (An erasure that is ignored is not echoed.)
Hung ==
    /\ TX_BUSY
    /\ \/ handling = "loop" /\ fifo # <<>> /\ (IsErase(Head(fifo)) => CanErase)
       \/ handling = "no" /\ writing /\ ~printing

\* The handler, once it was entered.
HandlerSteps ==
    \/ HandlerReturns
    \/ complete
    \/ \E v \in Keys :
         \/ HandleNewline(v)
         \/ HandleErase(v)
         \/ HandleEraseIgnored(v)
         \/ HandleChar(v)

Next ==
    \/ \E v \in Keys : Type(v)
    \/ ReceiveInterrupt
    \/ TransmitInterrupt
    \/ HandlerSteps
    \/ ShellSteps
    \/ PrintSteps
    \/ Ended
    \/ Hung /\ UNCHANGED vars

Spec == Init /\ [][Next]_vars

\* Interrupts are on in user mode, so the interrupt of a waiting byte is taken at the
\* latest when a system call returns; the shell gets its share of the hart, whatever
\* else is printed and interrupts it (module Processes, StarvationFree).  A message, and
\* the text of a Write, is finite.
FairSpec ==
    /\ Spec
    /\ SF_vars(ReceiveInterrupt) /\ WF_vars(HandlerSteps)
    /\ SF_vars(ShellSteps)
    /\ SF_vars(WriteCharStores) /\ SF_vars(BootDone) /\ SF_vars(WriteReturns)

-----------------------------------------------------------------------------
(* Properties *)

\* What read will make of the bytes that are on their way: complete lines and
\* the beginning of the next one.
Edited(lines, v) ==
    LET line == Last(lines) IN
    CASE v = "\n" -> Append(lines, <<>>)
      [] v = "bs" -> Append(Front(lines), Erased(line))
      [] v \in Chars -> Append(Front(lines), Append(line, v))
      [] v = "none" -> lines

ToBeRead ==
    LET lines[i \in 0..Len(INPUT_BUFFER)] ==
          IF i = 0 THEN Edited(<<IF Reading THEN s ELSE <<>>>>, ch)
          ELSE Edited(lines[i - 1], INPUT_BUFFER[i])
    IN lines[Len(INPUT_BUFFER)]

\* The shell reads the lines that the user saw when pressing enter: at any moment
\* the bytes queued by the handler, edited by read, are the lines on the screen,
\* wherever handler, system call and read stand, until the buffer drops a byte
\* or read ends the shell.
LineAsShown ==
    (shell # "popped" /\ ~overflowed) => ToBeRead = shown \o <<screen>>

\* The unwrap() in read fails only after a line of text was entered or a byte was
\* dropped: until then the test of CURSOR_POSITION lets no erasure through that has
\* no character before it in the buffer or in the shell's string.
FirstLineSafe ==
    (shell = "popped" /\ ~overflowed) => \E i \in DOMAIN heard : heard[i] # <<>>

\* A line entered reaches the shell, unless the buffer overflows, the shell ends or
\* the console hangs: no byte is left behind in the UART when it comes between the
\* end of the handler's loop and the completion of the interrupt.
LineArrives ==
    (shown # <<>> \/ fifo # <<>>) ~>
        \/ shown = <<>> /\ fifo = <<>>
        \/ overflowed \/ Hung \/ shell \in {"popped", "spawnless", "off"}

\* write_char never spins for ever once the shell runs, whatever programs print and users
\* type: no interrupt comes between the steps of a Write, and TX_BUSY is free whenever a
\* Write or an echo begins.  While the boot message is printed an interrupt inside
\* write_char, at a moment when the transmitter is not empty, hangs the machine.
HangsAtBootOnly == Hung => shell = "boot" /\ printing

-----------------------------------------------------------------------------
(* What the repository says of the code and the code does not do *)

\* "The `sh` program simply runs an infinite loop waiting for a prompt": no key
\* ends it.
ShellSurvives == shell # "popped"

=============================================================================

----------------------------- MODULE MCPageTable -----------------------------
(* Small programs for the model checker, which start on page 1 like those that
   userspace.ld lays out. *)
EXTENDS PageTable

Code(va, size) == [va |-> va, size |-> size, flags |-> {"R", "X"}]
Data(va, size) == [va |-> va, size |-> size, flags |-> {"R", "W"}]
NoFlags(va, size) == [va |-> va, size |-> size, flags |-> {}]

\* One segment of one page; two segments, the first of which reaches into the second;
\* two segments side by side, behind which the heap starts a page further on.
SmallPrograms ==
    { <<Code(1, 1)>>,
      <<Code(1, 2), Data(2, 1)>>,
      <<Code(1, 1), Data(2, 1)>> }

\* A program whose segment can be neither read, nor written, nor executed.
FlaglessProgram == { <<NoFlags(1, 1)>> }

=============================================================================

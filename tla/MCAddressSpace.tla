---------------------------- MODULE MCAddressSpace ----------------------------
(* Small programs for the model checker: one or two segments of one or two pages. *)
EXTENDS AddressSpace

Segment(start, memsz) == [start |-> start, memsz |-> memsz]

\* One page; two pages, the second of which the heap overlaps; two segments, for
\* which heap_start is the sum of both starts and two.
SmallImages ==
    { <<Segment(1, 1)>>,
      <<Segment(0, 2)>>,
      <<Segment(0, 1), Segment(1, 1)>> }

\* One segment of one page.
OnePageImage == { <<Segment(0, 1)>> }

=============================================================================

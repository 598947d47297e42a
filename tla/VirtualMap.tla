------------------------------ MODULE VirtualMap ------------------------------
(***************************************************************************)
(* What the page tables promise: every address space is a partial map from *)
(* virtual pages to frames of its own.  A space that is in use only ever   *)
(* gains pages, one at a time and each on a frame that nobody else has; a  *)
(* space that is closed only loses them.                                   *)
(***************************************************************************)
CONSTANTS
    Spaces,        \* the address spaces
    VirtualPages,
    Frames,
    Shared,        \* frames that every space may map (the trampoline)
    Unmapped       \* no frame

VARIABLES
    mapping,  \* mapping[p][va]: the frame, or Unmapped
    closed    \* the spaces being torn down, and those that are gone

vars == <<mapping, closed>>

Init ==
    /\ mapping = [p \in Spaces |-> [va \in VirtualPages |-> Unmapped]]
    /\ closed = {}

\* The frames that some space maps.
InUse == {mapping[p][va] : p \in Spaces, va \in VirtualPages} \ {Unmapped}

Map(p, va, frame) ==
    /\ p \notin closed
    /\ mapping[p][va] = Unmapped
    /\ frame \notin InUse \ Shared
    /\ mapping' = [mapping EXCEPT ![p][va] = frame]
    /\ UNCHANGED closed

Close(p) ==
    /\ p \notin closed
    /\ closed' = closed \cup {p}
    /\ UNCHANGED mapping

Unmap(p, va) ==
    /\ p \in closed
    /\ mapping[p][va] # Unmapped /\ mapping'[p][va] = Unmapped
    /\ mapping' = [mapping EXCEPT ![p][va] = Unmapped]
    /\ UNCHANGED closed

\* A page that has a frame now and had none before was mapped on that frame.
Next ==
    \E p \in Spaces :
        \/ Close(p)
        \/ \E va \in VirtualPages :
             \/ /\ mapping[p][va] = Unmapped
                /\ mapping'[p][va] \in Frames \cup Shared
                /\ Map(p, va, mapping'[p][va])
             \/ Unmap(p, va)

Spec == Init /\ [][Next]_vars

=============================================================================

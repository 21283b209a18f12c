------------------------------ MODULE BoundedLog ------------------------------
(***************************************************************************)
(* What a sig.Ring promises: a first-in-first-out sequence of at most      *)
(* Capacity values.  Adding to a full log drops the oldest value and       *)
(* returns it; taking from an empty log returns nothing.                   *)
(***************************************************************************)
EXTENDS Naturals, Sequences

CONSTANTS Values, Zero, Capacity

VARIABLES contents, out, ok

ReturnNothing == out' = Zero /\ ok' = FALSE

ReturnOldest ==
  IF contents = << >> THEN ReturnNothing ELSE out' = Head(contents) /\ ok' = TRUE

Init == contents = << >> /\ out = Zero /\ ok = FALSE

Add(v) ==
  IF Len(contents) < Capacity
    THEN contents' = Append(contents, v) /\ ReturnNothing
    ELSE contents' = Append(Tail(contents), v) /\ ReturnOldest

Take ==
  /\ contents' = IF contents = << >> THEN contents ELSE Tail(contents)
  /\ ReturnOldest

Look == ReturnOldest /\ UNCHANGED contents

Empty == contents' = << >> /\ UNCHANGED <<out, ok>>

Next == Take \/ Look \/ Empty \/ \E v \in Values : Add(v)

Spec == Init /\ [][Next]_<<contents, out, ok>>
=============================================================================

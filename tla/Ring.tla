--------------------------------- MODULE Ring ---------------------------------
(***************************************************************************)
(* sig.Ring: a bounded buffer over an array with a head, a tail and a      *)
(* size.  Every method runs under one mutex and is one step; a Zero entry  *)
(* is Go's zero value.  The ring implements BoundedLog.                    *)
(***************************************************************************)
EXTENDS Naturals, Sequences

CONSTANTS Values, Zero, Capacity

ASSUME RingAssumption == Capacity \in Nat \ {0} /\ Zero \notin Values

VARIABLES items, head, tail, size,
          out, ok    \* what the last call returned

ringVars == <<items, head, tail, size, out, ok>>

Slots == 0..(Capacity - 1)

RingTypeOK ==
  /\ items \in [Slots -> Values \cup {Zero}]
  /\ head \in Slots /\ tail \in Slots /\ size \in 0..Capacity
  /\ out \in Values \cup {Zero} /\ ok \in BOOLEAN

RingInit ==
  /\ items = [i \in Slots |-> Zero]
  /\ head = 0 /\ tail = 0 /\ size = 0
  /\ out = Zero /\ ok = FALSE

Return(v) == out' = v /\ ok' = TRUE

ReturnNothing == out' = Zero /\ ok' = FALSE

Advance(i) == (i + 1) % Capacity

PushKeepingTail(v) ==
  /\ items' = [items EXCEPT ![head] = v]
  /\ head' = Advance(head)
  /\ size' = IF size < Capacity THEN size + 1 ELSE size
  /\ IF size < Capacity THEN ReturnNothing ELSE Return(items[head])
  /\ UNCHANGED tail

\* A full ring gives up its oldest item, the one the head has come round to.
Push(v) ==
  /\ items' = [items EXCEPT ![head] = v]
  /\ head' = Advance(head)
  /\ IF size < Capacity
       THEN size' = size + 1 /\ ReturnNothing /\ UNCHANGED tail
       ELSE tail' = Advance(tail) /\ Return(items[head]) /\ UNCHANGED size

Pop ==
  /\ IF size = 0
       THEN ReturnNothing /\ UNCHANGED <<items, head, tail, size>>
       ELSE /\ Return(items[tail])
            /\ items' = [items EXCEPT ![tail] = Zero]
            /\ tail' = Advance(tail) /\ size' = size - 1
            /\ UNCHANGED head

PeekHead ==
  /\ IF size = 0 THEN ReturnNothing ELSE Return(items[head])
  /\ UNCHANGED <<items, head, tail, size>>

Peek ==
  /\ IF size = 0 THEN ReturnNothing ELSE Return(items[tail])
  /\ UNCHANGED <<items, head, tail, size>>

Clear ==
  /\ items' = [i \in Slots |-> Zero]
  /\ head' = 0 /\ tail' = 0 /\ size' = 0
  /\ UNCHANGED <<out, ok>>

RingNext == Pop \/ Peek \/ Clear \/ \E v \in Values : Push(v)

RingSpec == RingInit /\ [][RingNext]_ringVars

\* Clone: the contents, oldest first.
Clone == [i \in 1..size |-> items[(tail + i - 1) % Capacity]]

-----------------------------------------------------------------------------
\* The head is where the tail is, plus the items in between: a full ring and an
\* empty one, which have the same head and tail, differ in size alone.
HeadFollowsTail == head = (tail + size) % Capacity

\* Exactly the slots outside the contents are zeroed, so the ring keeps nothing
\* alive that has left it.
NothingRetained ==
  \A i \in Slots : items[i] = Zero <=> ~\E k \in 0..(size - 1) : i = (tail + k) % Capacity

Log == INSTANCE BoundedLog WITH contents <- Clone

\* The ring implements a bounded first-in-first-out log that drops its oldest entry.
ImplementsLog == Log!Spec

\* The indices and the size agree, and no slot outside the ring keeps an item alive.
RingCorrect == RingTypeOK /\ HeadFollowsTail /\ NothingRetained
=============================================================================

------------------------------ MODULE RingProofs ------------------------------
(***************************************************************************)
(* For every capacity and every set of values, sig.Ring implements the     *)
(* bounded log.  The argument is about the two indices: HeadFollowsTail    *)
(* is inductive with RingTypeOK, and it places the head outside the        *)
(* contents of a ring that has room and on the oldest item of a full one.  *)
(***************************************************************************)
EXTENDS Ring, TLAPS

\* The inductive invariant: the head is determined by the tail and the size.
IInv == RingTypeOK /\ HeadFollowsTail

\* The remainder of a sum of an index and a size: it wraps around once at most.
LEMMA WrapsOnce ==
  \A a \in 0..(2 * Capacity - 1) : a % Capacity = IF a < Capacity THEN a ELSE a - Capacity
<1> SUFFICES ASSUME NEW a \in 0..(2 * Capacity - 1)
             PROVE a % Capacity = IF a < Capacity THEN a ELSE a - Capacity
  OBVIOUS
<1>1. CASE a < Capacity
  BY <1>1, RingAssumption, SMT
<1>2. CASE a >= Capacity
  BY <1>2, RingAssumption, SMT
<1> QED BY <1>1, <1>2, RingAssumption

\* Advance moves one slot on, or back to the first.
LEMMA AdvanceIs ==
  \A i \in Slots : Advance(i) = IF i = Capacity - 1 THEN 0 ELSE i + 1
BY WrapsOnce, RingAssumption DEF Advance, Slots

\* The slot of the item at an offset from the tail.
LEMMA SlotIs ==
  ASSUME NEW t \in Slots, NEW k \in 0..Capacity
  PROVE  /\ (t + k) % Capacity = IF t + k < Capacity THEN t + k ELSE t + k - Capacity
         /\ (t + k) % Capacity \in Slots
BY WrapsOnce, RingAssumption DEF Slots

\* The invariant holds in the initial state and every method of the ring keeps it.
THEOREM Invariant == RingSpec => []IInv
<1>1. RingInit => IInv
  <2> SUFFICES ASSUME RingInit PROVE IInv
    OBVIOUS
  <2>0. ok \in BOOLEAN
    BY Zenon DEF RingInit
  <2>1. RingTypeOK
    BY <2>0, RingAssumption DEF RingInit, RingTypeOK, Slots
  <2>2. HeadFollowsTail
    BY <2>1, SlotIs, RingAssumption DEF RingInit, RingTypeOK, HeadFollowsTail
  <2> QED BY <2>1, <2>2 DEF IInv
<1>2. IInv /\ [RingNext]_ringVars => IInv'
  <2> SUFFICES ASSUME IInv, [RingNext]_ringVars PROVE IInv'
    OBVIOUS
  <2> USE RingAssumption
  <2>0. /\ items \in [Slots -> Values \cup {Zero}] /\ head \in Slots /\ tail \in Slots
        /\ size \in 0..Capacity
        /\ head = IF tail + size < Capacity THEN tail + size ELSE tail + size - Capacity
        /\ Advance(head) = IF head = Capacity - 1 THEN 0 ELSE head + 1
        /\ Advance(tail) = IF tail = Capacity - 1 THEN 0 ELSE tail + 1
    BY SlotIs, AdvanceIs DEF IInv, RingTypeOK, HeadFollowsTail
  <2>1. ASSUME NEW v \in Values, Push(v) PROVE IInv'
    <3>1. /\ items' \in [Slots -> Values \cup {Zero}] /\ head' = Advance(head)
      BY <2>0, <2>1 DEF Push
    <3>2. out' \in Values \cup {Zero} /\ ok' \in BOOLEAN
      BY <2>0, <2>1 DEF Push, Return, ReturnNothing
    <3>3. \/ size < Capacity /\ size' = size + 1 /\ tail' = tail
          \/ size = Capacity /\ size' = size /\ tail' = Advance(tail)
      BY <2>0, <2>1 DEF Push
    <3>4. /\ head' \in Slots /\ tail' \in Slots /\ size' \in 0..Capacity
          /\ head' = IF tail' + size' < Capacity THEN tail' + size' ELSE tail' + size' - Capacity
      BY <2>0, <3>1, <3>3 DEF Slots
    <3> QED BY <3>1, <3>2, <3>4, SlotIs DEF IInv, RingTypeOK, HeadFollowsTail
  <2>2. CASE Pop
    <3>1. items' \in [Slots -> Values \cup {Zero}] /\ head' = head
      BY <2>0, <2>2 DEF Pop
    <3>2. out' \in Values \cup {Zero} /\ ok' \in BOOLEAN
      BY <2>0, <2>2 DEF Pop, Return, ReturnNothing
    <3>3. \/ size = 0 /\ size' = size /\ tail' = tail
          \/ size > 0 /\ size' = size - 1 /\ tail' = Advance(tail)
      BY <2>0, <2>2 DEF Pop
    <3>4. /\ head' \in Slots /\ tail' \in Slots /\ size' \in 0..Capacity
          /\ head' = IF tail' + size' < Capacity THEN tail' + size' ELSE tail' + size' - Capacity
      BY <2>0, <3>1, <3>3 DEF Slots
    <3> QED BY <3>1, <3>2, <3>4, SlotIs DEF IInv, RingTypeOK, HeadFollowsTail
  <2>3. CASE Peek
    BY <2>3 DEF IInv, RingTypeOK, HeadFollowsTail, Peek, Return, ReturnNothing
  <2>4. CASE Clear
    BY <2>4, WrapsOnce DEF IInv, RingTypeOK, HeadFollowsTail, Clear, Slots
  <2>5. CASE UNCHANGED ringVars
    BY <2>5 DEF IInv, RingTypeOK, HeadFollowsTail, ringVars
  <2> QED BY <2>1, <2>2, <2>3, <2>4, <2>5 DEF RingNext
<1> QED BY <1>1, <1>2, PTL DEF RingSpec

-----------------------------------------------------------------------------
\* How far a slot is from the tail, going round.
Offset(i, t) == IF i >= t THEN i - t ELSE i - t + Capacity

\* NothingRetained, with the remainders worked out.
ZeroOutside == \A i \in Slots : items[i] = Zero <=> Offset(i, tail) >= size

\* A slot is among the first n from the tail exactly if its offset is below n.
LEMMA OffsetIs ==
  ASSUME NEW i \in Slots, NEW t \in Slots, NEW n \in 0..Capacity
  PROVE  (\E k \in 0..(n - 1) : i = (t + k) % Capacity) <=> Offset(i, t) < n
<1> USE RingAssumption DEF Slots, Offset
<1>1. ASSUME NEW k \in 0..(n - 1), i = (t + k) % Capacity PROVE Offset(i, t) < n
  <2>1. k \in 0..Capacity
    OBVIOUS
  <2>2. i = IF t + k < Capacity THEN t + k ELSE t + k - Capacity
    BY <1>1, <2>1, SlotIs
  <2> QED BY <2>2
<1>2. ASSUME Offset(i, t) < n PROVE \E k \in 0..(n - 1) : i = (t + k) % Capacity
  <2>1. Offset(i, t) \in 0..(n - 1) /\ Offset(i, t) \in 0..Capacity
    BY <1>2
  <2>2. i = IF t + Offset(i, t) < Capacity THEN t + Offset(i, t) ELSE t + Offset(i, t) - Capacity
    OBVIOUS
  <2>3. i = (t + Offset(i, t)) % Capacity
    BY <2>1, <2>2, SlotIs
  <2> QED BY <2>1, <2>3
<1> QED BY <1>1, <1>2

\* The two forms of NothingRetained agree.
LEMMA RetainedIs == IInv => (NothingRetained <=> ZeroOutside)
<1> SUFFICES ASSUME IInv PROVE NothingRetained <=> ZeroOutside
  OBVIOUS
<1> USE RingAssumption
<1>1. tail \in Slots /\ size \in 0..Capacity
  BY DEF IInv, RingTypeOK
<1>2. \A i \in Slots : (\E k \in 0..(size - 1) : i = (tail + k) % Capacity) <=> Offset(i, tail) < size
  BY <1>1, OffsetIs
<1>3. \A i \in Slots : Offset(i, tail) < size <=> ~(Offset(i, tail) >= size)
  BY <1>1 DEF Offset, Slots
<1> QED BY <1>2, <1>3, Zenon DEF NothingRetained, ZeroOutside

\* Every method zeroes the slots it takes out of the contents, and fills those it adds.
LEMMA OutsideStaysZero == IInv /\ ZeroOutside /\ [RingNext]_ringVars => ZeroOutside'
<1> SUFFICES ASSUME IInv, ZeroOutside, [RingNext]_ringVars PROVE ZeroOutside'
  OBVIOUS
<1> USE RingAssumption
<1>0. /\ items \in [Slots -> Values \cup {Zero}] /\ head \in Slots /\ tail \in Slots
      /\ size \in 0..Capacity
      /\ head = IF tail + size < Capacity THEN tail + size ELSE tail + size - Capacity
      /\ Advance(tail) = IF tail = Capacity - 1 THEN 0 ELSE tail + 1
  BY SlotIs, AdvanceIs DEF IInv, RingTypeOK, HeadFollowsTail
<1>1. ASSUME NEW v \in Values, Push(v) PROVE ZeroOutside'
  <2>1. /\ items' = [items EXCEPT ![head] = v]
        /\ \/ size < Capacity /\ size' = size + 1 /\ tail' = tail
           \/ size = Capacity /\ size' = size /\ tail' = Advance(tail)
    BY <1>0, <1>1 DEF Push
  <2> QED BY <1>0, <2>1 DEF ZeroOutside, Offset, Slots
<1>2. CASE Pop
  <2>1. \/ items' = items /\ size' = size /\ tail' = tail
        \/ /\ size > 0 /\ size' = size - 1 /\ tail' = Advance(tail)
           /\ items' = [items EXCEPT ![tail] = Zero]
    BY <1>0, <1>2 DEF Pop
  <2> QED BY <1>0, <2>1 DEF ZeroOutside, Offset, Slots
<1>3. CASE Peek
  BY <1>3 DEF Peek, ZeroOutside, Offset
<1>4. CASE Clear
  BY <1>4 DEF Clear, ZeroOutside, Offset, Slots
<1>5. CASE UNCHANGED ringVars
  BY <1>5 DEF ringVars, ZeroOutside, Offset
<1> QED BY <1>1, <1>2, <1>3, <1>4, <1>5 DEF RingNext

\* For every capacity the fields keep their types, head, tail and size agree after
\* any sequence of calls, and a slot outside the contents is always zeroed.
THEOREM RingIsCorrect == RingSpec => []RingCorrect
<1> USE RingAssumption
<1>1. RingInit => ZeroOutside
  BY DEF RingInit, ZeroOutside, Offset, Slots
<1>2. IInv /\ ZeroOutside => RingCorrect
  BY RetainedIs DEF IInv, RingCorrect
<1> QED BY <1>1, <1>2, Invariant, OutsideStaysZero, PTL DEF RingSpec

-----------------------------------------------------------------------------
\* What Clone is, with the remainders worked out.
CloneShape ==
  /\ Clone \in Seq(Values \cup {Zero}) /\ Len(Clone) = size
  /\ \A i \in 1..size : Clone[i] =
       items[IF tail + i - 1 < Capacity THEN tail + i - 1 ELSE tail + i - 1 - Capacity]

\* Clone copies the slots from the tail on.
LEMMA CloneIs == IInv => CloneShape
<1> SUFFICES ASSUME IInv PROVE CloneShape
  OBVIOUS
<1> USE RingAssumption
<1>1. ASSUME NEW i \in 1..size
      PROVE  (tail + i - 1) % Capacity =
               IF tail + i - 1 < Capacity THEN tail + i - 1 ELSE tail + i - 1 - Capacity
  <2>1. tail + i - 1 \in 0..(2 * Capacity - 1) /\ tail \in Nat /\ size \in Nat
    BY DEF IInv, RingTypeOK, Slots
  <2> QED BY <2>1, WrapsOnce
<1>2. size \in Nat /\ \A i \in 1..size : items[(tail + i - 1) % Capacity] \in Values \cup {Zero}
  BY <1>1 DEF IInv, RingTypeOK, Slots
<1> QED BY <1>1, <1>2 DEF Clone, CloneShape

\* Push adds to the log: with room the head is outside the contents, without it
\* the head is on the oldest item.
LEMMA PushAdds ==
  ASSUME IInv, IInv', NEW v \in Values, Push(v)
  PROVE  Log!Add(v)
<1> USE RingAssumption
<1>0. /\ items \in [Slots -> Values \cup {Zero}] /\ head \in Slots /\ tail \in Slots
      /\ size \in 0..Capacity
      /\ head = IF tail + size < Capacity THEN tail + size ELSE tail + size - Capacity
      /\ Advance(tail) = IF tail = Capacity - 1 THEN 0 ELSE tail + 1
  BY SlotIs, AdvanceIs DEF IInv, RingTypeOK, HeadFollowsTail
<1>1. CloneShape
  BY CloneIs
<1>2. CloneShape'
  BY CloneIs, PTL
<1>3. CASE size < Capacity
  <2>1. size' = size + 1 /\ tail' = tail /\ items' = [items EXCEPT ![head] = v]
    BY <1>3 DEF Push
  <2>2. \A i \in 1..size' : Clone'[i] = Append(Clone, v)[i]
    BY <1>0, <1>1, <1>2, <1>3, <2>1 DEF Slots, CloneShape
  <2>3. Clone' = Append(Clone, v)
    BY <1>0, <1>1, <1>2, <2>1, <2>2 DEF CloneShape
  <2> QED BY <1>1, <1>3, <2>3 DEF CloneShape, Push, Log!Add, Log!ReturnNothing, ReturnNothing
<1>4. CASE size = Capacity
  <2>1. size' = size /\ tail' = Advance(tail) /\ items' = [items EXCEPT ![head] = v] /\ head = tail
    BY <1>0, <1>4 DEF Push, Slots
  <2>2. /\ Tail(Clone) \in Seq(Values \cup {Zero}) /\ Len(Tail(Clone)) = size - 1
        /\ \A i \in 1..(size - 1) : Tail(Clone)[i] = Clone[i + 1]
    BY <1>0, <1>1, <1>4 DEF CloneShape
  <2>3. \A i \in 1..size' : Clone'[i] = Append(Tail(Clone), v)[i]
    BY <1>0, <1>1, <1>2, <1>4, <2>1, <2>2 DEF Slots, CloneShape
  <2>4. Clone' = Append(Tail(Clone), v)
    BY <1>0, <1>1, <1>2, <2>1, <2>2, <2>3 DEF CloneShape
  <2>5. Clone # << >> /\ Head(Clone) = items[head]
    BY <1>0, <1>1, <1>4, <2>1 DEF Slots, CloneShape
  <2> QED BY <1>1, <1>4, <2>4, <2>5 DEF CloneShape, Push, Return, Log!Add, Log!ReturnOldest
<1> QED BY <1>0, <1>3, <1>4

\* Pop takes the oldest value off the log.
LEMMA PopTakes ==
  ASSUME IInv, IInv', Pop
  PROVE  Log!Take
<1> USE RingAssumption
<1>0. /\ items \in [Slots -> Values \cup {Zero}] /\ tail \in Slots /\ size \in 0..Capacity
      /\ Advance(tail) = IF tail = Capacity - 1 THEN 0 ELSE tail + 1
  BY AdvanceIs DEF IInv, RingTypeOK
<1>1. CloneShape
  BY CloneIs
<1>2. CloneShape'
  BY CloneIs, PTL
<1>3. CASE size = 0
  <2>1. Clone = << >> /\ Clone' = << >>
    BY <1>1, <1>2, <1>3 DEF CloneShape, Pop
  <2> QED BY <1>3, <2>1 DEF Pop, ReturnNothing, Log!Take, Log!ReturnOldest, Log!ReturnNothing
<1>4. CASE size > 0
  <2>1. size' = size - 1 /\ tail' = Advance(tail) /\ items' = [items EXCEPT ![tail] = Zero]
    BY <1>0, <1>4 DEF Pop
  <2>2. /\ Tail(Clone) \in Seq(Values \cup {Zero}) /\ Len(Tail(Clone)) = size - 1
        /\ \A i \in 1..(size - 1) : Tail(Clone)[i] = Clone[i + 1]
    BY <1>0, <1>1, <1>4 DEF CloneShape
  <2>3. \A i \in 1..size' : Clone'[i] = Tail(Clone)[i]
    BY <1>0, <1>1, <1>2, <1>4, <2>1, <2>2 DEF Slots, CloneShape
  <2>4. Clone' = Tail(Clone)
    BY <1>0, <1>2, <2>1, <2>2, <2>3 DEF CloneShape
  <2>5. Clone # << >> /\ Head(Clone) = items[tail]
    BY <1>0, <1>1, <1>4 DEF Slots, CloneShape
  <2> QED BY <1>0, <1>4, <2>4, <2>5 DEF Pop, Return, Log!Take, Log!ReturnOldest
<1> QED BY <1>0, <1>3, <1>4

\* Peek reads the oldest value and leaves the log alone.
LEMMA PeekLooks ==
  ASSUME IInv, Peek
  PROVE  Log!Look
<1> USE RingAssumption
<1>1. CloneShape /\ tail \in Slots /\ size \in 0..Capacity
  BY CloneIs DEF IInv, RingTypeOK
<1>2. Clone' = Clone
  BY DEF Peek, Clone
<1>3. CASE size = 0
  <2>1. Clone = << >>
    BY <1>1, <1>3 DEF CloneShape
  <2> QED BY <1>2, <1>3, <2>1 DEF Peek, ReturnNothing, Log!Look, Log!ReturnOldest, Log!ReturnNothing
<1>4. CASE size > 0
  <2>1. Clone # << >> /\ Head(Clone) = items[tail]
    BY <1>1, <1>4 DEF Slots, CloneShape
  <2> QED BY <1>1, <1>2, <1>4, <2>1 DEF Peek, Return, Log!Look, Log!ReturnOldest
<1> QED BY <1>1, <1>3, <1>4

\* For every capacity the ring implements the bounded log: each method is the step
\* of the log of the same name.
THEOREM RingImplementsLog == RingSpec => ImplementsLog
<1> USE RingAssumption
<1>1. RingInit => Log!Init
  <2> SUFFICES ASSUME RingInit PROVE Log!Init
    OBVIOUS
  <2>1. Clone = << >>
    BY DEF RingInit, Clone
  <2> QED BY <2>1 DEF RingInit, Log!Init
<1>2. IInv /\ IInv' /\ [RingNext]_ringVars => [Log!Next]_<<Clone, out, ok>>
  <2> SUFFICES ASSUME IInv, IInv', [RingNext]_ringVars PROVE [Log!Next]_<<Clone, out, ok>>
    OBVIOUS
  <2>1. ASSUME NEW v \in Values, Push(v) PROVE Log!Next
    BY <2>1, PushAdds DEF Log!Next
  <2>2. CASE Pop
    BY <2>2, PopTakes DEF Log!Next
  <2>3. CASE Peek
    BY <2>3, PeekLooks DEF Log!Next
  <2>4. CASE Clear
    <3>1. Clone' = << >>
      BY <2>4 DEF Clear, Clone
    <3> QED BY <2>4, <3>1 DEF Clear, Log!Next, Log!Empty
  <2>5. CASE UNCHANGED ringVars
    BY <2>5 DEF ringVars, Clone
  <2> QED BY <2>1, <2>2, <2>3, <2>4, <2>5 DEF RingNext
<1> QED BY <1>1, <1>2, Invariant, PTL DEF RingSpec, ImplementsLog, Log!Spec
=============================================================================

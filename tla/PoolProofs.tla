------------------------------ MODULE PoolProofs ------------------------------
(***************************************************************************)
(* The safety properties of Pool for any items, capacities and number of   *)
(* callers.  The inductive invariant adds to them that a caller holds its  *)
(* items exactly while its Lock has returned and its Unlock has not run.   *)
(***************************************************************************)
EXTENDS Pool, FiniteSetTheorems, TLAPS

\* What a caller was given is what it asked for, and nobody else has anything.
HoldersHoldTheirWant ==
  \A l \in Lockers : held[l] = IF locker[l] = "holds" THEN want[l] ELSE {}

IInv == PoolTypeOK /\ HoldersHoldTheirWant /\ LockedIsHeld /\ WithinCapacity /\ WaitersLack

\* The callers that hold an item are finitely many.
LEMMA HoldersFinite ==
  \A i : IsFiniteSet(Holders(i)) /\ Cardinality(Holders(i)) \in Nat
<1> SUFFICES ASSUME NEW i PROVE IsFiniteSet(Holders(i)) /\ Cardinality(Holders(i)) \in Nat
  OBVIOUS
<1>1. Holders(i) \subseteq Lockers
  BY DEF Holders
<1> QED BY <1>1, PoolAssumption, FS_Subset, FS_CardinalityType

\* A new pool satisfies the invariant.
LEMMA InitInvariant == PoolInit => IInv
<1> SUFFICES ASSUME PoolInit PROVE IInv
  OBVIOUS
<1>1. PoolTypeOK /\ HoldersHoldTheirWant /\ WaitersLack
  BY PoolAssumption DEF PoolInit, PoolTypeOK, HoldersHoldTheirWant, WaitersLack
<1>2. \A i \in Items : Holders(i) = {}
  BY DEF PoolInit, Holders
<1>3. LockedIsHeld /\ WithinCapacity
  BY <1>2, FS_EmptySet DEF PoolInit, LockedIsHeld, WithinCapacity
<1> QED BY <1>1, <1>3 DEF IInv

\* Adding to an item gives nobody anything, and wakes everyone who waits.
LEMMA AddInvariant ==
  ASSUME IInv, NEW i \in Items, Add(i)
  PROVE  IInv'
<1> USE DEF IInv, Add
<1>1. PoolTypeOK'
  BY PoolAssumption DEF PoolTypeOK, Woken
<1>2. HoldersHoldTheirWant' /\ WaitersLack'
  BY DEF PoolTypeOK, Woken, HoldersHoldTheirWant, WaitersLack
<1>3. \A j \in Items : Holders(j)' = Holders(j) /\ cap'[j] >= cap[j]
  BY PoolAssumption DEF Holders, PoolTypeOK
<1>4. LockedIsHeld' /\ WithinCapacity'
  BY <1>1, <1>3, HoldersFinite DEF LockedIsHeld, WithinCapacity, PoolTypeOK
<1> QED BY <1>1, <1>2, <1>4

\* A call of Lock, and a round of it that fails, take nothing.
LEMMA WaitInvariant ==
  ASSUME IInv, NEW l \in Lockers, (\E names \in Wants : Lock(l, names)) \/ GiveBack(l)
  PROVE  IInv'
<1>1. /\ UNCHANGED <<cap, locked, held>> /\ locker[l] \in {"idle", "run"}
      /\ locker' = [locker EXCEPT ![l] = "run"] \/ (locker' = [locker EXCEPT ![l] = "wait"] /\ want' = want /\ \E i \in want[l] : ~Free(i))
      /\ \A k \in Lockers : k # l => want'[k] = want[k]
      /\ want' \in [Lockers -> SUBSET Items]
  BY PoolAssumption DEF IInv, PoolTypeOK, Lock, GiveBack
<1>2. PoolTypeOK'
  BY <1>1 DEF IInv, PoolTypeOK
<1>3. HoldersHoldTheirWant'
  BY <1>1 DEF IInv, PoolTypeOK, HoldersHoldTheirWant
<1>4. WaitersLack'
  BY <1>1 DEF IInv, PoolTypeOK, WaitersLack, Free
<1>5. LockedIsHeld' /\ WithinCapacity'
  BY <1>1 DEF IInv, Holders, LockedIsHeld, WithinCapacity
<1> QED BY <1>2, <1>3, <1>4, <1>5 DEF IInv

\* A round that succeeds counts every item once for the one caller it adds.
LEMMA LockAllInvariant ==
  ASSUME IInv, NEW l \in Lockers, LockAll(l)
  PROVE  IInv'
<1>1. /\ locker[l] = "run" /\ held[l] = {} /\ \A i \in want[l] : locked[i] < cap[i]
      /\ locked' = [i \in Items |-> IF i \in want[l] THEN locked[i] + 1 ELSE locked[i]]
      /\ held' = [held EXCEPT ![l] = want[l]] /\ locker' = [locker EXCEPT ![l] = "holds"]
      /\ UNCHANGED <<cap, want>>
  BY DEF IInv, PoolTypeOK, LockAll, Free, HoldersHoldTheirWant
<1>2. PoolTypeOK'
  BY <1>1 DEF IInv, PoolTypeOK
<1>3. HoldersHoldTheirWant'
  BY <1>1 DEF IInv, PoolTypeOK, HoldersHoldTheirWant
<1>4. WaitersLack'
  BY <1>1 DEF IInv, PoolTypeOK, WaitersLack, Free
<1>5. ASSUME NEW i \in Items
      PROVE  locked'[i] = Cardinality(Holders(i)') /\ Cardinality(Holders(i)') <= cap'[i]
  <2>0. locked[i] = Cardinality(Holders(i)) /\ Cardinality(Holders(i)) <= cap[i]
    BY DEF IInv, LockedIsHeld, WithinCapacity
  <2>1. CASE i \in want[l]
    <3>1. l \notin Holders(i) /\ Holders(i)' = Holders(i) \cup {l}
      BY <1>1, <2>1 DEF IInv, PoolTypeOK, Holders
    <3>2. Cardinality(Holders(i)') = Cardinality(Holders(i)) + 1
      BY <3>1, HoldersFinite, FS_AddElement
    <3> QED BY <1>1, <2>0, <2>1, <3>2, HoldersFinite DEF IInv, PoolTypeOK
  <2>2. CASE i \notin want[l]
    <3>1. Holders(i)' = Holders(i)
      BY <1>1, <2>2 DEF IInv, PoolTypeOK, Holders
    <3> QED BY <1>1, <2>0, <2>2, <3>1
  <2> QED BY <2>1, <2>2
<1> QED BY <1>2, <1>3, <1>4, <1>5 DEF IInv, LockedIsHeld, WithinCapacity

\* Unlock uncounts every item its caller holds, which is counted at least once.
LEMMA UnlockInvariant ==
  ASSUME IInv, NEW l \in Lockers, Unlock(l)
  PROVE  IInv'
<1>1. /\ locker[l] = "holds" /\ held[l] = want[l]
      /\ locked' = [i \in Items |-> IF i \in want[l] THEN LessOne(locked[i]) ELSE locked[i]]
      /\ held' = [held EXCEPT ![l] = {}] /\ want' = [want EXCEPT ![l] = {}]
      /\ locker' = [Woken EXCEPT ![l] = "idle"] /\ UNCHANGED cap
  BY DEF IInv, PoolTypeOK, Unlock, UnlockItems, HoldersHoldTheirWant
<1>2. PoolTypeOK'
  BY <1>1 DEF IInv, PoolTypeOK, Woken, LessOne
<1>3. HoldersHoldTheirWant' /\ WaitersLack'
  BY <1>1 DEF IInv, PoolTypeOK, Woken, HoldersHoldTheirWant, WaitersLack
<1>4. ASSUME NEW i \in Items
      PROVE  locked'[i] = Cardinality(Holders(i)') /\ Cardinality(Holders(i)') <= cap'[i]
  <2>0. locked[i] = Cardinality(Holders(i)) /\ Cardinality(Holders(i)) <= cap[i]
    BY DEF IInv, LockedIsHeld, WithinCapacity
  <2>1. CASE i \in want[l]
    <3>1. l \in Holders(i) /\ Holders(i)' = Holders(i) \ {l}
      BY <1>1, <2>1 DEF IInv, PoolTypeOK, Holders
    <3>2. Cardinality(Holders(i)') = Cardinality(Holders(i)) - 1 /\ Cardinality(Holders(i)) # 0
      BY <3>1, HoldersFinite, FS_RemoveElement, FS_EmptySet
    <3> QED BY <1>1, <2>0, <2>1, <3>2, HoldersFinite DEF IInv, PoolTypeOK, LessOne
  <2>2. CASE i \notin want[l]
    <3>1. Holders(i)' = Holders(i)
      BY <1>1, <2>2 DEF IInv, PoolTypeOK, Holders
    <3> QED BY <1>1, <2>0, <2>2, <3>1
  <2> QED BY <2>1, <2>2
<1> QED BY <1>2, <1>3, <1>4 DEF IInv, LockedIsHeld, WithinCapacity

-----------------------------------------------------------------------------
\* The invariant holds after any sequence of calls.
THEOREM Invariant == PoolSpec => []IInv
<1>1. IInv /\ [PoolNext]_poolVars => IInv'
  <2> SUFFICES ASSUME IInv, [PoolNext]_poolVars PROVE IInv'
    OBVIOUS
  <2>1. CASE UNCHANGED poolVars
    <3>1. \A i \in Items : Holders(i)' = Holders(i)
      BY <2>1 DEF poolVars, Holders
    <3> QED BY <2>1, <3>1 DEF IInv, poolVars, PoolTypeOK, HoldersHoldTheirWant, LockedIsHeld, WithinCapacity,
                             WaitersLack, Free
  <2>2. CASE PoolNext
    BY <2>2, AddInvariant, WaitInvariant, LockAllInvariant, UnlockInvariant DEF PoolNext, LockerStep
  <2> QED BY <2>1, <2>2
<1> QED BY <1>1, InitInvariant, PTL DEF PoolSpec

\* For any number of callers and items: the count of an item is the number of callers
\* whose Lock returned with it, no item is given to more callers than were added, and
\* nobody sleeps in Lock while everything they asked for is free.
THEOREM PoolIsCorrect == PoolSpec => []PoolCorrect
<1>1. IInv => PoolCorrect
  BY DEF IInv, PoolCorrect
<1> QED BY <1>1, Invariant, PTL
=============================================================================

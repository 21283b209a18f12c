--------------------------------- MODULE Pool ---------------------------------
(***************************************************************************)
(* sig.Pool: counted items, of which a caller locks several at once.       *)
(* Every method runs under the lock of the condition variable; a round of  *)
(* Lock's loop is one step that ends in success or in Wait.  `locked`      *)
(* counts each item; `held` records what each holder's Lock returned with. *)
(***************************************************************************)
EXTENDS Integers, FiniteSets

CONSTANTS Lockers,   \* goroutines that lock, use and unlock
          Items,
          Wants,     \* the sets of items a Lock call may name
          MaxCap     \* bound: the capacity of an item

ASSUME PoolAssumption ==
  /\ IsFiniteSet(Lockers) /\ Wants \subseteq SUBSET Items /\ {} \notin Wants /\ MaxCap \in Nat

VARIABLES cap, locked,
          want,     \* the items each locker's call names
          locker,   \* "idle", "run", "wait" or "holds"
          held      \* history: the items each holder was given

poolVars == <<cap, locked, want, locker, held>>

PoolTypeOK ==
  /\ cap \in [Items -> 0..MaxCap] /\ locked \in [Items -> Nat]
  /\ want \in [Lockers -> SUBSET Items] /\ held \in [Lockers -> SUBSET Items]
  /\ locker \in [Lockers -> {"idle", "run", "wait", "holds"}]

PoolInit ==
  /\ cap = [i \in Items |-> 0] /\ locked = [i \in Items |-> 0]
  /\ want = [l \in Lockers |-> {}] /\ held = [l \in Lockers |-> {}]
  /\ locker = [l \in Lockers |-> "idle"]

Woken == [l \in Lockers |-> IF locker[l] = "wait" THEN "run" ELSE locker[l]]

Add(i) ==
  /\ cap[i] < MaxCap
  /\ cap' = [cap EXCEPT ![i] = @ + 1]
  /\ locker' = Woken
  /\ UNCHANGED <<locked, want, held>>

Lock(l, names) ==
  /\ locker[l] = "idle"
  /\ want' = [want EXCEPT ![l] = names]
  /\ locker' = [locker EXCEPT ![l] = "run"]
  /\ UNCHANGED <<cap, locked, held>>

\* lock(name): an item with nothing left cannot be locked.
Free(i) == cap[i] - locked[i] > 0

\* A round that finds every item free takes them all.
LockAll(l) ==
  /\ locker[l] = "run" /\ \A i \in want[l] : Free(i)
  /\ locked' = [i \in Items |-> IF i \in want[l] THEN locked[i] + 1 ELSE locked[i]]
  /\ held' = [held EXCEPT ![l] = want[l]]
  /\ locker' = [locker EXCEPT ![l] = "holds"]
  /\ UNCHANGED <<cap, want>>

\* A round that fails gives back what it took, all under the lock, and waits.
GiveBack(l) ==
  /\ locker[l] = "run" /\ \E i \in want[l] : ~Free(i)
  /\ locker' = [locker EXCEPT ![l] = "wait"]
  /\ UNCHANGED <<cap, locked, want, held>>

LessOne(n) == IF n <= 0 THEN n ELSE n - 1

UnlockItems(l) ==
  /\ locked' = [i \in Items |-> IF i \in want[l] THEN LessOne(locked[i]) ELSE locked[i]]
  /\ want' = [want EXCEPT ![l] = {}]
  /\ held' = [held EXCEPT ![l] = {}]
  /\ UNCHANGED cap

UnlockQuietly(l) ==
  /\ locker[l] = "holds"
  /\ UnlockItems(l)
  /\ locker' = [locker EXCEPT ![l] = "idle"]

Unlock(l) ==
  /\ locker[l] = "holds"
  /\ UnlockItems(l)
  /\ locker' = [Woken EXCEPT ![l] = "idle"]

LockerStep(l) == LockAll(l) \/ GiveBack(l)

PoolNext ==
  \/ \E i \in Items : Add(i)
  \/ \E l \in Lockers : LockerStep(l) \/ Unlock(l) \/ \E names \in Wants : Lock(l, names)

\* Goroutines run when they can, and a holder unlocks some time.
PoolFairness == \A l \in Lockers : WF_poolVars(LockerStep(l)) /\ WF_poolVars(Unlock(l))

PoolSpec == PoolInit /\ [][PoolNext]_poolVars /\ PoolFairness

-----------------------------------------------------------------------------
Holders(i) == {l \in Lockers : i \in held[l]}

\* The count of an item is the number of callers whose Lock has returned with it:
\* a caller that waits keeps nothing.
LockedIsHeld == \A i \in Items : locked[i] = Cardinality(Holders(i))

\* An item is never given to more callers than there are of it.
WithinCapacity == \A i \in Items : Cardinality(Holders(i)) <= cap[i]

\* A caller sleeps only while one of its items is used up: no release or addition is missed.
WaitersLack == \A l \in Lockers : locker[l] = "wait" => \E i \in want[l] : ~Free(i)

\* Callers with overlapping sets never block each other for good: where there is
\* one of everything and someone waits, someone gets what they asked for.
SomeoneGetsIt ==
  (\A i \in Items : cap[i] > 0) /\ (\E l \in Lockers : locker[l] = "wait")
    ~> \E l \in Lockers : locker[l] = "holds"

\* The counts are the locks held, no item is overcommitted, and nobody sleeps in Lock
\* while all they asked for is free.
PoolCorrect == PoolTypeOK /\ LockedIsHeld /\ WithinCapacity /\ WaitersLack
=============================================================================

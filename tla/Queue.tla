-------------------------------- MODULE Queue ----------------------------------
(***************************************************************************)
(* sig.Queue: a linked list that is also its own condition variable.  An   *)
(* element is empty until Push fills it, links a new empty element behind  *)
(* it and closes its wait channel, or Close closes the channel with no     *)
(* link, which is the end.  Push and Close may be called on any element:   *)
(* they walk to the last one, each element locked while they are in it.    *)
(* Subscribe follows the list from an element and hands the values to a    *)
(* consumer; Handle is a consumer that stops at an error of its function.  *)
(*                                                                         *)
(* The list is a sequence: an element is linked to the one behind it.  An  *)
(* element is written under its lock and only read after its channel was   *)
(* closed, so Push and Close are one step each.                            *)
(***************************************************************************)
EXTENDS Naturals, Sequences

CONSTANTS Subscribers, Entries, MaxPushes

ASSUME QueueAssumption == MaxPushes \in Nat /\ Entries # {}

VARIABLES wait,      \* the channel of each element: "nil", "open" or "closed"
          data,      \* the value of each element, the zero value until it is pushed
          subAt,     \* per subscriber: "off", "loop", "select", "send" or "done"
          subPos,    \* per subscriber: the element it is on
          subFrom,   \* per subscriber: the element it started on
          subLive,   \* the subscribers whose context has not ended
          got,       \* per subscriber: the values its consumer received
          pushed,    \* the values of the calls of Push, in order
          queueShut,      \* Close was called
          queuePanicked   \* a closed channel was closed again

queueVars == <<wait, data, subAt, subPos, subFrom, subLive, got, pushed, queueShut, queuePanicked>>

QueueTypeOK ==
  /\ wait \in Seq({"nil", "open", "closed"}) /\ data \in Seq(Entries) /\ Len(data) = Len(wait)
  /\ subAt \in [Subscribers -> {"off", "loop", "select", "send", "done"}]
  /\ subPos \in [Subscribers -> Nat] /\ subFrom \in [Subscribers -> Nat] /\ subLive \subseteq Subscribers
  /\ pushed \in Seq(Entries) /\ got \in [Subscribers -> Seq(Entries)]
  /\ queueShut \in BOOLEAN /\ queuePanicked \in BOOLEAN

\* The zero value of the element type.
ZeroEntry == CHOOSE v \in Entries : TRUE

QueueInit ==
  /\ wait = <<"nil">> /\ data = <<ZeroEntry>> /\ pushed = <<>> /\ queueShut = FALSE /\ queuePanicked = FALSE
  /\ subAt = [s \in Subscribers |-> "off"] /\ subLive = Subscribers
  /\ subPos = [s \in Subscribers |-> 1] /\ subFrom = [s \in Subscribers |-> 1]
  /\ got = [s \in Subscribers |-> <<>>]

-----------------------------------------------------------------------------
\* Mutant form: a call on an element that has a successor does not walk on.
StayHere(i) == i
\* The element a call of Push or Close on element i acts on.
LastFrom(i) == Len(wait)

\* Mutant form: an element nobody waited on yet gets no channel.
WakeWaiters(w) == IF w = "nil" THEN "nil" ELSE "closed"
\* The channel is made if nobody waited yet, and closed.
WakeSubs(w) == "closed"

\* Nothing is said of the list after a panic: the value may have been linked or not.
PushValue(i, v) ==
  LET t == LastFrom(i) IN
  /\ ~queuePanicked /\ Len(pushed) < MaxPushes
  /\ \/ wait[t] = "closed" /\ queuePanicked' = TRUE /\ UNCHANGED <<wait, data, pushed>>
     \/ /\ wait[t] # "closed" /\ UNCHANGED queuePanicked
        /\ wait' = Append([wait EXCEPT ![t] = WakeSubs(@)], "nil") /\ data' = Append([data EXCEPT ![t] = v], ZeroEntry)
        /\ pushed' = Append(pushed, v)
  /\ UNCHANGED <<subAt, subPos, subFrom, subLive, got, queueShut>>

CloseQueue(i) ==
  LET t == LastFrom(i) IN
  /\ ~queuePanicked
  /\ \/ wait[t] = "closed" /\ queuePanicked' = TRUE /\ UNCHANGED <<wait, queueShut>>
     \/ wait[t] # "closed" /\ wait' = [wait EXCEPT ![t] = WakeSubs(@)] /\ queueShut' = TRUE /\ UNCHANGED queuePanicked
  /\ UNCHANGED <<data, subAt, subPos, subFrom, subLive, got, pushed>>

-----------------------------------------------------------------------------
Subscribe(s, i) ==
  /\ ~queuePanicked /\ subAt[s] = "off" /\ subAt' = [subAt EXCEPT ![s] = "loop"]
  /\ subPos' = [subPos EXCEPT ![s] = i] /\ subFrom' = [subFrom EXCEPT ![s] = i]
  /\ UNCHANGED <<wait, data, subLive, got, pushed, queueShut, queuePanicked>>

\* The channel to select on is made by the first who waits.
WaitNext(s) ==
  /\ ~queuePanicked /\ subAt[s] = "loop" /\ subAt' = [subAt EXCEPT ![s] = "select"]
  /\ wait' = [wait EXCEPT ![subPos[s]] = IF @ = "nil" THEN "open" ELSE @]
  /\ UNCHANGED <<data, subPos, subFrom, subLive, got, pushed, queueShut, queuePanicked>>

\* The channel is closed: the end if there is no next element, or a value to hand over.
WokenSub(s) ==
  /\ ~queuePanicked /\ subAt[s] = "select" /\ wait[subPos[s]] = "closed"
  /\ subAt' = [subAt EXCEPT ![s] = IF subPos[s] < Len(wait) THEN "send" ELSE "done"]
  /\ UNCHANGED <<wait, data, subPos, subFrom, subLive, got, pushed, queueShut, queuePanicked>>

\* The consumer receives, and the subscriber moves to the next element.
Deliver(s) ==
  /\ ~queuePanicked /\ subAt[s] = "send" /\ subAt' = [subAt EXCEPT ![s] = "loop"]
  /\ got' = [got EXCEPT ![s] = Append(@, data[subPos[s]])] /\ subPos' = [subPos EXCEPT ![s] = @ + 1]
  /\ UNCHANGED <<wait, data, subFrom, subLive, pushed, queueShut, queuePanicked>>

\* The context of a subscriber ends, by its caller or because the function of Handle failed.
Leave(s) ==
  /\ ~queuePanicked /\ subAt[s] # "done" /\ s \in subLive /\ subLive' = subLive \ {s}
  /\ UNCHANGED <<wait, data, subAt, subPos, subFrom, got, pushed, queueShut, queuePanicked>>
Cancelled(s) ==
  /\ ~queuePanicked /\ subAt[s] \in {"select", "send"} /\ s \notin subLive /\ subAt' = [subAt EXCEPT ![s] = "done"]
  /\ UNCHANGED <<wait, data, subPos, subFrom, subLive, got, pushed, queueShut, queuePanicked>>

\* Calls are made on the first element, as by one who kept it, or on the last, as tree.Value does.
QueueNext ==
  \E i \in {1, Len(wait)} :
    \/ CloseQueue(i) \/ \E v \in Entries : PushValue(i, v)
    \/ \E s \in Subscribers : Subscribe(s, i) \/ WaitNext(s) \/ WokenSub(s) \/ Deliver(s) \/ Leave(s) \/ Cancelled(s)

QueueSpec == QueueInit /\ [][QueueNext]_queueVars

\* A subscriber is scheduled and its consumer receives; nobody has to push.
QueueFairness == \A s \in Subscribers : WF_queueVars(WaitNext(s) \/ WokenSub(s) \/ Deliver(s) \/ Cancelled(s))

-----------------------------------------------------------------------------
\* What s received are the values from the element it started on to the one it is on.
Received(s) ==
  /\ Len(got[s]) = subPos[s] - subFrom[s]
  /\ \A k \in 1..Len(got[s]) : got[s][k] = pushed[subFrom[s] + k - 1]
\* s ended although its context did not: after the last value of a closed queue.
AtEnd(s) == subAt[s] = "done" /\ s \in subLive => queueShut /\ subPos[s] = Len(pushed) + 1

\* A subscriber receives the values pushed since the element it started on, in the order of
\* the calls of Push, none lost, none twice, however late it comes to an element; its
\* channel closes only after the last value of a closed queue, or by its context; and the
\* queue panics only when it is used after Close, for which Close and Push have no guard
\* (Push, Close, Wait, Subscribe).
QueueCorrect ==
  /\ \A s \in Subscribers : Received(s) /\ AtEnd(s)
  /\ queuePanicked => queueShut

\* Nobody sleeps through a wake-up: a subscriber gets to every value pushed and to the end
\* of a closed queue, or its context ends it, unless the queue panicked.
QueueProgress ==
  \A s \in Subscribers :
    /\ subAt[s] # "off" /\ queueShut ~> subAt[s] = "done" \/ queuePanicked
    /\ \A n \in 1..MaxPushes :
         subAt[s] # "off" /\ Len(pushed) >= n ~> subPos[s] > n \/ subAt[s] = "done" \/ queuePanicked
=============================================================================

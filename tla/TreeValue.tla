------------------------------- MODULE TreeValue -------------------------------
(***************************************************************************)
(* tree.Value: a typed value bound to a node of a remote tree, with a      *)
(* cache and a queue of updates for its followers.  Set and Clear hold the *)
(* mutex while they call the node, so `op` is both the call and the lock;  *)
(* the node's change notifications come on a stream of their own, in the   *)
(* order of the changes.  Node values outside Values are of another type.  *)
(***************************************************************************)
EXTENDS Naturals, Sequences, SequencesExt

CONSTANTS Values,      \* objects of the value's type T
          Zero,        \* T's zero
          Nil,         \* astral.Nil, which the node stores for Zero
          Strangers,   \* what other clients set: Values, Nil or an object of another type
          NoLocal,     \* no local update when the node rejects a Set
          Failures,    \* node calls may fail
          MaxCalls,    \* bound: Set and Clear calls
          MaxStrange   \* bound: changes by other clients

ASSUME ValueAssumption ==
  /\ Zero \notin Values /\ Nil \notin Values
  /\ NoLocal \in BOOLEAN /\ Failures \in BOOLEAN
  /\ MaxCalls \in Nat /\ MaxStrange \in Nat

VARIABLES
  valueNode,       \* the values the remote node has held, oldest first
  valueBound,      \* 0, or the length of valueNode when Bind read it
  seen,       \* the notifications applied so far, as a position in valueNode
  following,  \* the stream of notifications is open
  cached,
  queue,      \* every value pushed for the followers
  op,         \* the call that holds the mutex
  calls, strange,
  got,        \* what a follower has received; empty before Follow
  nextValue,       \* the follower's position in queue
  joined,     \* history: Follow was called on a bound value
  base,       \* history: the length of queue at Bind
  own         \* history: the last call that returned no error, until something else happens

valueVars == <<valueNode, valueBound, seen, following, cached, queue, op, calls, strange, got, nextValue, joined, base, own>>

Typed == Values \cup {Zero}
Idle == [kind |-> "none", v |-> Zero, at |-> "none"]
Unknown == [kind |-> "none", v |-> Zero]

ValueTypeOK ==
  /\ valueNode \in Seq(Values \cup {Nil} \cup Strangers) /\ Len(valueNode) > 0
  /\ valueBound \in 0..Len(valueNode) /\ seen \in valueBound..Len(valueNode) /\ following \in BOOLEAN
  /\ cached \in Typed /\ queue \in Seq(Typed)
  /\ op \in [kind : {"none", "set", "clear"}, v : Typed, at : {"none", "call", "done"}]
  /\ calls \in 0..MaxCalls /\ strange \in 0..MaxStrange
  /\ got \in Seq(Typed) /\ nextValue \in 0..Len(queue)
  /\ joined \in BOOLEAN /\ base \in 0..Len(queue)
  /\ own \in [kind : {"none", "set", "clear"}, v : Typed]

ValueInit ==
  /\ valueNode = <<Nil>> /\ valueBound = 0 /\ seen = 0 /\ following = FALSE
  /\ cached = Zero /\ queue = << >>
  /\ op = Idle /\ calls = 0 /\ strange = 0
  /\ got = << >> /\ nextValue = 0 /\ joined = FALSE /\ base = 0 /\ own = Unknown

-----------------------------------------------------------------------------
\* update: astral.Nil and a value of another type both leave T's zero in the cache.
Cast(v) == IF v \in Values THEN v ELSE Zero

\* ... but only T's values and astral.Nil are pushed.
PushedFor(v) == IF v \in Values \cup {Nil} THEN <<Cast(v)>> ELSE << >>

\* Bind reads the node's value and follows it from there.
Bind ==
  /\ valueBound = 0 /\ op = Idle
  /\ valueBound' = Len(valueNode) /\ seen' = Len(valueNode) /\ following' = TRUE
  /\ cached' = Cast(Last(valueNode))
  /\ base' = Len(queue) /\ own' = Unknown
  /\ UNCHANGED <<valueNode, queue, op, calls, strange, got, nextValue, joined>>

\* apply: one notification, under the mutex.
Notify ==
  /\ following /\ op = Idle /\ seen < Len(valueNode)
  /\ seen' = seen + 1
  /\ cached' = Cast(valueNode[seen + 1])
  /\ queue' = queue \o PushedFor(valueNode[seen + 1])
  /\ own' = Unknown
  /\ UNCHANGED <<valueNode, valueBound, following, op, calls, strange, got, nextValue, joined, base>>

\* The stream closes and the goroutine that reads it ends; nothing reconnects it.
StreamEnds ==
  /\ following /\ Failures
  /\ following' = FALSE
  /\ UNCHANGED <<valueNode, valueBound, seen, cached, queue, op, calls, strange, got, nextValue, joined, base, own>>

\* Another client changes the node.
StrangerSets(v) ==
  /\ strange < MaxStrange
  /\ valueNode' = Append(valueNode, v)
  /\ strange' = strange + 1
  /\ UNCHANGED <<valueBound, seen, following, cached, queue, op, calls, got, nextValue, joined, base, own>>

-----------------------------------------------------------------------------
Call(kind, v) ==
  /\ op = Idle /\ calls < MaxCalls
  /\ op' = [kind |-> kind, v |-> v, at |-> "call"]
  /\ calls' = calls + 1
  /\ own' = Unknown
  /\ UNCHANGED <<valueNode, valueBound, seen, following, cached, queue, strange, got, nextValue, joined, base>>

Set(v) == Call("set", v)

Clear == Call("clear", Zero)

NodeStores ==
  /\ op.at = "call" /\ valueBound > 0
  /\ valueNode' = Append(valueNode, IF op.kind = "set" THEN op.v ELSE Nil)
  /\ op' = [op EXCEPT !.at = "done"]
  /\ UNCHANGED <<valueBound, seen, following, cached, queue, calls, strange, got, nextValue, joined, base, own>>

\* The node confirms: Set puts the value in the cache, Clear leaves it to the notification.
AckCached ==
  /\ cached' = IF op.kind = "set" THEN op.v ELSE cached
  /\ UNCHANGED queue

Acked ==
  /\ op.at = "done"
  /\ AckCached
  /\ own' = [kind |-> op.kind, v |-> op.v]
  /\ op' = Idle
  /\ UNCHANGED <<valueNode, valueBound, seen, following, calls, strange, got, nextValue, joined, base>>

\* The node call fails, before or after the node has stored the value, or there
\* is no node.  Set then returns under NoLocal; Clear does so only if bound.
Refused == NoLocal /\ (valueBound > 0 \/ op.kind = "set")

Local ==
  /\ op # Idle
  /\ IF valueBound > 0 THEN Failures ELSE op.at = "call"
  /\ IF Refused
       THEN UNCHANGED <<cached, queue>>
       ELSE cached' = op.v /\ queue' = Append(queue, op.v)
  \* an unbound Set that is refused returns no error
  /\ own' = IF Refused /\ valueBound > 0 THEN Unknown ELSE [kind |-> op.kind, v |-> op.v]
  /\ op' = Idle
  /\ UNCHANGED <<valueNode, valueBound, seen, following, calls, strange, got, nextValue, joined, base>>

-----------------------------------------------------------------------------
\* Follow emits the cached value and subscribes to the queue, under the mutex.
Follow ==
  /\ got = << >> /\ op = Idle
  /\ got' = <<cached>> /\ joined' = (valueBound > 0) /\ nextValue' = Len(queue)
  /\ UNCHANGED <<valueNode, valueBound, seen, following, cached, queue, op, calls, strange, base, own>>

FollowerReceives ==
  /\ got # << >> /\ nextValue < Len(queue)
  /\ got' = Append(got, queue[nextValue + 1]) /\ nextValue' = nextValue + 1
  /\ UNCHANGED <<valueNode, valueBound, seen, following, cached, queue, op, calls, strange, joined, base, own>>

ValueNext ==
  \/ Bind \/ Notify \/ StreamEnds \/ \E v \in Strangers : StrangerSets(v)
  \/ Clear \/ \E v \in Values : Set(v)
  \/ NodeStores \/ Acked \/ Local
  \/ Follow \/ FollowerReceives

\* The notification goroutine and the follower run; a call to the node returns.
ValueFairness ==
  /\ WF_valueVars(Notify) /\ WF_valueVars(FollowerReceives)
  /\ WF_valueVars(NodeStores) /\ WF_valueVars(Acked) /\ WF_valueVars(Local)

ValueSpec == ValueInit /\ [][ValueNext]_valueVars /\ ValueFairness

-----------------------------------------------------------------------------
\* A bound value's followers are sent every change of the node since Bind that
\* is of type T or nil, once and in order, whoever made it: a Set adds none of its own.
EveryChangeOnce ==
  NoLocal /\ valueBound > 0
    => LET sent == SelectSeq(SubSeq(valueNode, valueBound + 1, seen), LAMBDA x : x \in Values \cup {Nil})
       IN SubSeq(queue, base + 1, Len(queue)) = [i \in DOMAIN sent |-> Cast(sent[i])]

\* The cache catches up with the node while the stream of notifications lives.
CacheConverges == <>[](valueBound > 0 /\ following => cached = Cast(Last(valueNode)))

\* A follower of a bound value ends up with the value that Get returns, while the
\* stream of notifications lives, whatever types of objects the node held on the way.
\* While it holds an object of another type the cache is T's zero, and a follower that
\* was there before is told nothing.
FollowerCatchesUp ==
  <>[](joined /\ following /\ Last(valueNode) \in Values \cup {Nil} => Last(got) = cached)

\* What a Set on a bound value has stored is what Get returns, until a notification or another call.
SetIsReadBack == valueBound > 0 /\ own.kind = "set" => cached = own.v

\* Every change of the node is queued for the followers once and in order, and a Set
\* is read back.
ValueCorrect == ValueTypeOK /\ EveryChangeOnce /\ SetIsReadBack

\* The cache ends up with what the node holds, and so does a follower when that is of
\* the value's type or nil.
ValueConverges == CacheConverges /\ FollowerCatchesUp
=============================================================================

----------------------------- MODULE QueueProofs -------------------------------
(***************************************************************************)
(* QueueCorrect for any number of subscribers, values and calls.  What a   *)
(* subscriber hands over is what was pushed because an element, once its   *)
(* channel is closed, is not written again: List says what every element   *)
(* holds, Place where a subscriber can be.                                 *)
(***************************************************************************)
EXTENDS Queue, TLAPS

\* Every element but the last was pushed; the last is closed after Close only.
List ==
  /\ Len(wait) = Len(pushed) + 1
  /\ \A i \in 1..Len(pushed) : wait[i] = "closed" /\ data[i] = pushed[i]
  /\ wait[Len(wait)] = "closed" <=> queueShut

\* A subscriber is on an element of the list, and hands a value over from a pushed one.
Place == \A s \in Subscribers :
  /\ 1 <= subFrom[s] /\ subFrom[s] <= subPos[s] /\ subPos[s] <= Len(wait)
  /\ subAt[s] = "send" => subPos[s] <= Len(pushed)
  /\ subAt[s] = "off" => got[s] = <<>>

QueueInv == QueueTypeOK /\ List /\ Place /\ QueueCorrect

\* An empty queue satisfies the invariant.
LEMMA QueueInitially == QueueInit => QueueInv
<1> SUFFICES ASSUME QueueInit PROVE QueueInv OBVIOUS
<1>0. ZeroEntry \in Entries BY QueueAssumption DEF ZeroEntry
<1>1. QueueTypeOK
  <2>1. wait \in Seq({"nil", "open", "closed"}) /\ data \in Seq(Entries) /\ Len(data) = Len(wait) /\ pushed \in Seq(Entries)
    BY <1>0 DEF QueueInit
  <2>2. got \in [Subscribers -> Seq(Entries)] BY DEF QueueInit
  <2> QED BY <2>1, <2>2 DEF QueueInit, QueueTypeOK
<1>2. List /\ Place BY DEF QueueInit, List, Place
<1>3. ASSUME NEW s \in Subscribers PROVE Received(s) /\ AtEnd(s)
  <2>1. got[s] = <<>> /\ Len(got[s]) = 0 /\ subPos[s] = 1 /\ subFrom[s] = 1 /\ subAt[s] = "off" BY DEF QueueInit
  <2> QED BY <2>1 DEF Received, AtEnd
<1>4. QueueCorrect BY <1>3 DEF QueueInit, QueueCorrect
<1> QED BY <1>1, <1>2, <1>4 DEF QueueInv

\* Every call and every step of a subscriber preserves the invariant.
LEMMA QueueStep == QueueInv /\ [QueueNext]_queueVars => QueueInv'
<1> SUFFICES ASSUME QueueInv, [QueueNext]_queueVars PROVE QueueInv' OBVIOUS
<1>0. QueueTypeOK /\ List /\ Place /\ QueueCorrect BY DEF QueueInv
<1>z. ZeroEntry \in Entries BY QueueAssumption DEF ZeroEntry
<1>1. ASSUME NEW i \in {1, Len(wait)}, CloseQueue(i) PROVE QueueInv'
  <2>1. Len(wait) \in 1..Len(wait) /\ UNCHANGED <<data, subAt, subPos, subFrom, subLive, got, pushed>>
    BY <1>0, <1>1 DEF CloseQueue, List, QueueTypeOK
  <2>2. CASE wait[Len(wait)] = "closed"
    <3>1. queuePanicked' = TRUE /\ UNCHANGED <<wait, queueShut>> BY <1>1, <2>2 DEF CloseQueue, LastFrom
    <3>2. QueueTypeOK' /\ List' /\ Place' BY <1>0, <2>1, <3>1 DEF QueueTypeOK, List, Place
    <3>3. QueueCorrect' BY <1>0, <2>1, <2>2, <3>1 DEF QueueCorrect, List, Received, AtEnd
    <3> QED BY <3>2, <3>3 DEF QueueInv
  <2>3. CASE wait[Len(wait)] # "closed"
    <3>1. wait' = [wait EXCEPT ![Len(wait)] = "closed"] /\ queueShut' = TRUE /\ queuePanicked' = queuePanicked
      BY <1>1, <2>3 DEF CloseQueue, LastFrom, WakeSubs
    <3>2. QueueTypeOK' BY <1>0, <2>1, <3>1 DEF QueueTypeOK
    <3>3. List' BY <1>0, <2>1, <3>1 DEF List, QueueTypeOK
    <3>4. Place' BY <1>0, <2>1, <3>1 DEF Place, QueueTypeOK
    <3>5. QueueCorrect' BY <1>0, <2>1, <3>1 DEF QueueCorrect, Received, AtEnd
    <3> QED BY <3>2, <3>3, <3>4, <3>5 DEF QueueInv
  <2> QED BY <2>2, <2>3
<1>2. ASSUME NEW i \in {1, Len(wait)}, NEW v \in Entries, PushValue(i, v) PROVE QueueInv'
  <2> DEFINE t == Len(wait)
  <2>1. t \in 1..Len(wait) /\ t \in 1..Len(data) /\ UNCHANGED <<subAt, subPos, subFrom, subLive, got, queueShut>>
    BY <1>0, <1>2 DEF PushValue, List, QueueTypeOK
  <2>2. CASE wait[t] = "closed"
    <3>1. queuePanicked' = TRUE /\ UNCHANGED <<wait, data, pushed>> BY <1>2, <2>2 DEF PushValue, LastFrom
    <3>2. QueueTypeOK' /\ List' /\ Place' BY <1>0, <2>1, <3>1 DEF QueueTypeOK, List, Place
    <3>3. QueueCorrect' BY <1>0, <2>1, <2>2, <3>1 DEF QueueCorrect, List, Received, AtEnd
    <3> QED BY <3>2, <3>3 DEF QueueInv
  <2>3. CASE wait[t] # "closed"
    <3>1. /\ wait' = Append([wait EXCEPT ![t] = "closed"], "nil") /\ data' = Append([data EXCEPT ![t] = v], ZeroEntry)
          /\ pushed' = Append(pushed, v) /\ queuePanicked' = queuePanicked
      BY <1>2, <2>3 DEF PushValue, LastFrom, WakeSubs
    <3>2. QueueTypeOK' BY <1>0, <1>z, <2>1, <3>1 DEF QueueTypeOK
    <3>3. /\ Len(wait') = t + 1 /\ wait'[t + 1] = "nil" /\ wait'[t] = "closed" /\ \A k \in 1..(t - 1) : wait'[k] = wait[k]
          /\ data'[t] = v /\ \A k \in 1..(t - 1) : data'[k] = data[k]
          /\ Len(pushed') = t /\ pushed'[t] = v /\ \A k \in 1..(t - 1) : pushed'[k] = pushed[k]
      BY <1>0, <1>z, <2>1, <3>1 DEF List, QueueTypeOK
    <3>4. ~queueShut BY <1>0, <2>3 DEF List
    <3>5. List'
      <4>1. t = Len(pushed) + 1 /\ t \in Nat BY <1>0 DEF List, QueueTypeOK
      <4>2. ASSUME NEW k \in 1..t PROVE wait'[k] = "closed" /\ data'[k] = pushed'[k]
        <5>1. CASE k = t BY <3>3, <5>1
        <5>2. CASE k # t BY <1>0, <3>3, <4>1, <5>2 DEF List
        <5> QED BY <5>1, <5>2
      <4>3. wait'[Len(wait')] = "nil" /\ ~queueShut' BY <2>1, <3>3, <3>4
      <4> QED BY <3>3, <4>1, <4>2, <4>3 DEF List
    <3>6. Place' BY <1>0, <2>1, <3>3 DEF Place, List, QueueTypeOK
    <3>7. ASSUME NEW s \in Subscribers PROVE Received(s)'
      <4>1. got[s] \in Seq(Entries) /\ subFrom[s] \in Nat /\ subPos[s] \in Nat /\ Len(got[s]) \in Nat
            /\ 1 <= subFrom[s] /\ subPos[s] <= t /\ t = Len(pushed) + 1
        BY <1>0 DEF QueueTypeOK, Place, List
      <4>2. Received(s) BY <1>0 DEF QueueCorrect
      <4>3. ASSUME NEW k \in 1..Len(got[s]) PROVE got[s][k] = pushed'[subFrom[s] + k - 1]
        <5>1. subFrom[s] + k - 1 \in 1..(t - 1) BY <4>1, <4>2 DEF Received
        <5> QED BY <3>3, <4>2, <5>1 DEF Received
      <4> QED BY <2>1, <4>2, <4>3 DEF Received
    <3>8. ASSUME NEW s \in Subscribers PROVE AtEnd(s)' BY <1>0, <2>1, <3>4 DEF QueueCorrect, AtEnd
    <3>9. QueueCorrect' BY <1>0, <2>1, <3>1, <3>7, <3>8 DEF QueueCorrect
    <3> QED BY <3>2, <3>5, <3>6, <3>9 DEF QueueInv
  <2> QED BY <2>2, <2>3
<1>3. ASSUME NEW i \in {1, Len(wait)}, NEW s \in Subscribers, Subscribe(s, i) PROVE QueueInv'
  <2>1. QueueTypeOK' /\ List' BY <1>0, <1>3 DEF Subscribe, QueueTypeOK, List
  <2>2. Place' BY <1>0, <1>3 DEF Subscribe, Place, List, QueueTypeOK
  <2>3. ASSUME NEW u \in Subscribers PROVE Received(u)'
    <3>1. Received(u) /\ (subAt[u] = "off" => got[u] = <<>>) BY <1>0 DEF QueueCorrect, Place
    <3>2. CASE u = s
      <4>1. got'[s] = <<>> /\ subPos'[s] = i /\ subFrom'[s] = i /\ i \in Nat
        BY <1>0, <1>3, <3>1, <3>2 DEF Subscribe, QueueTypeOK
      <4>2. Len(got'[s]) = 0 /\ i - i = 0 BY <4>1
      <4> QED BY <3>2, <4>1, <4>2 DEF Received
    <3>3. CASE u # s BY <1>0, <1>3, <3>1, <3>3 DEF Subscribe, Received, QueueTypeOK
    <3> QED BY <3>2, <3>3
  <2>4. QueueCorrect' BY <1>0, <1>3, <2>3 DEF Subscribe, QueueCorrect, AtEnd, QueueTypeOK
  <2> QED BY <2>1, <2>2, <2>4 DEF QueueInv
<1>4. ASSUME NEW s \in Subscribers, WaitNext(s) PROVE QueueInv'
  <2>1. subPos[s] \in 1..Len(wait) BY <1>0 DEF Place, QueueTypeOK
  <2>2. QueueTypeOK' BY <1>0, <1>4, <2>1 DEF WaitNext, QueueTypeOK
  <2>3. List' BY <1>0, <1>4, <2>1 DEF WaitNext, List, QueueTypeOK
  <2>4. Place' BY <1>0, <1>4, <2>1 DEF WaitNext, Place, QueueTypeOK
  <2>5. QueueCorrect' BY <1>0, <1>4, <2>1 DEF WaitNext, QueueCorrect, Received, AtEnd, QueueTypeOK
  <2> QED BY <2>2, <2>3, <2>4, <2>5 DEF QueueInv
<1>5. ASSUME NEW s \in Subscribers, WokenSub(s) PROVE QueueInv'
  <2>1. QueueTypeOK' /\ List' BY <1>0, <1>5 DEF WokenSub, QueueTypeOK, List
  <2>2. Place' BY <1>0, <1>5 DEF WokenSub, Place, List, QueueTypeOK
  <2>3. ASSUME NEW u \in Subscribers PROVE Received(u)' BY <1>0, <1>5 DEF WokenSub, QueueCorrect, Received
  <2>4. ASSUME NEW u \in Subscribers PROVE AtEnd(u)'
    <3>1. CASE u = s
      BY <1>0, <1>5, <3>1 DEF WokenSub, Place, List, AtEnd, QueueTypeOK
    <3>2. CASE u # s BY <1>0, <1>5, <3>2 DEF WokenSub, QueueCorrect, AtEnd, QueueTypeOK
    <3> QED BY <3>1, <3>2
  <2>5. QueueCorrect' BY <1>0, <1>5, <2>3, <2>4 DEF WokenSub, QueueCorrect
  <2> QED BY <2>1, <2>2, <2>5 DEF QueueInv
<1>6. ASSUME NEW s \in Subscribers, Deliver(s) PROVE QueueInv'
  <2>1. subPos[s] \in 1..Len(pushed) /\ data[subPos[s]] = pushed[subPos[s]] /\ pushed[subPos[s]] \in Entries
    BY <1>0, <1>6 DEF Deliver, Place, List, QueueTypeOK
  <2>2. QueueTypeOK' BY <1>0, <1>6, <2>1 DEF Deliver, QueueTypeOK
  <2>3. List' /\ Place' BY <1>0, <1>6, <2>1 DEF Deliver, List, Place, QueueTypeOK
  <2>4. ASSUME NEW u \in Subscribers PROVE Received(u)'
    <3>1. Received(u) /\ got[u] \in Seq(Entries) /\ subFrom[u] \in Nat /\ subPos[u] \in Nat
      BY <1>0 DEF QueueCorrect, QueueTypeOK
    <3>2. CASE u = s
      <4>1. got'[s] = Append(got[s], pushed[subPos[s]]) /\ subPos'[s] = subPos[s] + 1 /\ subFrom'[s] = subFrom[s]
            /\ pushed' = pushed
        BY <1>0, <1>6, <2>1 DEF Deliver, QueueTypeOK
      <4>2. Len(got'[s]) = Len(got[s]) + 1 /\ Len(got[s]) \in Nat BY <2>1, <3>1, <3>2, <4>1
      <4>3. ASSUME NEW k \in 1..(Len(got[s]) + 1) PROVE got'[s][k] = pushed[subFrom[s] + k - 1]
        <5>1. CASE k = Len(got[s]) + 1
          <6>1. subFrom[s] + k - 1 = subPos[s] BY <3>1, <3>2, <4>2, <5>1 DEF Received
          <6> QED BY <2>1, <3>1, <3>2, <4>1, <5>1, <6>1
        <5>2. CASE k # Len(got[s]) + 1 BY <2>1, <3>1, <3>2, <4>1, <4>2, <5>2 DEF Received
        <5> QED BY <5>1, <5>2
      <4>4. Len(got[s]) + 1 = (subPos[s] + 1) - subFrom[s] BY <3>1, <3>2, <4>2 DEF Received
      <4>5. Len(got'[s]) = subPos'[s] - subFrom'[s] BY <4>1, <4>2, <4>4
      <4>6. \A k \in 1..Len(got'[s]) : got'[s][k] = pushed'[subFrom'[s] + k - 1] BY <4>1, <4>2, <4>3
      <4> QED BY <3>2, <4>5, <4>6 DEF Received
    <3>3. CASE u # s BY <1>0, <1>6, <3>1, <3>3 DEF Deliver, Received, QueueTypeOK
    <3> QED BY <3>2, <3>3
  <2>5. ASSUME NEW u \in Subscribers PROVE AtEnd(u)' BY <1>0, <1>6 DEF Deliver, QueueCorrect, AtEnd, QueueTypeOK
  <2>6. QueueCorrect' BY <1>0, <1>6, <2>4, <2>5 DEF Deliver, QueueCorrect
  <2> QED BY <2>2, <2>3, <2>6 DEF QueueInv
<1>7. ASSUME NEW s \in Subscribers, Leave(s) \/ Cancelled(s) PROVE QueueInv'
  <2>a. subAt' \in [Subscribers -> {"off", "loop", "select", "send", "done"}] /\ subLive' \subseteq Subscribers
    BY <1>0, <1>7 DEF Leave, Cancelled, QueueTypeOK
  <2>b. UNCHANGED <<wait, data, subPos, subFrom, got, pushed, queueShut, queuePanicked>> BY <1>7 DEF Leave, Cancelled
  <2>0. QueueTypeOK' BY <1>0, <2>a, <2>b DEF QueueTypeOK
  <2>1. List' BY <1>0, <1>7 DEF Leave, Cancelled, List
  <2>2. Place' BY <1>0, <1>7 DEF Leave, Cancelled, Place, QueueTypeOK
  <2>3. QueueCorrect' BY <1>0, <1>7 DEF Leave, Cancelled, QueueCorrect, Received, AtEnd, QueueTypeOK
  <2> QED BY <2>0, <2>1, <2>2, <2>3 DEF QueueInv
<1>8. CASE UNCHANGED queueVars
  BY <1>0, <1>8 DEF queueVars, QueueInv, QueueTypeOK, List, Place, QueueCorrect, Received, AtEnd
<1> QED BY <1>1, <1>2, <1>3, <1>4, <1>5, <1>6, <1>7, <1>8 DEF QueueNext

\* Whatever the number of subscribers, of values and of calls, and wherever in the list they
\* are made: a subscriber of a sig.Queue receives the values pushed since its element, in
\* order, without loss or repetition, and the queue panics only when it is used after Close.
THEOREM QueueInOrder == QueueSpec => []QueueCorrect
<1>1. QueueInv => QueueCorrect BY DEF QueueInv
<1> QED BY QueueInitially, QueueStep, <1>1, PTL DEF QueueSpec
=============================================================================

------------------------------ MODULE Dialogues --------------------------------
(***************************************************************************)
(* The API clients that hold a conversation instead of asking a question:  *)
(*   - inference.Complete sends a request and yields the chunks of the     *)
(*     answer, which answer checks against the stream rules;               *)
(*   - indexing.Subscription hands out changes one at a time and tells the *)
(*     node of each whether it was indexed;                                *)
(*   - nat.NodePunch and nat.NodeConsumeHole walk through a handshake.     *)
(*                                                                         *)
(* The other side sends what it likes (Subscription excepted: it sends the *)
(* change after its cursor and waits), or ends the channel; the link may   *)
(* break and the context may end at any moment.  An object is [is, n, ok]: *)
(* n is the index of a chunk, the version of a change or the endpoint in a *)
(* signal; ok says that a chunk finishes the answer, or that a signal is   *)
(* of this session, of this pair and reports no failure.                   *)
(***************************************************************************)
EXTENDS Naturals, Sequences, SequencesExt

CONSTANTS MaxHeard,     \* objects the other side sends
          IndexRange    \* a chunk index, 32 bits wide in the code, wraps here

VARIABLE talk

Obj(is, n, ok) == [is |-> is, n |-> n, ok |-> ok]

\* The steps of a handshake: what is sent, awaited and done.
Script ==
  [punch   |-> << <<"open", "">>, <<"send", "offer">>, <<"wait", "answer">>, <<"send", "ready">>, <<"wait", "go">>,
                  <<"punch", "">>, <<"send", "result">>, <<"wait", "result">> >>,
   consume |-> << <<"send", "lock">>, <<"wait", "locked">>, <<"send", "take">>, <<"wait", "taken">> >>,
   claim   |-> << <<"wait", "ack">> >>]
Handshakes == DOMAIN Script
Talks == Handshakes \cup {"complete", "subscribe"}

Said(kind) ==
  {Obj("error", 0, FALSE), Obj("other", 0, FALSE)} \cup
  CASE kind = "complete" -> [is : {"chunk"}, n : 0..(IndexRange - 1), ok : BOOLEAN]
                            \cup {Obj("usage", 0, TRUE), Obj("eos", 0, TRUE)}
    [] kind = "subscribe" -> [is : {"index", "unindex"}, n : 1..MaxHeard, ok : {TRUE}]
    [] kind = "punch" -> [is : {"answer", "go", "result"}, n : {1}, ok : BOOLEAN]
    [] kind = "consume" -> [is : {"locked", "taken"}, n : {1}, ok : BOOLEAN]
    [] kind = "claim" -> {Obj("ack", 1, TRUE)}

NoTalk == [kind |-> "none", at |-> "idle"]
\* next, finished and usage are the fields of answer; ep is the peer's endpoint of a punch.
Open(kind) ==
  [kind |-> kind, at |-> IF kind = "complete" THEN "send" ELSE IF kind = "subscribe" THEN "ready" ELSE "step",
   step |-> 1, skipped |-> {}, inbox |-> <<>>, heard |-> <<>>, peer |-> "open", ctx |-> "live", conn |-> "open",
   err |-> "none", next |-> 0, finished |-> FALSE, usage |-> FALSE, out |-> <<>>, ep |-> 0, tried |-> <<>>,
   pending |-> <<>>, cursor |-> 0, answers |-> <<>>, asked |-> FALSE]

TalkOver(t, err) == [t EXCEPT !.at = "over", !.err = err, !.conn = "closed"]
\* ctxErr prefers the end of the context to the error it caused.
TalkCtxErr(t, err) == IF t.ctx = "done" THEN "ctx" ELSE err

\* How Receive may fail: after what the other side sent, or because this side closed.
Ends(t) == IF t.conn = "closed" THEN {"eof", "transport"}
           ELSE IF t.inbox = <<>> THEN {t.peer} \ {"open"} ELSE {}
Hear(t) == [t EXCEPT !.inbox = <<>>, !.heard = Append(@, t.inbox[1])]
TalkCanSend(t) == t.conn = "open"

-----------------------------------------------------------------------------
\* The other side, the link and the context.
StartTalk == talk = NoTalk /\ \E kind \in Talks : talk' \in {Open(kind), TalkOver(Open(kind), "query")}
Talking == talk.at \notin {"idle", "over"}
PeerSends ==
  /\ Talking /\ talk.peer = "open" /\ talk.conn = "open" /\ talk.inbox = <<>> /\ Len(talk.heard) < MaxHeard
  /\ \E o \in Said(talk.kind) :
       /\ o.is \in {"index", "unindex"} => o.n = talk.cursor + 1 /\ ~talk.asked
       /\ talk' = [talk EXCEPT !.inbox = <<o>>, !.asked = @ \/ o.is \in {"index", "unindex"}]
PeerEnds == Talking /\ talk.peer = "open" /\ \E end \in {"eof", "transport"} : talk' = [talk EXCEPT !.peer = end]
TalkCtxEnds == Talking /\ talk.ctx = "live" /\ talk' = [talk EXCEPT !.ctx = "done"]

\* Where the end of the context closes the channel: all through Complete, for as long as a
\* subscription is open, and in a handshake while it waits.
Watched(t) == t.kind \in {"complete", "subscribe"} \/ (t.at = "step" /\ Script[t.kind][t.step][1] = "wait")
CtxCloses ==
  Talking /\ talk.ctx = "done" /\ talk.conn = "open" /\ Watched(talk) /\ talk' = [talk EXCEPT !.conn = "closed"]

-----------------------------------------------------------------------------
\* inference.Complete.
Yield(t, o) == [t EXCEPT !.at = "yield", !.out = Append(@, o)]

Chunk(t, o) ==
  IF t.finished THEN TalkOver(t, "afterFinish")
  ELSE IF o.n # t.next THEN TalkOver(t, "outOfOrder")
  ELSE Yield([t EXCEPT !.next = (@ + 1) % IndexRange, !.finished = o.ok], o)

\* Mutant form: usage is passed on whenever it comes, once.
ReportedAny(t, o) == IF t.usage THEN TalkOver(t, "usageTwice") ELSE Yield([t EXCEPT !.usage = TRUE], o)
Reported(t, o) ==
  IF ~t.finished THEN TalkOver(t, "usageEarly")
  ELSE IF t.usage THEN TalkOver(t, "usageTwice")
  ELSE Yield([t EXCEPT !.usage = TRUE], o)

ReadAnswer(t, o) ==
  CASE o.is = "chunk" -> Chunk(t, o)
    [] o.is = "usage" -> Reported(t, o)
    [] o.is = "eos" -> TalkOver(t, IF t.finished THEN "none" ELSE "ErrUnfinished")
    [] o.is = "error" -> TalkOver(t, "remote")
    [] OTHER -> TalkOver(t, "unexpected")

\* The channel ended: the answer is whole if its finishing chunk came.
EndAnswer(t, end) ==
  TalkOver(t, IF t.finished THEN "none" ELSE TalkCtxErr(t, IF end = "eof" THEN "ErrUnfinished" ELSE end))

Complete ==
  /\ talk.kind = "complete"
  /\ \/ /\ talk.at = "send"
        /\ \/ TalkCanSend(talk) /\ talk' = [talk EXCEPT !.at = "recv"]
           \/ talk' = TalkOver(talk, TalkCtxErr(talk, "transport"))
     \/ talk.at = "recv" /\ talk.inbox # <<>> /\ talk.conn = "open" /\ talk' = ReadAnswer(Hear(talk), talk.inbox[1])
     \/ talk.at = "recv" /\ \E end \in Ends(talk) : talk' = EndAnswer(talk, end)
     \/ talk.at = "yield" /\ talk' \in {[talk EXCEPT !.at = "recv"], TalkOver(talk, "stopped")}

-----------------------------------------------------------------------------
\* indexing.Subscription.  A method that fails, as Next does at the end of the channel or
\* while a change is pending, leaves the subscription as it is.
NextChange ==
  /\ talk.kind = "subscribe" /\ talk.at = "ready" /\ talk.pending = <<>> /\ talk.inbox # <<>> /\ talk.conn = "open"
  /\ talk' = [Hear(talk) EXCEPT !.pending = IF talk.inbox[1].is \in {"index", "unindex"} THEN talk.inbox ELSE @]

\* Ack and Fail: the pending change is answered, and the node goes on from its cursor.
AnswerChange(says) ==
  /\ talk.kind = "subscribe" /\ talk.at = "ready" /\ talk.pending # <<>> /\ TalkCanSend(talk)
  /\ talk' = [talk EXCEPT !.answers = Append(@, [says |-> says, n |-> talk.pending[1].n]), !.asked = FALSE,
                          !.pending = <<>>, !.cursor = IF says = "ack" THEN talk.pending[1].n ELSE @]

CloseSubscription == talk.kind = "subscribe" /\ Talking /\ talk' = TalkOver(talk, "none")

-----------------------------------------------------------------------------
\* nat.NodePunch, nat.NodeConsumeHole.
StepOf(t) == Script[t.kind][t.step]
Advance(t) == IF t.step = Len(Script[t.kind]) THEN TalkOver(t, "none") ELSE [t EXCEPT !.step = @ + 1]

\* A signal of another type, or one that is of another session or pair, or reports a failure.
Mismatched(t, o) == o.is # StepOf(t)[2] \/ ~o.ok

ExpectSignal(t, o) ==
  IF Mismatched(t, o) THEN TalkOver(t, IF o.is = "error" THEN "remote" ELSE "unexpected")
  ELSE Advance(IF o.is = "answer" THEN [t EXCEPT !.ep = o.n] ELSE t)

Handshake ==
  /\ talk.kind \in Handshakes /\ talk.at = "step"
  /\ LET does == StepOf(talk)[1] IN
     \/ does = "send" /\ ((TalkCanSend(talk) /\ talk' = Advance(talk)) \/ talk' = TalkOver(talk, "transport"))
     \/ does = "open" /\ talk' \in {Advance(talk), TalkOver(talk, "puncher")}
     \/ does = "punch" /\ LET t == [talk EXCEPT !.tried = <<talk.ep>>] IN talk' \in {Advance(t), TalkOver(t, "puncher")}
     \/ does = "wait" /\ talk.inbox # <<>> /\ talk.conn = "open" /\ talk' = ExpectSignal(Hear(talk), talk.inbox[1])
     \/ does = "wait" /\ \E end \in Ends(talk) :
          talk' = IF end = "eof" THEN Advance([talk EXCEPT !.skipped = @ \cup {talk.step}]) ELSE TalkOver(talk, end)

TalkInit == talk = NoTalk
TalkNext ==
  \/ StartTalk \/ PeerSends \/ PeerEnds \/ TalkCtxEnds \/ CtxCloses \/ Complete
  \/ NextChange \/ AnswerChange("ack") \/ AnswerChange("fail") \/ CloseSubscription \/ Handshake

\* The client's own steps are taken; a consumer takes what is yielded or stops.  Nothing is
\* assumed of the other side, the link, the context or the user of a subscription.
TalkFairness == WF_talk(Complete) /\ WF_talk(Handshake) /\ WF_talk(CtxCloses)

-----------------------------------------------------------------------------
IsChange(o) == o.is \in {"index", "unindex"}
IsChunk(o) == o.is = "chunk"
Whole(t) == \E i \in DOMAIN t.out : IsChunk(t.out[i]) /\ t.out[i].ok

\* What Complete yields are the objects the provider sent, chunks in index order, one
\* finishing chunk and then at most one usage.  A sequence that ends without an error had
\* its finishing chunk, and after one the end of the channel or of ctx is no error.
CompleteCorrect(t) ==
  LET chunks == SelectSeq(t.out, IsChunk) IN
  /\ t.out = SubSeq(t.heard, 1, Len(t.out))
  /\ \A i \in DOMAIN chunks : chunks[i].n = (i - 1) % IndexRange /\ (chunks[i].ok => i = Len(chunks))
  /\ \A i \in DOMAIN t.out : t.out[i].is = "usage" => i = Len(t.out) /\ i > 1 /\ t.out[i - 1].ok
  /\ t.at = "over" /\ t.err = "none" => Whole(t)
  /\ t.err \in {"ErrUnfinished", "ctx", "transport"} => ~Whole(t)

\* Each change Next returned is answered at most once and before the next one, the node's
\* cursor moves over acknowledged changes only and without a gap, and a change that failed
\* comes again.
SubscriptionCorrect(t) ==
  LET changes == SelectSeq(t.heard, IsChange) IN
  /\ Len(changes) = Len(t.answers) + Len(t.pending)
  /\ \A i \in DOMAIN t.answers :
       /\ t.answers[i].n = changes[i].n
       /\ i < Len(changes) => changes[i + 1].n = changes[i].n + (IF t.answers[i].says = "ack" THEN 1 ELSE 0)
  /\ \A n \in 1..t.cursor : \E i \in DOMAIN t.answers : t.answers[i].says = "ack" /\ t.answers[i].n = n

\* A handshake succeeds when each signal it waited for came, in order, of this session and
\* without a failure, except where the channel ended instead: a Switch without FailOnEOF
\* then goes on.  The hole is punched towards the endpoint of the answer, or towards none
\* when the answer was skipped.
HandshakeCorrect(t) ==
  LET waits == SelectSeq(Script[t.kind], LAMBDA s : s[1] = "wait")
      awaited == [i \in DOMAIN Script[t.kind] |-> Len(SelectSeq(SubSeq(Script[t.kind], 1, i), LAMBDA s : s[1] = "wait"))]
  IN /\ t.at = "over" /\ t.err = "none" =>
          /\ Len(t.heard) + Cardinality(t.skipped) = Len(waits)
          /\ \A i \in DOMAIN t.heard : t.heard[i].ok /\ t.heard[i].is = waits[i][2]
          /\ \A i \in t.skipped : awaited[i] > Len(t.heard)
     /\ t.tried # <<>> => t.tried[1] = IF t.heard = <<>> THEN 0 ELSE t.heard[1].n

\* The three kinds of conversation keep their rules (Complete with answer; Subscription;
\* NodePunch and NodeConsumeHole).
DialogueCorrect ==
  /\ talk.kind = "complete" => CompleteCorrect(talk)
  /\ talk.kind = "subscribe" => SubscriptionCorrect(talk)
  /\ talk.kind \in Handshakes => HandshakeCorrect(talk)

\* The end of the context ends a conversation whatever the other side does: Complete and a
\* handshake return, and the channel of a subscription is closed.
DialogueEnds ==
  (Talking /\ talk.ctx = "done") ~> (talk.at = "over" \/ (talk.kind = "subscribe" /\ talk.conn = "closed"))
=============================================================================

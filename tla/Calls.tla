-------------------------------- MODULE Calls --------------------------------
(***************************************************************************)
(* A call of an API client method against a node that answers as it likes: *)
(* with the expected object, with another, with an error object, with      *)
(* nothing, or not at all, while the caller's context may end and the link *)
(* may break at any moment.                                                *)
(*                                                                         *)
(* The call runs channel.Switch (astral/channel/switch.go): it receives    *)
(* objects one by one, hands each to the handler of its exact type or else *)
(* to the first interface handler that accepts it, and returns when a      *)
(* handler breaks or fails, on an object nobody handles, on a transport    *)
(* error and on EOF.  WithContext starts a watcher that closes the channel *)
(* when the context ends.  The module Methods says what each method passes *)
(* to Switch and what it makes of the result.                              *)
(***************************************************************************)
EXTENDS Methods, Naturals

CONSTANT MaxAnswers   \* objects the node sends in one call

VARIABLES
    call,     \* the call
    cache     \* the dir client's cache entry for the name asked: "empty",
              \* or what the call that filled it had received

Last1(s) == s[Len(s)]

(* No call is running. *)
NoCall == [at |-> "idle"]

Streams(m) == \E i \in DOMAIN m.on :
                  m.on[i].does \in {"offer", "offerNonZero", "hand"}

(* A call that opened its channel; it still has to send n objects. *)
Opened(m, n) ==
    [m |-> m, at |-> "send", toSend |-> n, inbox |-> "none", heard |-> <<>>,
     node |-> "open", conn |-> "open", ctx |-> "live", got |-> "none",
     list |-> <<>>, eos |-> FALSE, err |-> "none",
     out |-> IF Streams(m) THEN "open" ELSE "none", taken |-> <<>>,
     offer |-> "none", consumer |-> "ranging", round |-> 1]

--------------------------------------------------------------------------
(* Switch picks the handler: by object type, then by interface in order. *)

ObjectType(k) ==
    CASE k \in {"item", "zero"} -> "item"
      [] k \in {"value", "blank"} -> "value"
      [] k \in {"true", "false"} -> "bool"
      [] OTHER -> k

canCall(h, k) ==
    \/ h.type = "object"
    \/ h.type = "error" /\ k \in Errors

(* Mutant form: the last interface handler that accepts an object wins. *)
HandlerLast(on, k) ==
    LET any == SelectSeq(on, LAMBDA h : canCall(h, k) \/ h.type = ObjectType(k))
    IN  IF any = <<>> THEN On("none", "reject") ELSE Last1(any)

HandlerFor(on, k) ==
    LET exact == SelectSeq(on, LAMBDA h : h.type = ObjectType(k))
        any == SelectSeq(on, LAMBDA h : canCall(h, k))
    IN  IF exact # <<>> THEN Last1(exact)
        ELSE IF any # <<>> THEN Head(any) ELSE On("none", "reject")

(* What the method makes of the error Switch returned. *)

CtxReplaces(c, err) ==
    /\ c.ctx = "done"
    /\ \/ c.m.ctxErr = "always"
       \/ c.m.ctxErr = "failed" /\ err # "nil"
       \/ c.m.ctxErr = "unanswered" /\ c.got = "none"

WithoutAnswer(c) ==
    CASE c.m.need = "value" /\ c.got = "none" -> "noAnswer"
      [] c.m.need = "identity" /\ c.got \in {"none", "blank"} -> "noAnswer"
      [] c.m.need = "eos" /\ ~c.eos -> "eof"
      [] c.m.need = "notNil" /\ c.got = "nil" -> "unknown"
      [] c.m.need = "deref" /\ c.got = "none" -> "panic"
      [] OTHER -> "nil"

Result(c, err) ==
    IF CtxReplaces(c, err) THEN "ctx"
    ELSE IF err # "nil" THEN err ELSE WithoutAnswer(c)

(* The method returns err: deferred closes run, and a channel the caller   *)
(* keeps stays open only on success.                                       *)
Returned(c, err) ==
    [c EXCEPT !.at = "returned", !.err = err, !.offer = "none",
              !.conn = IF c.m.leak \/ (c.m.keep /\ err = "nil") THEN @ ELSE "closed",
              !.out = IF @ = "open" THEN "closed" ELSE @]

(* Switch returned err.  A following Scan then offers the separator. *)
AfterSwitch(c, err) ==
    IF c.m.follow /\ c.round = 1 /\ err = "nil"
    THEN [c EXCEPT !.at = "offering", !.offer = "separator", !.round = 2]
    ELSE Returned(c, Result(c, err))

Offering(c, k) == [c EXCEPT !.at = "offering", !.offer = k]

(* Switch calls the handler for a received object. *)
Handle(c, k) ==
    LET does == HandlerFor(c.m.on, k).does
    IN  CASE does = "break" -> AfterSwitch(c, "nil")
          [] does = "mark" -> AfterSwitch([c EXCEPT !.eos = TRUE], "nil")
          [] does = "take" -> AfterSwitch([c EXCEPT !.got = k], "nil")
          [] does = "fail" -> AfterSwitch(c, "remote")
          [] does = "judge" -> AfterSwitch(c, IF k = "true" THEN "nil" ELSE "rejected")
          [] does = "collect" -> [c EXCEPT !.list = Append(@, k)]
          [] does = "offerNonZero" /\ k = "zero" -> c
          [] does \in {"offer", "offerNonZero", "hand"} -> Offering(c, k)
          [] OTHER -> AfterSwitch(c, "unexpected")

(* A cached answer is set only by a call that succeeded. *)
Finish(c) ==
    /\ call' = c
    /\ cache' = IF c.at = "returned" /\ c.m.cache /\ c.err = "nil"
                THEN c.got ELSE cache

--------------------------------------------------------------------------
Uncached(m) == ~m.cache \/ cache = "empty"

(* A key that parses, or the cache, answers the call without a query. *)
CallAnswered(m) ==
    /\ call = NoCall
    /\ \E answer \in (IF m.parses THEN {"value"} ELSE {})
                      \cup (IF Uncached(m) THEN {} ELSE {cache}) :
          call' = Returned([Opened(m, 0) EXCEPT !.got = answer], "nil")
    /\ UNCHANGED cache

(* The query fails.  A streaming method returns its output channel all the *)
(* same: a closed one, or none at all.                                     *)
CallRefused(m) ==
    /\ call = NoCall /\ Uncached(m)
    /\ call' = [Returned(Opened(m, 0), "query") EXCEPT
                   !.conn = "closed", !.out = IF m.nilOut THEN "nil" ELSE @]
    /\ UNCHANGED cache

CallOpened(m) ==
    /\ call = NoCall /\ Uncached(m)
    /\ \E n \in m.sends : call' = Opened(m, n)
    /\ UNCHANGED cache

(* The request objects go out one by one; a failed send ends the call. *)
CallSend ==
    /\ call.at = "send"
    /\ \/ call.toSend > 0 /\ call' = [call EXCEPT !.toSend = @ - 1]
       \/ call.toSend > 0 /\ call' = Returned(call, "transport")
       \/ call.toSend = 0 /\ call' = [call EXCEPT !.at = "switch"]
    /\ UNCHANGED cache

(* The node sends what the method handles, an error or something else. *)
NodeSends(k) ==
    /\ call.at \in {"send", "switch", "offering"}
    /\ call.node = "open" /\ call.conn = "open" /\ call.inbox = "none"
    /\ Len(call.heard) < MaxAnswers
    /\ k \in Errors \cup {"other"} \/ HandlerFor(call.m.on, k).does # "reject"
    /\ call' = [call EXCEPT !.inbox = k]
    /\ UNCHANGED cache

(* The node closes the channel, or the link breaks. *)
NodeEnds ==
    /\ call.at \in {"send", "switch", "offering"} /\ call.node = "open"
    /\ \E end \in {"eof", "transport"} : call' = [call EXCEPT !.node = end]
    /\ UNCHANGED cache

(* The caller cancels, or its deadline passes. *)
CtxEnds ==
    /\ call.at \in {"send", "switch", "offering"} /\ call.ctx = "live"
    /\ call' = [call EXCEPT !.ctx = "done"]
    /\ UNCHANGED cache

(* The watcher of WithContext closes the channel.  It may do so as Switch  *)
(* returns: its two cases are then both ready.                             *)
CallWatch ==
    /\ call.at \in {"switch", "offering", "returned"}
    /\ call.m.ctx /\ call.ctx = "done" /\ call.conn = "open"
    /\ call' = [call EXCEPT !.conn = "closed"]
    /\ UNCHANGED cache

CallReceive ==
    /\ call.at = "switch" /\ call.inbox # "none"
    /\ Finish(Handle([call EXCEPT !.inbox = "none",
                                  !.heard = Append(@, call.inbox)], call.inbox))

(* Receive fails: the node or this side closed the channel. *)
SwitchEnds(c, end) ==
    AfterSwitch(c, IF end # "eof" THEN end ELSE IF c.m.eof THEN "eof" ELSE "nil")

CallEnds ==
    /\ call.at = "switch"
    /\ \E end \in {"eof", "transport"} :
          /\ \/ call.conn = "closed"
             \/ call.inbox = "none" /\ call.node = end
          /\ Finish(SwitchEnds(call, end))

(* The consumer of a stream takes what is offered, or has stopped ranging. *)
ConsumerTakes ==
    /\ call.at = "offering" /\ call.consumer = "ranging"
    /\ call' = [call EXCEPT !.at = "switch", !.offer = "none",
                            !.taken = Append(@, call.offer)]
    /\ UNCHANGED cache

ConsumerLeaves ==
    /\ call.at \in {"send", "switch", "offering"} /\ Streams(call.m)
    /\ call.consumer = "ranging"
    /\ call' = [call EXCEPT !.consumer = "gone"]
    /\ UNCHANGED cache

(* sig.Send gives up when ctx ends, as the separator's select does, which  *)
(* returns without an error.  channel.Chan does not watch ctx.             *)
OfferGivesUp ==
    /\ call.at = "offering" /\ call.ctx = "done"
    /\ IF call.offer = "separator" THEN Finish(Returned(call, "nil"))
       ELSE /\ HandlerFor(call.m.on, call.offer).does # "hand"
            /\ Finish(AfterSwitch(call, "ctx"))

(* The caller asks again: a cached name is asked for once more. *)
CallAgain ==
    /\ call.at = "returned" /\ call.m.cache /\ call' = NoCall
    /\ UNCHANGED cache

CallInit == call = NoCall /\ cache = "empty"

CallNext ==
    \/ \E m \in AllMethods : CallAnswered(m) \/ CallRefused(m) \/ CallOpened(m)
    \/ CallSend \/ CallReceive \/ CallEnds \/ CallWatch \/ OfferGivesUp
    \/ ConsumerTakes \/ ConsumerLeaves \/ CtxEnds \/ NodeEnds \/ CallAgain
    \/ \E k \in Kinds : NodeSends(k)

(* The client's own steps are taken when they can be: its goroutines are   *)
(* scheduled.  Nothing is assumed of the node, the link or the context.  A *)
(* consumer that has not left keeps receiving.                             *)
CallFairness ==
    WF_<<call, cache>>(\/ CallSend \/ CallReceive \/ CallEnds \/ CallWatch
                       \/ OfferGivesUp \/ ConsumerTakes)

--------------------------------------------------------------------------
Over == call.at = "returned"
Succeeded == Over /\ call.err = "nil"

(* The object on which Switch stops with no error. *)
Stops(m, k) ==
    \/ HandlerFor(m.on, k).does \in {"break", "mark", "take"}
    \/ HandlerFor(m.on, k).does = "judge" /\ k = "true"

AnswerHeard == call.heard # <<>> /\ Stops(call.m, Last1(call.heard))

(* Methods that promise an answer: they pass FailOnEOF or check for one. *)
Strict(m) == m.eof \/ m.need \in {"value", "identity", "eos"}

Queried == call.heard # <<>> \/ ~call.m.cache
Elements(s) == SelectSeq(s, LAMBDA k : k \in {"item", "zero"})
NonZero(s) == SelectSeq(s, LAMBDA k : k = "item")
Collects(m) == \E i \in DOMAIN m.on : m.on[i].does = "collect"
SkipsZero(m) == \E i \in DOMAIN m.on : m.on[i].does = "offerNonZero"

(* What an API client call may return (the methods of api/*/client over    *)
(* channel.Switch).  An error object the node sent is never a success,     *)
(* whatever the order of the handlers; a method that uses FailOnEOF or     *)
(* checks its answer succeeds only after the node's last object ended it;  *)
(* a list or a stream that succeeds holds what the node sent, in order; a  *)
(* method that puts ctxErr first never succeeds after its context ended,   *)
(* and one that checks it only for a missing answer keeps an answer that   *)
(* arrived; a call that fails has a reason; the channel is closed on       *)
(* return unless the method hands it over; and only success fills a cache. *)
CallCorrect ==
    Over =>
      /\ Succeeded => \A i \in DOMAIN call.heard : call.heard[i] \notin Errors
      /\ Succeeded /\ Strict(call.m) => AnswerHeard
      /\ Succeeded /\ Collects(call.m) => call.list = Elements(call.heard)
      /\ Streams(call.m) =>
           LET sent == IF SkipsZero(call.m) THEN NonZero(call.heard)
                       ELSE Elements(call.heard)
               got == Elements(call.taken)
           IN  /\ got = SubSeq(sent, 1, Len(got))
               /\ Succeeded => got = sent
      /\ Succeeded /\ call.m.ctxErr = "always" => call.ctx = "live"
      /\ AnswerHeard /\ call.err # "nil" =>
           \/ call.ctx = "done" /\ call.m.ctxErr = "always"
           \/ call.m.need \in {"identity", "notNil"} /\ call.got \in {"blank", "nil"}
           \/ call.m.follow
      /\ call.err = "ctx" => call.ctx = "done"
      /\ call.err = "remote" => Last1(call.heard) \in Errors
      /\ call.conn = "open" => call.m.leak \/ (call.m.keep /\ Succeeded)
      /\ call.m.cache /\ ~Succeeded => cache = "empty"

(* A call ends once its context ends, provided it passes WithContext, even *)
(* when the node never answers and the consumer of a stream has left; and  *)
(* every call ends once the node closes the channel or the link breaks.    *)
(* The exception is channel.Chan, whose send watches nothing: it needs its *)
(* consumer (objects.Client.Scan).                                         *)
Held == call.at = "offering" /\ HandlerFor(call.m.on, call.offer).does = "hand"
        /\ call.consumer = "gone"
Abandoned == call.at # "idle" /\ call.consumer = "gone"
CallReturns ==
    /\ (call.at # "idle" /\ call.m.ctx /\ call.ctx = "done") ~> (Over \/ Held)
    /\ (call.at # "idle" /\ call.node # "open") ~> (Over \/ Abandoned)

(* What switch.go says of a Switch that must end on a handler ("Pass       *)
(* FailOnEOF() when the Switch must end on a handler, such as Expect or    *)
(* ExpectAck"): a method that waits for an object or an ack succeeds only  *)
(* when one arrived.                                                       *)
EndsOnHandler ==
    Succeeded /\ ~Streams(call.m) /\ Queried => AnswerHeard
=============================================================================

-------------------------------- MODULE Batch --------------------------------
(***************************************************************************)
(* astral/channel: Batch on top of Switch on top of a Receiver, with the   *)
(* goroutine that closes the channel when the context ends, against a      *)
(* caller that sends inputs, ends them with EOS and collects the replies   *)
(* until EOS.  A frame is what the receiver makes of it: an object of the  *)
(* type T the batch is for, another object, an error object, EOS, a type   *)
(* nobody registered, or a payload that ends before its object does: where *)
(* a field should start ("short") or inside one ("torn").                  *)
(***************************************************************************)
EXTENDS Naturals, Sequences

CONSTANTS MaxInputs

ASSUME BatchAssumption == MaxInputs \in Nat

Inputs  == {"typed", "other", "error", "unknown", "short", "torn"}
Formats == {"binary", "unparsed", "json", "text"}     \* "unparsed": binary with AllowUnparsed
Arms    == {"named", "any", "namesError"}             \* T: one type, astral.Object, or an error type

VARIABLES
  format, arm,
  inbound, inEnd,    \* frames on their way to the server; "open", "closed" or "cut" in a frame
  outbound, outEnd,  \* replies on their way to the caller
  server,            \* "receive", "call", "eos", "report", "close" or "done"
  object,            \* what Receive returned last
  batchResult,            \* what Switch returned: "none", "nil" or "error"
  batchCtxDone, closed,   \* the context has ended; the server's transport is closed
  batchWatcher,           \* Switch's goroutine: "waits" or "gone", or "none" without WithContext
  caller,            \* "sends", "reads", "complete", "eof" or "left"
  sent, received,    \* inputs the caller sent, and inputs Receive took off the stream
  got                \* replies the caller collected

batchVars == <<format, arm, inbound, inEnd, outbound, outEnd, server, object, batchResult,
               batchCtxDone, closed, batchWatcher, caller, sent, received, got>>

streamVars == <<inbound, inEnd, outbound, outEnd>>
callerVars == <<caller, sent, got>>
configVars == <<format, arm>>

BatchInit ==
  /\ format \in Formats /\ arm \in Arms
  /\ inbound = << >> /\ inEnd = "open" /\ outbound = << >> /\ outEnd = "open"
  /\ server = "receive" /\ object = "none" /\ batchResult = "none"
  /\ batchCtxDone = FALSE /\ closed = FALSE /\ batchWatcher \in {"waits", "none"}
  /\ caller = "sends" /\ sent = << >> /\ received = << >> /\ got = << >>

-----------------------------------------------------------------------------
\* What Receive makes of a frame.  A decoder that finds nothing where a
\* field should start returns io.EOF, which json.Unmarshal does not.
Decode(f) ==
  CASE f = "unknown" -> IF format = "unparsed" THEN "object" ELSE "error"
    [] f = "short"   -> IF format = "json" THEN "error" ELSE "eof"
    [] f = "torn"    -> "error"
    [] OTHER         -> "object"

\* A stream that ends inside a frame: an EOF when nothing of the next field was
\* read (of a line of text, whatever was read), and an error otherwise.
Truncated == CASE format = "json" -> {"error"} [] format = "text" -> {"eof"} [] OTHER -> {"eof", "error"}

\* Switch: EOF ends it with nil and any other error with that error.
SwitchReturns(err) ==
  /\ batchResult' = IF err = "eof" THEN "nil" ELSE "error"
  /\ server' = IF err = "eof" THEN "close" ELSE "report"

Receive ==
  /\ server = "receive" /\ ~closed /\ inbound # << >>
  /\ inbound' = Tail(inbound) /\ object' = Head(inbound)
  /\ received' = Append(received, Head(inbound))
  /\ IF Decode(Head(inbound)) = "object" THEN server' = "call" /\ UNCHANGED batchResult
                                         ELSE SwitchReturns(Decode(Head(inbound)))
  /\ UNCHANGED <<configVars, inEnd, outbound, outEnd, batchCtxDone, closed, batchWatcher, callerVars>>

\* The end of the stream, or of the transport: a closed pipe reads as EOF or as an error.
ReceiveEnds ==
  /\ server = "receive"
  /\ \/ closed /\ \E err \in {"eof", "error"} : SwitchReturns(err)
     \/ inbound = << >> /\ inEnd = "closed" /\ SwitchReturns("eof")
     \/ inbound = << >> /\ inEnd = "cut" /\ \E err \in Truncated : SwitchReturns(err)
  /\ object' = "none"
  /\ UNCHANGED <<configVars, streamVars, batchCtxDone, closed, batchWatcher, callerVars, received>>

-----------------------------------------------------------------------------
\* The types Switch keeps in its map: a handler of a pointer type names one.
ExactHandlers == {"eos"} \cup (IF arm = "named" THEN {"typed"} ELSE IF arm = "namesError" THEN {"error"} ELSE {})

\* The interfaces scanned in the order T, astral.Error, astral.Object.
HandlerTypedFirst(f) ==
  CASE f = "eos"            -> "mark"
    [] f \in ExactHandlers  -> "fn"
    [] arm = "any"          -> "fn"
    [] OTHER                -> "reject"

\* Switch's choice: the handler of the exact type, then the first interface that
\* fits, in the order Batch lists them: astral.Error, T, astral.Object.
Handler(f) ==
  CASE f = "eos"            -> "mark"
    [] f \in ExactHandlers  -> "fn"
    [] f = "error"          -> "reject"
    [] arm = "any"          -> "fn"
    [] OTHER                -> "reject"

ReplyTo(f) == IF Handler(f) = "fn" THEN "answer" ELSE "error_message"

\* ch.Send fails on a closed transport, and may when the caller has left.
CanFail == closed \/ outEnd = "closed"
Sent(reply) == ~closed /\ outbound' = Append(outbound, reply)

\* The handler runs and its reply is sent; a failed Send ends Switch with its error.
Call ==
  /\ server = "call" /\ Handler(object) # "mark"
  /\ \/ Sent(ReplyTo(object)) /\ server' = "receive" /\ UNCHANGED batchResult
     \/ CanFail /\ UNCHANGED outbound /\ SwitchReturns("error")
  /\ UNCHANGED <<configVars, inbound, inEnd, outEnd, object, batchCtxDone, closed, batchWatcher, callerVars, received>>

\* MarkEOS breaks the Switch.
Mark ==
  /\ server = "call" /\ Handler(object) = "mark"
  /\ server' = "eos" /\ batchResult' = "nil"
  /\ UNCHANGED <<configVars, streamVars, object, batchCtxDone, closed, batchWatcher, callerVars, received>>

\* Batch's end: the EOS is mirrored, an error is reported; either may fail to be sent.
Terminator == IF server = "eos" THEN "eos" ELSE "error_message"

FinishBatch ==
  /\ server \in {"eos", "report"}
  /\ \/ Sent(Terminator)
     \/ CanFail /\ UNCHANGED outbound
  /\ server' = "close"
  /\ UNCHANGED <<configVars, inbound, inEnd, outEnd, object, batchResult, batchCtxDone, closed, batchWatcher, callerVars, received>>

\* The op closes the channel when Batch has returned.
CloseChannel ==
  /\ server = "close" /\ server' = "done" /\ closed' = TRUE /\ outEnd' = "closed"
  /\ UNCHANGED <<configVars, inbound, inEnd, outbound, object, batchResult, batchCtxDone, batchWatcher, callerVars, received>>

-----------------------------------------------------------------------------
ContextCanceled ==
  /\ ~batchCtxDone /\ batchCtxDone' = TRUE
  /\ UNCHANGED <<configVars, streamVars, server, object, batchResult, closed, batchWatcher, callerVars, received>>

SwitchDone == batchResult # "none"

\* The watcher's select: when both channels are ready either may be taken.
WatcherLeaves ==
  /\ batchWatcher = "waits" /\ SwitchDone /\ batchWatcher' = "gone"
  /\ UNCHANGED <<configVars, streamVars, server, object, batchResult, batchCtxDone, closed, callerVars, received>>

WatcherCloses ==
  /\ batchWatcher = "waits" /\ batchCtxDone
  /\ batchWatcher' = "gone" /\ closed' = TRUE /\ outEnd' = "closed"
  /\ UNCHANGED <<configVars, inbound, inEnd, outbound, server, object, batchResult, batchCtxDone, callerVars, received>>

-----------------------------------------------------------------------------
\* The caller sends an input, or EOS; then it reads.
CallerSends(f) ==
  /\ caller = "sends" /\ Len(sent) < MaxInputs
  /\ sent' = Append(sent, f) /\ inbound' = Append(inbound, f)
  /\ UNCHANGED <<configVars, inEnd, outbound, outEnd, server, object, batchResult, batchCtxDone, closed, batchWatcher, caller, received, got>>

CallerEnds ==
  /\ caller = "sends" /\ caller' = "reads" /\ inbound' = Append(inbound, "eos")
  /\ UNCHANGED <<configVars, inEnd, outbound, outEnd, server, object, batchResult, batchCtxDone, closed, batchWatcher, sent, received, got>>

\* The caller closes its side, or its connection breaks in the middle of a frame.
CallerLeaves(how) ==
  /\ caller \in {"sends", "reads"} /\ inEnd = "open"
  /\ caller' = "left" /\ inEnd' = how /\ outEnd' = "closed"
  /\ UNCHANGED <<configVars, inbound, outbound, server, object, batchResult, batchCtxDone, closed, batchWatcher, sent, received, got>>

\* Switch(Collect, BreakOnEOS, FailOnEOF) on the caller's side.
CallerReceives ==
  /\ caller = "reads" /\ outbound # << >>
  /\ outbound' = Tail(outbound)
  /\ IF Head(outbound) = "eos" THEN caller' = "complete" /\ UNCHANGED got
                               ELSE got' = Append(got, Head(outbound)) /\ UNCHANGED caller
  /\ UNCHANGED <<configVars, inbound, inEnd, outEnd, server, object, batchResult, batchCtxDone, closed, batchWatcher, sent, received>>

CallerMeetsEOF ==
  /\ caller = "reads" /\ outbound = << >> /\ outEnd = "closed" /\ caller' = "eof"
  /\ UNCHANGED <<configVars, streamVars, server, object, batchResult, batchCtxDone, closed, batchWatcher, sent, received, got>>

BatchNext ==
  \/ Receive \/ ReceiveEnds \/ Call \/ Mark \/ FinishBatch \/ CloseChannel
  \/ ContextCanceled \/ WatcherLeaves \/ WatcherCloses
  \/ CallerEnds \/ CallerReceives \/ CallerMeetsEOF
  \/ (\E f \in Inputs : CallerSends(f)) \/ (\E how \in {"closed", "cut"} : CallerLeaves(how))

\* The server's goroutines and a caller that reads run; a caller need not send, nor a context end.
BatchFairness ==
  /\ WF_batchVars(Receive \/ ReceiveEnds) /\ WF_batchVars(Call \/ Mark) /\ WF_batchVars(FinishBatch) /\ WF_batchVars(CloseChannel)
  /\ WF_batchVars(WatcherLeaves \/ WatcherCloses) /\ WF_batchVars(CallerReceives \/ CallerMeetsEOF)

BatchSpec == BatchInit /\ [][BatchNext]_batchVars /\ BatchFairness

-----------------------------------------------------------------------------
BatchTypeOK ==
  /\ format \in Formats /\ arm \in Arms
  /\ inbound \in Seq(Inputs \cup {"eos"}) /\ inEnd \in {"open", "closed", "cut"}
  /\ outbound \in Seq({"answer", "error_message", "eos"}) /\ outEnd \in {"open", "closed"}
  /\ server \in {"receive", "call", "eos", "report", "close", "done"} /\ object \in Inputs \cup {"eos", "none"}
  /\ batchResult \in {"none", "nil", "error"} /\ batchCtxDone \in BOOLEAN /\ closed \in BOOLEAN /\ batchWatcher \in {"waits", "gone", "none"}
  /\ caller \in {"sends", "reads", "complete", "eof", "left"}
  /\ sent \in Seq(Inputs) /\ received \in Seq(Inputs \cup {"eos"}) /\ got \in Seq({"answer", "error_message"})

\* What a batch for T is documented to give to its function: the objects of type T,
\* which with astral.Object is everything but an error.
IsForFn(f) == CASE arm = "named" -> f = "typed" [] arm = "namesError" -> f = "error" [] arm = "any" -> f # "error"

\* A caller that sees the EOS has exactly one reply for each of its inputs, in the
\* order of the inputs: an answer for what T takes, an error for everything else.
CompleteOnEOS ==
  caller = "complete" =>
    /\ Len(got) = Len(sent)
    /\ \A i \in DOMAIN sent : got[i] = IF IsForFn(sent[i]) THEN "answer" ELSE "error_message"

\* A caller that goes on reading never sees more replies than it sent inputs.
NoStrayReply == Len(got) <= Len(sent)

\* The watcher closes nothing before the context ends.
ClosedForCause == closed => batchCtxDone \/ server = "done"

\* A caller that ended its inputs and meets EOF instead of EOS, though the context
\* has not ended, was told why: the last reply answers the input that could not be
\* decoded, and is an error.
UndecodableIsReported ==
  caller = "eof" /\ ~batchCtxDone => /\ Len(got) = Len(received)
                                /\ got[Len(got)] = "error_message"

\* The same for what the receiver tells apart from the end of the stream.
ErrorIsReported ==
  (received # << >> => Decode(received[Len(received)]) # "eof") => UndecodableIsReported

\* Replies match inputs one to one, and what ends the stream is what the caller is told.
BatchCorrect == BatchTypeOK /\ CompleteOnEOS /\ NoStrayReply /\ ClosedForCause /\ ErrorIsReported

\* Once the caller has ended its inputs or has left, or the context Batch was given
\* has ended, Batch returns, and a caller that reads learns of it.
BatchProgress == /\ (caller # "sends" \/ (batchCtxDone /\ batchWatcher # "none")) ~> server = "done"
                 /\ caller = "reads" ~> caller # "reads"
=============================================================================

---------------------------- MODULE IncomingQuery ----------------------------
(***************************************************************************)
(* lib/routing: one query routed to an Op.  Op.RouteQuery starts the op on *)
(* a goroutine of its own and waits in IncomingQuery.await; the op, or a   *)
(* goroutine it spawned, answers with AcceptRaw or a Reject.  Every answer *)
(* first wins the compare-and-swap on `resolved` and then sends on the     *)
(* one-slot `response` channel, and await gives up when its context ends   *)
(* or five seconds have passed.  The two halves of the pipe that AcceptRaw *)
(* makes are modelled up to a parked write.                                *)
(***************************************************************************)
EXTENDS Naturals, Sequences, FiniteSets

CONSTANTS Op,       \* the goroutine RouteQuery starts
          Await,    \* the goroutine that called RouteQuery
          Helpers   \* goroutines the op spawns, which may answer as well

ASSUME ActorsAssumption == Op # Await /\ Op \notin Helpers /\ Await \notin Helpers

Workers == {Op} \cup Helpers
Actors  == Workers \cup {Await}

CodeSuccess       == 0
CodeRejected      == 1
CodeInvalidQuery  == 2
CodeCanceled      == 3
CodeInternalError == 4
CodeTimeout       == 6
Codes == {CodeSuccess, CodeRejected, CodeInvalidQuery, CodeCanceled, CodeInternalError, CodeTimeout}

\* The codes an op of its own may pass to RejectWithCode, zero included.
OpCodes == {CodeSuccess, CodeRejected, CodeInvalidQuery}

VARIABLES
  resolved,   \* IncomingQuery.resolved
  response,   \* IncomingQuery.response: at most one code, CodeSuccess for a connection
  accepted,   \* IncomingQuery.accepted # nil
  reader,     \* the read half kept for the op: "none", "open" or "closed"
  remote,     \* remoteWriter: "open" or "closed"
  pc,         \* where each goroutine is
  cont,       \* where it goes on after the answer it is sending
  code,       \* the code it is sending
  given,      \* history: what the goroutine's winning answer was
  callerDone, \* the caller's context has ended
  result,     \* what RouteQuery returned: <<>> or one code
  write       \* the caller's write into the pipe: "idle", "parked", "failed", "closed"

queryVars == <<resolved, response, accepted, reader, remote, pc, cont, code, given, callerDone, result, write>>

answer   == <<resolved, pc, cont, code, given>>
pipeVars == <<accepted, reader, remote, write>>

QueryTypeOK ==
  /\ resolved \in BOOLEAN
  /\ response \in {<<>>} \cup {<<c>> : c \in Codes}
  /\ accepted \in BOOLEAN
  /\ reader \in {"none", "open", "closed"}
  /\ remote \in {"open", "closed"}
  /\ pc \in [Actors -> {"bind", "idle", "run", "store", "send", "close", "panic", "abandon", "return", "await", "done"}]
  /\ \A h \in Helpers : pc[h] \in {"idle", "run", "store", "send", "done"}
  /\ pc[Await] \in {"await", "send", "done"}
  /\ cont \in [Actors -> {"run", "close", "abandon", "return", "done"}]
  /\ code \in [Actors -> Codes]
  /\ given \in [Actors -> {"none", "accepted", "rejected"}]
  /\ callerDone \in BOOLEAN
  /\ result \in {<<>>} \cup {<<c>> : c \in Codes}
  /\ write \in {"idle", "parked", "failed", "closed"}

QueryInit ==
  /\ resolved = FALSE
  /\ response = <<>>
  /\ accepted = FALSE
  /\ reader = "none"
  /\ remote = "open"
  /\ pc = [a \in Actors |-> IF a = Op THEN "bind" ELSE IF a = Await THEN "await" ELSE "idle"]
  /\ cont = [a \in Actors |-> "done"]
  /\ code = [a \in Actors |-> CodeSuccess]
  /\ given = [a \in Actors |-> "none"]
  /\ callerDone = FALSE
  /\ result = <<>>
  /\ write = "idle"

-----------------------------------------------------------------------------
(* The answers. *)

Goto(a, where) == pc' = [pc EXCEPT ![a] = where]

\* NewErrRejected substitutes DefaultRejectCode for a zero code; so does RejectWithCode.
NewErrRejected(c) == IF c = CodeSuccess THEN CodeRejected ELSE c

\* The goroutine won the compare-and-swap: it will send c, then go on at next.
Won(a, how, first, c, next) ==
  /\ resolved' = TRUE
  /\ given' = [given EXCEPT ![a] = how]
  /\ code' = [code EXCEPT ![a] = c]
  /\ cont' = [cont EXCEPT ![a] = next]
  /\ Goto(a, first)

\* It lost: AcceptRaw hands back an ErrorConn, Reject an error, and both go on.
Lost(a, next) == Goto(a, next) /\ UNCHANGED <<resolved, given, code, cont>>

AcceptUnguarded(a, next) ==
  /\ Won(a, "accepted", "store", CodeSuccess, next) /\ reader' = "open"
  /\ UNCHANGED <<response, accepted, remote, callerDone, result, write>>

AcceptRaw(a, next) ==
  /\ IF resolved
       THEN Lost(a, next) /\ UNCHANGED reader
       ELSE Won(a, "accepted", "store", CodeSuccess, next) /\ reader' = "open"
  /\ UNCHANGED <<response, accepted, remote, callerDone, result, write>>

RejectWithCode(a, c, next) ==
  /\ IF resolved
       THEN Lost(a, next)
       ELSE Won(a, "rejected", "send", NewErrRejected(c), next)
  /\ UNCHANGED <<response, callerDone>> /\ UNCHANGED pipeVars

\* AcceptRaw keeps the read half under mu.
StoreAccepted(a) ==
  /\ pc[a] = "store"
  /\ accepted' = TRUE
  /\ Goto(a, "send")
  /\ UNCHANGED <<resolved, cont, code, given, response, reader, remote, callerDone, result, write>>

\* The send on `response`; it needs the slot to be free.
SendResponse(a) ==
  /\ a \in Workers
  /\ pc[a] = "send"
  /\ response = <<>>
  /\ response' = <<code[a]>>
  /\ Goto(a, cont[a])
  /\ UNCHANGED <<resolved, cont, code, given, callerDone, result>> /\ UNCHANGED pipeVars

-----------------------------------------------------------------------------
(* The op's goroutine (Op.RouteQuery, Op.invoke) and those it spawned. *)

\* invoke binds the arguments.  A bad argument is answered with an error on an
\* accepted channel when the op speaks one, and with CodeInvalidQuery otherwise.
BindArguments ==
  /\ pc[Op] = "bind"
  /\ \/ Goto(Op, "run") /\ UNCHANGED <<resolved, cont, code, given, response, callerDone, result>> /\ UNCHANGED pipeVars
     \/ AcceptRaw(Op, "close")
     \/ RejectWithCode(Op, CodeInvalidQuery, "return") /\ UNCHANGED result

\* The op's function may spawn goroutines, and it or they answer, at any time and as often as it likes.
OpSpawn(h) ==
  /\ pc[Op] = "run" /\ pc[h] = "idle"
  /\ Goto(h, "run")
  /\ UNCHANGED <<resolved, cont, code, given, response, callerDone, result>> /\ UNCHANGED pipeVars

OpAccept(a) == pc[a] = "run" /\ AcceptRaw(a, "run")
OpReject(a) == pc[a] = "run" /\ \E c \in OpCodes : RejectWithCode(a, c, "run") /\ UNCHANGED result

\* Conn.Close closes the read half of the pipe and the remote writer.
CloseConn ==
  /\ reader' = IF reader = "open" THEN "closed" ELSE reader
  /\ remote' = "closed"

\* Whoever accepted reads, which takes a parked write; Conn.Read closes the
\* connection when the caller's close has ended the stream.
OpRead(a) ==
  /\ pc[a] = "run" /\ given[a] = "accepted" /\ reader = "open"
  /\ \/ write = "parked" /\ write' = "idle" /\ UNCHANGED <<reader, remote>>
     \/ write = "closed" /\ CloseConn /\ UNCHANGED write
  /\ UNCHANGED <<response, callerDone, result, accepted>> /\ UNCHANGED answer

OpClose(a) ==
  /\ pc[a] = "run" /\ given[a] = "accepted" /\ remote = "open"
  /\ CloseConn
  /\ UNCHANGED <<response, callerDone, result, accepted, write>> /\ UNCHANGED answer

\* invoke's argument error: the error object is sent and the channel closed.
CloseAfterBadArguments ==
  /\ pc[Op] = "close"
  /\ IF given[Op] = "accepted" THEN CloseConn ELSE UNCHANGED <<reader, remote>>
  /\ Goto(Op, "return")
  /\ UNCHANGED <<resolved, cont, code, given, response, accepted, callerDone, result, write>>

OpReturn(a) ==
  /\ pc[a] = "run"
  /\ Goto(a, IF a = Op THEN "return" ELSE "done")
  /\ UNCHANGED <<resolved, cont, code, given, response, callerDone, result>> /\ UNCHANGED pipeVars

\* invoke recovers a panic of the op's own goroutine.
OpPanic ==
  /\ pc[Op] \in {"bind", "run"}
  /\ Goto(Op, "panic")
  /\ UNCHANGED <<resolved, cont, code, given, response, callerDone, result>> /\ UNCHANGED pipeVars

RejectAfterPanic == pc[Op] = "panic" /\ RejectWithCode(Op, CodeInternalError, "abandon") /\ UNCHANGED result

\* abandon leaves a query that was never accepted alone.
Abandon ==
  /\ pc[Op] = "abandon"
  /\ accepted' = FALSE
  /\ IF accepted THEN CloseConn ELSE UNCHANGED <<reader, remote>>
  /\ Goto(Op, "return")
  /\ UNCHANGED <<resolved, cont, code, given, response, callerDone, result, write>>

\* The deferred RejectWithCode at the end of the goroutine.
DeferredReject ==
  pc[Op] = "return" /\ RejectWithCode(Op, CodeInternalError, "done") /\ UNCHANGED result

-----------------------------------------------------------------------------
(* await, and the caller's use of the write half it returns. *)

CallerContextEnds ==
  /\ ~callerDone
  /\ callerDone' = TRUE
  /\ UNCHANGED <<response, result>> /\ UNCHANGED answer /\ UNCHANGED pipeVars

AwaitResponse ==
  /\ pc[Await] = "await"
  /\ response # <<>>
  /\ result' = response
  /\ response' = <<>>
  /\ Goto(Await, "done")
  /\ UNCHANGED <<resolved, cont, code, given, callerDone>> /\ UNCHANGED pipeVars

\* The context's end rejects with the default code, the deadline with CodeTimeout;
\* either way await returns its own error whether or not that reject wins.
GiveUp(c, returned) ==
  /\ RejectWithCode(Await, c, "done")
  /\ result' = IF resolved THEN <<returned>> ELSE result

AwaitContext == pc[Await] = "await" /\ callerDone /\ GiveUp(CodeRejected, CodeCanceled)
AwaitNoDeadline == pc[Await] = "await" /\ callerDone /\ GiveUp(CodeTimeout, CodeTimeout)

AwaitTimeout == pc[Await] = "await" /\ GiveUp(CodeTimeout, CodeTimeout)

\* The response that await's own reject sends: nobody reads it.
SendUnread ==
  /\ pc[Await] = "send"
  /\ response = <<>>
  /\ response' = <<code[Await]>>
  /\ result' = <<IF code[Await] = CodeTimeout THEN CodeTimeout ELSE CodeCanceled>>
  /\ Goto(Await, "done")
  /\ UNCHANGED <<resolved, cont, code, given, callerDone>> /\ UNCHANGED pipeVars

\* A write into an io.Pipe parks until a reader takes the bytes or closes.
CallerWrite ==
  /\ result = <<CodeSuccess>> /\ write = "idle"
  /\ write' = "parked"
  /\ UNCHANGED <<response, callerDone, result, accepted, reader, remote>> /\ UNCHANGED answer

WriteFails ==
  /\ write = "parked" /\ reader = "closed"
  /\ write' = "failed"
  /\ UNCHANGED <<response, callerDone, result, accepted, reader, remote>> /\ UNCHANGED answer

CallerClose ==
  /\ result = <<CodeSuccess>> /\ write \in {"idle", "failed"}
  /\ write' = "closed"
  /\ UNCHANGED <<response, callerDone, result, accepted, reader, remote>> /\ UNCHANGED answer

-----------------------------------------------------------------------------
OpStep ==
  \/ BindArguments \/ CloseAfterBadArguments
  \/ OpPanic \/ RejectAfterPanic \/ Abandon \/ DeferredReject
  \/ \E h \in Helpers : OpSpawn(h)
  \/ \E a \in Workers :
       \/ OpAccept(a) \/ OpReject(a) \/ OpRead(a) \/ OpClose(a) \/ OpReturn(a)
       \/ StoreAccepted(a) \/ SendResponse(a)

CallerStep ==
  \/ AwaitResponse \/ AwaitContext \/ AwaitTimeout \/ SendUnread
  \/ CallerWrite \/ WriteFails \/ CallerClose

QueryNext == OpStep \/ CallerStep \/ CallerContextEnds

\* The library's own steps are taken; what the op's function and the caller do is up to them.
QueryFairness ==
  /\ WF_queryVars(AwaitResponse) /\ WF_queryVars(AwaitTimeout) /\ WF_queryVars(SendUnread) /\ WF_queryVars(WriteFails)
  /\ WF_queryVars(RejectAfterPanic) /\ WF_queryVars(Abandon) /\ WF_queryVars(DeferredReject)
  /\ WF_queryVars(\E a \in Workers : StoreAccepted(a) \/ SendResponse(a))

QuerySpec == QueryInit /\ [][QueryNext]_queryVars /\ QueryFairness

-----------------------------------------------------------------------------
(* Properties. *)

\* The query is resolved at most once: of all the goroutines that may call
\* AcceptRaw, Reject or RejectWithCode, await's own included, one wins.
ResolvedOnce == \A a, b \in Actors : given[a] # "none" /\ given[b] # "none" => a = b

\* The send on `response` never blocks a goroutine: whoever is about to send
\* finds the one slot free.
SendNeverBlocks == \A a \in Actors : pc[a] = "send" => response = <<>>

\* RouteQuery returns a connection only for a query somebody accepted, never
\* reports success for a rejection, and reports CodeInternalError only when the
\* op ended without having accepted.
ResultIsTrue ==
  /\ result = <<CodeSuccess>> => \E a \in Workers : given[a] = "accepted"
  /\ result = <<CodeInternalError>> =>
       /\ pc[Op] \in {"abandon", "return", "done"}
       /\ \A a \in Actors : given[a] # "accepted"

\* abandon never tears down what nobody accepted: the caller's side of a
\* rejected query is left to the caller.
RejectedIsLeftAlone == (\A a \in Actors : given[a] # "accepted") => remote = "open" /\ reader = "none"

\* A caller parked in a write to an op whose goroutine accepted and then
\* panicked is released: abandon closes the read half.
PanicReleasesCaller ==
  (write = "parked" /\ given[Op] = "accepted" /\ pc[Op] = "panic") ~> (write # "parked")

\* RouteQuery returns: the five-second deadline bounds the wait for an op that never answers.
RouteReturns == <>(result # <<>>)

\* A query is resolved once, by whoever comes first; the send of the answer never
\* blocks; RouteQuery tells its caller the truth; a rejected query is left alone.
QueryCorrect == QueryTypeOK /\ ResolvedOnce /\ SendNeverBlocks /\ ResultIsTrue /\ RejectedIsLeftAlone
=============================================================================

----------------------------- MODULE ApphostRouter -----------------------------
(***************************************************************************)
(* apphost.Router.RouteQuery: one call opens a session with the host       *)
(* (dial, greeting, token), sends the query and waits for the answer,      *)
(* while its context may end at any time.  During the handshake an         *)
(* AfterFunc closes the connection when the context ends; while the query  *)
(* is en route a watcher goroutine sends apphost.cancel on a session of    *)
(* its own instead.                                                        *)
(***************************************************************************)
EXTENDS Naturals

VARIABLES
  hasToken,    \* the router has a token to authenticate with
  cancelFails, \* the session for the cancel does not come about
  sessCall,      \* "dial", "greet", "greeted", "auth", "authed", "route" or "returned"
  sessResult,    \* of the call: "none", "conn", "answer", "unavailable" or "context"
  sessConn,      \* the session's connection: "none", "open" or "closed"
  reply,     \* what the read in progress has come to: "none", "good", "bad" or "broken"
  after,     \* the AfterFunc of the handshake step: "off", "armed", "running"
  sessCtxDone,
  sessWatcher,   \* "off", "waits", "looks", "dials", "asks" or "over"
  host       \* the query at the host: "none", "pending", "canceled", "accepted", "refused"

setup == <<hasToken, cancelFails>>

sessionVars == <<setup, sessCall, sessResult, sessConn, reply, after, sessCtxDone, sessWatcher, host>>

Calls == {"dial", "greet", "greeted", "auth", "authed", "route", "returned"}

SessionTypeOK ==
  /\ hasToken \in BOOLEAN /\ cancelFails \in BOOLEAN
  /\ sessCall \in Calls /\ sessResult \in {"none", "conn", "answer", "unavailable", "context"}
  /\ sessConn \in {"none", "open", "closed"} /\ reply \in {"none", "good", "bad", "broken"}
  /\ after \in {"off", "armed", "running"} /\ sessCtxDone \in BOOLEAN
  /\ sessWatcher \in {"off", "waits", "looks", "dials", "asks", "over"}
  /\ host \in {"none", "pending", "canceled", "accepted", "refused"}
  /\ host # "none" => sessWatcher # "off"

SessionInit ==
  /\ hasToken \in BOOLEAN /\ cancelFails \in BOOLEAN
  /\ sessCall = "dial" /\ sessResult = "none" /\ sessConn = "none" /\ reply = "none"
  /\ after = "off" /\ sessCtxDone = FALSE /\ sessWatcher = "off" /\ host = "none"

SessCtxEnds ==
  /\ ~sessCtxDone /\ sessCtxDone' = TRUE
  /\ UNCHANGED <<setup, sessCall, sessResult, sessConn, reply, after, sessWatcher, host>>

-----------------------------------------------------------------------------
ReturnSession(r) == sessCall' = "returned" /\ sessResult' = r

\* unavailable: the end of the context is told apart from a node that failed.
NodeUnavailable == IF sessCtxDone THEN "context" ELSE "unavailable"

\* context.AfterFunc, on a context that may have ended, and its stop function.
Arm == IF sessCtxDone THEN "running" ELSE "armed"

Stopped == after = "armed"

Disarmed == IF after = "armed" THEN "off" ELSE after

DialFails ==
  /\ sessCall = "dial"
  /\ ReturnSession(NodeUnavailable)
  /\ UNCHANGED <<setup, sessConn, reply, after, sessCtxDone, sessWatcher, host>>

Dialed ==
  /\ sessCall = "dial" /\ ~sessCtxDone
  /\ sessConn' = "open" /\ sessCall' = "greet" /\ after' = Arm
  /\ UNCHANGED <<setup, sessResult, reply, sessCtxDone, sessWatcher, host>>

\* context.AfterFunc: the end of the context starts a goroutine that closes the connection.
AfterStarts ==
  /\ after = "armed" /\ sessCtxDone
  /\ after' = "running"
  /\ UNCHANGED <<setup, sessCall, sessResult, sessConn, reply, sessCtxDone, sessWatcher, host>>

AfterCloses ==
  /\ after = "running"
  /\ sessConn' = "closed" /\ after' = "off"
  /\ UNCHANGED <<setup, sessCall, sessResult, reply, sessCtxDone, sessWatcher, host>>

\* A read ends: the host sends what is expected, something else or an error, or
\* the connection breaks or has been closed.
Waiting == sessCall \in {"greet", "auth", "route"}

HostReplies ==
  /\ Waiting /\ reply = "none" /\ sessConn = "open"
  /\ reply' \in {"good", "bad"}
  /\ host' = IF sessCall # "route" THEN host ELSE IF reply' = "good" THEN "accepted" ELSE "refused"
  /\ sessCall = "route" => host = "pending" \/ (host = "canceled" /\ reply' = "bad")
  /\ UNCHANGED <<setup, sessCall, sessResult, sessConn, after, sessCtxDone, sessWatcher>>

ReadBreaks ==
  /\ Waiting /\ reply = "none"
  /\ reply' = "broken"
  /\ UNCHANGED <<setup, sessCall, sessResult, sessConn, after, sessCtxDone, sessWatcher, host>>

ReadClosed == sessConn = "closed" /\ ReadBreaks

-----------------------------------------------------------------------------
\* Connect, once greet has returned: closed, or open and out of the context's reach.
Greeted ==
  /\ sessCall = "greet" /\ reply # "none"
  /\ reply' = "none"
  /\ CASE ~Stopped -> sessConn' = "closed" /\ ReturnSession(NodeUnavailable) /\ UNCHANGED after
       [] Stopped /\ reply # "good" -> sessConn' = "closed" /\ after' = Disarmed /\ ReturnSession(NodeUnavailable)
       [] OTHER -> /\ sessCall' = IF hasToken THEN "auth" ELSE "authed"
                   /\ after' = IF hasToken THEN Arm ELSE Disarmed
                   /\ UNCHANGED <<sessConn, sessResult>>
  /\ UNCHANGED <<setup, sessCtxDone, sessWatcher, host>>

\* authenticate: a refusal, and a read that broke by itself, is returned as it is.
Authenticated ==
  /\ sessCall = "auth" /\ reply # "none"
  /\ reply' = "none"
  /\ CASE ~Stopped -> sessConn' = "closed" /\ ReturnSession(NodeUnavailable) /\ UNCHANGED after
       [] Stopped /\ reply # "good" -> sessConn' = "closed" /\ after' = Disarmed /\ ReturnSession("answer")
       [] OTHER -> sessCall' = "authed" /\ after' = Disarmed /\ UNCHANGED <<sessConn, sessResult>>
  /\ UNCHANGED <<setup, sessCtxDone, sessWatcher, host>>

Watch == "waits"

\* The watcher starts and the query is sent.
Send ==
  /\ sessCall = "authed"
  /\ sessWatcher' = Watch
  /\ \/ host' = "pending" /\ sessCall' = "route" /\ UNCHANGED <<sessConn, sessResult>>
     \/ sessConn' = "closed" /\ ReturnSession("answer") /\ UNCHANGED host
  /\ UNCHANGED <<setup, reply, after, sessCtxDone>>

CloseOnError == sessConn' = "closed"

ErrorAsItIs == "answer"

\* Host.RouteQuery returns: without a connection it closes the session.
Routed ==
  /\ sessCall = "route" /\ reply # "none"
  /\ reply' = "none"
  /\ IF reply = "good" THEN ReturnSession("conn") /\ UNCHANGED sessConn ELSE ReturnSession(ErrorAsItIs) /\ CloseOnError
  /\ UNCHANGED <<setup, after, sessCtxDone, sessWatcher, host>>

-----------------------------------------------------------------------------
SessOver == sessWatcher' = "over" /\ UNCHANGED <<setup, sessCall, sessResult, sessConn, reply, after, sessCtxDone, host>>

\* The watcher's first select; when both are ready it takes either.
WatcherDone == sessWatcher = "waits" /\ sessCall = "returned" /\ SessOver

WatcherWakes ==
  /\ sessWatcher = "waits" /\ sessCtxDone
  /\ sessWatcher' = "looks"
  /\ UNCHANGED <<setup, sessCall, sessResult, sessConn, reply, after, sessCtxDone, host>>

\* Its second select prefers done.
WatcherLooks ==
  /\ sessWatcher = "looks"
  /\ sessWatcher' = IF sessCall = "returned" THEN "over" ELSE "dials"
  /\ UNCHANGED <<setup, sessCall, sessResult, sessConn, reply, after, sessCtxDone, host>>

\* The cancel is sent on a session with a context of its own.
CancelDials ==
  /\ sessWatcher = "dials"
  /\ \/ sessWatcher' = "asks"
     \/ cancelFails /\ sessWatcher' = "over"
  /\ UNCHANGED <<setup, sessCall, sessResult, sessConn, reply, after, sessCtxDone, host>>

\* The host cancels the query if it still has it.
CancelAsks ==
  /\ sessWatcher = "asks"
  /\ host' = IF host = "pending" THEN "canceled" ELSE host
  /\ sessWatcher' = "over"
  /\ UNCHANGED <<setup, sessCall, sessResult, sessConn, reply, after, sessCtxDone>>

SessionNext ==
  \/ SessCtxEnds \/ DialFails \/ Dialed \/ AfterStarts \/ AfterCloses
  \/ HostReplies \/ ReadBreaks
  \/ Greeted \/ Authenticated \/ Send \/ Routed
  \/ WatcherDone \/ WatcherWakes \/ WatcherLooks \/ CancelDials \/ CancelAsks

\* The client's goroutines run, a read on a closed connection ends, and the host
\* answers a query it has canceled; it need not answer anything else.
SessionFairness ==
  /\ WF_sessionVars(DialFails \/ Dialed) /\ WF_sessionVars(AfterStarts) /\ WF_sessionVars(AfterCloses) /\ WF_sessionVars(ReadClosed)
  /\ WF_sessionVars(Greeted) /\ WF_sessionVars(Authenticated) /\ WF_sessionVars(Send) /\ WF_sessionVars(Routed)
  /\ WF_sessionVars(WatcherDone \/ WatcherWakes) /\ WF_sessionVars(WatcherLooks) /\ WF_sessionVars(CancelDials) /\ WF_sessionVars(CancelAsks)
  /\ WF_sessionVars(host = "canceled" /\ HostReplies)

SessionSpec == SessionInit /\ [][SessionNext]_sessionVars /\ SessionFairness

-----------------------------------------------------------------------------
\* A call that returns no connection leaves none open.
NoSessionLeaks == sessCall = "returned" /\ sessResult # "conn" => sessConn # "open"

\* The session of a query that was accepted is out of reach of the call's context:
\* nothing that waits for its end can close it any more.
AcceptedStaysOpen == sessResult = "conn" => sessConn = "open" /\ after = "off"

\* ErrNodeUnavailable means that the query was never sent, so it is safe to retry.
UnavailableMeansUnsent == sessResult \in {"unavailable", "context"} => host = "none"

\* The end of the context ends the handshake, even with a host that says nothing.
HandshakeEnds == sessCtxDone ~> sessCall \in {"route", "returned"}

\* The end of the context ends the call: an en-route query is canceled at the host.
SessCallEnds == sessCtxDone /\ ~cancelFails ~> sessCall = "returned"

\* A session that is not handed to the caller is closed, one that is stays open, and
\* only a query that was never sent is reported as worth a retry.
SessionCorrect == SessionTypeOK /\ NoSessionLeaks /\ AcceptedStaysOpen /\ UnavailableMeansUnsent

\* Neither a silent host nor a canceled caller holds RouteQuery.
SessionProgress == HandshakeEnds /\ SessCallEnds
=============================================================================

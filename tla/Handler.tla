------------------------------- MODULE Handler -------------------------------
(***************************************************************************)
(* lib/apps: a Handler accepts the connections the node dials, screens     *)
(* each one on a goroutine of its own (intake) and hands the queries, one  *)
(* at a time, to Route, which routes them and answers on the connection.   *)
(* The target of a query may write before Route has sent the answer; the   *)
(* lockableWriteCloser holds those bytes back.                             *)
(***************************************************************************)
EXTENDS Naturals, Sequences

CONSTANTS Conns,     \* the connections dialed, one query each
          None

ASSUME NoneAssumption == None \notin Conns

Answers  == {"ack", "rejected", "notfound", "protocol", "denied"}
Outcomes == {"accepted", "rejected", "error"}

VARIABLES
  done,       \* Handler.done and doneCh
  listener,   \* "open", "closed" (by Close) or "failed"
  acceptErr,  \* Handler.acceptErr: "none", "closed" or "failed"
  acceptor,   \* the accept goroutine: "accept", "closing" or "end"
  conn,       \* where each connection is
  wire,       \* what was written to it, in order
  locked,     \* the lockableWriteCloser of the query being routed is locked
  target,     \* the query's target holds the writer
  copying,    \* the goroutine that forwards the dialer's bytes to the target is running
  loop,       \* Route: "read", "route", "answer" or "end"
  current,    \* the query Route is on
  outcome,    \* what router.RouteQuery returned for it
  ret,        \* the error Route returned: "none", "ctx", "closed" or "failed"
  ctxDone,    \* Route's context has ended
  watcher,    \* closeOnDone: "wait" or "end"
  userClosed  \* history: the application called Close

vars == <<done, listener, acceptErr, acceptor, conn, wire, locked, target, copying,
          loop, current, outcome, ret, ctxDone, watcher, userClosed>>

hvars == <<done, listener, acceptErr, acceptor>>
cvars == <<conn, wire, locked, target, copying>>
rvars == <<loop, current, outcome, ret>>
evars == <<ctxDone, watcher, userClosed>>

TypeOK ==
  /\ done \in BOOLEAN
  /\ listener \in {"open", "closed", "failed"}
  /\ acceptErr \in {"none", "closed", "failed"}
  /\ acceptor \in {"accept", "closing", "end"}
  /\ conn \in [Conns -> {"new", "intake", "offered", "routing", "open", "closed"}]
  /\ wire \in [Conns -> Seq(Answers \cup {"data"})]
  /\ locked \in [Conns -> BOOLEAN]
  /\ target \in [Conns -> BOOLEAN]
  /\ copying \in [Conns -> BOOLEAN]
  /\ loop \in {"read", "route", "answer", "end"}
  /\ current \in Conns \cup {None}
  /\ outcome \in Outcomes \cup {"none"}
  /\ loop \in {"route", "answer"} <=> current \in Conns
  /\ ret \in {"none", "ctx", "closed", "failed"}
  /\ ctxDone \in BOOLEAN
  /\ watcher \in {"wait", "end"}
  /\ userClosed \in BOOLEAN

Init ==
  /\ done = FALSE
  /\ listener = "open"
  /\ acceptErr = "none"
  /\ acceptor = "accept"
  /\ conn = [c \in Conns |-> "new"]
  /\ wire = [c \in Conns |-> <<>>]
  /\ locked = [c \in Conns |-> FALSE]
  /\ target = [c \in Conns |-> FALSE]
  /\ copying = [c \in Conns |-> FALSE]
  /\ loop = "read"
  /\ current = None
  /\ outcome = "none"
  /\ ret = "none"
  /\ ctxDone = FALSE
  /\ watcher = "wait"
  /\ userClosed = FALSE

-----------------------------------------------------------------------------
(* Close, the accept loop and the intake of one connection. *)

\* Handler.Close: doneCh is closed once, the listener every time.
CloseHandler ==
  /\ done' = TRUE
  /\ listener' = IF listener = "open" THEN "closed" ELSE listener

Close ==
  /\ ~userClosed
  /\ userClosed' = TRUE
  /\ CloseHandler
  /\ UNCHANGED <<acceptErr, acceptor, ctxDone, watcher>> /\ UNCHANGED cvars /\ UNCHANGED rvars

\* accept starts an intake for each connection, until the listener errors.
Accept(c) ==
  /\ acceptor = "accept" /\ listener = "open" /\ conn[c] = "new"
  /\ conn' = [conn EXCEPT ![c] = "intake"]
  /\ UNCHANGED <<wire, locked, target, copying>> /\ UNCHANGED hvars /\ UNCHANGED rvars /\ UNCHANGED evars

AcceptFails ==
  /\ acceptor = "accept" /\ listener # "open"
  /\ acceptErr' = listener
  /\ acceptor' = "closing"
  /\ UNCHANGED <<done, listener>> /\ UNCHANGED cvars /\ UNCHANGED rvars /\ UNCHANGED evars

AcceptCloses ==
  /\ acceptor = "closing"
  /\ acceptor' = "end"
  /\ CloseHandler
  /\ UNCHANGED acceptErr /\ UNCHANGED cvars /\ UNCHANGED rvars /\ UNCHANGED evars

\* The network fails the listener.
ListenerFails ==
  /\ listener = "open"
  /\ listener' = "failed"
  /\ UNCHANGED <<done, acceptErr, acceptor>> /\ UNCHANGED cvars /\ UNCHANGED rvars /\ UNCHANGED evars

\* intake: silence until the deadline or a broken connection closes it unanswered;
\* a wrong message or token is answered and closed; a good query is offered.
IntakeRefuses(c) ==
  /\ conn[c] = "intake"
  /\ conn' = [conn EXCEPT ![c] = "closed"]
  /\ \/ UNCHANGED wire
     \/ \E e \in {"protocol", "denied"} : wire' = [wire EXCEPT ![c] = Append(@, e)]
  /\ UNCHANGED <<locked, target, copying>> /\ UNCHANGED hvars /\ UNCHANGED rvars /\ UNCHANGED evars

IntakeOffers(c) ==
  /\ conn[c] = "intake"
  /\ conn' = [conn EXCEPT ![c] = "offered"]
  /\ UNCHANGED <<wire, locked, target, copying>> /\ UNCHANGED hvars /\ UNCHANGED rvars /\ UNCHANGED evars

IntakeDrops(c) ==
  /\ conn[c] = "offered" /\ done
  /\ conn' = [conn EXCEPT ![c] = "closed"]
  /\ UNCHANGED <<wire, locked, target, copying>> /\ UNCHANGED hvars /\ UNCHANGED rvars /\ UNCHANGED evars

-----------------------------------------------------------------------------
(* Route. *)

\* ReadQuery takes an offered query, and Route locks the writer it gives the target.
ReadUnlocked(c) ==
  /\ loop = "read" /\ conn[c] = "offered"
  /\ conn' = [conn EXCEPT ![c] = "routing"]
  /\ current' = c
  /\ loop' = "route"
  /\ UNCHANGED <<wire, locked, target, copying, outcome, ret>> /\ UNCHANGED hvars /\ UNCHANGED evars

ReadQuery(c) ==
  /\ loop = "read" /\ conn[c] = "offered"
  /\ conn' = [conn EXCEPT ![c] = "routing"]
  /\ locked' = [locked EXCEPT ![c] = TRUE]
  /\ current' = c
  /\ loop' = "route"
  /\ UNCHANGED <<wire, target, copying, outcome, ret>> /\ UNCHANGED hvars /\ UNCHANGED evars

\* The error ReadQuery returns once doneCh is closed.
ReadErr == IF acceptErr # "none" THEN acceptErr ELSE "closed"

\* Route reports the context's end when that is why the listener closed.
RouteErr == IF ctxDone /\ ReadErr = "closed" THEN "ctx" ELSE ReadErr

ReadEnds ==
  /\ loop = "read" /\ done
  /\ loop' = "end"
  /\ ret' = RouteErr
  /\ UNCHANGED <<current, outcome>> /\ UNCHANGED hvars /\ UNCHANGED cvars /\ UNCHANGED evars

\* The router hands the writer to a target, which keeps it when it accepts and
\* also when its accept lost against a timeout.
TargetStarts ==
  /\ loop = "route" /\ ~target[current]
  /\ target' = [target EXCEPT ![current] = TRUE]
  /\ UNCHANGED <<conn, wire, locked, copying>> /\ UNCHANGED hvars /\ UNCHANGED rvars /\ UNCHANGED evars

RouteQuery ==
  /\ loop = "route"
  /\ loop' = "answer"
  /\ \E r \in Outcomes : (r = "accepted" => target[current]) /\ outcome' = r
  /\ UNCHANGED <<current, ret>> /\ UNCHANGED hvars /\ UNCHANGED cvars /\ UNCHANGED evars

\* Accept writes an Ack and starts the copy; RejectWithCode and Skip answer and
\* close; the writer is released after any of them.
AnswerOf(r) == CASE r = "accepted" -> "ack" [] r = "rejected" -> "rejected" [] OTHER -> "notfound"

Answer ==
  /\ loop = "answer"
  /\ wire' = [wire EXCEPT ![current] = Append(@, AnswerOf(outcome))]
  /\ conn' = [conn EXCEPT ![current] = IF outcome = "accepted" THEN "open" ELSE "closed"]
  /\ copying' = [copying EXCEPT ![current] = outcome = "accepted"]
  /\ locked' = [locked EXCEPT ![current] = FALSE]
  /\ loop' = "read"
  /\ current' = None
  /\ outcome' = "none"
  /\ UNCHANGED <<target, ret>> /\ UNCHANGED hvars /\ UNCHANGED evars

-----------------------------------------------------------------------------
(* The query's target, the dialer and the context. *)

\* lockableWriteCloser.Write waits for the lock; a closed connection refuses the bytes.
TargetWrite(c) ==
  /\ target[c] /\ ~locked[c] /\ conn[c] \in {"routing", "open"}
  /\ \A i \in DOMAIN wire[c] : wire[c][i] # "data"
  /\ wire' = [wire EXCEPT ![c] = Append(@, "data")]
  /\ UNCHANGED <<conn, locked, target, copying>> /\ UNCHANGED hvars /\ UNCHANGED rvars /\ UNCHANGED evars

TargetClose(c) ==
  /\ target[c] /\ ~locked[c]
  /\ target' = [target EXCEPT ![c] = FALSE]
  /\ conn' = [conn EXCEPT ![c] = "closed"]
  /\ UNCHANGED <<wire, locked, copying>> /\ UNCHANGED hvars /\ UNCHANGED rvars /\ UNCHANGED evars

\* The dialer hangs up on an accepted query.
DialerCloses(c) ==
  /\ conn[c] = "open"
  /\ conn' = [conn EXCEPT ![c] = "closed"]
  /\ UNCHANGED <<wire, locked, target, copying>> /\ UNCHANGED hvars /\ UNCHANGED rvars /\ UNCHANGED evars

\* The copy ends with the connection and closes the target's side.
CopyEnds(c) ==
  /\ copying[c] /\ conn[c] = "closed"
  /\ copying' = [copying EXCEPT ![c] = FALSE]
  /\ UNCHANGED <<conn, wire, locked, target>> /\ UNCHANGED hvars /\ UNCHANGED rvars /\ UNCHANGED evars

ContextEnds ==
  /\ ~ctxDone
  /\ ctxDone' = TRUE
  /\ UNCHANGED <<watcher, userClosed>> /\ UNCHANGED hvars /\ UNCHANGED cvars /\ UNCHANGED rvars

\* closeOnDone closes the handler when the context ends first, or stops with Route.
CloseOnDone ==
  /\ watcher = "wait"
  /\ \/ ctxDone /\ CloseHandler
     \/ loop = "end" /\ UNCHANGED <<done, listener>>
  /\ watcher' = "end"
  /\ UNCHANGED <<acceptErr, acceptor, ctxDone, userClosed>> /\ UNCHANGED cvars /\ UNCHANGED rvars

-----------------------------------------------------------------------------
Next ==
  \/ Close \/ AcceptFails \/ AcceptCloses \/ ListenerFails
  \/ ReadEnds \/ TargetStarts \/ RouteQuery \/ Answer
  \/ ContextEnds \/ CloseOnDone
  \/ \E c \in Conns :
       \/ Accept(c) \/ IntakeRefuses(c) \/ IntakeOffers(c) \/ IntakeDrops(c) \/ ReadQuery(c)
       \/ TargetWrite(c) \/ TargetClose(c) \/ DialerCloses(c) \/ CopyEnds(c)

\* The handler's goroutines run, and router.RouteQuery returns: an Op answers within five seconds.
Fairness ==
  /\ WF_vars(AcceptFails) /\ WF_vars(AcceptCloses) /\ WF_vars(CloseOnDone)
  /\ WF_vars(ReadEnds \/ \E c \in Conns : ReadQuery(c))
  /\ WF_vars(RouteQuery) /\ WF_vars(Answer)
  /\ \A c \in Conns : WF_vars(IntakeDrops(c)) /\ WF_vars(CopyEnds(c))

Spec == Init /\ [][Next]_vars /\ Fairness

-----------------------------------------------------------------------------
(* Properties. *)

\* A connection carries one answer, before anything else: the target's bytes
\* reach only an acknowledged query and only after the Ack.
AnswerFirst ==
  \A c \in Conns : wire[c] # <<>> =>
    /\ wire[c][1] \in Answers
    /\ \A i \in 2..Len(wire[c]) : wire[c][i] = "data" /\ wire[c][1] = "ack"

\* Route's error names the cause: without a failed listener or an application's
\* Close it is always the context's error, never the closed listener it led to.
ShutdownIsNotAnError == ret \in {"closed", "failed"} => userClosed \/ listener = "failed"

\* A query the intake let through is answered or its connection closed, whatever
\* closes the handler and whoever else is waiting to be read.
OfferedIsResolved == \A c \in Conns : conn[c] = "offered" ~> conn[c] \in {"open", "closed"}

\* Route ends once its context has ended.
ContextEndsRoute == ctxDone ~> loop = "end"

\* The answer is the first thing Route writes to a connection, and an orderly
\* shutdown is not reported as a failed listener.
HandlerCorrect == TypeOK /\ AnswerFirst /\ ShutdownIsNotAnError

\* Nothing the handler holds is stranded by Close or by the end of its context.
HandlerProgress == OfferedIsResolved /\ ContextEndsRoute
=============================================================================

------------------------------ MODULE MCQuery -------------------------------
(***************************************************************************)
(* A query on its way: the op or the handler that answers it, the routers  *)
(* it goes through, and the channels its answer comes on, with the calls   *)
(* of the API clients and the object services that use them.  The parts    *)
(* share no state: a behaviour exercises one of them and leaves the others *)
(* as they start.                                                          *)
(***************************************************************************)
EXTENDS IncomingQuery, Handler, RetryRouter, ApphostRouter, Dispatch, PriorityRouter,
        Batch, Transport, Calls, Dialogues, FanOut

CONSTANT Parts
VARIABLE part

\* An op of no scope, one of scope s, and the description every router has.
MCNames == {<<"a">>, <<"s", "a">>, <<"", "spec">>}

callVars == <<call, cache>>
mcVars == <<part, queryVars, vars, routesVars, sessionVars, dispatchVars, priorityVars,
            batchVars, transportVars, callVars, talk, fanVars>>

MCInit ==
  /\ part \in Parts
  /\ QueryInit /\ Init /\ RoutesInit /\ SessionInit /\ DispatchInit /\ PriorityInit
  /\ BatchInit /\ TransportInit /\ CallInit /\ TalkInit /\ FanOutInit
  /\ part # "session" => hasToken /\ ~cancelFails
  /\ part # "batch" => format = "binary" /\ arm = "any" /\ batchWatcher = "none"
  /\ part # "transport" =>
       conf = [out |-> "binary", in |-> "binary", unparsed |-> FALSE, loop |-> "receive", closer |-> FALSE]

Rest1 == UNCHANGED <<part, batchVars, transportVars, callVars, talk, fanVars>>
Rest2 == UNCHANGED <<part, queryVars, vars, routesVars, sessionVars, dispatchVars, priorityVars>>

MCNext ==
  \/ part = "query" /\ QueryNext /\ Rest1 /\ UNCHANGED <<vars, routesVars, sessionVars, dispatchVars, priorityVars>>
  \/ part = "handler" /\ Next /\ Rest1 /\ UNCHANGED <<queryVars, routesVars, sessionVars, dispatchVars, priorityVars>>
  \/ part = "retry" /\ RoutesNext /\ Rest1 /\ UNCHANGED <<queryVars, vars, sessionVars, dispatchVars, priorityVars>>
  \/ part = "session" /\ SessionNext /\ Rest1 /\ UNCHANGED <<queryVars, vars, routesVars, dispatchVars, priorityVars>>
  \/ part = "dispatch" /\ DispatchNext /\ Rest1 /\ UNCHANGED <<queryVars, vars, routesVars, sessionVars, priorityVars>>
  \/ part = "priority" /\ PriorityNext /\ Rest1 /\ UNCHANGED <<queryVars, vars, routesVars, sessionVars, dispatchVars>>
  \/ part = "batch" /\ BatchNext /\ Rest2 /\ UNCHANGED <<transportVars, callVars, talk, fanVars>>
  \/ part = "transport" /\ TransportNext /\ Rest2 /\ UNCHANGED <<batchVars, callVars, talk, fanVars>>
  \/ part = "call" /\ CallNext /\ Rest2 /\ UNCHANGED <<batchVars, transportVars, talk, fanVars>>
  \/ part = "talk" /\ TalkNext /\ Rest2 /\ UNCHANGED <<batchVars, transportVars, callVars, fanVars>>
  \/ part = "fan" /\ FanOutNext /\ Rest2 /\ UNCHANGED <<batchVars, transportVars, callVars, talk>>

MCSpec == MCInit /\ [][MCNext]_mcVars

\* Whatever its op does Op.RouteQuery returns, await giving up after its deadline, and an
\* op that panics releases the caller parked in its pipe; a handler answers or drops every
\* query it has read, also while it is closed; and apphost.Router returns when its context
\* ends, whatever the host does.  Each under the fairness of its own part.
QueriesEnd ==
  /\ part = "query" /\ QueryFairness => RouteReturns /\ PanicReleasesCaller
  /\ part = "handler" /\ Fairness => HandlerProgress
  /\ part = "session" /\ SessionFairness => SessionProgress

\* Who waits on a channel is released: a client call returns when the node ends or the
\* context does, a dialogue ends, Collect and Handle return, a batch closes, and the op
\* of an object service ends with its channel.  Each under the fairness of its own part.
ChannelsEnd ==
  /\ part = "batch" /\ BatchFairness => BatchProgress
  /\ part = "transport" /\ TransportFairness => TransportEnds
  /\ part = "call" /\ CallFairness => CallReturns
  /\ part = "talk" /\ TalkFairness => DialogueEnds
  /\ part = "fan" /\ FanOutFairness => FanOutEnds

\* The queries that wait for the node share one clock and give up after their last
\* attempt, and the session of a query ends as its call's result says.
RoutersCorrect == RetryCorrect /\ SessionCorrect
=============================================================================

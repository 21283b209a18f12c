-------------------------------- MODULE FanOut ---------------------------------
(***************************************************************************)
(* The ops objects.describe, objects.find and objects.search that lib/apps *)
(* mounts for an app (WithObjectDescriber, WithObjectFinder and            *)
(* WithObjectSearcher).  The op asks every provider at once: a worker per  *)
(* provider receives its stream and sends what is valid to found, which a  *)
(* goroutine closes when the last worker is done; a relay receives from    *)
(* found and sends to results; and the op sends what it receives to the    *)
(* caller and ends with EOS.  Both channels are unbuffered, so a send and  *)
(* its receive are one step.  Every send and receive also watches the      *)
(* context of the op, which ends when the op returns.                      *)
(*                                                                         *)
(* An item is known by its provider: a count stands for the items a        *)
(* provider streamed, which all three channels keep in their order.        *)
(***************************************************************************)
EXTENDS Naturals

CONSTANTS Providers, MaxItems    \* the providers; valid items of each

ASSUME FanOutAssumption == Providers # {} /\ MaxItems \in Nat

VARIABLES worker,      \* per provider: "off", "start", "recv", "send", "done"
          taken,       \* per provider: valid items its worker received
          found,       \* the channel: "open" or "closed"
          relay,       \* the relay: what it is at and whose item it holds
          op,          \* the op, and whether its context had ended when it chose to finish
          delivered,   \* per provider: items sent to the caller
          live         \* the context of the op has not ended

fanVars == <<worker, taken, found, relay, op, delivered, live>>

Someone == CHOOSE p \in Providers : TRUE
Started == \A p \in Providers : worker[p] # "off"

FanOutTypeOK ==
  /\ worker \in [Providers -> {"off", "start", "recv", "send", "done"}]
  /\ taken \in [Providers -> Nat] /\ delivered \in [Providers -> Nat]
  /\ found \in {"open", "closed"} /\ live \in BOOLEAN
  /\ relay \in [at : {"recv", "send", "done"}, of : Providers]
  /\ op \in [at : {"start", "error", "recv", "send", "eos", "returned"}, of : Providers, cut : BOOLEAN]

FanOutInit ==
  /\ worker = [p \in Providers |-> "off"] /\ found = "open" /\ live = TRUE
  /\ taken = [p \in Providers |-> 0] /\ delivered = [p \in Providers |-> 0]
  /\ relay = [at |-> "recv", of |-> Someone]
  /\ op = [at |-> "start", of |-> Someone, cut |-> FALSE]

-----------------------------------------------------------------------------
\* An id that is nil or zero is answered with an error; otherwise the providers are asked.
OpStart ==
  /\ op.at = "start"
  /\ \/ op' = [op EXCEPT !.at = "error"] /\ UNCHANGED worker
     \/ op' = [op EXCEPT !.at = "recv"] /\ worker' = [p \in Providers |-> "start"]
  /\ UNCHANGED <<taken, found, relay, delivered, live>>

\* A provider that is nil, fails or has no stream ends its worker.
WorkerStart(p) ==
  /\ worker[p] = "start"
  /\ \E next \in {"recv", "done"} : worker' = [worker EXCEPT ![p] = next]
  /\ UNCHANGED <<taken, found, relay, op, delivered, live>>

\* From the stream: a valid item, an invalid one which is skipped, its end, or the end of ctx.
WorkerTakes(p) ==
  /\ worker[p] = "recv" /\ taken[p] < MaxItems
  /\ worker' = [worker EXCEPT ![p] = "send"] /\ taken' = [taken EXCEPT ![p] = @ + 1]
  /\ UNCHANGED <<found, relay, op, delivered, live>>
WorkerSkips(p) == worker[p] = "recv" /\ UNCHANGED fanVars
WorkerEnds(p) ==
  /\ worker[p] = "recv" /\ worker' = [worker EXCEPT ![p] = "done"]
  /\ UNCHANGED <<taken, found, relay, op, delivered, live>>

\* Over found, to the relay.
WorkerSends(p) ==
  /\ worker[p] = "send" /\ relay.at = "recv"
  /\ worker' = [worker EXCEPT ![p] = "recv"] /\ relay' = [at |-> "send", of |-> p]
  /\ UNCHANGED <<taken, found, op, delivered, live>>

\* Mutant form: a send on found that does not watch the context.
NeverGivesUp(p) == worker[p] = "send" /\ UNCHANGED fanVars
WorkerGivesUp(p) ==
  /\ worker[p] \in {"recv", "send"} /\ ~live /\ worker' = [worker EXCEPT ![p] = "done"]
  /\ UNCHANGED <<taken, found, relay, op, delivered, live>>

\* Mutant form: the goroutine closes found when the first worker is done.
CloseEarly ==
  /\ found = "open" /\ \E p \in Providers : worker[p] = "done"
  /\ found' = "closed" /\ UNCHANGED <<worker, taken, relay, op, delivered, live>>
CloseFound ==
  /\ found = "open" /\ \A p \in Providers : worker[p] = "done"
  /\ found' = "closed" /\ UNCHANGED <<worker, taken, relay, op, delivered, live>>

\* The relay ends, closing results, when found is closed or the context has ended.
RelayEnds ==
  /\ Started /\ relay.at # "done" /\ (~live \/ (relay.at = "recv" /\ found = "closed"))
  /\ relay' = [relay EXCEPT !.at = "done"]
  /\ UNCHANGED <<worker, taken, found, op, delivered, live>>

\* Over results, to the op.
RelaySends ==
  /\ relay.at = "send" /\ op.at = "recv"
  /\ relay' = [relay EXCEPT !.at = "recv"] /\ op' = [op EXCEPT !.at = "send", !.of = relay.of]
  /\ UNCHANGED <<worker, taken, found, delivered, live>>

\* The op returns: its context is cancelled and the channel to the caller closed.
Return == op' = [op EXCEPT !.at = "returned"] /\ live' = FALSE

\* The op sends to the caller; a send that fails ends it without EOS.
OpSends ==
  /\ op.at = "send"
  /\ \/ op' = [op EXCEPT !.at = "recv"] /\ delivered' = [delivered EXCEPT ![op.of] = @ + 1] /\ UNCHANGED live
     \/ Return /\ UNCHANGED delivered
  /\ UNCHANGED <<worker, taken, found, relay>>
OpErrs ==
  /\ op.at = "error"
  /\ (op' = [op EXCEPT !.at = "eos"] /\ UNCHANGED live) \/ Return
  /\ UNCHANGED <<worker, taken, found, relay, delivered>>

\* results is closed, or the context has ended: the op does not tell them apart.
OpEnds ==
  /\ op.at = "recv" /\ (relay.at = "done" \/ ~live)
  /\ op' = [op EXCEPT !.at = "eos", !.cut = ~live]
  /\ UNCHANGED <<worker, taken, found, relay, delivered, live>>
OpEOS == op.at = "eos" /\ Return /\ UNCHANGED <<worker, taken, found, relay, delivered>>

\* The context the op was given ends.
CtxCancel == live /\ op.at # "returned" /\ live' = FALSE
             /\ UNCHANGED <<worker, taken, found, relay, op, delivered>>

FanOutNext ==
  \/ OpStart \/ CloseFound \/ RelayEnds \/ RelaySends \/ OpSends \/ OpErrs \/ OpEnds \/ OpEOS \/ CtxCancel
  \/ \E p \in Providers : \/ WorkerStart(p) \/ WorkerTakes(p) \/ WorkerSkips(p) \/ WorkerEnds(p)
                          \/ WorkerSends(p) \/ WorkerGivesUp(p)

FanOutSpec == FanOutInit /\ [][FanOutNext]_fanVars

\* The goroutines are scheduled, and the senders blocked on a channel are served in the
\* order they came.  Nothing is assumed of a stream: it may stay silent.
FanOutFairness ==
  /\ WF_fanVars(OpStart \/ CloseFound \/ RelayEnds \/ OpSends \/ OpErrs \/ OpEnds \/ OpEOS)
  /\ WF_fanVars(RelaySends)
  /\ \A p \in Providers : WF_fanVars(WorkerStart(p) \/ WorkerGivesUp(p)) /\ SF_fanVars(WorkerSends(p))

-----------------------------------------------------------------------------
\* The items of p on their way: with its worker, with the relay, with the op.
OnWay(p) ==
  (IF worker[p] = "send" THEN 1 ELSE 0) + (IF relay.at = "send" /\ relay.of = p THEN 1 ELSE 0)
  + (IF op.at = "send" /\ op.of = p THEN 1 ELSE 0)

\* An answer that ends with EOS is complete unless the context had ended: each provider's
\* stream is at its end, and everything valid in it was sent to the caller.  Nothing is
\* sent twice or invented, and found is never closed while a worker may still send to it,
\* which would panic (objectDescriberOps.describe, objectFinderOps.find and
\* objectSearcherOps.search with the ops above them).
FanOutCorrect ==
  /\ op.at = "eos" /\ ~op.cut => \A p \in Providers : worker[p] \in {"off", "done"} /\ delivered[p] = taken[p]
  /\ \A p \in Providers : delivered[p] + OnWay(p) <= taken[p]
  /\ found = "closed" => \A p \in Providers : worker[p] = "done"

\* The op leaves nothing behind: once it returned or its context ended, the workers, the
\* relay and the op itself all end, although a provider's stream stays silent for ever.
\* No provider holds up another: a worker with an item gets it off its hands, and the op
\* returns once all the streams have ended.
FanOutEnds ==
  /\ ~live ~> (op.at = "returned" /\ (Started => relay.at = "done")
                /\ \A p \in Providers : worker[p] \in {"off", "done"})
  /\ \A p \in Providers : worker[p] = "send" ~> worker[p] # "send"
  /\ (\A p \in Providers : worker[p] = "done") ~> op.at = "returned"
=============================================================================

------------------------------ MODULE Registrar ------------------------------
(***************************************************************************)
(* lib/apps: AppRegistrar.  One goroutine (run) binds to the node, attaches*)
(* every handler again, runs the registration hooks and closes the ready   *)
(* channel; then it serves Register calls until the bind channel breaks,   *)
(* and starts over.  The node is external: it drops the handlers of a bind *)
(* channel that ends.                                                      *)
(***************************************************************************)
EXTENDS Naturals, Sequences, SequencesExt, FiniteSets

CONSTANTS Endpoints,  \* the handlers applications register, each by one Register call
          MaxDelay,   \* log2 of maxBackoff / minBackoff
          None

ASSUME RegistrarAssumption == None \notin Endpoints /\ MaxDelay \in Nat

VARIABLES
  pc,         \* run: "dial", "attach", "hooks", "backoff", "loop", "reg_attach", "reg_hooks", "stopped"
  handlers,   \* AppRegistrar.handlers
  next,       \* how many of them attachAll has attached
  ready,      \* the channel in AppRegistrar.ready is closed
  delay,      \* AppRegistrar.delay, as doublings of minBackoff
  request,    \* the request loop is serving
  call,       \* each Register call: "none", "sending", "sent", "ok", "failed", "canceled"
  bindCh,     \* run's bind channel: "none", "up" or "broken"
  registered, \* external: the handlers the node routes to
  bound,      \* external: those whose BindMsg arrived on the present bind channel
  hooksRun,   \* history: the hooks have succeeded on the present bind channel
  ctxDone

vars == <<pc, handlers, next, ready, delay, request, call, bindCh, registered, bound, hooksRun, ctxDone>>
node == <<bindCh, registered, bound>>

TypeOK ==
  /\ pc \in {"dial", "attach", "hooks", "backoff", "loop", "reg_attach", "reg_hooks", "stopped"}
  /\ handlers \in Seq(Endpoints)
  /\ next \in 0..Len(handlers)
  /\ ready \in BOOLEAN
  /\ delay \in 0..MaxDelay
  /\ request \in Endpoints \cup {None}
  /\ (pc \in {"reg_attach", "reg_hooks"}) = (request \in Endpoints)
  /\ call \in [Endpoints -> {"none", "sending", "sent", "ok", "failed", "canceled"}]
  /\ bindCh \in {"none", "up", "broken"}
  /\ registered \subseteq Endpoints
  /\ bound \subseteq Endpoints
  /\ hooksRun \in BOOLEAN
  /\ ctxDone \in BOOLEAN

Init ==
  /\ pc = "dial"
  /\ handlers = <<>>
  /\ next = 0
  /\ ready = FALSE
  /\ delay = 0
  /\ request = None
  /\ call = [e \in Endpoints |-> "none"]
  /\ bindCh = "none"
  /\ registered = {}
  /\ bound = {}
  /\ hooksRun = FALSE
  /\ ctxDone = FALSE

-----------------------------------------------------------------------------
(* The node's side. *)

\* The bind channel ends, closed by run or broken: the node drops what was bound to it.
EndBind(how) ==
  /\ bindCh' = how
  /\ registered' = registered \ bound
  /\ bound' = {}

\* The node restarts or the link breaks.
BindBreaks ==
  /\ bindCh = "up"
  /\ EndBind("broken")
  /\ UNCHANGED <<pc, handlers, next, ready, delay, request, call, hooksRun, ctxDone>>

-----------------------------------------------------------------------------
(* run *)

\* backoff arms a timer with the present delay and doubles the delay up to its maximum.
Backoff == IF delay < MaxDelay THEN delay + 1 ELSE MaxDelay

DialFails ==
  /\ pc = "dial"
  /\ IF ctxDone THEN pc' = "stopped" /\ UNCHANGED delay
               ELSE pc' = "backoff" /\ delay' = Backoff
  /\ UNCHANGED <<handlers, next, ready, request, call, hooksRun, ctxDone>> /\ UNCHANGED node

\* dial opened a bind channel; attachAll returns at once when there are no handlers.
Dial ==
  /\ pc = "dial"
  /\ bindCh' = "up"
  /\ next' = 0
  /\ hooksRun' = FALSE
  /\ IF handlers = <<>>
       THEN pc' = "loop" /\ ready' = TRUE /\ delay' = 0
       ELSE pc' = "attach" /\ UNCHANGED <<ready, delay>>
  /\ UNCHANGED <<handlers, request, call, registered, bound, ctxDone>>

\* attach registers the handler and then binds its token to the channel.
NodeAccepts(e) ==
  /\ bindCh = "up"
  /\ registered' = registered \cup {e}
  /\ bound' = bound \cup {e}
  /\ UNCHANGED bindCh

Attach ==
  /\ pc = "attach"
  /\ NodeAccepts(handlers[next + 1])
  /\ next' = next + 1
  /\ pc' = IF next + 1 = Len(handlers) THEN "hooks" ELSE "attach"
  /\ UNCHANGED <<handlers, ready, delay, request, call, hooksRun, ctxDone>>

\* attachAll failed, at a handler (which the node may have registered before the
\* BindMsg failed) or at a hook: run closes the channel and backs off.
AttachAllFails ==
  /\ pc \in {"attach", "hooks"}
  /\ bindCh' = "none"
  /\ bound' = {}
  /\ \/ registered' = registered \ bound
     \/ pc = "attach" /\ registered' = (registered \ bound) \cup {handlers[next + 1]}
  /\ IF ctxDone THEN pc' = "stopped" /\ UNCHANGED delay
               ELSE pc' = "backoff" /\ delay' = Backoff
  /\ UNCHANGED <<handlers, next, ready, request, call, hooksRun, ctxDone>>

\* The hooks succeed, the delay is reset and the ready channel closed.
HooksSucceed ==
  /\ pc = "hooks"
  /\ hooksRun' = TRUE
  /\ delay' = 0
  /\ ready' = TRUE
  /\ pc' = "loop"
  /\ UNCHANGED <<handlers, next, request, call, ctxDone>> /\ UNCHANGED node

BackoffNeedsContext ==
  /\ pc = "backoff" /\ ctxDone
  /\ pc' \in {"dial", "stopped"}
  /\ UNCHANGED <<handlers, next, ready, delay, request, call, hooksRun, ctxDone>> /\ UNCHANGED node

BackoffEnds ==
  /\ pc = "backoff"
  /\ pc' \in {"dial"} \cup (IF ctxDone THEN {"stopped"} ELSE {})
  /\ UNCHANGED <<handlers, next, ready, delay, request, call, hooksRun, ctxDone>> /\ UNCHANGED node

-----------------------------------------------------------------------------
(* loop *)

LoopReceives(e) ==
  /\ pc = "loop"
  /\ call[e] = "sending"
  /\ call' = [call EXCEPT ![e] = "sent"]
  /\ request' = e
  /\ pc' = "reg_attach"
  /\ UNCHANGED <<handlers, next, ready, delay, hooksRun, ctxDone>> /\ UNCHANGED node

\* attachRegistered: attach, append, run the hooks.
AttachRegistered ==
  /\ pc = "reg_attach"
  /\ NodeAccepts(request)
  /\ handlers' = Append(handlers, request)
  /\ pc' = "reg_hooks"
  /\ UNCHANGED <<next, ready, delay, request, call, hooksRun, ctxDone>>

\* A caller that stopped waiting leaves the answer in req.done.
Answer(e, how) == call' = IF call[e] = "sent" THEN [call EXCEPT ![e] = how] ELSE call

RegisteredHooksSucceed ==
  /\ pc = "reg_hooks"
  /\ hooksRun' = TRUE
  /\ Answer(request, "ok")
  /\ request' = None
  /\ pc' = "loop"
  /\ UNCHANGED <<handlers, next, ready, delay, ctxDone>> /\ UNCHANGED node

\* A failed attach or hook removes the handler again, ends the loop, closes the
\* channel and stops run; the ready channel stays closed.
RegisteredFailsKeeping ==
  /\ pc \in {"reg_attach", "reg_hooks"}
  /\ Answer(request, "failed")
  /\ request' = None
  /\ pc' = "stopped"
  /\ EndBind("none")
  /\ UNCHANGED <<handlers, next, ready, delay, hooksRun, ctxDone>>

RegisteredFails ==
  /\ pc \in {"reg_attach", "reg_hooks"}
  /\ Answer(request, "failed")
  /\ request' = None
  /\ handlers' = IF pc = "reg_hooks" THEN Front(handlers) ELSE handlers
  /\ pc' = "stopped"
  /\ bindCh' = "none"
  /\ bound' = {}
  /\ \/ registered' = registered \ bound
     \/ pc = "reg_attach" /\ registered' = (registered \ bound) \cup {request}
  /\ UNCHANGED <<next, ready, delay, hooksRun, ctxDone>>

\* The receiving goroutine reports the broken channel: a new ready channel, and a new cycle.
Reconnect ==
  /\ pc = "loop" /\ bindCh = "broken"
  /\ bindCh' = "none"
  /\ ready' = FALSE
  /\ pc' = "dial"
  /\ UNCHANGED <<handlers, next, delay, request, call, registered, bound, hooksRun, ctxDone>>

LoopStops ==
  /\ pc = "loop" /\ ctxDone
  /\ pc' = "stopped"
  /\ EndBind("none")
  /\ UNCHANGED <<handlers, next, ready, delay, request, call, hooksRun, ctxDone>>

-----------------------------------------------------------------------------
(* Register, and the context. *)

Register(e) ==
  /\ call[e] = "none"
  /\ call' = [call EXCEPT ![e] = "sending"]
  /\ UNCHANGED <<pc, handlers, next, ready, delay, request, hooksRun, ctxDone>> /\ UNCHANGED node

RegisterCanceled(e) ==
  /\ call[e] \in {"sending", "sent"} /\ ctxDone
  /\ call' = [call EXCEPT ![e] = "canceled"]
  /\ UNCHANGED <<pc, handlers, next, ready, delay, request, hooksRun, ctxDone>> /\ UNCHANGED node

ContextEnds ==
  /\ ~ctxDone
  /\ ctxDone' = TRUE
  /\ UNCHANGED <<pc, handlers, next, ready, delay, request, call, hooksRun>> /\ UNCHANGED node

Run ==
  \/ Dial \/ DialFails \/ Attach \/ AttachAllFails \/ HooksSucceed \/ BackoffEnds
  \/ AttachRegistered \/ RegisteredHooksSucceed \/ RegisteredFails \/ Reconnect \/ LoopStops
  \/ \E e \in Endpoints : LoopReceives(e)

Next ==
  \/ Run \/ BindBreaks \/ ContextEnds
  \/ \E e \in Endpoints : Register(e) \/ RegisterCanceled(e)

\* run is scheduled, and the node does not refuse the same step for ever.
Fairness ==
  /\ WF_vars(Run) /\ \A e \in Endpoints : WF_vars(RegisterCanceled(e))
  /\ SF_vars(Dial) /\ SF_vars(HooksSucceed)
  /\ \A i \in 0..Cardinality(Endpoints) : SF_vars(next = i /\ Attach)

Spec == Init /\ [][Next]_vars /\ Fairness

-----------------------------------------------------------------------------
(* Properties. *)

\* The gate is open only over a session whose every handler is attached: while
\* loop waits on a live bind channel with the ready channel closed, the node
\* routes to each handler and will drop it with that channel.
ReadyMeansAttached ==
  pc = "loop" /\ bindCh = "up" => ready /\ ToSet(handlers) \subseteq registered \cap bound

\* The hooks have run on the present session before loop serves it, when there
\* is a handler to have them for.
HooksBeforeReady == pc = "loop" /\ handlers # <<>> => hooksRun

\* close(s.ready.Get()) never meets a closed channel: run reaches it only with an open one.
ReadyClosedOnce == pc \in {"dial", "attach", "hooks", "backoff"} => ~ready

\* A Register call that returned nil has its handler in the list every reconnect
\* attaches again; one that failed does not.
RegisterIsKept ==
  \A e \in Endpoints :
    /\ call[e] = "ok" => e \in ToSet(handlers)
    /\ call[e] = "failed" => e \notin ToSet(handlers)

\* A session that breaks is replaced: unless run stops or its context ends,
\* a registrar that is reconnecting gets its gate open again.
ReconnectsOrStops == pc = "backoff" ~> pc \in {"loop", "stopped"}

\* run opens its gate only over a session with every handler attached and its hooks
\* run, closes each ready channel once, and keeps the handlers of the calls that succeeded.
RegistrarCorrect == TypeOK /\ ReadyMeansAttached /\ HooksBeforeReady /\ ReadyClosedOnce /\ RegisterIsKept
=============================================================================

------------------------------ MODULE AppServe -------------------------------
(***************************************************************************)
(* lib/apps: serveRegistered composes a Handler's Route loop, the gate in  *)
(* front of the application's router and the AppRegistrar.  Route runs     *)
(* before Register is called because a registration hook may issue a query *)
(* that the node routes back to the very handler being registered.  Route  *)
(* serves one query at a time, and the gate holds a query until the ready  *)
(* channel it found on entering closes; the registrar replaces the channel *)
(* with every new session.                                                 *)
(***************************************************************************)
EXTENDS Registrar

VARIABLES
  route,    \* each Route loop: "none", "read", or "gated" in the gate's select
  held,     \* the ready channel its query waits on, as Ready() returned it: the "present"
            \* one, or one replaced since, "closed" or still "open"
  serving,  \* whose query it is on: "none", "hook" or "other"
  hook,     \* the query of the running hook: "idle", "asked" or "answered"
  at        \* the handler the node sent it to

svars == <<route, held, serving, hook, at>>
allVars == <<vars, svars>>

ServeTypeOK ==
  /\ route \in [Endpoints -> {"none", "read", "gated"}]
  /\ held \in [Endpoints -> {"none", "present", "closed", "open"}]
  /\ serving \in [Endpoints -> {"none", "hook", "other"}]
  /\ \A e \in Endpoints : (route[e] = "gated") = (serving[e] # "none") /\ (route[e] = "gated") = (held[e] # "none")
  /\ hook \in {"idle", "asked", "answered"}
  /\ at \in Endpoints \cup {None}

ServeInit ==
  /\ Init
  /\ route = [e \in Endpoints |-> "none"] /\ held = [e \in Endpoints |-> "none"]
  /\ serving = [e \in Endpoints |-> "none"]
  /\ hook = "idle"
  /\ at = None

-----------------------------------------------------------------------------
\* serveRegistered starts Route on the handler and then registers it.
StartRoute(e) ==
  /\ route[e] = "none"
  /\ route' = [route EXCEPT ![e] = "read"]
  /\ UNCHANGED vars /\ UNCHANGED <<held, serving, hook, at>>

ServeRegister(e) ==
  /\ route[e] # "none"
  /\ Register(e)
  /\ UNCHANGED svars

\* Route reads a query and enters gateRouter.RouteQuery, which takes the ready
\* channel once and waits on it in a select.
Enter(e, whose) ==
  /\ route[e] = "read"
  /\ route' = [route EXCEPT ![e] = "gated"]
  /\ held' = [held EXCEPT ![e] = "present"]
  /\ serving' = [serving EXCEPT ![e] = whose]
  /\ UNCHANGED vars

TakeHookQuery == hook = "asked" /\ at \in Endpoints /\ Enter(at, "hook") /\ at' = None /\ UNCHANGED hook
TakeOtherQuery(e) == e \in registered /\ Enter(e, "other") /\ UNCHANGED <<hook, at>>

Waits(e) == route[e] = "gated"
IsClosed(ch) == ch = "closed" \/ (ch = "present" /\ ready)

\* s.ready.Set(make(chan struct{})): who waits goes on waiting on the old channel.
Replaced ==
  [e \in Endpoints |->
     IF held[e] = "present" THEN IF ready THEN "closed" ELSE "open" ELSE held[e]]

\* The channel is closed or the context has ended: either way Route answers and
\* reads on.
GateReleases(e) ==
  /\ Waits(e) /\ (IsClosed(held[e]) \/ ctxDone)
  /\ route' = [route EXCEPT ![e] = "read"]
  /\ held' = [held EXCEPT ![e] = "none"]
  /\ serving' = [serving EXCEPT ![e] = "none"]
  /\ hook' = IF serving[e] = "hook" /\ hook = "asked" THEN "answered" ELSE hook
  /\ UNCHANGED vars /\ UNCHANGED at

\* The hook's query reaches a handler the node already routes to.
HookAsks ==
  /\ pc \in {"hooks", "reg_hooks"} /\ bindCh = "up" /\ hook = "idle"
  /\ \E e \in registered : at' = e
  /\ hook' = "asked"
  /\ UNCHANGED vars /\ UNCHANGED <<route, held, serving>>

\* A hook returns when it has its answer; a hook that is still waiting returns
\* only when the link to the node or the context ends.
HookSucceeds ==
  /\ hook # "asked"
  /\ HooksSucceed \/ RegisteredHooksSucceed
  /\ hook' = "idle"
  /\ at' = None
  /\ UNCHANGED <<route, held, serving>>

\* Mutant form: the ready channel is replaced after a failed session too.
HookFailsAnew ==
  /\ hook = "asked" => bindCh = "broken" \/ ctxDone
  /\ AttachAllFails \/ RegisteredFails
  /\ hook' = "idle"
  /\ at' = None
  /\ held' = Replaced
  /\ UNCHANGED <<route, serving>>

HookFails ==
  /\ hook = "asked" => bindCh = "broken" \/ ctxDone
  /\ AttachAllFails \/ RegisteredFails
  /\ hook' = "idle"
  /\ at' = None
  /\ UNCHANGED <<route, held, serving>>

RegistrarStep ==
  /\ \/ Dial \/ DialFails \/ Attach \/ BackoffEnds \/ AttachRegistered \/ LoopStops
     \/ BindBreaks \/ ContextEnds
     \/ \E e \in Endpoints : LoopReceives(e) \/ RegisterCanceled(e)
  /\ UNCHANGED svars

\* run replaces the ready channel when its session has broken.
ReadyReplaced == Reconnect /\ held' = Replaced /\ UNCHANGED <<route, serving, hook, at>>

ServeNext ==
  \/ RegistrarStep \/ ReadyReplaced \/ HookAsks \/ HookSucceeds \/ HookFails \/ TakeHookQuery
  \/ \E e \in Endpoints : StartRoute(e) \/ ServeRegister(e) \/ TakeOtherQuery(e) \/ GateReleases(e)

\* Route runs, and a query offered to it is read in turn: the senders blocked on
\* Handler.queries are served first come, first served.
ServeFairness ==
  \A e \in Endpoints : WF_allVars(GateReleases(e)) /\ SF_allVars(at = e /\ TakeHookQuery)

ServeSpec == ServeInit /\ [][ServeNext]_allVars /\ ServeFairness

-----------------------------------------------------------------------------
(* Properties. *)

\* A hook run for a new handler gets its answer although the node routes its
\* query back to that handler: Route is already reading and the gate is open.
FirstHookAnswered == (pc = "reg_hooks" /\ hook = "asked") ~> (hook # "asked" \/ bindCh # "up")

\* No query is stranded at a gate that will never open: the channel a waiting query
\* took from Ready() before a session broke, was refused or failed its hooks is the
\* one the next session closes, or is closed already.
NoneStranded == \A e \in Endpoints : held[e] # "open"

\* A query that waits when a session becomes ready passes the gate, also when that
\* session breaks again before Route gets to run.
GateOpens == \A e \in Endpoints : (Waits(e) /\ ready) ~> ~Waits(e)

\* A registration hook can issue queries that the node routes back through the
\* handler, on a reconnect as on the first registration.
HookQueryAnswered == (hook = "asked") ~> (hook # "asked" \/ bindCh # "up")

\* No query that Route has read waits on a ready channel that was replaced while open.
ServeCorrect == ServeTypeOK /\ NoneStranded
=============================================================================

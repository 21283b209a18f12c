----------------------------- MODULE MCClients ------------------------------
(***************************************************************************)
(* What an application keeps running: the registrar alone, the registrar   *)
(* composed with the handlers it serves, and the lease keeper; a watch of  *)
(* the services, a provider, a signer, a value bound to a node of the      *)
(* tree, and walks along its paths by two creators with a common prefix,   *)
(* two that only look, and a deletion.  But for the registrar and the      *)
(* handlers they share no state: a behaviour exercises one of them.        *)
(***************************************************************************)
EXTENDS AppServe, LeaseKeeper, Discovery, Provider, Signer, TreeValue, TreeQuery

CONSTANTS Parts, w1, w2, w3, w4, Deep
VARIABLE part

MCGoal(w) ==
  CASE w = w1 -> IF Deep THEN <<1, 1, 1, 1>> ELSE <<1, 1, 1>>
    [] w = w2 -> <<1, 1, 2>>
    [] w = w3 -> <<1, 2>>
    [] w = w4 -> <<1, 1, 1>>

MCCreates(w) == w \in {w1, w2}

MCPlanted == {<< >>} \cup IF Deep THEN {<<1>>, <<1, 1>>, <<1, 1, 1>>, <<1, 1, 1, 1>>, <<1, 1, 1, 2>>} ELSE {}

mcVars == <<part, allVars, leaseVars, discoveryVars, providerVars, signerVars, valueVars, walkVars>>

MCInit ==
  /\ part \in Parts
  /\ ServeInit /\ LeaseInit /\ DiscoveryInit /\ ProviderInit /\ SignerInit /\ ValueInit /\ WalkInit

Apps == UNCHANGED <<part, discoveryVars, providerVars, signerVars, valueVars, walkVars>>
Clients == UNCHANGED <<part, allVars, leaseVars>>

MCNext ==
  \/ part = "registrar" /\ Next /\ Apps /\ UNCHANGED <<svars, leaseVars>>
  \/ part = "serve" /\ ServeNext /\ Apps /\ UNCHANGED leaseVars
  \/ part = "lease" /\ LeaseNext /\ Apps /\ UNCHANGED allVars
  \/ part = "discovery" /\ DiscoveryNext /\ Clients /\ UNCHANGED <<providerVars, signerVars, valueVars, walkVars>>
  \/ part = "provider" /\ ProviderNext /\ Clients /\ UNCHANGED <<discoveryVars, signerVars, valueVars, walkVars>>
  \/ part = "signer" /\ SignerNext /\ Clients /\ UNCHANGED <<discoveryVars, providerVars, valueVars, walkVars>>
  \/ part = "value" /\ ValueNext /\ Clients /\ UNCHANGED <<discoveryVars, providerVars, signerVars, walkVars>>
  \/ part = "walk" /\ WalkNext /\ Clients /\ UNCHANGED <<discoveryVars, providerVars, signerVars, valueVars>>

MCSpec == MCInit /\ [][MCNext]_mcVars

\* The composed registrar alone, with its fairness.
MCServeSpec == MCSpec /\ ServeFairness

\* Registrar.run attaches every handler again after its session broke, when its hooks do
\* not depend on queries that come back to the app (HookQueryAnswered is about hooks that
\* do); the hook of a new handler gets its answer and a query
\* that waits at the gate when a session is ready passes it; and the renewal loop ends with its
\* context.  Each under the fairness of its own part.
AppsProgress ==
  /\ part = "registrar" /\ Fairness => ReconnectsOrStops
  /\ part = "serve" /\ ServeFairness => FirstHookAnswered /\ GateOpens
  /\ part = "lease" /\ LeaseFairness => RenewalStops

\* A Discovery shows every change and Close releases whoever waits for it, a signer's
\* canceled handlers end and its Close returns, and a bound value converges on what the
\* node holds.  Each under the fairness of its own part.
ClientsProgress ==
  /\ part = "discovery" /\ DiscoveryFairness => DiscoveryProgress
  /\ part = "signer" /\ SignerFairness => SignerProgress
  /\ part = "value" /\ ValueFairness => ValueConverges

\* A bound value's changes are queued once and in order and a Set is read back, and a walk
\* that creates its path ends on a node of that path, whoever else creates or deletes there.
TreeCorrect == ValueCorrect /\ WalkCorrect
=============================================================================

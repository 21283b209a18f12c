------------------------------- MODULE Provider -------------------------------
(***************************************************************************)
(* services.Provider: Serve opens one advertisement for the whole set of   *)
(* services and retries while the node says they are advertised already.   *)
(* The node grants one binding at a time and may still hold one that has   *)
(* ended.  Time is counted in units of retryFirst; an attempt takes none.  *)
(***************************************************************************)
EXTENDS Naturals, Sequences

CONSTANTS Servers,      \* goroutines that call Serve
          RetryMax, RetryFor,
          MaxBindings   \* bound: bindings granted

ASSUME ProviderAssumption ==
  RetryMax \in Nat \ {0} /\ RetryFor \in Nat /\ MaxBindings \in Nat

VARIABLES
  binding,    \* p.binding, or 0
  bindings,   \* each binding: "open", "dead" (its channel has ended) or "done" (Done is closed)
  holds,      \* the binding the node holds, or 0; it notices an end with delay
  serve,      \* each Serve: "idle", "attempt", "store", "sleep", "served" or "failed"
  bindingGranted,    \* the binding a Serve has been granted and not yet stored
  retryDelay, spent,
  contested   \* history: the bindings not yet stored while two Serves were in progress

providerVars == <<binding, bindings, holds, serve, bindingGranted, retryDelay, spent, contested>>

ProviderTypeOK ==
  /\ bindings \in Seq({"open", "dead", "done"}) /\ Len(bindings) <= MaxBindings
  /\ binding \in 0..Len(bindings) /\ holds \in 0..Len(bindings)
  /\ serve \in [Servers -> {"idle", "attempt", "store", "sleep", "served", "failed"}]
  /\ bindingGranted \in [Servers -> 0..Len(bindings)]
  /\ retryDelay \in [Servers -> 1..RetryMax] /\ spent \in [Servers -> Nat]
  /\ contested \subseteq DOMAIN bindings

ProviderInit ==
  /\ binding = 0 /\ bindings = << >> /\ holds = 0
  /\ serve = [s \in Servers |-> "idle"] /\ bindingGranted = [s \in Servers |-> 0]
  /\ retryDelay = [s \in Servers |-> 1] /\ spent = [s \in Servers |-> 0]
  /\ contested = {}

IsOpen(b) == b > 0 /\ bindings[b] = "open"

\* current: a binding that is done is forgotten.
current == IF binding > 0 /\ bindings[binding] # "done" THEN binding ELSE 0

InProgress(s) == serve[s] \in {"attempt", "sleep", "store"}
Alone(s) == \A t \in Servers \ {s} : ~InProgress(t)

Serve(s) ==
  /\ serve[s] \in {"idle", "served", "failed"}
  /\ serve' = [serve EXCEPT ![s] = IF current = 0 THEN "attempt" ELSE "served"]
  /\ binding' = current
  /\ retryDelay' = [retryDelay EXCEPT ![s] = 1] /\ spent' = [spent EXCEPT ![s] = 0]
  /\ contested' = contested \cup {b \in DOMAIN bindings :
                                  current = 0 /\ \E t \in Servers : bindingGranted[t] = b}
  /\ UNCHANGED <<bindings, holds, bindingGranted>>

\* startBinding: a new binding, in a state that the node may know of.
StartBinding(s, state) ==
  LET b == Len(bindings) + 1
  IN  /\ serve[s] = "attempt" /\ Len(bindings) < MaxBindings
      /\ bindings' = Append(bindings, state)
      /\ bindingGranted' = [bindingGranted EXCEPT ![s] = b]
      /\ contested' = IF Alone(s) THEN contested ELSE contested \cup {b}
      /\ serve' = [serve EXCEPT ![s] = "store"]
      /\ UNCHANGED <<binding, retryDelay, spent>>

\* The node held no binding of this provider, and answers with an Ack.
Advertise(s) == StartBinding(s, "open") /\ holds = 0 /\ holds' = Len(bindings) + 1

\* The channel ends in place of an Ack, which Switch does not report: Advertise returns
\* a binding over a dead channel.  The node may have taken it before.
AdvertHungUp(s) ==
  /\ StartBinding(s, "dead")
  /\ holds' \in {holds} \cup (IF holds = 0 THEN {Len(bindings) + 1} ELSE {})

StoreNothing(s) ==
  /\ serve[s] = "store"
  /\ bindingGranted' = [bindingGranted EXCEPT ![s] = 0]
  /\ serve' = [serve EXCEPT ![s] = "served"]
  /\ UNCHANGED <<binding, bindings, holds, retryDelay, spent, contested>>

StoreBinding(s) ==
  /\ serve[s] = "store"
  /\ binding' = bindingGranted[s] /\ bindingGranted' = [bindingGranted EXCEPT ![s] = 0]
  /\ serve' = [serve EXCEPT ![s] = "served"]
  /\ UNCHANGED <<bindings, holds, retryDelay, spent, contested>>

TooLate(s) == spent[s] + retryDelay[s] > RetryFor

\* The node refuses: already advertised.
AdvertRefused(s) ==
  /\ serve[s] = "attempt" /\ holds > 0
  /\ serve' = [serve EXCEPT ![s] = IF TooLate(s) THEN "failed" ELSE "sleep"]
  /\ UNCHANGED <<binding, bindings, holds, bindingGranted, retryDelay, spent, contested>>

\* Any other error, and the end of the context, end Serve at once.
Fails(s) ==
  /\ serve[s] \in {"attempt", "sleep"}
  /\ serve' = [serve EXCEPT ![s] = "failed"]
  /\ UNCHANGED <<binding, bindings, holds, bindingGranted, retryDelay, spent, contested>>

Doubled(d) == IF 2 * d < RetryMax THEN 2 * d ELSE RetryMax

Wake(s) ==
  /\ serve[s] = "sleep"
  /\ spent' = [spent EXCEPT ![s] = @ + retryDelay[s]]
  /\ retryDelay' = [retryDelay EXCEPT ![s] = Doubled(@)]
  /\ serve' = [serve EXCEPT ![s] = "attempt"]
  /\ UNCHANGED <<binding, bindings, holds, bindingGranted, contested>>

\* A binding's channel ends, its serve goroutine closes Done ...
Breaks(b) ==
  /\ bindings[b] = "open"
  /\ bindings' = [bindings EXCEPT ![b] = "dead"]
  /\ UNCHANGED <<binding, holds, serve, bindingGranted, retryDelay, spent, contested>>

BindingEnds(b) ==
  /\ bindings[b] = "dead"
  /\ bindings' = [bindings EXCEPT ![b] = "done"]
  /\ UNCHANGED <<binding, holds, serve, bindingGranted, retryDelay, spent, contested>>

\* ... which Close waits for ...
CloseBinding ==
  /\ current > 0
  /\ bindings' = [bindings EXCEPT ![current] = "done"]
  /\ UNCHANGED <<binding, holds, serve, bindingGranted, retryDelay, spent, contested>>

\* ... and the node notices.
NodeNotices ==
  /\ holds > 0 /\ ~IsOpen(holds)
  /\ holds' = 0
  /\ UNCHANGED <<binding, bindings, serve, bindingGranted, retryDelay, spent, contested>>

ProviderNext ==
  \/ \E s \in Servers : Serve(s) \/ Advertise(s) \/ AdvertHungUp(s) \/ StoreBinding(s) \/ AdvertRefused(s) \/ Fails(s) \/ Wake(s)
  \/ CloseBinding \/ NodeNotices \/ \E b \in DOMAIN bindings : Breaks(b) \/ BindingEnds(b)

ProviderSpec == ProviderInit /\ [][ProviderNext]_providerVars

-----------------------------------------------------------------------------
\* The retries end within retryFor.
WithinDeadline == \A s \in Servers : spent[s] <= RetryFor

\* When no Serve is in progress, a binding that is open is the one Close and Change
\* reach.  Two Serves at once may lose one: the binding that was granted while another
\* Serve ran, or began before it was stored, can be replaced by the other's, be it
\* older or the dead one of a channel that hung up.
OpenIsKnown ==
  (\A s \in Servers : ~InProgress(s))
    => \A b \in DOMAIN bindings \ contested : IsOpen(b) => binding = b

\* Serve gives up within its deadline and the open binding is not lost sight of.
ProviderCorrect == ProviderTypeOK /\ WithinDeadline /\ OpenIsKnown
=============================================================================

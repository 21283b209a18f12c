------------------------------- MODULE Discovery -------------------------------
(***************************************************************************)
(* services.Watcher on top of a discovery stream: the node sends updates   *)
(* and the end of its initial attempt, readDiscovery turns them into       *)
(* events on an unbuffered channel, and the watcher's goroutine keeps the  *)
(* set of offerings from them.  Three goroutines of the client (reader,    *)
(* watcher, caller) meet the node and the end of the context in any order. *)
(***************************************************************************)
EXTENDS Naturals, Sequences, SequencesExt

CONSTANTS Keys,      \* the offerings: provider and name
          MaxSent    \* bound: messages the node sends

ASSUME DiscoveryAssumption == MaxSent \in Nat

VARIABLES
  wire, sent,     \* messages on their way, and how many were sent
  offered,        \* what the node has told the client is available
  nodeState,      \* "initial", "following" (after EOS) or "closed"
  canceled,       \* the watcher's context has ended
  reader,         \* "receive", "event" (waits to hand over), "last" or "done"
  event,          \* the event the reader hands over
  incomplete,     \* a services.Incomplete came
  watcher,        \* "range", "signal", "end", "endSignal", "done" or "panic"
  offerings, err, settled,
  initial,        \* the Initial channel: "open", "complete", "incomplete" or "closed"
  changed,        \* the token in the Changed channel
  closer,         \* a caller of Close: "idle", "waits" or "returned"
  caller,         \* a caller that reacts to Changed: "waits" or "reads"
  shown,          \* what that caller has read last
  endedFirst      \* history: the stream had ended when Close was called

nodeVars == <<wire, sent, offered, nodeState>>
readerVars == <<reader, event, incomplete>>
watcherVars == <<watcher, offerings, err, settled, initial>>
callerVars == <<closer, caller, shown, endedFirst>>
discoveryVars == <<nodeVars, readerVars, watcherVars, callerVars, canceled, changed>>

NoEvent == [kind |-> "none"]
Errors == {"none", "node", "ended", "canceled"}

Event == [kind : {"none", "initial"}] \cup [kind : {"update"}, key : Keys, available : BOOLEAN]
           \cup [kind : {"removed"}, keys : SUBSET Keys] \cup [kind : {"error"}, err : Errors]

DiscoveryTypeOK ==
  /\ offered \subseteq Keys /\ offerings \subseteq Keys
  /\ sent \in 0..MaxSent /\ nodeState \in {"initial", "following", "closed"}
  /\ canceled \in BOOLEAN /\ incomplete \in BOOLEAN /\ settled \in BOOLEAN /\ changed \in BOOLEAN
  /\ reader \in {"receive", "event", "last", "done"} /\ event \in Event
  /\ watcher \in {"range", "signal", "end", "endSignal", "done", "panic"}
  /\ err \in Errors /\ initial \in {"open", "complete", "incomplete", "closed"}
  /\ closer \in {"idle", "waits", "returned"} /\ caller \in {"waits", "reads"}
  /\ endedFirst \in BOOLEAN

DiscoveryInit ==
  /\ wire = << >> /\ sent = 0 /\ offered = {} /\ nodeState = "initial"
  /\ canceled = FALSE
  /\ reader = "receive" /\ event = NoEvent /\ incomplete = FALSE
  /\ watcher = "range" /\ offerings = {} /\ err = "none" /\ settled = FALSE /\ initial = "open"
  /\ changed = FALSE
  /\ closer = "idle" /\ caller = "waits" /\ shown = {} /\ endedFirst = FALSE

-----------------------------------------------------------------------------
\* The node (external).
NodeSends(msg, now, state) ==
  /\ nodeState # "closed" /\ sent < MaxSent
  /\ wire' = Append(wire, msg) /\ sent' = sent + 1
  /\ offered' = now /\ nodeState' = state
  /\ UNCHANGED <<readerVars, watcherVars, callerVars, canceled, changed>>

NodeUpdates(k) ==
  \/ NodeSends([kind |-> "update", key |-> k, available |-> TRUE], offered \cup {k}, nodeState)
  \/ NodeSends([kind |-> "update", key |-> k, available |-> FALSE], offered \ {k}, nodeState)

NodeRemoves(ks) ==
  /\ nodeState = "following" /\ ks # {}
  /\ NodeSends([kind |-> "removed", keys |-> ks], offered \ ks, nodeState)

\* The end of the initial attempt, which a node at fault may send twice.
NodeEndsInitial ==
  \/ NodeSends([kind |-> "initial"], offered, "following")
  \/ /\ nodeState = "initial"
     /\ \A i \in DOMAIN wire : wire[i].kind # "incomplete"
     /\ NodeSends([kind |-> "incomplete"], offered, "initial")

NodeFails == NodeSends([kind |-> "error", err |-> "node"], offered, "closed")

NodeCloses ==
  /\ nodeState # "closed"
  /\ nodeState' = "closed"
  /\ UNCHANGED <<wire, sent, offered, readerVars, watcherVars, callerVars, canceled, changed>>

-----------------------------------------------------------------------------
LastEventAsRead(e) == [kind |-> "error", err |-> e]

\* readDiscovery's last event, unless the context has ended by then.
LastEvent(e) == [kind |-> "error", err |-> IF canceled THEN "canceled" ELSE e]

\* One object is read and becomes an event; an Incomplete is kept for the outcome.
Receive ==
  /\ reader = "receive" /\ wire # << >>
  /\ wire' = Tail(wire)
  /\ LET msg == Head(wire) IN
       /\ incomplete' = (incomplete \/ msg.kind = "incomplete")
       /\ event' = CASE msg.kind = "incomplete" -> NoEvent
                     [] msg.kind = "error" -> LastEvent(msg.err)
                     [] OTHER -> msg
       /\ reader' = CASE msg.kind = "incomplete" -> "receive"
                      [] msg.kind = "error" -> "last"
                      [] OTHER -> "event"
  /\ UNCHANGED <<sent, offered, nodeState, watcherVars, callerVars, canceled, changed>>

\* The stream is over: closed by the node, or by the AfterFunc of the context.
ReceiveEnd ==
  /\ reader = "receive"
  /\ canceled \/ (nodeState = "closed" /\ wire = << >>)
  /\ event' = LastEvent("ended") /\ reader' = "last"
  /\ UNCHANGED <<nodeVars, incomplete, watcherVars, callerVars, canceled, changed>>

\* The handover waits for the watcher or for the end of the context.
HandoverAborts ==
  /\ reader = "event" /\ canceled
  /\ event' = LastEvent("canceled") /\ reader' = "last"
  /\ UNCHANGED <<nodeVars, incomplete, watcherVars, callerVars, canceled, changed>>

LastAborts ==
  /\ reader = "last" /\ canceled
  /\ event' = NoEvent /\ reader' = "done"
  /\ UNCHANGED <<nodeVars, incomplete, watcherVars, callerVars, canceled, changed>>

-----------------------------------------------------------------------------
Updated(ev) == IF ev.available THEN offerings \cup {ev.key} ELSE offerings \ {ev.key}

\* apply, up to its Unlock: the watcher takes the event the reader offers.  A second
\* outcome is sent on the closed Initial channel: the process panics.
Apply ==
  /\ watcher = "range" /\ reader \in {"event", "last"}
  /\ offerings' = CASE event.kind = "update" -> Updated(event)
                    [] event.kind = "removed" -> offerings \ event.keys
                    [] OTHER -> offerings
  /\ initial' = IF event.kind = "initial"
                  THEN IF incomplete THEN "incomplete" ELSE "complete" ELSE initial
  /\ settled' = (settled \/ event.kind = "initial")
  /\ err' = IF event.kind = "error" THEN event.err ELSE err
  /\ watcher' = IF event.kind = "initial" /\ initial # "open" THEN "panic" ELSE "signal"
  /\ event' = NoEvent /\ reader' = IF reader = "last" THEN "done" ELSE "receive"
  /\ UNCHANGED <<nodeVars, incomplete, callerVars, canceled, changed>>

NoSignal == FALSE

SignalSet == TRUE

Signal ==
  /\ watcher = "signal"
  /\ changed' = SignalSet
  /\ watcher' = "range"
  /\ UNCHANGED <<nodeVars, readerVars, offerings, err, settled, initial, callerVars, canceled>>

\* The channel of events is closed.
RangeEnds ==
  /\ watcher = "range" /\ reader = "done"
  /\ watcher' = "end"
  /\ UNCHANGED <<nodeVars, readerVars, offerings, err, settled, initial, callerVars, canceled, changed>>

Settle == IF settled THEN initial ELSE "closed"

\* end, up to its Unlock.
End ==
  /\ watcher = "end"
  /\ err' = IF err # "none" THEN err ELSE IF canceled THEN "canceled" ELSE "ended"
  /\ initial' = Settle
  /\ settled' = TRUE
  /\ watcher' = "endSignal"
  /\ UNCHANGED <<nodeVars, readerVars, offerings, callerVars, canceled, changed>>

\* The last signal, w.cancel and the close of Done.
Done ==
  /\ watcher = "endSignal"
  /\ changed' = SignalSet
  /\ canceled' = TRUE
  /\ watcher' = "done"
  /\ UNCHANGED <<nodeVars, readerVars, offerings, err, settled, initial, callerVars>>

-----------------------------------------------------------------------------
\* The caller's context ends.
Cancel ==
  /\ ~canceled
  /\ canceled' = TRUE
  /\ UNCHANGED <<nodeVars, readerVars, watcherVars, callerVars, changed>>

Close ==
  /\ closer = "idle"
  /\ canceled' = TRUE
  /\ closer' = "waits"
  /\ endedFirst' = (reader \in {"last", "done"})
  /\ UNCHANGED <<nodeVars, readerVars, watcherVars, caller, shown, changed>>

CloseReturns ==
  /\ closer = "waits" /\ watcher = "done"
  /\ closer' = "returned"
  /\ UNCHANGED <<nodeVars, readerVars, watcherVars, caller, shown, endedFirst, canceled, changed>>

\* A caller that waits for Changed and then reads Offerings.
TakeChanged ==
  /\ caller = "waits" /\ changed
  /\ changed' = FALSE /\ caller' = "reads"
  /\ UNCHANGED <<nodeVars, readerVars, watcherVars, closer, shown, endedFirst, canceled>>

Offerings ==
  /\ caller = "reads"
  /\ shown' = offerings /\ caller' = "waits"
  /\ UNCHANGED <<nodeVars, readerVars, watcherVars, closer, endedFirst, canceled, changed>>

\* A panic ends the process.
panicked == watcher = "panic"

ReaderStep == ~panicked /\ (Receive \/ ReceiveEnd \/ HandoverAborts \/ LastAborts)
WatcherStep == Apply \/ Signal \/ RangeEnds \/ End \/ Done
ReactStep == ~panicked /\ (TakeChanged \/ Offerings)

DiscoveryNext ==
  \/ \E k \in Keys : NodeUpdates(k)
  \/ \E ks \in SUBSET Keys : NodeRemoves(ks)
  \/ NodeEndsInitial \/ NodeFails \/ NodeCloses
  \/ ReaderStep \/ WatcherStep \/ ReactStep
  \/ ~panicked /\ (Cancel \/ Close \/ CloseReturns)

\* The client's goroutines run; neither the node nor the context need do anything.
DiscoveryFairness ==
  /\ WF_discoveryVars(ReaderStep) /\ WF_discoveryVars(WatcherStep)
  /\ WF_discoveryVars(CloseReturns) /\ WF_discoveryVars(ReactStep)

DiscoverySpec == DiscoveryInit /\ [][DiscoveryNext]_discoveryVars /\ DiscoveryFairness

-----------------------------------------------------------------------------
\* The watcher's set is the node's, as far as the messages before it have been read.
InStep ==
  wire = << >> /\ reader = "receive" /\ ~canceled => offerings = offered

\* Err is set before Done closes, and before Initial closes without an outcome.
ErrComesFirst == (watcher = "done" \/ initial = "closed") => err # "none"

\* After Close, Err is context.Canceled unless the stream had already ended.
CloseMeansCanceled == closer = "returned" => (err = "canceled" \/ endedFirst)

\* Close returns, whatever the goroutines are doing, and whoever waits for Initial is
\* released; only a node that ends its initial attempt twice takes the process down.
CloseReleases == closer = "waits" ~> panicked \/ (closer = "returned" /\ initial # "open")

\* A caller that reads the set whenever Changed fires ends up with the watcher's set.
ChangesAreShown == <>[](shown = offerings \/ panicked)

\* A stream the node ends, ends the watcher.
EndIsNoticed == nodeState = "closed" ~> watcher = "done" \/ panicked

\* The watched set is what the events read so far amount to, the reason of the end is
\* set before it is announced, and it is the context whenever Close caused it.
DiscoveryCorrect == DiscoveryTypeOK /\ InStep /\ ErrComesFirst /\ CloseMeansCanceled

\* Close releases the reader and everyone who waits, every change is shown and the end
\* of the stream is noticed.
DiscoveryProgress == CloseReleases /\ ChangesAreShown /\ EndIsNoticed
=============================================================================

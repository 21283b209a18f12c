# Verification of astral-go

TLA+ models of the Go SDK of the Astral Network (`src/`), the TLC configurations
that check them, and TLAPS proofs. `PROJECT.json` is the index: components, runs,
the map from every definition to the source lines it stands for, hazards, findings,
mutants and theorems.

## 1. The system

An application built with the SDK is a set of goroutines between two worlds: a
local node (`astrald`, not in this repository), reached over a local socket, and the
application's own operations. In the order a query meets them:

| Part | Source | Role |
|---|---|---|
| Objects, blueprints, bundles, codecs | `astral/` | what is sent: typed objects with binary, text and JSON forms |
| Channels | `astral/channel` | a stream of objects over a connection, with end markers, errors, switches and batches |
| Transport | `lib/ipc` | listening and dialling on sockets, pipes, memory |
| Sessions | `lib/apphost` | dial, greeting, token; route one query, cancel it when the context ends |
| Client and routers | `lib/astrald` | the default client; routers that retry, that wait for a gate, that monitor |
| Applications | `lib/apps` | listen for queries (Handler), bind to the node and stay bound (AppRegistrar), renew leases, serve |
| Routing | `lib/routing`, `lib/query` | choose an op by name, scope and priority; resolve a query once; parse arguments |
| Concurrency helpers | `sig/` | ring, pool, switch, retry, queue, set, map |
| Stream adapters | `streams/` | asynchronous, metered and cancelable readers and writers |
| API clients | `api/*` | tree values and paths, services, signers, objects, indexing, NAT, inference, messaging and many one-query calls |

Interactions that the models compose: Route, gate, registrar and hooks of one
application (`AppServe` on top of `Registrar`), queries that share one Retry
(`RetryRouter`), client methods over `channel.Switch` (`Methods` run by `Calls`),
carriers over both codecs over the scalars (`Carriers`, `CodecJSON`, `Codec`,
`Scalars`), and the ring seen as a log (`Ring` refines `BoundedLog`).

## 2. Modules

Names are those of the source where TLA+ allows it. A module has one action per
critical section or blocking point of the code; a goroutine's place is a variable
(`pc`, `state`, ...). Definitions named in "map" carry the lines they model.
Mutated forms of mapped definitions (listed under "mutants") stand right before what they mutate.

| Module | Models | State | Actions |
|---|---|---|---|
| `IncomingQuery` | `lib/routing/incoming_query.go`, `op.go` RouteQuery | the `resolved` flag, the one-slot `response` channel, the two pipe ends, a pc per goroutine | compare-and-swap, store, send, abandon, panic, the three ways out of `await` |
| `Handler` | `lib/apps/handler.go`, `pending_query.go`, `lockable_write_closer.go` | listener, `done`, per connection: stage, writer lock, bytes on the wire | accept, intake, Next, Route, answer, copy, Close, end of context |
| `Registrar` | `lib/apps/registrar.go` | stage of `run`, bind channel, attached handlers, `ready` channel, back-off | dial, attach, hooks, ready, Register, loss of session |
| `AppServe` | `lib/apps/serve.go`, `gate.go`, `blueprint_sync.go` | the Route loop of each handler and the ready channel it waits on (`held`: the present one, or a replaced one, closed or not), the query a hook issued | take a hook's query, release the gate, answer, replace the ready channel |
| `LeaseKeeper` | `lib/apps/registration_lease.go` | time, lease and expiry at the node, the lease as remembered, armed timer | Hook and renewal, each answered with any lease or none; fail, loop end |
| `RetryRouter` | `sig/retry.go`, `lib/astrald/retry_router.go`, `lib/apps/bind.go` | delay, count, `running`, the timer goroutine; a place per caller | Retry, tick, Reset; try, wait, give up |
| `ApphostRouter` | `lib/apphost/router.go`, `host.go` | the call, the connection, the host's view, the watcher and the AfterFunc | dial, greet, authenticate, send, answer, cancel |
| `AsyncWriter` | `streams/async_writer.go` | queued chunks, `used`, lock holder, flusher and sync callers; `ceiling`, the largest buffer size since the queue was last empty | Write, SetBufferSize, flusher steps, Sync, Close |
| `Dispenser` | `streams/dispenser.go` | `limit`, writers and flushers waiting | Write, Increase, SetUnlimited, Flush, Close |
| `ContextReader` | `streams/context_reader.go` | read in progress, leftover bytes, errors | Read, the reader goroutine, cancellation |
| `Ring`, `BoundedLog` | `sig/ring.go` | items, head, tail, size; the log is a sequence | Push, Pop, Peek, Clear; Clone is the refinement mapping |
| `Pool` | `sig/pool.go` | count and capacity of each item, callers | Add, Lock (one round of its loop), Unlock |
| `Switch` | `sig/switch.go` | tasks in the order of their starts, `cancel` | Run, Stop (Set calls one of them), a task's return |
| `TreeValue` | `api/tree/value.go` | the node's history, the cache, notifications, a follower | Bind, Set, Clear, notifications, Follow, another client |
| `TreeQuery` | `api/tree/node.go` Query, `client/node.go` Sub, `client/server.go` | the existing paths; per walker its path and the rest | Sub, Create, second Sub, Delete |
| `Discovery` | `api/services/client/watch.go`, `services.go` | messages of the node, event channel, watched set, signal | reader, watcher, caller, Close, end of context; the panic of a second Initial, after which nothing moves |
| `Provider` | `api/services/client/provider.go`, `advertise.go` | bindings at the node, `p.binding`, time | Serve attempts, grant, hang-up instead of an answer, store, Close, loss |
| `Dispatch` | `lib/routing/scope_router.go`, `op_router.go`, `sig.Map` as they use it | the routers made so far and their routes, `scopes`, a place per AddScopedOp, the query under way | AddScopedOp in its steps, Add, Remove, RouteQuery of both routers; HasRoute and Spec are operators |
| `PriorityRouter` | `lib/routing/priority_router.go`, `sig.Set` as it uses it | `entries`, callers of Add, the clone each query walks | append, sort, clone, one round of the loop |
| `Batch` | `astral/channel/batch.go`, `switch.go`, the receivers | frames and replies on their way, place of the server, what Switch returned, watcher, caller | receive, call a handler, mark EOS, finish, close; context, watcher; the caller sends, ends, leaves, collects |
| `Registry` | `astral/blueprints.go`, `blueprint.go` | entries of a registry and of its child, goroutines in RegisterBlueprint | Add, check the name, check the references, insert; AllBlueprints and its order are operators |
| `Signer` | `api/crypto/client/register_signer.go`, `astral/channel` Handle as it uses it | requests, contexts of the handlers, the channel | request, cancel, answer, finish, unwind, Close |
| `Transport` | `astral/channel`: senders and receivers of every format, Collect, Handle | the parts on the stream, how it ended, the receiver's latched error, what arrived, the watcher of Handle | Send or its refusal, close, cut, Receive in its outcomes, the loops, end of context, watcher |
| `Methods`, `Calls` | the methods of `api/*/client` that ask, list or stream (115, as records of their handlers, options and checks), `astral/channel/switch.go`, `sig.Send` | the call: objects heard, handler at work, watcher, consumer, result; the cache of `api/dir` | open, send, receive, hand over, give up, watcher, return; the node and the link |
| `Dialogues` | `api/inference` Complete, `api/indexing` Subscription, `api/nat` NodePunch and NodeConsumeHole | one conversation: script position, inbox, pending change, what was yielded or answered | yield, Next, Ack, Fail, the steps of a handshake, end of context, the other side |
| `FanOut` | `lib/apps/object_describer.go`, `object_finder.go`, `object_searcher.go` | a worker per provider, `found`, the relay, the op | start, receive, send, close, EOS, give up |
| `Queue` | `sig/queue.go` | the wait channel and value of each element; place of each subscriber | Push, Close, Subscribe and its loop |
| `Ipc` | `lib/ipc/ipc.go` Listen | the file at the path, the place of each process in `listenUnix` | bind, inspect, probe, remove, bind again, listen, Close, crash |
| `Scalars` | the scalar types of `astral/` | one value, its form, the document, the destination | marshal, cut or change, unmarshal |
| `Codec` | `astral/objectify.go`, the `*_value.go` of structs and containers, `runtime_object.go` and its containers, `bundle.go`, `depth.go`, `read_bounded.go`, Encode, Decode | an object, its wire, program and reader | encode, cut, follow or change, decode; the codecs are recursive operators |
| `CodecJSON` | the JSON side of the same files | an object, its document, the reader | marshal, rename, repeat, drop or nullify a key, unmarshal |
| `Carriers` | `runtime_object.go` Set, `normalize.go`, `runtime_slice.go`, `runtime_array.go`, `runtime_map.go` | one RuntimeObject | New, Set, Append, Set of an array and of a map |
| `Args` | `lib/query` (query, marshal, editor, field_editor, args_to_map), the binding in `lib/routing/op.go` | one query: the arguments given, the pairs, the fields bound | New, Parse, one pair, the check of what is required, call or refusal |

`*Proofs` modules hold theorems. `MCQuery`, `MCClients` and `MCCore` instantiate the
others for TLC. Each puts independent components side by side: `part` picks one in the
initial state and only that one moves, so the state count is the sum of the components',
not their product; the constant `Parts` names those a configuration explores.
`MCClients` also contains the real composition, `AppServe`.

**Data.** A payload is a model value or a chunk number; a name is a number or a model
value; an error is its class (rejected, unavailable, closed, other). Time is a counter in
`RetryRouter`, `LeaseKeeper` and `Provider` and otherwise a step that can always be
taken (a deadline may expire as soon as it is armed). In the codecs `Radix` = 16 stands for
the 256 values of a byte and `Word` = 3 for the 8 bytes of a 64-bit integer: prefixes, wrap-around
and refusals stay where the code has them. Documents are trees and texts are records naming
their notation, so that `encoding/json`, base64 and `net/url` are taken as they are documented.

**External parts.** The node, the network and user callbacks are nondeterministic: the node may answer, refuse, fall
silent or hang up wherever the code reads from it.

## 3. Runs

Each passing run checks one `...Correct` invariant per component (the conjunction of its type
invariant and the safety invariants named below, each commented where it is defined), action
and refinement properties by name, and liveness as one conjunction per group.

| Run | Checked | Shows |
|---|---|---|
| `query` | `QueryCorrect`: `ResolvedOnce`, `SendNeverBlocks`, `ResultIsTrue`, `RejectedIsLeftAlone`; `HandlerCorrect`: `AnswerFirst`, `ShutdownIsNotAnError`; `RoutersCorrect`: `DelayMatchesCount`, `OneClock`, `AttemptsBounded`, `NoSessionLeaks`, `AcceptedStaysOpen`, `UnavailableMeansUnsent`; `DispatchCorrect`: `MountedIsReached`, `RoutedIsAdded`, `ChecksAgree`; `PriorityCorrect`: `SortedWhenQuiet`, `LowestAnswers`; `QueriesEnd` | op, two spawned goroutines and the awaiting caller race: one resolution, no sender blocks, a success is an accept, a panic still answers. The answer precedes any byte of the target; a screened query is answered or closed whatever Close and the context do. Only an unsent query is reported as safe to retry. HasRoute, Spec and RouteQuery agree while ops and scopes come and go |
| `channels` | `TransportCorrect`, `BatchCorrect`, `CallCorrect`, `DialogueCorrect`, `FanOutCorrect`; `ChannelsEnd` | what arrives on a channel is what was sent, in order, up to the first object its format cannot carry; an EOS of a batch means one reply per input; an error object never becomes a success of any of 115 client methods, and a method that promises an answer has one; the stream rules of a completion, the cursor of a subscription and the order of a NAT handshake hold; the answer of an object service is complete unless its context ended; nobody waits on a channel whose context ended |
| `clients` | `RegistrarCorrect`: `ReadyMeansAttached`, `HooksBeforeReady`, `ReadyClosedOnce`, `RegisterIsKept`; `ServeCorrect`: `NoneStranded`; `LeaseCorrect`: `RoomForTwo`; `DiscoveryCorrect`: `InStep`, `ErrComesFirst`, `CloseMeansCanceled`; `ProviderCorrect`: `WithinDeadline`, `OpenIsKnown`; `SignerCorrect`: `CancelArrives`, `NoneOutlives`, `NothingLeaks`; `TreeCorrect`: `EveryChangeOnce`, `SetIsReadBack`, `FindsItsPath`, `CreatorsAgree`, `OnlyAskedFor`; `AppsProgress`, `ClientsProgress` | the gate opens over a bound session with all handlers attached, and no query is left at a gate that was replaced; two renewals can fail before a lease that was not shortened lapses; the watched set follows the node; no signing handler outlives its binding; the cached tree value ends up at the node's; walkers that create a path agree on it |
| `core` | streams: `WriterCorrect`, `DispenserCorrect`, `ReaderCorrect`, `StreamsProgress`; sig: `RingCorrect`, `ImplementsLog`, `PoolCorrect`, `SwitchCorrect`, `QueueCorrect`, `SigProgress`, deadlock; `IpcCorrect`; types: `RegistryCorrect`, `NameKeepsMeaning`; codecs: `ScalarCorrect`, `CodecCorrect`, `JSONCorrect`, `CarrierCorrect`; `ArgsCorrect` | no byte lost or reordered, no missed wake-up, Close and cancellation release everyone; the ring is a bounded log; a cyclic demand on pool items does not deadlock; crashes and restarts leave one server at a socket path; a registered type can be made, keeps its meaning and is listed after what it refers to; an object written by a program that has its type compiled in is read by one that has its blueprint as the same value, in both codecs; damaged input is refused or is the one encoding of what it decodes to; the op gets the arguments the caller passed |
| `apps_reconnect`, `retry_reset`, `switch_stop`, `tree_deep`, `batch_short`, `call_eof`, `canonical_end`, `ipc_race` | one property each, violated | see section 6 |

**Bounds.** Two of everything that can race (connections, callers, writers, servers, requests,
endpoints, providers, subscribers, processes) and three where a cycle or a third party matters:
three lockers over cyclic pairs (the smallest waiting cycle longer than two), `Op`, `Await` and
two helpers.

- `Capacity` = 3 lets the ring wrap with zero, one and two items.
- Retries go to the cap (delay 1, 2, 3 with factor 2, three attempts).
- `Buffers` = {2, 3} with writes of 0 to 2: a write that fits, that fills and that must wait, also after the size was lowered below what is queued.
- In `ContextReader` the number of reads exceeds the length of the source, so that its end is seen; the module assumes it.
- `Deep` = FALSE keeps the tree's paths below the length at which `FindsItsPath` fails; `tree_deep` is the same model with longer ones.
- `MCPrototypes` has a struct whose name sorts before the struct it refers to, `MCBlueprints` two shapes for each of two names that may refer to each other.
- `MaxInputs` = 2 and `MaxSent` = 2 let an object follow one that was answered, refused or undecodable; `MaxAnswers` = 3 lets an error follow an element and an end follow the error; `MaxHeard` = 4 with `IndexRange` = 3 lets a chunk index wrap.
- `Grants` = {0, 4, 6, 9} has a zero lease (the code then falls back on what it asked for), one below three times the renewal floor, and two that differ, so that a grant may grow or shrink; `MaxTime` = 13 is past the expiry of the longest. `MaxHooks` = 2 is a registration and one reconnect.
- `Strangers` = {v, nil, other}: another client sets the tree value to one of its type, clears it or stores another type.
- `NoLocal` = TRUE: without it a rejected Set is applied locally, a change the node never had, and `EveryChangeOnce` claims nothing.
- `MaxBinds` = 4 and `MaxCrashes` = 2: both processes crash and both come back.
- `MaxDepth` = 5, `MaxFrames` = 12, `MaxBytes` = 40 and `MaxNodes` = 4 are the codec's budgets scaled down; `MCSamples` holds values just below and just above the depth, frame and node budgets. `MCPrograms` are the programs: no type compiled in, one, some, almost all.
- `MCGoValues` and `MCGoKeys` have strings and bytes one longer than their prefix can say, as objects and as map keys.
- `MCStructs` has a field of every kind `lib/query` binds, pointers, renamed, skipped and required ones.

The theorems remove the bounds for the modules they are about.

`CHECK_DEADLOCK FALSE` is set where the system may stop (a query ends, a context ends, an
operation count is used up). `core` checks deadlock: of its parts the ring, the pool and the
switch must never stop, the others idle.

**Fairness.** Each module states its own as a formula, and the liveness properties of the MC
modules are implications from it (`part = "queue" /\ QueueFairness => QueueProgress`), so
that each part is checked under its own fairness and no other. It is weak fairness of goroutines
that can run (the Go scheduler is preemptive), and of timers that are armed. Strong fairness in
four modules: taking a `sync.Mutex` that others keep taking (`AsyncWriter`; a mutex in starvation
mode is handed over), a send among several blocked on one channel (`AppServe`, `FanOut`; Go
queues them), and the node not refusing the same step for ever (`Registrar`; without it no
reconnect could succeed). Nothing is assumed of the node, of users or of contexts otherwise: a
host need not answer, a stream may stay silent, a context need not end, a signing handler need
not return before its context ends. `Pool` assumes that a holder unlocks, `Queue` and `Calls`
that a consumer that has not left receives. `ApphostRouter` assumes that the host answers
a query it was told to cancel; `SessionProgress` depends on it.

## 4. Proofs

| Theorem | Statement | Assumptions | Argument |
|---|---|---|---|
| `IncomingQueryProofs!QueryIsCorrect` | `QuerySpec => []QueryCorrect` | actors are distinct | only the winner of the compare-and-swap sends, and only while the slot is free (`SendersWon`, `SlotFilledOnce`); what is on its way, in the slot or returned says what its sender did (`SuccessIsAccept`, `InternalIsUnanswered`) |
| `HandlerProofs!HandlerIsCorrect` | `Spec => []HandlerCorrect` | `None` is no connection | the writer's lock is held exactly while Route is on that query, and the wire is empty until then (`LockedWhileRouting`, `SilentUntilAnswered`); every closed listener has a reason (`ClosedForAReason`) |
| `PoolProofs!PoolIsCorrect` | `PoolSpec => []PoolCorrect` | callers are finite in number, a call names at least one item | a caller holds its want exactly between Lock and Unlock (`HoldersHoldTheirWant`), so counts are cardinalities of holders, and `WaitersLack` survives because every freeing step wakes all |
| `RingProofs!RingIsCorrect` | `RingSpec => []RingCorrect` | `Capacity` >= 1, `Zero` is no value | head = tail + size modulo capacity is inductive; offsets from the tail decide which slots hold contents |
| `RingProofs!RingImplementsLog` | `RingSpec => ImplementsLog` | the same | each method maps to the log's step under `log[k] = items[(tail + k - 1) % Capacity]` |
| `RegistryProofs!RegistryIsSound` | `RegistrySpec => []RegistrySound` | names are positive numbers, bodies well formed | entries are only added, so what a registration found between its check and its insertion is still there (`PendingResolve`); a new name is in nobody's references, so no cycle closes unless the child's name was taken above it meanwhile (`raced`) |
| `RegistryProofs!NamesKeepMeaning` | `RegistrySpec => NameKeepsMeaning` | the same | the insertion finds its level's entry empty under the map's lock; a lookup changes only where the parent had one, which is `raced` |
| `FanOutProofs!FanOutComplete` | `FanOutSpec => []FanOutCorrect` | there is a provider | while the context lives every item taken is delivered or in exactly one pair of hands (`Accounted`), and results closes only after found (`InOrder`), so an uncut EOS finds nothing on its way |
| `QueueProofs!QueueInOrder` | `QueueSpec => []QueueCorrect` | there is an entry | an element's channel is closed exactly when it was pushed or ended the list, so a woken subscriber is on a filled element and what it got is a segment of what was pushed |

The invariants are not inductive by themselves. For example `AnswerFirst` does not
say why a target's byte cannot overtake the answer: that needs the lock, and the lock
needs to be tied to Route's position.

Left to TLC: all liveness (the prover has neither fairness nor ENABLED), and everything
in modules without a proof module. Nothing is proved of recursive operators: the codecs are
checked against their properties on the samples of `MCCore`.

## 5. Mutants

Every property of a passing run is shown to be violated by one plausible change of a
mapped definition: a dropped guard, a missing Broadcast, a swapped order, an
unreset field.

## 6. Where code and documentation disagree

With a run that shows it:

- **`registrar.go:220`** (`apps_reconnect`) On a reconnect the hooks run before the new gate opens, and Route
  passes through that gate, so a hook whose query the node routes back waits for
  itself. `serve.go:53-55` promises that such queries work. On the first registration
  they do (`FirstHookAnswered`).
- **`sig/retry.go:120`** (`retry_reset`) Reset stops a running timer and leaves `running` set: no later
  Retry ever ticks.
- **`sig/switch.go:46`** (`switch_stop`) A second Stop before the task has returned calls a nil function.
- **`tree/client/node.go:134`** (`tree_deep`) Sub appends to one shared slice: below a node whose path has spare capacity, all children
  address the last one listed.
- **`channel/binary_receiver.go:56`** (`batch_short`) A payload that ends where a field should start is io.EOF, which Switch takes
  for the end of the stream: `Batch` closes without the report `batch.go:43-46` asks for. JSON input is not
  affected, text with a base64 payload is.
- **`dir/client/resolve_identity.go:33`** (`call_eof`) Methods that Expect an object or an Ack without `FailOnEOF`, which
  `switch.go:31` asks for, report success with no value when the node closes the query unanswered; this one caches it.
- **`astral/stamp.go:31`** (`canonical_end`) The end of a canonical stream is "invalid magic bytes", not io.EOF, so Collect and Handle
  end every such stream with an error (`channel.go:113-114`).
- **`ipc.go:134`** (`ipc_race`) Between the probe of a stale socket and its removal another process can bind the path: its live
  socket is removed, against `ipc.go:70-72`. `IpcCorrect` is what holds while calls of Listen do not overlap.

Stated in a module and known not to hold; no run is spent on them:

- `CodecJSON!CodecsAgree` (`codec_agreement_test.go:9-11`): of a document that leaves an array out, reflection and a carrier make objects with different bytes.
- `Codec!EncodedDecodes` (the comment of `Encode` in `object.go`): maps are written outside the ledger they are read under, so a
  deep enough map is written and not read back.
- `Carriers!NoForeignElement` (`runtime_slice.go:173-174`): the types known from blueprints share one Go type, so Append takes an object of another of them.
- `Dispatch!AddedIsReached`: see `scope_router.go:100` below.

Seen while modelling. The models contain these behaviours. Most checked properties hold in spite of
them; where one holds only outside of them, the entry says so:

- `incoming_query.go:158` an accept that wins while the deadline or context case is taken
  leaves the op with a connection whose caller was told otherwise.
- `registrar.go:264` a failed Register ends `run` for good, though `registrar.go:138` says the app stays bound
  until its context ends; `registrar.go:175` the gate then stays open over no session.
- `retry_router.go:52` callers share one channel and one tick: the one that gets it, or resets, can leave
  the others waiting until their contexts end.
- `dispenser.go:55` bytes an output took before it failed are not charged (`uncharged`).
- `value.go:53` a follower that joined before Bind misses the loaded value; `:130` Clear leaves
  the cache to the notification; `:106` Set with NoLocal and no node reports success and stores nothing;
  `:180` a late notification overwrites a newer value; `:196` an object of another type zeroes the cache without telling
  followers, so `FollowerCatchesUp` claims nothing while the node holds one.
- `provider.go:62` two Serve calls can store their bindings in the other order;
  `provider.go:52` one can retry against the binding of the other. `advertise.go:49` expects the Ack without `FailOnEOF`:
  when the node hangs up instead, a binding that is already dead is stored and Serve reports success. `OpenIsKnown` leaves out
  the bindings that were granted while two Serves overlapped (`contested`).
- `watch.go:91` a second Initial from the node (a second EOS) is sent on a closed channel: the watcher panics (`panicked`). `DiscoveryProgress` is about
  watches that did not.
- `scope_router.go:100` the result of Set is ignored: of two calls that make the router of one scope, one adds its op to a router
  that is not mounted and returns nil (`orphans`; `AddedIsReached` without them does not hold).
- `priority_router.go:60` a query between the append and the sort walks an unsorted list (`quiet` tells the others).
- `switch.go:78` the watcher may close the channel after Switch has returned; a frame cut off by a hang-up can read as a clean end.
- `blueprints.go:371` the parent-chain race the comment calls insignificant lets a child close a cycle of references (`raced`).
- `registration_lease.go:84` a shorter lease granted on a reconnect can lapse before the armed timer, and one below three times the
  floor before two renewals have failed. `RoomForTwo` excludes both: it speaks of leases at least as long as any the armed timers were computed from.
- `text_sender.go:24` "Send writes the object as one line": a line break in a text value makes two. The text receiver
  drops the count of the base64 decoder, so a padded Blob gains zero bytes. A Blob cannot be received over JSON or
  canonical; formats base64 and render can be sent and not received.
- Arguments: `editor.go:17` a narrow native int is truncated silently; `query.New` drops all arguments when one cannot be
  marshalled; a malformed query string is no arguments; `[]byte` in `query.Args` is written with %v; an empty value
  satisfies "required".
- NAT: after an EOF NodeConsumeHole returns nil without "taken", and NodePunch punches towards the zero endpoint.
- Client methods: streaming ones return a nil channel when the query fails; `channel.Chan` does not watch the context while it hands
  over an object; `ResolveEndpoints` never closes its channel; `objects.New` returns (nil, nil), `nat.Punch` a zero hole and
  `EntropyToMnemonic` dereferences nil on an EOF.
- Describe, find and search send EOS also when the context ended (`op.cut` in `FanOut`).
- `Zone.ReadFrom` and `ObjectID.ReadFrom` change their destination before they fail; the zero Time has no binary form;
  `Bundle.UnmarshalJSON` resets the index and not the objects, and a member whose object is null panics (`bundle.go:235`
  makes the object a nil interface; a refusal in the model).
- A compiled type without JSON methods of its own is read by plain `encoding/json`: of a repeated key the last one wins, where
  a carrier or a struct read by reflection refuses it (`JSONCorrect` allows for both).
- A String8 or Bytes8 object that is too long, and a string map key that is too long, are accepted by Set and refused only when written;
  `CarrierCorrect` says that such a value never gets onto the wire. A plain Go string is refused by Set.
- `blueprints.go:610` AllBlueprints reads the parent and the registry one after the other: a registration between the reads can
  list a child's blueprint without the parent's that it refers to. The order is checked on a registry at rest.

## 7. Not modelled

- Wire types: records without operations (most of `api/*`).
- Logging and text layout (`astral/log`, `astral/fmt`), developer tools and examples: nothing there is shared or awaited.
- Cryptography (`api/bip137sig`, key checks of an identity): arithmetic outside this method's reach; a key is valid or not.
- Pass-through readers and writers (`streams`, `api/objects` readers): one call of the wrapped value each.
- The reflection that finds op methods, configuration from the environment, `ipc.Dial` and address syntax.
- The node: tree server, mailboxes, the other side of NAT traversal. It is the nondeterministic peer of each model.
- The wire form of blueprints, and the escaping of query strings.
- Steps taken as one: the two reads of AllBlueprints (above); the unlink and the close of a socket by `CloseListener` in `Ipc`;
  a plain file put in place of the socket between Lstat and Remove is not among the file's changes.
- The code's own test for a blueprint that refers to itself: in `Registry` its name is not there yet when its references are
  checked, and it is refused as any unknown name is.
- `RegisterSigner`'s loop of attempts and the end of the context it is given: `Signer` starts with a binding the node has accepted.
- Composition of `RetryRouter`, `ApphostRouter` and `IncomingQuery` in one state space: each sees the next only
  through the outcome of one call, and that outcome is nondeterministic in the models.

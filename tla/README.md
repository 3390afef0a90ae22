# IronBabel in TLA+

A verification development of IronBabel, an HTTP gateway in Rust (Tokio, axum,
hyper) that forwards requests to HTTP, GraphQL, gRPC, ZeroMQ, MQTT, AMQP and
WebSocket upstreams, and receives from MQTT, AMQP and ZeroMQ in listeners of its
own. Paths below are relative to the directory that holds the repository, so the
crate's sources are `src/src/**`.

* `<Component>.tla` models one part of the program: constants, state, one action
  per operation, properties.
* `MC<Component>.tla` and `<Component>_<question>.cfg` are the instances TLC
  checks.
* `Gateway.tla` composes components; `SlidingWindow.tla` and `Duplex.tla` are abstract
  specifications; `GrpcFrames.tla`, `Config.tla` and `Percentiles.tla` are pure functions.
* `<Component>Proofs.tla` holds the theorems TLAPS proves about a component, for
  every value of its constants. PipelineProofs has those about GrpcFrames and Router too,
  ListenerProofs those about Publish, MetricsProofs those about Percentiles.
* `PROJECT.json` lists the parts, the runs, a mutation of the code for every
  property, the source lines of every definition, the hazards and the theorems.

```
tlc -workers 2 -config Gateway_drain.cfg MCGateway
tlapm LifecycleProofs.tla
```

## 1. Inventory

### Parts of the system

| Part | Source | State | Operations |
|---|---|---|---|
| Gateway lifecycle | `core/gateway.rs` 724-945, `core/shutdown.rs`, `main.rs` | the runtime handles behind one Tokio mutex; the latch `triggered` and its `Notify`; the tasks; the listening socket; open connections | `start`, `stop`, `Shutdown::trigger/reset/wait`, the loops of ticker and listeners, axum's graceful shutdown, the 30 s timeout of `main` |
| Rate limiter | `core/middleware/rate_limit.rs` | a map from client key to the timestamps granted, behind one mutex | `is_rate_limited`: age out, sweep a full map, insert, grant or refuse |
| Request pipeline | `core/gateway.rs` 60-718, `core/middleware/*`, `gateway/{http,graphql,grpc,zmq}.rs` | where each handler is, the status it has chosen | traversal guard, routing, upgrade, body limit, middleware chain, dispatch, record, finalize |
| Router | `core/router.rs`, `strip_prefix` in `core/gateway.rs` | the sorted route table, immutable | `new`, `route` |
| Metrics store | `admin/store.rs`, `admin/handlers.rs` | counters, maps and ring buffers, each with its own lock or atomic; a broadcast channel | `record_request`, `tick`, `count_in_window`, `recent_requests`, the SSE stream |
| Configuration store | `admin/config_store.rs`, `admin/handlers.rs` | `active` and `draft`, each behind its own lock | `save_draft`, `activate_draft`, `snapshot` |
| Listeners (AMQP consumer, MQTT subscriber, ZMQ PULL) | `gateway/amqp.rs` 101-271, `gateway/mqtt.rs` 107-209, `gateway/zmq.rs` 165-243 | the session, the delivery in hand | connect or bind, receive, POST, ack or nack (AMQP), reconnect, shut down |
| Publishing | `gateway/mqtt.rs` 25-95, `gateway/amqp.rs` 30-100 | one connection per publish | connect, (open a channel,) publish, await the confirmation, close, all under one timeout |
| WebSocket proxy | `gateway/ws.rs` | two pumps and the frames in their hands | connect with a timeout, pump both ways, forward close, `select!` |
| Protocol encoders | `protocols/*` | none | encode and decode, gRPC frames above all |
| Configuration | `config/*` | none | load: read the file, validate, override from the environment, validate again |

### How they interact

`main` loads the configuration, builds a `DefaultGateway` from it, calls `start()`, waits for Ctrl-C and calls
`stop()` under a timeout. `start()` spawns the axum server, the ticker that calls
`MetricsStore::tick` once a second, and one task per configured listener; all of
them watch the same `Shutdown`. Every connection of the server runs
`handle_request` in a task of its own: it asks the router, the middleware chain
(logging, authentication, rate limit: shared by all requests), one transport
helper, and ends by awaiting `MetricsStore::record_request`. Admin requests pass
through the same chain in `admin_middleware` and read the metrics store or use the
configuration store. The listeners use none of this: they POST to a webhook.

### What is hard

* **Interleaving.** `start` and `stop` take `&self`. `stop` releases the runtime
  lock before it awaits the tasks. A waiter has to register before it reads the
  latch. A request is recorded under
  eight locks and atomics, one after the other.
* **Cancellation.** hyper drops a handler whose client has left, at whatever
  `.await` it is in; `select!` drops the branch that lost.
* **Staleness.** A timestamp chooses its bucket three awaits later; a draft is
  validated under one lock and stored under another; two atomics that belong
  together are read one after the other.
* **Unreliable brokers.** Connections fail between an answer and its ack; the
  broker's redelivered flag means "was sent before", not "has failed before".
* **Timeouts.** Some cover a whole exchange with its closing handshake, some only
  a part of one.
* **Limits.** The rate limiter's map, the ring buffers, the broadcast channel, the
  request channel of an MQTT client, a connection whose peer does not read.
* **Draining.** A stop waits for every handler, and a handler for clients, peers and
  upstreams, with a timeout in some places and without in others.
* **Composition.** One limiter serves all requests and outlives the server it is in.

`PROJECT.json` lists these as hazards, each at its line, with the properties that
would show it going wrong.

### What makes each part correct

| Part | It is correct if |
|---|---|
| Lifecycle | no task misses the signal; no task is left without an owner; a stopped gateway accepts nothing and serves nothing but sessions upgraded before; `stop` returns |
| Rate limiter | it is a sliding window, whatever it has forgotten; it keeps only what can still matter, and no more for a client that is refused |
| Pipeline | whoever is answered is recorded once, truthfully; upstreams see admitted requests only, WebSocket backends answered upgrades only; refused requests cost the others nothing; nobody waits for ever; a gRPC answer is whole frames or an error |
| The gateway as a whole | a stop drains; limits hold across restarts; the handlers with the real limiter are what Pipeline says |
| Configuration | whatever is validated can be run on, as far as validation looks; nothing gets past the validation |
| Percentiles | the least latency that the given share of requests did not exceed |
| Router | the most specific covering route wins; stripping keeps segments whole |
| Metrics | the counters agree, the rate is exact, the live stream follows the log |
| Configuration store | only validated configurations become active; a snapshot is coherent |
| Listeners | an AMQP consumer loses nothing without a 2xx or a failed redelivery; the others lose only what a session took with it; retries are bounded; the queue drains |
| Publishing | success means that the broker has the message; every publish ends |
| WebSocket proxy | frames in order and whole; a close ends the session |

## 2. Modules and the code

### Lifecycle

An action is the code between two points where another thread can be observed.
`StartReset`, `StartBound` and `StartBindFailed` are `start()`: the runtime lock is
taken, `running` is tested and the signal reset, and the lock is still held while
the listener is bound and the tasks are spawned. `StopLatch` and `StopNotify` are the
critical section of `stop()`, split between the store of the flag and
`notify_waiters`, since a waiter may read the flag in between; `StopReturn` is
reached when all handles it took have been joined, `StopTimedOut` is the timeout in
`main.rs`, after which the runtime is dropped with everything in it.

A successful start begins a *generation*; a task is a generation and a kind
(`server`, `metrics`, or a listener). `WaitEnable`, `WaitCheck` and `WaitWake` are
`Shutdown::wait`: register with the `Notify`, read the flag, park, read it again.
`OtherBranch` is the other arm of a task's `select!`, which drops the future and
with it the registration. A listener whose configuration does not parse ends at
once (`ListenerConfigError`). `ServerDrained` is the end of axum's graceful
shutdown: the socket was closed by `Leave`, and no connection of that generation is
open any more. A connection that `ConnUpgrade` has turned into a WebSocket session is not
among those: `on_upgrade` (`gateway/ws.rs:35`) hands its socket to a task of its own, whose handle
nobody keeps and which does not watch the signal. It is `Detached` until `SessionEnds`, and
survives any number of stops.

The history variable `overlap` tells whether a `start()` has ever been under way together
with a `stop()`: what holds only of callers that avoid this is stated for behaviours
in which it is FALSE. `ShutdownTimeout` wraps `stop()` as `main.rs` does.

### SlidingWindow and RateLimit

`SlidingWindow` is the promise: over the full history of grants, a request is let
through exactly if its key has fewer than `Limit` grants at most `Window` old.
`RateLimit` is the code: timestamps leave a key's vector when that key asks, those
of all keys when a new key arrives and the map is full. `ImplementsSlidingWindow`
says that the second implements the first, with the history as the mapping. The
code compares with `duration_since(..) <= window`, so a timestamp exactly `Window`
old counts; the model keeps that boundary.

### Pipeline and GrpcFrames

Each action is the handler's code from one `.await` to the next; `Disconnect`
drops one handler at any of them, `Exit` all of them. A request is abstracted to its
client, where routing sends
it, its transport, whether its protocol's encoder accepts it, whether its body fits,
and whether its credentials are accepted. `RunChain` runs the middlewares in
the order `build_middleware_chain` adds them; the first that refuses ends the chain, so that
the limiter charges only what authentication has let pass. An admin request with a JSON body
reads it after the chain (`AdminBody`). Statuses are kept as numbers; an HTTP
upstream's own 401 and 500 are among its answers, so that a relayed status can be
mistaken for the gateway's own. When the handler has returned, its response is still to be written (`Respond`), which takes
as long as the client takes to read it, and for `/admin/events` for ever. A WebSocket route is answered
101 by `Route`, before body limit, authentication and limiter; after that response
`proxy_websocket` reaches the backend (`WsConnected`, `WsSessionEnds`; `WsProxy` has the session
itself). The rate limiter is reduced to the budget it leaves
each client, and recording to one step (`Metrics` takes it apart).

A gRPC upstream answers with a sequence of messages, framed, some of them
compressed, and perhaps cut off; `GrpcAnswer` decodes it with `decode_grpc_frames` of
`GrpcFrames`, byte by byte as `protocols/grpc.rs` does.

### Gateway

The composition: `L` is `RateLimit`, `P` is `Pipeline` with its budget replaced by what
the limiter's timestamps leave (`Budget`), and `phase` is the server task as `start()` and
`stop()` see it. A handler step is Pipeline's, `RunChain` excepted, which calls the
limiter itself. `Start` keeps the limiter, since `AppState` clones the `Arc` of the one
middleware chain. `ImplementsPipeline` is the refinement: a tick of the clock is a
`Refill`, a sweep on another client's behalf must be a stutter. In Lifecycle a
connection ends or is open-ended (`OpenEnded`); `StopDrains` says which are: those with a request
in one of the stages of `Unbounded`. Upgraded sessions are not in flight (`InFlight`).

### Metrics

`record_request` is one action per lock or atomic, in the code's order, with
`Cancel` at each await between them. `TickRead` and `TickPush` are `tick()`, which
reads the clock before it takes the lock. `ReadTotal` and `ReadErrors` are the two
loads of `admin_metrics`; `Subscribe` and `Deliver` the SSE stream over the broadcast
channel, where a receiver that has fallen behind resumes at the oldest entry still
held and the error that says so is filtered out. The history variable `late` tells
whether a second ended between a timestamp and its use.

### Config and ConfigStore

`Config` is the configuration as a record, `Validate` with the helpers of
`config/mod.rs`, `Override` (the environment), and, separately, what each consumer demands
of it, translated from the consumer: `normalize_ws_url`, `parse_broker_url`, `qos_from_u8`,
the scheme tests of the proxies, the limiter's assumptions (`Usable`). A URL is its
scheme and whether the client can parse the rest (`address`), a topic whether the MQTT client takes
it (`topic`); other strings are blank or not. `validate` looks at neither of the two, nor at
the enabled protocols. `Usable` exempts the first two by asking what the parts ask of
each route and listener with just these put right (`Righted`); the third is asked for by
`build_protocols`, in `create_gateway` (`Accepts`).

`ConfigStore` boots from any file under any environment and then runs the store. The
two halves of `activate_draft` and of `snapshot` are separate actions, because
`active` and `draft` are locked one after the other. What the store holds is stamped
with the number of the save it came from.

### Percentiles

`Percentile` is the nearest rank in integers; `IsPercentile` says what a percentile is
without sorting or ranks. The two are compared in an `ASSUME`, evaluated by the runs of
`MCMetrics`, over all sequences of up to four latencies and over lengths around 20 and
100, where the 95th and 99th percentile leave the maximum.

### Router

`RouterInit` chooses a configuration, a method and a path; `RouterRoute` is `Router::new` and
`Router::route`; `Forward` is the rewriting of a route with `strip_prefix`. Paths are
sequences of characters, since matching inside a segment is what can go wrong.
The properties compare with definitions that do not use the code's tests: covering
as directories do, and segments.

### Listener

The three listeners have one shape, and one model: an action each for queueing a
subscription (MQTT: one per topic, into a channel of `RequestCap`), connecting (or
binding), taking a message, the answer of the POST, settling it, noticing the end of
the session, and shutdown. They differ in `kind`, chosen once. Only an AMQP consumer
without `auto_ack` tells its broker what became of a message; with `auto_ack`, in the
clean session of `mqtt_options` and on a PULL socket the sender is rid of it when it is
sent. The broker is external: an AMQP broker pushes without a prefetch limit, and when
the connection goes it puts back, marked redelivered, all it had pushed and not seen
settled; an MQTT broker sends a message to nobody while the subscriber is away
(`Miss`). The listener goes on with what it has buffered until it notices.

### Publish

Both `publish()` functions, as stages of one async block under one timeout. The broker
is external: an MQTT broker drops an older connection with the same client id, an
AMQP broker returns an unroutable mandatory message and discards another.

### Duplex and WsProxy

`Duplex` is the promise: in each direction a channel that hands on data frames in order
and one by one, a close frame only after all of them, nothing after a close; the proxy
may cut a channel short but never leave a gap. In `WsProxy`
the peers send data, a close frame, or vanish; the pump of each side reads a frame
and writes it in the same poll if the connection takes it, and otherwise holds it.
`End` is the `select!`: the first pump that is done ends the session. `ImplementsDuplex`
maps what was written to a peer to what the peer has read followed by what is still in
its connection.

## 3. What is checked

Every property of a passing run has a mutant in `PROJECT.json`: an operator with a
plausible slip, placed in the module just before the definition it replaces and marked
"slip" in its comment, under which TLC finds that property violated.

| Run | Instance | Properties | States |
|---|---|---|---|
| `Lifecycle_restarts` | 2 callers in any interleaving, a listener with a bad configuration, 2 connections, each of which may be upgraded and one of which may stay open for ever, 2 starts, the timeout of `main` | `TypeOK`, `NoLostWakeup`, `AliveIsOwned`, `UnreachableWhenStopped`, `SignalHeldWhileJoining`, `OneGenerationAlive`, `StopReturns` | 164 thousand |
| `Lifecycle_restart_race` | the same without connections or timeout | `StopAlwaysReturns` is violated | |
| `RateLimit_window` | 3 clients, limit 2, window 2, threshold 1 | `VecsBounded`, `WindowBound`, `ImplementsSlidingWindow`, `GrowsOnlyWhenLive` | 169 thousand |
| `Pipeline_paths` | 2 requests, each any of 20 inputs of 2 clients, 6 gRPC answers, limit 1 | `TypeOK`, `RecordedOnceAsAnswered`, `UpstreamOnlyWhenAdmitted`, `OnlyAdmittedAreCharged`, `GrpcComplete`, `AnsweredOrGone` | 442 thousand |
| `Gateway_drain` | 2 requests of 6 kinds, 2 clients, limit 1, window 1, threshold 1, 3 instants | `WindowAcrossRestarts`, `ImplementsPipeline`, `StopDrains` | 413 thousand |
| `Metrics_store` | 2 requests, 3 seconds, all capacities 1 or 2 | `TypeOK`, `CountersNested`, `AtRestConsistent`, `EventsFaithful`, `WindowCountExact`, `SeriesChronological` | 3.3 million |
| `Metrics_error_rate` | 2 failing requests and a reader | `ErrorRateWithinOne` is violated | |
| `Listener_delivery` | 3 messages, all kinds of listener, 1 to 3 topics for a channel of 2, 2 lost connections | `TypeOK`, `NothingLost`, `UntriedOnlyWhenLost`, `AttemptsBounded`, `QueueDrains` | 410 thousand |
| `WsProxy_frames` | 2 frames each way, connections that hold 1 | `TypeOK`, `ImplementsDuplex`, `CloseEndsSession` | 20 thousand |
| `Publish_results` | 2 publishes, each on any of 7 routes | `OkMeansTaken`, `EveryPublishEnds` | 4 thousand |
| `ConfigStore_snapshot` | 59 files, 9 environments, 2 callers, 2 saves of 3 drafts | `ActiveIsUsable`, `SnapshotCoherent` | 217 thousand |
| `Router_choice` | all tables of up to 2 routes over 13 paths, 40 request paths | `MostSpecific`, `StripKeepsSegments` | 302 thousand |

### Bounds

* *Lifecycle*: two starts are needed for two generations to meet, two callers for
  calls to overlap, a connection that ends by itself and one that need not for the
  drain, and either of them for a session that outlives it. A third start adds nothing the second does not: all that a generation
  knows of the others is the flag, the port and the mutex. The safety properties are
  proved for all values anyway.
* *RateLimit*: the threshold 1 with 3 clients makes every second arrival a sweep, the
  clock runs through two windows and a half. Proved for all values.
* *Pipeline*: two requests suffice, since requests meet only in the limiter's
  budget, and the limit 1 makes them compete for it. The inputs contain one of every
  kind that takes its own path through the code; where transports share a path
  (`graphql` with `http`, `zmq_pub` with `zmq_push`, `mqtt` with `amqp`) one stands for both.
* *Gateway*: two requests of one client compete within the limit, one of another client
  sweeps the map; the clock runs past the end of a window, so that a restart can fall
  inside one and after one. The inputs have one of every way a handler can wait.
* *ConfigStore*: a configuration with every type of route and listener, each of its fields
  spoiled in turn, one at a time, since `validate` looks at each on its own. One caller
  saves and activates in the middle of the other's operation.
* *Metrics*: three seconds for a window of two and buckets for two, so that trimming,
  leaving the window and late records all happen; one latency and one pending event,
  so that the buffer overflows and the subscriber lags.
* *GrpcFrames*: two messages of one byte, cut off in a payload, in a header and between
  frames. Longer payloads repeat the same arithmetic; lengths stay below 2^32, since bodies
  are limited to 10 MB.
* *Listener*: two losses let a message be redelivered, be acked in vain, and be
  redelivered once more; with three messages one is in hand, one buffered and one
  still with the broker when that happens.
* *WsProxy*: a connection that holds one frame makes a pump wait at the second.
* *Router*: all route paths of up to three characters over `/`, `a`, `b`, and request paths
  of up to four, contain nested routes, half segments, and trailing and doubled
  slashes. Two routes suffice for an order between routes.

### Fairness

* *Lifecycle*: Tokio polls woken tasks (weak fairness of their steps) and its mutex is
  a FIFO queue (strong fairness of taking it). `select!` polls its branches in random
  order, so that `wait()` is not passed over for ever (strong fairness of
  `WaitEnable` for the tasks that have another branch). Of a connection in `OpenEnded` nothing
  is assumed. Such are those with an SSE stream, a body that does not come (`core/gateway.rs:173`, and the
  JSON bodies of the admin API), a ZMQ peer that takes no connection or message
  (`gateway/zmq.rs:61`), or a client that does not read its response: none of these has a
  timeout. The others end by the timers of their exchange. `StopReturns` says that a stop
  returns unless a connection of `OpenEnded` is served for ever; which requests those are
  is `StopDrains` of Gateway. Nothing is assumed of the end of a WebSocket session, and a stop does not
  need it.
* *Pipeline* and *Gateway*: the gateway's own steps, its timers, and the end of a server
  task that has nothing left to serve. Nothing of clients, peers or upstreams, and not
  `main`'s timeout, whose exit would end any drain.
* *Listener*: the listener's own steps, an end of each POST (reqwest's 30 seconds),
  the notice of a lost connection, and a broker that pushes what it has. Whether a
  POST succeeds is left open.
* *WsProxy*: `FairSpec` has the gateway's own steps; `ReadingSpec` adds that the peers read.
  `CloseEndsSession` needs that: see section 5.
* *Publish*: only the timer.

`CHECK_DEADLOCK FALSE` is set where the modelled system ends: all requests
answered, all publishes over, the session ended, the clock at its bound, the process
exited. The other runs look for deadlocks too.

## 4. What is proved

### LifecycleProofs

For any number of callers, listeners, connections and starts:

| Theorem | Property |
|---|---|
| `TypeCorrect` | `TypeOK`, with the mutex discipline |
| `WakeupNeverLost` | `NoLostWakeup` |
| `NoTaskLeaked` | `AliveIsOwned` |
| `StoppedIsUnreachable` | `UnreachableWhenStopped` |
| `DrainingOnlyShrinks` | `DrainingAcceptsNothing`, an action property not among the runs' |
| `SignalHeld` | `SignalHeldWhileJoining` |
| `GenerationsDisjoint` | `OneGenerationAlive` |

*Wakeups.* `NoLostWakeup` speaks of parked tasks only. It is inductive together with
`Registered`: whoever is past the registration is in the wait list or has been
notified. That is what the order "enable, then read the flag" gives, and
`StopNotify` needs it for the tasks it does not find in the list.

*Ownership.* `AliveIsOwned` needs `HandleScope`: a gateway that is not running keeps no
handles, the calls in their critical sections still find `running` as they read it,
and only a call that joins holds handles of its own, so that a `stop()` overwrites none.
`UnreachableWhenStopped` needs `Serving`: the port and each connection belong to a
generation whose server is alive. The lemma `LeaveOwner` isolates the one delicate
step, a server that closes its socket and keeps its connections; `Ownership` proves
the conjunction `OwnerInv`.

*Restarts.* What `SignalHeldWhileJoining` and `OneGenerationAlive` say of behaviours
without overlap needs `Latched` (the flag is set from the
latch to the end of the join) and `StartAlone` (while somebody is in `start()` nobody is
in `stop()`); all four, under `~overlap`, are `SerialInv`, lemma `Serial`. Once `overlap`
is TRUE it stays so, and the invariant has nothing more to show.

The only assumption is `LifecycleAssumption`, which says what the constants are.

### RateLimitProofs

For every set of clients, limit, window and threshold (`RateLimitAssumption`;
validation refuses a zero limit or window):

| Theorem | Property |
|---|---|
| `TypeCorrect` | `TypeOK`, no run |
| `VecsStayBounded` | `VecsBounded` |
| `WindowNeverExceeded` | `WindowBound` |
| `GrowthIsLive` | `GrowsOnlyWhenLive` |
| `Refinement` | `ImplementsSlidingWindow` |

The inductive invariant `Inv` says that the buckets hold only grants of their own key
(`Bucketed`), that no grant young enough to count is missing (`Retained`), and that no
grant lies in the future (`Dated`); sets are finite (`Finite`). From these, lemma
`FreshIsRecent`: what the code counts after all its pruning is exactly what the
sliding window counts. The refinement is immediate from it. For `WindowBound`, an
interval that contains a new grant ends no earlier than now, so that its earlier grants
are recent ones, of which there were fewer than `Limit`. `VecsBounded` is inductive with `Inv`: pruning
only shrinks a vector, and what is pushed is pushed onto fewer than `Limit`.

### PipelineProofs

*The handlers.* For any number of requests, finite or not, any clients and limit, and any answers of a
gRPC upstream (`PipelineAssumption`):

| Theorem | Property |
|---|---|
| `TypeCorrect` | `TypeOK`, with every budget in `0..Limit` |
| `MetricsTellTheTruth` | `RecordedOnceAsAnswered` |
| `UpstreamGuarded` | `UpstreamOnlyWhenAdmitted` |
| `ChargesAreEarned` | `OnlyAdmittedAreCharged` |
| `GrpcNothingLost` | `GrpcComplete` |
| `DecodesWholeFrames` | what `decode_grpc_frames` computes, no run of its own |

The properties speak of the end of a request or of what an upstream sees; a handler gets
there in up to nine steps among those of all the others. `Inv` adds what each stage knows:
which inputs the guards passed so far have ruled out (`Guarded`), whether the request has
been charged (`Charges`), whether it has been recorded and as what (`Recorded`), that 101
answers well-formed upgrades only (`Upgraded`, for the exception that `UpstreamOnlyWhenAdmitted` makes), and that
the budget spent by a client is no more than the number of its charged requests
(`Accounted`). `AnswerKeepsInv` and `GotoKeepsInv` are the two ways a handler moves on.

*gRPC frames.* `DecodesWholeFrames` is about messages of any number and length and a buffer cut off at
any byte: it is accepted only if it is a sequence of whole, uncompressed frames, and then
decodes to exactly their payloads. `Concat` and `decode_grpc_frames` are recursive functions.
That they are defined and what they compute is shown by induction over the length of
their argument, each time by looking at a least counterexample (`LeastElement`, from the
well-foundedness of `<`): `UptoDef` and `ConcatPrefix` unfold `Concat`, and a step of the decoder is compared
with the first frame. The one hypothesis on messages, in `Message`, is that
a length fits the `u32` of the header. `GrpcComplete` follows with `Arrived`: an answer
is there only once the status has been chosen.

*The router.* For tables of any size over any paths, and requests with any path
(`RouterAssumption`: route paths are sequences of characters that start with `/`, as `validate`
demands; the paths of requests are sequences of characters, and nothing more is asked of them):

| Theorem | Property |
|---|---|
| `LongestPrefixWins` | `MostSpecific` |
| `StripTakesWholeSegments` | `StripKeepsSegments` |

`Router` defines the sorted table by the place of each route, the number of routes not after it.
The first thing to show is that places are a permutation (`PlaceIsPermutation`, from which `SortedHolds`): routes in
order have growing places within the table, so no two share one and, the table being
finite, none is left empty. The second is that the three tests of `route`, equal length, a `/` after the
prefix, or a prefix that ends in `/`, say together the same as the property's
definition by directories (`MatchesIsCovers`). Then the least index among the matches is the longest route, and of
equals the first configured (`RouteChooses`). `RouterInv` carries this from the choice to the
forwarded request.

For the segments, `Segments` is a recursive function over the characters, unfolded by `SegsOf`
and `AddChar`. `SegmentsSplit` says that the segments of two paths put together are those of
one and then those of the other, where no segment runs across the seam: up to the seam by a least
counterexample, and beyond it by another, each character doing to both what it does to the second
(`AddCharRight`). `StripKeeps` applies it twice, at the end of the prefix and behind the `/` that
`strip_prefix` puts in front.

### GatewayProofs

Under `GatewayAssumption`, the assumptions of Pipeline and RateLimit:

| Theorem | Property |
|---|---|
| `WindowSurvivesRestarts` | `WindowAcrossRestarts` |
| `Refinement` | `ImplementsPipeline` |

`LimiterInv` is the invariant of RateLimitProofs over the shared limiter, together with
`Bounded`: no client has more live grants than `Limit`; only the chain and the clock touch it, so
a stop and a start leave it alone. For the refinement, `Budget` is what a client has
left, `Limit` less its live grants. `AllowSpends`, `RejectHasNone` and `TickRefills` say
what each step of the limiter does to it: one client's budget goes down by one and
no other changes, although the sweep rewrites the whole map; a refusal means that
nothing was left; and time only gives back. `ChainOutcome` and `ChainIsChain`
match the outcomes of the middleware chain; the steps of the server and its drain are
stutters of Pipeline, or the drop of a handler.

### ConfigStoreProofs

For any callers, files, drafts, environments and number of saves (`StoreAssumption`: files and
drafts have the shape serde gives a configuration, an environment sets each of the two
variables or not):

| Theorem | Property |
|---|---|
| `ValidIsUsable` | of `Validate` and `Usable`, no run |
| `TypeCorrect` | `TypeOK`, no run |
| `OnlyUsableIsActive` | `ActiveIsUsable` |
| `SnapshotsCohere` | `SnapshotCoherent` |

`ValidIsUsable` is the pure part: for every configuration, with any number of routes and
listeners, the tests of `validate` imply what the parts that are handed it ask of it
later, but for the rest of an address behind its scheme and the wildcards of a topic (`Righted`), and
without a word about the enabled protocols. That those are known is part of `Inv` for the
configuration being served, and not for the active one. `Inv` adds what is left of the locks between the two halves of an operation: a copy
that a caller holds was valid when it was copied and is no newer than the last save (`Copies`).

### ListenerProofs

For any messages, kinds, topic lists and number of lost connections (`ListenerAssumption`):

| Theorem | Property |
|---|---|
| `TypeCorrect` | `TypeOK` |
| `NoMessageLost` | `NothingLost` |
| `ReceivedIsTried` | `UntriedOnlyWhenLost` |
| `NoPoisonLoop` | `AttemptsBounded` |
| `OkIsEarned` | `OkMeansTaken` of Publish |
| `PublishTypeCorrect` | `PublishTypeOK` of Publish, no run |

The difficulty is that listener and broker disagree from the moment a connection goes until the
listener notices. `Inv` relates the two on both sides of it: a delivery in hand or
buffered is one the broker waits for, with the flag the broker has for it, or, on a lost
connection, one it has put back (`Awaited`, `Buffered`, `Handling`). `Posts` counts: the
broker's flag allows one more POST, and so does each lost connection. `Failed` says that while
no connection has been lost the flag does mean "has failed once", which is what the code
takes it for.

*Publishing.* For any publishes and routes (`PublishAssumption`: routes have the shape of
`RouteType`). `OkMeansTaken` looks at a publish that is over; what made it succeed lies several
steps back, with other publishes taking connections away in between. `Acknowledged` carries
it there: the closing handshake is reached only with an acknowledgement or where
none is waited for, and one is given only for a message that is taken, or unroutable and not
mandatory.

### MetricsProofs

For any set of requests, any capacities, and any window that the buckets can hold
(`MetricsAssumption`; the code keeps 60 buckets and looks back 5 seconds):

| Theorem | Property |
|---|---|
| `TypeCorrect` | `TypeOK`, with the capacities |
| `CountersAreNested` | `CountersNested` |
| `ViewsAgreeAtRest` | `AtRestConsistent` |
| `EventsAreFaithful` | `EventsFaithful` |
| `SeriesIsChronological` | `SeriesChronological` |
| `WindowCountIsExact` | `WindowCountExact` |

*Counters.* `Tally` gives each counter, and each length, the set of recordings it counts:
those past its own step, that failed or matched a route where that matters. The sets are nested as
the steps are ordered, which is `CountersNested`; at rest they are one set, which is
`AtRestConsistent`. `Branches` says who may be at a step that not all recordings take.

*Events.* What is sent is in the log before (`Held`), and a log that is not full holds all
that was ever logged; `Positions` is the arithmetic of the subscriber.

*Time series.* `Accurate` says, of the buckets, that their seconds increase up to
the clock, that each counts exactly the requests of its second, and that a request whose
bucket is gone is older than all of a full series. Opening a bucket (`Opened`) and adding to
one (`Added`) keep that, given that the timestamp used is the current second, which
is what `~late` buys (`Series`). For the rate, a full series spans at least `BucketCap`
seconds (`Spread`), so what was trimmed is out of the window, and the sum computed by
`count_in_window` is the cardinality of a disjoint union (`WindowSum`, by induction as in
PipelineProofs).

*Percentiles.* `NearestRankIsPercentile` is what `PercentilesCorrect` checks on short inputs, for any
number of latencies: from a sorted arrangement, `percentile()` takes the least one that p of 100 do
not exceed. `RankBounds` is the arithmetic (the rank is within the samples, so the clamping is never
needed); the rest is counting along the permutation, once for "enough are not above it" and once
for "too few are not above anything less".

The invariants `TallyInv`, `EventInv`, `Series` and the `Inv` of ListenerProofs are state predicates
of finite size, and hold in the instances of `Metrics_store` and `Listener_delivery`
under TLC too.

### WsProxyProofs

For any capacity of the connections and any number of frames (`ProxyAssumption`):

| Theorem | Property |
|---|---|
| `TypeCorrect` | `TypeOK`, with the capacities |
| `StreamInv` | the invariant `Inv`, no run of its own |
| `ProxyIsDuplex` | `ImplementsDuplex` |

A step of the proxy writes a frame that a peer sent long before, and the channel of `Duplex`
has to take it just then: as the next number, or as a close with nothing left before it. What
makes it so is that what a peer has read, what its connection holds, what the pump holds and what
the pump has yet to read are, in this order, one stream (`Stream`): data frames numbered without
a gap, then at most the sender's close, with an error where the connection broke. This is
`Direction`, kept as long as the pump can still write what it reads and its receiver is there.
After that it fails, since what remains in the inbox is dropped, and a pump may close on its
own account; then only `ClosedAtMostOnce` is left to know, that no frame follows a close.
`Queued` keeps errors out of the pump's hand. `Simulates` takes the actions one by one: those of
the peers and the writes are steps of `Duplex`, taking a frame from a connection
and reading without writing are stutters, and `Vanish` cuts a channel short.
`Inv` holds in the instance of `WsProxy_frames` under TLC too, for capacities 1 and 2.

### Only model-checked

Liveness (`StopReturns`, `AnsweredOrGone`, `StopDrains`, `QueueDrains`, `CloseEndsSession`,
`EveryPublishEnds`) is out of the proof system's reach, and stays with TLC. So does that
`GetPercentiles` hands `percentile()` a sorted arrangement: the library's `SortSeq` takes an
operator as its argument, and the provers cannot expand it.

Every invariant, action property and refinement that a passing run checks is proved.

## 5. Where the code and what is said of it differ

Two of these are runs of their own.

* **A restart that overlaps a stop** (`Lifecycle_restart_race`). `stop()` makes `running`
  FALSE and releases the lock before it joins anything; a `start()` then resets the
  signal. An old task that had not yet read it goes back to waiting and `stop()` awaits
  it for ever. `core/shutdown.rs:43` says that `wait` "Resolves as soon as the signal is
  (or already was) triggered."
* **An error rate above one** (`Metrics_error_rate`). `admin/handlers.rs:37` loads the
  totals one after the other; failures in between give a quotient above the documented
  "Range 0.0–1.0" (`docs/admin-dashboard.md:109`). The same line speaks of 5xx
  where the code counts every status from 400.

The others are described here, and the properties above are stated so that they allow
what the code does:

* `core/middleware/rate_limit.rs:8` calls MAX_TRACKED_CLIENTS a maximum; when all keys in the
  map are live, line 46 inserts one more. `GrowsOnlyWhenLive` is what does hold.
* `core/gateway.rs:834` counts ZMQ among the transports with a timeout, but
  `gateway/zmq.rs:61` awaits connect and send without one. `AnsweredOrGone` exempts them.
* `docs/configuration.md:118` promises 504 for an upstream timeout; the code answers 502.
  `docs/configuration.md:502` and `docs/security.md:134` describe a global timeout layer
  that `start()` does not install.
* A record that reaches its bucket after another second was opened appends a second
  bucket for its own (`admin/store.rs:115`), so that the series of
  `docs/admin-dashboard.md:115` may have two points for one second. `SeriesChronological`
  and `WindowCountExact` hold until that first happens.
* `docs/admin-dashboard.md:191` promises the log "newest first"; requests enter it in
  the order they reach its lock (`admin/store.rs:154`), which need not be that of
  their timestamps.
* `docs/admin-dashboard.md:107` counts all requests; those that the body limit layer
  refuses with 413 never reach the code that records.
* `gateway/amqp.rs:222` drops a message that "failed again after redelivery", and
  `docs/configuration.md:326` and `docs/protocols.md:486` say that failures are requeued;
  a message whose first delivery was only cut off by a lost connection is dropped at its
  first failure. `NothingLost` promises it two attempts only while connections hold.
* `docs/protocols.md:233` says that a close on one side closes the other; the
  writes of `gateway/ws.rs:93` and `:117` have no timeout, so that a peer that has
  stopped reading keeps the session open. A close frame that a pump holds when
  the other one ends is dropped by the `select!` at `gateway/ws.rs:135`, though line
  88 wants it forwarded.
* `gateway/mqtt.rs:68` says that a failure to close is not reported once the message is
  acknowledged; the timeout at line 90 covers the close as well, and reports it.
* `admin/config_store.rs:38` promotes "the current draft"; a draft saved between
  the copy and the store at line 47 is not the one promoted.
* `docs/security.md:167` and `docs/admin-dashboard.md:29` say that the admin API is outside
  the authentication middleware; `admin_middleware` runs the chain. `docs/security.md:177`
  describes a limit keyed by X-Forwarded-For; the code takes the socket's address.
* `docs/protocols.md:324` shows single-frame PUB messages; the code sends topic and payload.
* `config/mod.rs:38` says that `validate` "catches misconfiguration early — at startup — rather
  than surfacing confusing errors on the first request"; it accepts `mqtt://broker`, which
  `parse_broker_url` refuses for want of a port (`gateway/mqtt.rs:267`): each publish fails,
  a listener ends as it starts. The same goes for the rest of any other address behind its
  scheme, and for a wildcard in a publish topic (`validate_mqtt_topic`, line 544, only asks whether
  it is blank): each publish fails. `ActiveIsUsable` exempts these two, and only these, by
  `Righted`. An enabled protocol that `build_protocols` does not know passes `validate` too:
  `create_gateway` refuses to boot with it, but a draft that has it becomes active.
* With more than 100 topics an MQTT listener waits for itself: `subscribe()`
  (`gateway/mqtt.rs:162`) fills a channel of 100 that only the loop at line 174 empties.
  `QueueDrains` is stated for topic lists that fit.
* An activated draft is neither persisted nor served: `admin_routes` reports the routes of
  the active configuration with the statistics of those being served, and a restart
  of the process reads the file again.
* `docs/security.md:152` says that the `AuthMiddleware` "checks every request" and that one without a
  valid token "receives `401 Unauthorized` before reaching the upstream". WebSocket routes are
  answered before the middleware chain runs (`core/gateway.rs:136`): neither credentials nor
  the rate limit are looked at, and the backend is connected. `UpstreamOnlyWhenAdmitted`
  exempts them by name. They are recorded as 101 before the backend is connected.
* An upgraded WebSocket session is served by a task of its own (`gateway/ws.rs:35`), which neither
  axum's graceful shutdown nor `stop()` waits for: it goes on after the gateway is stopped, until
  a peer ends it or the process exits. `UnreachableWhenStopped` exempts such sessions, and no others.
* `docs/protocols.md:178` says that for a malformed gRPC answer "`decode` returns an empty byte
  slice rather than an error. The HTTP status code from the upstream is preserved." `decode` returns an
  error, and the client gets 502 (`core/gateway.rs:683`). `GrpcComplete` states what the
  code does. It cannot promise more for an answer that is cut off exactly between two
  frames: trailers are not read, so that this is a shorter answer like any other.
* `docs/protocols.md:349` says that the ZMQ PULL listener "forwards each frame in a separate spawned
  task"; `run_pull_session` awaits each POST before it receives the next frame
  (`gateway/zmq.rs:217`). `TypeOK` of Listener has one delivery in hand, as in the code.
* `docs/configuration.md:72` says that the router selects the longest matching prefix, "then checks whether the
  HTTP method is allowed"; `Router::route` tests both together, as its own comment says, so that a longer route
  that does not allow the method leaves the request to a shorter one. Line 89 asks
  for a prefix "followed by `/` or end-of-string"; a route that itself ends in `/` needs neither
  (`core/router.rs:47`). `MostSpecific` is stated for the code's reading of both.

## 6. Not modelled

* Header rewriting, trace context, hop-by-hop headers, and body contents other than gRPC
  frames: pure functions of one request that decide nothing; the pipeline sees whether
  an encoder accepts a request. The AMQP, MQTT, WebSocket and ZMQ encoders return their
  input after a test of its size, and no request passes through them.
* Strings inside a configuration beyond what `Config` keeps of them: scheme, blank or
  not, an address or a topic that its client takes or not.
* `compute_rps` divides the count that `WindowCountExact` is about by the time observed;
  this and the averages are floats, and left out.
* The dashboard page (static), logging, error types, and the load generator, which is a
  client of the gateway and no part of it.
* `protocols()` and the protocol registry: a list of names no request passes through.
* Inside Tokio, hyper, axum, reqwest and the broker clients: the models take them
  at their documented interface (`Notify`, mutex order, broadcast lag, dropped futures).

## 7. Plan

Done: Lifecycle, RateLimit, Pipeline, Metrics, Listener, WsProxy, Publish, ConfigStore,
Router; then the pure parts (GrpcFrames, Config, Percentiles), the abstract specification
Duplex, and the composition Gateway.

The model covers what the code has of state and control. Proved are all safety properties that
the passing runs check, and the refinements `ImplementsSlidingWindow`, `ImplementsPipeline` and
`ImplementsDuplex`. The liveness properties, which are left, are checked on the instances of
section 3.

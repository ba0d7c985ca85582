# A TLA+ verification of StreamFlix and GraphVault

The repository holds two small distributed systems written to be read and run:

* **streamflix-stack**, a simulated streaming operation: a Go gateway for device
  telemetry, a Go identity service, a Java alarm engine, three Python services
  (catalog, chaos agent, northbound interface), PostgreSQL, Redis and nginx;
* **graphvault-java-podman**, a federated GraphQL platform in Java: a gateway that
  fans a query out over three subgraphs, one of which calls a gRPC service.

This directory models the parts with concurrency, ordering, failure or time in
them, model-checks them with TLC and proves the central results with TLAPS.
`PROJECT.json` is the machine-readable index: components, runs, faults, the map
from definitions to source lines, findings, hazards and theorems.

## 1. Inventory

| component | state | operations | interacts with |
|---|---|---|---|
| device-gateway (Go) | events channel, worker pool, broker connections, HTTP server, shutdown phase | `simulateDevice`, `worker`, `publishToRedis`, `main`, closer goroutine | Redis (PUBLISH), status clients, signals |
| device registry (Go, inside the gateway) | map of `DeviceStatus` under an `RWMutex` | `Touch`, `Snapshot` | workers write, status requests read |
| core-engine (Java) | `ConcurrentHashMap` of live `Alarm` objects | `POST /events`, `GET /alarms` | catalog-api, chaos-agent, northbound |
| auth-service (Go) | user map under an `RWMutex`; tokens live with the clients | `/login`, `/me`, `/admin/users` GET and POST | clients, the clock, restarts |
| graphql-gateway (Java) | nothing between requests; one future per subgraph within one | `POST /graphql` | titles-, artwork-, availability-dgs |
| catalog-api (Python) | rows of `watch_history` | `/titles`, `/play/{id}` | PostgreSQL, core-engine (best effort, 2 s) |
| chaos-agent (Python) | none | `check`, `break` | catalog-api, core-engine |
| northbound (Python) | none | `/status`, `/metrics` | core-engine, PostgreSQL |
| artwork-dgs, asset-service (Java) | none | `artworkForTitle` over one unary gRPC call | graphql-gateway |
| titles-dgs, availability-dgs (Java) | tables seeded at start, only read | `titles`, `title`, `availabilityForTitle` | graphql-gateway |
| edge-lb, nginx-lb, web-ui, database, compose files, skeleton scripts, `docs/go more` | configuration, a page, schema, generators and copies | | |

What is hard about each, and what makes it correct:

* **device-gateway.** Devices, workers, the closer, the HTTP server and `main` meet
  in one channel and one shutdown. A `select` with two ready cases may go either
  way; a channel closed too early kills the process; a broken connection leaves a
  publish whose outcome is unknown; the signal may come before the server has bound
  its port. Correct means: no send on the closed channel, no event lost or
  duplicated between channel and outcome, one attempt per event, exact counts, no
  request cut off by a shutdown in time, and a cancelled process that ends. On the
  wire: a command framed by byte counts over a connection that splits and breaks it
  anywhere, with no deadline on either side, so a wrong count leaves both waiting.
* **device registry.** Writers and readers share entries field by field. Correct
  means that a report is the fleet at one moment, and that neither side starves.
* **core-engine.** Recorders of one key race; readers traverse weakly and serialise
  live objects; a restart loses all of it. Correct means one alarm in force per key,
  no lost update, and reports that show each key with a count it had meanwhile.
* **auth-service.** Decisions are made from a token that was issued earlier, in whole
  seconds, from an account that may have changed or gone since. Correct means a
  bounded window in which an old role passes, a store only admins can change, and
  tokens that die with the secret they were signed with.
* **graphql-gateway.** Any subset of the calls may fail, in any order. Correct means
  that every field of the query is answered with its own value or explained by an
  error, and that one subgraph costs no more than its own fields.
* **catalog-api, chaos-agent, northbound.** A playback is committed before its event
  is posted; the post may be lost, or be recorded after its timeout; alarms and plays
  are read at different moments; every service may die. Correct means alarms that
  stand for stored plays, each counted once at most, metrics that agree with each
  other, and playbacks that monitoring does not hold up.
* **artwork chain.** A blocking gRPC call whose deadline nobody sets, made once per
  field, to a service that may die between two of them.

## 2. Modules

| module | models | role |
|---|---|---|
| `EventPipeline` | what the device-gateway promises about an event | abstract specification |
| `DeviceGateway` | `device-gateway/cmd/gateway/main.go` | detailed specification, inductive invariant, refinement of `EventPipeline` |
| `DeviceGatewayProofs` | | TLAPS proofs about `DeviceGateway` |
| `RedisWire` | the same file, `publishToRedis` and `respArray`, to the byte | refines `EventPipeline` for one event |
| `RedisWireProofs` | | TLAPS proofs about `RedisWire`, refinement included |
| `RegistrySpec` | atomic `Touch` and `Snapshot` | abstract specification |
| `Registry` | the same file, lines 53-85, at the grain of reads and writes | refines `RegistrySpec` |
| `RegistryProofs` | | TLAPS proofs about `Registry`, refinement included |
| `AlarmSpec` | what core-engine promises its clients | abstract specification |
| `AlarmStore` | `core-engine/.../AlarmStore.java`, `EventResource`, `AlarmResource` | refines `AlarmSpec` |
| `AlarmStoreProofs` | | TLAPS proofs about `AlarmStore`: what clears an alarm, one alarm per key, no lost event |
| `AlarmRefinementProofs` | | TLAPS proof that `AlarmStore` implements `AlarmSpec` |
| `Playback` | `catalog-api`, `chaos-agent`, `northbound` | composition over `AlarmSpec` |
| `PlaybackProofs` | | TLAPS proofs about `Playback` |
| `GraphGateway` | `graphql-gateway`: controller, planner, client, merger | detailed specification |
| `ArtworkChain` | `artwork-dgs`, `asset-service` | composition with `GraphGateway` |
| `GraphGatewayProofs` | | TLAPS proofs about `GraphGateway` and `ArtworkChain` |
| `AuthService` | `auth-service`: `cmd/authsvc`, `internal/auth` | detailed specification |
| `AuthServiceProofs` | | TLAPS proofs about `AuthService` |
| `MC...` | | values for TLC: names, queries, symmetry |

A definition called `X_Something` just before a definition `X` is `X` with a plausible
bug in it; the comment above names the property that notices. No specification uses
them; `PROJECT.json` lists under "mutants" which run rejects which.

### DeviceGateway

One action is a stretch of code between two points where something else can get in
between: the two `select`s of `simulateDevice` (`TakeTick`, `SendEvent`, `DeviceStops`),
the worker's `range` (`Receive`, `RangeEnds`), `TouchRegistry`, the three stages of
`publishToRedis` (`Dial`, `WriteCommand`, `ReadReply`), the broker's side of a command
(`BrokerPublishes`, `BrokerFails`), the closer (`CloseEvents`), the listener
(`ListenAndServe`, `ListenFails`), handlers, the signal, and `main`'s steps.
`SendEvent` on a closed channel takes the process to "panicked": the model does not
assume what `NeverPanics` proves. The buffer is a sequence of at most `Capacity`
events. A ticker channel holds one tick and drops the rest, as Go's does; the count
of ticks is also the device's clock, so an event's timestamp is its number.

Abstractions. The telemetry value and kind are left out: nothing depends on them.
`json.Marshal` of such a struct cannot fail. A publication that happens after the
gateway has given the connection up is taken to have happened before that: its
subscribers and the log cannot tell. `Touch` is one step; `Registry` justifies that.

`EventPipeline` has none of this: an event is accepted, delivered, acknowledged or
failed, and a process that stops of its own accord has decided all it accepted.
The mapping gives the events their names and computes the phase from `proc`; the
other variables are the same.

### RedisWire

`DeviceGateway` takes the broker's half of a publish as one step. `RedisWire` is that
exchange alone, byte by byte: `respArray` builds the command from the UTF-8 encoding of
its parts, `Write` hands over all of it or, failing, a part; `Deliver` moves one byte
to a reader of RESP that follows the announced lengths; the reply comes back and
`ReadByte` gathers it up to the line feed; `Break` cuts the connection between any two
bytes. Whatever it returns, `publishToRedis` closes the connection. The refinement
mapping sees a pipeline of one event: accepted when the call begins, published when
the broker has read it all, acknowledged or failed when the call returns. Redis's
parser is modelled from the RESP protocol as the code relies on it; lengths are decimal
numerals of any number of digits. The one thing assumed of the encoding is that
different messages have different bytes (`WireAssumption`).

### Registry

`Touch` is `CallTouch`, `Announce` (inner mutex and announcement), `Enter`, `Find`,
`SetLastSeen`, `Increment`, `Unlock`; `Snapshot` is `CallSnapshot`, `RLock`, one `Copy`
per device in any order, `SnapshotReturns`. The lock is modelled as its callers can
observe it: a writer that has announced itself holds back new readers, and `Unlock`
admits the readers that wait. The refinement mapping takes a `Touch` to happen when
its worker enters: from then on, nobody can see the map before its writes are done.

### AlarmStore

The heap of `Alarm` objects is kept apart from the map, because the objects outlive
their place in it: a report that is being serialised reads the live object.
`compute` is `EnterCompute`, then the branch the code takes, with `occurrenceCount++`
as a read and a write. A name is a sequence of ":"-free segments, so joining two
names with ":" is concatenation and two pairs of names may give one key, as in the
code. The lock is per key; the real one is per bin and only excludes more. A posted
event without "uei" makes the function throw before any change and is no step.
`Restart` empties everything: the store is in memory only.

`AlarmSpec` is what a client may rely on: `Record` and `Clear` change one key's count at
once, and between `Ask` and `Answer` a listing may pick, key by key, any count the
key had. Under the mapping a key's count is that of the alarm in force under it, and
what a key had since a reader began is recovered from the heap: counts of one object
only grow by one, later objects begin at 1, and a cleared one has passed through 0.

### Playback

`play_title` is `Request`, `Select`, `Insert`, `Commit`, `Post`, `PostReturns`;
`DatabaseFails` is any exception of psycopg2, which leaves open whether the commit it
hit took place; `CatalogDies` ends every request in progress. A post is under way until
core-engine records it (`EngineRecords`) or it is lost, whether or not the client still
waits: `PostReturns` may come first, which is the two-second timeout. `RunChaosCheck`
may report a healthy catalog-api as failed (its check may time out) and may report
what is no longer true; `SimulateOutage` sends a `pkill` nobody waits for, so
`CatalogStops` may come after the report, or never.
`/metrics` is `GetAlarms`, `AlarmsArrive`, `CountPlays`, or fails on the way. core-engine is
`AlarmSpec` with the users' streams and the chaos stream as its keys. A play's key holds
no other event, since catalog-api posts only "started" and the names contain no ":".

### GraphGateway

One request, since requests share nothing. `Handle`, the planner's loop round by
round (`GroupSelection`, `PlanFails`, `PlanReady`), `Submit` for each group, then on
each virtual thread `Send` and `Complete`, and on the request's thread `Join` and
`Merge`. A subgraph may answer all fields, some of them null with errors, errors
without data, null data, an empty body, or nothing usable. The value of a field is
its name, which is enough to see whether an answer belongs to the question.
Arguments and nested selections travel with their field. Variables, operation names
and operation types are not modelled: the planner keeps none of them. A group in
which one key stands for two fields does not validate in a subgraph (`Valid`).

### ArtworkChain

`GraphGateway` lets every subgraph answer anything. `ArtworkChain` extends it and opens
artwork-dgs up: for each field of its group a blocking call (`CallAsset`), answered by
asset-service with one message and the end of the call (`OnNext`, `OnCompleted`), which
alone makes the stub return (`FetcherReturns`). A connection that breaks, alone or with
the process, makes the stub throw, the field null and an error. The answer to the
gateway is then a reply of `GraphGateway` that fits what was fetched, or no usable one.

### AuthService

A handler is two steps with other requests, the clock and a restart possible in
between: lookup and issue, or authorisation and effect. The clock ticks `Resolution`
times a second while claims hold whole seconds, so both roundings are there. A token
is its claims and the secret it was signed with; one that is missing or malformed is
`NoToken`, and so is whatever follows a header without "Bearer ". `Restart` brings the
seeded store back and may change the secret. `MethodNotAllowed` and `BadBody` are the
ways a request ends before or beside its handler's effect. SHA-256 and HMAC are taken
to be injective, and the clock not to run backwards.
`issuedAt`, `heldAt` and `hadAt` are histories that only properties read: when a token
was made, when an id last had a role that some token names, and what that moment was
for the token of a request when it was checked.

## 3. What TLC checks

| run | bounds | what it shows |
|---|---|---|
| `gateway_safety` | 2 devices, 2 workers, buffer 2, 2 ticks each, 1 request | safety, the inductive invariant of the proofs, refinement of `EventPipeline` |
| `gateway_live` | 1 device, 1 worker, buffer 1, 3 ticks, 1 request | a blocked device gets on, a cancelled process ends, every accepted event is decided |
| `gateway_no_reply` | 1 device, 1 worker, no broker fairness | **violated**: the cancelled process never ends |
| `wire` | texts of up to 3 characters with line ends, RESP's signs and a 2-byte character, one of 21 bytes | the subscribers get the text exactly, nobody waits for bytes that do not come, refinement of `EventPipeline` |
| `registry` | 2 workers, 2 requests, 2 devices, 1 time, counter mod 2 | refinement of `RegistrySpec`, no starvation on either side |
| `alarms_shared` | 2 recorders, 1 reader, 4 events, colliding names, restarts | one alarm per key, no lost update, what clears an alarm, cleared is final, refinement of `AlarmSpec` |
| `alarms_recovery` | 2 events, names without ":" | **violated**: a recovery leaves the alarm in force |
| `playback` | 2 plays over 2 streams, an unknown title and an unknown user, 1 chaos run, 1 metrics client | alarms count stored plays once, metrics agree, playbacks are answered |
| `graph` | every query of up to 2 fields over the configured owners, an owner without URL and a fragment; of 3, those that return to a subgraph or use each | plan, answers and explanations, partial failure of subgraphs and of asset-service; calls overlap; if the callees work, the request is answered |
| `graph_aliases` | two fields under one alias | **violated**: one result hides the other |
| `graph_null_data` | replies with null data | **violated**: the whole answer is lost |
| `auth` | 2 requests, 2 tokens, 2 addresses, 4 half-second ticks, lifetime 1 s, 2 secrets, 1 password; admin and omitted roles | the window of a token and of a role; only admins change the store |

Why the bounds are enough to be worth something. Every hazard of section 6 is a
matter of two: two workers with one device's events, two recorders of one key, a
reader beside a writer, two requests beside a clock. A buffer of two with four
events is full, half full and empty, with devices blocked and workers idle. Four
events are failure, repetition, recovery and a new failure of one key. Three fields
let a subgraph come up again after another one, and let three calls fail in every
combination. A lifetime of two ticks with a clock of four reaches both ends of the
expiry window for tokens issued on and off the second. The two addresses of the
`auth` run are the seeded one, which a request may replace, and another; the seed has an
id of its own, so there are three identities, and with two tokens the seed may make an
admin who logs in and changes the store in turn. Roles unknown to the table are left to
the theorem, which holds for any. In `registry`, two requests overlap under the read lock
while a worker waits; one time stamp beside the zero of a new entry is enough to see a
half-made entry, and the counter tells a later `Touch` from an earlier. Two plays are enough for a
lost event beside a recorded one, or for two plays of one stream; the chaos run can
take catalog-api down between the steps of either. The texts of `wire` hold every sign
that could be taken for framing, in positions where a miscount would shift onto it; the
long one has a length of two digits.

Liveness is the expensive part: `gateway_live` has one device and one worker, the
smallest gateway in which a device can be stuck (one event with the worker, one in
the buffer, one in the device's hands). What several devices and workers do to each
other on the way is the matter of `gateway_safety` and of the proofs.

Bounds are named in the modules: `MaxTicks`, `MaxEvents`, `MaxTime`, `MaxTokens`,
`Capacity` and `Modulus` (the two code values made small). Symmetry is used only in
runs without liveness properties, for values nothing tells apart.

Deadlock is checked everywhere: `DeviceGateway` and `RedisWire` have an explicit
stuttering step for a process or a call that has ended, and the other systems can
always take another step.

### Fairness

* `DeviceGateway!SchedulerFairness`: a goroutine that stays runnable runs (weak
  fairness of each). `SendEvent` has strong fairness: the Go runtime serves senders
  blocked on a channel in order of arrival, so a sender that finds room again and
  again gets it. Nothing is assumed of tickers, signals, requests or the listener.
* `BrokerFairness`: the broker answers, or the connection breaks. The code does not
  enforce it, there is no read deadline; `gateway_no_reply` shows what is lost
  without it.
* `Registry!FairSpec`: weak fairness of each goroutine inside a call, and strong
  fairness of taking the inner mutex, which `sync.Mutex` provides by handing itself
  over to a goroutine that has waited for a millisecond. That readers do not starve
  comes out of `Admitted`, not out of fairness.
* `RedisWire!Spec`: the worker runs, and TCP delivers what it does not lose. The broker
  answers a command it has read, no more.
* `Playback!Spec`: the threads of catalog-api run and the database answers or fails;
  nothing is assumed of core-engine, chaos-agent or northbound.
* `ArtworkChain!ChainSpec`: the gateway's own threads run. That those it calls do their
  work is a premise of `RequestAnswered` (`CalleesWork`) and not part of the
  specification: no timeout in the code provides it, and a subgraph that hangs holds
  its request for ever. `CallsOverlap` needs no such premise, and neither needs
  asset-service to stay up or connections to last.
* `AuthService` and `AlarmStore` have safety properties only.

## 4. What is proved

Every invariant and every action property that a passing run checks, and every
refinement, is a theorem of its specification for all values of the constants. The
argument is always the same: an inductive invariant, a lemma that each step keeps it
(one step per action, and under it one per conjunct the action disturbs), and the
property as a consequence. What follows says which invariant and why it is needed.

### DeviceGatewayProofs

Assumptions: finitely many devices, a buffer of at least one; any number of workers.

* `Invariance`: `Spec => []GatewayInv`. None of the safety properties is inductive by
  itself. `NeverPanics` needs `ShutdownOrder` (a closed channel means stopped
  devices); `ShutdownFinishesRequests` needs `ListenerClosed` (no request can start
  once main shuts down); `EventsConserved` needs `TimesAdvance` (what a device is about to
  send is newer than all it has sent, so nothing it sends is there already) and
  `WorkerControl` (a worker holds an event exactly while it handles one);
  `TriedOnce` needs `PublishedOnce`, which follows an event from the queue through
  the connection to the broker. `GatewayInv` is their conjunction, and TLC checks it
  in `gateway_safety`.
* `TypeCorrect`, `PanicFree`, `Conservation`, `AtMostOneAttempt`, `GracefulRequests`
  follow from it.
* `CountsAreExact`: the count of a device is the cardinality of its events that went
  through `Touch`; one further induction over finite sets on top of `GatewayInv`.
* `EventsInOrder` (`ReportsInOrder`). A queue in order stays in order only if nothing
  older can still be appended: `OrderInv` adds that what a worker holds is older than
  what still waits of its device, and that `LastSeen` is a moment the device reported.
* `OneWorkerInOrder`: with one worker (`NUM_WORKERS=1`) `LastSeen` never goes back. The
  further invariant is that the event in the worker's hands is newer than what the
  registry holds. With two workers it is false, and section 5 says so.
* `Refinement`: with at least one worker, the gateway implements `EventPipeline`.
  Without workers a stopped process may leave events in the channel, which is why
  the assumption is there; `GatewayInv` holds for the empty pool all the same.
* `NothingLeftUndecided`: a process that returns from `main` has decided all it accepted.
  This one is proved of `EventPipeline` and carried down by `Refinement`.

### RedisWireProofs

Assumption: `WireAssumption`. Texts, encoding and lengths are arbitrary.

The proof is that writer and reader agree byte by byte. `Expects(p, r, m)` says that a
reader in state `p` needs exactly the bytes `r` to have read the command for `m`: in
front of the strings, in the length or the text of the i-th, or at the end.
`ReaderStep` shows that taking the first byte of `r` leads to a reader that needs the
rest. It rests on two lemmas about data: `CommandIs`, that what `respArray` joins is
that sequence of bytes, and `NumberRead`, that a numeral, read digit by digit, is the
number it was written for. `WireInv` then says that the bytes on the wire, followed by
some more (not written yet, or lost), are what the reader needs; that nothing is
published or answered before the command is complete; and that an answer that begins
with ":" comes after a publication.

* `WireTypes`: the reader finds no byte it cannot place.
* `PublishedAsPassed`: the subscribers get the text exactly, once at most.
* `WireIsPipeline`: the exchange implements `EventPipeline` for one event; that a success
  is returned only for what was published is the third part of `WireInv`.

### RegistryProofs

`RegistryTypes` is more than ranges: the map's `LastSeen` may be the zero of an entry just
made, copies and reports never are. `RegistryInv` is the type invariant with `MutexInv` (one worker past the announcement,
no reader beside a worker inside), `TouchInv` (how far the worker inside is with its
entry) and `CopyInv` (what a request has copied is still what the map has).
`RegistryIsAtomic`: `Touch`'s separate writes and `Snapshot`'s copies implement one atomic
`Touch` and one atomic `Snapshot`. `CopyInv` is what makes the last copy the moment of
the snapshot.

### AlarmStoreProofs and AlarmRefinementProofs

Assumptions: names are sequences of segments, event names not empty; nothing is assumed
about how many threads, names or events there are, nor that keys are distinct. Counts
are natural numbers, as if fewer than 2^31 events had one key.

* `OnlyCollisionsClear` (`ClearedByCollision`): for any names, the step that takes an alarm
  out of force is, but for a restart, a recovery of another name that happens to make
  the same key. The invariant (`ClearInv`) says that
  the alarm a recorder has been given was filed under the key of its event, that an
  alarm's key begins with its event name, and that this name does not end in
  "Recovered".
* `NothingIsCleared`: if no event name contains ":", no alarm is ever cleared. The first
  segment of a key is then the event name, so a recovery never meets an alarm.
* `AlarmStoreTypes`, `OneAlarmPerKey`, `NoEventIsLost`, `ClearedStaysCleared` from
  `ServiceInv`. A lock that is held excludes nothing by itself: `LockInv` says that a
  thread inside compute holds its key and knows the alarm filed under it, `NewestInv` that
  the alarm in force under a key is the newest, `CountInv` how count, message and the
  events handled differ while a thread is between two writes, `TallyInv` that counts and
  events under way do not exceed what was posted, and `ReadInv` what a reader that is
  traversing or serialising can have seen so far.
* `AlarmStoreImplementsService`: `AlarmStore` implements `AlarmSpec`. Under the mapping a
  listing's choice of counts is computed from what the alarms hold now (`CountsSince`),
  so the work is to show that each write adds the new count to it and takes nothing
  away, for every reader at once.

All hold across restarts.

### PlaybackProofs

Assumption (`PlaybackAssumption`): finitely many plays; plays and agents are different
things; requests are pairs; "started" and "failed" events make different keys, since
their event names differ. Counts are natural numbers: the result is about fewer than
2^31 events of one key, `occurrenceCount` being a Java `int`.

* `NoPlayCountsTwice` (`CountsBacked`). That counted events have rows is not inductive: a
  post may be recorded after its timeout. `BackingInv` reckons with the events to come:
  what an alarm has counted, plus what is under way or about to be posted, is at most
  the rows of its stream. `PathInv` says which plays those are.
* `MetricsAreConsistent` (`MetricsConsistent`). Alarms are read before plays are counted;
  `SeenInv` says that whatever core-engine may still answer has a row by now.
* `PlaybackTypes`.

### GraphGatewayProofs

Assumptions: routing goes from known fields to known subgraphs, and a null is no field
and no map. Queries have any length.

* `PlanIsGroupByOwner` (`PlanMatchesQuery`): the one-pass loop ends with one group per
  owner, in order of first use, with its selections in query order, and a call is made
  only if every field has an owner and every owner a URL. `Grouped` states the grouping
  of every prefix of the query.
* `NoFieldInSilence` (`AnsweredOrExplained`) and `SurvivorsArrive` (`SurvivorsReported`) from
  `RequestInv`: `PhaseInv` (how many futures exist and are joined), `ReplyInv` (a result
  is one the subgraph may give to its group) and `AnswerInv` (the answer is the union of
  the results). Their premises are the invariants': `KeysAgree`, which GraphQL's own
  validation of a query demands, and, for the second, that no reply has null data.
  `graph_aliases` and `graph_null_data` show what happens without each.
* `GatewayTypes`; `ChainTypes` with `FetchInv` (fetches belong to a group that was sent).
* `ChainImplementsGateway`: `ArtworkChain` implements `GraphGateway`, so what is proved of
  a gateway before arbitrary subgraphs holds with artwork-dgs and asset-service behind it.

### AuthServiceProofs

Assumptions: a lifetime and a clock resolution of at least one; the seed is an account.

* `TokenLifetime` (`ExpiryWindow`), `RevokedRolesExpire` (`RevocationTakesEffect`),
  `OnlyAdminsChangeTheStore` (`AdminsOnly`), `AuthTypes` from `AuthInv`: `HeldInv` (a role in
  the store, or in a login's hands, is held now), `TokenInv` (a token's role was held when
  it was made, and its claims are that moment in whole seconds), `CheckedInv` (what
  authorisation saw is still true of the token when the handler acts) and `HadInv` (the
  role a request passed with was held no earlier than its token was made). The window of
  a second comes out of the arithmetic of rounding down twice.
* `OnlyAdminsChangeTheStore` speaks of the one request whose step changes the store: its
  own token says "admin" of an id that had been an admin less than the time to live and
  a second before the token was checked. Its roles are arbitrary, known or not.

### Only model-checked

Liveness, which is out of the prover's reach under fairness: `CancelStops`,
`AcceptedIsDecided`, `NoDeviceStuck`, `NobodyWaitsForEver`, `TouchReturns`, `StatusAnswered`,
`CallsOverlap`, `RequestAnswered`, `PlaybackAnswered`. And the four properties that are
violated, which TLC refutes by an example.

The library's theorems of induction take an operator as a parameter, which the provers
cannot instantiate. Where a proof needs induction over a number (`JoiningExists`,
`FlattenType`, `NumberRead`) it takes the least counterexample instead, from the
well-foundedness of `<` on the naturals.

## 5. Where the code and its documents disagree

1. A broker that never replies keeps a cancelled gateway alive (`main.go:164`),
   against "enough to cleanly stop twelve device goroutines, drain the channel
   through four workers, and shut down the HTTP server" in `docs/go.md`.
2. A recovery event does not clear the alarm it is about (`AlarmStore.java:14`).
3. Two fields of two subgraphs under one alias: one value silently stands in for the
   other (`ResponseMerger.java:27`).
4. A subgraph whose data is null takes the other subgraphs' answers with it
   (`SubgraphClient.java:45`).

Each is a run of its own, with the sentence it refutes quoted in `PROJECT.json`.

Three more things a reader should know. A role change is not visible on the next
request but when the old token expires (`middleware.go:41`): `RevocationTakesEffect`
says when. `docs/go more/ADR-0001-identity-data-store.md:47-48` asks for the next request,
of the store it is about to choose. With several
workers, `LastSeen` can go back in time (`main.go:73`): two workers may record two
events of one device in either order. `ReportsInOrder` says what holds instead, and
`OneWorkerInOrder` that a single worker never does. And
a subgraph that hangs holds its request for ever (`GatewayController.java:68`).

## 6. Hazards

`PROJECT.json` lists them at their lines with the properties that watch them. Two
have no property: an alarm map that only grows, and numbers of the environment at
their edge (no worker, no device, no interval). The reasons are there.

## 7. Not modelled

* titles-dgs and availability-dgs only read tables that were filled at the start.
* nginx configurations, the web page, the database schema, compose files: no code of
  the project's own with state. The skeleton scripts and `docs/go more` are
  generators and copies of what is modelled.
* In modelled components: wording, logging, health checks, reads that change nothing
  and answer at once (`/titles`, `/status`), the text of tokens and of the alarms' JSON.
* A subgraph's reply with an explicit `"errors": null`: `getOrDefault` keeps the null
  (`SubgraphClient.java:46`), `addAll(null)` throws (`ResponseMerger.java:28`) and the client
  gets a 500. GraphQL forbids such a reply, and no subgraph here sends one.
* The time a post of catalog-api takes in all: the timeout of `requests` is for connecting
  and for each read, so a core-engine that sent its answer byte by byte could stretch it.
* The gateway's settings at their edge (see the hazards): they are read once, at the
  start, and no document says what they should do there.

## 8. Plan

Done, most important behaviour first: `EventPipeline`, `DeviceGateway` and its proofs;
`AlarmStore` and its first proofs; `RegistrySpec` and `Registry`; `GraphGateway`;
`AuthService`; then restarts and `AlarmSpec` under `AlarmStore`, `RedisWire`, `Playback`,
`ArtworkChain`, and secrets, methods and malformed requests in `AuthService`; then the
proofs of every invariant, action property and refinement of the passing runs.

Left:

1. What `AlarmSpec` promises over several listings, proved there and carried down to
   `AlarmStore` by its refinement, as `NothingLeftUndecided` is for the gateway.
2. Shorter proofs where one long leaf stands for several ideas (`AlarmStoreProofs`,
   `ReadInv`).

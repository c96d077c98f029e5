# IronBook: a TLA+ verification project

IronBook benchmarks order-matching engines. A contestant uploads an archive;
it is built into an image; a `BenchmarkRun` starts the image next to a reference
engine, a gateway and a load generator; every order is stamped and sent to both
engines. This directory holds TLA+ models of the parts whose correctness depends
on order, concurrency and failure, TLC configurations for them, and TLAPS proofs.

Run things in this directory: `tlc -config X.cfg MCx` for a run,
`tlapm M.tla` for `SumTheorems` and each module `M` whose name ends in `Proofs`
(`OrderBookProofs` takes about eight minutes, the others four or less). `PROJECT.json`
lists components, runs, the source lines behind every definition, mutants,
findings, hazards, theorems.

## 1. Inventory

| Part | State | Operations | Talks to |
|---|---|---|---|
| `crates/matching-engine` | two price maps of FIFO queues, an id index, a trade-id counter | `match_order`, `rest`, `cancel`, `snapshot`/`restore` | called by the oracle under a mutex |
| `crates/reference-oracle` | one book behind a mutex | gRPC `Submit` | gateway |
| `crates/time-service` | an atomic counter, a file written every second | gRPC `NextStamps`, the persister, start-up | gateways |
| `apps/fairness-gateway` | a window of stamps, an event log | `Stamper.Next`, `Handle`, `Fork.Process`, REST and WebSocket | coordinator, time-service, both engines |
| `apps/bot-coordinator` | position in a compiled schedule | `Run`, `post` | gateway; its exit status is read by the operator |
| `apps/benchmark-operator` | Kubernetes objects (run, pods, services) | `Reconcile` of BenchmarkRun, Submission, Scenario, BotSwarm | API server through a cached client |
| `apps/submission-api` | MinIO objects, Postgres rows, Jobs | start-up (Postgres, bucket), `Upload` | MinIO, Postgres, Kubernetes |
| `apps/build-runner` | one row's status, an image | one-shot build, retried by its Job | MinIO, Postgres, registry |
| `apps/admission-webhook` | none | `Validate` a pod | API server |
| `crates/telemetry-sidecar` | position in a file | follow the event log | reads the gateway's file |
| the rest | none | configuration, generated protocol code, placeholders (`bot-worker`, `ironbookctl`), frontend, manifests | |

What is hard, and what would make each part correct:

* **Matching engine**: sequential but intricate. The two loops, the FOK
  pre-flight and the id index each repeat a piece of the truth and must agree:
  book never crossed, levels exact, index exact, quantity conserved, FOK all or
  nothing, price-time priority, restore gives the same book, loops end.
* **Operator**: decisions on stale caches, writes that race the user's, several
  writes per reconcile with crashes in between, objects of a deleted run of the
  same name. Phases one way; phases match the pods; nothing before the
  references are ready; the finalizer; deletion and runs come to an end.
* **Stamping**: blocks handed out to several gateways, abandoned requests,
  restarts from a file that lags and may be truncated. Unique and increasing
  stamps.
* **Hot path**: a client that gives up after 5 s and goes on, handlers that
  overlap, calls that fail on one side, log writes that fail unnoticed, late
  deliveries. At most once, handed to the log first, acknowledged only if
  delivered to both, order, termination.
* **Event log**: rows of concurrent handlers, written in pieces and sometimes not
  at all, read while they are written. Damage stays local; the echo is the log.
* **WebSocket connections**: answers without a number, over errors and skipped
  frames. One answer per text frame, in order.
* **Conversions**: an order's fields pass through JSON, strings, enums, packed
  bytes and a 128-bit id, and a pod template through a policy kept elsewhere.
  What was scheduled is what is matched.
* **Submission pipeline**: three remote calls without a transaction, duplicates
  side by side, Job retries, builds without a deadline. Deduplication, inputs
  present, READY means an image, builds that end settle.

The complete list of hazards, each at its line, is `hazards` in `PROJECT.json`.

## 2. Modules and what they stand for

| Module | Models |
|---|---|
| `Orders` | `types.rs` and the price comparisons: sides, kinds (order type and time in force in one field), orders, `crosses_price` |
| `OrderBook` | `book.rs`, `match_engine.rs`, `snapshot.rs`, one action per loop iteration |
| `PriceTimeBook` | the promise: a set of resting orders, one atomic step per order, shares defined declaratively by priority |
| `OrderBookRefinement` | the mapping from `OrderBook` to `PriceTimeBook`, with history variables for the book a running call started from and for the order it answered |
| `OrderBookProofs` | the theorems about `OrderBook` |
| `OrderBookRefinementProofs` | the theorem that `OrderBook` implements `PriceTimeBook` |
| `SumTheorems` | sums over finite sets, for the proofs about quantities |
| `AdmissionPolicy` | `policy.go` and the webhook's handler as predicates, and the pods of the operator's templates as they see them |
| `BenchmarkRun` | `benchmarkrun_controller.go` on an API server that asks `AdmissionPolicy`, and the one write each of the Submission and Scenario controllers |
| `BenchmarkRunProofs` | the theorems about `BenchmarkRun` and `AdmissionPolicy` |
| `Stamping` | sequence numbers: `time-service` and `stamper.go` |
| `StampingProofs` | the theorems about `Stamping` and `StampClock` |
| `StampClock` | extends `Stamping`: each of its actions with what it does to clocks and timestamps |
| `SubmissionPipeline` | start-up and `Upload` of submission-api, and the build-runner's Job |
| `SubmissionPipelineProofs` | the theorems about `SubmissionPipeline` |
| `WireOrders` | an order's fields from `Compile` through `post` and `Handle` to `wire_to_order` |
| `HotPath` | extends `WireOrders`: `dispatcher.go`, `server.go`, `fork.go` and the delivery to the engines |
| `HotPathProofs` | the theorems about `HotPath` and `WireOrders` |
| `EventLog` | `transport/ws.go`, `sink_file.go` and the telemetry-sidecar around one file |
| `EventLogProofs` | the theorems about `EventLog` |
| `MC*` | instances and symmetry sets |

Definitions marked "Faulty variant" are used by no specification. Each is a
plausible bug in the definition after it; putting it in that definition's place
makes a property fail (`mutants` in `PROJECT.json`), which shows that the property
notices.

**OrderBook.** A side is a set of keys (`levels`) and a queue per price, kept
apart because "no level" and "an empty level" differ for `best_for`. `BeginMatch`
/ `RejectFok` start a call, `EnterLevel`, `DrainFront`, `LeaveLevel` are the loop
bodies, `ReturnFills` numbers the trades and rests the remainder. A call holds
`&mut self`, so `Cancel` and `RestoreSnapshot` only happen between calls. An order
of quantity 0 is among the inputs since nothing rejects it. The matcher never reads
`platform_seq`: priority within a level is the order of arrival, so a modelled order
carries the rank of its `match_order` call (`rank`), and may bear any stamp. That
price-time priority is priority by `platform_seq` (rule C1 of the design) is thus
true only of orders that reach the book in the order of their stamps:
`SameOrdersSameSequence` shows that for undisturbed runs of the hot path, and
`orders_v_sequence` refutes it for others. `ReuseIds` says
whether an order may carry the id of a resting one; the gateway does not prevent
it, the coordinator's own schedule never does it.

**AdmissionPolicy.** A pod is the record of the fields the policy reads.
`BenchmarkRun` applies `Allowed` to `PodTemplate(role, Namespace)` whenever it
creates a pod. The operator's pods carry `ironbook.io/role`, not `app`, so the policy
does not examine them and the answer is always yes: the hardening it demands of
submission pods is not asked of the pods a run really has (section 5).

**BenchmarkRun.** The API server holds one named run, its pods and services;
`revision` is the resource version. Reads go to `cache` (or, with `FreshCache`,
to the current objects), one cache per kind, each lagging on its own. A refused
write changes nothing and is a stutter. A reconcile with one write is one step;
`toPriming` and `handleDelete` are one step per write and may be cut short by
`WriteFails` or `OperatorRestart`. Create by name, `AlreadyExists` as success,
delete by name and listing by label are kept, since the trouble with re-created
runs lies there. `toAllocating` takes any error of a read for a missing object, so
`ToInvalid` may be a fault as well. References come and go: a deleted one may be
created anew under its name, between the checks of `toAllocating` and those of
`toPriming` too, and starts from the beginning; the history variable `settled` holds
those that have once been in order. User, kubelet and garbage collector are
environment.

**Stamping.** `Reserve` is the atomic `fetch_add`. The persister loads, truncates
and writes in three steps; a crash may fall between any two. `RequestFails` may
leave the request behind as an orphan, which the service serves later.
`WithinGap` restricts crashes to moments at which a restart would resume at or
above the counter: that is what the safety gap has to achieve, and the
specification with `WithinGap = FALSE` is the code as it is.

**StampClock.** The service's time is what the wall clock said at its start plus
what its monotonic clock, `now`, has elapsed; a gateway measures the age of its
window with a clock of its own, `local`, which in a tick of `now` may stand still,
keep pace or run ahead. A request, its response and its installation are apart, so
a window may be arbitrarily old when its first stamp is issued. A reboot reads the
wall clock anew, whatever it says. The history variables `setback` and `gained` add
up by how much restarts have set the service back and by how much each local clock
has outrun it. `TimestampsForward` says that these account for every step back of a
gateway's timestamps, and that there is none but at a refill. The design
(`ironbook-design.md:695`) asks for more, a timestamp "monotonic across restart
(persisted high-watermark)": the file holds the sequence number only, and after a
reboot with the wall clock set back timestamps do go back.

**SubmissionPipeline.** submission-api serves after `ConnectPostgres` and
`EnsureBucket`; `StartFails` and `ApiCrash` put it back to the beginning, and a
crash ends every upload in flight (`Land` says which of their pending calls still
take effect). Outside a cluster (`inCluster` is FALSE) nothing is dispatched. A call that fails may have taken effect, so every failure
action has both outcomes. The unique key on `sha256` is what makes concurrent
duplicates one row. The Job controller starts pods until `1 + BackoffLimit` fail. A
build is two steps: the compiler (`Compile`, `CompileFails`), which works on the
contestant's archive under `context.Background` and need not end, and the push, which
may have taken effect when it is answered with an error (`PushFails`).

**WireOrders.** Each conversion is an operator; composed, they take a scheduled
event to the order the matcher sees. `Word` is the 2^64 of the two halves of a
`ClientOrderId`.

**HotPath.** The schedule is a sequence of events `Compile` can make
(`IsCompiled`); which ones the generator draws is left open. A timeout ends the client's wait and, sooner or later, cancels the
handler's context; until then the handler runs on. A call ends with a reply, or
fails when the context is cancelled, the engine is dead, or the connection
breaks; a request whose call failed may still be delivered. An engine is the
sequence of orders it has applied, made from the event by `WireOrders`; of a
submission, a contestant's program, it says with which orders its `Submit` has run,
not what it did with them. `FileSink.write` drops its error: `Write` logs a row or,
as a fault, loses it, and the history variable `dropped` keeps what was lost;
`Offered` is both.

**EventLog.** A row goes into the file as a head and a tail (with the newline), so
a reader may come between them; a failed write leaves nothing, or the head. The
sink's mutex is `writing`, a set of at most one row. The context of a hijacked
request is not cancelled when its client leaves: `ClientLeaves` stops answers from
arriving and makes the next read fail, and leaves a running `Handle` alone. What
the engines do is not looked at; the order path proper is `HotPath`.

## 3. Runs

All runs together take about eleven minutes on two workers.

| Run | Instance | Shows |
|---|---|---|
| `book_safety` | 2 prices, 4 ids, quantities 0-2, 4 orders of every kind, cancels, restores | `TypeOK NotCrossed LevelsExact IndexExact FillConservation FokAllOrNothing PriceTimePriority SnapshotRoundTrip` |
| `book_refines` | 2 prices, 3 ids, quantities 0-2, 3 orders | `ImplementsPriceTimeBook MatchTerminates` |
| `run_lifecycle` | 1 server and the coordinator, lagging caches, references absent at first, 1 fault | `TypeOK PhasesOneWay PrimedIsComplete PhaseMatchesPods OnlyUnseenPodsOutlive DeletionCompletes RunFinishes` |
| `run_recreate` | 2 servers and the coordinator, current reads, the run created twice, 1 fault, 1 pod failure, 1 reference deleted and created anew | `PodsNeverOutliveRun PrimedHasPods NoPodBeforeReady` |
| `stamps_within_gap` | 2 gateways, blocks of 2, gap 3, 1 crash, 1 orphan, 3 stamps, service time 0-1, gateways' clocks at 0, 1 or 2 times its rate, wall clock 0-1 at each boot | `TypeOK StampsUnique StampsIncrease TimestampsForward` |
| `pipeline` | 3 uploads of 2 archives, Job of 2 pods, 1 fault | `TypeOK UploadsDedupe JobHasInputs ReadyHasImage BuildsSettle` |
| `orders` | 2 events, 2 timeouts, 1 fault | `TypeOK AppliedAtMostOnce DeliveredToBoth SameOrdersSameSequence DispatchEnds HandlersEnd` |
| `event_log` | 2 connections with two frames each, 1 fault | `TypeOK DamageBounded EchoFollowsLog RepliesInOrder AllEchoed` |

Bounds. Two prices and four orders give a sweep over two levels, a partial fill
on each side, a queue of several orders, and a later order that meets what is
left.
The operator treats the servers alike, so one of them next to the coordinator,
which it treats differently, shows how a phase is decided; with two, some may be
created, running or gone while others are not. One crash of the time-service, at
any point of a write, with a wall clock that has gone back or forward, and one tick in
which a gateway's clock runs at twice the service's rate, are what a stamp that goes
back would need; `StampingProofs` has no bound on crashes, time or rates. Three uploads of two
archives have a pair of duplicates and a bystander; one fault may fall on any of
the pipeline's remote calls, taking effect or not; a Job of two pods has a build that is
retried and a last one. Two events are what it takes
for a late delivery to overtake or be overtaken. Two connections are enough for
two rows to meet in the file, one fault for a row to be torn in front of a whole
one. The counters `MaxFaults`,
`MaxTimeouts`, `MaxCrashes`, `MaxCreates`, `MaxSeq`, `MaxStamps`, `MaxOrphans`,
`MaxTime`, `MaxRate`, `MaxWall`, `MaxPodFailures` and `MaxRefDeletes` are bounds of the instances, not of the code.

Deadlock is checked for the book. The other systems may stop: a run is complete,
a schedule is dispatched, all uploads are answered.

Fairness. `OrderBook`: a running call runs on (nothing in it blocks).
`BenchmarkRun`: the work queue keeps calling `Reconcile` (requeues and
watch events), watches deliver, pods start, the coordinator's loop ends, kubelets
remove terminating pods. `SubmissionPipeline`: submission-api is started again
when it exits (it runs in a Deployment), handlers and Job pods run on and the calls
they make are answered; nothing is assumed of a compiler, which `compile.go` gives
no deadline and the Job no `ActiveDeadlineSeconds`.
`HotPath`: the coordinator and the gateway's handlers run on, and the client's
5 s timeout fires; nothing is assumed of an engine, so liveness there does not
rest on contestants' code. `MaxTimeouts` is the number of events in that
run, so the bound never withholds a timeout. `EventLog`: a write that has begun
returns and the sidecar's loop runs on; nothing is assumed of clients or engines.

What the liveness properties except is what the code does not promise:
`BuildsSettle` claims nothing once a remote call has failed (see section 5) and lets
a compiler run for ever, and `RunFinishes` claims nothing when a referenced object is
deleted or a pod fails.

### Where code and documents disagree

In four runs TLC finds a documented property violated by what the code does;
`findings` in `PROJECT.json` quotes the text.

| Run | Property | What happens |
|---|---|---|
| `run_v_finalizer` | `PodsNeverOutliveRun` | "no pods" is read from a cache that has not seen them yet |
| `stamps_v_restart` | `StampsUnique` | the file lags by more than the gap, or is truncated |
| `pipeline_v_nojob` | `AcceptedHasJob` | a failed dispatch leaves a row that blocks its archive |
| `orders_v_sequence` | `ArriveInSeqOrder` | a timed-out order arrives after a later one |

Some properties hold under a condition that the code does not enforce; changing
a run shows it:

* `ReuseIds = TRUE` in `book_safety`: a reused id overwrites the index entry of a
  resting order (`IndexExact` fails), and a restore rebuilds the index in price
  order, not in order of arrival (`SnapshotRoundTrip` fails). The coordinator's
  schedule never reuses an id; the gateway would let another client do it.
* `FreshCache = FALSE` in `run_recreate`: the finalizer goes while pods exist
  (`PodsNeverOutliveRun` fails, as in `run_v_finalizer`), and a re-created run takes
  the pods of its predecessor for its own (`PrimedHasPods` fails).
* `PrimedIsComplete` in place of `PrimedHasPods` in `run_recreate`: a re-created run adopts services of
  its predecessor that the garbage collector then removes.

## 4. Proofs

Every invariant and every action property that a passing run checks, but for
`PodsNeverOutliveRun`, and the refinement of `PriceTimeBook`, is also a theorem, proved for all values of the
constants that the named assumptions of the modules admit: any prices, orders,
gateways, uploads, events, connections, server roles, and any number of steps and
faults. What only TLC checks is said at the end.

The table gives the properties; a condition is a hypothesis of the theorem.

| Module | Theorem | Property | Condition |
|---|---|---|---|
| `OrderBookProofs` | `BookTypeCorrect` | `TypeOK` | |
| | `NeverCrossed` | `NotCrossed` | |
| | `KeysExact` | `LevelsExact` | |
| | `QuantitiesConserved` | `FillConservation` | |
| | `BestAndOldestFirst` | `PriceTimePriority` | |
| | `FokFilledInFull` | `FokAllOrNothing` | |
| | `IndexLocatesOrders` | `IndexExact` | ids are not reused |
| | `SnapshotsRestore` | `SnapshotRoundTrip` | ids are not reused |
| `OrderBookRefinementProofs` | `BookImplementsPriceTime` | `ImplementsPriceTimeBook` | ids are not reused |
| `StampingProofs` | `TypeCorrect` | `TypeOK` | |
| | `Uniqueness` | `StampsUnique` | crashes within the gap |
| | `Monotonicity` | `StampsIncrease` | crashes within the gap |
| | `ClockRefinesStamping` | `ClockSpec => Spec` | |
| | `Timestamps` | `TimestampsForward` | |
| `HotPathProofs` | `HotPathTypeCorrect` | `TypeOK` | |
| | `AppliedOnce` | `AppliedAtMostOnce` | |
| | `OkMeansDelivered` | `DeliveredToBoth` | |
| | `UndisturbedIsSchedule` | `SameOrdersSameSequence` | |
| | `IdsDistinct`, `ScheduledOrderArrives` | about `WireOrders` | |
| `SubmissionPipelineProofs` | `PipelineTypeCorrect` | `TypeOK` | |
| | `DedupeHolds` | `UploadsDedupe` | |
| | `JobsFindInputs` | `JobHasInputs` | |
| | `ReadyIsBuilt` | `ReadyHasImage` | |
| `EventLogProofs` | `LogTypeCorrect` | `TypeOK` | |
| | `LostWritesCostTwo` | `DamageBounded` | |
| | `SidecarFollows` | `EchoFollowsLog` | |
| | `AnswersInOrder` | `RepliesInOrder` | |
| `BenchmarkRunProofs` | `RunTypeCorrect` | `TypeOK` | |
| | `PhasesForward` | `PhasesOneWay` | |
| | `PodsAfterReady` | `NoPodBeforeReady` | |
| | `PodsWithinRun` | `OnlyUnseenPodsOutlive` | |
| | `PrimedPods` | `PrimedHasPods` | fresh caches, or one run of the name |
| | `PhasesMatchPods` | `PhaseMatchesPods` | fresh caches, or one run of the name |
| | `PrimedComplete` | `PrimedIsComplete` | one run of the name |
| | `ExemptionIsNarrow` | about `AdmissionPolicy` | |

No condition can be dropped. With reused ids `IndexExact` and `SnapshotRoundTrip` fail
(section 3), and TLC finds `ImplementsPriceTimeBook` violated too: of two orders with
one id a cancel takes only the first. With crashes beyond the gap stamps are issued
twice (`stamps_v_restart`). With stale caches and a name used twice TLC finds
`PrimedHasPods` violated (the pods of the old run are taken for the new one's), with
fresh caches and a name used twice `PrimedIsComplete` (the old run's services are). The
conditions hold of states the program is in: the coordinator's schedule reuses no id,
and a name is usually used once. Fresh caches are not the operator's normal state,
since every read of a reconcile goes through the informers: for `PodsNeverOutliveRun`,
which `run_v_finalizer` refutes without them, the theorem is `OnlyUnseenPodsOutlive`,
which holds of caches of any age and says what remains of it. TLC checks
`PodsNeverOutliveRun` itself for current reads, in `run_recreate`.

**Matching engine.** Two lemma families carry the proofs: what each operation does
to keys and queues (`RestFacts`, `DrainFacts`, `LeaveFacts`, `CancelFacts`,
`RestoreFacts`), and what it does to one deque (`Joins`: an order is appended;
`Leaves`: one is taken out; `Shrinks`: the front gets smaller). `BookMoves` says
that every step of `Next` is one of these or leaves the deques alone.

* `NotCrossed` and `LevelsExact` are inductive together with `DrainsKey`, "the
  level being drained is a key": when the inner loop stops because the taker is
  satisfied, the level stays, and only `DrainsKey` says that it was there.
  `NotCrossed` is at risk in one place, when a remainder rests; `SweptClean` shows
  that the outer loop then ended because the best opposite price, hence every one,
  is beyond the limit.
* `PriceTimePriority` needs two things that are remembered nowhere in the code:
  every deque is ordered by arrival (`DequesInOrder`; a popped front and a
  cancelled middle keep it, an append keeps it because a running order is younger
  than all that rest, `RestedEarlier`), and the level being drained is the best one
  (`DrainsBest`; the side may only lose orders meanwhile).
* `FillConservation` needs that no order rests twice (`RestsOnce`): a fill changes
  `filled` for one number and `qty` at one place. It is inductive with
  `NothingYet`: an order that has not arrived has traded nothing.
* `IndexExact` speaks of moments between calls. While a call runs the index is
  wrong on purpose: the ids of the emptied orders are still in it (`Stale`,
  `StaleGone`). `IndexInv` says what is true throughout.
* `FokAllOrNothing`: the pre-flight's sum, taken again in any later state of the
  call (`Cover`), is still at least what the taker wants (`FokCovered`): a fill
  takes the same from both. When the sweep ends there is nothing left to reach, so
  the sum is 0 and so is the remainder. `SumTheorems` is what this rests on.

The highest price (`PricesAssumption`) is needed to show that the index a restore
rebuilds points at a place where the id rests.

**Refinement.** `OrderBookRefinementProofs` compares the loop with the promise, which
says for each candidate what it is due: what is left after all in front of it, up to
its own quantity (`Due`). While a call runs, its progress against the book it began
with is exact (`Underway`): fill i is what the i-th candidate is due (`FillsDue`); those
served so far have nobody unserved in front of them (`Frontmost`) and are as many as
there are fills; what the taker still wants and the sum of what they are due make its
quantity (`Wants`); and the book is the old one without them, but for what the last of
them keeps (`Rump`). The argument has three parts. The front of the level being drained
is next in line among all candidates (`FrontIsNext`, from `DrainsBest` and
`DequesInOrder`). Serving whoever is next keeps all four parts (`ServeNext`, in which no
variable occurs). When the loop ends, everyone due something has been served
(`AllServed`): either the taker is satisfied, and then all others have at least its
quantity in front of them, or nobody it crosses is left (`NobodyLeft`). What a call
changes for the abstract book, it changes when it returns (`ReturnAbstract`); beginning
a call, the steps inside it and restore leave the abstract book alone (`Stutters`);
`CancelAbstract` and `RefusedAbstract` are the remaining steps. A rejected FOK is
`Kill`, except one of quantity 0 that can reach nobody: the pre-flight rejects it, and the
promise is kept because a match of it would be empty.

**Sums.** `SumTheorems` proves what `MapThenSumSet` computes, although it folds in
the order in which `CHOOSE` picks: an element more adds its value (`SumRemove`), a
renaming keeps the sum (`SumRenamed`), a part adds up to no more than the whole
(`SumMonotone`). The induction theorems of the library take
an operator as a parameter, which these provers cannot instantiate; instead a
smallest set for which the claim fails is assumed and led to a contradiction
(`SmallestSubset`).

**Stamping.** Why `StampsUnique` is not inductive: a window that overlaps another,
or that holds a number already issued, breaks it one step later. The invariant that
is inductive speaks of every number that anyone may still issue. Call the
*frontier* the number the service would hand out next: its counter while it
runs, `StartingSeq` while it is down. Every number issued, every window and every
block in flight lies below the frontier; the unspent part of a window, and a block
in flight, share nothing with one another or with what was issued. `Reserve` moves
the frontier past a fresh block; `PersistTruncates` and `PersistWrites` do not move
it while the service is up; `Crash` within the gap moves it up or leaves it
there; `Restart` leaves it. Monotonicity adds that what a gateway has issued
lies below its own window and its own block in flight. `ClockRefinesStamping`
carries all this over to `StampClock`, whose own theorem, `Timestamps`, needs no
gap: what a window would date its next stamp with lies between the gateway's last
stamp and the service's own time (`WindowPast`), and so does the timestamp of a
response that is on its way (`GrantPast`), each but for what the clocks account for
(`ClockError`). A response is old when it is installed, but then so is the gateway's
last stamp: a gateway issues nothing while it waits.

**Order path.** `ScheduleAssumption` says the schedule is a sequence of events
`Compile` can make. `AppliedAtMostOnce` follows from `MatchedOnce`: an order an
engine has is off the wire, and a call is made once per event and engine
(`CallsMade`). `IdsDistinct` (two packed ids are equal only if their parts are; the
uniqueness of two digits in a positional system) and `ScheduledOrderArrives`
(nothing `Compile` makes is rejected on its way) turn this into the property's
statement about the matchers' orders. `SameOrdersSameSequence` is about runs
without timeouts and failures; in these one event is in hand at a time
(`OneInHand`), the stamps are drawn in the schedule's order, and each engine has
the orders up to the one in hand.

**Submission pipeline.** The inductive invariant says who may write what:
a row belongs to the upload that inserted it (`RowsOwned`), what an upload knows of
the table stays true (`RowKnown`), a Job is created only by the upload whose row
it is and after it (`NoJobYet`), an archive past the first call is stored
(`ArchiveStored`), and a build that is done has been pushed (`BuiltPushed`; a failed
one may have been too). Crashes
of submission-api and unheard effects are the hard steps: several uploads end at
once, each with or without its last call.

**Event log.** `OneWriter`: at most one row is being written, and then its head is
the end of the file. `Damage` is inductive where `DamageBounded` is not: a torn
head at the end of the file is a debt, because the next row will go on its line;
every lost write pays for two rows, and a spoilt line has one of them to come.

**Benchmark run.** `Copies`: a copy of the run, in the cache or in the reconciler's
hands, that carries the current resource version is the run; hence an accepted
write was decided on the current phase, whatever the age of what else was read.
`SettledOnce`: whoever believes the run past PENDING is right that its references
have been in order, and no copy of a reference shows more than has been (`settled`
only grows, though the references themselves come and go). `HeldRun`: only a run with
its finalizer has pods, and a run that is being primed is the run that is there,
since the finalizer is dropped on a copy that is current and being deleted. `OfThisRun` and `PodsKept`, which the conditions
above are for: the pods that are seen are those of the run that is there, nobody
removes the pods of a live run, and what a cache shows of a container is behind
what the container does.

**Only model-checked.** Liveness under fairness (`MatchTerminates`,
`DeletionCompletes`, `RunFinishes`, `BuildsSettle`, `DispatchEnds`, `HandlersEnd`,
`AllEchoed`) is out of the prover's reach. That the four runs with a violation fail is
shown by TLC's counterexamples, not proved.

## 5. Not modelled

The timestamps of fills and acknowledgements; the bytes of snapshots, replies and
hashes; the schedule's pseudo-random draws and its hash, which is only logged; the
TTL of finished Jobs; a user who deletes single pods; the language of an upload (a duplicate under another language is answered with the
first); calls of a dead process that arrive after its successor has started; what
happens inside a compiler; flags, TLS and leader election of the operator's
manager; configuration beyond what the models take as constants; generated
protocol and deep-copy code; `bot-worker` and `ironbookctl`, which print a line;
frontend and manifests.

If a Postgres call fails in the last attempt of a Job, the row stays BUILDING for
ever (the error of `setStatusReject` is dropped, and nothing comes back to it):
`BuildsSettle` is claimed for runs without faults only.

Some statements of the design document go further than any property here,
because the code has nothing that would make them true: the coordinator starts
once its pod does, whether or not the gateway runs (`ironbook-design.md:314`
primes the gateway first); the operator looks only at the coordinator for the end
of a run, so a crashed submission goes unnoticed (`:2025`); a retried Job takes a
row from REJECTED, or from a READY whose update was committed but reported as
failed, back to BUILDING (`:275`); and when one of the two engines misses an order
the caller gets an error, but nothing marks the run invalid (`:366`, `fork.go:24`).
`benchmarkrun_types.go:41` says the seed "is mixed with Scenario.ContentHash" to
derive the schedule; `Compile` takes the seed alone, and nothing reads the hash. The
admission policy looks for `app=submission` in the namespace `submissions`, a label
the operator's submission pod does not carry; with the label it would be refused,
since the template names no runtime class.

## 6. Plan

The order was: the engine, whose verdict is the point of the system; the run's
lifecycle; stamping with its proofs; pipeline and hot path; then timestamps, the
conversions of an order, the event log with its readers and writers, the admission
policy, and start-up. All of these stand. The invariants, the action properties and
the refinement of the book are proved. What is left is more to state:

1. abstract specifications for stamping (a counter that only grows) and for the
   submission pipeline (one row per archive), with their refinements;
2. for the hot path, that both engines hold the same book after an undisturbed
   run, from `SameOrdersSameSequence` and the determinism of `PriceTimeBook`;
3. the safety part of the liveness arguments (what a running call, a build or a
   deletion still has to do gets less), so that only fairness is left to TLC.

# WebSubHub in TLA+

TLA+ specifications of WebSubHub (an event-sourced WebSub hub in Go), the TLC
models that check them and the TLAPS proofs of their main properties. Paths are
relative to `src/internal/` unless they begin with `docs/`.

## 1. The system

Hubs are the only writers of state. A request that a hub accepts becomes one
**state event** (a topic is registered or deregistered, a subscription is
verified, unsubscribed, removed or stale) on a Kafka topic with one partition.

* The **reducer** (`state/reducer.go`) folds an event into a snapshot. It
  rejects, ignores or applies the event; only the last one advances the revision.
* The **consolidator** (`consolidator/service.go`, `app/runtime/consolidator.go`,
  `persistence/statestore`) reduces the log to revisioned snapshots. For each
  event it saves the snapshot, installs it, and then acknowledges the event. Its
  HTTP endpoint answers with a snapshot after consuming up to the end of the log,
  as its Kafka client sees it: a **barrier**, with a reservation (section 3).
* Each hub keeps a **projection** (`app/hubstate/projection.go`). At its start it
  opens a consumer, buffers what is there, asks for a barrier snapshot, and
  reduces the buffer on top of it. Then it consumes.
* The hub's **handlers** (`app/resourcehub/handler.go`) decide on that
  projection, which lags behind the log.
* The **delivery manager** (`delivery/manager.go`) keeps a worker for each active
  subscription that the hub owns. It reconciles when the revision of the
  projection has changed.
* A **delivery worker** (`delivery/worker.go`) reads the content destination of
  its topic through a durable consumer (`persistence/messagestore/kafka/consumer.go`),
  posts to the callback and acknowledges. The progress is that of a Kafka
  **consumer group**: one of the subscription's own, or one that its parameters
  name and that other subscriptions may share.
* **Management queries** (`management/query.go`) and the operations API in front
  of them (`admin/service.go`) show topics and subscriptions from a barrier
  snapshot.
* The **hub runtime** (`app/runtime/hub.go`, `app/httpruntime/servers.go`) builds
  all this, provisions Kafka destinations (`.../kafka/administrator.go`), serves,
  and closes what it built in the order of its defers.

What is hard to test here: crashes between a save and its acknowledgement, calls
that report an error and have happened, decisions on lagging projections, events
reduced twice, stops that meet a worker anywhere, groups that lose a member with
records in hand, and a consume loop that goes on while the process closes.
`PROJECT.json` lists each hazard with its line and the properties that would
reveal it.

## 2. Modules

| Module | Models | Proofs |
|---|---|---|
| `StateReducer` | the reducer and `validateSnapshot` | `StateLogProofs` |
| `StateLog` | the event log and what producers check before they append | `StateLogProofs` |
| `SnapshotService` | abstract: what the hubs rely on: answers are reductions and do not regress | |
| `SnapshotBarrier` | abstract: `SnapshotService` with the barrier that the code keeps | |
| `Consolidator` | service, state store, tail loop, crash and restart | `ConsolidatorProofs` |
| `ManagementQueries` | lists and lookups on the consolidator's answers | `ManagementQueriesProofs` |
| `HubProjection` | the hubs' projections on top of `SnapshotService` | `HubProjectionProofs` |
| `System` | the hubs connected to the consolidator itself | `SystemProofs` |
| `ContentGroups` | abstract: what delivery promises of consumer groups | |
| `DeliveryWorker` | one worker, its consumer, the content destination | `DeliveryWorkerProofs` |
| `DeliveryManager` | reconciliation of workers against lagging views | `DeliveryProofs` |
| `Delivery` | the manager with its consumers, the consumer groups and the content | `DeliveryProofs` |
| `HubRuntime` | one hub process from its start to its exit | `HubRuntimeProofs` |
| `MCConsolidator`, `MCHubProjection`, `MCDelivery` | small instances for TLC | |

They compose along the data. `StateLog` extends `StateReducer`; `Consolidator`
extends `StateLog` and is shown to implement `SnapshotBarrier`, and with it
`SnapshotService`; `HubProjection` extends `SnapshotService`, so its hubs rely on
the promise and not on how it is kept. `System` puts the two together: hubs whose requests go to the consolidator.
`ManagementQueries` extends `Consolidator` and reads its answers. `Delivery`
extends `DeliveryManager`, composes its actions with those of the consumers and
groups, and implements it. `DeliveryWorker` (for one group) and `Delivery` (for all
groups of a hub) implement `ContentGroups`. The delivery and runtime modules abstract the state to
what they read: the status of a subscription, the list of views, the set of active
topics.

**StateReducer.** `Rejects`, `Unchanged` and `Apply` are the three outcomes of
`Reducer.Apply`. A topic ID is the digest of its URL and a subscription ID the
digest of topic, callback and lease start, so IDs stand for these fields. A map
entry that does not exist has status "absent".

**StateLog.** A producer appends an event that is admissible on a view that a hub
may have or have had (`HubViews`): the reduction of any prefix, followed by any
later or repeated stretch of the log that it accepts, since a start reduces the
events of its consumer on top of the snapshot it was given. The history variable `canon` holds the reduction of every prefix,
up to the first event that is rejected. No action of the program reads it except
to say which views producers can have.

**SnapshotService, SnapshotBarrier.** An answer is the reduction of some prefix, and
no answer has a smaller revision than an earlier one. The barrier that ADR 0011
asks for, that it contains what was on the log when the request came in, is not
part of the promise: a Kafka client that holds a fetch answered earlier ends the
refresh early (`ConsolidatorStaleFetch`). What the code keeps is one request late:
the answer contains what was on the log when some request came in that had been
answered before this one came in (`owed`).

**Consolidator.** Durable: the log, the committed offset, the snapshots topic and
the progress of the loader's group. A `consume()` is several steps under
`consumeMu` (`CheckCaughtUp`, `Receive`, `SaveAndInstall`, `Ack`), each with its
failing counterpart in which the effect may or may not have happened. `Prefetch`
says whether the Kafka client holds fetches answered before the poll,
`InterruptedLoads` whether the loader's group may survive a start. The
consumer's start offset is taken as resolved when it is opened.

**HubProjection.** `stage` is the next step of a hub: `Open`, `Buffer`,
`CheckBuffer`, `RequestSnapshot`, `SnapshotAnswered`, `ReceiveSnapshot` (which may
be long after), then `Reduce`, `Ack`, `Install`, for the start as for every later
batch. A rejected event ends the process. `ShortFetches` lets a fetch end before
the log does. The history variable `joined` says that the answer leaves no gap
before the first event of the hub's consumer; what a start guarantees is said of
the hubs for which it holds (`Settled`), since the service does not promise it.

**System.** A hub's request is an HTTP request on a connection, which is a client
of `Consolidator`. The request may not get through (`Asks` without a connection),
its answer may be lost, and a hub that gives up or crashes leaves its request
behind: the consolidator goes on with it, and the hub asks again on another
connection. The consolidator answers (`Obtains`) before the hub receives the answer
(one of the steps of `HubRuns`). `since` and `taken` are history. The steps of the two sides are those
of the two modules. `System` has no run; what is claimed of it is proved.

**ContentGroups.** A group begins at the end of the destination, its messages come
to an outcome in order, it commits one message at a time, each after its outcome,
and it may be deleted unless it is kept. There are no workers, consumers, retries,
rebalances or restarts in it.

**DeliveryWorker.** A message is its offset. `group` is the committed offset;
`acked`, `handed` and `position` are the consumer's bookkeeping. The initial state
chooses any retry policy that the configuration allows. Attempt, dead letter and
commit are separate steps. An attempt that begins after a stop fails without a
status (stage "interrupted"), and the policy decides what follows. Before the
consumer is closed the deferred function reads the intent (`ReadIntent`) and
unlocks: a `Stop` in between does not change how it closes. The report of a stale
subscription may fail, or fail and have happened, before there is a consumer, while
the attempt is prepared (`StaleFails`) or later (`PublishFails`).

**DeliveryManager.** `views` are the successive states of the log; `Reconcile` may
skip some. Four ways for `Run` to come to its end are four actions. If it has a
consumer, it then reads the intent (`ReadsIntent`), closes the consumer (`Closes`)
and only then lets the manager see that it is done (`Finishes`), with
reconciliations in between.

**Delivery.** A subscription has one of three layouts (`options`): a group of its
own, a named group, or a list of partitions that is read without membership, with
its progress under a group of its own. `offset` and `holder` belong to the broker,
`position` and `polled` to the client. Each content destination has one partition
(`app/runtime/hub.go:259`), so a group assigns it to one member at a time. A member
that has polled records blocks a rebalance until it has acknowledged them;
`Rebalance` also lets the broker expel such a member, whose next commit is refused
(`AckRefused`). A failed poll makes the worker reconnect. `CloseConsumer` leaves the
group and, if the intent was permanent when it was read, deletes a group that no
parameter names; the deletion may fail, and its error is dropped. What `DeliveryWorker` does with a record is one step here
(`Settle`).

**ManagementQueries.** `ListSubscriptions`, `ListTopics` and the two lookups are
operators on the snapshot that answers the request, `subscriptions` and `topics`
the handlers around the lists. The order of IDs as strings is any list that holds
every key once. `Listed` is the loop with its early end, and the reference
definition `IsPage` says by counting which entries a page has.

**HubRuntime.** `main` is `RunHub`, `loop` the consume goroutine. Both provision
through `Look`, `CreateTopic` and `AwaitVisible`; while `phase` is not idle they
hold `Administrator.mu`. A worker that opens its consumer holds it too, over the
call that fetches its offsets (`Locks`, `Opens`), so that provisioning and the
closing of the administrator wait for it (`Held`). Other hubs, which create the same destinations, are the
environment action `Provisions`. Each topic has one subscription of this hub.

## 3. Runs

Runs that pass:

| Run | Instance | Shows |
|---|---|---|
| `ConsolidatorSafety` | 1 topic, 2 subscriptions of one callback, 4 events, 1 fault, prefetch, 1 client, symmetry | saved snapshots are reductions, nothing committed is lost, a revision identifies its snapshot, answers do not regress, refinement of `SnapshotBarrier`: an answer is a barrier for earlier answered requests, not for its own; pages of at most 2 entries are exact, and queries never go back |
| `ConsolidatorLiveness` | 1 subscription, 3 events, 2 faults, prefetch, interrupted loads | events are consolidated, requests end, answers are saved |
| `HubSafety` | 1 hub, 2 subscriptions, 5 events, batches of 2, 1 fault, symmetry | no startup gap behind a snapshot that reaches the consumer, subscriptions that agree with the log up to the choice among verified ones, one per endpoint, every change is seen by reconciliation |
| `HubLiveness` | 2 hubs, 2 events, 1 fault, no subscriptions | hubs catch up |
| `Worker` | 3 messages (one malformed), batches of 2, 2 attempts, 1 fault, all policies | refinement of `ContentGroups`, progress follows outcomes, stops end the worker, messages are settled |
| `Manager` | 2 subscriptions (sharing a group, one with its own, one reading directly), 4 views, 1 restart, 2 messages, 1 fault | one Run per consumer identity, starts follow reports, refinement of `ContentGroups`, groups never pass an unsettled message, shared progress is kept, permanent stops delete if they come before the intent is read, unwanted Runs end, groups make progress |
| `Runtime` | 2 topics, dead-letter destination, 1 fault | workers have destinations, `Close` is final, the process ends and reports |

The bounds let the interesting cases happen: two registrations and two
verifications that collide, a batch with a record acknowledged and one not, a
crash after any step and (in `ConsolidatorLiveness`) a fault in the recovery from a
fault, an exhausted cycle of attempts, a topic that
goes and returns, a member that is expelled with one record acknowledged and one
in hand while the other member takes over. In two of the three layouts of `Manager`
the second subscription asks for a group and a partition, which is never admitted;
it keeps those layouts small. That a worker starts for a subscription that its
predecessor has meanwhile reported stale needs five views, so this way for `Run` to
end (in `EndsStale`) does not occur in `Manager`; the theorems cover any number of
views, as they cover logs of any length.

`Worker`, `WorkerSkips`, `Manager` and `ManagerUnserved` do not check deadlock: a
removed subscription ends the activity for good. In the other runs some process
can always restart or idle.

Runs that show a disagreement of the code with what the repository says of it
(quoted in the findings of `PROJECT.json`):

| Run | What happens |
|---|---|
| `ConsolidatorStaleFetch` | A batch is "caught up" against the high watermark of a fetch that was answered before the request. The barrier answer may then miss events, and a hub that starts with it has a gap. |
| `ConsolidatorInterruptedLoad` | A start that dies before the loader's group is deleted makes the next one load an empty snapshot. |
| `HubRejectsDuplicate` | A buffered event that is reduced again on the barrier snapshot may be rejected, and the start fails. |
| `WorkerSkips` | A group without a committed offset restarts at the end and passes over messages. |
| `ManagerUnserved` | An active subscription stays without a worker after `Run` returned an error, or when its topic returns while the old worker is stopping. |

Five more properties are defined and do not hold. They are variants of the above
or smaller, and have no run of their own. To reproduce one, check it as the only
property of the run named here.

| Property | Run to start from | Why it fails |
|---|---|---|
| `DuplicatesKeepTheRevision` | `HubRejectsDuplicate` | An event reduced again behind a later one is effective again and takes a new revision (ADR 0011, lines 23-24). |
| `SubscriptionsConverge` | `HubSafety` | By the same path a settled hub may have another subscription than the log (ADR 0006, lines 14-15). `SubscriptionsAgree` says how far they can differ, and is proved. |
| `StopInterruptsTheWorker` | `Worker` | With immediate redelivery of transport failures a stopped worker attempts and redelivers without looking at its context (`worker.go:186`). |
| `RemovedLeavesNoProgress` | `Manager` | Its group has an offset for ever: a removal that comes after `Run` has returned, or has read its intent, closes nothing for good, and the error of a deletion is dropped (ADR 0015, lines 23-25). |
| `FailuresAreReturned` | `Runtime` | A signal that comes while the servers drain after a failure makes the result nil (ADR 0022, lines 48-50). |

## 4. Fairness

* **Consolidator.** Weak fairness of the process's steps and of its restart by a
  supervisor. Strong fairness of `Refresh`, because a Go mutex hands itself to a
  goroutine that has waited for it. None of faults, appends or requests.
* **HubProjection.** Weak fairness of the hub's steps. Strong fairness of
  `SnapshotAnswered` with a snapshot that leaves no gap, and of `ReceiveSnapshot`: a
  consolidator that can answer infinitely often does not always refuse, and its
  answers do not stay behind for ever (`SnapshotBarrier`). `HubLiveness` has a buffer that holds the log, because a start
  with a longer backlog fails by design (ADR 0011, line 28). It has no
  subscriptions, because a rejected duplicate can stop a start for ever
  (`HubRejectsDuplicate`).
* **DeliveryWorker.** Weak fairness of the worker's goroutine and of its start.
  `MessagesAreSettled` is stated for bounded HTTP retry only; other policies may
  redeliver for ever.
* **DeliveryManager, Delivery.** The consume loop reconciles, a stopped `Run` comes to
  its end, and one that has come to its end closes its consumer and returns. `StopEndsTheWorker` shows the latter for every policy except redelivery
  without a delay. A consumer of a wanted worker opens, is assigned the partition
  when it is free, polls, settles and acknowledges (`Works`): the broker answers,
  and a worker does not keep a record for ever (`MessagesAreSettled`). At most one
  of these steps is enabled at a time. None of faults, publications or views.
* **HubRuntime.** Goroutines run, calls return or time out, and created
  destinations become visible. Of workers only the same is assumed: a call that
  fetches offsets under `Administrator.mu` returns, as its context is cancelled with
  the run and the Kafka client has timeouts. A worker need never open or end: the
  time limit of `Manager.Close` ends the wait.

## 5. Proofs

Every theorem holds for all values of the constants that satisfy the named
assumptions. `PROJECT.json` lists them.

* **Reducer.** Types; revisions grow by one when something changes; an event
  directly after itself changes nothing (`DuplicateIsNoOp`); one live
  subscription per endpoint and validity are preserved; no entry is deleted, dated
  back or, once removed, touched (`ApplyKeepsEntries`).
* **Log.** `LogInv`: `canon` reduces the log, revisions are ordered along it and
  identify the state. It is kept by every append.
* **Consolidator.** The safety properties are not inductive by themselves.
  `ConsolidatorInv` adds how memory and store are related. A saved snapshot is at
  most one event ahead of the committed offset (a crash between save and
  acknowledgement). The snapshot in memory is the reduction of `done` or
  `done + 1` events, and in the second case the event, reduced again, changes
  nothing by `DuplicateIsNoOp`. A commit whose answer was lost leaves the service
  inactive until it restarts. That every commit is covered by a saved snapshot
  (`NoCommittedEventIsLost`) is a consequence of it (`CommittedIsSaved`), which
  `System` uses again. Assumes no interrupted loads. `Barrier` and
  `Refinement` use `BarrierInv` as well, and hold with prefetched records: what the
  client holds and has not handed out was fetched after every batch that ended a
  refresh, so it reaches as far as the log did when those requests came in, and the
  next refresh hands it out.
* **Answers.** `AnswersComeFromTheTopic` needs neither assumption: a process that
  may answer has its snapshot saved, and one that may not has no requests
  (`SavedInv`).
* **Interrupted loads.** A start that has lost state reduces the rest of the log on
  an empty snapshot, so what it saves need not be a reduction of the log. It is
  still of the right type and valid, and has one live subscription per endpoint.
  `RobustInv` says this of what is in memory and on the topic, whichever events it
  consists of, and needs only that every event keeps it (`ApplyKeepsValid`,
  `ApplyKeepsOneCurrent`). So `TypeCorrectness`, `SavedSnapshotsLoad` and
  `OneSubscription` hold with interrupted loads and prefetched records.
* **Queries.** `ApplyKeepsEntries` along the log (`CanonKeepsEntries`) and
  `MonotonicAnswers` across restarts give `InspectionIsMonotonic`: what one query
  may have returned, every later one finds, in a state that is not older.
* **Lists.** `ListsAreExact`: what the loop has listed after `i` keys is the matches
  among them in their order, or as many as the limit admits. The theorem is about a
  recursive function over the positions of a list. Induction is replaced by the
  least number of a nonempty set (`LeastNumber`): where the claim fails first, the
  turn before it held, and one turn (`Turn`) preserves it.
* **Refinement.** A request maps to `AskBehind`, an answer to `AnswerFully` with the number
  of events in the snapshot, the ends of requests to `RefuseAll`, appends to appends,
  everything else to a stutter.
* **Hub.** `HubInv`. Reducing again takes a topic back through its history, but
  field by field it is either what it was after `c` events or what it is at the
  barrier `b` (`Tracks`). At `c = b` both are the same, so a settled hub has the
  topics of the log. This starts where the snapshot reaches the first event of the
  consumer (`joined`), which is what a settled hub is asked for.
* **Subscriptions of hubs.** They need not be those of the log
  (`SubscriptionsConverge` fails), and `SubscriptionAgreement` bounds the
  difference: a settled hub has exactly the ended and the stale subscriptions of
  the log, and a live one for every endpoint that has one in the log. The invariant
  is `AgreementInv`, on top of `HubInv`. Along the log a subscription only goes
  from absent to active, stale and removed (`LifecyclesAdvance`), since no producer
  writes a reactivation. So reducing again up to the barrier changes no
  subscription that exists there, and at most brings up one that was coalesced
  (`Retains`, `ReplayStep`). Behind the barrier every event keeps the agreement
  (`AgreesStep`): a hub that lacks the subscription an event ends or suspends
  rejects the event and goes down.
* **System.** `Composition`: the system implements the hubs over the abstract
  service, with prefetched records or without; no interrupted loads is the only
  assumption on the consolidator. What a hub sees as pending is its own request and when it was sent (`since`), whatever the
  consolidator still has. `LinkInv`: a connection belongs to at most one hub, which
  waits on it. An answer that a hub obtains maps to `SnapshotAnswered` with the
  number of events in it, a hub that
  gives up to `Refused`, a step of the consolidator to a stutter. The safety of the
  hubs then holds of the system as it is (`SystemNoStartupGap`,
  `SystemSubscriptions`, `SystemOneSubscription`, `SystemRevisions`). `SystemClosesGaps` says when
  the snapshot of a hub is known to leave no gap: when the position of its group was
  on the log as a request came in that was answered before the hub's own, by
  `BarrierInv`. `SystemLosesNothing`: the state that
  any hub has obtained is on the snapshots topic, with its revision or a later one.
* **Worker.** `WorkerInv`: what is committed is resolved; a working consumer stands
  at the committed offset, or at `base` when there is none; the record it is about
  to commit is resolved. `WorkerImplementsContent` also needs `Polled`: nothing is
  handed out that was not polled, and nothing is current that was not handed out.
  An outcome, a dead letter whose publication reports an error included, maps to
  `Outcome`; a commit, an interrupted one included, to `Commit`; a permanent close
  to `Delete`; opening or reconnecting without an offset to `Begin`.
* **Manager.** `Accounted`: the number of Runs is one exactly while there is an
  entry and it is not done. `ReportInv`: views only move forward (`LogOrder`), an entry
  exists only for a subscription that was seen, and where one was deleted the hub
  has seen the end of the subscription or of its topic, or has started again behind
  the report. So a worker starts only on views behind the report of its predecessor.
* **Delivery.** `GroupInv`. A consumer has settled what it is past and, while the
  broker accepts its commits, stands at the offset of its group, or at `base` when
  there is none (`Standing`); what is committed is settled (`Committed`). A member
  that was expelled need not stand anywhere, as it cannot commit. Only an open
  consumer has a position (`Attached`). This is for any number of subscriptions and
  groups and for any layout. `DeliveryImplementsManager`: every step of the
  composition is a step of `DeliveryManager` or a stutter, so what is proved of
  the manager alone holds of the whole. `DeliveryImplementsContent`: by `Standing`
  the one member whose commit is accepted stands where its group stands, so its
  commit is a `Commit` of the group; a member that was expelled can still settle a
  message, which is an `Outcome` that the group may already have.
  `PermanentStopsDelete`: once the intent is permanent it stays so until it is read
  (`Due`), and then the closing deletes the group or reports a failure.
* **Runtime.** `RuntimeInv`. At a reconciliation every destination of the view is
  visible (`Provisioned`). By the time `Manager.Close` looks at its workers the
  context is cancelled or there is no loop (`ClosesCancelled`). A cancelled
  context has a cause (`CancelHasACause`).

These theorems state what no passing run checks by itself: `Barrier`, which the
refinement contains; `OneSubscription`, which `HubSafety` checks of the hubs' views;
`NoAttemptOfCommitted`, which follows from `WorkerInv`;
`InOrderDelivery` and `GroupsKeepOrder`, which the refinements of `ContentGroups`
contain; those of `SystemProofs`; and those about the reducer.

Only model-checked: the liveness properties, as fairness and `ENABLED` are outside
the prover. Every invariant, action property and refinement that a run checks is
also proved. That the theorems about what is saved assume no interrupted load cannot
be helped: with one the code does not keep the promise
(`ConsolidatorInterruptedLoad`).

## 6. Not modelled

* Several partitions. `consumer.go` keeps its state per partition and ADR 0019
  speaks of partitions above zero, but the hub creates and requires content
  destinations with one, so no run of this program has a second.
* The order of `RunConsolidator`'s defers. Its loop, failures and end are in
  `Consolidator`.
* The codec, records, configuration parsing (except the retry policy), logging:
  formatting and validation of shapes. What fails to decode is a rejected start
  or a member of `Malformed`.
* Authentication, callback policy, secrets, mTLS: they only refuse requests. The
  protocol library, which verifies callbacks, is the time between a decision and
  its append.
* Health, capabilities and metrics of the operations API read one value each; the
  checks of methods, paths and query parameters only refuse requests. A list has at
  most `MaximumPageSize` entries and no second page, since a cursor is always
  refused.
* The contracts of the message store are interfaces, its capabilities a static
  table, a send of the producer is one append. Tools and test support are not part
  of the services.
* Retention and compaction of the topics. Snapshots are kept by revision key.

## 7. Plan

Done in this order: reducer and log, consolidator with its abstract service,
projection, worker, manager, runtime, shared groups and the composition of manager,
consumers and content, management queries, the composition of hubs and
consolidator, the abstract consumer groups. Next:

1. `DeliveryWorker` in place of `Settle`, with `Delivery` as the abstract
   specification of one worker among several. Both implement `ContentGroups`.
2. Several partitions, once the hub creates destinations that have them:
   at-least-once is to be proved again without order across partitions.
3. The consolidator's runtime, its listeners and defers, like `HubRuntime`.

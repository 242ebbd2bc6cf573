# A TLA+ model of the ONOS core

ONOS is a distributed SDN controller: a cluster of controller nodes that share
network state through replicated stores and program devices through one master
node per device. This directory models the replication and coordination logic of
that core in TLA+, checks it with TLC on small instances and proves parts of it
with TLAPS for every instance. Paths below are relative to the repository;
`core/store/dist`, `core/store/primitives` and `core/net` stand for their
`src/main/java/org/onosproject` trees.

## 1. Inventory

| Component | State it keeps | Operations | Interacts with |
|---|---|---|---|
| Eventually consistent map (`core/store/primitives/.../EventuallyConsistentMapImpl`) | timestamped items and tombstones, an accumulator per peer, anti-entropy times | put, remove, compute, gossip, advertise, request, purge, bootstrap | cluster communication; used by the link, device, intent, packet, group and flow-statistics stores |
| Device flow table (`core/store/dist/.../flow/impl/DeviceFlowTable`) | 128 buckets with term and Lamport time, queued operations, backup times, backups in flight | add, update, remove, purge, backup, anti-entropy, synchronize, activate term | lifecycle manager, peers' tables |
| Flow rule store (`ECFlowRuleStore`) | tables by device, term activations in a consistent map | batches to the master, lifecycle events, statistics | mastership, device flow table |
| Replica infos (`ReplicaInfoManager`) and device mastership (`ConsistentDeviceMastershipStore`) | leadership topic per device, pending transfers | request role, set master, set standby, relinquish | leadership store |
| Leadership (`DistributedLeadershipStore`) and work partitions (`WorkPartitionManager`) | leader and candidates per topic; rebalancing flag | run, withdraw, promote, transfer; rebalance, recontest | Atomix leader election |
| Cluster store and phi-accrual failure detector | heartbeat history, node states | heartbeat, phi, state change | every store that asks for active peers |
| Intents (`IntentManager`, phases, `GossipIntentStore`, `InstallCoordinator`) | pending and current maps, installation contexts with pending parts | submit, withdraw, purge, batch, compile, install, answer, retry, clean up, recompile | eventually consistent map, accumulator, work partitions, installers |
| Flow objectives (`InOrderFlowObjectiveManager`, `FlowObjectiveManager`, `DistributedFlowObjectiveStore`) | a queue per key, the executing head of each with a timeout, objectives that wait for a next group | enqueue, execute, dequeue, queue, notify, expire | drivers' pipeliners, a consistent map of groups |
| Flow rule manager | pending operation sets | apply, next stage, reconcile | flow rule store, drivers |
| Group, meter and resource stores | pending group requests, meter identifiers, allocations | store, audit, allocate, release | mastership, consistent maps |
| Device, link, host and topology stores | provider descriptions, availability, merged views | advertise, merge, mark on- and offline | eventually consistent map |
| Accumulator (`utils/misc/AbstractAccumulator`) | current batch, two timer tasks | add, process | map, topology provider, intents |
| Applications, command line, REST, GUI, drivers, southbound protocols | – | clients of the services above, encoding and I/O | not modelled |

What is hard in this code, and to test:

* **interleaving**: client threads, one ordered executor per table, timer
  threads and threads that complete network futures share state under locks
  that do not always cover the whole step;
* **ordering**: gossip, anti-entropy answers, backups, synchronization answers
  and mastership events overtake each other; logical and wall-clock timestamps
  are supposed to order what messages do not;
* **failure**: nodes leave and return, with or without their state; sends fail
  or time out and may still have been handled;
* **stale state**: decisions are made on digests, term numbers and object
  references read earlier.

`PROJECT.json` lists each such hazard at its line, with the properties that
would notice it going wrong.

What makes the components correct: replicas of a map agree and converge, removed
values stay removed, a newer value survives; a flow rule accepted by a master is
in its table, reaches the backups and survives a failover; an operation queued
during a failover is run; one master per term; an intent reaches one final
state, and only one its installers have reported; allocations are exclusive;
queued objectives are executed in order and all are answered.

## 2. The modules

| Module | Models | Extended by |
|---|---|---|
| `ECMap` | `EventuallyConsistentMapImpl`, `MapValue`, `UpdateEntry`, `peersSupplier` | `MCECMap` (TLC), `ECMapProofs` (TLAPS) |
| `FlowTable` | `DeviceFlowTable`, `FlowBucket`, `FlowBucketDigest`, `LogicalClock`, the lifecycle manager of `ECFlowRuleStore`, the conversion of leaderships to replica infos | `MCFlowTable` (TLC), `FlowTableProofs` and, on that, `FlowTableReplicationProofs` (TLAPS) |
| `Batching` | what `Accumulator` promises | – (the abstract specification `Accumulator` implements) |
| `Accumulator` | `AbstractAccumulator` | `MCAccumulator` (TLC), `AccumulatorProofs` (TLAPS) |
| `FlowObjectives` | `InOrderFlowObjectiveManager`, `FlowObjectiveManager`, `DistributedFlowObjectiveStore` | `MCFlowObjectives` (TLC), `FlowObjectivesProofs` and, on that, `FlowObjectivesOrderProofs` (TLAPS) |
| `Intents` | `IntentManager` and its phases, `IntentAccumulator`, `InstallCoordinator`, `IntentCleanup`, `GossipIntentStore`, `IntentData` | `MCIntents` (TLC), `IntentsProofs` (TLAPS) |
| `SequenceFacts` | – (lemmas on the elements of sequences) | the proofs of `Accumulator`, `FlowObjectives` and `Intents`, and `FlowTableReplicationProofs` |

Definitions keep the names of the code. "Mutated form of ..." definitions are
plausible mistakes in the definition that follows them; with the mistake in
place TLC finds the corresponding property violated, which shows that the
property depends on that line of the code. They are not part of the
specification.

### 2.1 ECMap

| State | Code |
|---|---|
| `items[n][k]` | `items`: value and timestamp; `Absent` (timestamp 0) is a missing key, value `NoValue` a tombstone |
| `created[n][k]` | `MapValue.creationTime()` where it matters, on tombstones |
| `pending[n][p]` | the `EventAccumulator` of peer p |
| `updates`, `ads`, `acks`, `requests`, `boots` | messages in flight, unordered |
| `aeTime`, `purgeTime` | `antiEntropyTimes`, `previousTombstonePurgeTime` |
| `active` | the nodes `ClusterService` reports active |
| `issued` | history: every write with its timestamp |

One action per operation or handler: `put`, `removeAndNotify`, `compute`,
`processItems` (an accumulator's batch leaves), `processUpdates`,
`sendAdvertisement`, `handleAntiEntropyAdvertisement`, `recordAntiEntropyTime`
(the PROCESSED answer arrives), `handleUpdateRequests`, `purgeTombstones`,
`handleBootstrap`, `Restart` (the constructor, with bootstrap), and the
environment's `Disconnect`, `Reconnect`, `LoseMessage`, `ignoreAdvertisement`
(an overloaded receiver) and `Tick`.

Abstractions. `put` and `remove` draw their timestamp before `items.compute`, so
any unused timestamp may be the one a write arrives with; `compute` draws it
inside, so it is later than the node's earlier ones. Timestamps are unique, as
they are for maps with a logical or mastership-based provider; the default
`WallClockTimestamp` can collide between nodes. An update message carries one
entry of a batch: the receiver handles a batch entry by entry. The receiver of a
restarted sender's messages and the order of messages are arbitrary. Listeners,
`destroy()`, `clear()` (a loop over `remove`), batch sizes and timers of the
accumulators, and the choice between full and lightweight anti-entropy are left
out.

### 2.2 FlowTable

The 128 buckets of a table are replicated independently; the module keeps one.

| State | Code |
|---|---|
| `infos`, `lifecycles` | history of replica infos; the values put in `mastershipTermLifecycles` |
| `view[n]`, `noticed[n]` | how far node n's `InternalLifecycleManager` has seen either |
| `events[n]` | jobs in the table's ordered executor: lifecycle events and finished synchronizations |
| `table[n]`, `activeTerm[n]` | `replicaInfo` and `activeTerm` of the table |
| `activating[n]`, `drain[n]` | an `activateMaster` in progress and the queue it has taken |
| `bucket[n]` | the `FlowBucket` in `flowBuckets`: term, time, entries |
| `flowTasks[n]`, `client[n]` | queued operations; the operation between the two halves of `runInTerm`. `stale` marks one that holds a bucket object replaced since |
| `clock`, `lastBackup`, `inFlight` | `LogicalClock`, `lastBackupTimes`, `inFlightUpdates` |
| `rounds[n]`, `syncs[n]` | anti-entropy rounds waiting for their backups; synchronizations a new master waits for |
| `msgs` | requests and answers, each with its Lamport time; `cb` is whether the sender still waits |

Three kinds of thread act. *Clients* run `RunInTerm` (read the info, the bucket
and `activeTerm`), then `Apply`, `Enqueue` or `AddToTaken` (the list was taken by
`activateBucket` in between), and `Purge`. The *executor* runs one job at a time,
to which `Free` holds all its actions: `StartTerm`, `UpdateTerm`, `ActivateTerm`,
`FallBack`, `ActivateMaster`/`RunEnqueued`/`FinishActivation` (one job, in steps
because clients run meanwhile), `RunAntiEntropy`, `AskDigests`, the message
handlers and the answers. *Other threads* deliver events
(`OnReplicaInfoChange`, `OnActivate`) and compare digests
(`SyncDigestsAnswered`). `TimeOut` ends a request in an error; the request may
still be handled afterwards.

Abstractions. An entry is absent, as added or as updated; whether an update or a
removal finds the stored entry newer (`created()`) is a free choice. The two
backups of every bucket that the constructor schedules have the effect of the
first half of an anti-entropy round and are not actions of their own; that the
second keeps the bucket object it was scheduled for, which may have been replaced,
is left out. One round runs at a time, and one client of a node at a time is
between the halves of `runInTerm`. The tick of a response and
the executor's job for it are one step. With `TornCopies`, a write has two
halves and the unlocked `copy()` may fall between them, so that a copy has an
entry its digest does not cover. `copy()` reads the volatile term and time and
then the entries: copies with the term of before and the time of after a write,
or that span several writes, are possible in the code and not in the model. Reads (`getFlowEntries`),
`close()`, and nodes that restart with empty tables are left out.

Mastership is external: any node may be elected for the next term with any
backups, backups may change (or be reported again, since a change of leader and
candidates is notified twice), and the master may be lost, which is reported as
term 0.

### 2.3 Accumulator and Batching

`Batching` has two variables, the items waiting and the items handed on, and two
actions: an item joins the end of the first, and a prefix of the first moves to
the end of the second.

| State of `Accumulator` | Code |
|---|---|
| `items`, `batch`, `processed` | `items`; the list `finalizeCurrentBatch` returned; what `processItems` was called with |
| `task[t]` | a `ProcessorTask` in the timer's queue, run, or neither |
| `ref.idle`, `ref.max` | `idleTask`, `maxTask` |
| `todo[a]` | what thread a (an adder, or the timer's) still has to do in `add`, `run` or `finalizeCurrentBatch` |
| `idling` | whether `maxIdleMillis < maxBatchMillis` |

`Add` is the synchronized block; `Schedule` and `SwapAndCancel` are the two steps
of `rescheduleTask` (`cancelTask` is the second alone); `RunReady`, two
`SwapAndCancel` and `ProcessItems` are a run of a task, and the lock on `items`
excludes `Add` until the tasks are cancelled; `RunNotReady` is the branch in which
`isReady()` is false. There is no clock: a task that waits may run at any moment,
so every interleaving of delays is included, except that a task may run *before
its creator has published it* only if its kind is in `Early`. A delay of zero
makes that likely, one of the idle or age delay needs a thread stalled that long.
The refinement mapping is `waiting <- batch \o items`. `getAndSet` and the
cancellation of the old task are one step. Exceptions are left out: `run` logs
what `isReady` or `processItems` throw, and the batch is lost, or no task is
scheduled until the next item.

### 2.4 FlowObjectives

| State | Code |
|---|---|
| `queue[k]` | `filtObjQueue`, `fwdObjQueue`, `nextObjQueue`, by key |
| `head[k]`, `expired[o]` | the cache of the executing objective of a key; a removal notification on its way to `removalListener` |
| `failed[o]`, `finishing[o][e]` | `InOrderObjectiveContext.failed`; threads past the test of it, about to dequeue |
| `calls[t]` | the calls the holder of the manager's lock, or the notifier's thread, still has to make |
| `pendingForwards`, `pendingNexts` | the maps of the same names |
| `groups`, `eventQ`, `notifying` | the store's `nextGroups` and `eventQ`, and where in `notify` its thread is |
| `tasks[o]`, `handed[o]`, `applied[o]` | `ObjectiveProcessor`s in the pool; times the objective is with the pipeliner |
| `answers[o]` | what the submitter was told |

`enqueue` and `dequeue` are synchronized, so one thread at a time is in
`calls["manager"]`. A dequeue of a failed next removes what waits for its group
and calls `onError` of each, which dequeues it in turn: `PendingError` and
`FinishDequeue` unroll that recursion on the stack `calls`. `execute` looks at the
store, and `QueueObjective` looks again under the lock of the pending map
(`FoundAgain`): the two looks are two steps, between which groups may come and
notifications be handled. The pipeliner is external: it may store or remove the
group, report success or failure, or stay silent. An
`ObjectiveProcessor` that throws only logs it, so it is a pipeliner that stays
silent, and still counts as something in progress in `HeadInProgress`: what
answers the objective then is its timeout. A failed next empties the two pending
maps in one step, although the notifier may come between the two removals in the
code. An objective is submitted once and differs from all others; in the code a
forward equal to one that has timed out and still waits in `pendingForwards` does
not enter the set, whose elements are compared by `equals`. `clearQueue` and a
change of the timeout are left out.

### 2.5 Intents

One intent on the node that is master of its key.

| State | Code |
|---|---|
| `pending`, `current`, `stamp` | the intent's entries in `pendingMap` and `currentMap`, and the timestamp (version, internal state version) of the latter or of its tombstone |
| `events`, `items`, `ready` | events of the pending map on their way to its listener; the accumulator and `IntentAccumulator.ready` |
| `batch` | the request the batch executor works on: its data, what was stored when it began, and where it is |
| `jobs[v]`, `answer[v][i]` | the `IntentInstallationContext` of a version; where installer i is in `success` or `failed` |
| `writes[w]`, `verdict[w]` | what a thread has to write; between the check and the put of `GossipIntentStore.write`, what the check has found |
| `calls` | calls of `addPending` that have drawn a version and not put it yet |
| `corrupted`, `asking[t]` | CORRUPT events not handled; what the cleanup's timer, its listener or the thread that follows the topology has decided to ask for, from what it has read |

A request draws its version (`Draw`, from `Request` of a client or `Resubmit` of
one of the other threads) and is put in `pending` in a later step (`AddPending`),
so requests get there in any order of their versions: `put` of new data replaces
whatever is there, `compute` of data put again keeps a newer request (`Takes`). The
map draws a timestamp for a put as well and refuses the put when another one or a
removal has come in between (`RefusePut`, allowed at any time). Events of the map
arrive in any order (`HandleEvent`); `TakeBatch` is `processItems` with `reduce`;
`CreateInitialPhase` skips what is superseded. The phases are `CompileSucceeds`,
`CompileFails`, `ProcessWithdraw` and `ProcessPurge`; each computes the data to be
written and, where it installs, `InstallIntents`. `ProcessThrows` is the
`exceptionally` handler: a compiler threw, or, in an installation or a withdrawal,
an installer after some others were applied. The installers answer on threads of
their own, in two steps (`InstallerAnswers`, `CheckFinished`), so that two may both
find themselves last and both write. `CheckUpdate` and `ApplyUpdate` are the two
halves of `write`. `LookForPending` and `LookForFailed` are the cleanup,
`HandleCorrupt` its fast path and `TriggerCompile` the recompilation after a change
of topology: each notes what it found, and `Resubmit` asks for it later.

Abstractions. A version is a point in time and given once; two `WallClockTimestamp`s
of one millisecond would compare equal. What a thread reads to reach a decision
(the pending and the current entry) it reads in one step. The accumulator is the sequence that
`Batching` promises, and the two maps are local: what replication does to them is
the subject of `ECMap`. Of the installables only whether there are any is kept.
The sequence number in the timestamps of the current map is left out: of equal
timestamps the later write wins. `Prompt` is the assumption that a request is
handled within one period of the cleanup.

## 3. What TLC checks

| Run | Instance | Shows |
|---|---|---|
| `ECMap_safety` | 2 nodes, 1 key, 2 writes, 2 ticks of the clock | `TypeOK`; `Agreement`: equal timestamps mean equal records; `NeverOlder`: no record is replaced by an older one |
| `ECMap_converge` | 2 writes, a lost message or ignored advertisement | `Converges` |
| `ECMap_recovery` | persistent map, 1 write, three faults of any kind | `Converges` through disconnect, restart, bootstrap and loss |
| `FlowTable_types` | 3 nodes, 1 backup each, 2 additions or purges, clear, torn copies, 1 change of mastership, 1 timeout (fall back on the backups) | `TypeOK`; `ClockCoversBuckets`: whoever holds a bucket has a clock past its time |
| `FlowTable_failover` | 2 nodes, 2 additions, updates or removals, 1 change of mastership, 1 anti-entropy round | `DigestIdentifiesContent`: equal digests mean equal entries; `BackedUpIsThere`: a backup in the master's term, never master itself and believed up to date, is not behind; `EveryChangeIsNewer`: a bucket is only replaced by one its digest ranks newer, and every change is recorded |
| `Accumulator_batches` | 3 adders, batches of 2, 1 stall of the delegate, tasks with delay zero may run early | `Batches`: the accumulator implements `Batching`, so that nothing is lost, repeated or overtaken; `ProcessedIfPunctual`: every item is processed if no task has run before it was published; `TypeOK` |
| `FlowObjectives_answered` | a forward that waits for a group and the group's creation, with either the group's removal or a second forward of the same queue | `NoLostNotification`: nobody waits for a group that exists unless its notification is still to be handled; `HeadInProgress`: the head of a queue always has somebody to take it out; `OneAtATime`: until an objective of a key times out only the head of its queue is in execution; `Answered`: every objective is answered, also by a silent pipeliner, unless a timed-out one is executed again in its place; `TypeOK` |
| `Intents_outcome` | 2 requests of any kind or their repetition, 2 installers | `OutcomeIsReported`: INSTALLED and WITHDRAWN are what all installers reported; `CurrentMovesForward`: the stored intent never goes back; `NoRequestLost`: a pending submission or withdrawal is only taken out when the stored intent has reached it, or by a later purge; `TypeOK` |
| `Intents_handled` | 2 submissions or withdrawals and a repetition, 1 installer, prompt handling | `Handled`: each leaves the pending map |
| `ECMap_endures` | 2 nodes, 3 writes | **violated** `MoreRecentEndures` |
| `FlowTable_queued_add` | 2 nodes, 2 rules | **violated** `QueuedAddIsThere` |
| `Intents_withdraw_lost` | 3 requests or repetitions, 2 installers | **violated** `WithdrawalStands` |

The three violations are disagreements between the code and what its
documentation says:

* `ECMap_endures`. A request for a key is answered with a null entry when the
  key's tombstone was purged between advertisement and request, and a null entry
  deletes whatever the requester has stored since, though "the update with the
  more recent timestamp will endure". The steps are real messages; the window is
  narrow, as the handlers share one background thread per node.
* `FlowTable_queued_add`. `runInTerm` queues an operation together with the
  bucket *object*; synchronization replaces the object in the map, and the queued
  addition then changes an object nobody reads. Its future completes all the same.
* `Intents_withdraw_lost`. `IntentCleanup` reads the requests that have been
  pending for a period and puts them again under a version it draws only then. In
  the trace it reads a pending installation; a client's withdrawal replaces that;
  the cleanup puts the installation again, `compute` finds the version of the
  withdrawal older and replaces it, and the withdrawal is skipped as superseded.
  Nothing has been compiled or has failed before. The other paths of the cleanup
  decide and resubmit in two steps as well, and the one for CORRUPT events does
  not look at the pending map at all.

Observations that are not runs.

*Map.* A tombstone is purged while an older update of the key is still under way;
the update then stores the removed value again. Tombstones are purged by the
times of the *active* peers, and with `<=` also in the very millisecond of an
advertisement that did not carry them. With tombstones disabled the replicas
still converge, possibly to a removed value, which is the option's documented
price; no run disables them.

*Flow table.* Checking `activeTerm` and queueing are two steps; an operation
queued right after `activateMaster` has run the queue stays there. `copy()` does
not take the lock that writers hold, so a bucket can be shipped with an entry its
digest does not cover. `isNewerThan` takes a later time for newer whatever the
term, so the answer to an old synchronization can replace a bucket of a newer
term; `activateMaster` does not compare terms before it assigns `activeTerm`;
`purge` keeps a bucket's digest, so anti-entropy cannot see that a purged backup
lacks entries; a bucket is not backed up in a new term until it is written to.

*Backups.* `lastBackupTimes` is a time without a term, and `onBackup` compares the
two terms only at the moment it handles a request. `BackedUpIsThere` therefore
speaks of backups in the master's own term that have never been master in their
own view; the attempt to prove it for all backups gave three counterexamples,
each confirmed by TLC. (1) Three nodes: n1, master of term 1, has its bucket
(term 1, time 6) confirmed by n3; n3 moves to term 2 and stores the new master's
bucket (2, 5), newer by its term and older by its time, while n1 does not know of
term 2 yet.
(2) Two nodes, three infos: n2, master of term 2, has an operation queued when
n1 is elected again; n2 confirms n1's bucket (3, 9), then runs the operation and
holds (2, 15), which its digest ranks newer by time, over it. (3) Where the
cluster outnumbers the replicas, a backup that drops out of the candidates and
returns within the term has cleared its table, and the master's time for it
stands. In all three anti-entropy compares digests later and resets the time
(`DigestsAnswered`), provided the master's digest is newer by term or time.

*Accumulator.* With four items and batches of two there is a state in which items
wait and no task is scheduled: a task of delay zero runs before it is published,
and its late publication cancels the task a newer item has scheduled. The items
stay until a later one schedules a task, against "maximum number of millis allowed since
the first item before processing is triggered". This is why `ProcessedIfPunctual`
has its premise. The intent manager, the topology provider and the map's gossip
all use the class.

*Flow objectives.* A forward that times out while it waits for a group is dequeued
but stays in `pendingForwards`; when the group appears it is executed after all,
in the middle of later objectives of its queue, although these "are guaranteed to
be executed in order". `OneAtATime` is therefore stated for keys without a
timeout. Its cache entry also replaces that of the executing objective, which
then has no timeout: a silent pipeliner leaves it unanswered. The premise
`~Revived` of `Answered` excludes just that, an entry of an objective that has
timed out and left its queue while another is first in it; with the premise
dropped, TLC finds the second forward of the instance unanswered. A next that
times out while a forward waits for it is no exception: the forward is answered. `onSuccess` tests
`failed` and dequeues later: with a timeout in between a submitter is told both,
and the next objective is executed twice. The notifier's thread ends for good
when a delegate throws a runtime exception.

*Intents.* Events of the pending map that arrive in the other order make `reduce`
keep the older request, which is skipped; the newer one waits for the cleanup. A
rejected purge stays in the pending map, is resubmitted by every cleanup, and
keeps a CORRUPT intent from being retried. A late answer of an installer can bring
a purged intent back, and can keep an accepted purge from having effect
(`NoRequestLost` exempts purges). As a version is drawn before it is put, a
submission that overlaps a purge may enter the pending map after the purge with
the older version; the write of the purge then takes it out and nothing is
installed, which `NoRequestLost` allows for a purge of a later version only. A put
that the map refuses is lost without a trace, again only when it overlaps another
request or a removal. When a compiler throws for an intent that has
no current entry, the handler itself fails and with it the whole batch, other
intents included. Without an installer for any installable nothing ever finishes
the installation.

### Bounds

`MaxTs`, `MaxOps`, `MaxInfos`, `MaxRounds`, `MaxTime` and `MaxFaults` bound how
often clients, mastership, timers and faults act; `MaxUpdates` and `MaxExchanges`
bound what is in flight before the next batch or advertisement leaves. Two writes
are the least that conflict, two replica infos the least that make a failover;
one round contains backup, answer, digest exchange and reset. Three items are the
least that fill a batch of two while another waits; `MaxStalls` bounds how often
the delegate is not ready. Three objectives are the least in which one queue has
a successor and another waits for it; the action constraint `ThreeOfThem` admits
two such choices out of four objectives (all four make 4.9 million states, without
a violation of the invariants). `MaxRequests` bounds the versions up to which
clients, the search for failed intents, CORRUPT events and topology changes start a
request, and `MaxVersion` those of repetitions; two requests are the least that
supersede each other, and two installers the least that can both be last. Every
property has a mutant that these bounds suffice to catch. With one timeout as
well (`MaxFaults = 1`, additions and removals) `FlowTable_failover` has 2.8
million states and no violation; that takes too long for a regular run, so the
run has none. Disconnects and restarts of the map are in `ECMap_recovery` and in
the proofs, which have no bounds. Symmetry under permutation of the nodes (or
installers) is used only in runs without temporal (eventually) properties.
`BackedUpIsThere` is claimed for clusters in which every node may be a replica:
where a node is neither master nor backup, `clear()` empties its table on purpose. Deadlock is not
checked: with the bounds used up a cluster at rest may stop.

### Fairness

*Map* (`Converges`). Weak fairness holds for the accumulators' timers, the
handlers of messages (the executors are not starved), the periodic advertisement
to every peer (a random choice among the peers, repeated for ever) and the return
of a disconnected node; clients, faults, time and purging are not obliged to act.
The property has the premise `[]<>Quiet`, that the network drains again and
again, as it does when messages take less time than the anti-entropy period:
without it null answers and updates can chase each other for ever.

*Accumulator* (`ProcessedIfPunctual`). A thread that has begun `add` ends it, the
timer's thread runs, and a delegate that is not ready becomes ready (the intent
manager's does: `Handled`). Nobody is obliged to add items.

*Flow objectives* (`Answered`). Who waits for the lock gets it, the notifier and
the executors of the caches run, and the periodic `cleanUp` finds every expired
entry. The pipeliner and the pool that calls it are not obliged to act.

*Intents* (`Handled`). A call of `addPending` ends; the listener, the batch executor
and the threads that write run, and so does the periodic cleanup. Installers are not obliged to answer, nor
clients or the topology to act. `Prompt` keeps the cleanup from resubmitting what
is still on its way: without it a repetition may overtake the request for ever.
The bound on versions ends the repetitions, which the property allows for.

## 4. What is proved

`ECMapProofs` proves, for any sets of nodes, keys and values, both map options,
any faults and any bounds:

* `TypeCorrect`: `Spec => []TypeOK`;
* `ReplicasAgree`: `Spec => []Agreement`;
* `RecordsNeverOlder`: `Spec => NeverOlder`.

`Agreement` is not inductive: two nodes with equal timestamps could receive
different records. The inductive invariant `IInv` says where records come from:
timestamps are issued once (`IssuedOnce`), and every record stored
(`ItemsGenuine`), queued (`PendingGenuine`) or in flight (`UpdatesGenuine`), and
every tombstone a digest announces (`AdsGenuine`), is null or one a client wrote
with that timestamp and key. Two records with one timestamp then come from one
write. `Invariance` shows `IInv` inductive with one lemma per group of actions;
the client operations are first reduced to one common shape (`ClientStep`).
`RecordsNeverOlder` uses `IInv` for types only and shows that each way to change
`items` keeps the later timestamp. The only assumption is `ConstantsAssumption`,
which TLC evaluates in every run.

`FlowTableProofs` proves, for any cluster, set of rules, number of backups and
bounds, torn copies and faults included:

* `TypeCorrect`: `Spec => []TypeOK`;
* `ClockCovers`: `Spec => []ClockCoversBuckets`;
* `ChangesRecorded`: `Spec => EveryChangeIsNewer` where clients do not purge
  (`purge` empties a bucket and keeps its digest, so the premise is needed).

`ClockCoversBuckets` is not inductive: a bucket may arrive with any message. The
inductive invariant `IInv` adds `LoadsCovered`, that a message is stamped no
earlier than the bucket or digest it carries. `sendWithTimestamp` stamps past the
sender's clock, which covers its bucket; `receiveWithTimestamp` ticks past the
stamp before the bucket is stored, so the receiver's clock covers it again.
`Invariance` has one lemma per action; each states what the action makes of the
parts of the state it touches, and `Assemble` puts the parts together.
`ChangesRecorded` follows from it: an operation's time is one past a clock that
covers the bucket, and `compute` compares digests before it replaces one. The
only assumption is again `ConstantsAssumption`.

`FlowTableReplicationProofs` proves, for any cluster, rules and bounds, any
number of elections and any faults:

* `TermsOwned`: `Spec => []OInv`, the ownership of terms;
* `DigestsIdentify`: `Spec => []DigestIdentifiesContent` where clients do not
  purge and no `copy()` overlaps a write (with either the property fails);
* `BackupsThere`: `Spec => []BackedUpIsThere` where the cluster is no larger than
  the set of replicas (`Cardinality(Nodes) <= 1 + BackupCount`: no table is
  cleared). Purges and torn copies are included.

That equal digests mean equal entries cannot be seen from digests: nothing in a
step of one node says that no other node stamps the same term and time. `OInv`
adds it. Terms are counted and a term's infos are a contiguous stretch of the
history with one master (`TermsCounted`, `TermsContiguous`); the operations a node
holds, running, queued or being drained, belong to terms it has seen itself
master of (`TasksOwned`); and a copy with a term, held or on the wire, is one the
owner of the term wrote, whose clock is past it (`CopiesOwned`). A write is then
the latest of its term everywhere. The central lemma is `CopiesStep`: what a step
leaves anywhere is an old copy, an empty bucket, the purged or torn form of an old
copy with its digest, or the one bucket an operation wrote.

`BackedUpIsThere` relates a time on the master to a bucket elsewhere, so the
invariant `BInv` follows the backup on its way. `LoadsKnown`: a backup on the wire
is of the sender's current term, or every copy of the current term is later than
it (`Later`: the sender was re-elected meanwhile). `ConfirmedThere`: a time that
was confirmed, still on its way back or already in `lastBackupTimes`, is either
before every copy of the term in this sense, or the backup has seen the term and,
while it is in it, holds a bucket of the term not older than the time.
`TimesCovered` keeps these times behind the sender's clock, so that a write is
later than them. On the backup's side `SyncsByMasters` says that only a node that
has been master synchronizes, and `BackupBehind` that a node that has never been
master holds no bucket of a term it has not reached, so that a request it finds
not newer really is in its bucket. The parts of `OInv` and `BInv` were checked
with TLC before they were proved: exhaustively on two nodes, in the failover
instance and with purges, torn copies and a timeout (2 million states), and by
simulation on three nodes with two backups.

`AccumulatorProofs` proves, for any items, `maxItems` and stalls, and whichever
kinds of task may run early:

* `TypeCorrect`: `Spec => []TypeOK`;
* `Implements`: `Spec => Batches`, that is `Spec => Abstract!Spec` under
  `waiting <- batch \o items`.

A step of the accumulator is a step of `Batching` only if a batch is not
overwritten before it is processed and if an item added is new to it: the
inductive invariant adds what the timer's thread may still have to do while it
holds a batch (`TimerOK`) and that only added items are anywhere (`OnlyAdded`).

`FlowObjectivesProofs` proves, for any objectives, keys and groups:

* `TypeCorrect`: `Spec => []TypeOK`;
* `Notified`: `Spec => []NoLostNotification`;
* `QueuesMove`: `Spec => []HeadInProgress`.

`HeadInProgress` is not inductive: a context that has failed drops all later
answers, so its objective could stay in the queue with nothing left in progress.
`FailedOK` adds that the thread that found it not failed yet is still to dequeue
it; `QueueOK` that an objective is in one queue, once, so that it is gone when it
was dequeued; `CallsOK` that what is put to wait has a group to wait for;
`NotifierOK` and `SubmittedOK` what the notifier is at and that nothing is known
of an objective before it is submitted.

`FlowObjectivesOrderProofs` adds, again for any objectives, keys and groups:

* `ExecutedInOrder`: `Spec => []OneAtATime`.

`OneAtATime` is not inductive: an objective that is dequeued could still be
somewhere else. The invariant adds that, until an objective of the key times out,
an objective is in one place and there once (`Alone`: the pool, the pipeliner, an
answer under way, a call of one of the two threads, or waiting for a group), that
one which has failed is only left to be dequeued (`Settled`), and that what waits
is found under its group and where its kind waits (`PendingOK`), so that it is
released or failed once.

`IntentsProofs` proves, for any installers, thresholds and bounds:

* `TypeCorrect`: `Spec => []TypeOK`;
* `MovesForward`: `Spec => CurrentMovesForward`;
* `RequestsKept`: `Spec => NoRequestLost`;
* `OutcomesReported`: `Spec => []OutcomeIsReported`.

`CurrentMovesForward` rests on the timestamps of the current map (`StampOK`): the
check in `write` does not protect it, as another thread may write between check
and put. `NoRequestLost` needs no order between the versions
that are pending: a request is taken out by a write of its own or a later version,
and that write, unless it is a purge, either reaches the current map or is rejected
because the map is not behind it (`VerdictOK` says so of a rejection, with
`StampOK` for what the map has been through since). The state is typed over `Known`: no
data has a version that was not drawn, data of the pending or a drawn version has
that one's request, and only the data of a purge is in state PURGE_REQ. `OutcomeIsReported` needs that a version
is in one place of the queue and is installed once (`OnceOK`, `BatchOK`), that an
installer that has not answered is among the pending contexts (`JobsOK`), that
every INSTALLED or WITHDRAWN data that is stored, read or about to be written
stems from an installation that is complete (`OutOK`), and that nothing requested
is such an outcome (`AskOK`). The two lemmas `SequenceFacts` adds to the library
most often cited are the elements of a concatenation and of a tail. The
assumptions are those named in the three modules, which TLC evaluates in their
runs.

Every safety property of a passing run is thus a theorem. Only model-checked are
the liveness properties `Converges`, `ProcessedIfPunctual`, `Answered` and
`Handled`: liveness under fairness and `ENABLED` are out of the prover's reach.
Three theorems have premises on the constants: `ChangesRecorded`,
`DigestsIdentify` and `BackupsThere`. The instance of `FlowTable_failover`
satisfies them all, and TLC finds each of the three properties violated in that
instance when its premise is dropped (with purges, with torn copies, and with a
third node).

## 5. What is not modelled, and the plan

The components of the inventory without a module are listed in `PROJECT.json`
with the reason. In order of importance:

1. **FlowTable, continued**: restart of a node with an empty table and a clock
   at zero; the fate of every queued operation (also those `AddToTaken` loses),
   with a property over their futures.
2. **Mastership**: roles, delayed transfers and relinquishing over leader
   election; composed with `FlowTable` in place of its external actions. Work
   partitions over the same election, composed with `Intents`, whose master may
   then change.
3. **Flow rule manager, groups, meters, resources**: stages of an operation set,
   requests kept until a device's first audit, identifiers that are never handed
   out twice, transactional allocation.
4. **Device store and manager**: provider-stamped descriptions and availability.
5. **Failure detector**: as a state machine over a non-deterministic phi; its
   floating-point statistics are outside TLC's arithmetic.

Theorems planned: what remains true of a backup's bucket when the backup has been
master or its table was cleared, stated with the digest exchange that repairs it;
that an operation `runInTerm` accepted is run, queued or lost only in
`AddToTaken`.

Left aside for good: Atomix (not in this repository), device drivers and
southbound encodings, command line, REST, GUI and applications, which are clients
of the core, and the vendored `node-js` tree. The C and C++ files of that tree (OpenSSL,
V8, libuv) are the only C or C++ sources of the repository: the controller itself
is written in Java, and all of the lines modelled here are Java.

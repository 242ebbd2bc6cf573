----------------------------- MODULE FlowTable -----------------------------
(***************************************************************************)
(* The replicated flow table of one device (DeviceFlowTable) on every      *)
(* controller node, with the lifecycle manager of ECFlowRuleStore that     *)
(* feeds it mastership changes.                                            *)
(*                                                                         *)
(* The table is an array of buckets that are replicated independently; the *)
(* module keeps one of them.  The device's master writes it, stamping each *)
(* change with the mastership term and a Lamport time, and backs it up to  *)
(* the term's backups.  Anti-entropy compares digests and re-arms backups. *)
(* A new master first fetches newer buckets from the previous master, or   *)
(* from the previous backups when that fails, and queues its clients'      *)
(* writes until then.                                                      *)
(*                                                                         *)
(* Three kinds of thread act on a node: clients (runInTerm, purge), the    *)
(* table's OrderedExecutor, which runs one job at a time (the actions that *)
(* require Free), and the threads that deliver events and answers.         *)
(* Lifecycle events keep their order on the executor; a message handled    *)
(* before a queued event is one that reached the executor's queue first.   *)
(***************************************************************************)
EXTENDS Naturals, Sequences, FiniteSets, Functions

CONSTANTS
  Nodes,        \* controller nodes
  Rules,        \* flow rules that hash to the bucket
  NoNode,       \* no master
  BackupCount,  \* ECFlowRuleStore.backupCount
  Operations,   \* client operations a run allows, a subset of AllOperations
  TornCopies,   \* whether copy(), which takes no lock, may overlap a write
  MaxInfos,     \* bound: replica infos, the first included
  MaxOps,       \* bound: client operations
  MaxRounds,    \* bound: anti-entropy rounds
  MaxFaults     \* bound: requests that fail or time out

AllOperations == {"add", "update", "remove", "purge"}

ASSUME ConstantsAssumption ==
  /\ NoNode \notin Nodes
  /\ IsFiniteSet(Nodes)
  /\ BackupCount \in Nat
  /\ Operations \subseteq AllOperations
  /\ TornCopies \in BOOLEAN
  /\ MaxInfos \in Nat \ {0}
  /\ MaxOps \in Nat
  /\ MaxRounds \in Nat
  /\ MaxFaults \in Nat

VARIABLES
  infos,       \* the replica infos mastership has produced, in order
  lifecycles,  \* the terms put in the mastershipTermLifecycles map, in order
  spent,       \* client operations, rounds and faults so far
  view,        \* view[n]: index of the lifecycle manager's replicaInfo
  noticed,     \* noticed[n]: entries of lifecycles delivered to n
  events,      \* events[n]: lifecycle events and finished synchronizations
               \* waiting for the executor
  table,       \* table[n]: index of the table's own replicaInfo
  activeTerm,  \* activeTerm[n]
  activating,  \* activating[n]: info activateMaster is activating, 0 if none
  drain,       \* drain[n]: queued operations activateBucket still has to run
  bucket,      \* bucket[n]: the FlowBucket in flowBuckets
  flowTasks,   \* flowTasks[n]: operations queued until activation
  client,      \* client[n]: the operation inside runInTerm
  clock,       \* clock[n]: the LogicalClock
  lastBackup,  \* lastBackupTimes[n][m], 0 if none
  inFlight,    \* inFlightUpdates[n]: peers with a backup in progress
  rounds,      \* rounds[n]: anti-entropy exchanges waiting for backups
  syncs,       \* syncs[n]: synchronizations n waits for as a new master
  msgs         \* requests and answers on the wire

mastership == <<infos, lifecycles>>
lifecycle  == <<view, noticed, events>>
terms      == <<table, activeTerm, activating, drain>>
store      == <<bucket, flowTasks, client>>
backups    == <<lastBackup, inFlight, rounds>>
net        == <<clock, msgs>>
vars       == <<mastership, lifecycle, terms, store, backups, syncs, net,
                spent>>

-----------------------------------------------------------------------------
(* FlowBucket, FlowBucketDigest and LogicalClock *)

EntryStates == {"none", "added", "updated"}
Content     == [Rules -> EntryStates]
NoRules     == [r \in Rules |-> "none"]
Bucket      == [term : Nat, ts : Nat, rules : Content]

\* A new bucket, and what clear() makes of one.
EmptyBucket == [term |-> 0, ts |-> 0, rules |-> NoRules]

\* FlowBucket.purge(): the digest stays.
purge(b) == [b EXCEPT !.rules = NoRules]

digest(b) == [b EXCEPT !.rules = NoRules]

\* FlowBucketDigest.isNewerThan: a later term or a later time.
isNewerThan(d, e) == d.term > e.term \/ d.ts > e.ts

\* An update or a removal of a rule that is not in the bucket does nothing.
Applies(b, t) == t.op = "add" \/ b.rules[t.rule] # "none"

Changed(b, t) ==
  [b EXCEPT !.rules[t.rule] = CASE t.op = "add"    -> "added"
                                [] t.op = "update" -> "updated"
                                [] OTHER           -> "none"]

\* Mutated form of Recorded: a removal is not recorded on the bucket.
RecordedUnlessRemoved(b, t, time) ==
  IF t.op = "remove" THEN Changed(b, t)
  ELSE [Changed(b, t) EXCEPT !.term = t.term, !.ts = time]

\* FlowBucket.add, update and remove end in recordUpdate.
Recorded(b, t, time) == [Changed(b, t) EXCEPT !.term = t.term, !.ts = time]

\* Mutated form of tick: a received time does not move the clock.
tickIgnored(n, time) == clock[n]

\* LogicalClock.tick(timestamp).
tick(n, time) == (IF clock[n] > time THEN clock[n] ELSE time) + 1

-----------------------------------------------------------------------------
(* Replica infos, operations, synchronizations and messages *)

Info(n)   == infos[view[n]]
LastInfo  == infos[Len(infos)]
TermOf(i) == infos[i].term

\* Mutated form of BackupsOf: the list is not cut.
BackupsOfUncut(m) == SUBSET (Nodes \ {m})

\* The lists of backups are cut at BackupCount (toDeviceReplicaInfo).
BackupsOf(m) == {B \in SUBSET (Nodes \ {m}) : Cardinality(B) <= BackupCount}

IsReplica(n, i) == infos[i].master = n \/ n \in infos[i].backups

\* Tables are cleared only where the cluster outnumbers the replicas.
MustClear(n, i) == ~IsReplica(n, i) /\ Cardinality(Nodes) > 1 + BackupCount

Free(n) == activating[n] = 0

NoTask == [op |-> "idle"]

\* A client holds the lock of the bucket.
Locked(n) ==
  client[n] # NoTask /\ client[n].mode = "writing" /\ ~client[n].stale

\* Operations that hold the bucket object that compute() has just replaced.
Orphaned(s) == [i \in DOMAIN s |-> [s[i] EXCEPT !.stale = TRUE]]

\* flowBuckets.compute() in onBackup and syncBucketOn.
compute(n, b) ==
  IF isNewerThan(b, bucket[n])
  THEN /\ bucket' = [bucket EXCEPT ![n] = b]
       /\ flowTasks' = [flowTasks EXCEPT ![n] = Orphaned(@)]
       /\ client' = IF client[n] = NoTask THEN client
                    ELSE [client EXCEPT ![n].stale = TRUE]
  ELSE UNCHANGED store

\* The requests n sends to peers one after the other, stamped by its clock.
Requests(n, peers, type, at, load, base) ==
  {{[type |-> type, reply |-> FALSE, from |-> n, to |-> p, at |-> at,
     ts |-> stamp[p], load |-> load, ok |-> FALSE, cb |-> TRUE] : p \in peers} :
      stamp \in Bijection(peers, (base + 1)..(base + Cardinality(peers)))}

\* sendWithTimestamp, once per peer.
Send(n, peers, type, at, load) ==
  /\ clock' = [clock EXCEPT ![n] = @ + Cardinality(peers)]
  /\ \E new \in Requests(n, peers, type, at, load, clock[n]) :
       msgs' = msgs \cup new

\* receiveWithTimestamp: tick, handle, stamp the answer.  Nobody waits for the
\* answer of a request that has timed out.
Answer(n, m, load, ok) ==
  LET time == tick(n, m.ts) + 1 IN
  /\ clock' = [clock EXCEPT ![n] = time]
  /\ msgs' = (msgs \ {m}) \cup
             (IF m.cb
              THEN {[type |-> m.type, reply |-> TRUE, from |-> n,
                     to |-> m.from, at |-> m.at, ts |-> time, load |-> load,
                     ok |-> ok, cb |-> TRUE]}
              ELSE {})

\* The answer m reaches the node that asked.
Accept(n, m) ==
  /\ clock' = [clock EXCEPT ![n] = tick(n, m.ts)]
  /\ msgs' = msgs \ {m}

IsRequest(n, m, type) == m.to = n /\ ~m.reply /\ m.type = type
IsAnswer(n, m, type)  == m.to = n /\ m.reply /\ m.type = type

\* One more of a bounded kind of step.
Spend(kind, max) ==
  /\ spent[kind] < max
  /\ spent' = [spent EXCEPT ![kind] = @ + 1]

\* The executor's queue with a job more.
Posted(queue, type, at, prev) ==
  Append(queue, [type |-> type, at |-> at, prev |-> prev])

\* One source of synchronization `at' has succeeded, and the first is enough:
\* its completion is queued on the executor.
Succeed(n, at) ==
  LET done == {s \in syncs[n] : s.at = at} IN
  /\ syncs' = [syncs EXCEPT ![n] = @ \ done]
  /\ events' = IF done = {} THEN events
               ELSE [events EXCEPT ![n] = Posted(@, "SYNCED", at, 0)]

\* Source p has failed: with the last one the synchronization is over, on the
\* previous master in failure, on the backups as if it had succeeded.
Fail(n, at, p) ==
  LET hit == {s \in syncs[n] : s.at = at /\ p \in s.left}
      out == {s \in hit : s.left = {p}}
  IN /\ syncs' = [syncs EXCEPT ![n] =
          (@ \ hit) \cup {[s EXCEPT !.left = @ \ {p}] : s \in hit \ out}]
     /\ \/ out = {} /\ UNCHANGED events
        \/ \E s \in out :
             events' = [events EXCEPT ![n] =
               Posted(@, IF s.onMaster THEN "SYNC_FAILED" ELSE "SYNCED",
                      s.at, s.prev)]

-----------------------------------------------------------------------------
(* Mastership, external: leader election and its candidate list *)

AddInfo(term, m, B) ==
  /\ Len(infos) < MaxInfos
  /\ infos' = Append(infos, [term |-> term, master |-> m, backups |-> B])
  /\ UNCHANGED <<lifecycles, lifecycle, terms, store, backups, syncs, net,
                 spent>>

NextTerm == 1 + Cardinality({TermOf(i) : i \in 1..Len(infos)} \ {0})

ElectMaster ==
  \E m \in Nodes : \E B \in BackupsOf(m) : AddInfo(NextTerm, m, B)

\* Also a second report of the same info: a change of leader and candidates is
\* notified once as BACKUPS_CHANGED and once as MASTER_CHANGED.
ChangeBackups ==
  /\ LastInfo.master # NoNode
  /\ \E B \in BackupsOf(LastInfo.master) :
       AddInfo(LastInfo.term, LastInfo.master, B)

\* Without a leader the term is reported as 0.
LoseMaster ==
  /\ LastInfo.master # NoNode
  /\ \E B \in BackupsOf(NoNode) : AddInfo(0, NoNode, B)

-----------------------------------------------------------------------------
(* InternalLifecycleManager *)

Post(n, type, at) == events' = [events EXCEPT ![n] = Posted(@, type, at, 0)]

\* A lower term, as 0 is, replaces the info without an event.
OnReplicaInfoChange(n) ==
  LET at == view[n] + 1 IN
  /\ at <= Len(infos)
  /\ view' = [view EXCEPT ![n] = at]
  /\ CASE TermOf(view[n]) < TermOf(at) -> Post(n, "TERM_START", at)
       [] TermOf(view[n]) = TermOf(at) -> Post(n, "TERM_UPDATE", at)
       [] OTHER                        -> UNCHANGED events
  /\ UNCHANGED <<mastership, noticed, terms, store, backups, syncs, net,
                 spent>>

\* The map's event is reported while its term is still the current one.
OnActivate(n) ==
  /\ noticed[n] < Len(lifecycles)
  /\ noticed' = [noticed EXCEPT ![n] = @ + 1]
  /\ IF lifecycles[noticed[n] + 1] = LastInfo.term
     THEN Post(n, "TERM_ACTIVE", Len(infos))
     ELSE UNCHANGED events
  /\ UNCHANGED <<mastership, view, terms, store, backups, syncs, net, spent>>

-----------------------------------------------------------------------------
(* Terms: onLifecycleEvent, syncFlows and activateMaster *)

NextJob(n, type) == Free(n) /\ events[n] # <<>> /\ Head(events[n]).type = type

Done(n) == events' = [events EXCEPT ![n] = Tail(@)]

\* syncFlowsOn: ask the peers for their digests; without any it is over.  The
\* running job has left the queue.
SyncFlowsOn(n, peers, at, prev, onMaster) ==
  /\ Send(n, peers, "digests", at, EmptyBucket)
  /\ \/ /\ peers = {} /\ UNCHANGED syncs
        /\ events' = [events EXCEPT ![n] = Posted(Tail(@), "SYNCED", at, 0)]
     \/ /\ peers # {}
        /\ syncs' = [syncs EXCEPT ![n] = @ \cup
          {[at |-> at, prev |-> prev, left |-> peers, onMaster |-> onMaster]}]
        /\ Done(n)

SyncFlowsOnBackups(n, at, prev) ==
  SyncFlowsOn(n, infos[prev].backups \ {n}, at, prev, FALSE)

StartTerm(n) ==
  /\ NextJob(n, "TERM_START")
  /\ LET at     == Head(events[n]).at
         prev   == table[n]
         master == infos[prev].master
     IN /\ table' = [table EXCEPT ![n] = at]
        /\ \/ infos[at].master # n /\ Done(n) /\ UNCHANGED <<syncs, net>>
           \/ /\ infos[at].master = n
              /\ master \notin {n, NoNode}
              /\ SyncFlowsOn(n, {master}, at, prev, TRUE)
           \/ /\ infos[at].master = n
              /\ master \in {n, NoNode}
              /\ SyncFlowsOnBackups(n, at, prev)
  /\ UNCHANGED <<mastership, view, noticed, activeTerm, activating, drain,
                 store, backups, spent>>

\* The previous master failed to answer.
FallBack(n) ==
  /\ NextJob(n, "SYNC_FAILED")
  /\ SyncFlowsOnBackups(n, Head(events[n]).at, Head(events[n]).prev)
  /\ UNCHANGED <<mastership, view, noticed, terms, store, backups, spent>>

UpdateTerm(n) ==
  /\ NextJob(n, "TERM_UPDATE")
  /\ Done(n)
  /\ LET at == Head(events[n]).at IN
     IF TermOf(at) = TermOf(table[n])
     THEN /\ table' = [table EXCEPT ![n] = at]
          /\ IF activeTerm[n] = TermOf(at) /\ MustClear(n, at)
             THEN bucket' = [bucket EXCEPT ![n] = EmptyBucket]
             ELSE UNCHANGED bucket
     ELSE UNCHANGED <<table, bucket>>
  /\ UNCHANGED <<mastership, view, noticed, activeTerm, activating, drain,
                 flowTasks, client, backups, syncs, net, spent>>

ActivateTerm(n) ==
  /\ NextJob(n, "TERM_ACTIVE")
  /\ Done(n)
  /\ LET at == Head(events[n]).at IN
     IF TermOf(at) < TermOf(table[n])
     THEN UNCHANGED <<table, bucket, activeTerm>>
     ELSE /\ table' = IF TermOf(at) > TermOf(table[n])
                      THEN [table EXCEPT ![n] = at] ELSE table
          /\ bucket' = IF MustClear(n, at)
                       THEN [bucket EXCEPT ![n] = EmptyBucket] ELSE bucket
          /\ activeTerm' = [activeTerm EXCEPT ![n] = TermOf(at)]
  /\ UNCHANGED <<mastership, view, noticed, activating, drain, flowTasks,
                 client, backups, syncs, net, spent>>

\* activateMaster begins: activateBucket takes the queue.  A client that is
\* about to queue may already hold that very list.
ActivateMaster(n) ==
  /\ NextJob(n, "SYNCED")
  /\ Done(n)
  /\ activating' = [activating EXCEPT ![n] = Head(events[n]).at]
  /\ drain' = [drain EXCEPT ![n] = flowTasks[n]]
  /\ flowTasks' = [flowTasks EXCEPT ![n] = <<>>]
  /\ client' = IF client[n] # NoTask /\ client[n].mode \in {"enqueue", "late"}
               THEN [client EXCEPT ![n].mode = "raced"] ELSE client
  /\ UNCHANGED <<mastership, view, noticed, table, activeTerm, bucket,
                 backups, syncs, net, spent>>

\* One operation on the bucket object it holds.  An orphaned bucket is out of
\* reach; only the clock is shared.  An update or removal may do nothing:
\* the rule is missing or was created later.
Run(n, t) ==
  \/ /\ clock' = [clock EXCEPT ![n] = @ + 1]
     /\ \/ t.stale /\ UNCHANGED bucket
        \/ /\ ~t.stale
           /\ Applies(bucket[n], t)
           /\ bucket' = [bucket EXCEPT ![n] = Recorded(@, t, clock[n] + 1)]
  \/ t.op # "add" /\ UNCHANGED <<bucket, clock>>

RunEnqueued(n) ==
  /\ ~Free(n)
  /\ drain[n] # <<>>
  /\ ~Locked(n)
  /\ Run(n, Head(drain[n]))
  /\ drain' = [drain EXCEPT ![n] = Tail(@)]
  /\ UNCHANGED <<mastership, lifecycle, table, activeTerm, activating,
                 flowTasks, client, backups, syncs, msgs, spent>>

\* The rest of activateMaster: lifecycleManager.activate, then activeTerm.
FinishActivation(n) ==
  LET term == TermOf(activating[n]) IN
  /\ ~Free(n)
  /\ drain[n] = <<>>
  /\ lifecycles' = IF term = LastInfo.term THEN Append(lifecycles, term)
                   ELSE lifecycles
  /\ activeTerm' = [activeTerm EXCEPT ![n] = term]
  /\ activating' = [activating EXCEPT ![n] = 0]
  /\ client' = IF client[n] # NoTask /\ client[n].mode = "raced"
               THEN [client EXCEPT ![n].mode = "late"] ELSE client
  /\ UNCHANGED <<infos, lifecycle, table, drain, bucket, flowTasks, backups,
                 syncs, net, spent>>

-----------------------------------------------------------------------------
(* Clients: runInTerm and purge *)

\* The first half of runInTerm reads the replica info, the bucket object and
\* activeTerm.  Bound: one client of a node at a time is between the halves.
RunInTerm(n) ==
  /\ Spend("ops", MaxOps)
  /\ client[n] = NoTask
  /\ Info(n).master = n
  /\ \E op \in Operations \ {"purge"}, r \in Rules :
       client' = [client EXCEPT ![n] =
         [op |-> op, rule |-> r, term |-> Info(n).term, stale |-> FALSE,
          mode |-> IF activeTerm[n] < Info(n).term THEN "enqueue" ELSE "apply"]]
  /\ UNCHANGED <<mastership, lifecycle, terms, bucket, flowTasks, backups,
                 syncs, net>>

Return(n) == client' = [client EXCEPT ![n] = NoTask]

\* Half way through a write the entry is in the bucket and the update not yet
\* recorded: only an unlocked reader can tell.
BeginWrite(n) ==
  /\ TornCopies
  /\ client[n] # NoTask
  /\ client[n].mode = "apply"
  /\ ~client[n].stale
  /\ Applies(bucket[n], client[n])
  /\ client' = [client EXCEPT ![n].mode = "writing"]
  /\ UNCHANGED <<mastership, lifecycle, terms, bucket, flowTasks, backups,
                 syncs, net, spent>>

\* The second half of runInTerm: the operation runs under the bucket's lock ...
Apply(n) ==
  /\ client[n] # NoTask
  /\ client[n].mode \in {"apply", "writing"}
  /\ Run(n, client[n])
  /\ client[n].mode = "writing" => clock'[n] # clock[n]
  /\ Return(n)
  /\ UNCHANGED <<mastership, lifecycle, terms, flowTasks, backups, syncs,
                 msgs, spent>>

\* ... or is queued ...
Enqueue(n) ==
  /\ client[n] # NoTask
  /\ client[n].mode \in {"enqueue", "raced", "late"}
  /\ flowTasks' = [flowTasks EXCEPT ![n] =
                     Append(@, [client[n] EXCEPT !.mode = "enqueue"])]
  /\ Return(n)
  /\ UNCHANGED <<mastership, lifecycle, terms, bucket, backups, syncs, net,
                 spent>>

\* ... or is added to the list activateBucket has taken, which takes no lock:
\* nobody sees it any more, or the iteration still reaches it, or it ends
\* activateMaster with a ConcurrentModificationException.
AddToTaken(n) ==
  /\ client[n] # NoTask
  /\ client[n].mode \in {"raced", "late"}
  /\ Return(n)
  /\ \/ UNCHANGED <<activating, drain>>
     \/ /\ client[n].mode = "raced"
        /\ drain' = [drain EXCEPT ![n] =
                       Append(@, [client[n] EXCEPT !.mode = "enqueue"])]
        /\ UNCHANGED activating
     \/ /\ client[n].mode = "raced"
        /\ drain' = [drain EXCEPT ![n] = <<>>]
        /\ activating' = [activating EXCEPT ![n] = 0]
  /\ UNCHANGED <<mastership, lifecycle, table, activeTerm, bucket, flowTasks,
                 backups, syncs, net, spent>>

Purge(n) ==
  /\ Spend("ops", MaxOps)
  /\ "purge" \in Operations
  /\ flowTasks' = [flowTasks EXCEPT ![n] = <<>>]
  /\ bucket' = [bucket EXCEPT ![n] = purge(@)]
  /\ lastBackup' = [lastBackup EXCEPT ![n] = [m \in Nodes |-> 0]]
  /\ inFlight' = [inFlight EXCEPT ![n] = {}]
  /\ UNCHANGED <<mastership, lifecycle, terms, client, rounds, syncs, net>>

-----------------------------------------------------------------------------
(* Backups and anti-entropy *)

\* startBackup admits a peer with changes pending and no backup in progress.
startBackup(n, m) ==
  /\ bucket[n].term = Info(n).term
  /\ lastBackup[n][m] < bucket[n].ts
  /\ m \notin inFlight[n]

\* runAntiEntropy backs up, to every backup, once per backup: what the first
\* call starts is in progress for the others.  Bound: one round at a time.
\* scheduleBackups, which the constructor calls, backs up every bucket once and
\* once more a period later: that counts as a round, and that the second backup
\* keeps a bucket object that may have been replaced is left out.
RunAntiEntropy(n) ==
  LET peers   == Info(n).backups
      started == {m \in peers : startBackup(n, m)}
  IN /\ Free(n)
     /\ Info(n).master = n
     /\ started # {} => ~Locked(n)
     /\ Spend("rounds", MaxRounds)
     /\ rounds[n] = {}
     /\ Send(n, started, "backup", 0, bucket[n])
     /\ inFlight' = [inFlight EXCEPT ![n] = @ \cup started]
     /\ \E first \in peers :
          rounds' = [rounds EXCEPT ![n] =
            {[peer |-> p, left |-> IF p = first THEN started ELSE {}] :
               p \in peers}]
     /\ UNCHANGED <<mastership, lifecycle, terms, store, lastBackup, syncs>>

\* The backups a round started are all settled.
AskDigests(n) ==
  /\ Free(n)
  /\ \E r \in rounds[n] :
       /\ r.left = {}
       /\ rounds' = [rounds EXCEPT ![n] = @ \ {r}]
       /\ Send(n, {r.peer}, "digests", 0, EmptyBucket)
  /\ UNCHANGED <<mastership, lifecycle, terms, store, lastBackup, inFlight,
                 syncs, spent>>

OnBackup(n) ==
  /\ Free(n)
  /\ \E m \in msgs :
       LET sameTerm == m.load.term = Info(n).term IN
       /\ IsRequest(n, m, "backup")
       /\ Answer(n, m, m.load, sameTerm)
       /\ IF sameTerm THEN compute(n, m.load) ELSE UNCHANGED store
  /\ UNCHANGED <<mastership, lifecycle, terms, backups, syncs, spent>>

\* Mutated form of Settle: a refused backup counts as done.
SettleRefused(n, m, peer, succeeded) ==
  /\ inFlight' = [inFlight EXCEPT ![n] = @ \ {peer}]
  /\ lastBackup' = [lastBackup EXCEPT ![n][peer] = m.load.ts]
  /\ rounds' = [rounds EXCEPT ![n] =
                  {[r EXCEPT !.left = @ \ {peer}] : r \in @}]

\* A backup has settled: failBackup, or succeedBackup with the bucket's time.
Settle(n, m, peer, succeeded) ==
  /\ inFlight' = [inFlight EXCEPT ![n] = @ \ {peer}]
  /\ lastBackup' = IF succeeded THEN [lastBackup EXCEPT ![n][peer] = m.load.ts]
                   ELSE lastBackup
  /\ rounds' = [rounds EXCEPT ![n] =
                  {[r EXCEPT !.left = @ \ {peer}] : r \in @}]

BackupAnswered(n) ==
  /\ Free(n)
  /\ \E m \in msgs :
       /\ IsAnswer(n, m, "backup")
       /\ Accept(n, m)
       /\ Settle(n, m, m.from, m.ok)
  /\ UNCHANGED <<mastership, lifecycle, terms, store, syncs, spent>>

\* getDigests and onGetBucket.
OnGetDigests(n) ==
  /\ Free(n)
  /\ \E m \in msgs :
       IsRequest(n, m, "digests") /\ Answer(n, m, digest(bucket[n]), TRUE)
  /\ UNCHANGED <<mastership, lifecycle, terms, store, backups, syncs, spent>>

\* What copy() may return: it reads the term, the time and the entries one by
\* one and takes no lock.  The model has one overlap, with a write that has
\* entered its rule and not recorded its term and time.  Left out: a copy that
\* reads the term before and the time after recordUpdate or between its two
\* assignments, one that spans several writes, and update(), which records
\* before its entry can be seen.
copies(n) ==
  {bucket[n]} \cup (IF Locked(n) THEN {Changed(bucket[n], client[n])} ELSE {})

OnGetBucket(n) ==
  /\ Free(n)
  /\ \E m \in msgs, copy \in copies(n) :
       IsRequest(n, m, "bucket") /\ Answer(n, m, copy, TRUE)
  /\ UNCHANGED <<mastership, lifecycle, terms, store, backups, syncs, spent>>

\* Anti-entropy: resetBackup where the local digest is newer.
DigestsAnswered(n) ==
  /\ Free(n)
  /\ \E m \in msgs :
       /\ IsAnswer(n, m, "digests")
       /\ m.at = 0
       /\ Accept(n, m)
       /\ lastBackup' = IF isNewerThan(bucket[n], m.load)
                        THEN [lastBackup EXCEPT ![n][m.from] = 0]
                        ELSE lastBackup
  /\ UNCHANGED <<mastership, lifecycle, terms, store, inFlight, rounds,
                 syncs, spent>>

\* Synchronization: the digests are compared off the executor, and a newer
\* bucket is requested.
SyncDigestsAnswered(n) ==
  /\ \E m \in msgs :
       /\ IsAnswer(n, m, "digests")
       /\ m.at > 0
       /\ IF isNewerThan(m.load, bucket[n])
          THEN /\ clock' = [clock EXCEPT ![n] = tick(n, m.ts) + 1]
               /\ \E new \in Requests(n, {m.from}, "bucket", m.at, EmptyBucket,
                                      tick(n, m.ts)) :
                    msgs' = (msgs \ {m}) \cup new
               /\ UNCHANGED <<syncs, events>>
          ELSE Accept(n, m) /\ Succeed(n, m.at)
  /\ UNCHANGED <<mastership, view, noticed, terms, store, backups, spent>>

\* The bucket arrives, even for a synchronization that is over.
SyncBucketAnswered(n) ==
  /\ Free(n)
  /\ \E m \in msgs :
       /\ IsAnswer(n, m, "bucket")
       /\ Accept(n, m)
       /\ compute(n, m.load)
       /\ Succeed(n, m.at)
  /\ UNCHANGED <<mastership, view, noticed, terms, backups, spent>>

-----------------------------------------------------------------------------
(* Failures: a request or its answer is lost or late.  The request itself   *)
(* may still be handled.                                                     *)

TimeOut(n, m) ==
  LET peer == IF m.reply THEN m.from ELSE m.to IN
  /\ Spend("faults", MaxFaults)
  /\ m.cb
  /\ n = IF m.reply THEN m.to ELSE m.from
  /\ msgs' = (msgs \ {m}) \cup
             (IF m.reply THEN {} ELSE {[m EXCEPT !.cb = FALSE]})
  /\ \/ /\ m.type = "backup"
        /\ Free(n)
        /\ Settle(n, m, peer, FALSE)
        /\ UNCHANGED <<syncs, events>>
     \/ /\ m.type # "backup"
        /\ IF m.at > 0 THEN Fail(n, m.at, peer) ELSE UNCHANGED <<syncs, events>>
        /\ UNCHANGED backups
  /\ UNCHANGED <<mastership, view, noticed, terms, store, clock>>

-----------------------------------------------------------------------------
(* Every node has built its table in the first term, whose activation it     *)
(* has handled.                                                              *)

Init ==
  /\ infos \in {<<[term |-> 1, master |-> m, backups |-> B]>> :
                  m \in Nodes, B \in SUBSET Nodes}
  /\ infos[1].backups \in BackupsOf(infos[1].master)
  /\ lifecycles = <<1>>
  /\ spent = [ops |-> 0, rounds |-> 0, faults |-> 0]
  /\ view = [n \in Nodes |-> 1]
  /\ noticed = [n \in Nodes |-> 1]
  /\ events = [n \in Nodes |-> <<>>]
  /\ table = [n \in Nodes |-> 1]
  /\ activeTerm = [n \in Nodes |-> 1]
  /\ activating = [n \in Nodes |-> 0]
  /\ drain = [n \in Nodes |-> <<>>]
  /\ bucket = [n \in Nodes |-> EmptyBucket]
  /\ flowTasks = [n \in Nodes |-> <<>>]
  /\ client = [n \in Nodes |-> NoTask]
  /\ clock = [n \in Nodes |-> 0]
  /\ lastBackup = [n \in Nodes |-> [m \in Nodes |-> 0]]
  /\ inFlight = [n \in Nodes |-> {}]
  /\ rounds = [n \in Nodes |-> {}]
  /\ syncs = [n \in Nodes |-> {}]
  /\ msgs = {}

Executor(n) ==
  \/ StartTerm(n) \/ UpdateTerm(n) \/ ActivateTerm(n)
  \/ FallBack(n) \/ ActivateMaster(n) \/ RunEnqueued(n) \/ FinishActivation(n)
  \/ RunAntiEntropy(n) \/ AskDigests(n)
  \/ OnBackup(n) \/ OnGetDigests(n) \/ OnGetBucket(n)
  \/ BackupAnswered(n) \/ DigestsAnswered(n) \/ SyncBucketAnswered(n)

Client(n) ==
  \/ RunInTerm(n) \/ BeginWrite(n) \/ Apply(n) \/ Enqueue(n) \/ AddToTaken(n)
  \/ Purge(n)

Next ==
  \/ ElectMaster \/ ChangeBackups \/ LoseMaster
  \/ \E n \in Nodes : \/ OnReplicaInfoChange(n) \/ OnActivate(n)
                      \/ Executor(n) \/ Client(n) \/ SyncDigestsAnswered(n)
                      \/ \E m \in msgs : TimeOut(n, m)

Spec == Init /\ [][Next]_vars

-----------------------------------------------------------------------------
(* Properties *)

ReplicaInfo == [term : Nat, master : Nodes \cup {NoNode},
                backups : {B \in SUBSET Nodes : Cardinality(B) <= BackupCount}]

Indexes == 1..Len(infos)
Task    == [op : AllOperations \ {"purge"}, rule : Rules, term : Nat,
            stale : BOOLEAN, mode : {"apply", "writing", "enqueue", "raced",
                                      "late"}]
Job     == [type : {"TERM_START", "TERM_UPDATE", "TERM_ACTIVE", "SYNCED"},
            at : Indexes, prev : {0}]
           \cup [type : {"SYNC_FAILED", "SYNCED"}, at : Indexes, prev : Indexes]
Message == [type : {"digests", "bucket", "backup"}, reply : BOOLEAN,
            from : Nodes, to : Nodes, at : {0} \cup Indexes, ts : Nat,
            load : Bucket, ok : BOOLEAN, cb : BOOLEAN]
Sync    == [at : Indexes, prev : Indexes, left : SUBSET Nodes,
            onMaster : BOOLEAN]

MastershipOK ==
  /\ infos \in Seq(ReplicaInfo)
  /\ infos # <<>>
  /\ lifecycles \in Seq(Nat)

LifecycleOK ==
  /\ view \in [Nodes -> Indexes]
  /\ noticed \in [Nodes -> 1..Len(lifecycles)]
  /\ events \in [Nodes -> Seq(Job)]

TermsOK ==
  /\ table \in [Nodes -> Indexes]
  /\ activeTerm \in [Nodes -> Nat]
  /\ activating \in [Nodes -> {0} \cup Indexes]
  /\ drain \in [Nodes -> Seq(Task)]

StoreOK ==
  /\ bucket \in [Nodes -> Bucket]
  /\ flowTasks \in [Nodes -> Seq(Task)]
  /\ client \in [Nodes -> Task \cup {NoTask}]

BackupsOK ==
  /\ lastBackup \in [Nodes -> [Nodes -> Nat]]
  /\ inFlight \in [Nodes -> SUBSET Nodes]
  /\ rounds \in [Nodes -> SUBSET [peer : Nodes, left : SUBSET Nodes]]

NetOK ==
  /\ clock \in [Nodes -> Nat]
  /\ msgs \in SUBSET Message

\* Every variable keeps its type; indexes stay inside the histories they point
\* to, and no replica info has more backups than configured.
TypeOK ==
  /\ MastershipOK
  /\ LifecycleOK
  /\ TermsOK
  /\ StoreOK
  /\ BackupsOK
  /\ NetOK
  /\ syncs \in [Nodes -> SUBSET Sync]
  /\ spent \in [ops : 0..MaxOps, rounds : 0..MaxRounds, faults : 0..MaxFaults]

\* A node's logical clock is never behind the bucket it holds, wherever the
\* bucket was written: the next local write gets a later time (sendWithTimestamp
\* and receiveWithTimestamp tick on both ends).
ClockCoversBuckets == \A n \in Nodes : bucket[n].ts <= clock[n]

\* The buckets held and the buckets on the wire.
Copies == {bucket[n] : n \in Nodes}
          \cup {m.load : m \in {x \in msgs : \/ x.type = "backup"
                                             \/ x.type = "bucket" /\ x.reply}}

\* Two copies with the same term and time have the same entries: what
\* anti-entropy and synchronization conclude from digests alone is right.  Its
\* premises are that no client purges ("purge" \notin Operations: purge() empties
\* a bucket and keeps its digest) and that no copy() overlaps a write (TornCopies
\* is FALSE: a torn copy has entries its digest does not cover).  With either
\* the property fails.
DigestIdentifiesContent ==
  \A b, c \in Copies : b.term = c.term /\ b.ts = c.ts => b.rules = c.rules

\* What a step makes of the buckets it changes.
ChangesAreNewer ==
  \A n \in Nodes : \/ bucket'[n] = bucket[n]
                   \/ bucket'[n] = EmptyBucket
                   \/ isNewerThan(bucket'[n], bucket[n])

\* A bucket is only ever cleared or replaced by one its digest ranks newer;
\* no change goes unrecorded (FlowBucket: "the term and timestamp in which the
\* change occurred is recorded for ordering changes").  purge() is the
\* exception: it keeps the digest.
EveryChangeIsNewer == [][ChangesAreNewer]_vars

\* Mastership has not been node m's in any info its lifecycle manager has seen.
NeverMaster(m) == \A i \in 1..view[m] : infos[i].master # m

\* When a master has nothing left to back up to a backup (startBackup refuses
\* because lastBackupTimes is up to date), the backup is not behind.  Of a
\* backup that is still in another term nothing follows: it may have moved on to
\* the next master's bucket, which is newer by its term and older by its time.
\* Nor of one that has been master: an operation or a late answer left over
\* from its own term may replace what the backup stored.
BackedUpIsThere ==
  \A n \in Nodes : \A m \in Info(n).backups :
    /\ Info(n).master = n
    /\ bucket[n].term = Info(n).term
    /\ lastBackup[n][m] >= bucket[n].ts
    /\ Info(m).term = Info(n).term
    /\ NeverMaster(m)
    => ~isNewerThan(bucket[n], bucket[m])

\* A queued addition is in the table once it has run: its future is "to be
\* completed once the rule has been added" (DeviceFlowTable.add).
QueuedAddIsThere ==
  [][\A n \in Nodes :
       /\ activating[n] # 0 /\ activating'[n] = activating[n]
       /\ drain[n] # <<>> /\ drain'[n] = Tail(drain[n])
       /\ Head(drain[n]).op = "add"
       => bucket'[n].rules[Head(drain[n]).rule] = "added"]_vars

=============================================================================

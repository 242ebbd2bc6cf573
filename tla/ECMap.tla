------------------------------- MODULE ECMap -------------------------------
(***************************************************************************)
(* The gossip-replicated map of ONOS (EventuallyConsistentMapImpl), the    *)
(* store beneath the device, link, intent, packet and group stores.        *)
(*                                                                         *)
(* Every node keeps `items', a map from keys to timestamped values; a      *)
(* removed key keeps a tombstone (a MapValue whose value is null).  A      *)
(* local write is queued in one accumulator per peer and gossiped.  A      *)
(* background task periodically advertises a digest of the whole map to a  *)
(* random peer, which pushes what it has newer, buries what the digest     *)
(* says is removed, and requests what it misses.  Tombstones are purged    *)
(* once every active peer has answered an advertisement.                   *)
(*                                                                         *)
(* A record is [val, ts]; timestamps start at 1, so `Absent' (ts = 0)      *)
(* stands for Java's null and "existing == null || newer" is one           *)
(* comparison of timestamps.                                               *)
(***************************************************************************)
EXTENDS Naturals, FiniteSets

CONSTANTS
  Nodes,               \* controller nodes
  Keys,                \* keys of the map
  Values,              \* values other than null
  NoValue,             \* Java's null
  TombstonesDisabled,  \* builder option withTombstonesDisabled()
  Persistent,          \* builder option withPersistence()
  Faults,              \* fault kinds a run allows, a subset of FaultKinds
  MaxTs,               \* bound: timestamps the provider may issue
  MaxTime,             \* bound: ticks of System.currentTimeMillis()
  MaxFaults,           \* bound: faults in one behaviour
  MaxUpdates,          \* bound: updates in flight before the next batch leaves
  MaxExchanges         \* bound: anti-entropy messages in flight before the next
                       \* advertisement leaves

FaultKinds == {"lose", "ignore", "disconnect", "restart"}

ASSUME ConstantsAssumption ==
  /\ NoValue \notin Values
  /\ TombstonesDisabled \in BOOLEAN
  /\ Persistent \in BOOLEAN
  /\ Faults \subseteq FaultKinds
  /\ MaxTs \in Nat
  /\ MaxTime \in Nat \ {0}
  /\ MaxFaults \in Nat
  /\ MaxUpdates \in Nat
  /\ MaxExchanges \in Nat

VARIABLES
  items,      \* items[n][k]: the MapValue node n holds for key k
  created,    \* created[n][k]: creationTime of a tombstone, 0 otherwise
  pending,    \* pending[n][p]: entries accumulated at n for peer p
  updates,    \* update and initialize entries in flight
  ads,        \* anti-entropy advertisements in flight
  acks,       \* PROCESSED answers to advertisements in flight
  requests,   \* update requests in flight
  boots,      \* bootstrap requests in flight
  aeTime,     \* antiEntropyTimes[n][p]
  purgeTime,  \* previousTombstonePurgeTime of each node
  now,        \* System.currentTimeMillis()
  active,     \* the nodes ClusterService reports active
  faults,     \* faults so far
  issued      \* every write so far, with the timestamp it was given

local == <<items, created, pending, aeTime, purgeTime>>
net   == <<updates, ads, acks, requests, boots>>
env   == <<now, active, faults>>
vars  == <<local, net, env, issued>>

-----------------------------------------------------------------------------
(* MapValue, UpdateEntry and Digest *)

Timestamps == 1..MaxTs
MapValue   == [val : Values \cup {NoValue}, ts : 0..MaxTs]
Absent     == [val |-> NoValue, ts |-> 0]
Entry      == [key : Keys, mv : MapValue]
Digest     == [ts : 0..MaxTs, tombstone : BOOLEAN]

present(mv)     == mv.ts > 0
isAlive(mv)     == mv.val # NoValue
isTombstone(mv) == present(mv) /\ mv.val = NoValue
digest(mv)      == [ts |-> mv.ts, tombstone |-> isTombstone(mv)]

\* UpdateEntry.isNewerThan: anything replaces a null entry, null replaces
\* nothing else.
entryIsNewerThan(e, other) == other.mv.ts = 0 \/ e.mv.ts > other.mv.ts

\* Mutated form of accumulate: computeIfPresent for compute.
accumulateOnlyPresent(batch, entries) ==
  {x \in batch : \A e \in entries : e.key = x.key => ~entryIsNewerThan(e, x)}
  \cup
  {e \in entries : \E x \in batch : x.key = e.key /\ entryIsNewerThan(e, x)}

\* The fold of EventAccumulator.processItems: an accumulator keeps the newest
\* entry per key (entries holds at most one entry per key, as batch does).
accumulate(batch, entries) ==
  {x \in batch : \A e \in entries : e.key = x.key => ~entryIsNewerThan(e, x)}
  \cup
  {e \in entries : \A x \in batch : x.key = e.key => entryIsNewerThan(e, x)}

\* Mutated form of putInternal: the last writer wins, whatever its timestamp.
putInternalUnordered(existing, newValue) == newValue

\* What items.compute() leaves behind in putInternal.
putInternal(existing, newValue) ==
  IF newValue.ts > existing.ts THEN newValue ELSE existing

\* What items.compute() leaves behind in removeInternal; an empty Optional
\* tombstone is Absent.
removeInternal(existing, valueMatches, tombstone) ==
  IF /\ valueMatches
     /\ IF present(existing)
        THEN ~present(tombstone) \/ tombstone.ts > existing.ts
        ELSE present(tombstone)
  THEN tombstone ELSE existing

\* One iteration of processUpdates.
processUpdate(existing, mv) ==
  IF isAlive(mv) THEN putInternal(existing, mv)
                 ELSE removeInternal(existing, TRUE, mv)

-----------------------------------------------------------------------------
(* Cluster membership, timestamps and message plumbing *)

\* Mutated form of Peers: the local node is not filtered out.
PeersWithSelf(n) == IF n \in active THEN active ELSE {}

\* StorageManager's peersSupplier: the active nodes other than the local one.
Peers(n) == IF n \in active THEN active \ {n} ELSE {}

\* The provider issues no timestamp twice.  put and remove take theirs before
\* items.compute(), so those of one node may be applied in either order;
\* compute takes its own inside, later than all the node's others.
Unused   == {t \in Timestamps : \A w \in issued : w.ts # t}
Fresh(n) == {t \in Unused : \A w \in issued : w.node = n => w.ts < t}

Issue(n, k, v, t) ==
  issued' = issued \cup {[ts |-> t, node |-> n, key |-> k, val |-> v]}

\* Node n's map becomes new; a stored tombstone gets the current time.
Store(n, new) ==
  /\ items' = [items EXCEPT ![n] = new]
  /\ created' = [created EXCEPT ![n] =
       [k \in Keys |-> IF new[k] = items[n][k] THEN created[n][k]
                       ELSE IF isTombstone(new[k]) THEN now ELSE 0]]

StoreKey(n, k, mv) == Store(n, [items[n] EXCEPT ![k] = mv])

\* queueUpdate for one key towards a set of peers.
queueUpdate(n, peers, k, mv) ==
  pending' = [pending EXCEPT ![n] =
    [p \in Nodes |-> IF p \in peers
                     THEN accumulate(@[p], {[key |-> k, mv |-> mv]}) ELSE @[p]]]

Fault(kind) ==
  /\ kind \in Faults
  /\ faults < MaxFaults
  /\ faults' = faults + 1

-----------------------------------------------------------------------------
(* Client operations *)

put(n, k, v) ==
  \E t \in Unused :
    LET mv == [val |-> v, ts |-> t] IN
    /\ Issue(n, k, v, t)
    /\ StoreKey(n, k, putInternal(items[n][k], mv))
    /\ IF putInternal(items[n][k], mv) = mv
       THEN queueUpdate(n, Peers(n), k, mv)
       ELSE UNCHANGED pending
    /\ UNCHANGED <<net, env, aeTime, purgeTime>>

\* remove(key) with value = NoValue, remove(key, value) otherwise.  Peers are
\* told only when the key was known here.
removeAndNotify(n, k, value) ==
  \E t \in Unused :
    LET existing  == items[n][k]
        tombstone == IF TombstonesDisabled THEN Absent
                     ELSE [val |-> NoValue, ts |-> t]
        matches   == \/ value = NoValue
                     \/ ~isAlive(existing)
                     \/ existing.val = value
        new       == removeInternal(existing, matches, tombstone)
    IN
    /\ Issue(n, k, NoValue, t)
    /\ StoreKey(n, k, new)
    /\ IF new # existing /\ present(existing)
       THEN queueUpdate(n, Peers(n), k, tombstone)
       ELSE UNCHANGED pending
    /\ UNCHANGED <<net, env, aeTime, purgeTime>>

\* compute() whose function returns v (possibly null): a changed value is
\* stored with a new timestamp, null as a tombstone even when tombstones are
\* disabled.
compute(n, k, v) ==
  /\ ~(present(items[n][k]) /\ items[n][k].val = v)
  /\ \E t \in Fresh(n) :
       LET mv == [val |-> v, ts |-> t] IN
       /\ Issue(n, k, v, t)
       /\ StoreKey(n, k, putInternal(items[n][k], mv))
       /\ IF putInternal(items[n][k], mv) = mv
          THEN queueUpdate(n, Peers(n), k, mv)
          ELSE UNCHANGED pending
       /\ UNCHANGED <<net, env, aeTime, purgeTime>>

-----------------------------------------------------------------------------
(* Gossip *)

\* EventAccumulator.processItems on a timer: the accumulated entries leave.
processItems(n, p) ==
  /\ pending[n][p] # {}
  /\ Cardinality(updates) < MaxUpdates
  /\ updates' = updates \cup
       {[to |-> p, key |-> e.key, mv |-> e.mv] : e \in pending[n][p]}
  /\ pending' = [pending EXCEPT ![n][p] = {}]
  /\ UNCHANGED <<items, created, ads, acks, requests, boots, aeTime, purgeTime,
                 env, issued>>

processUpdates(u) ==
  /\ u.to \in active
  /\ updates' = updates \ {u}
  /\ StoreKey(u.to, u.key, processUpdate(items[u.to][u.key], u.mv))
  /\ UNCHANGED <<pending, ads, acks, requests, boots, aeTime, purgeTime, env,
                 issued>>

-----------------------------------------------------------------------------
(* Anti-entropy *)

sendAdvertisement(n, p) ==
  /\ p \in Peers(n)
  /\ Cardinality(ads) + Cardinality(acks) + Cardinality(requests) < MaxExchanges
  /\ ads' = ads \cup {[from |-> n, to |-> p, time |-> now,
                       digest |-> [k \in Keys |-> digest(items[n][k])]]}
  /\ UNCHANGED <<local, updates, acks, requests, boots, env, issued>>

\* Mutated form of buried: digest.isTombstone() is not consulted.
buriedWhateverStale(n, ad) ==
  {k \in Keys : present(items[n][k]) /\ ad.digest[k].ts > items[n][k].ts}

\* Keys for which the receiver of an advertisement is behind.  A tombstone is
\* adopted at once where the key is known; everything else is requested.
buried(n, ad) ==
  {k \in Keys : /\ present(items[n][k])
                /\ ad.digest[k].ts > items[n][k].ts
                /\ ad.digest[k].tombstone}

staleOrMissing(n, ad) ==
  {k \in Keys : ad.digest[k].ts > items[n][k].ts} \ buried(n, ad)

entriesFor(n, keys) == {[key |-> k, mv |-> items[n][k]] : k \in keys}

newerHere(n, ad) == {k \in Keys : items[n][k].ts > ad.digest[k].ts}

\* antiEntropyCheckLocalItems pushes, buries and requests.  A request for no
\* key has no effect and is left out.
handleAntiEntropyAdvertisement(ad) ==
  LET n == ad.to IN
  /\ n \in active
  /\ ads' = ads \ {ad}
  /\ acks' = acks \cup {[from |-> n, to |-> ad.from, time |-> ad.time]}
  /\ Store(n, [k \in Keys |->
       IF k \in buried(n, ad)
       THEN removeInternal(items[n][k], TRUE,
                           [val |-> NoValue, ts |-> ad.digest[k].ts])
       ELSE items[n][k]])
  /\ pending' = [pending EXCEPT ![n][ad.from] =
       accumulate(@, entriesFor(n, newerHere(n, ad)))]
  /\ requests' = IF staleOrMissing(n, ad) = {} THEN requests
                 ELSE requests \cup {[from |-> n, to |-> ad.from,
                                      keys |-> staleOrMissing(n, ad)]}
  /\ UNCHANGED <<updates, boots, aeTime, purgeTime, env, issued>>

\* The PROCESSED answer reaches the sender of the advertisement.
recordAntiEntropyTime(a) ==
  /\ a.to \in active
  /\ acks' = acks \ {a}
  /\ aeTime' = [aeTime EXCEPT ![a.to][a.from] = a.time]
  /\ UNCHANGED <<items, created, pending, purgeTime, updates, ads, requests,
                 boots, env, issued>>

\* A key that is gone by the time the request is handled is answered by a
\* null entry (items.get(key) == null).
handleUpdateRequests(r) ==
  /\ r.to \in active
  /\ requests' = requests \ {r}
  /\ pending' = [pending EXCEPT ![r.to][r.from] =
       accumulate(@, entriesFor(r.to, r.keys))]
  /\ UNCHANGED <<items, created, aeTime, purgeTime, updates, ads, acks, boots,
                 env, issued>>

\* The oldest anti-entropy time over the active peers, 0 without peers.
isSafePurgeTime(n, safe) ==
  IF Peers(n) = {} THEN safe = 0
  ELSE /\ \E p \in Peers(n) : safe = aeTime[n][p]
       /\ \A p \in Peers(n) : safe <= aeTime[n][p]

purgeTombstones(n) ==
  \E safe \in 0..MaxTime :
    /\ ~TombstonesDisabled
    /\ isSafePurgeTime(n, safe)
    /\ safe # purgeTime[n]
    /\ purgeTime' = [purgeTime EXCEPT ![n] = safe]
    /\ Store(n, [k \in Keys |->
         IF isTombstone(items[n][k]) /\ created[n][k] <= safe
         THEN Absent ELSE items[n][k]])
    /\ UNCHANGED <<pending, aeTime, net, env, issued>>

-----------------------------------------------------------------------------
(* Bootstrap, faults and time *)

\* A bootstrap request is answered with every live entry, past the
\* accumulators.
handleBootstrap(b) ==
  /\ b.to \in active
  /\ boots' = boots \ {b}
  /\ updates' = updates \cup
       {[to |-> b.from, key |-> k, mv |-> items[b.to][k]] :
          k \in {j \in Keys : isAlive(items[b.to][j])}}
  /\ UNCHANGED <<local, ads, acks, requests, env, issued>>

\* Node n stops being active: it is cut off, or its process died.
Disconnect(n) ==
  /\ n \in active
  /\ Fault("disconnect")
  /\ active' = active \ {n}
  /\ UNCHANGED <<local, net, now, issued>>

\* Node n becomes reachable again with the map it had.
Reconnect(n) ==
  /\ n \notin active
  /\ active' = active \cup {n}
  /\ UNCHANGED <<local, net, now, faults, issued>>

\* The constructor: node n comes back as a new process, which keeps only
\* what the map persists and asks its peers for a bootstrap.
Restart(n) ==
  /\ n \notin active
  /\ Fault("restart")
  /\ active' = active \cup {n}
  /\ Store(n, IF Persistent THEN items[n] ELSE [k \in Keys |-> Absent])
  /\ pending' = [pending EXCEPT ![n] = [p \in Nodes |-> {}]]
  /\ aeTime' = [aeTime EXCEPT ![n] = [p \in Nodes |-> 0]]
  /\ purgeTime' = [purgeTime EXCEPT ![n] = 0]
  /\ boots' = boots \cup {[from |-> n, to |-> p] : p \in active}
  /\ UNCHANGED <<updates, ads, acks, requests, now, issued>>

\* A send whose future completes with an error: the message is gone and the
\* failure only logged.
LoseMessage ==
  /\ Fault("lose")
  /\ \/ /\ \E u \in updates : updates' = updates \ {u}
        /\ UNCHANGED <<ads, acks, requests, boots>>
     \/ /\ \E m \in ads : ads' = ads \ {m}
        /\ UNCHANGED <<updates, acks, requests, boots>>
     \/ /\ \E a \in acks : acks' = acks \ {a}
        /\ UNCHANGED <<updates, ads, requests, boots>>
     \/ /\ \E r \in requests : requests' = requests \ {r}
        /\ UNCHANGED <<updates, ads, acks, boots>>
     \/ /\ \E b \in boots : boots' = boots \ {b}
        /\ UNCHANGED <<updates, ads, acks, requests>>
  /\ UNCHANGED <<local, now, active, issued>>

\* The receiver is under high load: the advertisement is answered IGNORED.
ignoreAdvertisement(ad) ==
  /\ ad.to \in active
  /\ Fault("ignore")
  /\ ads' = ads \ {ad}
  /\ UNCHANGED <<local, updates, acks, requests, boots, now, active, issued>>

Tick ==
  /\ now < MaxTime
  /\ now' = now + 1
  /\ UNCHANGED <<local, net, active, faults, issued>>

-----------------------------------------------------------------------------
Init ==
  /\ items = [n \in Nodes |-> [k \in Keys |-> Absent]]
  /\ created = [n \in Nodes |-> [k \in Keys |-> 0]]
  /\ pending = [n \in Nodes |-> [p \in Nodes |-> {}]]
  /\ updates = {} /\ ads = {} /\ acks = {} /\ requests = {} /\ boots = {}
  /\ aeTime = [n \in Nodes |-> [p \in Nodes |-> 0]]
  /\ purgeTime = [n \in Nodes |-> 0]
  /\ now = 1
  /\ active = Nodes
  /\ faults = 0
  /\ issued = {}

Client(n) ==
  \E k \in Keys :
    \/ \E v \in Values : put(n, k, v)
    \/ \E v \in Values \cup {NoValue} : removeAndNotify(n, k, v)
    \/ \E v \in Values \cup {NoValue} : compute(n, k, v)

Gossip ==
  \/ \E n, p \in Nodes : processItems(n, p)
  \/ \E u \in updates : processUpdates(u)

AntiEntropy ==
  \/ \E n, p \in Nodes : sendAdvertisement(n, p)
  \/ \E ad \in ads : handleAntiEntropyAdvertisement(ad)
  \/ \E a \in acks : recordAntiEntropyTime(a)
  \/ \E r \in requests : handleUpdateRequests(r)
  \/ \E n \in Nodes : purgeTombstones(n)

Environment ==
  \/ \E n \in Nodes : Disconnect(n) \/ Reconnect(n) \/ Restart(n)
  \/ \E b \in boots : handleBootstrap(b)
  \/ \E ad \in ads : ignoreAdvertisement(ad)
  \/ LoseMessage
  \/ Tick

Next == (\E n \in Nodes : Client(n)) \/ Gossip \/ AntiEntropy \/ Environment

Spec == Init /\ [][Next]_vars

\* Timers, executors and connections make progress; clients, time and faults
\* need not.  The random choice of a peer picks every peer again and again.
Fairness ==
  /\ \A n, p \in Nodes : WF_vars(processItems(n, p))
  /\ \A n \in Nodes : WF_vars(\E u \in updates : u.to = n /\ processUpdates(u))
  /\ \A n, p \in Nodes : WF_vars(sendAdvertisement(n, p))
  /\ \A n, p \in Nodes :
       WF_vars(\E ad \in ads : ad.from = n /\ ad.to = p
                               /\ handleAntiEntropyAdvertisement(ad))
  /\ WF_vars(\E a \in acks : recordAntiEntropyTime(a))
  /\ \A n \in Nodes :
       WF_vars(\E r \in requests : r.to = n /\ handleUpdateRequests(r))
  /\ \A n \in Nodes : WF_vars(Reconnect(n))

FairSpec == Spec /\ Fairness

-----------------------------------------------------------------------------
(* Properties *)

Update  == [to : Nodes, key : Keys, mv : MapValue]
Ad      == {ad \in [from : Nodes, to : Nodes, time : 1..MaxTime,
                     digest : [Keys -> Digest]] : ad.from # ad.to}
Ack     == [from : Nodes, to : Nodes, time : 1..MaxTime]
Request == [from : Nodes, to : Nodes, keys : SUBSET Keys]
Boot    == {b \in [from : Nodes, to : Nodes] : b.from # b.to}
Write   == [ts : Timestamps, node : Nodes, key : Keys,
            val : Values \cup {NoValue}]

\* Type correctness of every variable of the map; no node advertises to
\* itself or bootstraps from itself.
TypeOK ==
  /\ items \in [Nodes -> [Keys -> MapValue]]
  /\ created \in [Nodes -> [Keys -> Nat]]
  /\ pending \in [Nodes -> [Nodes -> SUBSET Entry]]
  /\ updates \subseteq Update
  /\ ads \subseteq Ad
  /\ acks \subseteq Ack
  /\ requests \subseteq Request
  /\ boots \subseteq Boot
  /\ aeTime \in [Nodes -> [Nodes -> Nat]]
  /\ purgeTime \in [Nodes -> Nat]
  /\ now \in 1..MaxTime
  /\ active \subseteq Nodes
  /\ faults \in 0..MaxFaults
  /\ issued \subseteq Write

\* Replicas never disagree about one timestamp: whatever gossip,
\* anti-entropy, bootstrap, loss and restarts did, two nodes that hold the
\* same timestamp for a key hold the same value or both a tombstone
\* (handleAntiEntropyAdvertisement, processUpdates, handleBootstrap).
Agreement ==
  \A n, m \in Nodes, k \in Keys :
    items[n][k].ts = items[m][k].ts => items[n][k] = items[m][k]

\* A record is never replaced by an older one (putInternal, removeInternal):
\* what a node holds for a key only ever gets newer, or is dropped.
NeverOlder ==
  [][\A n \in Nodes, k \in Keys :
       present(items'[n][k]) => items'[n][k].ts >= items[n][k].ts]_vars

\* A live value is not lost to something older: while its process lives, a
\* node gives up a live value only for a newer record (the contract of
\* EventuallyConsistentMap: "the update with the more recent timestamp will
\* endure").
MoreRecentEndures ==
  [][\A n \in Nodes, k \in Keys :
       /\ isAlive(items[n][k])
       /\ items'[n][k] # items[n][k]
       /\ ~Restart(n)
       => items'[n][k].ts > items[n][k].ts]_vars

Quiet ==
  /\ net = <<{}, {}, {}, {}, {}>>
  /\ \A n, p \in Nodes : pending[n][p] = {}

Agree == \A n, m \in Nodes, k \in Keys : items[n][k].val = items[m][k].val

\* If the network drains again and again, as it does when messages take less
\* time than the anti-entropy period, then all nodes eventually show the same
\* map for good, whatever was lost, removed or purged before (the purpose of
\* sendAdvertisement and handleAntiEntropyAdvertisement).
Converges == []<>Quiet => <>[]Agree

=============================================================================

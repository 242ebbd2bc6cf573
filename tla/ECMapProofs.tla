---------------------------- MODULE ECMapProofs ----------------------------
(***************************************************************************)
(* Proofs about ECMap for every set of nodes, keys and values and for      *)
(* every bound: type correctness, the agreement of replicas on equal       *)
(* timestamps, and the monotonicity of what a node stores.                 *)
(*                                                                         *)
(* Agreement is not inductive: it follows from where records come from.    *)
(* The inductive invariant says that timestamps are issued once, and that  *)
(* every record a node holds, has queued, or has in flight - and every     *)
(* tombstone an advertisement announces - is one that a client wrote.      *)
(***************************************************************************)
EXTENDS ECMap, TLAPS

\* Record mv for key k is null or was written by an operation in writes.
Genuine(writes, k, mv) ==
  mv = Absent \/ \E w \in writes : w.ts = mv.ts /\ w.key = k /\ w.val = mv.val

IssuedOnce == \A w1, w2 \in issued : w1.ts = w2.ts => w1 = w2

ItemsGenuine == \A n \in Nodes, k \in Keys : Genuine(issued, k, items[n][k])

PendingGenuine ==
  \A n, p \in Nodes : \A e \in pending[n][p] : Genuine(issued, e.key, e.mv)

UpdatesGenuine == \A u \in updates : Genuine(issued, u.key, u.mv)

AdsGenuine ==
  \A ad \in ads, k \in Keys :
    ad.digest[k].tombstone =>
      Genuine(issued, k, [val |-> NoValue, ts |-> ad.digest[k].ts])

IInv ==
  /\ TypeOK
  /\ IssuedOnce
  /\ ItemsGenuine
  /\ PendingGenuine
  /\ UpdatesGenuine
  /\ AdsGenuine

-----------------------------------------------------------------------------
\* Store replaces one node's map and keeps the types (MapValue.copy and
\* items.compute touch nothing else).
LEMMA StoreEffect ==
  ASSUME TypeOK, NEW n \in Nodes, NEW new \in [Keys -> MapValue], Store(n, new)
  PROVE  /\ items' \in [Nodes -> [Keys -> MapValue]]
         /\ created' \in [Nodes -> [Keys -> Nat]]
         /\ items'[n] = new
         /\ \A m \in Nodes \ {n} : items'[m] = items[m]
  BY DEF Store, TypeOK

\* A genuine map at the storing node keeps all maps genuine.
LEMMA StoreGenuine ==
  ASSUME TypeOK, ItemsGenuine, issued \subseteq issued',
         NEW n \in Nodes, NEW new \in [Keys -> MapValue], Store(n, new),
         \A k \in Keys : Genuine(issued', k, new[k])
  PROVE  ItemsGenuine'
<1>1. ASSUME NEW m \in Nodes, NEW k \in Keys
      PROVE  Genuine(issued', k, items'[m][k])
  <2>1. CASE m = n
    BY <2>1, StoreEffect
  <2>2. CASE m # n
    <3>1. items'[m] = items[m]
      BY <2>2, StoreEffect
    <3>2. Genuine(issued, k, items[m][k])
      BY DEF ItemsGenuine
    <3> QED BY <3>1, <3>2 DEF Genuine
  <2> QED BY <2>1, <2>2
<1> QED BY <1>1 DEF ItemsGenuine

\* The accumulator returns nothing but entries it was given.
LEMMA AccumulateSubset ==
  ASSUME NEW batch, NEW entries
  PROVE  accumulate(batch, entries) \subseteq batch \cup entries
  BY DEF accumulate

\* A replica's records and null are well-typed map values.
LEMMA UpdateTypes ==
  ASSUME NEW existing \in MapValue, NEW mv \in MapValue, NEW b \in BOOLEAN
  PROVE  /\ putInternal(existing, mv) \in {existing, mv}
         /\ removeInternal(existing, b, mv) \in {existing, mv}
         /\ processUpdate(existing, mv) \in {existing, mv}
         /\ Absent \in MapValue
  BY ConstantsAssumption DEF putInternal, removeInternal, processUpdate, Absent, MapValue

-----------------------------------------------------------------------------
(* One lemma per group of actions *)

\* A record that replaces existing is null or not older.
NotOlder(existing, new) == present(new) => new.ts >= existing.ts

\* putInternal, removeInternal and processUpdates never go back in time.
LEMMA UpdateNotOlder ==
  ASSUME NEW existing \in MapValue, NEW mv \in MapValue, NEW b \in BOOLEAN
  PROVE  /\ NotOlder(existing, putInternal(existing, mv))
         /\ NotOlder(existing, removeInternal(existing, b, mv))
         /\ NotOlder(existing, processUpdate(existing, mv))
  BY DEF NotOlder, putInternal, removeInternal, processUpdate, present, MapValue

\* What every client operation does: it issues one fresh timestamp, stores a
\* record that is the old one, the new one or null, and queues that record.
ClientStep(n, k, v, t, mv) ==
  /\ Issue(n, k, v, t)
  /\ \E new \in {items[n][k], mv} : NotOlder(items[n][k], new) /\ StoreKey(n, k, new)
  /\ queueUpdate(n, Peers(n), k, mv) \/ UNCHANGED pending
  /\ UNCHANGED <<net, env, aeTime, purgeTime>>

LEMMA ClientOperation ==
  ASSUME TypeOK, NEW n \in Nodes, Client(n)
  PROVE  \E k \in Keys, v \in Values \cup {NoValue}, t \in Unused :
           \/ ClientStep(n, k, v, t, [val |-> v, ts |-> t])
           \/ ClientStep(n, k, v, t, Absent)
<1> USE ConstantsAssumption
<1>1. PICK k \in Keys :
        \/ \E v \in Values : put(n, k, v)
        \/ \E v \in Values \cup {NoValue} : removeAndNotify(n, k, v)
        \/ \E v \in Values \cup {NoValue} : compute(n, k, v)
  BY DEF Client
<1>0. items[n][k] \in MapValue
  BY DEF TypeOK
<1>5. \A v \in Values \cup {NoValue}, t \in Unused :
        [val |-> v, ts |-> t] \in MapValue /\ Absent \in MapValue
  BY DEF Unused, Timestamps, MapValue, Absent
<1>2. CASE \E v \in Values : put(n, k, v)
  <2>1. PICK v \in Values : put(n, k, v)
    BY <1>2
  <2>2. PICK t \in Unused :
          /\ Issue(n, k, v, t)
          /\ StoreKey(n, k, putInternal(items[n][k], [val |-> v, ts |-> t]))
          /\ queueUpdate(n, Peers(n), k, [val |-> v, ts |-> t]) \/ UNCHANGED pending
          /\ UNCHANGED <<net, env, aeTime, purgeTime>>
    BY <2>1 DEF put
  <2>3. putInternal(items[n][k], [val |-> v, ts |-> t])
          \in {items[n][k], [val |-> v, ts |-> t]}
    BY DEF putInternal
  <2>4. NotOlder(items[n][k], putInternal(items[n][k], [val |-> v, ts |-> t]))
    BY <1>0, <1>5, UpdateNotOlder
  <2> QED
    BY <2>2, <2>3, <2>4 DEF ClientStep
<1>3. CASE \E v \in Values \cup {NoValue} : removeAndNotify(n, k, v)
  <2>1. PICK v \in Values \cup {NoValue} : removeAndNotify(n, k, v)
    BY <1>3
  <2> DEFINE tomb(t) == IF TombstonesDisabled THEN Absent
                        ELSE [val |-> NoValue, ts |-> t]
             matches == v = NoValue \/ ~isAlive(items[n][k]) \/ items[n][k].val = v
  <2>2. PICK t \in Unused :
          /\ Issue(n, k, NoValue, t)
          /\ StoreKey(n, k, removeInternal(items[n][k], matches, tomb(t)))
          /\ queueUpdate(n, Peers(n), k, tomb(t)) \/ UNCHANGED pending
          /\ UNCHANGED <<net, env, aeTime, purgeTime>>
    BY <2>1 DEF removeAndNotify
  <2>3. removeInternal(items[n][k], matches, tomb(t)) \in {items[n][k], tomb(t)}
    BY DEF removeInternal
  <2>6. NotOlder(items[n][k], removeInternal(items[n][k], matches, tomb(t)))
    BY <1>0, <1>5, UpdateNotOlder
  <2>4. ClientStep(n, k, NoValue, t, tomb(t))
    BY <2>2, <2>3, <2>6 DEF ClientStep
  <2>5. tomb(t) \in {Absent, [val |-> NoValue, ts |-> t]}
    OBVIOUS
  <2> QED
    BY <2>4, <2>5
<1>4. CASE \E v \in Values \cup {NoValue} : compute(n, k, v)
  <2>1. PICK v \in Values \cup {NoValue} : compute(n, k, v)
    BY <1>4
  <2>2. PICK t \in Unused :
          /\ Issue(n, k, v, t)
          /\ StoreKey(n, k, putInternal(items[n][k], [val |-> v, ts |-> t]))
          /\ queueUpdate(n, Peers(n), k, [val |-> v, ts |-> t]) \/ UNCHANGED pending
          /\ UNCHANGED <<net, env, aeTime, purgeTime>>
    BY <2>1 DEF compute, Fresh
  <2>3. putInternal(items[n][k], [val |-> v, ts |-> t])
          \in {items[n][k], [val |-> v, ts |-> t]}
    BY DEF putInternal
  <2>4. NotOlder(items[n][k], putInternal(items[n][k], [val |-> v, ts |-> t]))
    BY <1>0, <1>5, UpdateNotOlder
  <2> QED
    BY <2>2, <2>3, <2>4 DEF ClientStep
<1> QED
  BY <1>1, <1>2, <1>3, <1>4

\* A client operation preserves the invariant: its timestamp is fresh, so the
\* record it stores and queues is the only one with that timestamp.
LEMMA ClientPreserves ==
  ASSUME IInv, NEW n \in Nodes, Client(n)
  PROVE  IInv'
<1> USE ConstantsAssumption
<1>1. TypeOK
  BY DEF IInv
<1>0. PICK k \in Keys, v \in Values \cup {NoValue}, t \in Unused :
           \/ ClientStep(n, k, v, t, [val |-> v, ts |-> t])
           \/ ClientStep(n, k, v, t, Absent)
  BY <1>1, ClientOperation
<1>2. PICK mv \in {[val |-> v, ts |-> t], Absent} : ClientStep(n, k, v, t, mv)
  BY <1>0
<1>3. t \in Timestamps /\ \A w \in issued : w.ts # t
  BY DEF Unused
<1>4. mv \in MapValue
  BY <1>3 DEF MapValue, Absent, Timestamps
<1>5. /\ issued' = issued \cup {[ts |-> t, node |-> n, key |-> k, val |-> v]}
      /\ issued \subseteq issued'
      /\ UNCHANGED <<net, env, aeTime, purgeTime>>
      /\ queueUpdate(n, Peers(n), k, mv) \/ UNCHANGED pending
  BY <1>2 DEF ClientStep, Issue
<1>6. Genuine(issued', k, mv)
  <2>1. CASE mv = Absent
    BY <2>1 DEF Genuine
  <2>2. CASE mv = [val |-> v, ts |-> t]
    <3> DEFINE w == [ts |-> t, node |-> n, key |-> k, val |-> v]
    <3>1. w \in issued' /\ w.ts = mv.ts /\ w.key = k /\ w.val = mv.val
      BY <1>5, <2>2
    <3> QED BY <3>1 DEF Genuine
  <2> QED BY <2>1, <2>2
<1>7. PICK new \in {items[n][k], mv} : StoreKey(n, k, new)
  BY <1>2 DEF ClientStep
<1> DEFINE map == [items[n] EXCEPT ![k] = new]
<1>8. Store(n, map) /\ map \in [Keys -> MapValue]
  BY <1>1, <1>4, <1>7 DEF StoreKey, TypeOK
<1>9. ASSUME NEW j \in Keys PROVE Genuine(issued', j, map[j])
  <2>1. Genuine(issued', j, items[n][j])
    BY <1>5 DEF Genuine, IInv, ItemsGenuine
  <2>2. CASE j = k /\ new = mv
    BY <2>2, <1>1, <1>6 DEF TypeOK
  <2>3. CASE ~(j = k /\ new = mv)
    <3>1. map[j] = items[n][j]
      BY <2>3, <1>1, <1>7 DEF TypeOK
    <3> QED BY <3>1, <2>1
  <2> QED BY <2>2, <2>3
<1>10. ItemsGenuine'
  BY <1>1, <1>5, <1>8, <1>9, StoreGenuine DEF IInv
<1>11. \A m, p \in Nodes : pending'[m][p] \subseteq pending[m][p] \cup {[key |-> k, mv |-> mv]}
  <2>1. CASE UNCHANGED pending
    BY <2>1
  <2>2. CASE queueUpdate(n, Peers(n), k, mv)
    <3> DEFINE one == {[key |-> k, mv |-> mv]}
    <3>1. \A p \in Nodes : accumulate(pending[n][p], one) \subseteq pending[n][p] \cup one
      BY AccumulateSubset
    <3>2. \A m, p \in Nodes :
            pending'[m][p] \in {pending[m][p], IF m = n THEN accumulate(pending[n][p], one)
                                               ELSE pending[m][p]}
      BY <2>2, <1>1 DEF queueUpdate, TypeOK
    <3> HIDE DEF one
    <3>3. \A m, p \in Nodes : pending'[m][p] \subseteq pending[m][p] \cup one
      BY <3>1, <3>2
    <3> QED BY <3>3 DEF one
  <2> QED BY <2>1, <2>2, <1>5
<1>12. pending' \in [Nodes -> [Nodes -> SUBSET Entry]]
  <2>1. CASE UNCHANGED pending
    BY <2>1, <1>1 DEF TypeOK
  <2>2. CASE queueUpdate(n, Peers(n), k, mv)
    <3>1. [key |-> k, mv |-> mv] \in Entry
      BY <1>4 DEF Entry
    <3>2. \A p \in Nodes : accumulate(pending[n][p], {[key |-> k, mv |-> mv]}) \in SUBSET Entry
      BY <3>1, <1>1, AccumulateSubset DEF TypeOK
    <3> QED BY <2>2, <3>2, <1>1 DEF queueUpdate, TypeOK
  <2> QED BY <2>1, <2>2, <1>5
<1>13. PendingGenuine'
  BY <1>5, <1>6, <1>11 DEF IInv, PendingGenuine, Genuine
<1>14. TypeOK'
  <2>1. issued' \subseteq Write
    BY <1>1, <1>3, <1>5 DEF TypeOK, Write
  <2>2. items' \in [Nodes -> [Keys -> MapValue]] /\ created' \in [Nodes -> [Keys -> Nat]]
    BY <1>1, <1>8, StoreEffect
  <2> QED BY <2>1, <2>2, <1>1, <1>5, <1>12 DEF TypeOK, net, env
<1>15. IssuedOnce'
  BY <1>3, <1>5 DEF IInv, IssuedOnce
<1>16. UpdatesGenuine' /\ AdsGenuine'
  BY <1>5 DEF IInv, UpdatesGenuine, AdsGenuine, Genuine, net
<1> QED BY <1>10, <1>13, <1>14, <1>15, <1>16 DEF IInv

-----------------------------------------------------------------------------
\* Accumulating genuine entries at node n for peer p keeps every accumulator
\* genuine and well typed.
LEMMA AccumulatePreserves ==
  ASSUME TypeOK, PendingGenuine, issued' = issued, NEW n \in Nodes, NEW p \in Nodes,
         NEW entries \in SUBSET Entry,
         \A e \in entries : Genuine(issued, e.key, e.mv),
         pending' = [pending EXCEPT ![n][p] = accumulate(@, entries)]
  PROVE  PendingGenuine' /\ pending' \in [Nodes -> [Nodes -> SUBSET Entry]]
<1> DEFINE acc == accumulate(pending[n][p], entries)
<1>1. acc \subseteq pending[n][p] \cup entries
  BY AccumulateSubset
<1>2. pending[n][p] \in SUBSET Entry
  BY DEF TypeOK
<1>3. pending' = [pending EXCEPT ![n][p] = acc]
  BY DEF TypeOK
<1>4. \A e \in acc : Genuine(issued, e.key, e.mv)
  BY <1>1 DEF PendingGenuine
<1> HIDE DEF acc
<1>5. acc \in SUBSET Entry
  BY <1>1, <1>2
<1>6. pending' \in [Nodes -> [Nodes -> SUBSET Entry]]
  BY <1>3, <1>5 DEF TypeOK
<1>7. \A m, q \in Nodes : pending'[m][q] \in {pending[m][q], acc}
  BY <1>3 DEF TypeOK
<1>8. PendingGenuine'
  BY <1>4, <1>7 DEF PendingGenuine, Genuine
<1> QED BY <1>6, <1>8

\* The entries a node takes from its own map are genuine (handleUpdateRequests,
\* antiEntropyCheckLocalItems).
LEMMA EntriesGenuine ==
  ASSUME IInv, NEW n \in Nodes, NEW keys \in SUBSET Keys
  PROVE  /\ entriesFor(n, keys) \in SUBSET Entry
         /\ \A e \in entriesFor(n, keys) : Genuine(issued, e.key, e.mv)
  BY DEF IInv, TypeOK, ItemsGenuine, entriesFor, Entry

\* Gossip keeps the invariant: it moves records without changing them.
LEMMA GossipPreserves ==
  ASSUME IInv, Gossip
  PROVE  IInv'
<1> USE DEF IInv
<1>1. ASSUME NEW n \in Nodes, NEW p \in Nodes, processItems(n, p)
      PROVE  IInv'
  <2> DEFINE sent == {[to |-> p, key |-> e.key, mv |-> e.mv] : e \in pending[n][p]}
  <2>1. sent \subseteq Update /\ \A u \in sent : Genuine(issued, u.key, u.mv)
    BY DEF TypeOK, Entry, Update, PendingGenuine
  <2>2. updates' = updates \cup sent
    BY <1>1 DEF processItems
  <2> HIDE DEF sent
  <2>3. /\ pending' = [pending EXCEPT ![n][p] = {}]
        /\ UNCHANGED <<items, created, ads, acks, requests, boots, aeTime,
                       purgeTime, now, active, faults, issued>>
    BY <1>1 DEF processItems, env
  <2>4. TypeOK'
    BY <2>1, <2>2, <2>3 DEF TypeOK
  <2>5. UpdatesGenuine'
    BY <2>1, <2>2, <2>3 DEF UpdatesGenuine, Genuine
  <2>6. \A m, q \in Nodes : pending'[m][q] \subseteq pending[m][q]
    BY <2>3 DEF TypeOK
  <2>7. PendingGenuine'
    BY <2>3, <2>6 DEF PendingGenuine, Genuine
  <2> QED
    BY <2>3, <2>4, <2>5, <2>7 DEF IssuedOnce, ItemsGenuine, AdsGenuine, Genuine
<1>2. ASSUME NEW u \in updates, processUpdates(u)
      PROVE  IInv'
  <2> DEFINE old == items[u.to][u.key]
             new == processUpdate(old, u.mv)
             map == [items[u.to] EXCEPT ![u.key] = new]
  <2>1. u.to \in Nodes /\ u.key \in Keys /\ u.mv \in MapValue /\ old \in MapValue
    BY DEF TypeOK, Update
  <2>2. new \in {old, u.mv}
    BY <2>1, UpdateTypes
  <2>3. /\ Store(u.to, map)
        /\ updates' = updates \ {u}
        /\ UNCHANGED <<pending, ads, acks, requests, boots, aeTime, purgeTime, now,
                       active, faults, issued>>
    BY <1>2 DEF processUpdates, StoreKey, env
  <2>4. map \in [Keys -> MapValue]
    BY <2>1, <2>2 DEF TypeOK
  <2>5. ASSUME NEW k \in Keys PROVE Genuine(issued', k, map[k])
    <3>1. Genuine(issued, u.key, u.mv) /\ Genuine(issued, k, items[u.to][k])
      BY <2>1 DEF UpdatesGenuine, ItemsGenuine
    <3>2. map[k] = items[u.to][k] \/ (k = u.key /\ map[k] = u.mv)
      BY <2>1, <2>2 DEF TypeOK
    <3> QED BY <3>1, <3>2, <2>3
  <2> HIDE DEF map
  <2>6. ItemsGenuine'
    BY <2>1, <2>3, <2>4, <2>5, StoreGenuine
  <2>7. TypeOK'
    BY <2>1, <2>3, <2>4, StoreEffect DEF TypeOK
  <2> QED
    BY <2>3, <2>6, <2>7
       DEF IssuedOnce, PendingGenuine, UpdatesGenuine, AdsGenuine, Genuine
<1> QED BY <1>1, <1>2 DEF Gossip

-----------------------------------------------------------------------------
\* Handling an advertisement keeps the invariant: a buried key gets the
\* tombstone the digest announced, which its sender really held.
LEMMA AdvertisementPreserves ==
  ASSUME IInv, NEW ad \in ads, handleAntiEntropyAdvertisement(ad)
  PROVE  IInv'
<1> USE DEF IInv
<1> DEFINE n == ad.to
           tomb(k) == [val |-> NoValue, ts |-> ad.digest[k].ts]
           map == [k \in Keys |-> IF k \in buried(n, ad)
                                  THEN removeInternal(items[n][k], TRUE, tomb(k))
                                  ELSE items[n][k]]
           entries == entriesFor(n, newerHere(n, ad))
<1>1. n \in Nodes /\ ad.from \in Nodes /\ ad.time \in 1..MaxTime
      /\ ad.digest \in [Keys -> Digest]
  BY DEF TypeOK, Ad
<1>2. /\ Store(n, map)
      /\ ads' = ads \ {ad}
      /\ acks' = acks \cup {[from |-> n, to |-> ad.from, time |-> ad.time]}
      /\ pending' = [pending EXCEPT ![n][ad.from] = accumulate(@, entries)]
      /\ requests' = IF staleOrMissing(n, ad) = {} THEN requests
                     ELSE requests \cup {[from |-> n, to |-> ad.from,
                                          keys |-> staleOrMissing(n, ad)]}
      /\ UNCHANGED <<updates, boots, aeTime, purgeTime, now, active, faults, issued>>
  BY DEF handleAntiEntropyAdvertisement, env
<1>3. ASSUME NEW k \in Keys
      PROVE  map[k] \in MapValue /\ Genuine(issued', k, map[k])
  <2>1. tomb(k) \in MapValue /\ items[n][k] \in MapValue
    BY <1>1 DEF TypeOK, MapValue, Digest
  <2>2. Genuine(issued', k, items[n][k])
    BY <1>1, <1>2 DEF ItemsGenuine
  <2>3. CASE k \in buried(n, ad)
    <3>1. ad.digest[k].tombstone
      BY <2>3 DEF buried
    <3>2. Genuine(issued', k, tomb(k))
      BY <1>2, <3>1 DEF AdsGenuine
    <3>3. map[k] \in {items[n][k], tomb(k)}
      BY <2>1, <2>3, UpdateTypes
    <3> QED BY <2>1, <2>2, <3>2, <3>3
  <2>4. CASE k \notin buried(n, ad)
    BY <2>1, <2>2, <2>4
  <2> QED BY <2>3, <2>4
<1>4. map \in [Keys -> MapValue]
  BY <1>3
<1>5. newerHere(n, ad) \in SUBSET Keys /\ staleOrMissing(n, ad) \in SUBSET Keys
  BY DEF newerHere, staleOrMissing
<1>6. entries \in SUBSET Entry /\ \A e \in entries : Genuine(issued, e.key, e.mv)
  BY <1>1, <1>5, EntriesGenuine
<1> HIDE DEF map, entries, n
<1>7. ItemsGenuine'
  BY <1>1, <1>2, <1>3, <1>4, StoreGenuine
<1>8. PendingGenuine' /\ pending' \in [Nodes -> [Nodes -> SUBSET Entry]]
  BY <1>1, <1>2, <1>6, AccumulatePreserves
<1>9. items' \in [Nodes -> [Keys -> MapValue]] /\ created' \in [Nodes -> [Keys -> Nat]]
  BY <1>1, <1>2, <1>4, StoreEffect
<1>10. acks' \subseteq Ack /\ requests' \subseteq Request
  BY <1>1, <1>2, <1>5 DEF TypeOK, Ack, Request
<1>11. TypeOK'
  BY <1>2, <1>8, <1>9, <1>10 DEF TypeOK
<1> QED
  BY <1>2, <1>7, <1>8, <1>11 DEF IssuedOnce, UpdatesGenuine, AdsGenuine, Genuine

\* Purging tombstones keeps the invariant: what is left was there before.
LEMMA PurgePreserves ==
  ASSUME IInv, NEW n \in Nodes, purgeTombstones(n)
  PROVE  IInv'
<1> USE DEF IInv
<1>1. PICK safe \in 0..MaxTime :
        /\ purgeTime' = [purgeTime EXCEPT ![n] = safe]
        /\ Store(n, [k \in Keys |->
             IF isTombstone(items[n][k]) /\ created[n][k] <= safe
             THEN Absent ELSE items[n][k]])
        /\ UNCHANGED <<pending, aeTime, updates, ads, acks, requests, boots, now,
                       active, faults, issued>>
  BY DEF purgeTombstones, net, env
<1> DEFINE map == [k \in Keys |->
             IF isTombstone(items[n][k]) /\ created[n][k] <= safe
             THEN Absent ELSE items[n][k]]
<1>2. \A k \in Keys : map[k] \in {Absent, items[n][k]}
  OBVIOUS
<1>3. map \in [Keys -> MapValue]
  BY ConstantsAssumption DEF TypeOK, MapValue, Absent
<1>4. Store(n, map)
  BY <1>1
<1> HIDE DEF map
<1>5. \A k \in Keys : Genuine(issued', k, map[k])
  BY <1>1, <1>2 DEF ItemsGenuine, Genuine
<1>6. ItemsGenuine'
  BY <1>1, <1>3, <1>4, <1>5, StoreGenuine
<1>7. TypeOK'
  BY <1>1, <1>3, <1>4, StoreEffect DEF TypeOK
<1> QED
  BY <1>1, <1>6, <1>7
     DEF IssuedOnce, PendingGenuine, UpdatesGenuine, AdsGenuine, Genuine

\* Anti-entropy keeps the invariant.
LEMMA AntiEntropyPreserves ==
  ASSUME IInv, AntiEntropy
  PROVE  IInv'
<1> USE DEF IInv
<1>1. ASSUME NEW n \in Nodes, NEW p \in Nodes, sendAdvertisement(n, p)
      PROVE  IInv'
  <2> DEFINE ad == [from |-> n, to |-> p, time |-> now,
                    digest |-> [k \in Keys |-> digest(items[n][k])]]
  <2>1. ads' = ads \cup {ad}
        /\ UNCHANGED <<items, created, pending, aeTime, purgeTime, updates, acks,
                       requests, boots, now, active, faults, issued>>
    BY <1>1 DEF sendAdvertisement, local, env
  <2>2. ASSUME NEW k \in Keys
        PROVE  /\ digest(items[n][k]) \in Digest
               /\ digest(items[n][k]).tombstone =>
                    [val |-> NoValue, ts |-> digest(items[n][k]).ts] = items[n][k]
    <3>1. items[n][k] \in MapValue
      BY DEF TypeOK
    <3> QED BY <3>1 DEF digest, isTombstone, present, MapValue, Digest
  <2>3. ad \in Ad
    <3>1. n # p
      BY <1>1 DEF sendAdvertisement, Peers
    <3> QED BY <2>2, <3>1 DEF TypeOK, Ad
  <2>4. AdsGenuine'
    <3>1. ASSUME NEW k \in Keys, ad.digest[k].tombstone
          PROVE  Genuine(issued, k, [val |-> NoValue, ts |-> ad.digest[k].ts])
      BY <2>2, <3>1 DEF ItemsGenuine
    <3> HIDE DEF ad
    <3> QED BY <2>1, <3>1 DEF AdsGenuine, Genuine
  <2> HIDE DEF ad
  <2>5. TypeOK'
    BY <2>1, <2>3 DEF TypeOK
  <2> QED
    BY <2>1, <2>4, <2>5
       DEF IssuedOnce, ItemsGenuine, PendingGenuine, UpdatesGenuine, Genuine
<1>2. ASSUME NEW a \in acks, recordAntiEntropyTime(a)
      PROVE  IInv'
  <2>1. a.to \in Nodes /\ a.from \in Nodes /\ a.time \in Nat
    BY DEF TypeOK, Ack
  <2>2. /\ acks' = acks \ {a}
        /\ aeTime' = [aeTime EXCEPT ![a.to][a.from] = a.time]
        /\ UNCHANGED <<items, created, pending, purgeTime, updates, ads, requests,
                       boots, now, active, faults, issued>>
    BY <1>2 DEF recordAntiEntropyTime, env
  <2>3. TypeOK'
    BY <2>1, <2>2 DEF TypeOK
  <2> QED
    BY <2>2, <2>3 DEF IssuedOnce, ItemsGenuine, PendingGenuine, UpdatesGenuine,
                      AdsGenuine, Genuine
<1>3. ASSUME NEW r \in requests, handleUpdateRequests(r)
      PROVE  IInv'
  <2> DEFINE entries == entriesFor(r.to, r.keys)
  <2>1. r.to \in Nodes /\ r.from \in Nodes /\ r.keys \in SUBSET Keys
    BY DEF TypeOK, Request
  <2>2. /\ requests' = requests \ {r}
        /\ pending' = [pending EXCEPT ![r.to][r.from] = accumulate(@, entries)]
        /\ UNCHANGED <<items, created, aeTime, purgeTime, updates, ads, acks, boots,
                       now, active, faults, issued>>
    BY <1>3 DEF handleUpdateRequests, env
  <2>3. entries \in SUBSET Entry /\ \A e \in entries : Genuine(issued, e.key, e.mv)
    BY <2>1, EntriesGenuine
  <2> HIDE DEF entries
  <2>4. PendingGenuine' /\ pending' \in [Nodes -> [Nodes -> SUBSET Entry]]
    BY <2>1, <2>2, <2>3, AccumulatePreserves
  <2>5. TypeOK'
    BY <2>2, <2>4 DEF TypeOK
  <2> QED
    BY <2>2, <2>4, <2>5 DEF IssuedOnce, ItemsGenuine, UpdatesGenuine, AdsGenuine, Genuine
<1> QED
  BY <1>1, <1>2, <1>3, AdvertisementPreserves, PurgePreserves DEF AntiEntropy

-----------------------------------------------------------------------------
\* A bootstrap answer carries live records of the answering node only.
LEMMA BootstrapPreserves ==
  ASSUME IInv, NEW b \in boots, handleBootstrap(b)
  PROVE  IInv'
<1> USE DEF IInv
<1> DEFINE sent == {[to |-> b.from, key |-> k, mv |-> items[b.to][k]] :
                      k \in {j \in Keys : isAlive(items[b.to][j])}}
<1>1. b.from \in Nodes /\ b.to \in Nodes
  BY DEF TypeOK, Boot
<1>2. sent \subseteq Update /\ \A u \in sent : Genuine(issued, u.key, u.mv)
  BY <1>1 DEF TypeOK, Update, ItemsGenuine
<1>3. /\ boots' = boots \ {b}
      /\ updates' = updates \cup sent
      /\ UNCHANGED <<items, created, pending, aeTime, purgeTime, ads, acks,
                     requests, now, active, faults, issued>>
  BY DEF handleBootstrap, local, env
<1> HIDE DEF sent
<1>4. TypeOK'
  BY <1>2, <1>3 DEF TypeOK
<1>5. UpdatesGenuine'
  BY <1>2, <1>3 DEF UpdatesGenuine, Genuine
<1> QED
  BY <1>3, <1>4, <1>5 DEF IssuedOnce, ItemsGenuine, PendingGenuine, AdsGenuine, Genuine

\* A restarted node starts from what the map persisted, or from nothing.
LEMMA RestartPreserves ==
  ASSUME IInv, NEW n \in Nodes, Restart(n)
  PROVE  IInv'
<1> USE DEF IInv
<1> DEFINE map == IF Persistent THEN items[n] ELSE [k \in Keys |-> Absent]
           asked == {[from |-> n, to |-> p] : p \in active}
<1>1. /\ Store(n, map)
      /\ faults < MaxFaults /\ faults' = faults + 1
      /\ active' = active \cup {n}
      /\ pending' = [pending EXCEPT ![n] = [p \in Nodes |-> {}]]
      /\ aeTime' = [aeTime EXCEPT ![n] = [p \in Nodes |-> 0]]
      /\ purgeTime' = [purgeTime EXCEPT ![n] = 0]
      /\ boots' = boots \cup asked
      /\ UNCHANGED <<updates, ads, acks, requests, now, issued>>
  BY DEF Restart, Fault
<1>2. map \in [Keys -> MapValue]
  BY ConstantsAssumption DEF TypeOK, MapValue, Absent
<1>3. \A k \in Keys : Genuine(issued', k, map[k])
  BY <1>1 DEF ItemsGenuine, Genuine
<1>4. asked \subseteq Boot
  BY DEF TypeOK, Boot, Restart
<1> HIDE DEF map, asked
<1>5. ItemsGenuine'
  BY <1>1, <1>2, <1>3, StoreGenuine
<1>6. items' \in [Nodes -> [Keys -> MapValue]] /\ created' \in [Nodes -> [Keys -> Nat]]
  BY <1>1, <1>2, StoreEffect
<1>7. faults' \in 0..MaxFaults
  BY <1>1, ConstantsAssumption DEF TypeOK
<1>8. TypeOK'
  BY <1>1, <1>4, <1>6, <1>7 DEF TypeOK
<1>9. \A m, q \in Nodes : pending'[m][q] \subseteq pending[m][q]
  BY <1>1 DEF TypeOK
<1>10. PendingGenuine'
  BY <1>1, <1>9 DEF PendingGenuine, Genuine
<1> QED
  BY <1>1, <1>5, <1>8, <1>10 DEF IssuedOnce, UpdatesGenuine, AdsGenuine, Genuine

\* Bootstrap, faults and time keep the invariant.
LEMMA EnvironmentPreserves ==
  ASSUME IInv, Environment
  PROVE  IInv'
<1> USE ConstantsAssumption DEF IInv
<1>1. ASSUME NEW n \in Nodes, Disconnect(n) \/ Reconnect(n)
      PROVE  IInv'
  <2>1. /\ UNCHANGED <<items, created, pending, aeTime, purgeTime, updates, ads, acks,
                       requests, boots, now, issued>>
        /\ active' \subseteq active \cup {n}
        /\ faults' = faults \/ (faults < MaxFaults /\ faults' = faults + 1)
    BY <1>1 DEF Disconnect, Reconnect, Fault, local, net
  <2>2. TypeOK'
    BY <2>1 DEF TypeOK
  <2> QED
    BY <2>1, <2>2 DEF IssuedOnce, ItemsGenuine, PendingGenuine, UpdatesGenuine,
                      AdsGenuine, Genuine
<1>2. ASSUME LoseMessage \/ \E ad \in ads : ignoreAdvertisement(ad)
      PROVE  IInv'
  <2>1. /\ UNCHANGED <<items, created, pending, aeTime, purgeTime, now, active, issued>>
        /\ updates' \subseteq updates /\ ads' \subseteq ads /\ acks' \subseteq acks
        /\ requests' \subseteq requests /\ boots' \subseteq boots
        /\ faults < MaxFaults /\ faults' = faults + 1
    BY <1>2 DEF LoseMessage, ignoreAdvertisement, Fault, local
  <2>2. TypeOK'
    BY <2>1 DEF TypeOK
  <2> QED
    BY <2>1, <2>2 DEF IssuedOnce, ItemsGenuine, PendingGenuine, UpdatesGenuine,
                      AdsGenuine, Genuine
<1>3. ASSUME Tick PROVE IInv'
  <2>1. /\ now < MaxTime /\ now' = now + 1
        /\ UNCHANGED <<items, created, pending, aeTime, purgeTime, updates, ads, acks,
                       requests, boots, active, faults, issued>>
    BY <1>3 DEF Tick, local, net
  <2>2. TypeOK'
    BY <2>1 DEF TypeOK
  <2> QED
    BY <2>1, <2>2 DEF IssuedOnce, ItemsGenuine, PendingGenuine, UpdatesGenuine,
                      AdsGenuine, Genuine
<1> QED
  BY <1>1, <1>2, <1>3, BootstrapPreserves, RestartPreserves DEF Environment

-----------------------------------------------------------------------------
\* The inductive invariant holds in every reachable state.
THEOREM Invariance == Spec => []IInv
<1>1. Init => IInv
  <2> SUFFICES ASSUME Init PROVE IInv
    OBVIOUS
  <2> USE ConstantsAssumption DEF Init
  <2>1. TypeOK
    BY DEF TypeOK, MapValue, Absent
  <2>2. IssuedOnce /\ UpdatesGenuine /\ AdsGenuine
    BY DEF IssuedOnce, UpdatesGenuine, AdsGenuine
  <2>3. ItemsGenuine /\ PendingGenuine
    BY DEF ItemsGenuine, PendingGenuine, Genuine
  <2> QED BY <2>1, <2>2, <2>3 DEF IInv
<1>2. IInv /\ [Next]_vars => IInv'
  <2> SUFFICES ASSUME IInv, [Next]_vars PROVE IInv'
    OBVIOUS
  <2>1. CASE Next
    BY <2>1, ClientPreserves, GossipPreserves, AntiEntropyPreserves,
       EnvironmentPreserves DEF Next
  <2>2. CASE UNCHANGED vars
    <3>1. UNCHANGED <<items, created, pending, aeTime, purgeTime, updates, ads, acks,
                      requests, boots, now, active, faults, issued>>
      BY <2>2 DEF vars, local, net, env
    <3>2. TypeOK'
      BY <3>1 DEF IInv, TypeOK
    <3> QED
      BY <3>1, <3>2 DEF IInv, IssuedOnce, ItemsGenuine, PendingGenuine,
                        UpdatesGenuine, AdsGenuine, Genuine
  <2> QED BY <2>1, <2>2
<1> QED BY <1>1, <1>2, PTL DEF Spec

\* Every variable of the map keeps its type, for every constant.
THEOREM TypeCorrect == Spec => []TypeOK
<1>1. IInv => TypeOK
  BY DEF IInv
<1> QED BY <1>1, Invariance, PTL

\* Replicas that hold the same timestamp for a key hold the same record: both
\* records come from the one write that was given that timestamp.
THEOREM ReplicasAgree == Spec => []Agreement
<1>1. IInv => Agreement
  <2> SUFFICES ASSUME IInv, NEW n \in Nodes, NEW m \in Nodes, NEW k \in Keys,
                      items[n][k].ts = items[m][k].ts
               PROVE  items[n][k] = items[m][k]
    BY DEF Agreement
  <2>1. items[n][k] \in MapValue /\ items[m][k] \in MapValue
    BY DEF IInv, TypeOK
  <2>2. Genuine(issued, k, items[n][k]) /\ Genuine(issued, k, items[m][k])
    BY DEF IInv, ItemsGenuine
  <2>3. \A w \in issued : w.ts > 0
    BY DEF IInv, TypeOK, Write, Timestamps
  <2>4. CASE items[n][k] = Absent \/ items[m][k] = Absent
    <3>1. items[n][k].ts = 0 /\ items[m][k].ts = 0
      BY <2>4 DEF Absent
    <3> QED BY <2>2, <2>3, <3>1 DEF Genuine
  <2>5. CASE items[n][k] # Absent /\ items[m][k] # Absent
    <3>1. PICK w1 \in issued : w1.ts = items[n][k].ts /\ w1.val = items[n][k].val
      BY <2>2, <2>5 DEF Genuine
    <3>2. PICK w2 \in issued : w2.ts = items[m][k].ts /\ w2.val = items[m][k].val
      BY <2>2, <2>5 DEF Genuine
    <3>3. w1 = w2
      BY <3>1, <3>2 DEF IInv, IssuedOnce
    <3>4. items[n][k].val = items[m][k].val
      BY <3>1, <3>2, <3>3
    <3> QED BY <2>1, <3>4 DEF MapValue
  <2> QED BY <2>4, <2>5
<1> QED BY <1>1, Invariance, PTL

-----------------------------------------------------------------------------
\* No step leaves an older record at a node.
NotOlderStep == \A n \in Nodes, k \in Keys : NotOlder(items[n][k], items'[n][k])

\* Storing a map whose records are not older is such a step.
LEMMA StoreNotOlder ==
  ASSUME TypeOK, NEW n \in Nodes, NEW new \in [Keys -> MapValue], Store(n, new),
         \A k \in Keys : NotOlder(items[n][k], new[k])
  PROVE  NotOlderStep
<1>1. ASSUME NEW m \in Nodes, NEW k \in Keys PROVE NotOlder(items[m][k], items'[m][k])
  <2>1. CASE m = n
    BY <2>1, StoreEffect
  <2>2. CASE m # n
    <3>1. items'[m] = items[m]
      BY <2>2, StoreEffect
    <3>2. items[m][k] \in MapValue
      BY DEF TypeOK
    <3> QED BY <3>1, <3>2 DEF NotOlder, MapValue
  <2> QED BY <2>1, <2>2
<1> QED BY <1>1 DEF NotOlderStep

\* A step that leaves the maps alone is one, too.
LEMMA UnchangedNotOlder ==
  ASSUME TypeOK, items' = items
  PROVE  NotOlderStep
<1>1. \A n \in Nodes, k \in Keys : items[n][k] \in MapValue
  BY DEF TypeOK
<1> QED BY <1>1 DEF NotOlderStep, NotOlder, MapValue

\* A client operation leaves no older record.
LEMMA ClientNotOlder ==
  ASSUME TypeOK, NEW n \in Nodes, Client(n)
  PROVE  NotOlderStep
<1>1. PICK k \in Keys, v \in Values \cup {NoValue}, t \in Unused :
           \/ ClientStep(n, k, v, t, [val |-> v, ts |-> t])
           \/ ClientStep(n, k, v, t, Absent)
  BY ClientOperation
<1>2. PICK mv \in {[val |-> v, ts |-> t], Absent} : ClientStep(n, k, v, t, mv)
  BY <1>1
<1>3. mv \in MapValue
  BY ConstantsAssumption DEF MapValue, Absent, Timestamps, Unused
<1>4. PICK new \in {items[n][k], mv} :
        NotOlder(items[n][k], new) /\ StoreKey(n, k, new)
  BY <1>2 DEF ClientStep
<1> DEFINE map == [items[n] EXCEPT ![k] = new]
<1>5. Store(n, map) /\ map \in [Keys -> MapValue]
  BY <1>3, <1>4 DEF StoreKey, TypeOK
<1>6. ASSUME NEW j \in Keys PROVE NotOlder(items[n][j], map[j])
  <2>1. items[n][j] \in MapValue
    BY DEF TypeOK
  <2>2. CASE j = k
    BY <2>2, <1>4 DEF TypeOK
  <2>3. CASE j # k
    <3>1. map[j] = items[n][j]
      BY <2>3 DEF TypeOK
    <3> QED BY <2>1, <3>1 DEF NotOlder, MapValue
  <2> QED BY <2>2, <2>3
<1> HIDE DEF map
<1> QED BY <1>5, <1>6, StoreNotOlder

\* A received update leaves no older record.
LEMMA ProcessUpdatesNotOlder ==
  ASSUME TypeOK, NEW u \in updates, processUpdates(u)
  PROVE  NotOlderStep
<1> DEFINE old == items[u.to][u.key]
           new == processUpdate(old, u.mv)
           map == [items[u.to] EXCEPT ![u.key] = new]
<1>1. u.to \in Nodes /\ u.key \in Keys /\ u.mv \in MapValue /\ old \in MapValue
  BY DEF TypeOK, Update
<1>2. new \in {old, u.mv} /\ NotOlder(old, new)
  BY <1>1, UpdateTypes, UpdateNotOlder
<1>3. Store(u.to, map)
  BY DEF processUpdates, StoreKey
<1>4. map \in [Keys -> MapValue]
  BY <1>1, <1>2 DEF TypeOK
<1>5. ASSUME NEW k \in Keys PROVE NotOlder(items[u.to][k], map[k])
  <2>1. items[u.to][k] \in MapValue
    BY <1>1 DEF TypeOK
  <2>2. CASE k = u.key
    <3>1. map[k] = new
      BY <2>2, <1>1 DEF TypeOK
    <3> QED BY <2>2, <3>1, <1>2
  <2>3. CASE k # u.key
    <3>1. map[k] = items[u.to][k]
      BY <2>3, <1>1 DEF TypeOK
    <3> QED BY <2>1, <3>1 DEF NotOlder, MapValue
  <2> QED BY <2>2, <2>3
<1> HIDE DEF map
<1> QED BY <1>1, <1>3, <1>4, <1>5, StoreNotOlder

\* An advertisement buries a key only under a newer tombstone.
LEMMA AdvertisementNotOlder ==
  ASSUME TypeOK, NEW ad \in ads, handleAntiEntropyAdvertisement(ad)
  PROVE  NotOlderStep
<1> DEFINE n == ad.to
           tomb(k) == [val |-> NoValue, ts |-> ad.digest[k].ts]
           map == [k \in Keys |-> IF k \in buried(n, ad)
                                  THEN removeInternal(items[n][k], TRUE, tomb(k))
                                  ELSE items[n][k]]
<1>1. n \in Nodes /\ ad.digest \in [Keys -> Digest]
  BY DEF TypeOK, Ad
<1>2. Store(n, map)
  BY DEF handleAntiEntropyAdvertisement
<1>3. ASSUME NEW k \in Keys
      PROVE  map[k] \in MapValue /\ NotOlder(items[n][k], map[k])
  <2>1. tomb(k) \in MapValue /\ items[n][k] \in MapValue
    BY <1>1 DEF TypeOK, MapValue, Digest
  <2>2. NotOlder(items[n][k], removeInternal(items[n][k], TRUE, tomb(k)))
        /\ removeInternal(items[n][k], TRUE, tomb(k)) \in MapValue
    BY <2>1, UpdateNotOlder, UpdateTypes
  <2>3. NotOlder(items[n][k], items[n][k])
    BY <2>1 DEF NotOlder, MapValue
  <2> QED BY <2>1, <2>2, <2>3
<1>4. map \in [Keys -> MapValue]
  BY <1>3
<1> HIDE DEF map, n
<1> QED BY <1>1, <1>2, <1>3, <1>4, StoreNotOlder

\* Purging and restarting only drop records.
LEMMA DropNotOlder ==
  ASSUME TypeOK, NEW n \in Nodes, purgeTombstones(n) \/ Restart(n)
  PROVE  NotOlderStep
<1>1. PICK map \in [Keys -> MapValue] :
        Store(n, map) /\ \A k \in Keys : map[k] \in {Absent, items[n][k]}
  <2>1. Absent \in MapValue /\ items[n] \in [Keys -> MapValue]
    BY ConstantsAssumption DEF TypeOK, MapValue, Absent
  <2>2. CASE purgeTombstones(n)
    <3>1. PICK safe \in 0..MaxTime :
            Store(n, [k \in Keys |->
               IF isTombstone(items[n][k]) /\ created[n][k] <= safe
               THEN Absent ELSE items[n][k]])
      BY <2>2 DEF purgeTombstones
    <3> DEFINE left == [k \in Keys |->
               IF isTombstone(items[n][k]) /\ created[n][k] <= safe
               THEN Absent ELSE items[n][k]]
    <3>2. left \in [Keys -> MapValue] /\ \A k \in Keys : left[k] \in {Absent, items[n][k]}
      BY <2>1
    <3>3. Store(n, left)
      BY <3>1
    <3> HIDE DEF left
    <3> QED BY <3>2, <3>3
  <2>3. CASE Restart(n)
    <3> DEFINE left == IF Persistent THEN items[n] ELSE [k \in Keys |-> Absent]
    <3>1. Store(n, left)
      BY <2>3 DEF Restart
    <3>2. left \in [Keys -> MapValue] /\ \A k \in Keys : left[k] \in {Absent, items[n][k]}
      BY <2>1
    <3> HIDE DEF left
    <3> QED BY <3>1, <3>2
  <2> QED BY <2>2, <2>3
<1>2. ASSUME NEW k \in Keys PROVE NotOlder(items[n][k], map[k])
  <2>1. items[n][k] \in MapValue
    BY DEF TypeOK
  <2> QED BY <1>1, <2>1 DEF NotOlder, present, Absent, MapValue
<1> QED BY <1>1, <1>2, StoreNotOlder

\* A node's record for a key is never replaced by an older one.
THEOREM RecordsNeverOlder == Spec => NeverOlder
<1> DEFINE Step == \A n \in Nodes, k \in Keys :
                     present(items'[n][k]) => items'[n][k].ts >= items[n][k].ts
<1>1. TypeOK /\ [Next]_vars => [Step]_vars
  <2> SUFFICES ASSUME TypeOK, Next PROVE NotOlderStep
    BY DEF NotOlderStep, NotOlder
  <2>1. CASE \E n \in Nodes : Client(n)
    BY <2>1, ClientNotOlder
  <2>2. CASE Gossip
    <3>1. CASE \E n, p \in Nodes : processItems(n, p)
      <4>1. items' = items
        BY <3>1 DEF processItems
      <4> QED BY <4>1, UnchangedNotOlder
    <3>2. CASE \E u \in updates : processUpdates(u)
      BY <3>2, ProcessUpdatesNotOlder
    <3> QED BY <2>2, <3>1, <3>2 DEF Gossip
  <2>3. CASE AntiEntropy
    <3>1. CASE \/ \E n, p \in Nodes : sendAdvertisement(n, p)
               \/ \E a \in acks : recordAntiEntropyTime(a)
               \/ \E r \in requests : handleUpdateRequests(r)
      <4>1. items' = items
        BY <3>1 DEF sendAdvertisement, recordAntiEntropyTime, handleUpdateRequests, local
      <4> QED BY <4>1, UnchangedNotOlder
    <3>2. CASE \E ad \in ads : handleAntiEntropyAdvertisement(ad)
      BY <3>2, AdvertisementNotOlder
    <3>3. CASE \E n \in Nodes : purgeTombstones(n)
      BY <3>3, DropNotOlder
    <3> QED BY <2>3, <3>1, <3>2, <3>3 DEF AntiEntropy
  <2>4. CASE Environment
    <3>1. CASE \/ \E n \in Nodes : Disconnect(n) \/ Reconnect(n)
               \/ \E b \in boots : handleBootstrap(b)
               \/ \E ad \in ads : ignoreAdvertisement(ad)
               \/ LoseMessage \/ Tick
      <4>1. items' = items
        BY <3>1 DEF Disconnect, Reconnect, handleBootstrap, ignoreAdvertisement,
                    LoseMessage, Tick, local
      <4> QED BY <4>1, UnchangedNotOlder
    <3>2. CASE \E n \in Nodes : Restart(n)
      BY <3>2, DropNotOlder
    <3> QED BY <2>4, <3>1, <3>2 DEF Environment
  <2> QED BY <2>1, <2>2, <2>3, <2>4 DEF Next
<1> QED BY <1>1, TypeCorrect, PTL DEF Spec, NeverOlder

=============================================================================

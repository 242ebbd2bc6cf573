-------------------------- MODULE FlowTableProofs --------------------------
(***************************************************************************)
(* Proofs about FlowTable for every set of nodes and rules and every       *)
(* bound: type correctness, and that the logical clock of a node is never  *)
(* behind the bucket the node holds.                                       *)
(*                                                                         *)
(* The latter is not inductive: a bucket may arrive with any message.  The *)
(* invariant adds that every message is stamped no earlier than the bucket *)
(* it carries, which both ends' ticks then pass on.                        *)
(***************************************************************************)
EXTENDS FlowTable, FiniteSetTheorems, SequenceTheorems, TLAPS

\* Every message is stamped no earlier than the bucket or digest it carries.
LoadsCovered == \A m \in msgs : m.load.ts <= m.ts

IInv == TypeOK /\ ClockCoversBuckets /\ LoadsCovered

-----------------------------------------------------------------------------
(* What the state is made of *)

\* Replica infos are well typed wherever an index points.
LEMMA InfoFacts ==
  ASSUME TypeOK, NEW i \in Indexes
  PROVE  /\ infos[i] \in ReplicaInfo
         /\ TermOf(i) \in Nat
         /\ infos[i].backups \in SUBSET Nodes
<1>1. infos \in Seq(ReplicaInfo) /\ i \in 1..Len(infos)
  BY DEF TypeOK, MastershipOK, Indexes
<1>2. infos[i] \in ReplicaInfo
  BY <1>1, ElementOfSeq
<1> QED BY <1>2 DEF ReplicaInfo, TermOf

\* The indexes are not empty: there is always a current replica info.
LEMMA IndexFacts ==
  ASSUME TypeOK
  PROVE  /\ Len(infos) \in Indexes
         /\ Indexes \subseteq Nat \ {0}
         /\ Len(infos) \in Nat
         /\ Len(infos) + 1 \in Nat
<1>1. infos \in Seq(ReplicaInfo) /\ infos # <<>>
  BY DEF TypeOK, MastershipOK
<1>2. Len(infos) \in Nat /\ Len(infos) # 0
  BY <1>1, EmptySeq, LenProperties
<1> QED BY <1>2 DEF Indexes

\* LogicalClock.tick is later than both times it is given.
LEMMA TickFacts ==
  ASSUME TypeOK, NEW n \in Nodes, NEW time \in Nat
  PROVE  /\ tick(n, time) \in Nat
         /\ tick(n, time) > clock[n]
         /\ tick(n, time) > time
<1>1. clock[n] \in Nat
  BY DEF TypeOK, NetOK
<1> QED BY <1>1 DEF tick

\* Empty buckets, digests and changed buckets are buckets, with no later time.
LEMMA BucketFacts ==
  /\ EmptyBucket \in Bucket /\ EmptyBucket.ts = 0
  /\ \A b \in Bucket : /\ digest(b) \in Bucket /\ digest(b).ts = b.ts
                       /\ purge(b) \in Bucket /\ purge(b).ts = b.ts
                       /\ b.ts \in Nat /\ b.term \in Nat
<1>1. NoRules \in Content
  BY DEF NoRules, Content, EntryStates
<1> QED BY <1>1 DEF EmptyBucket, Bucket, digest, purge

\* Any clock covers an empty bucket.
LEMMA EmptyFacts ==
  ASSUME NEW time \in Nat
  PROVE  EmptyBucket \in Bucket /\ EmptyBucket.ts <= time
<1>1. NoRules \in Content
  BY DEF NoRules, Content, EntryStates
<1> QED BY <1>1 DEF EmptyBucket, Bucket

\* What an operation makes of a bucket is a bucket.
LEMMA ChangeFacts ==
  ASSUME NEW b \in Bucket, NEW t \in Task, NEW time \in Nat
  PROVE  /\ Changed(b, t) \in Bucket /\ Changed(b, t).ts = b.ts
         /\ Recorded(b, t, time) \in Bucket /\ Recorded(b, t, time).ts = time
<1>1. t.rule \in Rules /\ t.term \in Nat
  BY DEF Task
<1>2. (CASE t.op = "add" -> "added" [] t.op = "update" -> "updated"
         [] OTHER -> "none") \in EntryStates
  BY DEF EntryStates
<1>3. [b.rules EXCEPT ![t.rule] = CASE t.op = "add" -> "added"
         [] t.op = "update" -> "updated" [] OTHER -> "none"] \in Content
  BY <1>1, <1>2 DEF Bucket, Content
<1>4. Changed(b, t) \in Bucket /\ Changed(b, t).ts = b.ts
  BY <1>3 DEF Changed, Bucket
<1> QED BY <1>1, <1>4 DEF Recorded, Bucket

-----------------------------------------------------------------------------
(* Messages *)

\* Requests are messages and carry a time past the sender's clock
\* (sendWithTimestamp).
LEMMA RequestFacts ==
  ASSUME TypeOK, NEW n \in Nodes, NEW peers \in SUBSET Nodes,
         NEW type \in {"digests", "bucket", "backup"},
         NEW at \in {0} \cup Indexes, NEW load \in Bucket, NEW base \in Nat,
         load.ts <= base,
         NEW new \in Requests(n, peers, type, at, load, base)
  PROVE  new \in SUBSET Message /\ \A m \in new : m.load.ts <= m.ts
<1>1. Cardinality(peers) \in Nat
  BY ConstantsAssumption, FS_Subset, FS_CardinalityType
<1>2. PICK stamp \in Bijection(peers, (base + 1)..(base + Cardinality(peers))) :
        new = {[type |-> type, reply |-> FALSE, from |-> n, to |-> p,
                at |-> at, ts |-> stamp[p], load |-> load, ok |-> FALSE,
                cb |-> TRUE] : p \in peers}
  BY Zenon DEF Requests
<1>3. \A p \in peers : stamp[p] \in Nat /\ stamp[p] > base
  BY <1>1 DEF Bijection, Injection
<1>4. load.ts \in Nat
  BY DEF Bucket
<1>5. ASSUME NEW m \in new
      PROVE  m \in Message /\ m.load.ts <= m.ts
  <2>1. PICK p \in peers :
          m = [type |-> type, reply |-> FALSE, from |-> n, to |-> p,
               at |-> at, ts |-> stamp[p], load |-> load, ok |-> FALSE,
               cb |-> TRUE]
    BY <1>2, <1>5
  <2> QED BY <2>1, <1>3, <1>4 DEF Message
<1> QED BY <1>5

\* The clock only advances, and messages stay typed and covered.
Sound ==
  /\ clock' \in [Nodes -> Nat]
  /\ \A n \in Nodes : clock'[n] >= clock[n]
  /\ msgs' \in SUBSET Message
  /\ \A m \in msgs' : m.load.ts <= m.ts

\* Steps that leave the network alone.
LEMMA NetUnchanged ==
  ASSUME IInv, UNCHANGED net
  PROVE  Sound
  BY DEF IInv, Sound, net, TypeOK, NetOK, LoadsCovered

\* Sending keeps the messages covered (sendWithTimestamp).
LEMMA SendSound ==
  ASSUME IInv, NEW n \in Nodes, NEW peers \in SUBSET Nodes,
         NEW type \in {"digests", "bucket", "backup"},
         NEW at \in {0} \cup Indexes, NEW load \in Bucket,
         load.ts <= clock[n], Send(n, peers, type, at, load)
  PROVE  Sound
<1>1. TypeOK /\ clock \in [Nodes -> Nat] /\ msgs \in SUBSET Message
  BY DEF IInv, TypeOK, NetOK
<1>2. Cardinality(peers) \in Nat
  BY ConstantsAssumption, FS_Subset, FS_CardinalityType
<1>3. PICK new \in Requests(n, peers, type, at, load, clock[n]) :
        msgs' = msgs \cup new
  BY DEF Send
<1>4. new \in SUBSET Message /\ \A m \in new : m.load.ts <= m.ts
  BY <1>1, <1>3, RequestFacts
<1>5. clock' = [clock EXCEPT ![n] = @ + Cardinality(peers)]
  BY DEF Send
<1>6. \A m \in msgs : m.load.ts <= m.ts
  BY DEF IInv, LoadsCovered
<1> QED BY <1>1, <1>2, <1>3, <1>4, <1>5, <1>6 DEF Sound

\* An answer is stamped past the request and past the answering node's clock
\* (receiveWithTimestamp).
LEMMA AnswerSound ==
  ASSUME IInv, NEW n \in Nodes, NEW m \in msgs, NEW load \in Bucket,
         NEW ok \in BOOLEAN, load.ts <= clock[n] \/ load.ts <= m.ts,
         Answer(n, m, load, ok)
  PROVE  Sound /\ clock'[n] >= m.ts
<1>0. clock \in [Nodes -> Nat] /\ msgs \in SUBSET Message
  BY DEF IInv, TypeOK, NetOK
<1>1. m \in Message /\ m.ts \in Nat /\ clock[n] \in Nat /\ load.ts \in Nat
  BY <1>0 DEF Message, Bucket
<1> DEFINE time == tick(n, m.ts) + 1
           reply == [type |-> m.type, reply |-> TRUE, from |-> n,
                     to |-> m.from, at |-> m.at, ts |-> time, load |-> load,
                     ok |-> ok, cb |-> TRUE]
<1>2. time \in Nat /\ time > clock[n] /\ time > m.ts
  BY <1>1, TickFacts DEF IInv
<1> HIDE DEF time
<1>3. reply \in Message /\ reply.load.ts <= reply.ts
  <2>1. /\ m.type \in {"digests", "bucket", "backup"} /\ m.from \in Nodes
        /\ m.at \in {0} \cup Indexes
    BY <1>1 DEF Message
  <2>2. load.ts <= time
    BY <1>1, <1>2
  <2> QED BY <2>1, <2>2, <1>2 DEF Message
<1>4. clock' = [clock EXCEPT ![n] = time] /\ msgs' \subseteq msgs \cup {reply}
  BY DEF Answer, time
<1> HIDE DEF reply
<1>5. \A x \in msgs : x.load.ts <= x.ts
  BY DEF IInv, LoadsCovered
<1> QED BY <1>0, <1>1, <1>2, <1>3, <1>4, <1>5 DEF Sound

\* An answer that arrives moves the clock past its time.
LEMMA AcceptSound ==
  ASSUME IInv, NEW n \in Nodes, NEW m \in msgs, Accept(n, m)
  PROVE  Sound /\ clock'[n] >= m.ts
<1>0. clock \in [Nodes -> Nat] /\ msgs \in SUBSET Message
  BY DEF IInv, TypeOK, NetOK
<1>1. m.ts \in Nat /\ clock[n] \in Nat
  BY <1>0 DEF Message
<1>2. tick(n, m.ts) \in Nat /\ tick(n, m.ts) > clock[n] /\ tick(n, m.ts) > m.ts
  BY <1>1, TickFacts DEF IInv
<1>3. \A x \in msgs : x.load.ts <= x.ts
  BY DEF IInv, LoadsCovered
<1> QED BY <1>0, <1>1, <1>2, <1>3 DEF Accept, Sound

-----------------------------------------------------------------------------
(* Steps that leave the replica infos alone keep the parts they do not touch *)

SyncsOK == syncs \in [Nodes -> SUBSET Sync]
SpentOK == spent \in [ops : 0..MaxOps, rounds : 0..MaxRounds,
                      faults : 0..MaxFaults]

\* The sets that depend on the replica infos stay the same.
LEMMA SameInfos ==
  ASSUME UNCHANGED infos
  PROVE  /\ Indexes' = Indexes
         /\ Job' = Job
         /\ Message' = Message
         /\ Sync' = Sync
  BY DEF Indexes, Job, Message, Sync

\* What a step does not change keeps its type.
LEMMA PartsKept ==
  ASSUME IInv, UNCHANGED infos
  PROVE  /\ UNCHANGED lifecycles => MastershipOK'
         /\ UNCHANGED <<lifecycles, lifecycle>> => LifecycleOK'
         /\ UNCHANGED terms => TermsOK'
         /\ UNCHANGED store => StoreOK'
         /\ UNCHANGED backups => BackupsOK'
         /\ UNCHANGED syncs => SyncsOK'
         /\ UNCHANGED spent => SpentOK'
<1> USE SameInfos DEF IInv, TypeOK
<1>1. UNCHANGED lifecycles => MastershipOK'
  BY DEF MastershipOK
<1>2. UNCHANGED <<lifecycles, lifecycle>> => LifecycleOK'
  BY DEF LifecycleOK, lifecycle
<1>3. UNCHANGED terms => TermsOK'
  BY DEF TermsOK, terms
<1>4. UNCHANGED store => StoreOK'
  BY DEF StoreOK, store
<1>5. UNCHANGED backups => BackupsOK'
  BY DEF BackupsOK, backups
<1>6. (UNCHANGED syncs => SyncsOK') /\ (UNCHANGED spent => SpentOK')
  BY DEF SyncsOK, SpentOK
<1> QED BY <1>1, <1>2, <1>3, <1>4, <1>5, <1>6

\* At most node n's bucket has changed, to one its clock covers.
Covered(n) ==
  /\ \A x \in Nodes \ {n} : bucket'[x] = bucket[x]
  /\ bucket'[n] = bucket[n] \/ bucket'[n].ts <= clock'[n]

\* The invariant after a step, part by part.
LEMMA Assemble ==
  ASSUME IInv, UNCHANGED infos, NEW n \in Nodes, Sound, Covered(n),
         MastershipOK', LifecycleOK', TermsOK', StoreOK', BackupsOK', SyncsOK',
         SpentOK'
  PROVE  IInv'
<1>1. NetOK' /\ LoadsCovered'
  BY SameInfos DEF Sound, NetOK, LoadsCovered
<1>2. TypeOK'
  BY <1>1 DEF TypeOK, SyncsOK, SpentOK
<1>3. bucket \in [Nodes -> Bucket] /\ clock \in [Nodes -> Nat]
  BY DEF IInv, TypeOK, StoreOK, NetOK
<1>4. ASSUME NEW x \in Nodes PROVE bucket'[x].ts <= clock'[x]
  <2>1. bucket[x].ts <= clock[x] /\ bucket[x].ts \in Nat /\ clock[x] \in Nat
    BY <1>3 DEF IInv, ClockCoversBuckets, Bucket
  <2>2. clock'[x] >= clock[x] /\ clock'[x] \in Nat
    BY DEF Sound
  <2>3. bucket'[x] = bucket[x] \/ bucket'[x].ts <= clock'[x]
    BY DEF Covered
  <2> QED BY <2>1, <2>2, <2>3
<1> QED BY <1>1, <1>2, <1>4 DEF IInv, ClockCoversBuckets

\* The same where no bucket changes.
LEMMA AssembleNoWrite ==
  ASSUME IInv, UNCHANGED infos, Sound, UNCHANGED bucket,
         MastershipOK', LifecycleOK', TermsOK', StoreOK', BackupsOK', SyncsOK',
         SpentOK', NEW n \in Nodes
  PROVE  IInv'
  BY Assemble DEF Covered

-----------------------------------------------------------------------------
(* The executor's queue and the synchronizations *)

\* The head of a queue is a job with an index of a replica info.
LEMMA JobFacts ==
  ASSUME TypeOK, NEW n \in Nodes, NEW type, NextJob(n, type)
  PROVE  /\ Head(events[n]) \in Job
         /\ Tail(events[n]) \in Seq(Job)
         /\ Head(events[n]).at \in Indexes
         /\ type = "SYNC_FAILED" => Head(events[n]).prev \in Indexes
<1>1. events[n] \in Seq(Job) /\ events[n] # <<>> /\ Head(events[n]).type = type
  BY DEF TypeOK, LifecycleOK, NextJob
<1>2. Head(events[n]) \in Job /\ Tail(events[n]) \in Seq(Job)
  BY <1>1, HeadTailProperties
<1> QED BY <1>1, <1>2 DEF Job

\* The jobs the actions post.
LEMMA PostedFacts ==
  ASSUME NEW queue \in Seq(Job), NEW at \in Indexes, NEW prev \in Indexes
  PROVE  /\ \A type \in {"TERM_START", "TERM_UPDATE", "TERM_ACTIVE", "SYNCED"} :
              Posted(queue, type, at, 0) \in Seq(Job)
         /\ \A type \in {"SYNC_FAILED", "SYNCED"} :
              Posted(queue, type, at, prev) \in Seq(Job)
<1>1. \A type \in {"TERM_START", "TERM_UPDATE", "TERM_ACTIVE", "SYNCED"} :
        [type |-> type, at |-> at, prev |-> 0] \in Job
  BY DEF Job
<1>2. \A type \in {"SYNC_FAILED", "SYNCED"} :
        [type |-> type, at |-> at, prev |-> prev] \in Job
  BY DEF Job
<1> QED BY <1>1, <1>2, AppendProperties DEF Posted

\* Node n's queue may be replaced by any queue of jobs.
LEMMA QueueReplaced ==
  ASSUME IInv, UNCHANGED <<infos, lifecycles, view, noticed>>, NEW n \in Nodes,
         NEW queue \in Seq(Job), events' = [events EXCEPT ![n] = queue]
  PROVE  LifecycleOK'
  BY SameInfos DEF IInv, TypeOK, LifecycleOK

\* A synchronization that succeeds leaves the set and is queued.
LEMMA SucceedFacts ==
  ASSUME IInv, UNCHANGED <<infos, lifecycles, view, noticed>>, NEW n \in Nodes,
         NEW at, Succeed(n, at)
  PROVE  LifecycleOK' /\ SyncsOK'
<1> DEFINE done == {s \in syncs[n] : s.at = at}
<1>1. events[n] \in Seq(Job) /\ syncs \in [Nodes -> SUBSET Sync]
  BY DEF IInv, TypeOK, LifecycleOK
<1>2. SyncsOK'
  BY <1>1, SameInfos DEF Succeed, SyncsOK
<1>3. CASE done = {}
  <2>1. UNCHANGED events
    BY <1>3 DEF Succeed
  <2> QED BY <1>2, <2>1, PartsKept DEF lifecycle
<1>4. CASE done # {}
  <2>1. events' = [events EXCEPT ![n] = Posted(@, "SYNCED", at, 0)]
    BY <1>4 DEF Succeed
  <2>2. at \in Indexes
    BY <1>1, <1>4 DEF Sync
  <2>3. Posted(events[n], "SYNCED", at, 0) \in Seq(Job)
    BY <1>1, <2>2, PostedFacts
  <2> QED BY <1>2, <2>1, <2>3, QueueReplaced
<1> QED BY <1>3, <1>4

\* A source that fails is struck off; with the last one the end is queued.
LEMMA FailFacts ==
  ASSUME IInv, UNCHANGED <<infos, lifecycles, view, noticed>>, NEW n \in Nodes,
         NEW at \in Indexes, NEW p \in Nodes, Fail(n, at, p)
  PROVE  LifecycleOK' /\ SyncsOK'
<1> DEFINE hit == {s \in syncs[n] : s.at = at /\ p \in s.left}
           out == {s \in hit : s.left = {p}}
<1>1. events[n] \in Seq(Job) /\ syncs \in [Nodes -> SUBSET Sync]
  BY DEF IInv, TypeOK, LifecycleOK
<1>2. \A s \in hit : s \in Sync /\ [s EXCEPT !.left = @ \ {p}] \in Sync
  BY <1>1 DEF Sync
<1>3. syncs' = [syncs EXCEPT ![n] = (@ \ hit) \cup
                  {[s EXCEPT !.left = @ \ {p}] : s \in hit \ out}]
  BY DEF Fail
<1>4. {[s EXCEPT !.left = @ \ {p}] : s \in hit \ out} \subseteq Sync
  BY <1>2
<1>5. SyncsOK'
  BY <1>1, <1>3, <1>4, SameInfos DEF SyncsOK
<1>6. CASE UNCHANGED events
  BY <1>5, <1>6, PartsKept DEF lifecycle
<1>7. ASSUME NEW s \in out,
             events' = [events EXCEPT ![n] =
               Posted(@, IF s.onMaster THEN "SYNC_FAILED" ELSE "SYNCED",
                      s.at, s.prev)]
      PROVE  LifecycleOK'
  <2>1. s.at \in Indexes /\ s.prev \in Indexes
    BY <1>1 DEF Sync
  <2>2. Posted(events[n], IF s.onMaster THEN "SYNC_FAILED" ELSE "SYNCED",
               s.at, s.prev) \in Seq(Job)
    BY <1>1, <2>1, PostedFacts
  <2> QED BY <1>7, <2>2, QueueReplaced
<1> QED BY <1>5, <1>6, <1>7 DEF Fail

-----------------------------------------------------------------------------
(* Mastership and its lifecycle manager *)

\* A new replica info keeps every index valid.
LEMMA AddInfoPreserves ==
  ASSUME IInv, NEW term \in Nat, NEW m \in Nodes \cup {NoNode},
         NEW B \in BackupsOf(m), AddInfo(term, m, B)
  PROVE  IInv'
<1> DEFINE info == [term |-> term, master |-> m, backups |-> B]
<1>1. info \in ReplicaInfo
  BY DEF BackupsOf, ReplicaInfo
<1>2. infos \in Seq(ReplicaInfo) /\ infos # <<>> /\ lifecycles \in Seq(Nat)
  BY DEF IInv, TypeOK, MastershipOK
<1>3. infos' = Append(infos, info)
      /\ UNCHANGED <<lifecycles, lifecycle, terms, store, backups, syncs, net,
                     spent>>
  BY DEF AddInfo
<1> HIDE DEF info
<1>4. /\ infos' \in Seq(ReplicaInfo) /\ infos' # <<>>
      /\ Len(infos') = Len(infos) + 1 /\ Len(infos) \in Nat
  BY <1>1, <1>2, <1>3, AppendProperties, LenProperties
<1>5. Indexes \subseteq Indexes'
  BY <1>4 DEF Indexes
<1>6. Job \subseteq Job' /\ Message \subseteq Message' /\ Sync \subseteq Sync'
  BY <1>5 DEF Job, Message, Sync
<1>7. Seq(Job) \subseteq Seq(Job')
  BY <1>6
<1>8. MastershipOK'
  BY <1>2, <1>3, <1>4 DEF MastershipOK
<1>9. LifecycleOK'
  BY <1>3, <1>5, <1>7 DEF IInv, TypeOK, LifecycleOK, lifecycle
<1>10. TermsOK'
  BY <1>3, <1>5 DEF IInv, TypeOK, TermsOK, terms
<1>11. StoreOK' /\ BackupsOK'
  BY <1>3 DEF IInv, TypeOK, StoreOK, BackupsOK, store, backups
<1>12. NetOK' /\ LoadsCovered'
  BY <1>3, <1>6 DEF IInv, TypeOK, NetOK, LoadsCovered, net
<1>13. syncs' \in [Nodes -> SUBSET Sync']
  BY <1>3, <1>6 DEF IInv, TypeOK
<1>14. ClockCoversBuckets'
  BY <1>3 DEF IInv, ClockCoversBuckets, store, net
<1>15. spent' \in [ops : 0..MaxOps, rounds : 0..MaxRounds, faults : 0..MaxFaults]
  BY <1>3 DEF IInv, TypeOK
<1> QED BY <1>8, <1>9, <1>10, <1>11, <1>12, <1>13, <1>14, <1>15 DEF IInv, TypeOK

\* Elections, changes of backups and the loss of the master.
LEMMA MastershipPreserves ==
  ASSUME IInv, ElectMaster \/ ChangeBackups \/ LoseMaster
  PROVE  IInv'
<1>1. LastInfo \in ReplicaInfo
  BY IndexFacts, InfoFacts DEF IInv, LastInfo
<1>2. NextTerm \in Nat
  <2>1. 1..Len(infos) = Indexes /\ IsFiniteSet(1..Len(infos))
    BY IndexFacts, FS_Interval DEF IInv, Indexes
  <2>2. IsFiniteSet({TermOf(i) : i \in 1..Len(infos)})
    <3> DEFINE S == 1..Len(infos)
               T == {TermOf(i) : i \in S}
               f == [i \in S |-> TermOf(i)]
    <3>1. f \in Surjection(S, T)
      BY DEF Surjection
    <3> QED BY <2>1, <3>1, FS_Surjection
  <2>3. IsFiniteSet({TermOf(i) : i \in 1..Len(infos)} \ {0})
    BY <2>2, FS_Subset
  <2> QED BY <2>3, FS_CardinalityType DEF NextTerm
<1>3. CASE ElectMaster
  BY <1>2, <1>3, AddInfoPreserves DEF ElectMaster
<1>4. CASE ChangeBackups
  <2>1. LastInfo.term \in Nat /\ LastInfo.master \in Nodes \cup {NoNode}
    BY <1>1 DEF ReplicaInfo
  <2> QED BY <1>4, <2>1, AddInfoPreserves DEF ChangeBackups
<1>5. CASE LoseMaster
  BY <1>5, AddInfoPreserves DEF LoseMaster
<1> QED BY <1>3, <1>4, <1>5

\* The lifecycle manager takes over the next replica info.
LEMMA OnReplicaInfoChangePreserves ==
  ASSUME IInv, NEW n \in Nodes, OnReplicaInfoChange(n)
  PROVE  IInv'
<1> DEFINE at == view[n] + 1
<1>1. /\ UNCHANGED <<mastership, noticed, terms, store, backups, syncs, net,
                      spent>>
      /\ view' = [view EXCEPT ![n] = at]
      /\ at <= Len(infos)
  BY DEF OnReplicaInfoChange
<1>2. /\ view \in [Nodes -> Indexes] /\ events \in [Nodes -> Seq(Job)]
      /\ noticed \in [Nodes -> 1..Len(lifecycles)]
  BY DEF IInv, TypeOK, LifecycleOK
<1>3. at \in Indexes
  BY <1>1, <1>2, IndexFacts DEF Indexes, IInv
<1>4. UNCHANGED events \/ \E type \in {"TERM_START", "TERM_UPDATE"} :
                             Post(n, type, at)
  BY DEF OnReplicaInfoChange
<1> HIDE DEF at
<1>5. events' \in [Nodes -> Seq(Job)]
  <2>1. events[n] \in Seq(Job)
    BY <1>2
  <2>2. \A type \in {"TERM_START", "TERM_UPDATE"} :
          Posted(events[n], type, at, 0) \in Seq(Job)
    BY <2>1, <1>3, PostedFacts
  <2> QED BY <1>2, <1>4, <2>2 DEF Post
<1>6. LifecycleOK'
  BY <1>1, <1>2, <1>3, <1>5, SameInfos DEF LifecycleOK, mastership
<1> QED BY <1>1, <1>6, PartsKept, NetUnchanged, AssembleNoWrite
        DEF mastership, store

\* The lifecycle manager notices an activation.
LEMMA OnActivatePreserves ==
  ASSUME IInv, NEW n \in Nodes, OnActivate(n)
  PROVE  IInv'
<1>1. /\ UNCHANGED <<mastership, view, terms, store, backups, syncs, net, spent>>
      /\ noticed' = [noticed EXCEPT ![n] = @ + 1]
      /\ noticed[n] < Len(lifecycles)
  BY DEF OnActivate
<1>2. /\ view \in [Nodes -> Indexes] /\ events \in [Nodes -> Seq(Job)]
      /\ noticed \in [Nodes -> 1..Len(lifecycles)] /\ lifecycles \in Seq(Nat)
  BY DEF IInv, TypeOK, LifecycleOK, MastershipOK
<1>3. Len(lifecycles) \in Nat
  BY <1>2, LenProperties
<1>4. UNCHANGED events \/ Post(n, "TERM_ACTIVE", Len(infos))
  BY DEF OnActivate
<1>5. events' \in [Nodes -> Seq(Job)]
  <2>1. events[n] \in Seq(Job) /\ Len(infos) \in Indexes
    BY <1>2, IndexFacts DEF IInv
  <2>2. Posted(events[n], "TERM_ACTIVE", Len(infos), 0) \in Seq(Job)
    BY <2>1, PostedFacts
  <2> QED BY <1>2, <1>4, <2>2 DEF Post
<1>6. LifecycleOK'
  BY <1>1, <1>2, <1>3, <1>5, SameInfos DEF LifecycleOK, mastership
<1> QED BY <1>1, <1>6, PartsKept, NetUnchanged, AssembleNoWrite
        DEF mastership, store

-----------------------------------------------------------------------------
(* Terms: the executor's jobs *)

\* A job that only leaves the queue.
LEMMA DoneFacts ==
  ASSUME IInv, UNCHANGED <<infos, lifecycles, view, noticed>>, NEW n \in Nodes,
         NEW type, NextJob(n, type), Done(n)
  PROVE  LifecycleOK'
<1>1. Tail(events[n]) \in Seq(Job)
  BY JobFacts DEF IInv
<1> QED BY <1>1, QueueReplaced DEF Done

\* syncFlowsOn, called by a job that leaves the queue.
LEMMA SyncFlowsOnFacts ==
  ASSUME IInv, UNCHANGED <<infos, lifecycles, view, noticed>>, NEW n \in Nodes,
         NEW type, NextJob(n, type), NEW peers \in SUBSET Nodes,
         NEW at \in Indexes, NEW prev \in Indexes, NEW onMaster \in BOOLEAN,
         SyncFlowsOn(n, peers, at, prev, onMaster)
  PROVE  Sound /\ LifecycleOK' /\ SyncsOK'
<1>1. EmptyBucket \in Bucket /\ EmptyBucket.ts <= clock[n]
  <2>1. clock[n] \in Nat
    BY DEF IInv, TypeOK, NetOK
  <2> QED BY <2>1, EmptyFacts
<1>2. Sound
  BY <1>1, SendSound DEF SyncFlowsOn
<1>3. CASE /\ UNCHANGED syncs
           /\ events' = [events EXCEPT ![n] = Posted(Tail(@), "SYNCED", at, 0)]
  <2>1. Tail(events[n]) \in Seq(Job)
    BY JobFacts DEF IInv
  <2>2. Posted(Tail(events[n]), "SYNCED", at, 0) \in Seq(Job)
    BY <2>1, PostedFacts
  <2>3. LifecycleOK'
    BY <1>3, <2>2, QueueReplaced
  <2> QED BY <1>2, <1>3, <2>3, PartsKept
<1>4. CASE /\ syncs' = [syncs EXCEPT ![n] = @ \cup
                {[at |-> at, prev |-> prev, left |-> peers,
                  onMaster |-> onMaster]}]
           /\ Done(n)
  <2>1. [at |-> at, prev |-> prev, left |-> peers, onMaster |-> onMaster]
          \in Sync
    BY DEF Sync
  <2>2. SyncsOK'
    BY <1>4, <2>1, SameInfos DEF IInv, TypeOK, SyncsOK
  <2> QED BY <1>2, <1>4, <2>2, DoneFacts
<1> QED BY <1>3, <1>4 DEF SyncFlowsOn

\* The term's replica info is stored; the new master starts to synchronize.
LEMMA StartTermPreserves ==
  ASSUME IInv, NEW n \in Nodes, StartTerm(n)
  PROVE  IInv'
<1> DEFINE at == Head(events[n]).at
           prev == table[n]
           master == infos[prev].master
<1>1. NextJob(n, "TERM_START")
      /\ UNCHANGED <<mastership, view, noticed, activeTerm, activating, drain,
                     store, backups, spent>>
      /\ table' = [table EXCEPT ![n] = at]
  BY DEF StartTerm
<1>2. at \in Indexes /\ prev \in Indexes
  BY <1>1, JobFacts DEF IInv, TypeOK, TermsOK
<1>3. Sound /\ LifecycleOK' /\ SyncsOK'
  <2>1. CASE Done(n) /\ UNCHANGED <<syncs, net>>
    BY <1>1, <2>1, DoneFacts, NetUnchanged, PartsKept DEF mastership
  <2>2. CASE master \notin {n, NoNode} /\ SyncFlowsOn(n, {master}, at, prev, TRUE)
    <3>1. master \in Nodes
      BY <1>2, <2>2, InfoFacts DEF IInv, ReplicaInfo
    <3> QED BY <1>1, <1>2, <2>2, <3>1, SyncFlowsOnFacts DEF mastership
  <2>3. CASE SyncFlowsOnBackups(n, at, prev)
    <3>1. infos[prev].backups \ {n} \in SUBSET Nodes
      BY <1>2, InfoFacts DEF IInv
    <3> QED BY <1>1, <1>2, <2>3, <3>1, SyncFlowsOnFacts
            DEF SyncFlowsOnBackups, mastership
  <2> QED BY <2>1, <2>2, <2>3 DEF StartTerm
<1>4. TermsOK'
  BY <1>1, <1>2, SameInfos DEF IInv, TypeOK, TermsOK, mastership
<1> QED BY <1>1, <1>3, <1>4, PartsKept, AssembleNoWrite DEF mastership, store

\* The backups of the previous term are asked instead of its master.
LEMMA FallBackPreserves ==
  ASSUME IInv, NEW n \in Nodes, FallBack(n)
  PROVE  IInv'
<1> DEFINE at == Head(events[n]).at
           prev == Head(events[n]).prev
<1>1. NextJob(n, "SYNC_FAILED") /\ SyncFlowsOnBackups(n, at, prev)
      /\ UNCHANGED <<mastership, view, noticed, terms, store, backups, spent>>
  BY DEF FallBack
<1>2. at \in Indexes /\ prev \in Indexes
  BY <1>1, JobFacts DEF IInv
<1>3. infos[prev].backups \ {n} \in SUBSET Nodes
  BY <1>2, InfoFacts DEF IInv
<1>4. Sound /\ LifecycleOK' /\ SyncsOK'
  BY <1>1, <1>2, <1>3, SyncFlowsOnFacts DEF SyncFlowsOnBackups, mastership
<1> QED BY <1>1, <1>4, PartsKept, AssembleNoWrite DEF mastership, store

\* Clearing a bucket is always covered.
LEMMA ClearFacts ==
  ASSUME IInv, Sound, NEW n \in Nodes,
         bucket' \in {bucket, [bucket EXCEPT ![n] = EmptyBucket]}
  PROVE  Covered(n) /\ bucket' \in [Nodes -> Bucket]
<1>1. bucket \in [Nodes -> Bucket]
  BY DEF IInv, TypeOK, StoreOK
<1>2. clock'[n] \in Nat
  BY DEF Sound
<1>3. EmptyBucket \in Bucket /\ EmptyBucket.ts <= clock'[n]
  BY <1>2, EmptyFacts
<1>4. bucket' \in [Nodes -> Bucket]
  BY <1>1, <1>3
<1>5. Covered(n)
  BY <1>1, <1>3 DEF Covered
<1> QED BY <1>4, <1>5

\* The backups of the current term change.
LEMMA UpdateTermPreserves ==
  ASSUME IInv, NEW n \in Nodes, UpdateTerm(n)
  PROVE  IInv'
<1> DEFINE at == Head(events[n]).at
<1>1. NextJob(n, "TERM_UPDATE") /\ Done(n)
      /\ UNCHANGED <<mastership, view, noticed, activeTerm, activating, drain,
                     flowTasks, client, backups, syncs, net, spent>>
  BY DEF UpdateTerm
<1>2. at \in Indexes
  BY <1>1, JobFacts DEF IInv
<1>3. /\ table' \in {table, [table EXCEPT ![n] = at]}
      /\ bucket' \in {bucket, [bucket EXCEPT ![n] = EmptyBucket]}
  BY DEF UpdateTerm
<1>4. Sound /\ LifecycleOK'
  BY <1>1, NetUnchanged, DoneFacts DEF mastership
<1>5. Covered(n) /\ bucket' \in [Nodes -> Bucket]
  BY <1>3, <1>4, ClearFacts
<1>6. TermsOK'
  BY <1>1, <1>2, <1>3, SameInfos DEF IInv, TypeOK, TermsOK, mastership
<1>7. StoreOK'
  BY <1>1, <1>5 DEF IInv, TypeOK, StoreOK
<1> QED BY <1>1, <1>4, <1>5, <1>6, <1>7, PartsKept, Assemble DEF mastership

\* The term becomes active.
LEMMA ActivateTermPreserves ==
  ASSUME IInv, NEW n \in Nodes, ActivateTerm(n)
  PROVE  IInv'
<1> DEFINE at == Head(events[n]).at
<1>1. NextJob(n, "TERM_ACTIVE") /\ Done(n)
      /\ UNCHANGED <<mastership, view, noticed, activating, drain, flowTasks,
                     client, backups, syncs, net, spent>>
  BY DEF ActivateTerm
<1>2. at \in Indexes /\ TermOf(at) \in Nat
  BY <1>1, JobFacts, InfoFacts DEF IInv
<1>3. /\ table' \in {table, [table EXCEPT ![n] = at]}
      /\ bucket' \in {bucket, [bucket EXCEPT ![n] = EmptyBucket]}
      /\ activeTerm' \in {activeTerm, [activeTerm EXCEPT ![n] = TermOf(at)]}
  BY DEF ActivateTerm
<1>4. Sound /\ LifecycleOK'
  BY <1>1, NetUnchanged, DoneFacts DEF mastership
<1>5. Covered(n) /\ bucket' \in [Nodes -> Bucket]
  BY <1>3, <1>4, ClearFacts
<1>6. TermsOK'
  BY <1>1, <1>2, <1>3, SameInfos DEF IInv, TypeOK, TermsOK, mastership
<1>7. StoreOK'
  BY <1>1, <1>5 DEF IInv, TypeOK, StoreOK
<1> QED BY <1>1, <1>4, <1>5, <1>6, <1>7, PartsKept, Assemble DEF mastership

\* A client that is in runInTerm carries an operation, whatever becomes of it.
LEMMA TaskFacts ==
  ASSUME NEW t \in Task
  PROVE  /\ [t EXCEPT !.stale = TRUE] \in Task
         /\ [t EXCEPT !.mode = "writing"] \in Task
         /\ [t EXCEPT !.mode = "enqueue"] \in Task
         /\ [t EXCEPT !.mode = "raced"] \in Task
         /\ [t EXCEPT !.mode = "late"] \in Task
  BY DEF Task

\* The operation of a node's client may be marked or dropped.
LEMMA ClientFacts ==
  ASSUME IInv, NEW n \in Nodes
  PROVE  /\ client \in [Nodes -> Task \cup {NoTask}]
         /\ client[n] # NoTask => client[n] \in Task
         /\ [client EXCEPT ![n] = NoTask] \in [Nodes -> Task \cup {NoTask}]
         /\ client[n] # NoTask =>
              /\ [client EXCEPT ![n].stale = TRUE]
                   \in [Nodes -> Task \cup {NoTask}]
              /\ [client EXCEPT ![n].mode = "writing"]
                   \in [Nodes -> Task \cup {NoTask}]
              /\ [client EXCEPT ![n].mode = "raced"]
                   \in [Nodes -> Task \cup {NoTask}]
              /\ [client EXCEPT ![n].mode = "late"]
                   \in [Nodes -> Task \cup {NoTask}]
<1>1. client \in [Nodes -> Task \cup {NoTask}]
  BY DEF IInv, TypeOK, StoreOK
<1>2. client[n] # NoTask => client[n] \in Task
  BY <1>1
<1>3. ASSUME client[n] # NoTask
      PROVE  /\ [client[n] EXCEPT !.stale = TRUE] \in Task
             /\ [client[n] EXCEPT !.mode = "writing"] \in Task
             /\ [client[n] EXCEPT !.mode = "raced"] \in Task
             /\ [client[n] EXCEPT !.mode = "late"] \in Task
  BY <1>2, <1>3, TaskFacts
<1> QED BY <1>1, <1>2, <1>3

\* A taken queue is a sequence of operations.
LEMMA ActivateMasterPreserves ==
  ASSUME IInv, NEW n \in Nodes, ActivateMaster(n)
  PROVE  IInv'
<1> DEFINE at == Head(events[n]).at
<1>1. /\ NextJob(n, "SYNCED") /\ Done(n)
      /\ activating' = [activating EXCEPT ![n] = at]
      /\ drain' = [drain EXCEPT ![n] = flowTasks[n]]
      /\ flowTasks' = [flowTasks EXCEPT ![n] = <<>>]
      /\ UNCHANGED <<mastership, view, noticed, table, activeTerm, bucket,
                     backups, syncs, net, spent>>
  BY DEF ActivateMaster
<1>2. at \in Indexes
  BY <1>1, JobFacts DEF IInv
<1>3. client' \in [Nodes -> Task \cup {NoTask}]
  BY ClientFacts DEF ActivateMaster
<1>4. Sound /\ LifecycleOK'
  BY <1>1, NetUnchanged, DoneFacts DEF mastership
<1>5. flowTasks \in [Nodes -> Seq(Task)] /\ <<>> \in Seq(Task)
  BY EmptySeq DEF IInv, TypeOK, StoreOK
<1>6. TermsOK'
  BY <1>1, <1>2, <1>5, SameInfos DEF IInv, TypeOK, TermsOK, mastership
<1>7. StoreOK'
  BY <1>1, <1>3, <1>5 DEF IInv, TypeOK, StoreOK
<1> QED BY <1>1, <1>4, <1>6, <1>7, PartsKept, AssembleNoWrite DEF mastership

\* An operation stamps the bucket with the clock it has just advanced.
LEMMA RunFacts ==
  ASSUME IInv, NEW n \in Nodes, NEW t \in Task, Run(n, t), UNCHANGED msgs
  PROVE  Sound /\ Covered(n) /\ bucket' \in [Nodes -> Bucket]
<1>1. /\ clock \in [Nodes -> Nat] /\ msgs \in SUBSET Message
      /\ bucket \in [Nodes -> Bucket] /\ clock[n] + 1 \in Nat
  BY DEF IInv, TypeOK, NetOK, StoreOK
<1>2. \A m \in msgs : m.load.ts <= m.ts
  BY DEF IInv, LoadsCovered
<1>3. clock' \in {clock, [clock EXCEPT ![n] = @ + 1]}
  BY DEF Run
<1>4. Sound
  BY <1>1, <1>2, <1>3 DEF Sound
<1>5. CASE UNCHANGED bucket
  BY <1>1, <1>4, <1>5 DEF Covered
<1>6. CASE /\ clock' = [clock EXCEPT ![n] = @ + 1]
           /\ bucket' = [bucket EXCEPT ![n] = Recorded(@, t, clock[n] + 1)]
  <2>1. /\ Recorded(bucket[n], t, clock[n] + 1) \in Bucket
        /\ Recorded(bucket[n], t, clock[n] + 1).ts = clock[n] + 1
    BY <1>1, ChangeFacts
  <2>2. clock'[n] = clock[n] + 1
    BY <1>1, <1>6
  <2>3. bucket'[n] = Recorded(bucket[n], t, clock[n] + 1)
        /\ bucket' \in [Nodes -> Bucket]
        /\ \A x \in Nodes \ {n} : bucket'[x] = bucket[x]
    BY <1>1, <1>6, <2>1
  <2>4. bucket'[n].ts <= clock'[n]
    BY <1>1, <2>1, <2>2, <2>3
  <2> QED BY <1>4, <2>3, <2>4 DEF Covered
<1> QED BY <1>5, <1>6 DEF Run

\* activateBucket runs the next operation it has taken.
LEMMA RunEnqueuedPreserves ==
  ASSUME IInv, NEW n \in Nodes, RunEnqueued(n)
  PROVE  IInv'
<1>1. /\ drain[n] # <<>> /\ Run(n, Head(drain[n]))
      /\ drain' = [drain EXCEPT ![n] = Tail(@)]
      /\ UNCHANGED <<mastership, lifecycle, table, activeTerm, activating,
                     flowTasks, client, backups, syncs, msgs, spent>>
  BY DEF RunEnqueued
<1>2. drain \in [Nodes -> Seq(Task)] /\ drain[n] \in Seq(Task)
  BY DEF IInv, TypeOK, TermsOK
<1>3. Head(drain[n]) \in Task /\ Tail(drain[n]) \in Seq(Task)
  BY <1>1, <1>2, HeadTailProperties
<1>4. Sound /\ Covered(n) /\ bucket' \in [Nodes -> Bucket]
  BY <1>1, <1>3, RunFacts
<1>5. drain' \in [Nodes -> Seq(Task)]
  BY <1>1, <1>2, <1>3
<1>6. TermsOK'
  BY <1>1, <1>5, SameInfos DEF IInv, TypeOK, TermsOK, mastership
<1>7. StoreOK'
  BY <1>1, <1>4 DEF IInv, TypeOK, StoreOK
<1> QED BY <1>1, <1>4, <1>6, <1>7, PartsKept, Assemble DEF mastership

\* The term is put in the lifecycles map, where the others will notice it.
LEMMA FinishActivationPreserves ==
  ASSUME IInv, NEW n \in Nodes, FinishActivation(n)
  PROVE  IInv'
<1> DEFINE term == TermOf(activating[n])
<1>1. /\ activating[n] # 0
      /\ lifecycles' \in {lifecycles, Append(lifecycles, term)}
      /\ activeTerm' = [activeTerm EXCEPT ![n] = term]
      /\ activating' = [activating EXCEPT ![n] = 0]
      /\ UNCHANGED <<infos, lifecycle, table, drain, bucket, flowTasks,
                     backups, syncs, net, spent>>
  BY DEF FinishActivation, Free
<1>2. activating[n] \in Indexes
  BY <1>1 DEF IInv, TypeOK, TermsOK
<1>3. term \in Nat
  BY <1>2, InfoFacts DEF IInv
<1> HIDE DEF term
<1>4. /\ lifecycles \in Seq(Nat) /\ infos \in Seq(ReplicaInfo) /\ infos # <<>>
  BY DEF IInv, TypeOK, MastershipOK
<1>5. /\ lifecycles' \in Seq(Nat) /\ Len(lifecycles') >= Len(lifecycles)
      /\ Len(lifecycles) \in Nat /\ Len(lifecycles') \in Nat
  <2>1. /\ Append(lifecycles, term) \in Seq(Nat)
        /\ Len(Append(lifecycles, term)) = Len(lifecycles) + 1
    BY <1>3, <1>4, AppendProperties
  <2>2. Len(lifecycles) \in Nat
    BY <1>4, LenProperties
  <2>3. CASE lifecycles' = lifecycles
    BY <1>4, <2>2, <2>3
  <2>4. CASE lifecycles' = Append(lifecycles, term)
    BY <2>1, <2>2, <2>4
  <2> QED BY <1>1, <2>3, <2>4
<1>6. client' \in [Nodes -> Task \cup {NoTask}]
  BY ClientFacts DEF FinishActivation
<1>7. MastershipOK'
  BY <1>1, <1>4, <1>5 DEF MastershipOK
<1>8. LifecycleOK'
  <2>1. noticed \in [Nodes -> 1..Len(lifecycles)]
    BY DEF IInv, TypeOK, LifecycleOK
  <2>2. noticed' \in [Nodes -> 1..Len(lifecycles')]
    BY <1>1, <1>5, <2>1 DEF lifecycle
  <2> QED BY <1>1, <2>2, SameInfos DEF IInv, TypeOK, LifecycleOK, lifecycle
<1>9. TermsOK'
  BY <1>1, <1>3, SameInfos DEF IInv, TypeOK, TermsOK
<1>10. StoreOK'
  BY <1>1, <1>6 DEF IInv, TypeOK, StoreOK
<1>11. Sound
  BY <1>1, NetUnchanged
<1> QED BY <1>1, <1>7, <1>8, <1>9, <1>10, <1>11, PartsKept, AssembleNoWrite

-----------------------------------------------------------------------------
(* Clients *)

\* The bounds are kept.
LEMMA SpendFacts ==
  ASSUME IInv,
         \/ Spend("ops", MaxOps)
         \/ Spend("rounds", MaxRounds)
         \/ Spend("faults", MaxFaults)
  PROVE  SpentOK'
<1>1. spent \in [ops : 0..MaxOps, rounds : 0..MaxRounds, faults : 0..MaxFaults]
  BY DEF IInv, TypeOK
<1>2. MaxOps \in Nat /\ MaxRounds \in Nat /\ MaxFaults \in Nat
  BY ConstantsAssumption
<1> QED BY <1>1, <1>2 DEF Spend, SpentOK

\* runInTerm takes the term of the lifecycle manager's replica info.
LEMMA RunInTermPreserves ==
  ASSUME IInv, NEW n \in Nodes, RunInTerm(n)
  PROVE  IInv'
<1>1. /\ Spend("ops", MaxOps)
      /\ UNCHANGED <<mastership, lifecycle, terms, bucket, flowTasks, backups,
                     syncs, net>>
  BY DEF RunInTerm
<1>2. PICK op \in Operations \ {"purge"}, r \in Rules :
        client' = [client EXCEPT ![n] =
          [op |-> op, rule |-> r, term |-> Info(n).term, stale |-> FALSE,
           mode |-> IF activeTerm[n] < Info(n).term THEN "enqueue" ELSE "apply"]]
  BY DEF RunInTerm
<1>3. Info(n).term \in Nat
  <2>1. view[n] \in Indexes
    BY DEF IInv, TypeOK, LifecycleOK
  <2> QED BY <2>1, InfoFacts DEF IInv, Info, TermOf
<1>4. [op |-> op, rule |-> r, term |-> Info(n).term, stale |-> FALSE,
       mode |-> IF activeTerm[n] < Info(n).term THEN "enqueue" ELSE "apply"]
        \in Task
  BY <1>3, ConstantsAssumption DEF Task
<1>5. StoreOK'
  BY <1>1, <1>2, <1>4 DEF IInv, TypeOK, StoreOK
<1> QED BY <1>1, <1>5, SpendFacts, NetUnchanged, PartsKept, AssembleNoWrite
        DEF mastership

\* The entry is in the bucket, its update not yet recorded.
LEMMA BeginWritePreserves ==
  ASSUME IInv, NEW n \in Nodes, BeginWrite(n)
  PROVE  IInv'
<1>1. /\ client[n] # NoTask
      /\ client' = [client EXCEPT ![n].mode = "writing"]
      /\ UNCHANGED <<mastership, lifecycle, terms, bucket, flowTasks, backups,
                     syncs, net, spent>>
  BY DEF BeginWrite
<1>2. client' \in [Nodes -> Task \cup {NoTask}]
  BY <1>1, ClientFacts
<1>3. StoreOK'
  BY <1>1, <1>2 DEF IInv, TypeOK, StoreOK
<1> QED BY <1>1, <1>3, NetUnchanged, PartsKept, AssembleNoWrite DEF mastership

\* The operation runs under the bucket's lock.
LEMMA ApplyPreserves ==
  ASSUME IInv, NEW n \in Nodes, Apply(n)
  PROVE  IInv'
<1>1. /\ client[n] # NoTask /\ Run(n, client[n]) /\ Return(n)
      /\ UNCHANGED <<mastership, lifecycle, terms, flowTasks, backups, syncs,
                     msgs, spent>>
  BY DEF Apply
<1>2. client[n] \in Task /\ client' \in [Nodes -> Task \cup {NoTask}]
  BY <1>1, ClientFacts DEF Return
<1>3. Sound /\ Covered(n) /\ bucket' \in [Nodes -> Bucket]
  BY <1>1, <1>2, RunFacts
<1>4. StoreOK'
  BY <1>1, <1>2, <1>3 DEF IInv, TypeOK, StoreOK
<1> QED BY <1>1, <1>3, <1>4, PartsKept, Assemble DEF mastership

\* The operation is queued.
LEMMA EnqueuePreserves ==
  ASSUME IInv, NEW n \in Nodes, Enqueue(n)
  PROVE  IInv'
<1> DEFINE t == [client[n] EXCEPT !.mode = "enqueue"]
<1>1. /\ client[n] # NoTask /\ Return(n)
      /\ flowTasks' = [flowTasks EXCEPT ![n] = Append(@, t)]
      /\ UNCHANGED <<mastership, lifecycle, terms, bucket, backups, syncs, net,
                     spent>>
  BY DEF Enqueue
<1>2. t \in Task /\ client' \in [Nodes -> Task \cup {NoTask}]
  BY <1>1, ClientFacts, TaskFacts DEF Return
<1> HIDE DEF t
<1>3. flowTasks \in [Nodes -> Seq(Task)] /\ Append(flowTasks[n], t) \in Seq(Task)
  BY <1>2, AppendProperties DEF IInv, TypeOK, StoreOK
<1>4. StoreOK'
  BY <1>1, <1>2, <1>3 DEF IInv, TypeOK, StoreOK
<1> QED BY <1>1, <1>4, NetUnchanged, PartsKept, AssembleNoWrite DEF mastership

\* The operation is added to the list that has been taken.
LEMMA AddToTakenPreserves ==
  ASSUME IInv, NEW n \in Nodes, AddToTaken(n)
  PROVE  IInv'
<1> DEFINE t == [client[n] EXCEPT !.mode = "enqueue"]
<1>1. /\ client[n] # NoTask /\ Return(n)
      /\ drain' \in {drain, [drain EXCEPT ![n] = Append(@, t)],
                     [drain EXCEPT ![n] = <<>>]}
      /\ activating' \in {activating, [activating EXCEPT ![n] = 0]}
      /\ UNCHANGED <<mastership, lifecycle, table, activeTerm, bucket,
                     flowTasks, backups, syncs, net, spent>>
  BY DEF AddToTaken
<1>2. t \in Task /\ client' \in [Nodes -> Task \cup {NoTask}]
  BY <1>1, ClientFacts, TaskFacts DEF Return
<1> HIDE DEF t
<1>3. /\ drain \in [Nodes -> Seq(Task)] /\ Append(drain[n], t) \in Seq(Task)
      /\ <<>> \in Seq(Task)
  BY <1>2, AppendProperties, EmptySeq DEF IInv, TypeOK, TermsOK
<1>4. drain' \in [Nodes -> Seq(Task)]
  BY <1>1, <1>3
<1>5. TermsOK'
  BY <1>1, <1>4, SameInfos DEF IInv, TypeOK, TermsOK, mastership
<1>6. StoreOK'
  BY <1>1, <1>2 DEF IInv, TypeOK, StoreOK
<1> QED BY <1>1, <1>5, <1>6, NetUnchanged, PartsKept, AssembleNoWrite
        DEF mastership

\* purge() empties the bucket and keeps its digest.
LEMMA PurgePreserves ==
  ASSUME IInv, NEW n \in Nodes, Purge(n)
  PROVE  IInv'
<1>1. /\ Spend("ops", MaxOps)
      /\ flowTasks' = [flowTasks EXCEPT ![n] = <<>>]
      /\ bucket' = [bucket EXCEPT ![n] = purge(@)]
      /\ lastBackup' = [lastBackup EXCEPT ![n] = [m \in Nodes |-> 0]]
      /\ inFlight' = [inFlight EXCEPT ![n] = {}]
      /\ UNCHANGED <<mastership, lifecycle, terms, client, rounds, syncs, net>>
  BY DEF Purge
<1>2. bucket \in [Nodes -> Bucket] /\ bucket[n].ts <= clock[n]
  BY DEF IInv, TypeOK, StoreOK, ClockCoversBuckets
<1>3. purge(bucket[n]) \in Bucket /\ purge(bucket[n]).ts = bucket[n].ts
  BY <1>2, BucketFacts
<1>4. bucket' \in [Nodes -> Bucket] /\ bucket'[n] = purge(bucket[n])
      /\ \A x \in Nodes \ {n} : bucket'[x] = bucket[x]
  BY <1>1, <1>2, <1>3
<1>5. Covered(n)
  BY <1>1, <1>2, <1>3, <1>4 DEF Covered, net
<1>6. StoreOK'
  BY <1>1, <1>4, EmptySeq DEF IInv, TypeOK, StoreOK
<1>7. BackupsOK'
  BY <1>1 DEF IInv, TypeOK, BackupsOK
<1> QED BY <1>1, <1>5, <1>6, <1>7, SpendFacts, NetUnchanged, PartsKept, Assemble
        DEF mastership

-----------------------------------------------------------------------------
(* Backups, anti-entropy and synchronization *)

\* The messages, the bucket and the clock a handler works with.
LEMMA HandlerFacts ==
  ASSUME IInv, NEW n \in Nodes
  PROVE  /\ bucket[n] \in Bucket
         /\ bucket[n].ts <= clock[n]
         /\ clock[n] \in Nat
         /\ \A m \in msgs : /\ m.load \in Bucket /\ m.ts \in Nat
                            /\ m.load.ts <= m.ts
                            /\ m.from \in Nodes /\ m.to \in Nodes
                            /\ m.at \in {0} \cup Indexes
                            /\ m.at > 0 => m.at \in Indexes
<1>1. /\ bucket \in [Nodes -> Bucket] /\ clock \in [Nodes -> Nat]
      /\ msgs \in SUBSET Message
  BY DEF IInv, TypeOK, StoreOK, NetOK
<1>2. ASSUME NEW m \in msgs
      PROVE  /\ m.load \in Bucket /\ m.ts \in Nat
             /\ m.from \in Nodes /\ m.to \in Nodes
             /\ m.at \in {0} \cup Indexes
  BY <1>1 DEF Message
<1>3. \A m \in msgs : m.at > 0 => m.at \in Indexes
  BY <1>2
<1> QED BY <1>1, <1>2, <1>3 DEF IInv, ClockCoversBuckets, LoadsCovered

\* compute() puts in the bucket a message has carried, if any.
LEMMA ComputeFacts ==
  ASSUME IInv, NEW n \in Nodes, NEW b \in Bucket, Sound, b.ts <= clock'[n],
         compute(n, b) \/ UNCHANGED store
  PROVE  Covered(n) /\ StoreOK'
<1>1. CASE UNCHANGED store
  BY <1>1 DEF Covered, store, StoreOK, IInv, TypeOK
<1>2. CASE /\ bucket' = [bucket EXCEPT ![n] = b]
           /\ flowTasks' = [flowTasks EXCEPT ![n] = Orphaned(@)]
           /\ client' = IF client[n] = NoTask THEN client
                        ELSE [client EXCEPT ![n].stale = TRUE]
  <2>1. bucket \in [Nodes -> Bucket] /\ flowTasks \in [Nodes -> Seq(Task)]
    BY DEF IInv, TypeOK, StoreOK
  <2>2. Covered(n) /\ bucket' \in [Nodes -> Bucket]
    BY <1>2, <2>1 DEF Covered
  <2>3. client' \in [Nodes -> Task \cup {NoTask}]
    BY <1>2, ClientFacts
  <2>4. Orphaned(flowTasks[n]) \in Seq(Task)
    <3> DEFINE q == flowTasks[n]
    <3>1. /\ q \in Seq(Task) /\ Len(q) \in Nat /\ DOMAIN q = 1..Len(q)
      BY <2>1, LenProperties
    <3>2. \A i \in 1..Len(q) : q[i] \in Task
      BY <3>1, ElementOfSeq
    <3> HIDE DEF q
    <3>3. \A i \in 1..Len(q) : [q[i] EXCEPT !.stale = TRUE] \in Task
      BY <3>2, TaskFacts
    <3>4. Orphaned(q) = [i \in 1..Len(q) |-> [q[i] EXCEPT !.stale = TRUE]]
      BY <3>1 DEF Orphaned
    <3>5. Orphaned(q) \in [1..Len(q) -> Task]
      BY <3>3, <3>4
    <3>6. Orphaned(q) \in Seq(Task)
      BY <3>1, <3>5, SeqDef
    <3> QED BY <3>6 DEF q
  <2>5. flowTasks' \in [Nodes -> Seq(Task)]
    BY <1>2, <2>1, <2>4
  <2> QED BY <2>2, <2>3, <2>5 DEF StoreOK
<1> QED BY <1>1, <1>2 DEF compute

\* The lists of anti-entropy exchanges that wait for backups.
Round == [peer : Nodes, left : SUBSET Nodes]

\* A settled backup leaves every list it is in.
LEMMA SettleFacts ==
  ASSUME IInv, NEW n \in Nodes, NEW m \in msgs, NEW peer \in Nodes,
         NEW succeeded \in BOOLEAN, Settle(n, m, peer, succeeded)
  PROVE  BackupsOK'
<1>1. /\ lastBackup \in [Nodes -> [Nodes -> Nat]]
      /\ inFlight \in [Nodes -> SUBSET Nodes]
      /\ rounds \in [Nodes -> SUBSET Round]
  BY DEF IInv, TypeOK, BackupsOK, Round
<1>2. m.load.ts \in Nat
  <2>1. m.load \in Bucket
    BY HandlerFacts
  <2> QED BY <2>1 DEF Bucket
<1>3. lastBackup' \in [Nodes -> [Nodes -> Nat]]
  BY <1>1, <1>2 DEF Settle
<1>4. inFlight' \in [Nodes -> SUBSET Nodes]
  BY <1>1 DEF Settle
<1>5. \A r \in rounds[n] : [r EXCEPT !.left = @ \ {peer}] \in Round
  BY <1>1 DEF Round
<1>6. {[r EXCEPT !.left = @ \ {peer}] : r \in rounds[n]} \in SUBSET Round
  BY <1>5
<1>7. rounds' \in [Nodes -> SUBSET Round]
  BY <1>1, <1>6 DEF Settle
<1> QED BY <1>3, <1>4, <1>7 DEF BackupsOK, Round

\* A round backs up to the replica info's backups.
LEMMA RunAntiEntropyPreserves ==
  ASSUME IInv, NEW n \in Nodes, RunAntiEntropy(n)
  PROVE  IInv'
<1> DEFINE peers == Info(n).backups
           started == {m \in peers : startBackup(n, m)}
<1>1. /\ Spend("rounds", MaxRounds)
      /\ Send(n, started, "backup", 0, bucket[n])
      /\ inFlight' = [inFlight EXCEPT ![n] = @ \cup started]
      /\ UNCHANGED <<mastership, lifecycle, terms, store, lastBackup, syncs>>
  BY DEF RunAntiEntropy
<1>2. PICK first \in peers :
        rounds' = [rounds EXCEPT ![n] =
          {[peer |-> p, left |-> IF p = first THEN started ELSE {}] :
             p \in peers}]
  BY DEF RunAntiEntropy
<1>3. peers \in SUBSET Nodes
  <2>1. view[n] \in Indexes
    BY DEF IInv, TypeOK, LifecycleOK
  <2> QED BY <2>1, InfoFacts DEF IInv, Info
<1>4. started \in SUBSET Nodes
  BY <1>3
<1> HIDE DEF peers, started
<1>5. Sound
  BY <1>1, <1>4, HandlerFacts, SendSound
<1>6. \A p \in peers :
        [peer |-> p, left |-> IF p = first THEN started ELSE {}] \in Round
  BY <1>3, <1>4 DEF Round
<1>7. /\ lastBackup \in [Nodes -> [Nodes -> Nat]]
      /\ inFlight \in [Nodes -> SUBSET Nodes]
      /\ rounds \in [Nodes -> SUBSET Round]
  BY DEF IInv, TypeOK, BackupsOK, Round
<1>8. BackupsOK'
  <2>1. rounds' \in [Nodes -> SUBSET Round]
    BY <1>2, <1>6, <1>7
  <2>2. inFlight' \in [Nodes -> SUBSET Nodes]
    BY <1>1, <1>4, <1>7
  <2> QED BY <1>1, <1>7, <2>1, <2>2 DEF BackupsOK, Round
<1> QED BY <1>1, <1>5, <1>8, SpendFacts, PartsKept, AssembleNoWrite
        DEF mastership, store

\* An exchange asks its peer for digests.
LEMMA AskDigestsPreserves ==
  ASSUME IInv, NEW n \in Nodes, AskDigests(n)
  PROVE  IInv'
<1>1. PICK r \in rounds[n] :
        /\ rounds' = [rounds EXCEPT ![n] = @ \ {r}]
        /\ Send(n, {r.peer}, "digests", 0, EmptyBucket)
  BY DEF AskDigests
<1>2. UNCHANGED <<mastership, lifecycle, terms, store, lastBackup, inFlight,
                  syncs, spent>>
  BY DEF AskDigests
<1>3. rounds \in [Nodes -> SUBSET Round]
  BY DEF IInv, TypeOK, BackupsOK, Round
<1>4. r.peer \in Nodes
  BY <1>3 DEF Round
<1>5. EmptyBucket \in Bucket /\ EmptyBucket.ts <= clock[n]
  BY HandlerFacts, EmptyFacts
<1>6. Sound
  BY <1>1, <1>4, <1>5, SendSound
<1>7. BackupsOK'
  <2>1. rounds' \in [Nodes -> SUBSET Round]
    BY <1>1, <1>3
  <2> QED BY <1>2, <2>1 DEF IInv, TypeOK, BackupsOK, Round
<1> QED BY <1>2, <1>6, <1>7, PartsKept, AssembleNoWrite DEF mastership, store

\* A backup is taken over in its own term.
LEMMA OnBackupPreserves ==
  ASSUME IInv, NEW n \in Nodes, OnBackup(n)
  PROVE  IInv'
<1>1. PICK m \in msgs :
        LET sameTerm == m.load.term = Info(n).term IN
        /\ Answer(n, m, m.load, sameTerm)
        /\ IF sameTerm THEN compute(n, m.load) ELSE UNCHANGED store
  BY DEF OnBackup
<1>2. UNCHANGED <<mastership, lifecycle, terms, backups, syncs, spent>>
  BY DEF OnBackup
<1>3. m.load \in Bucket /\ m.load.ts <= m.ts /\ m.ts \in Nat
  BY HandlerFacts
<1>4. Sound /\ clock'[n] >= m.ts
  BY <1>1, <1>3, AnswerSound
<1>5. m.load.ts <= clock'[n]
  <2>1. clock'[n] \in Nat /\ m.load.ts \in Nat
    BY <1>3, <1>4 DEF Sound, Bucket
  <2> QED BY <1>3, <1>4, <2>1
<1>6. Covered(n) /\ StoreOK'
  BY <1>1, <1>3, <1>4, <1>5, ComputeFacts
<1> QED BY <1>2, <1>4, <1>6, PartsKept, Assemble DEF mastership

\* The answer to a backup settles it.
LEMMA BackupAnsweredPreserves ==
  ASSUME IInv, NEW n \in Nodes, BackupAnswered(n)
  PROVE  IInv'
<1>1. PICK m \in msgs : Accept(n, m) /\ Settle(n, m, m.from, m.ok)
  BY DEF BackupAnswered
<1>2. UNCHANGED <<mastership, lifecycle, terms, store, syncs, spent>>
  BY DEF BackupAnswered
<1>3. m.from \in Nodes /\ m.ok \in BOOLEAN
  BY DEF IInv, TypeOK, NetOK, Message
<1>4. Sound
  BY <1>1, AcceptSound
<1>5. BackupsOK'
  BY <1>1, <1>3, SettleFacts
<1> QED BY <1>2, <1>4, <1>5, PartsKept, AssembleNoWrite DEF mastership, store

\* Digests carry the time of the bucket they are taken from.
LEMMA OnGetDigestsPreserves ==
  ASSUME IInv, NEW n \in Nodes, OnGetDigests(n)
  PROVE  IInv'
<1>1. PICK m \in msgs : Answer(n, m, digest(bucket[n]), TRUE)
  BY DEF OnGetDigests
<1>2. UNCHANGED <<mastership, lifecycle, terms, store, backups, syncs, spent>>
  BY DEF OnGetDigests
<1>3. digest(bucket[n]) \in Bucket /\ digest(bucket[n]).ts = bucket[n].ts
  BY HandlerFacts, BucketFacts
<1>4. Sound
  BY <1>1, <1>3, HandlerFacts, AnswerSound
<1> QED BY <1>2, <1>4, PartsKept, AssembleNoWrite DEF mastership, store

\* So does a copy, even one taken in the middle of a write.
LEMMA OnGetBucketPreserves ==
  ASSUME IInv, NEW n \in Nodes, OnGetBucket(n)
  PROVE  IInv'
<1>1. PICK m \in msgs, copy \in copies(n) : Answer(n, m, copy, TRUE)
  BY DEF OnGetBucket
<1>2. UNCHANGED <<mastership, lifecycle, terms, store, backups, syncs, spent>>
  BY DEF OnGetBucket
<1>3. copy \in Bucket /\ copy.ts <= clock[n]
  <2>1. CASE copy = bucket[n]
    BY <2>1, HandlerFacts
  <2>2. CASE client[n] # NoTask /\ copy = Changed(bucket[n], client[n])
    <3>1. client[n] \in Task /\ bucket[n] \in Bucket
      BY <2>2, ClientFacts, HandlerFacts
    <3>2. /\ Changed(bucket[n], client[n]) \in Bucket
          /\ Changed(bucket[n], client[n]).ts = bucket[n].ts
      BY <3>1, ChangeFacts
    <3> QED BY <2>2, <3>2, HandlerFacts
  <2> QED BY <2>1, <2>2 DEF copies, Locked
<1>4. Sound
  BY <1>1, <1>3, AnswerSound
<1> QED BY <1>2, <1>4, PartsKept, AssembleNoWrite DEF mastership, store

\* Anti-entropy resets the backup time of a peer that is behind.
LEMMA DigestsAnsweredPreserves ==
  ASSUME IInv, NEW n \in Nodes, DigestsAnswered(n)
  PROVE  IInv'
<1>1. PICK m \in msgs :
        /\ Accept(n, m)
        /\ lastBackup' \in {lastBackup, [lastBackup EXCEPT ![n][m.from] = 0]}
  BY DEF DigestsAnswered
<1>2. UNCHANGED <<mastership, lifecycle, terms, store, inFlight, rounds, syncs,
                  spent>>
  BY DEF DigestsAnswered
<1>3. m.from \in Nodes
  BY HandlerFacts
<1>4. Sound
  BY <1>1, AcceptSound
<1>5. BackupsOK'
  <2>1. lastBackup \in [Nodes -> [Nodes -> Nat]]
    BY DEF IInv, TypeOK, BackupsOK
  <2>2. [lastBackup EXCEPT ![n][m.from] = 0] \in [Nodes -> [Nodes -> Nat]]
    BY <1>3, <2>1
  <2>3. lastBackup' \in [Nodes -> [Nodes -> Nat]]
    BY <1>1, <2>1, <2>2
  <2> QED BY <1>2, <2>3 DEF IInv, TypeOK, BackupsOK
<1> QED BY <1>2, <1>4, <1>5, PartsKept, AssembleNoWrite DEF mastership, store

\* A newer bucket is requested, or the synchronization is over.
LEMMA SyncDigestsAnsweredPreserves ==
  ASSUME IInv, NEW n \in Nodes, SyncDigestsAnswered(n)
  PROVE  IInv'
<1>1. PICK m \in msgs :
        /\ m.at > 0
        /\ \/ /\ clock' = [clock EXCEPT ![n] = tick(n, m.ts) + 1]
              /\ \E new \in Requests(n, {m.from}, "bucket", m.at, EmptyBucket,
                                     tick(n, m.ts)) :
                   msgs' = (msgs \ {m}) \cup new
              /\ UNCHANGED <<syncs, events>>
           \/ Accept(n, m) /\ Succeed(n, m.at)
  BY DEF SyncDigestsAnswered
<1>2. UNCHANGED <<mastership, view, noticed, terms, store, backups, spent>>
  BY DEF SyncDigestsAnswered
<1>3. m.from \in Nodes /\ m.ts \in Nat /\ m.at \in Indexes /\ clock[n] \in Nat
  BY <1>1, HandlerFacts
<1>4. Sound /\ LifecycleOK' /\ SyncsOK'
  <2>1. CASE /\ clock' = [clock EXCEPT ![n] = tick(n, m.ts) + 1]
             /\ \E new \in Requests(n, {m.from}, "bucket", m.at, EmptyBucket,
                                    tick(n, m.ts)) :
                  msgs' = (msgs \ {m}) \cup new
             /\ UNCHANGED <<syncs, events>>
    <3>1. PICK new \in Requests(n, {m.from}, "bucket", m.at, EmptyBucket,
                                tick(n, m.ts)) :
            msgs' = (msgs \ {m}) \cup new
      BY <2>1
    <3>2. tick(n, m.ts) \in Nat /\ tick(n, m.ts) > clock[n]
      BY <1>3, TickFacts DEF IInv
    <3>3. EmptyBucket \in Bucket /\ EmptyBucket.ts <= tick(n, m.ts)
      BY <3>2, EmptyFacts
    <3>4. new \in SUBSET Message /\ \A x \in new : x.load.ts <= x.ts
      <4> DEFINE base == tick(n, m.ts)
      <4>1. TypeOK /\ {m.from} \in SUBSET Nodes /\ m.at \in {0} \cup Indexes
        BY <1>3 DEF IInv
      <4>2. /\ base \in Nat /\ EmptyBucket.ts <= base
            /\ new \in Requests(n, {m.from}, "bucket", m.at, EmptyBucket, base)
        BY <3>1, <3>2, <3>3
      <4> HIDE DEF base
      <4> QED BY <3>3, <4>1, <4>2, RequestFacts
    <3>5. clock \in [Nodes -> Nat] /\ msgs \in SUBSET Message
          /\ \A x \in msgs : x.load.ts <= x.ts
      BY DEF IInv, TypeOK, NetOK, LoadsCovered
    <3>6. clock' = [clock EXCEPT ![n] = tick(n, m.ts) + 1]
      BY <2>1
    <3>7. Sound
      <4>1. clock' \in [Nodes -> Nat]
        BY <3>2, <3>5, <3>6
      <4>2. \A x \in Nodes : clock'[x] >= clock[x]
        BY <3>2, <3>5, <3>6
      <4>3. msgs' \in SUBSET Message /\ \A x \in msgs' : x.load.ts <= x.ts
        BY <3>1, <3>4, <3>5
      <4> QED BY <4>1, <4>2, <4>3 DEF Sound
    <3> QED BY <1>2, <2>1, <3>7, PartsKept DEF mastership, lifecycle
  <2>2. CASE Accept(n, m) /\ Succeed(n, m.at)
    BY <1>2, <1>3, <2>2, AcceptSound, SucceedFacts DEF mastership
  <2> QED BY <1>1, <2>1, <2>2
<1> QED BY <1>2, <1>4, PartsKept, AssembleNoWrite DEF mastership, store

\* The bucket arrives with a time the clock then covers.
LEMMA SyncBucketAnsweredPreserves ==
  ASSUME IInv, NEW n \in Nodes, SyncBucketAnswered(n)
  PROVE  IInv'
<1>1. PICK m \in msgs :
        /\ Accept(n, m)
        /\ compute(n, m.load)
        /\ Succeed(n, m.at)
  BY DEF SyncBucketAnswered
<1>2. UNCHANGED <<mastership, view, noticed, terms, backups, spent>>
  BY DEF SyncBucketAnswered
<1>3. m.load \in Bucket /\ m.load.ts <= m.ts /\ m.ts \in Nat
  BY HandlerFacts
<1>4. Sound /\ clock'[n] >= m.ts
  BY <1>1, AcceptSound
<1>5. m.load.ts <= clock'[n]
  <2>1. clock'[n] \in Nat /\ m.load.ts \in Nat
    BY <1>3, <1>4 DEF Sound, Bucket
  <2> QED BY <1>3, <1>4, <2>1
<1>6. Covered(n) /\ StoreOK'
  BY <1>1, <1>3, <1>4, <1>5, ComputeFacts
<1>7. LifecycleOK' /\ SyncsOK'
  BY <1>1, <1>2, <1>3, SucceedFacts DEF mastership
<1> QED BY <1>2, <1>4, <1>6, <1>7, PartsKept, Assemble DEF mastership

\* A request or an answer is lost; who waits for it fails.
LEMMA TimeOutPreserves ==
  ASSUME IInv, NEW n \in Nodes, NEW m \in msgs, TimeOut(n, m)
  PROVE  IInv'
<1> DEFINE peer == IF m.reply THEN m.from ELSE m.to
<1>1. /\ Spend("faults", MaxFaults)
      /\ msgs' \subseteq msgs \cup {[m EXCEPT !.cb = FALSE]}
      /\ UNCHANGED <<mastership, view, noticed, terms, store, clock>>
      /\ \/ Settle(n, m, peer, FALSE) /\ UNCHANGED <<syncs, events>>
         \/ UNCHANGED <<syncs, events, backups>>
         \/ m.at > 0 /\ Fail(n, m.at, peer) /\ UNCHANGED backups
  BY DEF TimeOut
<1>2. peer \in Nodes /\ (m.at > 0 => m.at \in Indexes)
  BY HandlerFacts
<1> HIDE DEF peer
<1>3. Sound
  <2>1. /\ clock \in [Nodes -> Nat] /\ msgs \in SUBSET Message
        /\ \A x \in msgs : x.load.ts <= x.ts
    BY DEF IInv, TypeOK, NetOK, LoadsCovered
  <2>2. LET late == [m EXCEPT !.cb = FALSE] IN
        late \in Message /\ late.load.ts <= late.ts
    BY <2>1 DEF Message
  <2>3. clock' = clock /\ \A x \in Nodes : clock[x] >= clock[x]
    BY <1>1, <2>1
  <2> QED BY <1>1, <2>1, <2>2, <2>3 DEF Sound
<1>4. LifecycleOK' /\ SyncsOK' /\ BackupsOK'
  <2>1. CASE Settle(n, m, peer, FALSE) /\ UNCHANGED <<syncs, events>>
    <3>1. BackupsOK'
      BY <1>2, <2>1, SettleFacts
    <3> QED BY <1>1, <2>1, <3>1, PartsKept DEF mastership, lifecycle
  <2>2. CASE UNCHANGED <<syncs, events, backups>>
    BY <1>1, <2>2, PartsKept DEF mastership, lifecycle
  <2>3. CASE m.at > 0 /\ Fail(n, m.at, peer) /\ UNCHANGED backups
    BY <1>1, <1>2, <2>3, PartsKept, FailFacts DEF mastership
  <2> QED BY <1>1, <2>1, <2>2, <2>3
<1> QED BY <1>1, <1>3, <1>4, SpendFacts, PartsKept, AssembleNoWrite
        DEF mastership, store

-----------------------------------------------------------------------------
(* The theorems *)

\* The first term: empty buckets, no messages.
LEMMA InitIInv ==
  Init => IInv
<1> SUFFICES ASSUME Init PROVE IInv
  OBVIOUS
<1>1. PICK m \in Nodes, B \in SUBSET Nodes :
        infos = <<[term |-> 1, master |-> m, backups |-> B]>>
  BY DEF Init
<1>2. Cardinality(B) <= BackupCount
  <2>1. infos[1].backups = B
    BY <1>1
  <2> QED BY <2>1 DEF Init, BackupsOf
<1>3. MastershipOK
  <2>1. [term |-> 1, master |-> m, backups |-> B] \in ReplicaInfo
    BY <1>2 DEF ReplicaInfo
  <2>2. lifecycles = <<1>>
    BY DEF Init
  <2> QED BY <1>1, <2>1, <2>2 DEF MastershipOK
<1>4. Len(infos) = 1 /\ 1 \in Indexes
  BY <1>1 DEF Indexes
<1>5. LifecycleOK
  <2>1. Len(lifecycles) = 1
    BY DEF Init
  <2> QED BY <1>4, <2>1 DEF Init, LifecycleOK
<1>6. TermsOK
  BY <1>4 DEF Init, TermsOK
<1>7. EmptyBucket \in Bucket /\ EmptyBucket.ts <= 0
  BY EmptyFacts
<1>8. StoreOK
  BY <1>7 DEF Init, StoreOK
<1>9. BackupsOK
  BY DEF Init, BackupsOK
<1>10. NetOK /\ LoadsCovered
  BY DEF Init, NetOK, LoadsCovered
<1>11. ClockCoversBuckets
  BY <1>7 DEF Init, ClockCoversBuckets
<1>12. syncs \in [Nodes -> SUBSET Sync]
  BY DEF Init
<1>13. spent \in [ops : 0..MaxOps, rounds : 0..MaxRounds, faults : 0..MaxFaults]
  BY ConstantsAssumption DEF Init
<1> QED BY <1>3, <1>5, <1>6, <1>8, <1>9, <1>10, <1>11, <1>12, <1>13
        DEF IInv, TypeOK

\* A step that changes nothing.
LEMMA StutterIInv ==
  ASSUME IInv, UNCHANGED vars
  PROVE  IInv'
<1>1. UNCHANGED <<mastership, lifecycle, terms, store, backups, syncs, net,
                  spent>>
  BY DEF vars
<1>2. MastershipOK' /\ LifecycleOK' /\ TermsOK' /\ StoreOK' /\ BackupsOK'
      /\ SyncsOK' /\ SpentOK'
  BY <1>1, PartsKept DEF mastership
<1>3. Sound
  BY <1>1, NetUnchanged
<1>4. NetOK' /\ LoadsCovered'
  BY <1>1, <1>3, SameInfos DEF Sound, NetOK, LoadsCovered, mastership
<1>5. ClockCoversBuckets'
  BY <1>1 DEF IInv, ClockCoversBuckets, store, net
<1> QED BY <1>2, <1>4, <1>5 DEF IInv, TypeOK, SyncsOK, SpentOK

\* Every step of the executor, of the clients and of the network preserves the
\* invariant.
LEMMA NextIInv ==
  IInv /\ [Next]_vars => IInv'
<1> SUFFICES ASSUME IInv, [Next]_vars PROVE IInv'
  OBVIOUS
<1>1. CASE ElectMaster \/ ChangeBackups \/ LoseMaster
  BY <1>1, MastershipPreserves
<1>2. ASSUME NEW n \in Nodes, OnReplicaInfoChange(n) \/ OnActivate(n)
      PROVE  IInv'
  BY <1>2, OnReplicaInfoChangePreserves, OnActivatePreserves
<1>3. ASSUME NEW n \in Nodes, Executor(n)
      PROVE  IInv'
  BY <1>3, StartTermPreserves, UpdateTermPreserves, ActivateTermPreserves,
     FallBackPreserves, ActivateMasterPreserves, RunEnqueuedPreserves,
     FinishActivationPreserves, RunAntiEntropyPreserves, AskDigestsPreserves,
     OnBackupPreserves, OnGetDigestsPreserves, OnGetBucketPreserves,
     BackupAnsweredPreserves, DigestsAnsweredPreserves,
     SyncBucketAnsweredPreserves
     DEF Executor
<1>4. ASSUME NEW n \in Nodes, Client(n)
      PROVE  IInv'
  BY <1>4, RunInTermPreserves, BeginWritePreserves, ApplyPreserves,
     EnqueuePreserves, AddToTakenPreserves, PurgePreserves
     DEF Client
<1>5. ASSUME NEW n \in Nodes, SyncDigestsAnswered(n)
      PROVE  IInv'
  BY <1>5, SyncDigestsAnsweredPreserves
<1>6. ASSUME NEW n \in Nodes, NEW m \in msgs, TimeOut(n, m)
      PROVE  IInv'
  BY <1>6, TimeOutPreserves
<1>7. CASE UNCHANGED vars
  BY <1>7, StutterIInv
<1> QED BY <1>1, <1>2, <1>3, <1>4, <1>5, <1>6, <1>7 DEF Next

\* The inductive invariant holds in every reachable state, for every cluster,
\* set of rules and bound.
THEOREM Invariance ==
  Spec => []IInv
  BY InitIInv, NextIInv, PTL DEF Spec

\* Every variable keeps its type: no index ever points outside the histories of
\* replica infos and activations, and no operation that is queued, taken or
\* marked stops being one.
THEOREM TypeCorrect ==
  Spec => []TypeOK
<1>1. IInv => TypeOK
  BY DEF IInv
<1> QED BY <1>1, Invariance, PTL

\* The logical clock of a node is never behind the bucket it holds, wherever
\* the bucket was written: the timestamps of recordUpdate only grow.
THEOREM ClockCovers ==
  Spec => []ClockCoversBuckets
<1>1. IInv => ClockCoversBuckets
  BY DEF IInv
<1> QED BY <1>1, Invariance, PTL

-----------------------------------------------------------------------------
(* Every change of a bucket is recorded *)

\* An operation's time is later than that of the bucket it changes, because the
\* clock covers the bucket.
LEMMA RunIsNewer ==
  ASSUME IInv, NEW n \in Nodes, NEW t \in Task, Run(n, t)
  PROVE  ChangesAreNewer
<1>1. bucket \in [Nodes -> Bucket]
  BY DEF IInv, TypeOK, StoreOK
<1>2. clock[n] \in Nat /\ bucket[n].ts <= clock[n] /\ bucket[n].ts \in Nat
  BY HandlerFacts, BucketFacts
<1>3. CASE UNCHANGED bucket
  BY <1>3 DEF ChangesAreNewer
<1>4. CASE bucket' = [bucket EXCEPT ![n] = Recorded(@, t, clock[n] + 1)]
  <2> DEFINE time == clock[n] + 1
  <2>0. time \in Nat /\ bucket[n] \in Bucket
    BY <1>1, <1>2
  <2> HIDE DEF time
  <2>1. Recorded(bucket[n], t, time).ts = time
    BY <2>0, ChangeFacts
  <2>2. Recorded(bucket[n], t, time).ts > bucket[n].ts
    BY <1>2, <2>1 DEF time
  <2>3. isNewerThan(Recorded(bucket[n], t, time), bucket[n])
    BY <2>2 DEF isNewerThan
  <2>4. bucket' = [bucket EXCEPT ![n] = Recorded(@, t, time)]
    BY <1>4 DEF time
  <2> QED BY <1>1, <2>3, <2>4 DEF ChangesAreNewer
<1> QED BY <1>3, <1>4 DEF Run

\* compute() compares the digests before it replaces a bucket.
LEMMA ComputeIsNewer ==
  ASSUME IInv, NEW n \in Nodes, NEW b, compute(n, b) \/ UNCHANGED store
  PROVE  ChangesAreNewer
<1>1. bucket \in [Nodes -> Bucket]
  BY DEF IInv, TypeOK, StoreOK
<1>2. \/ UNCHANGED bucket
      \/ isNewerThan(b, bucket[n]) /\ bucket' = [bucket EXCEPT ![n] = b]
  BY DEF compute, store
<1> QED BY <1>1, <1>2 DEF ChangesAreNewer

\* Every step of a node that purges nothing.
LEMMA StepIsNewer ==
  ASSUME IInv, [Next]_vars, "purge" \notin Operations
  PROVE  ChangesAreNewer
<1>0. bucket \in [Nodes -> Bucket]
  BY DEF IInv, TypeOK, StoreOK
<1>1. CASE UNCHANGED bucket
  BY <1>1 DEF ChangesAreNewer
<1>2. CASE ElectMaster \/ ChangeBackups \/ LoseMaster
  BY <1>1, <1>2 DEF ElectMaster, ChangeBackups, LoseMaster, AddInfo, store
<1>3. ASSUME NEW n \in Nodes, OnReplicaInfoChange(n) \/ OnActivate(n)
      PROVE  ChangesAreNewer
  BY <1>1, <1>3 DEF OnReplicaInfoChange, OnActivate, store
<1>4. ASSUME NEW n \in Nodes,
             \/ StartTerm(n) \/ FallBack(n) \/ ActivateMaster(n)
             \/ FinishActivation(n) \/ RunAntiEntropy(n) \/ AskDigests(n)
             \/ OnGetDigests(n) \/ OnGetBucket(n) \/ BackupAnswered(n)
             \/ DigestsAnswered(n)
      PROVE  ChangesAreNewer
  <2>1. CASE StartTerm(n) \/ FallBack(n) \/ ActivateMaster(n)
    BY <1>1, <2>1 DEF StartTerm, FallBack, ActivateMaster, store
  <2>2. CASE FinishActivation(n) \/ RunAntiEntropy(n) \/ AskDigests(n)
    BY <1>1, <2>2 DEF FinishActivation, RunAntiEntropy, AskDigests, store
  <2>3. CASE OnGetDigests(n) \/ OnGetBucket(n)
    BY <1>1, <2>3 DEF OnGetDigests, OnGetBucket, store
  <2>4. CASE BackupAnswered(n) \/ DigestsAnswered(n)
    BY <1>1, <2>4 DEF BackupAnswered, DigestsAnswered, store
  <2> QED BY <1>4, <2>1, <2>2, <2>3, <2>4
<1>5. ASSUME NEW n \in Nodes, UpdateTerm(n) \/ ActivateTerm(n)
      PROVE  ChangesAreNewer
  <2>1. bucket' = bucket \/ bucket' = [bucket EXCEPT ![n] = EmptyBucket]
    BY <1>5 DEF UpdateTerm, ActivateTerm
  <2> QED BY <1>0, <2>1 DEF ChangesAreNewer
<1>6. ASSUME NEW n \in Nodes, RunEnqueued(n)
      PROVE  ChangesAreNewer
  <2>1. drain[n] # <<>> /\ Run(n, Head(drain[n]))
    BY <1>6 DEF RunEnqueued
  <2>2. drain[n] \in Seq(Task)
    BY DEF IInv, TypeOK, TermsOK
  <2>3. Head(drain[n]) \in Task
    BY <2>1, <2>2, HeadTailProperties
  <2> QED BY <2>1, <2>3, RunIsNewer
<1>7. ASSUME NEW n \in Nodes, OnBackup(n) \/ SyncBucketAnswered(n)
      PROVE  ChangesAreNewer
  BY <1>7, ComputeIsNewer DEF OnBackup, SyncBucketAnswered
<1>8. ASSUME NEW n \in Nodes, Apply(n)
      PROVE  ChangesAreNewer
  BY <1>8, ClientFacts, RunIsNewer DEF Apply
<1>9. ASSUME NEW n \in Nodes,
             \/ RunInTerm(n) \/ BeginWrite(n) \/ Enqueue(n) \/ AddToTaken(n)
             \/ Purge(n)
      PROVE  ChangesAreNewer
  BY <1>1, <1>9 DEF RunInTerm, BeginWrite, Enqueue, AddToTaken, Purge
<1>10. ASSUME NEW n \in Nodes, SyncDigestsAnswered(n)
       PROVE  ChangesAreNewer
  BY <1>1, <1>10 DEF SyncDigestsAnswered, store
<1>11. ASSUME NEW n \in Nodes, NEW m \in msgs, TimeOut(n, m)
       PROVE  ChangesAreNewer
  BY <1>1, <1>11 DEF TimeOut, store
<1>12. CASE UNCHANGED vars
  BY <1>1, <1>12 DEF vars, store
<1> QED BY <1>2, <1>3, <1>4, <1>5, <1>6, <1>7, <1>8, <1>9, <1>10, <1>11, <1>12
        DEF Next, Executor, Client

\* Where clients do not purge, a bucket is only ever cleared or replaced by one
\* its digest ranks newer: by an operation, whose recordUpdate takes a later
\* time, or by compute(), which compares digests.
THEOREM ChangesRecorded ==
  "purge" \notin Operations => (Spec => EveryChangeIsNewer)
<1> SUFFICES ASSUME "purge" \notin Operations
             PROVE  Spec => EveryChangeIsNewer
  OBVIOUS
<1>1. IInv /\ [Next]_vars => [ChangesAreNewer]_vars
  BY StepIsNewer
<1> QED BY <1>1, Invariance, PTL DEF Spec, EveryChangeIsNewer

=============================================================================

--------------------- MODULE FlowTableReplicationProofs ---------------------
(***************************************************************************)
(* Proofs about the replication of a bucket in FlowTable, for every set of *)
(* nodes and rules and every bound: what two digests say about two copies, *)
(* and what a completed backup says about the backup.                      *)
(*                                                                         *)
(* Both rest on the ownership of terms.  A mastership term has one master, *)
(* only that node writes buckets of the term, and only once its lifecycle  *)
(* manager has seen the term; so the clock of that one node orders all the *)
(* copies of the term, wherever they are.                                  *)
(***************************************************************************)
EXTENDS FlowTableProofs, SequenceFacts

\* The mastership terms there have been; 0 reports the loss of the master.
MasteredTerms == {TermOf(i) : i \in Indexes} \ {0}

\* A replica info with a master has a term, which is at most the number of
\* terms so far ...
TermsCounted ==
  /\ \A i \in Indexes : infos[i].master # NoNode => TermOf(i) > 0
  /\ \A i \in Indexes : TermOf(i) <= Cardinality(MasteredTerms)

\* ... and a term has one master and no gap.
TermsContiguous ==
  /\ \A i, j \in Indexes :
       TermOf(i) = TermOf(j) /\ TermOf(i) > 0 => infos[i].master = infos[j].master
  /\ \A i, j \in Indexes : i <= j /\ TermOf(j) > 0 => TermOf(i) <= TermOf(j)
  /\ \A i, j, k \in Indexes :
       i <= k /\ k <= j /\ TermOf(i) = TermOf(j) /\ TermOf(i) > 0
       => TermOf(k) = TermOf(i)

\* Node n's lifecycle manager has seen n as the master of the term.
OwnsTerm(n, term) ==
  \E i \in 1..view[n] : TermOf(i) = term /\ infos[i].master = n

\* The operations in a queue belong to terms of the node's own mastership.
QueueOwned(n, queue) == \A i \in DOMAIN queue : OwnsTerm(n, queue[i].term)

\* So do all the operations a node holds (runInTerm reads the replica info
\* before anything else).
TasksOwned ==
  \A n \in Nodes : /\ client[n] # NoTask => OwnsTerm(n, client[n].term)
                   /\ QueueOwned(n, flowTasks[n])
                   /\ QueueOwned(n, drain[n])

\* A copy that was written was written by the owner of its term, whose clock is
\* past it.
WrittenByOwner(c) ==
  \E n \in Nodes : OwnsTerm(n, c.term) /\ c.ts <= clock[n]

CopiesOwned == \A c \in Copies : c.term = 0 \/ WrittenByOwner(c)

OInv == IInv /\ TermsCounted /\ TermsContiguous /\ TasksOwned /\ CopiesOwned

-----------------------------------------------------------------------------
(* Replica infos, views and clocks only grow *)

\* The histories a step extends.
HistoryGrows ==
  /\ Indexes \subseteq Indexes'
  /\ \A i \in Indexes : infos'[i] = infos[i]
  /\ view' \in [Nodes -> Nat]
  /\ \A n \in Nodes : view'[n] >= view[n]
  /\ clock' \in [Nodes -> Nat]
  /\ \A n \in Nodes : clock'[n] >= clock[n]

\* Mastership and the lifecycle manager are the only ones to extend replica
\* infos and views.
HistoryFramed ==
  \/ ElectMaster \/ ChangeBackups \/ LoseMaster
  \/ UNCHANGED infos
     /\ (UNCHANGED view \/ \E n \in Nodes : OnReplicaInfoChange(n))

\* Every step is one of those.
LEMMA HistoryFrame ==
  ASSUME [Next]_vars
  PROVE  HistoryFramed
<1> USE DEF HistoryFramed
<1>1. ASSUME NEW n \in Nodes, OnReplicaInfoChange(n) PROVE HistoryFramed
  BY <1>1 DEF OnReplicaInfoChange, mastership
<1>2. ASSUME NEW n \in Nodes, OnActivate(n) \/ SyncDigestsAnswered(n) PROVE HistoryFramed
  BY <1>2 DEF OnActivate, SyncDigestsAnswered, mastership
<1>3. ASSUME NEW n \in Nodes,
             \/ StartTerm(n) \/ UpdateTerm(n) \/ ActivateTerm(n) \/ FallBack(n)
             \/ ActivateMaster(n) \/ RunEnqueued(n) \/ FinishActivation(n)
      PROVE  HistoryFramed
  BY <1>3 DEF StartTerm, UpdateTerm, ActivateTerm, FallBack, ActivateMaster,
              RunEnqueued, FinishActivation, mastership, lifecycle
<1>4. ASSUME NEW n \in Nodes,
             \/ RunAntiEntropy(n) \/ AskDigests(n) \/ OnBackup(n)
             \/ OnGetDigests(n) \/ OnGetBucket(n) \/ BackupAnswered(n)
             \/ DigestsAnswered(n) \/ SyncBucketAnswered(n)
      PROVE  HistoryFramed
  BY <1>4 DEF RunAntiEntropy, AskDigests, OnBackup, OnGetDigests, OnGetBucket,
              BackupAnswered, DigestsAnswered, SyncBucketAnswered, mastership,
              lifecycle
<1>5. ASSUME NEW n \in Nodes, Client(n) PROVE HistoryFramed
  BY <1>5 DEF Client, RunInTerm, BeginWrite, Apply, Enqueue, AddToTaken, Purge,
              mastership, lifecycle
<1>6. ASSUME NEW n \in Nodes, NEW m \in msgs, TimeOut(n, m) PROVE HistoryFramed
  BY <1>6 DEF TimeOut, mastership
<1>7. CASE UNCHANGED vars
  BY <1>7 DEF vars, mastership, lifecycle
<1>8. ASSUME ElectMaster \/ ChangeBackups \/ LoseMaster PROVE HistoryFramed
  BY <1>8
<1> HIDE DEF HistoryFramed
<1>9. ASSUME NEW n \in Nodes, Executor(n) PROVE HistoryFramed
  BY <1>3, <1>4, <1>9 DEF Executor
<1> QED BY <1>1, <1>2, <1>5, <1>6, <1>7, <1>8, <1>9 DEF Next

\* A clock that one step moves.
LEMMA ClockMoved ==
  ASSUME IInv, NEW n \in Nodes, NEW time \in Nat, time >= clock[n],
         clock' = [clock EXCEPT ![n] = time]
  PROVE  clock' \in [Nodes -> Nat] /\ \A x \in Nodes : clock'[x] >= clock[x]
<1>1. clock \in [Nodes -> Nat]
  BY DEF IInv, TypeOK, NetOK
<1> QED BY <1>1

ClockGrows == clock' \in [Nodes -> Nat] /\ \A x \in Nodes : clock'[x] >= clock[x]

\* The clocks of a step that sends nothing and writes nothing.
LEMMA ClockKept ==
  ASSUME IInv, UNCHANGED clock
  PROVE  ClockGrows
  BY DEF IInv, TypeOK, NetOK, ClockGrows

\* sendWithTimestamp ticks once per peer ...
LEMMA ClockOfSend ==
  ASSUME IInv, NEW n \in Nodes, NEW peers \in SUBSET Nodes, NEW type, NEW at,
         NEW load, Send(n, peers, type, at, load)
  PROVE  ClockGrows
<1> DEFINE time == clock[n] + Cardinality(peers)
<1>1. Cardinality(peers) \in Nat
  BY ConstantsAssumption, FS_Subset, FS_CardinalityType
<1>2. clock[n] \in Nat
  BY DEF IInv, TypeOK, NetOK
<1>3. time \in Nat /\ time >= clock[n] /\ clock' = [clock EXCEPT ![n] = time]
  BY <1>1, <1>2 DEF Send
<1> HIDE DEF time
<1> QED BY <1>3, ClockMoved DEF ClockGrows

\* ... receiveWithTimestamp twice ...
LEMMA ClockOfAnswer ==
  ASSUME IInv, NEW n \in Nodes, NEW m \in msgs, NEW load, NEW ok,
         Answer(n, m, load, ok)
  PROVE  ClockGrows
<1> DEFINE time == tick(n, m.ts) + 1
<1>1. m.ts \in Nat /\ clock[n] \in Nat
  BY HandlerFacts
<1>2. time \in Nat /\ time >= clock[n]
  BY <1>1, TickFacts DEF IInv
<1>3. clock' = [clock EXCEPT ![n] = time]
  BY DEF Answer
<1> HIDE DEF time
<1> QED BY <1>2, <1>3, ClockMoved DEF ClockGrows

\* ... the arrival of an answer once ...
LEMMA ClockOfAccept ==
  ASSUME IInv, NEW n \in Nodes, NEW m \in msgs, Accept(n, m)
  PROVE  ClockGrows
<1> DEFINE time == tick(n, m.ts)
<1>1. m.ts \in Nat /\ clock[n] \in Nat
  BY HandlerFacts
<1>2. time \in Nat /\ time >= clock[n]
  BY <1>1, TickFacts DEF IInv
<1>3. clock' = [clock EXCEPT ![n] = time]
  BY DEF Accept
<1> HIDE DEF time
<1> QED BY <1>2, <1>3, ClockMoved DEF ClockGrows

\* ... and an operation at most once.
LEMMA ClockOfRun ==
  ASSUME IInv, NEW n \in Nodes, NEW t, Run(n, t)
  PROVE  ClockGrows
<1> DEFINE time == clock[n] + 1
<1>1. clock[n] \in Nat
  BY DEF IInv, TypeOK, NetOK
<1>2. time \in Nat /\ time >= clock[n]
  BY <1>1
<1>3. UNCHANGED clock \/ clock' = [clock EXCEPT ![n] = time]
  BY DEF Run
<1> HIDE DEF time
<1> QED BY <1>2, <1>3, ClockMoved, ClockKept DEF ClockGrows

\* syncFlowsOn sends, or ends at once with nobody to ask.
LEMMA ClockOfSync ==
  ASSUME IInv, NEW n \in Nodes, NEW peers \in SUBSET Nodes, NEW at, NEW prev,
         NEW onMaster, SyncFlowsOn(n, peers, at, prev, onMaster)
  PROVE  ClockGrows
  BY ClockOfSend DEF SyncFlowsOn

\* No step turns a clock back.
LEMMA ClocksGrow ==
  ASSUME IInv, [Next]_vars
  PROVE  ClockGrows
<1>1. CASE ElectMaster \/ ChangeBackups \/ LoseMaster
  BY <1>1, ClockKept DEF ElectMaster, ChangeBackups, LoseMaster, AddInfo, net
<1>2. ASSUME NEW n \in Nodes,
             \/ OnReplicaInfoChange(n) \/ OnActivate(n) \/ UpdateTerm(n)
             \/ ActivateTerm(n) \/ ActivateMaster(n) \/ FinishActivation(n)
             \/ RunInTerm(n) \/ BeginWrite(n) \/ Enqueue(n) \/ AddToTaken(n)
             \/ Purge(n)
      PROVE  ClockGrows
  <2>1. CASE \/ OnReplicaInfoChange(n) \/ OnActivate(n) \/ UpdateTerm(n)
             \/ ActivateTerm(n) \/ ActivateMaster(n) \/ FinishActivation(n)
    BY <2>1, ClockKept DEF OnReplicaInfoChange, OnActivate, UpdateTerm,
       ActivateTerm, ActivateMaster, FinishActivation, net
  <2>2. CASE \/ RunInTerm(n) \/ BeginWrite(n) \/ Enqueue(n) \/ AddToTaken(n)
             \/ Purge(n)
    BY <2>2, ClockKept DEF RunInTerm, BeginWrite, Enqueue, AddToTaken, Purge, net
  <2> QED BY <1>2, <2>1, <2>2
<1>3. ASSUME NEW n \in Nodes, RunEnqueued(n) \/ Apply(n)
      PROVE  ClockGrows
  BY <1>3, ClockOfRun DEF RunEnqueued, Apply
<1>4. ASSUME NEW n \in Nodes, StartTerm(n)
      PROVE  ClockGrows
  <2> DEFINE master == infos[table[n]].master
  <2>1. CASE UNCHANGED net
    BY <2>1, ClockKept DEF net
  <2>2. table[n] \in Indexes
    BY DEF IInv, TypeOK, TermsOK
  <2>3. infos[table[n]].backups \ {n} \in SUBSET Nodes
        /\ (master # NoNode => {master} \in SUBSET Nodes)
    BY <2>2, InfoFacts DEF IInv, ReplicaInfo
  <2>4. ASSUME NEW at, master # NoNode, SyncFlowsOn(n, {master}, at, table[n], TRUE)
        PROVE  ClockGrows
    BY <2>3, <2>4, ClockOfSync
  <2>5. ASSUME NEW at, SyncFlowsOnBackups(n, at, table[n])
        PROVE  ClockGrows
    BY <2>3, <2>5, ClockOfSync DEF SyncFlowsOnBackups
  <2>6. \/ UNCHANGED net
        \/ \E at : /\ master # NoNode
                   /\ SyncFlowsOn(n, {master}, at, table[n], TRUE)
        \/ \E at : SyncFlowsOnBackups(n, at, table[n])
    BY <1>4 DEF StartTerm
  <2> QED BY <2>1, <2>4, <2>5, <2>6
<1>5. ASSUME NEW n \in Nodes, FallBack(n)
      PROVE  ClockGrows
  <2> DEFINE prev == Head(events[n]).prev
  <2>1. prev \in Indexes
    BY <1>5, JobFacts DEF FallBack, IInv
  <2>2. infos[prev].backups \ {n} \in SUBSET Nodes
    BY <2>1, InfoFacts DEF IInv
  <2>3. SyncFlowsOn(n, infos[prev].backups \ {n}, Head(events[n]).at, prev, FALSE)
    BY <1>5 DEF FallBack, SyncFlowsOnBackups
  <2> QED BY <2>2, <2>3, ClockOfSync
<1>6. ASSUME NEW n \in Nodes, RunAntiEntropy(n)
      PROVE  ClockGrows
  <2> DEFINE started == {m \in Info(n).backups : startBackup(n, m)}
  <2>1. view[n] \in Indexes
    BY DEF IInv, TypeOK, LifecycleOK
  <2>2. started \in SUBSET Nodes
    BY <2>1, InfoFacts DEF IInv, Info
  <2>3. Send(n, started, "backup", 0, bucket[n])
    BY <1>6 DEF RunAntiEntropy
  <2> HIDE DEF started
  <2> QED BY <2>2, <2>3, ClockOfSend
<1>7. ASSUME NEW n \in Nodes, AskDigests(n)
      PROVE  ClockGrows
  <2>1. PICK r \in rounds[n] : Send(n, {r.peer}, "digests", 0, EmptyBucket)
    BY <1>7 DEF AskDigests
  <2>2. {r.peer} \in SUBSET Nodes
    BY DEF IInv, TypeOK, BackupsOK
  <2> QED BY <2>1, <2>2, ClockOfSend
<1>8. ASSUME NEW n \in Nodes, OnBackup(n) \/ OnGetDigests(n) \/ OnGetBucket(n)
      PROVE  ClockGrows
  BY <1>8, ClockOfAnswer DEF OnBackup, OnGetDigests, OnGetBucket
<1>9. ASSUME NEW n \in Nodes,
             BackupAnswered(n) \/ DigestsAnswered(n) \/ SyncBucketAnswered(n)
      PROVE  ClockGrows
  BY <1>9, ClockOfAccept DEF BackupAnswered, DigestsAnswered, SyncBucketAnswered
<1>10. ASSUME NEW n \in Nodes, SyncDigestsAnswered(n)
       PROVE  ClockGrows
  <2>1. PICK m \in msgs : \/ clock' = [clock EXCEPT ![n] = tick(n, m.ts) + 1]
                          \/ Accept(n, m)
    BY <1>10 DEF SyncDigestsAnswered
  <2> DEFINE time == tick(n, m.ts) + 1
  <2>2. m.ts \in Nat /\ clock[n] \in Nat
    BY HandlerFacts
  <2>3. time \in Nat /\ time >= clock[n]
    BY <2>2, TickFacts DEF IInv
  <2>4. clock' = [clock EXCEPT ![n] = time] \/ Accept(n, m)
    BY <2>1
  <2> HIDE DEF time
  <2> QED BY <2>3, <2>4, ClockMoved, ClockOfAccept DEF ClockGrows
<1>11. ASSUME NEW n \in Nodes, NEW m \in msgs, TimeOut(n, m)
       PROVE  ClockGrows
  BY <1>11, ClockKept DEF TimeOut
<1>12. CASE UNCHANGED vars
  BY <1>12, ClockKept DEF vars, net
<1> QED BY <1>1, <1>2, <1>3, <1>4, <1>5, <1>6, <1>7, <1>8, <1>9, <1>10, <1>11,
           <1>12 DEF Next, Executor, Client

\* No step shortens a history.
LEMMA HistoriesGrow ==
  ASSUME IInv, [Next]_vars
  PROVE  HistoryGrows
<1>1. clock' \in [Nodes -> Nat] /\ \A n \in Nodes : clock'[n] >= clock[n]
  BY ClocksGrow DEF ClockGrows
<1>2. /\ infos \in Seq(ReplicaInfo) /\ view \in [Nodes -> Indexes]
      /\ Len(infos) \in Nat /\ Indexes \subseteq Nat
  BY IndexFacts DEF IInv, TypeOK, MastershipOK, LifecycleOK
<1>3. view \in [Nodes -> Nat] /\ \A n \in Nodes : view[n] >= view[n]
  <2>1. \A n \in Nodes : view[n] \in Nat
    BY <1>2
  <2>2. view \in [Nodes -> Nat]
    BY <1>2, <2>1
  <2> QED BY <2>1, <2>2
<1>4. CASE ElectMaster \/ ChangeBackups \/ LoseMaster
  <2>1. PICK info : infos' = Append(infos, info)
    BY <1>4 DEF ElectMaster, ChangeBackups, LoseMaster, AddInfo
  <2>2. UNCHANGED view
    BY <1>4 DEF ElectMaster, ChangeBackups, LoseMaster, AddInfo, lifecycle
  <2>3. /\ Len(infos') = Len(infos) + 1
        /\ \A i \in 1..Len(infos) : infos'[i] = infos[i]
    BY <1>2, <2>1
  <2> QED BY <1>1, <1>2, <1>3, <2>2, <2>3 DEF HistoryGrows, Indexes
<1>5. CASE UNCHANGED <<infos, view>>
  BY <1>1, <1>2, <1>3, <1>5 DEF HistoryGrows, Indexes
<1>6. ASSUME NEW n \in Nodes, OnReplicaInfoChange(n), UNCHANGED infos
      PROVE  HistoryGrows
  <2>1. view' = [view EXCEPT ![n] = view[n] + 1]
    BY <1>6 DEF OnReplicaInfoChange
  <2> QED BY <1>1, <1>2, <1>3, <1>6, <2>1 DEF HistoryGrows, Indexes
<1> QED BY <1>4, <1>5, <1>6, HistoryFrame DEF HistoryFramed

-----------------------------------------------------------------------------
(* Terms *)

\* The terms there have been are finitely many, and the next one is new.
LEMMA TermCount ==
  ASSUME IInv
  PROVE  /\ IsFiniteSet(MasteredTerms)
         /\ Cardinality(MasteredTerms) \in Nat
         /\ NextTerm = 1 + Cardinality(MasteredTerms)
         /\ MasteredTerms \subseteq Nat
<1> DEFINE S == 1..Len(infos)
           T == {TermOf(i) : i \in S}
           f == [i \in S |-> TermOf(i)]
<1>1. S = Indexes /\ IsFiniteSet(S)
  BY IndexFacts, FS_Interval DEF IInv, Indexes
<1>2. f \in Surjection(S, T)
  BY DEF Surjection
<1>3. IsFiniteSet(T)
  BY <1>1, <1>2, FS_Surjection
<1>4. MasteredTerms = T \ {0}
  BY <1>1 DEF MasteredTerms
<1>5. IsFiniteSet(MasteredTerms)
  BY <1>3, <1>4, FS_Subset
<1>6. MasteredTerms \subseteq Nat
  BY InfoFacts DEF MasteredTerms, IInv
<1> QED BY <1>4, <1>5, <1>6, FS_CardinalityType DEF NextTerm

\* A new replica info at the end of the history.
LEMMA AppendedInfo ==
  ASSUME IInv, NEW term, NEW m, NEW B, AddInfo(term, m, B)
  PROVE  /\ Len(infos) \in Nat \ {0}
         /\ Indexes = 1..Len(infos)
         /\ Indexes' = 1..(Len(infos) + 1)
         /\ \A i \in Indexes : infos'[i] = infos[i]
         /\ infos'[Len(infos) + 1].term = term
         /\ infos'[Len(infos) + 1].master = m
<1> DEFINE info == [term |-> term, master |-> m, backups |-> B]
<1>1. infos \in Seq(ReplicaInfo) /\ infos' = Append(infos, info)
  BY DEF IInv, TypeOK, MastershipOK, AddInfo
<1>2. Len(infos) \in Nat \ {0}
  BY IndexFacts DEF IInv, Indexes
<1> HIDE DEF info
<1>3. /\ Len(infos') = Len(infos) + 1
      /\ \A i \in 1..Len(infos) : infos'[i] = infos[i]
      /\ infos'[Len(infos) + 1] = info
  BY <1>1, <1>2
<1> QED BY <1>2, <1>3 DEF Indexes, info

\* What leader election says of the next info's term and master.
NextInfo(term, m) ==
  \/ m \in Nodes /\ term = NextTerm
  \/ m = LastInfo.master /\ m # NoNode /\ term = LastInfo.term
  \/ m = NoNode /\ term = 0

\* Terms stay counted ...
LEMMA AppendCounted ==
  ASSUME IInv, TermsCounted, NEW term \in Nat, NEW m, NEW B,
         AddInfo(term, m, B), NextInfo(term, m)
  PROVE  TermsCounted'
<1> DEFINE k == Len(infos) + 1
           C == Cardinality(MasteredTerms)
<1>1. /\ Len(infos) \in Nat \ {0} /\ Indexes = 1..Len(infos)
      /\ Indexes' = 1..k
      /\ \A i \in Indexes : infos'[i] = infos[i]
      /\ infos'[k].term = term /\ infos'[k].master = m
  BY AppendedInfo
<1>2. Indexes' = Indexes \cup {k} /\ k \notin Indexes
  BY <1>1
<1>3. IsFiniteSet(MasteredTerms) /\ C \in Nat /\ NextTerm = 1 + C
  BY TermCount
<1>4. MasteredTerms' = IF term = 0 THEN MasteredTerms
                       ELSE MasteredTerms \cup {term}
  <2>1. MasteredTerms' = {infos'[i].term : i \in Indexes'} \ {0}
    BY DEF MasteredTerms, TermOf
  <2>2. {infos'[i].term : i \in Indexes'}
          = {infos[i].term : i \in Indexes} \cup {term}
    BY <1>1, <1>2
  <2> QED BY <2>1, <2>2 DEF MasteredTerms, TermOf
<1>5. \A i \in Indexes : TermOf(i) <= C /\ TermOf(i) \in Nat
  BY InfoFacts DEF TermsCounted, IInv
<1>6. \A t \in MasteredTerms : t <= C /\ t \in Nat
  BY <1>5 DEF MasteredTerms
<1>7. LastInfo.term <= C /\ (LastInfo.master # NoNode => LastInfo.term > 0)
  BY <1>1, <1>5 DEF TermsCounted, LastInfo, TermOf
<1>8. LastInfo.term > 0 => LastInfo.term \in MasteredTerms
  BY <1>1 DEF LastInfo, TermOf, MasteredTerms
<1>9. /\ m # NoNode => term > 0
      /\ term <= Cardinality(MasteredTerms')
      /\ C <= Cardinality(MasteredTerms')
      /\ Cardinality(MasteredTerms') \in Nat
  <2>1. CASE term = NextTerm /\ m \in Nodes
    <3>1. term = C + 1 /\ term \notin MasteredTerms /\ term # 0
      BY <1>3, <1>6, <2>1
    <3>2. MasteredTerms' = MasteredTerms \cup {term}
      BY <1>4, <3>1
    <3>3. Cardinality(MasteredTerms') = C + 1
      BY <1>3, <3>1, <3>2, FS_AddElement
    <3> QED BY <1>3, <3>1, <3>3
  <2>2. CASE m = LastInfo.master /\ m # NoNode /\ term = LastInfo.term
    <3>1. term > 0 /\ term \in MasteredTerms
      BY <1>7, <1>8, <2>2
    <3>2. MasteredTerms' = MasteredTerms
      BY <1>4, <3>1
    <3> QED BY <1>3, <1>7, <2>2, <3>1, <3>2
  <2>3. CASE m = NoNode /\ term = 0
    BY <1>3, <1>4, <2>3
  <2> QED BY <2>1, <2>2, <2>3 DEF NextInfo
<1>10. ASSUME NEW i \in Indexes'
       PROVE  /\ infos'[i].master # NoNode => infos'[i].term > 0
              /\ infos'[i].term <= Cardinality(MasteredTerms')
  <2>1. CASE i = k
    BY <1>1, <1>9, <2>1
  <2>2. CASE i \in Indexes
    <3>1. infos'[i] = infos[i]
      BY <1>1, <2>2
    <3>2. infos[i].term <= C /\ infos[i].term \in Nat
          /\ (infos[i].master # NoNode => infos[i].term > 0)
      BY <1>5, <2>2 DEF TermsCounted, TermOf
    <3> QED BY <1>3, <1>9, <3>1, <3>2
  <2> QED BY <1>2, <2>1, <2>2
<1> QED BY <1>10 DEF TermsCounted, TermOf

\* ... and contiguous.
LEMMA AppendContiguous ==
  ASSUME IInv, TermsCounted, TermsContiguous, NEW term \in Nat, NEW m, NEW B,
         AddInfo(term, m, B), NextInfo(term, m)
  PROVE  TermsContiguous'
<1> DEFINE L == Len(infos)
           k == L + 1
<1>1. /\ L \in Nat \ {0} /\ Indexes = 1..L
      /\ Indexes' = 1..k
      /\ \A i \in Indexes : infos'[i] = infos[i]
      /\ infos'[k].term = term /\ infos'[k].master = m
  BY AppendedInfo
<1>2. /\ \A i \in Indexes : infos[i].term \in Nat
      /\ Cardinality(MasteredTerms) \in Nat
      /\ NextTerm = 1 + Cardinality(MasteredTerms)
  BY InfoFacts, TermCount DEF IInv, TermOf
<1>3. \A i \in Indexes : infos[i].term < NextTerm
  BY <1>2 DEF TermsCounted, TermOf
<1>4. LastInfo = infos[L] /\ L \in Indexes
  BY <1>1 DEF LastInfo
<1>5. /\ \A i, j \in Indexes : infos[i].term = infos[j].term /\ infos[i].term > 0
                               => infos[i].master = infos[j].master
      /\ \A i, j \in Indexes : i <= j /\ infos[j].term > 0
                               => infos[i].term <= infos[j].term
      /\ \A i, j, l \in Indexes :
           i <= l /\ l <= j /\ infos[i].term = infos[j].term /\ infos[i].term > 0
           => infos[l].term = infos[i].term
  BY DEF TermsContiguous, TermOf
<1> HIDE DEF L
<1>6. \A i \in Indexes :
        /\ term > 0 => infos[i].term <= term
        /\ infos[i].term = term /\ term > 0 =>
             infos[i].master = m /\ \A l \in Indexes : i <= l => infos[l].term = term
  <2>1. CASE m \in Nodes /\ term = NextTerm
    BY <1>2, <1>3, <2>1
  <2>2. CASE m = LastInfo.master /\ term = LastInfo.term
    <3>1. \A i \in Indexes : i <= L
      BY <1>1
    <3> QED BY <1>2, <1>4, <1>5, <2>2, <3>1
  <2>3. CASE term = 0
    BY <2>3
  <2> QED BY <2>1, <2>2, <2>3 DEF NextInfo
<1>7. \A i \in Indexes' : (i = k /\ i \notin Indexes) \/ (i \in Indexes /\ i < k)
  BY <1>1
<1>8. ASSUME NEW i \in Indexes', NEW j \in Indexes',
             infos'[i].term = infos'[j].term, infos'[i].term > 0
      PROVE  infos'[i].master = infos'[j].master
  BY <1>1, <1>5, <1>6, <1>7, <1>8
<1>9. ASSUME NEW i \in Indexes', NEW j \in Indexes', i <= j, infos'[j].term > 0
      PROVE  infos'[i].term <= infos'[j].term
  <2>1. CASE j = k
    BY <1>1, <1>6, <1>7, <1>9, <2>1
  <2>2. CASE j \in Indexes /\ j < k
    <3>1. i \in Indexes
      BY <1>1, <1>7, <1>9, <2>2
    <3> QED BY <1>1, <1>5, <1>9, <2>2, <3>1
  <2> QED BY <1>7, <2>1, <2>2
<1>10. ASSUME NEW i \in Indexes', NEW j \in Indexes', NEW l \in Indexes',
              i <= l, l <= j, infos'[i].term = infos'[j].term,
              infos'[i].term > 0
       PROVE  infos'[l].term = infos'[i].term
  <2>1. CASE l = k
    <3>1. j = k
      BY <1>1, <1>7, <1>10, <2>1
    <3> QED BY <1>10, <2>1, <3>1
  <2>2. CASE l \in Indexes /\ l < k
    <3>1. i \in Indexes
      BY <1>1, <1>7, <1>10, <2>2
    <3>2. infos'[i] = infos[i] /\ infos'[l] = infos[l]
      BY <1>1, <2>2, <3>1
    <3>3. CASE j = k
      <4>1. infos[i].term = term /\ term > 0
        BY <1>1, <1>10, <3>2, <3>3
      <4> QED BY <1>6, <1>10, <2>2, <3>1, <3>2, <4>1
    <3>4. CASE j \in Indexes
      BY <1>1, <1>5, <1>10, <2>2, <3>1, <3>2, <3>4
    <3> QED BY <1>7, <3>3, <3>4
  <2> QED BY <1>7, <2>1, <2>2
<1> QED BY <1>8, <1>9, <1>10 DEF TermsContiguous, TermOf

\* Elections, changes of backups and losses of the master respect the terms.
LEMMA TermsPreserved ==
  ASSUME IInv, TermsCounted, TermsContiguous, [Next]_vars
  PROVE  TermsCounted' /\ TermsContiguous'
<1>1. LastInfo \in ReplicaInfo
  BY IndexFacts, InfoFacts DEF IInv, LastInfo
<1>2. NextTerm \in Nat /\ LastInfo.term \in Nat
  BY <1>1, TermCount DEF ReplicaInfo
<1>3. ASSUME NEW term \in Nat, NEW m, NEW B, AddInfo(term, m, B),
             NextInfo(term, m)
      PROVE  TermsCounted' /\ TermsContiguous'
  BY <1>3, AppendCounted, AppendContiguous
<1>4. CASE ElectMaster
  BY <1>2, <1>3, <1>4 DEF ElectMaster, NextInfo
<1>5. CASE ChangeBackups
  BY <1>2, <1>3, <1>5 DEF ChangeBackups, NextInfo
<1>6. CASE LoseMaster
  BY <1>3, <1>6 DEF LoseMaster, NextInfo
<1>7. CASE UNCHANGED infos
  <2>1. Indexes' = Indexes /\ MasteredTerms' = MasteredTerms
    BY <1>7 DEF Indexes, MasteredTerms, TermOf
  <2> QED BY <1>7, <2>1 DEF TermsCounted, TermsContiguous, TermOf
<1> QED BY <1>4, <1>5, <1>6, <1>7, HistoryFrame DEF HistoryFramed

\* What a node owns it keeps owning.
LEMMA OwnsTermKept ==
  ASSUME IInv, HistoryGrows, NEW n \in Nodes, NEW term, OwnsTerm(n, term)
  PROVE  OwnsTerm(n, term)'
<1>1. PICK i \in 1..view[n] : infos[i].term = term /\ infos[i].master = n
  BY DEF OwnsTerm, TermOf
<1>2. view[n] \in Indexes /\ Len(infos) \in Nat
  BY IndexFacts DEF IInv, TypeOK, LifecycleOK
<1>3. i \in Indexes /\ view[n] \in Nat
  BY <1>2 DEF Indexes
<1>4. infos'[i] = infos[i] /\ view'[n] \in Nat /\ view'[n] >= view[n]
  BY <1>3 DEF HistoryGrows
<1>5. i \in 1..view'[n]
  BY <1>3, <1>4
<1> QED BY <1>1, <1>4, <1>5 DEF OwnsTerm, TermOf

\* A term has one owner.
LEMMA OneOwner ==
  ASSUME IInv, TermsCounted, TermsContiguous, NEW n \in Nodes, NEW m \in Nodes,
         NEW term, OwnsTerm(n, term), OwnsTerm(m, term)
  PROVE  n = m /\ term \in Nat \ {0}
<1>1. PICK i \in 1..view[n] : TermOf(i) = term /\ infos[i].master = n
  BY DEF OwnsTerm
<1>2. PICK j \in 1..view[m] : TermOf(j) = term /\ infos[j].master = m
  BY DEF OwnsTerm
<1>3. view[n] \in Indexes /\ view[m] \in Indexes /\ Len(infos) \in Nat
  BY IndexFacts DEF IInv, TypeOK, LifecycleOK
<1>4. i \in Indexes /\ j \in Indexes
  BY <1>3 DEF Indexes
<1>5. TermOf(i) \in Nat /\ TermOf(i) > 0
  BY <1>1, <1>4, InfoFacts, ConstantsAssumption DEF TermsCounted, IInv
<1> QED BY <1>1, <1>2, <1>4, <1>5 DEF TermsContiguous

-----------------------------------------------------------------------------
(* Operations belong to terms of the node's own mastership *)

\* The master of the current view owns its term.
LEMMA MasterOwns ==
  ASSUME IInv, NEW n \in Nodes, Info(n).master = n
  PROVE  OwnsTerm(n, Info(n).term)
<1>1. view[n] \in Indexes /\ Indexes \subseteq Nat \ {0}
  BY IndexFacts DEF IInv, TypeOK, LifecycleOK
<1>2. view[n] \in Nat /\ view[n] # 0
  BY <1>1
<1>3. view[n] \in 1..view[n]
  BY <1>2
<1> QED BY <1>3 DEF OwnsTerm, Info, TermOf

\* Queues that activateBucket takes, runs down, adds to or orphans.
LEMMA QueueFacts ==
  ASSUME NEW n, NEW queue \in Seq(Task), QueueOwned(n, queue)
  PROVE  /\ QueueOwned(n, <<>>)
         /\ queue # <<>> => QueueOwned(n, Tail(queue))
         /\ queue # <<>> => OwnsTerm(n, Head(queue).term)
         /\ \A t \in Task : OwnsTerm(n, t.term) => QueueOwned(n, Append(queue, t))
         /\ QueueOwned(n, Orphaned(queue))
<1>1. /\ Len(queue) \in Nat /\ DOMAIN queue = 1..Len(queue)
      /\ \A i \in 1..Len(queue) : queue[i] \in Task
  BY LenProperties, ElementOfSeq
<1>2. \A i \in 1..Len(queue) : OwnsTerm(n, queue[i].term)
  BY <1>1 DEF QueueOwned
<1>3. QueueOwned(n, <<>>)
  BY DEF QueueOwned
<1>4. ASSUME queue # <<>> PROVE QueueOwned(n, Tail(queue))
  <2>1. /\ Tail(queue) \in Seq(Task) /\ Len(Tail(queue)) = Len(queue) - 1
        /\ \A i \in 1..Len(Tail(queue)) : Tail(queue)[i] = queue[i + 1]
    BY <1>4, HeadTailProperties
  <2>2. DOMAIN Tail(queue) = 1..Len(Tail(queue))
    BY <2>1, LenProperties
  <2>3. \A i \in 1..Len(Tail(queue)) : i + 1 \in 1..Len(queue)
    BY <1>1, <2>1
  <2> QED BY <1>2, <2>1, <2>2, <2>3 DEF QueueOwned
<1>5. ASSUME queue # <<>> PROVE OwnsTerm(n, Head(queue).term)
  <2>1. Head(queue) = queue[1] /\ Len(queue) # 0
    BY <1>5, EmptySeq, HeadTailProperties
  <2> QED BY <1>1, <1>2, <2>1
<1>6. ASSUME NEW t \in Task, OwnsTerm(n, t.term)
      PROVE  QueueOwned(n, Append(queue, t))
  <2>1. /\ Append(queue, t) \in Seq(Task)
        /\ Len(Append(queue, t)) = Len(queue) + 1
        /\ \A i \in 1..Len(queue) : Append(queue, t)[i] = queue[i]
        /\ Append(queue, t)[Len(queue) + 1] = t
    BY <1>6, AppendProperties
  <2>2. DOMAIN Append(queue, t) = 1..(Len(queue) + 1)
    BY <2>1, LenProperties
  <2>3. \A i \in 1..(Len(queue) + 1) : i \in 1..Len(queue) \/ i = Len(queue) + 1
    BY <1>1
  <2> QED BY <1>2, <1>6, <2>1, <2>2, <2>3 DEF QueueOwned
<1>7. QueueOwned(n, Orphaned(queue))
  <2>1. DOMAIN Orphaned(queue) = 1..Len(queue)
    BY <1>1 DEF Orphaned
  <2>2. \A i \in 1..Len(queue) : Orphaned(queue)[i].term = queue[i].term
    BY <1>1 DEF Orphaned, Task
  <2> QED BY <1>2, <2>1, <2>2 DEF QueueOwned
<1> QED BY <1>3, <1>4, <1>5, <1>6, <1>7

\* What a node owned before the step it owns the operations of after it.
TasksKept(n) ==
  /\ client'[n] # NoTask => OwnsTerm(n, client'[n].term)
  /\ QueueOwned(n, flowTasks'[n])
  /\ QueueOwned(n, drain'[n])

\* The operations node n holds.
LEMMA HeldTasks ==
  ASSUME IInv, TasksOwned, NEW n \in Nodes
  PROVE  /\ flowTasks \in [Nodes -> Seq(Task)]
         /\ drain \in [Nodes -> Seq(Task)]
         /\ client \in [Nodes -> Task \cup {NoTask}]
         /\ client[n] # NoTask => client[n] \in Task
                                  /\ OwnsTerm(n, client[n].term)
         /\ flowTasks[n] \in Seq(Task) /\ QueueOwned(n, flowTasks[n])
         /\ drain[n] \in Seq(Task) /\ QueueOwned(n, drain[n])
         /\ QueueOwned(n, <<>>)
<1>1. /\ flowTasks \in [Nodes -> Seq(Task)] /\ drain \in [Nodes -> Seq(Task)]
      /\ client \in [Nodes -> Task \cup {NoTask}]
  BY DEF IInv, TypeOK, StoreOK, TermsOK
<1>2. /\ QueueOwned(n, flowTasks[n]) /\ QueueOwned(n, drain[n])
      /\ client[n] # NoTask => OwnsTerm(n, client[n].term)
  BY DEF TasksOwned
<1>3. QueueOwned(n, <<>>)
  BY DEF QueueOwned
<1> QED BY <1>1, <1>2, <1>3

\* A client that is marked or returns keeps its term.
LEMMA ClientKept ==
  ASSUME IInv, TasksOwned, NEW n \in Nodes, NEW x \in Nodes,
         \/ UNCHANGED client
         \/ client' = [client EXCEPT ![n] = NoTask]
         \/ client[n] # NoTask /\ client' = [client EXCEPT ![n].stale = TRUE]
         \/ \E mode : /\ client[n] # NoTask
                      /\ client' = [client EXCEPT ![n].mode = mode]
  PROVE  client'[x] # NoTask => OwnsTerm(x, client'[x].term)
<1>1. /\ client \in [Nodes -> Task \cup {NoTask}]
      /\ client[x] # NoTask => OwnsTerm(x, client[x].term)
  BY HeldTasks
<1>2. CASE UNCHANGED client
  BY <1>1, <1>2
<1>3. CASE client' = [client EXCEPT ![n] = NoTask]
  BY <1>1, <1>3
<1>4. CASE client[n] # NoTask /\ client' = [client EXCEPT ![n].stale = TRUE]
  <2>1. client[n] \in Task
    BY <1>1, <1>4
  <2>2. client'[x] # NoTask => client[x] # NoTask /\ client'[x].term = client[x].term
    BY <1>1, <1>4, <2>1 DEF Task
  <2> QED BY <1>1, <2>2
<1>5. ASSUME NEW mode, client[n] # NoTask,
             client' = [client EXCEPT ![n].mode = mode]
      PROVE  client'[x] # NoTask => OwnsTerm(x, client'[x].term)
  <2>1. client[n] \in Task
    BY <1>1, <1>5
  <2>2. client'[x] # NoTask => client[x] # NoTask /\ client'[x].term = client[x].term
    BY <1>1, <1>5, <2>1 DEF Task
  <2> QED BY <1>1, <2>2
<1> QED BY <1>2, <1>3, <1>4, <1>5

\* The steps that touch operations.
LEMMA TaskSteps ==
  ASSUME IInv, TasksOwned, NEW n \in Nodes, NEW x \in Nodes,
         \/ ActivateMaster(n) \/ RunEnqueued(n) \/ FinishActivation(n)
         \/ RunInTerm(n) \/ BeginWrite(n) \/ Apply(n) \/ Enqueue(n)
         \/ AddToTaken(n) \/ Purge(n)
  PROVE  TasksKept(x)
<1>0. /\ flowTasks \in [Nodes -> Seq(Task)] /\ drain \in [Nodes -> Seq(Task)]
      /\ client \in [Nodes -> Task \cup {NoTask}]
      /\ client[n] # NoTask => client[n] \in Task /\ OwnsTerm(n, client[n].term)
      /\ flowTasks[n] \in Seq(Task) /\ QueueOwned(n, flowTasks[n])
      /\ drain[n] \in Seq(Task) /\ QueueOwned(n, drain[n])
      /\ QueueOwned(n, <<>>)
  BY HeldTasks
<1>1. /\ client[x] # NoTask => OwnsTerm(x, client[x].term)
      /\ QueueOwned(x, flowTasks[x]) /\ QueueOwned(x, drain[x])
  BY HeldTasks
<1>2. CASE ActivateMaster(n)
  <2>1. client'[x] # NoTask => OwnsTerm(x, client'[x].term)
    BY <1>2, ClientKept DEF ActivateMaster
  <2>2. /\ flowTasks' = [flowTasks EXCEPT ![n] = <<>>]
        /\ drain' = [drain EXCEPT ![n] = flowTasks[n]]
    BY <1>2 DEF ActivateMaster
  <2> QED BY <1>0, <1>1, <2>1, <2>2 DEF TasksKept
<1>3. CASE RunEnqueued(n)
  <2>1. /\ UNCHANGED <<flowTasks, client>> /\ drain[n] # <<>>
        /\ drain' = [drain EXCEPT ![n] = Tail(@)]
    BY <1>3 DEF RunEnqueued
  <2>2. QueueOwned(n, Tail(drain[n]))
    BY <1>0, <2>1, QueueFacts
  <2> QED BY <1>0, <1>1, <2>1, <2>2 DEF TasksKept
<1>4. CASE FinishActivation(n)
  <2>1. client'[x] # NoTask => OwnsTerm(x, client'[x].term)
    BY <1>4, ClientKept DEF FinishActivation
  <2>2. UNCHANGED <<flowTasks, drain>>
    BY <1>4 DEF FinishActivation
  <2> QED BY <1>1, <2>1, <2>2 DEF TasksKept
<1>5. CASE RunInTerm(n)
  <2>1. Info(n).master = n /\ UNCHANGED <<flowTasks, drain>>
    BY <1>5 DEF RunInTerm, terms
  <2>2. OwnsTerm(n, Info(n).term)
    BY <2>1, MasterOwns
  <2>3. PICK op \in Operations \ {"purge"}, r \in Rules :
          client' = [client EXCEPT ![n] =
            [op |-> op, rule |-> r, term |-> Info(n).term, stale |-> FALSE,
             mode |-> IF activeTerm[n] < Info(n).term THEN "enqueue"
                      ELSE "apply"]]
    BY <1>5 DEF RunInTerm
  <2>4. client'[n].term = Info(n).term
        /\ \A y \in Nodes \ {n} : client'[y] = client[y]
    BY <1>0, <2>3
  <2>5. client'[x] # NoTask => OwnsTerm(x, client'[x].term)
    BY <1>1, <2>2, <2>4
  <2> QED BY <1>1, <2>1, <2>5 DEF TasksKept
<1>6. CASE BeginWrite(n)
  <2>1. client'[x] # NoTask => OwnsTerm(x, client'[x].term)
    BY <1>6, ClientKept DEF BeginWrite
  <2>2. UNCHANGED <<flowTasks, drain>>
    BY <1>6 DEF BeginWrite, terms
  <2> QED BY <1>1, <2>1, <2>2 DEF TasksKept
<1>7. CASE Apply(n)
  <2>1. client'[x] # NoTask => OwnsTerm(x, client'[x].term)
    BY <1>7, ClientKept DEF Apply, Return
  <2>2. UNCHANGED <<flowTasks, drain>>
    BY <1>7 DEF Apply, terms
  <2> QED BY <1>1, <2>1, <2>2 DEF TasksKept
<1> DEFINE t == [client[n] EXCEPT !.mode = "enqueue"]
<1>8. client[n] # NoTask => t \in Task /\ OwnsTerm(n, t.term)
  <2>1. ASSUME client[n] # NoTask PROVE t.term = client[n].term /\ t \in Task
    BY <1>0, <2>1, TaskFacts DEF Task
  <2> QED BY <1>0, <2>1
<1> HIDE DEF t
<1>9. CASE Enqueue(n)
  <2>1. client'[x] # NoTask => OwnsTerm(x, client'[x].term)
    BY <1>9, ClientKept DEF Enqueue, Return
  <2>2. /\ UNCHANGED drain /\ client[n] # NoTask
        /\ flowTasks' = [flowTasks EXCEPT ![n] = Append(@, t)]
    BY <1>9 DEF Enqueue, terms, t
  <2>3. QueueOwned(n, Append(flowTasks[n], t))
    BY <1>0, <1>8, <2>2, QueueFacts
  <2> QED BY <1>0, <1>1, <2>1, <2>2, <2>3 DEF TasksKept
<1>10. CASE AddToTaken(n)
  <2>1. client'[x] # NoTask => OwnsTerm(x, client'[x].term)
    BY <1>10, ClientKept DEF AddToTaken, Return
  <2>2. /\ UNCHANGED flowTasks /\ client[n] # NoTask
        /\ \/ UNCHANGED drain
           \/ drain' = [drain EXCEPT ![n] = Append(@, t)]
           \/ drain' = [drain EXCEPT ![n] = <<>>]
    BY <1>10 DEF AddToTaken, t
  <2>3. QueueOwned(n, Append(drain[n], t))
    BY <1>0, <1>8, <2>2, QueueFacts
  <2>4. QueueOwned(x, drain'[x])
    BY <1>0, <1>1, <2>2, <2>3
  <2> QED BY <1>1, <2>1, <2>2, <2>4 DEF TasksKept
<1>11. CASE Purge(n)
  <2>1. /\ UNCHANGED <<client, drain>>
        /\ flowTasks' = [flowTasks EXCEPT ![n] = <<>>]
    BY <1>11 DEF Purge, terms
  <2> QED BY <1>0, <1>1, <2>1 DEF TasksKept
<1> QED BY <1>2, <1>3, <1>4, <1>5, <1>6, <1>7, <1>9, <1>10, <1>11

\* compute() orphans the operations of the bucket it replaces.
LEMMA ComputeTasks ==
  ASSUME IInv, TasksOwned, NEW n \in Nodes, NEW x \in Nodes, NEW b,
         compute(n, b) \/ UNCHANGED store, UNCHANGED drain
  PROVE  TasksKept(x)
<1>1. /\ client[x] # NoTask => OwnsTerm(x, client[x].term)
      /\ QueueOwned(x, flowTasks[x]) /\ QueueOwned(x, drain[x])
      /\ flowTasks \in [Nodes -> Seq(Task)]
  BY HeldTasks
<1>2. CASE UNCHANGED store
  BY <1>1, <1>2 DEF store, TasksKept
<1>3. CASE /\ flowTasks' = [flowTasks EXCEPT ![n] = Orphaned(@)]
           /\ client' = IF client[n] = NoTask THEN client
                        ELSE [client EXCEPT ![n].stale = TRUE]
  <2>1. client'[x] # NoTask => OwnsTerm(x, client'[x].term)
    BY <1>3, ClientKept
  <2>2. QueueOwned(n, Orphaned(flowTasks[n]))
    BY HeldTasks, QueueFacts
  <2> QED BY <1>1, <1>3, <2>1, <2>2 DEF TasksKept
<1> QED BY <1>2, <1>3 DEF compute

\* The steps that leave operations alone.
LEMMA TasksUntouched ==
  ASSUME TasksOwned, NEW x \in Nodes, UNCHANGED <<client, flowTasks, drain>>
  PROVE  TasksKept(x)
  BY DEF TasksOwned, TasksKept

\* No step makes a node run an operation outside its own terms.
LEMMA TasksPreserved ==
  ASSUME IInv, TasksOwned, [Next]_vars
  PROVE  TasksOwned'
<1>1. ASSUME NEW x \in Nodes PROVE TasksKept(x)
  <2>1. CASE ElectMaster \/ ChangeBackups \/ LoseMaster
    BY <2>1, TasksUntouched
       DEF ElectMaster, ChangeBackups, LoseMaster, AddInfo, store, terms
  <2>2. ASSUME NEW n \in Nodes,
               \/ OnReplicaInfoChange(n) \/ OnActivate(n)
               \/ SyncDigestsAnswered(n) \/ StartTerm(n) \/ UpdateTerm(n)
               \/ ActivateTerm(n) \/ FallBack(n)
        PROVE  TasksKept(x)
    BY <2>2, TasksUntouched
       DEF OnReplicaInfoChange, OnActivate, SyncDigestsAnswered, StartTerm,
           UpdateTerm, ActivateTerm, FallBack, store, terms
  <2>3. ASSUME NEW n \in Nodes,
               \/ RunAntiEntropy(n) \/ AskDigests(n) \/ OnGetDigests(n)
               \/ OnGetBucket(n) \/ BackupAnswered(n) \/ DigestsAnswered(n)
        PROVE  TasksKept(x)
    BY <2>3, TasksUntouched
       DEF RunAntiEntropy, AskDigests, OnGetDigests, OnGetBucket,
           BackupAnswered, DigestsAnswered, store, terms
  <2>4. ASSUME NEW n \in Nodes, OnBackup(n) \/ SyncBucketAnswered(n)
        PROVE  TasksKept(x)
    BY <2>4, ComputeTasks DEF OnBackup, SyncBucketAnswered, terms
  <2>5. ASSUME NEW n \in Nodes,
               \/ ActivateMaster(n) \/ RunEnqueued(n) \/ FinishActivation(n)
        PROVE  TasksKept(x)
    BY <2>5, TaskSteps
  <2>6. ASSUME NEW n \in Nodes, Client(n)
        PROVE  TasksKept(x)
    BY <2>6, TaskSteps DEF Client
  <2>7. ASSUME NEW n \in Nodes, NEW m \in msgs, TimeOut(n, m)
        PROVE  TasksKept(x)
    BY <2>7, TasksUntouched DEF TimeOut, store, terms
  <2>8. CASE UNCHANGED vars
    BY <2>8, TasksUntouched DEF vars, store, terms
  <2>9. ASSUME NEW n \in Nodes, Executor(n)
        PROVE  TasksKept(x)
    BY <2>2, <2>3, <2>4, <2>5, <2>9 DEF Executor
  <2> QED BY <2>1, <2>2, <2>6, <2>7, <2>8, <2>9 DEF Next
<1>2. HistoryGrows
  BY HistoriesGrow
<1>3. ASSUME NEW x \in Nodes, NEW term, OwnsTerm(x, term)
      PROVE  OwnsTerm(x, term)'
  BY <1>2, <1>3, OwnsTermKept
<1>4. ASSUME NEW x \in Nodes
      PROVE  /\ client'[x] # NoTask => OwnsTerm(x, client[x].term)'
             /\ QueueOwned(x, flowTasks[x])'
             /\ QueueOwned(x, drain[x])'
  <2>1. TasksKept(x)
    BY <1>1
  <2>2. client'[x] # NoTask => OwnsTerm(x, client[x].term)'
    BY <1>3, <2>1 DEF TasksKept, OwnsTerm, TermOf
  <2>3. QueueOwned(x, flowTasks[x])'
    BY <1>3, <2>1 DEF TasksKept, QueueOwned, OwnsTerm, TermOf
  <2>4. QueueOwned(x, drain[x])'
    BY <1>3, <2>1 DEF TasksKept, QueueOwned, OwnsTerm, TermOf
  <2> QED BY <2>2, <2>3, <2>4
<1> QED BY <1>4 DEF TasksOwned

-----------------------------------------------------------------------------
(* Messages: what a step puts on the wire *)

\* A message that carries a copy of a bucket, and not only a digest or nothing.
Carries(x) == x.type = "backup" \/ (x.type = "bucket" /\ x.reply)

\* Message x is a request of node n.
Asks(x, n, type, at, load) ==
  /\ ~x.reply /\ x.from = n /\ x.type = type /\ x.at = at /\ x.load = load

\* Message x is node n's answer to m.
Answers(x, n, m, load, ok) ==
  /\ x.reply /\ x.from = n /\ x.to = m.from /\ x.type = m.type /\ x.at = m.at
  /\ x.load = load /\ x.ok = ok

\* Requests differ only in the peer and the time.
LEMMA RequestShape ==
  ASSUME NEW n, NEW peers, NEW type, NEW at, NEW load, NEW base,
         NEW new \in Requests(n, peers, type, at, load, base), NEW x \in new
  PROVE  Asks(x, n, type, at, load) /\ x.to \in peers
<1>1. PICK stamp \in Bijection(peers, (base + 1)..(base + Cardinality(peers))) :
        new = {[type |-> type, reply |-> FALSE, from |-> n, to |-> p,
                at |-> at, ts |-> stamp[p], load |-> load, ok |-> FALSE,
                cb |-> TRUE] : p \in peers}
  BY Zenon DEF Requests
<1>2. PICK p \in peers :
        x = [type |-> type, reply |-> FALSE, from |-> n, to |-> p,
             at |-> at, ts |-> stamp[p], load |-> load, ok |-> FALSE,
             cb |-> TRUE]
  BY <1>1
<1> QED BY <1>2 DEF Asks

\* sendWithTimestamp adds requests ...
LEMMA SentMessages ==
  ASSUME NEW n, NEW peers, NEW type, NEW at, NEW load,
         Send(n, peers, type, at, load), NEW x \in msgs'
  PROVE  x \in msgs \/ (Asks(x, n, type, at, load) /\ peers # {})
<1>1. PICK new \in Requests(n, peers, type, at, load, clock[n]) :
        msgs' = msgs \cup new
  BY DEF Send
<1>2. CASE x \in new
  BY <1>2, RequestShape
<1> QED BY <1>1, <1>2

\* ... receiveWithTimestamp an answer ...
LEMMA AnsweredMessages ==
  ASSUME NEW n, NEW m, NEW load, NEW ok, Answer(n, m, load, ok), NEW x \in msgs'
  PROVE  x \in msgs \/ Answers(x, n, m, load, ok)
  BY DEF Answer, Answers

\* ... and the arrival of an answer nothing.
LEMMA AcceptedMessages ==
  ASSUME NEW n, NEW m, Accept(n, m)
  PROVE  msgs' \subseteq msgs
  BY DEF Accept

\* syncFlowsOn asks for digests.
LEMMA SyncMessages ==
  ASSUME NEW n, NEW peers, NEW at, NEW prev, NEW onMaster,
         SyncFlowsOn(n, peers, at, prev, onMaster), NEW x \in msgs'
  PROVE  x \in msgs \/ Asks(x, n, "digests", at, EmptyBucket)
  BY SentMessages DEF SyncFlowsOn

\* Newer digests make the new master ask for the bucket.
LEMMA SyncDigestsMessages ==
  ASSUME NEW n, SyncDigestsAnswered(n), NEW x \in msgs'
  PROVE  \/ x \in msgs
         \/ \E m \in msgs : /\ IsAnswer(n, m, "digests") /\ m.at > 0
                            /\ Asks(x, n, "bucket", m.at, EmptyBucket)
<1>1. PICK m \in msgs :
        /\ IsAnswer(n, m, "digests") /\ m.at > 0
        /\ \/ \E new \in Requests(n, {m.from}, "bucket", m.at, EmptyBucket,
                                  tick(n, m.ts)) :
                msgs' = (msgs \ {m}) \cup new
           \/ Accept(n, m)
  BY DEF SyncDigestsAnswered
<1>2. CASE Accept(n, m)
  BY <1>2, AcceptedMessages
<1>3. ASSUME NEW new \in Requests(n, {m.from}, "bucket", m.at, EmptyBucket,
                                  tick(n, m.ts)),
             msgs' = (msgs \ {m}) \cup new
      PROVE  x \in msgs \/ Asks(x, n, "bucket", m.at, EmptyBucket)
  <2>1. CASE x \in new
    BY <2>1, RequestShape
  <2> QED BY <1>3, <2>1
<1> QED BY <1>1, <1>2, <1>3

\* A request that has timed out is still on its way.
LEMMA TimedOutMessages ==
  ASSUME IInv, NEW n, NEW m \in msgs, TimeOut(n, m), NEW x \in msgs'
  PROVE  \/ x \in msgs
         \/ /\ ~x.reply /\ ~m.reply /\ x.from = m.from /\ x.to = m.to
            /\ x.type = m.type /\ x.at = m.at /\ x.load = m.load
<1>1. x \in msgs \/ (~m.reply /\ x = [m EXCEPT !.cb = FALSE])
  BY DEF TimeOut
<1>2. m \in Message
  BY DEF IInv, TypeOK, NetOK
<1> QED BY <1>1, <1>2 DEF Message

\* The messages of the steps that ask for digests.
LEMMA DigestRequests ==
  ASSUME IInv, NEW n \in Nodes, StartTerm(n) \/ FallBack(n) \/ AskDigests(n),
         NEW x \in msgs'
  PROVE  x \in msgs \/ \E at : Asks(x, n, "digests", at, EmptyBucket)
<1>1. CASE StartTerm(n)
  <2>1. CASE UNCHANGED net
    BY <2>1 DEF net
  <2>2. ASSUME NEW peers, NEW at, NEW prev, NEW onMaster,
               SyncFlowsOn(n, peers, at, prev, onMaster)
        PROVE  x \in msgs \/ Asks(x, n, "digests", at, EmptyBucket)
    BY <2>2, SyncMessages
  <2> QED BY <1>1, <2>1, <2>2 DEF StartTerm, SyncFlowsOnBackups
<1>2. CASE FallBack(n)
  BY <1>2, SyncMessages DEF FallBack, SyncFlowsOnBackups
<1>3. CASE AskDigests(n)
  <2>1. PICK r \in rounds[n] : Send(n, {r.peer}, "digests", 0, EmptyBucket)
    BY <1>3 DEF AskDigests
  <2> QED BY <2>1, SentMessages
<1> QED BY <1>1, <1>2, <1>3

-----------------------------------------------------------------------------
(* Copies *)

\* A bucket that a step leaves somewhere is one there was, or empty, or what
\* purge() or an unlocked copy() makes of one, with its digest.
Traced(c) ==
  \/ c \in Copies
  \/ c = EmptyBucket
  \/ /\ "purge" \in Operations \/ \E n \in Nodes : Locked(n)
     /\ \E b \in Copies : c.term = b.term /\ c.ts = b.ts

\* Or an operation has written it.
Wrote(n, t) ==
  /\ t \in Task
  /\ OwnsTerm(n, t.term)
  /\ bucket' = [bucket EXCEPT ![n] = Recorded(@, t, clock[n] + 1)]
  /\ clock' = [clock EXCEPT ![n] = @ + 1]
  /\ UNCHANGED msgs

\* The copies there are.
LEMMA CopyFacts ==
  ASSUME IInv
  PROVE  /\ \A n \in Nodes : bucket[n] \in Copies /\ Traced(bucket[n])
         /\ \A x \in msgs : Carries(x) => x.load \in Copies /\ Traced(x.load)
         /\ Traced(EmptyBucket)
         /\ \A c \in Copies : c \in Bucket /\ c.term \in Nat /\ c.ts \in Nat
<1>1. \A n \in Nodes : bucket[n] \in Copies
  BY DEF Copies
<1>2. \A x \in msgs : Carries(x) => x.load \in Copies
  BY DEF Copies, Carries
<1>3. bucket \in [Nodes -> Bucket] /\ \A x \in msgs : x.load \in Bucket
  <2>1. bucket \in [Nodes -> Bucket] /\ msgs \in SUBSET Message
    BY DEF IInv, TypeOK, StoreOK, NetOK
  <2> QED BY <2>1 DEF Message
<1>4. \A c \in Copies : c \in Bucket
  BY <1>3 DEF Copies
<1> QED BY <1>1, <1>2, <1>4 DEF Traced, Bucket

\* Copies are traced where buckets and messages are.
LEMMA TraceParts ==
  ASSUME \A n \in Nodes : Traced(bucket'[n]),
         \A x \in msgs' : Carries(x) => Traced(x.load)
  PROVE  \A c \in Copies' : Traced(c)
<1>1. ASSUME NEW c \in Copies' PROVE Traced(c)
  <2>1. \/ \E n \in Nodes : c = bucket'[n]
        \/ \E x \in msgs' : Carries(x) /\ c = x.load
    BY <1>1 DEF Copies, Carries
  <2> QED BY <2>1
<1> QED BY <1>1

\* compute() takes over a bucket that was on the wire.
LEMMA ComputeTraced ==
  ASSUME IInv, NEW n \in Nodes, NEW b, Traced(b),
         compute(n, b) \/ UNCHANGED store
  PROVE  \A x \in Nodes : Traced(bucket'[x])
<1>1. bucket \in [Nodes -> Bucket] /\ \A x \in Nodes : Traced(bucket[x])
  BY CopyFacts DEF IInv, TypeOK, StoreOK
<1>2. UNCHANGED bucket \/ bucket' = [bucket EXCEPT ![n] = b]
  BY DEF compute, store
<1> QED BY <1>1, <1>2

\* An operation writes the bucket, or nothing.
LEMMA RunTraced ==
  ASSUME IInv, NEW n \in Nodes, NEW t \in Task, OwnsTerm(n, t.term), Run(n, t),
         UNCHANGED msgs
  PROVE  UNCHANGED bucket \/ Wrote(n, t)
  BY DEF Run, Wrote

\* Where a step finds what it leaves.
LEMMA CopiesStep ==
  ASSUME IInv, TasksOwned, [Next]_vars
  PROVE  \/ \A c \in Copies' : Traced(c)
         \/ \E n \in Nodes, t \in Task : Wrote(n, t)
<1> DEFINE Kept == \A c \in Copies' : Traced(c)
           Written == \E n \in Nodes, t \in Task : Wrote(n, t)
<1> SUFFICES Kept \/ Written
  OBVIOUS
<1>0. /\ bucket \in [Nodes -> Bucket]
      /\ \A n \in Nodes : bucket[n] \in Copies /\ Traced(bucket[n])
      /\ \A x \in msgs : Carries(x) => x.load \in Copies /\ Traced(x.load)
      /\ Traced(EmptyBucket)
  BY CopyFacts DEF IInv, TypeOK, StoreOK
<1>1. ASSUME UNCHANGED bucket, \A x \in msgs' : Carries(x) => Traced(x.load)
      PROVE  Kept
  BY <1>0, <1>1, TraceParts
<1>2. ASSUME UNCHANGED <<bucket, msgs>> PROVE Kept
  BY <1>0, <1>1, <1>2
<1>3. CASE ElectMaster \/ ChangeBackups \/ LoseMaster
  BY <1>2, <1>3
     DEF ElectMaster, ChangeBackups, LoseMaster, AddInfo, store, net
<1>4. ASSUME NEW n \in Nodes,
             \/ OnReplicaInfoChange(n) \/ OnActivate(n) \/ ActivateMaster(n)
             \/ FinishActivation(n)
      PROVE  Kept
  BY <1>2, <1>4
     DEF OnReplicaInfoChange, OnActivate, ActivateMaster, FinishActivation,
         store, net
<1>5. ASSUME NEW n \in Nodes,
             RunInTerm(n) \/ BeginWrite(n) \/ Enqueue(n) \/ AddToTaken(n)
      PROVE  Kept
  BY <1>2, <1>5 DEF RunInTerm, BeginWrite, Enqueue, AddToTaken, store, net
<1>6. ASSUME NEW n \in Nodes, UpdateTerm(n) \/ ActivateTerm(n)
      PROVE  Kept
  <2>1. /\ UNCHANGED msgs
        /\ bucket' = bucket \/ bucket' = [bucket EXCEPT ![n] = EmptyBucket]
    BY <1>6 DEF UpdateTerm, ActivateTerm, net
  <2>2. \A x \in Nodes : Traced(bucket'[x])
    BY <1>0, <2>1
  <2> QED BY <1>0, <2>1, <2>2, TraceParts
<1>7. ASSUME NEW n \in Nodes, StartTerm(n) \/ FallBack(n) \/ AskDigests(n)
      PROVE  Kept
  <2>1. UNCHANGED bucket
    BY <1>7 DEF StartTerm, FallBack, AskDigests, store
  <2>2. \A x \in msgs' : Carries(x) => x \in msgs
    BY <1>7, DigestRequests DEF Asks, Carries
  <2> QED BY <1>0, <1>1, <2>1, <2>2
<1>8. ASSUME NEW n \in Nodes, RunEnqueued(n)
      PROVE  Kept \/ Written
  <2>1. drain[n] # <<>> /\ Run(n, Head(drain[n])) /\ UNCHANGED msgs
    BY <1>8 DEF RunEnqueued
  <2>2. drain[n] \in Seq(Task) /\ QueueOwned(n, drain[n])
    BY HeldTasks
  <2>3. Head(drain[n]) \in Task /\ OwnsTerm(n, Head(drain[n]).term)
    BY <2>1, <2>2, HeadTailProperties, QueueFacts
  <2>4. UNCHANGED bucket \/ Wrote(n, Head(drain[n]))
    BY <2>1, <2>3, RunTraced
  <2> QED BY <1>2, <2>1, <2>3, <2>4
<1>9. ASSUME NEW n \in Nodes, Apply(n)
      PROVE  Kept \/ Written
  <2>1. client[n] # NoTask /\ Run(n, client[n]) /\ UNCHANGED msgs
    BY <1>9 DEF Apply
  <2>2. client[n] \in Task /\ OwnsTerm(n, client[n].term)
    BY <2>1, HeldTasks
  <2>3. UNCHANGED bucket \/ Wrote(n, client[n])
    BY <2>1, <2>2, RunTraced
  <2> QED BY <1>2, <2>1, <2>2, <2>3
<1>10. ASSUME NEW n \in Nodes, Purge(n)
       PROVE  Kept
  <2>1. /\ UNCHANGED msgs /\ "purge" \in Operations
        /\ bucket' = [bucket EXCEPT ![n] = purge(@)]
    BY <1>10 DEF Purge, net
  <2>2. /\ purge(bucket[n]).term = bucket[n].term
        /\ purge(bucket[n]).ts = bucket[n].ts
    BY <1>0 DEF purge, Bucket
  <2>3. Traced(purge(bucket[n]))
    BY <1>0, <2>1, <2>2 DEF Traced
  <2>4. \A x \in Nodes : Traced(bucket'[x])
    BY <1>0, <2>1, <2>3
  <2> QED BY <1>0, <2>1, <2>4, TraceParts
<1>11. ASSUME NEW n \in Nodes, RunAntiEntropy(n)
       PROVE  Kept
  <2>1. UNCHANGED bucket /\ \E peers : Send(n, peers, "backup", 0, bucket[n])
    BY <1>11 DEF RunAntiEntropy, store
  <2>2. \A x \in msgs' : x \in msgs \/ x.load = bucket[n]
    BY <2>1, SentMessages DEF Asks
  <2> QED BY <1>0, <1>1, <2>1, <2>2
<1>12. ASSUME NEW n \in Nodes, OnBackup(n)
       PROVE  Kept
  <2>1. PICK m \in msgs :
          /\ IsRequest(n, m, "backup")
          /\ Answer(n, m, m.load, m.load.term = Info(n).term)
          /\ compute(n, m.load) \/ UNCHANGED store
    BY <1>12 DEF OnBackup
  <2>2. Traced(m.load)
    BY <1>0, <2>1 DEF IsRequest, Carries
  <2>3. \A x \in Nodes : Traced(bucket'[x])
    BY <2>1, <2>2, ComputeTraced
  <2>4. \A x \in msgs' : x \in msgs \/ x.load = m.load
    BY <2>1, AnsweredMessages DEF Answers
  <2> QED BY <1>0, <2>2, <2>3, <2>4, TraceParts
<1>13. ASSUME NEW n \in Nodes, OnGetDigests(n)
       PROVE  Kept
  <2>1. PICK m \in msgs : /\ IsRequest(n, m, "digests")
                          /\ Answer(n, m, digest(bucket[n]), TRUE)
    BY <1>13 DEF OnGetDigests
  <2>2. UNCHANGED bucket
    BY <1>13 DEF OnGetDigests, store
  <2>3. \A x \in msgs' : Carries(x) => x \in msgs
    BY <2>1, AnsweredMessages DEF Answers, Carries, IsRequest
  <2> QED BY <1>0, <1>1, <2>2, <2>3
<1>14. ASSUME NEW n \in Nodes, OnGetBucket(n)
       PROVE  Kept
  <2>1. PICK m \in msgs, copy \in copies(n) : Answer(n, m, copy, TRUE)
    BY <1>14 DEF OnGetBucket
  <2>2. UNCHANGED bucket
    BY <1>14 DEF OnGetBucket, store
  <2>3. Traced(copy)
    <3>1. CASE copy = bucket[n]
      BY <1>0, <3>1
    <3>2. CASE Locked(n) /\ copy = Changed(bucket[n], client[n])
      <4>1. copy.term = bucket[n].term /\ copy.ts = bucket[n].ts
        BY <1>0, <3>2 DEF Changed, Bucket
      <4> QED BY <1>0, <3>2, <4>1 DEF Traced
    <3> QED BY <2>1, <3>1, <3>2 DEF copies
  <2>4. \A x \in msgs' : x \in msgs \/ x.load = copy
    BY <2>1, AnsweredMessages DEF Answers
  <2> QED BY <1>0, <1>1, <2>2, <2>3, <2>4
<1>15. ASSUME NEW n \in Nodes, BackupAnswered(n) \/ DigestsAnswered(n)
       PROVE  Kept
  <2>1. UNCHANGED bucket /\ msgs' \subseteq msgs
    BY <1>15, AcceptedMessages DEF BackupAnswered, DigestsAnswered, store
  <2> QED BY <1>0, <1>1, <2>1
<1>16. ASSUME NEW n \in Nodes, SyncBucketAnswered(n)
       PROVE  Kept
  <2>1. PICK m \in msgs : /\ IsAnswer(n, m, "bucket") /\ Accept(n, m)
                          /\ compute(n, m.load)
    BY <1>16 DEF SyncBucketAnswered
  <2>2. Traced(m.load)
    BY <1>0, <2>1 DEF IsAnswer, Carries
  <2>3. \A x \in Nodes : Traced(bucket'[x])
    BY <2>1, <2>2, ComputeTraced
  <2>4. msgs' \subseteq msgs
    BY <2>1, AcceptedMessages
  <2> QED BY <1>0, <2>3, <2>4, TraceParts
<1>17. ASSUME NEW n \in Nodes, SyncDigestsAnswered(n)
       PROVE  Kept
  <2>1. UNCHANGED bucket
    BY <1>17 DEF SyncDigestsAnswered, store
  <2>2. \A x \in msgs' : Carries(x) => x \in msgs
    BY <1>17, SyncDigestsMessages DEF Asks, Carries
  <2> QED BY <1>0, <1>1, <2>1, <2>2
<1>18. ASSUME NEW n \in Nodes, NEW m \in msgs, TimeOut(n, m)
       PROVE  Kept
  <2>1. UNCHANGED bucket
    BY <1>18 DEF TimeOut, store
  <2>2. \A x \in msgs' : Carries(x) => Traced(x.load)
    BY <1>0, <1>18, TimedOutMessages DEF Carries
  <2> QED BY <1>1, <2>1, <2>2
<1>19. CASE UNCHANGED vars
  BY <1>2, <1>19 DEF vars, store, net
<1> HIDE DEF Kept, Written
<1>20. ASSUME NEW n \in Nodes, Executor(n)
       PROVE  Kept \/ Written
  BY <1>4, <1>6, <1>7, <1>8, <1>11, <1>12, <1>13, <1>14, <1>15, <1>16, <1>20
     DEF Executor
<1>21. ASSUME NEW n \in Nodes, Client(n)
       PROVE  Kept \/ Written
  BY <1>5, <1>9, <1>10, <1>21 DEF Client
<1> QED BY <1>3, <1>4, <1>17, <1>18, <1>19, <1>20, <1>21 DEF Next

\* What an operation writes carries its term and the time of the step.
LEMMA WroteFacts ==
  ASSUME IInv, NEW n \in Nodes, NEW t \in Task, Wrote(n, t)
  PROVE  LET b == bucket'[n] IN
         /\ b.term = t.term /\ b.ts = clock[n] + 1 /\ clock'[n] = clock[n] + 1
         /\ clock[n] \in Nat
         /\ \A c \in Copies' : c \in Copies \/ c = b
<1>1. /\ bucket \in [Nodes -> Bucket] /\ clock \in [Nodes -> Nat]
      /\ clock[n] + 1 \in Nat
  BY DEF IInv, TypeOK, StoreOK, NetOK
<1>2. bucket' = [bucket EXCEPT ![n] = Recorded(bucket[n], t, clock[n] + 1)]
  BY DEF Wrote
<1>3. /\ bucket'[n] = Recorded(bucket[n], t, clock[n] + 1)
      /\ \A x \in Nodes \ {n} : bucket'[x] = bucket[x]
  BY <1>1, <1>2
<1>4. bucket'[n].term = t.term /\ bucket'[n].ts = clock[n] + 1
  <2> DEFINE time == clock[n] + 1
  <2>1. bucket[n] \in Bucket /\ time \in Nat
    BY <1>1
  <2> HIDE DEF time
  <2>2. Changed(bucket[n], t) \in Bucket
    BY <2>1, ChangeFacts
  <2>3. /\ Recorded(bucket[n], t, time).term = t.term
        /\ Recorded(bucket[n], t, time).ts = time
    BY <2>2 DEF Recorded, Bucket
  <2> QED BY <1>3, <2>3 DEF time
<1>5. clock'[n] = clock[n] + 1
  BY <1>1 DEF Wrote
<1>6. ASSUME NEW c \in Copies' PROVE c \in Copies \/ c = bucket'[n]
  <2>1. \/ \E x \in Nodes : c = bucket'[x]
        \/ \E x \in msgs' : Carries(x) /\ c = x.load
    BY <1>6 DEF Copies, Carries
  <2>2. msgs' = msgs
    BY DEF Wrote
  <2> QED BY <1>3, <2>1, <2>2, CopyFacts
<1> QED BY <1>1, <1>4, <1>5, <1>6

\* A copy keeps its owner.
LEMMA CopiesPreserved ==
  ASSUME OInv, [Next]_vars
  PROVE  CopiesOwned'
<1>1. IInv /\ TasksOwned /\ HistoryGrows
  BY HistoriesGrow DEF OInv
<1>2. \A c \in Copies : c.term \in Nat /\ c.ts \in Nat
  BY <1>1, CopyFacts
<1>3. ASSUME NEW c, NEW b \in Copies, c.term = b.term, c.ts = b.ts
      PROVE  c.term = 0 \/ WrittenByOwner(c)'
  <2>1. CASE b.term = 0
    BY <1>3, <2>1
  <2>2. ASSUME NEW n \in Nodes, OwnsTerm(n, b.term), b.ts <= clock[n]
        PROVE  WrittenByOwner(c)'
    <3>1. OwnsTerm(n, b.term)'
      BY <1>1, <2>2, OwnsTermKept
    <3>2. b.ts \in Nat /\ clock[n] \in Nat /\ clock'[n] \in Nat
          /\ clock'[n] >= clock[n]
      BY <1>1, <1>2 DEF HistoryGrows, IInv, TypeOK, NetOK
    <3>3. c.ts <= clock'[n]
      BY <1>3, <2>2, <3>2
    <3> QED BY <1>3, <3>1, <3>3 DEF WrittenByOwner
  <2> QED BY <2>1, <2>2 DEF OInv, CopiesOwned, WrittenByOwner
<1>4. CASE \A c \in Copies' : Traced(c)
  <2>1. ASSUME NEW c \in Copies' PROVE c.term = 0 \/ WrittenByOwner(c)'
    <3>1. Traced(c)
      BY <1>4
    <3>2. CASE c = EmptyBucket
      BY <3>2 DEF EmptyBucket
    <3> QED BY <1>3, <3>1, <3>2 DEF Traced
  <2> QED BY <2>1 DEF CopiesOwned
<1>5. ASSUME NEW n \in Nodes, NEW t \in Task, Wrote(n, t)
      PROVE  CopiesOwned'
  <2> DEFINE b == bucket'[n]
  <2>1. /\ b.term = t.term /\ b.ts = clock[n] + 1 /\ clock'[n] = clock[n] + 1
        /\ clock[n] \in Nat
        /\ \A c \in Copies' : c \in Copies \/ c = b
    BY <1>1, <1>5, WroteFacts
  <2>2. OwnsTerm(n, t.term)'
    BY <1>1, <1>5, OwnsTermKept DEF Wrote
  <2> HIDE DEF b
  <2>3. OwnsTerm(n, t.term)' /\ b.ts <= clock'[n]
    BY <2>1, <2>2
  <2>4. ASSUME NEW c \in Copies' PROVE c.term = 0 \/ WrittenByOwner(c)'
    <3>1. CASE c = b
      BY <2>1, <2>3, <3>1 DEF WrittenByOwner
    <3> QED BY <1>3, <2>1, <3>1
  <2> QED BY <2>4 DEF CopiesOwned
<1> QED BY <1>1, <1>4, <1>5, CopiesStep

\* The first term is the first info's, and nothing has been written in it.
LEMMA InitOInv ==
  Init => OInv
<1> SUFFICES ASSUME Init PROVE OInv
  OBVIOUS
<1>1. IInv
  BY InitIInv
<1>2. PICK m \in Nodes, B \in SUBSET Nodes :
        infos = <<[term |-> 1, master |-> m, backups |-> B]>>
  BY DEF Init
<1>3. Indexes = {1} /\ TermOf(1) = 1
  BY <1>2 DEF Indexes, TermOf
<1>4. MasteredTerms = {1} /\ Cardinality(MasteredTerms) = 1
  <2>1. MasteredTerms = {1}
    BY <1>3 DEF MasteredTerms
  <2> QED BY <2>1, FS_Singleton
<1>5. TermsCounted
  BY <1>3, <1>4 DEF TermsCounted
<1>6. TermsContiguous
  BY <1>3 DEF TermsContiguous
<1>7. TasksOwned
  BY DEF Init, TasksOwned, QueueOwned
<1>8. \A c \in Copies : c = EmptyBucket
  BY DEF Init, Copies
<1>9. CopiesOwned
  BY <1>8 DEF CopiesOwned, EmptyBucket
<1> QED BY <1>1, <1>5, <1>6, <1>7, <1>9 DEF OInv

\* Every step preserves the ownership of terms.
LEMMA NextOInv ==
  OInv /\ [Next]_vars => OInv'
<1> SUFFICES ASSUME OInv, [Next]_vars PROVE OInv'
  OBVIOUS
<1>1. IInv /\ TermsCounted /\ TermsContiguous /\ TasksOwned
  BY DEF OInv
<1>2. IInv'
  BY <1>1, NextIInv
<1>3. TermsCounted' /\ TermsContiguous'
  BY <1>1, TermsPreserved
<1>4. TasksOwned'
  BY <1>1, TasksPreserved
<1>5. CopiesOwned'
  BY CopiesPreserved
<1> QED BY <1>2, <1>3, <1>4, <1>5 DEF OInv

\* A term has one master; only the operations of that node, begun once its
\* lifecycle manager had seen the term, write buckets of the term, each at a
\* time of that node's clock.
THEOREM TermsOwned ==
  Spec => []OInv
  BY InitOInv, NextOInv, PTL DEF Spec

-----------------------------------------------------------------------------
(* A digest identifies what it was taken of *)

\* A copy nobody has written is empty ...
UnwrittenEmpty == \A c \in Copies : c.term = 0 => c = EmptyBucket

\* ... and no write is half done while others look.
NoTornWrites ==
  \A n \in Nodes : client[n] # NoTask => client[n].mode # "writing"

DInv == OInv /\ UnwrittenEmpty /\ NoTornWrites /\ DigestIdentifiesContent

\* Only BeginWrite leaves a write half done.
LEMMA WritesWhole ==
  ASSUME IInv, NoTornWrites, ~TornCopies, [Next]_vars
  PROVE  NoTornWrites'
<1>0. client \in [Nodes -> Task \cup {NoTask}]
  BY DEF IInv, TypeOK, StoreOK
<1>1. CASE UNCHANGED client
  BY <1>1 DEF NoTornWrites
<1>2. ASSUME NEW n \in Nodes, NEW t, client' = [client EXCEPT ![n] = t],
             t # NoTask => t.mode # "writing"
      PROVE  NoTornWrites'
  BY <1>0, <1>2 DEF NoTornWrites
<1>3. ASSUME NEW n \in Nodes, client[n] # NoTask,
             NEW mode \in {"raced", "late"},
             client' = [client EXCEPT ![n].mode = mode]
      PROVE  NoTornWrites'
  <2>1. client[n] \in Task
    BY <1>0, <1>3
  <2>2. client'[n].mode = mode /\ \A x \in Nodes \ {n} : client'[x] = client[x]
    BY <1>0, <1>3, <2>1 DEF Task
  <2> QED BY <2>2, <1>3 DEF NoTornWrites
<1>4. ASSUME NEW n \in Nodes, client[n] # NoTask,
             client' = [client EXCEPT ![n].stale = TRUE]
      PROVE  NoTornWrites'
  <2>1. client[n] \in Task
    BY <1>0, <1>4
  <2>2. /\ client'[n].mode = client[n].mode
        /\ \A x \in Nodes \ {n} : client'[x] = client[x]
    BY <1>0, <1>4, <2>1 DEF Task
  <2> QED BY <2>2, <1>4 DEF NoTornWrites
<1>5. CASE ElectMaster \/ ChangeBackups \/ LoseMaster
  BY <1>1, <1>5 DEF ElectMaster, ChangeBackups, LoseMaster, AddInfo, store
<1>6. ASSUME NEW n \in Nodes,
             \/ OnReplicaInfoChange(n) \/ OnActivate(n) \/ SyncDigestsAnswered(n)
             \/ StartTerm(n) \/ UpdateTerm(n) \/ ActivateTerm(n) \/ FallBack(n)
             \/ RunEnqueued(n)
      PROVE  NoTornWrites'
  BY <1>1, <1>6 DEF OnReplicaInfoChange, OnActivate, SyncDigestsAnswered,
     StartTerm, UpdateTerm, ActivateTerm, FallBack, RunEnqueued, store
<1>7. ASSUME NEW n \in Nodes,
             \/ RunAntiEntropy(n) \/ AskDigests(n) \/ OnGetDigests(n)
             \/ OnGetBucket(n) \/ BackupAnswered(n) \/ DigestsAnswered(n)
      PROVE  NoTornWrites'
  BY <1>1, <1>7 DEF RunAntiEntropy, AskDigests, OnGetDigests, OnGetBucket,
     BackupAnswered, DigestsAnswered, store
<1>8. ASSUME NEW n \in Nodes, OnBackup(n) \/ SyncBucketAnswered(n)
      PROVE  NoTornWrites'
  <2>1. \E b : compute(n, b) \/ UNCHANGED store
    BY <1>8 DEF OnBackup, SyncBucketAnswered
  <2>2. \/ UNCHANGED client
        \/ client[n] # NoTask /\ client' = [client EXCEPT ![n].stale = TRUE]
    BY <2>1 DEF compute, store
  <2> QED BY <1>1, <1>4, <2>2
<1>9. ASSUME NEW n \in Nodes, ActivateMaster(n) \/ FinishActivation(n)
      PROVE  NoTornWrites'
  BY <1>1, <1>3, <1>9 DEF ActivateMaster, FinishActivation
<1>10. ASSUME NEW n \in Nodes, RunInTerm(n)
       PROVE  NoTornWrites'
  <2>1. PICK op \in Operations \ {"purge"}, r \in Rules :
          client' = [client EXCEPT ![n] =
            [op |-> op, rule |-> r, term |-> Info(n).term, stale |-> FALSE,
             mode |-> IF activeTerm[n] < Info(n).term THEN "enqueue"
                      ELSE "apply"]]
    BY <1>10 DEF RunInTerm
  <2>2. client'[n].mode # "writing" /\ \A x \in Nodes \ {n} : client'[x] = client[x]
    BY <1>0, <2>1
  <2> QED BY <2>2 DEF NoTornWrites
<1>11. ASSUME NEW n \in Nodes, Apply(n) \/ Enqueue(n) \/ AddToTaken(n)
       PROVE  NoTornWrites'
  BY <1>2, <1>11 DEF Apply, Enqueue, AddToTaken, Return
<1>12. ASSUME NEW n \in Nodes, BeginWrite(n) \/ Purge(n)
       PROVE  NoTornWrites'
  BY <1>1, <1>12 DEF BeginWrite, Purge
<1>13. ASSUME NEW n \in Nodes, NEW m \in msgs, TimeOut(n, m)
       PROVE  NoTornWrites'
  BY <1>1, <1>13 DEF TimeOut, store
<1>14. CASE UNCHANGED vars
  BY <1>1, <1>14 DEF vars, store
<1>15. ASSUME NEW n \in Nodes, Executor(n) PROVE NoTornWrites'
  BY <1>6, <1>7, <1>8, <1>9, <1>15 DEF Executor
<1>16. ASSUME NEW n \in Nodes, Client(n) PROVE NoTornWrites'
  BY <1>10, <1>11, <1>12, <1>16 DEF Client
<1> QED BY <1>5, <1>6, <1>13, <1>14, <1>15, <1>16 DEF Next

\* A step that writes nothing leaves copies there were, or empty ones.
LEMMA TracedExactly ==
  ASSUME NoTornWrites, "purge" \notin Operations, NEW c, Traced(c)
  PROVE  c \in Copies \/ c = EmptyBucket
  BY DEF Traced, Locked, NoTornWrites

\* The time of a write is new among the copies of its term.
LEMMA WriteIsLater ==
  ASSUME OInv, NEW n \in Nodes, NEW t \in Task, Wrote(n, t), NEW c \in Copies,
         c.term = t.term
  PROVE  c.ts < clock[n] + 1 /\ t.term \in Nat \ {0}
<1>1. IInv /\ TermsCounted /\ TermsContiguous /\ OwnsTerm(n, t.term)
  BY DEF OInv, Wrote
<1>2. t.term \in Nat \ {0}
  BY <1>1, OneOwner
<1>3. PICK x \in Nodes : OwnsTerm(x, c.term) /\ c.ts <= clock[x]
  BY <1>2 DEF OInv, CopiesOwned, WrittenByOwner
<1>4. x = n
  BY <1>1, <1>3, OneOwner
<1>5. clock[n] \in Nat /\ c.ts \in Nat
  BY <1>1, CopyFacts DEF IInv, TypeOK, NetOK
<1> QED BY <1>2, <1>3, <1>4, <1>5

\* Every step preserves what digests say.
LEMMA NextDInv ==
  ASSUME "purge" \notin Operations, ~TornCopies
  PROVE  DInv /\ [Next]_vars => DInv'
<1> SUFFICES ASSUME DInv, [Next]_vars PROVE DInv'
  OBVIOUS
<1>1. /\ OInv /\ IInv /\ TasksOwned /\ NoTornWrites /\ UnwrittenEmpty
      /\ DigestIdentifiesContent
  BY DEF DInv, OInv
<1>2. OInv' /\ NoTornWrites'
  BY <1>1, NextOInv, WritesWhole
<1>3. CASE \A c \in Copies' : Traced(c)
  <2>1. \A c \in Copies' : c \in Copies \/ c = EmptyBucket
    BY <1>1, <1>3, TracedExactly
  <2>2. UnwrittenEmpty'
    BY <1>1, <2>1 DEF UnwrittenEmpty
  <2>3. \A c \in Copies : c.term = EmptyBucket.term => c = EmptyBucket
    BY <1>1 DEF UnwrittenEmpty, EmptyBucket
  <2>4. DigestIdentifiesContent'
    BY <1>1, <2>1, <2>3 DEF DigestIdentifiesContent
  <2> QED BY <1>2, <2>2, <2>4 DEF DInv
<1>4. ASSUME NEW n \in Nodes, NEW t \in Task, Wrote(n, t)
      PROVE  DInv'
  <2> DEFINE b == bucket'[n]
  <2>1. /\ b.term = t.term /\ b.ts = clock[n] + 1 /\ clock[n] \in Nat
        /\ \A c \in Copies' : c \in Copies \/ c = b
    BY <1>1, <1>4, WroteFacts
  <2> HIDE DEF b
  <2>2. \A c \in Copies : c.term = t.term => c.ts < clock[n] + 1
    BY <1>1, <1>4, WriteIsLater
  <2>3. \A c \in Copies : c.ts \in Nat
    BY <1>1, CopyFacts
  <2>4. \A c \in Copies : ~(c.term = b.term /\ c.ts = b.ts)
    BY <2>1, <2>2, <2>3
  <2>5. t.term # 0
    BY <1>1, <1>4, OneOwner DEF Wrote, OInv
  <2>6. UnwrittenEmpty'
    BY <1>1, <2>1, <2>5 DEF UnwrittenEmpty
  <2>7. DigestIdentifiesContent'
    BY <1>1, <2>1, <2>4 DEF DigestIdentifiesContent
  <2> QED BY <1>2, <2>6, <2>7 DEF DInv
<1> QED BY <1>1, <1>3, <1>4, CopiesStep

\* Where no client purges and no copy() overlaps a write, two copies of the
\* bucket with the same term and time have the same entries, on nodes and on
\* the wire, whatever was re-elected, replaced, cleared, lost or late: what
\* anti-entropy and synchronization conclude from digests alone is right.
THEOREM DigestsIdentify ==
  "purge" \notin Operations /\ ~TornCopies => (Spec => []DigestIdentifiesContent)
<1> SUFFICES ASSUME "purge" \notin Operations, ~TornCopies
             PROVE  Spec => []DigestIdentifiesContent
  OBVIOUS
<1>1. Init => DInv
  <2> SUFFICES ASSUME Init PROVE DInv
    OBVIOUS
  <2>1. \A c \in Copies : c = EmptyBucket
    BY DEF Init, Copies
  <2>2. OInv
    BY InitOInv
  <2>3. NoTornWrites
    BY DEF Init, NoTornWrites
  <2> QED BY <2>1, <2>2, <2>3 DEF DInv, UnwrittenEmpty, DigestIdentifiesContent
<1>2. DInv /\ [Next]_vars => DInv'
  BY NextDInv
<1>3. DInv => DigestIdentifiesContent
  BY DEF DInv
<1> QED BY <1>1, <1>2, <1>3, PTL DEF Spec

-----------------------------------------------------------------------------
(* Only masters synchronize *)

\* The node that asked and waits for the answer.
Requester(x) == IF x.reply THEN x.to ELSE x.from

\* It is a node.
LEMMA RequesterFacts ==
  ASSUME IInv, NEW x \in msgs
  PROVE  Requester(x) \in Nodes
<1>1. x \in Message
  BY DEF IInv, TypeOK, NetOK
<1> QED BY <1>1 DEF Message, Requester

\* A term's start is queued once the lifecycle manager has seen the term, and
\* only a master's synchronization fails.
MasteredJob(n, job) ==
  /\ job.type = "TERM_START" => job.at <= view[n]
  /\ job.type = "SYNC_FAILED" => ~NeverMaster(n)

\* Whoever asks for digests to synchronize, or for a bucket, has been master.
SyncsByMasters ==
  /\ \A n \in Nodes : \A job \in Elements(events[n]) : MasteredJob(n, job)
  /\ \A n \in Nodes : syncs[n] # {} => ~NeverMaster(n)
  /\ \A x \in msgs : x.at > 0 \/ x.type = "bucket" => ~NeverMaster(Requester(x))

\* A node that has been master has been master.
LEMMA MasterKept ==
  ASSUME IInv, HistoryGrows, NEW n \in Nodes, ~NeverMaster(n)
  PROVE  ~NeverMaster(n)'
<1>1. PICK i \in 1..view[n] : infos[i].master = n
  BY DEF NeverMaster
<1>2. view[n] \in Indexes /\ Len(infos) \in Nat
  BY IndexFacts DEF IInv, TypeOK, LifecycleOK
<1>3. i \in Indexes /\ view[n] \in Nat
  BY <1>2 DEF Indexes
<1>4. infos'[i] = infos[i] /\ view'[n] \in Nat /\ view'[n] >= view[n]
  BY <1>3 DEF HistoryGrows
<1>5. i \in 1..view'[n]
  BY <1>3, <1>4
<1> QED BY <1>1, <1>4, <1>5 DEF NeverMaster

\* The owner of a term has been master.
LEMMA OwnerWasMaster ==
  ASSUME NEW n \in Nodes, NEW term, OwnsTerm(n, term)
  PROVE  ~NeverMaster(n)
  BY DEF OwnsTerm, NeverMaster

\* A job that is new on node x's queue.
NewJob(x, job) ==
  \/ job.type \notin {"TERM_START", "SYNC_FAILED"}
  \/ job.type = "TERM_START" /\ job.at = view'[x]
  \/ job.type = "SYNC_FAILED" /\ syncs[x] # {}

JobsStep ==
  \A x \in Nodes : \A job \in Elements(events'[x]) :
    job \in Elements(events[x]) \/ NewJob(x, job)

\* Steps that leave the queues alone.
LEMMA QueuesKept ==
  ASSUME UNCHANGED events
  PROVE  JobsStep
  BY DEF JobsStep

\* A job leaves the queue.
LEMMA JobDone ==
  ASSUME IInv, NEW n \in Nodes, NEW type, NextJob(n, type), Done(n)
  PROVE  JobsStep
<1>1. /\ events \in [Nodes -> Seq(Job)] /\ events[n] \in Seq(Job)
      /\ events[n] # <<>>
  BY DEF IInv, TypeOK, LifecycleOK, NextJob
<1>2. events' = [events EXCEPT ![n] = Tail(events[n])]
  BY DEF Done
<1>3. Elements(Tail(events[n])) \subseteq Elements(events[n])
  BY <1>1, ElementsOfTail
<1> QED BY <1>1, <1>2, <1>3 DEF JobsStep

\* A job is queued, behind what was there or what the running job has left.
LEMMA JobPosted ==
  ASSUME IInv, NEW n \in Nodes, NEW queue \in Seq(Job),
         Elements(queue) \subseteq Elements(events[n]),
         NEW type, NEW at \in Indexes, NEW prev \in Indexes \cup {0},
         events' = [events EXCEPT ![n] = Posted(queue, type, at, prev)],
         [type |-> type, at |-> at, prev |-> prev] \in Job,
         NewJob(n, [type |-> type, at |-> at, prev |-> prev])
  PROVE  JobsStep
<1> DEFINE new == [type |-> type, at |-> at, prev |-> prev]
<1>1. events \in [Nodes -> Seq(Job)]
  BY DEF IInv, TypeOK, LifecycleOK
<1>2. new \in Job /\ NewJob(n, new)
      /\ events' = [events EXCEPT ![n] = Append(queue, new)]
  BY DEF Posted
<1> HIDE DEF new
<1>3. Elements(Append(queue, new)) = Elements(queue) \cup {new}
  BY <1>2, ElementsOfAppend
<1> QED BY <1>1, <1>2, <1>3 DEF JobsStep

\* syncFlowsOn either waits or is over at once.
LEMMA SyncJobs ==
  ASSUME IInv, NEW n \in Nodes, NEW type, NextJob(n, type), NEW peers,
         NEW at \in Indexes, NEW prev, NEW onMaster,
         SyncFlowsOn(n, peers, at, prev, onMaster)
  PROVE  JobsStep
<1>1. CASE Done(n)
  BY <1>1, JobDone
<1>2. CASE events' = [events EXCEPT ![n] = Posted(Tail(@), "SYNCED", at, 0)]
  <2>1. events[n] \in Seq(Job) /\ events[n] # <<>>
    BY DEF IInv, TypeOK, LifecycleOK, NextJob
  <2>2. /\ Tail(events[n]) \in Seq(Job)
        /\ Elements(Tail(events[n])) \subseteq Elements(events[n])
    BY <2>1, ElementsOfTail
  <2>3. [type |-> "SYNCED", at |-> at, prev |-> 0] \in Job
    BY DEF Job
  <2>4. NewJob(n, [type |-> "SYNCED", at |-> at, prev |-> 0])
    BY DEF NewJob
  <2>5. events' = [events EXCEPT ![n] = Posted(Tail(events[n]), "SYNCED", at, 0)]
    BY <1>2
  <2> QED BY <2>2, <2>3, <2>4, <2>5, JobPosted
<1> QED BY <1>1, <1>2 DEF SyncFlowsOn

\* A synchronization ends.
LEMMA SucceedJobs ==
  ASSUME IInv, NEW n \in Nodes, NEW at, Succeed(n, at)
  PROVE  JobsStep
<1>1. syncs[n] \in SUBSET Sync /\ events[n] \in Seq(Job)
  BY DEF IInv, TypeOK, LifecycleOK
<1>2. CASE UNCHANGED events
  BY <1>2, QueuesKept
<1>3. CASE {s \in syncs[n] : s.at = at} # {}
           /\ events' = [events EXCEPT ![n] = Posted(@, "SYNCED", at, 0)]
  <2>1. at \in Indexes
    BY <1>1, <1>3 DEF Sync
  <2>2. [type |-> "SYNCED", at |-> at, prev |-> 0] \in Job
    BY <2>1 DEF Job
  <2>3. NewJob(n, [type |-> "SYNCED", at |-> at, prev |-> 0])
    BY DEF NewJob
  <2>4. events' = [events EXCEPT ![n] = Posted(events[n], "SYNCED", at, 0)]
    BY <1>3
  <2> QED BY <1>1, <2>1, <2>2, <2>3, <2>4, JobPosted
<1> QED BY <1>2, <1>3 DEF Succeed

\* A source fails, and with the last one the synchronization.
LEMMA FailJobs ==
  ASSUME IInv, NEW n \in Nodes, NEW at, NEW p, Fail(n, at, p)
  PROVE  JobsStep
<1>1. syncs[n] \in SUBSET Sync /\ events[n] \in Seq(Job)
  BY DEF IInv, TypeOK, LifecycleOK
<1>2. CASE UNCHANGED events
  BY <1>2, QueuesKept
<1>3. ASSUME NEW s \in syncs[n],
             events' = [events EXCEPT ![n] =
               Posted(@, IF s.onMaster THEN "SYNC_FAILED" ELSE "SYNCED",
                      s.at, s.prev)]
      PROVE  JobsStep
  <2> DEFINE type == IF s.onMaster THEN "SYNC_FAILED" ELSE "SYNCED"
  <2>1. s.at \in Indexes /\ s.prev \in Indexes
    BY <1>1 DEF Sync
  <2>2. type \in {"SYNC_FAILED", "SYNCED"}
    OBVIOUS
  <2>3. events' = [events EXCEPT ![n] = Posted(events[n], type, s.at, s.prev)]
    BY <1>3
  <2> HIDE DEF type
  <2>4. [type |-> type, at |-> s.at, prev |-> s.prev] \in Job
    BY <2>1, <2>2 DEF Job
  <2>5. NewJob(n, [type |-> type, at |-> s.at, prev |-> s.prev])
    BY <2>2 DEF NewJob
  <2> QED BY <1>1, <2>1, <2>3, <2>4, <2>5, JobPosted
<1> QED BY <1>2, <1>3 DEF Fail

\* What a step queues.
LEMMA JobsStepped ==
  ASSUME IInv, [Next]_vars
  PROVE  JobsStep
<1>0. \A n \in Nodes : events[n] \in Seq(Job) /\ view[n] \in Indexes
  BY DEF IInv, TypeOK, LifecycleOK
<1>1. CASE ElectMaster \/ ChangeBackups \/ LoseMaster
  BY <1>1, QueuesKept
     DEF ElectMaster, ChangeBackups, LoseMaster, AddInfo, lifecycle
<1>2. ASSUME NEW n \in Nodes, OnReplicaInfoChange(n) PROVE JobsStep
  <2> DEFINE at == view[n] + 1
  <2>1. /\ at <= Len(infos) /\ view' = [view EXCEPT ![n] = at]
        /\ \/ UNCHANGED events
           \/ \E type \in {"TERM_START", "TERM_UPDATE"} : Post(n, type, at)
    BY <1>2 DEF OnReplicaInfoChange
  <2>2. at \in Indexes
    BY <1>0, <2>1, IndexFacts DEF Indexes, IInv
  <2>3. view'[n] = at
    BY <2>1 DEF IInv, TypeOK, LifecycleOK
  <2> HIDE DEF at
  <2>4. ASSUME NEW type \in {"TERM_START", "TERM_UPDATE"}, Post(n, type, at)
        PROVE  JobsStep
    <3>1. [type |-> type, at |-> at, prev |-> 0] \in Job
      BY <2>2 DEF Job
    <3>2. NewJob(n, [type |-> type, at |-> at, prev |-> 0])
      BY <2>3 DEF NewJob
    <3>3. events' = [events EXCEPT ![n] = Posted(events[n], type, at, 0)]
      BY <2>4 DEF Post
    <3> QED BY <1>0, <2>2, <3>1, <3>2, <3>3, JobPosted
  <2> QED BY <2>1, <2>4, QueuesKept
<1>3. ASSUME NEW n \in Nodes, OnActivate(n) PROVE JobsStep
  <2>1. UNCHANGED events
        \/ events' = [events EXCEPT ![n] =
                        Posted(events[n], "TERM_ACTIVE", Len(infos), 0)]
    BY <1>3 DEF OnActivate, Post
  <2>2. Len(infos) \in Indexes
    BY IndexFacts DEF IInv
  <2>3. [type |-> "TERM_ACTIVE", at |-> Len(infos), prev |-> 0] \in Job
    BY <2>2 DEF Job
  <2>4. NewJob(n, [type |-> "TERM_ACTIVE", at |-> Len(infos), prev |-> 0])
    BY DEF NewJob
  <2> QED BY <1>0, <2>1, <2>2, <2>3, <2>4, JobPosted, QueuesKept
<1>4. ASSUME NEW n \in Nodes, StartTerm(n) PROVE JobsStep
  <2>1. NextJob(n, "TERM_START")
    BY <1>4 DEF StartTerm
  <2>2. Head(events[n]).at \in Indexes
    BY <2>1, JobFacts DEF IInv
  <2>3. Done(n) \/ \E peers, prev, onMaster :
          SyncFlowsOn(n, peers, Head(events[n]).at, prev, onMaster)
    BY <1>4 DEF StartTerm, SyncFlowsOnBackups
  <2> QED BY <2>1, <2>2, <2>3, JobDone, SyncJobs
<1>5. ASSUME NEW n \in Nodes, FallBack(n) PROVE JobsStep
  <2>1. NextJob(n, "SYNC_FAILED")
    BY <1>5 DEF FallBack
  <2>2. Head(events[n]).at \in Indexes
    BY <2>1, JobFacts DEF IInv
  <2>3. \E peers, prev, onMaster :
          SyncFlowsOn(n, peers, Head(events[n]).at, prev, onMaster)
    BY <1>5 DEF FallBack, SyncFlowsOnBackups
  <2> QED BY <2>1, <2>2, <2>3, SyncJobs
<1>6. ASSUME NEW n \in Nodes,
             UpdateTerm(n) \/ ActivateTerm(n) \/ ActivateMaster(n)
      PROVE  JobsStep
  BY <1>6, JobDone DEF UpdateTerm, ActivateTerm, ActivateMaster
<1>7. ASSUME NEW n \in Nodes, SyncDigestsAnswered(n) \/ SyncBucketAnswered(n)
      PROVE  JobsStep
  <2>1. UNCHANGED events \/ \E m \in msgs : Succeed(n, m.at)
    BY <1>7 DEF SyncDigestsAnswered, SyncBucketAnswered
  <2> QED BY <2>1, SucceedJobs, QueuesKept
<1>8. ASSUME NEW n \in Nodes, NEW m \in msgs, TimeOut(n, m)
      PROVE  JobsStep
  <2>1. UNCHANGED events \/ \E p : Fail(n, m.at, p)
    BY <1>8 DEF TimeOut
  <2> QED BY <2>1, FailJobs, QueuesKept
<1>9. ASSUME NEW n \in Nodes,
             \/ RunEnqueued(n) \/ FinishActivation(n) \/ RunAntiEntropy(n)
             \/ AskDigests(n) \/ OnBackup(n) \/ OnGetDigests(n) \/ OnGetBucket(n)
             \/ BackupAnswered(n) \/ DigestsAnswered(n)
      PROVE  JobsStep
  BY <1>9, QueuesKept DEF RunEnqueued, FinishActivation, RunAntiEntropy,
     AskDigests, OnBackup, OnGetDigests, OnGetBucket, BackupAnswered,
     DigestsAnswered, lifecycle
<1>10. ASSUME NEW n \in Nodes, Client(n) PROVE JobsStep
  BY <1>10, QueuesKept DEF Client, RunInTerm, BeginWrite, Apply, Enqueue,
     AddToTaken, Purge, lifecycle
<1>11. CASE UNCHANGED vars
  BY <1>11, QueuesKept DEF vars, lifecycle
<1>12. ASSUME NEW n \in Nodes, Executor(n) PROVE JobsStep
  BY <1>4, <1>5, <1>6, <1>7, <1>9, <1>12 DEF Executor
<1> QED BY <1>1, <1>2, <1>3, <1>7, <1>8, <1>10, <1>11, <1>12 DEF Next

\* A node that starts to synchronize has been master.
LEMMA StarterWasMaster ==
  ASSUME IInv, SyncsByMasters, NEW n \in Nodes,
         \/ StartTerm(n) /\ infos[Head(events[n]).at].master = n
         \/ FallBack(n)
  PROVE  ~NeverMaster(n)
<1> DEFINE job == Head(events[n])
<1>1. /\ events[n] \in Seq(Job) /\ events[n] # <<>>
      /\ job.type \in {"TERM_START", "SYNC_FAILED"}
      /\ job.type = "TERM_START" => infos[job.at].master = n
  BY DEF IInv, TypeOK, LifecycleOK, StartTerm, FallBack, NextJob
<1>2. job \in Elements(events[n]) /\ job \in Job
  BY <1>1, ElementsOfTail
<1>3. MasteredJob(n, job)
  BY <1>2 DEF SyncsByMasters
<1>4. job.at \in Indexes /\ view[n] \in Indexes /\ Indexes \subseteq Nat \ {0}
  BY <1>2, IndexFacts DEF Job, IInv, TypeOK, LifecycleOK
<1> HIDE DEF job
<1>5. CASE job.type = "TERM_START"
  <2>1. job.at \in Nat /\ job.at # 0 /\ view[n] \in Nat /\ job.at <= view[n]
    BY <1>3, <1>4, <1>5 DEF MasteredJob
  <2>2. job.at \in 1..view[n]
    BY <2>1
  <2> QED BY <1>1, <1>5, <2>2 DEF NeverMaster
<1> QED BY <1>1, <1>3, <1>5 DEF MasteredJob

\* A synchronization that is under way was, or its node has been master.
SyncsStep ==
  \A x \in Nodes : syncs'[x] # {} => syncs[x] # {} \/ ~NeverMaster(x)

\* Steps that start no synchronization.
LEMMA SyncsKept ==
  ASSUME IInv, NEW n \in Nodes,
         \/ UNCHANGED syncs
         \/ \E at : Succeed(n, at)
         \/ \E at, p : Fail(n, at, p)
  PROVE  SyncsStep
<1>0. syncs \in [Nodes -> SUBSET Sync]
  BY DEF IInv, TypeOK
<1>1. CASE UNCHANGED syncs
  BY <1>1 DEF SyncsStep
<1>2. ASSUME NEW at, Succeed(n, at) PROVE SyncsStep
  BY <1>0, <1>2 DEF Succeed, SyncsStep
<1>3. ASSUME NEW at, NEW p, Fail(n, at, p) PROVE SyncsStep
  <2> DEFINE hit == {s \in syncs[n] : s.at = at /\ p \in s.left}
             out == {s \in hit : s.left = {p}}
             left == (syncs[n] \ hit) \cup
                     {[s EXCEPT !.left = @ \ {p}] : s \in hit \ out}
  <2>1. syncs' = [syncs EXCEPT ![n] = left]
    BY <1>3 DEF Fail
  <2>2. left # {} => syncs[n] # {}
    OBVIOUS
  <2> HIDE DEF left
  <2> QED BY <1>0, <2>1, <2>2 DEF SyncsStep
<1> QED BY <1>1, <1>2, <1>3

\* Only masters start a synchronization.
LEMMA SyncsStepped ==
  ASSUME IInv, SyncsByMasters, [Next]_vars
  PROVE  SyncsStep
<1>0. syncs \in [Nodes -> SUBSET Sync]
  BY DEF IInv, TypeOK
<1>1. CASE UNCHANGED syncs
  BY <1>1 DEF SyncsStep
<1>2. CASE ElectMaster \/ ChangeBackups \/ LoseMaster
  BY <1>1, <1>2 DEF ElectMaster, ChangeBackups, LoseMaster, AddInfo
<1>3. ASSUME NEW n \in Nodes, StartTerm(n) \/ FallBack(n)
      PROVE  SyncsStep
  <2>1. CASE UNCHANGED syncs
    BY <1>1, <2>1
  <2>2. ASSUME ~NeverMaster(n), NEW new, syncs' = [syncs EXCEPT ![n] = new]
        PROVE  SyncsStep
    BY <1>0, <2>2 DEF SyncsStep
  <2>3. \/ UNCHANGED syncs
        \/ /\ infos[Head(events[n]).at].master = n \/ FallBack(n)
           /\ \E new : syncs' = [syncs EXCEPT ![n] = new]
    BY <1>3 DEF StartTerm, FallBack, SyncFlowsOnBackups, SyncFlowsOn
  <2> QED BY <1>3, <2>1, <2>2, <2>3, StarterWasMaster
<1>4. ASSUME NEW n \in Nodes, SyncDigestsAnswered(n) \/ SyncBucketAnswered(n)
      PROVE  SyncsStep
  BY <1>4, SyncsKept DEF SyncDigestsAnswered, SyncBucketAnswered
<1>5. ASSUME NEW n \in Nodes, NEW m \in msgs, TimeOut(n, m)
      PROVE  SyncsStep
  BY <1>5, SyncsKept DEF TimeOut
<1>6. ASSUME NEW n \in Nodes,
             \/ OnReplicaInfoChange(n) \/ OnActivate(n) \/ UpdateTerm(n)
             \/ ActivateTerm(n) \/ ActivateMaster(n) \/ RunEnqueued(n)
             \/ FinishActivation(n)
      PROVE  SyncsStep
  BY <1>1, <1>6 DEF OnReplicaInfoChange, OnActivate, UpdateTerm, ActivateTerm,
     ActivateMaster, RunEnqueued, FinishActivation
<1>7. ASSUME NEW n \in Nodes,
             \/ RunAntiEntropy(n) \/ AskDigests(n) \/ OnBackup(n)
             \/ OnGetDigests(n) \/ OnGetBucket(n) \/ BackupAnswered(n)
             \/ DigestsAnswered(n)
      PROVE  SyncsStep
  BY <1>1, <1>7 DEF RunAntiEntropy, AskDigests, OnBackup, OnGetDigests,
     OnGetBucket, BackupAnswered, DigestsAnswered
<1>8. ASSUME NEW n \in Nodes, Client(n) PROVE SyncsStep
  BY <1>1, <1>8 DEF Client, RunInTerm, BeginWrite, Apply, Enqueue, AddToTaken,
     Purge
<1>9. CASE UNCHANGED vars
  BY <1>1, <1>9 DEF vars
<1>10. ASSUME NEW n \in Nodes, Executor(n) PROVE SyncsStep
  BY <1>3, <1>4, <1>6, <1>7, <1>10 DEF Executor
<1> QED BY <1>2, <1>4, <1>5, <1>6, <1>8, <1>9, <1>10 DEF Next

\* A message that answers, or is, one that was on the wire.
Echo(x, m) ==
  /\ Requester(x) = Requester(m) /\ x.type = m.type /\ x.at = m.at
  /\ x.type = "backup" => x.load = m.load

\* A request that is new: anti-entropy's, a master's for synchronization, or a
\* backup of the sender's bucket in the sender's term (startBackup).
Fresh(x) ==
  /\ ~x.reply
  /\ x.from \in Nodes
  /\ \/ x.type = "digests" /\ x.at = 0
     \/ x.type \in {"digests", "bucket"} /\ ~NeverMaster(x.from)
     \/ /\ x.type = "backup" /\ x.at = 0
        /\ x.load = bucket[x.from]
        /\ x.load.term = Info(x.from)'.term

MessagesStep == \A x \in msgs' : (\E m \in msgs : Echo(x, m)) \/ Fresh(x)

\* Steps that send nothing.
LEMMA NothingSent ==
  ASSUME msgs' \subseteq msgs
  PROVE  MessagesStep
  BY DEF MessagesStep, Echo

\* Answers go to the node that asked.
LEMMA AnswerEchoes ==
  ASSUME NEW n, NEW m \in msgs, NEW type, IsRequest(n, m, type), NEW load,
         NEW ok, Answer(n, m, load, ok), type = "backup" => load = m.load
  PROVE  MessagesStep
<1>1. ASSUME NEW x \in msgs' PROVE \E y \in msgs : Echo(x, y)
  <2>1. CASE x \in msgs
    BY <2>1 DEF Echo
  <2>2. CASE Answers(x, n, m, load, ok)
    BY <2>2 DEF Answers, Echo, Requester, IsRequest
  <2> QED BY <2>1, <2>2, AnsweredMessages
<1> QED BY <1>1 DEF MessagesStep

\* Where the messages of a step come from.
LEMMA MessagesStepped ==
  ASSUME IInv, SyncsByMasters, [Next]_vars
  PROVE  MessagesStep
<1>1. CASE UNCHANGED msgs
  BY <1>1, NothingSent
<1>2. CASE ElectMaster \/ ChangeBackups \/ LoseMaster
  BY <1>1, <1>2 DEF ElectMaster, ChangeBackups, LoseMaster, AddInfo, net
<1>3. ASSUME NEW n \in Nodes, StartTerm(n) \/ FallBack(n)
      PROVE  MessagesStep
  <2>1. CASE UNCHANGED net
    BY <1>1, <2>1 DEF net
  <2>2. ASSUME ~NeverMaster(n), NEW peers, NEW at, NEW prev, NEW onMaster,
               SyncFlowsOn(n, peers, at, prev, onMaster)
        PROVE  MessagesStep
    <3>1. ASSUME NEW x \in msgs' PROVE x \in msgs \/ Fresh(x)
      BY <2>2, <3>1, SyncMessages DEF Asks, Fresh
    <3> QED BY <3>1 DEF MessagesStep, Echo
  <2>3. \/ UNCHANGED net
        \/ /\ infos[Head(events[n]).at].master = n \/ FallBack(n)
           /\ \E peers, at, prev, onMaster :
                SyncFlowsOn(n, peers, at, prev, onMaster)
    BY <1>3 DEF StartTerm, FallBack, SyncFlowsOnBackups
  <2> QED BY <1>3, <2>1, <2>2, <2>3, StarterWasMaster
<1>4. ASSUME NEW n \in Nodes, AskDigests(n) PROVE MessagesStep
  <2>1. PICK r \in rounds[n] : Send(n, {r.peer}, "digests", 0, EmptyBucket)
    BY <1>4 DEF AskDigests
  <2>2. ASSUME NEW x \in msgs' PROVE x \in msgs \/ Fresh(x)
    BY <2>1, SentMessages DEF Asks, Fresh
  <2> QED BY <2>2 DEF MessagesStep, Echo
<1>5. ASSUME NEW n \in Nodes, RunAntiEntropy(n) PROVE MessagesStep
  <2> DEFINE started == {m \in Info(n).backups : startBackup(n, m)}
  <2>1. Send(n, started, "backup", 0, bucket[n]) /\ UNCHANGED <<infos, view>>
    BY <1>5 DEF RunAntiEntropy, mastership, lifecycle
  <2>2. started # {} => bucket[n].term = Info(n)'.term
    BY <2>1 DEF startBackup, Info
  <2> HIDE DEF started
  <2>3. ASSUME NEW x \in msgs' PROVE x \in msgs \/ Fresh(x)
    BY <2>1, <2>2, SentMessages DEF Asks, Fresh
  <2> QED BY <2>3 DEF MessagesStep, Echo
<1>6. ASSUME NEW n \in Nodes, OnBackup(n) \/ OnGetDigests(n) \/ OnGetBucket(n)
      PROVE  MessagesStep
  <2>1. CASE OnBackup(n)
    BY <2>1, AnswerEchoes DEF OnBackup
  <2>2. ASSUME NEW m \in msgs, NEW type \in {"digests", "bucket"}, NEW load,
               IsRequest(n, m, type), Answer(n, m, load, TRUE)
        PROVE  MessagesStep
    <3>1. type # "backup"
      BY <2>2
    <3> QED BY <2>2, <3>1, AnswerEchoes
  <2>3. CASE OnGetDigests(n)
    BY <2>2, <2>3 DEF OnGetDigests
  <2>4. CASE OnGetBucket(n)
    BY <2>2, <2>4 DEF OnGetBucket
  <2> QED BY <1>6, <2>1, <2>3, <2>4
<1>7. ASSUME NEW n \in Nodes,
             BackupAnswered(n) \/ DigestsAnswered(n) \/ SyncBucketAnswered(n)
      PROVE  MessagesStep
  BY <1>7, NothingSent, AcceptedMessages
     DEF BackupAnswered, DigestsAnswered, SyncBucketAnswered
<1>8. ASSUME NEW n \in Nodes, SyncDigestsAnswered(n) PROVE MessagesStep
  <2>1. ASSUME NEW x \in msgs' PROVE x \in msgs \/ Fresh(x)
    <3>1. ASSUME NEW m \in msgs, IsAnswer(n, m, "digests"), m.at > 0,
                 Asks(x, n, "bucket", m.at, EmptyBucket)
          PROVE  Fresh(x)
      <4>1. ~NeverMaster(n)
        BY <3>1 DEF SyncsByMasters, IsAnswer, Requester
      <4> QED BY <3>1, <4>1 DEF Asks, Fresh
    <3> QED BY <1>8, <3>1, SyncDigestsMessages
  <2> QED BY <2>1 DEF MessagesStep, Echo
<1>9. ASSUME NEW n \in Nodes, NEW m \in msgs, TimeOut(n, m) PROVE MessagesStep
  <2>1. ASSUME NEW x \in msgs' PROVE \E y \in msgs : Echo(x, y)
    BY <1>9, TimedOutMessages DEF Echo, Requester
  <2> QED BY <2>1 DEF MessagesStep
<1>10. ASSUME NEW n \in Nodes,
             \/ OnReplicaInfoChange(n) \/ OnActivate(n) \/ UpdateTerm(n)
             \/ ActivateTerm(n) \/ ActivateMaster(n) \/ RunEnqueued(n)
             \/ FinishActivation(n)
      PROVE  MessagesStep
  BY <1>1, <1>10 DEF OnReplicaInfoChange, OnActivate, UpdateTerm, ActivateTerm,
     ActivateMaster, RunEnqueued, FinishActivation, net
<1>11. ASSUME NEW n \in Nodes, Client(n) PROVE MessagesStep
  BY <1>1, <1>11 DEF Client, RunInTerm, BeginWrite, Apply, Enqueue, AddToTaken,
     Purge, net
<1>12. CASE UNCHANGED vars
  BY <1>1, <1>12 DEF vars, net
<1>13. ASSUME NEW n \in Nodes, Executor(n) PROVE MessagesStep
  BY <1>3, <1>4, <1>5, <1>6, <1>7, <1>10, <1>13 DEF Executor
<1> QED BY <1>2, <1>8, <1>9, <1>10, <1>11, <1>12, <1>13 DEF Next

\* No step lets a node that has never been master synchronize.
LEMMA SyncsPreserved ==
  ASSUME IInv, SyncsByMasters, [Next]_vars
  PROVE  SyncsByMasters'
<1>1. HistoryGrows /\ JobsStep /\ SyncsStep /\ MessagesStep
  BY HistoriesGrow, JobsStepped, SyncsStepped, MessagesStepped
<1>2. \A n \in Nodes : ~NeverMaster(n) => ~NeverMaster(n)'
  BY <1>1, MasterKept
<1>3. \A n \in Nodes : view[n] \in Nat /\ view'[n] \in Nat /\ view'[n] >= view[n]
  <2>1. \A n \in Nodes : view[n] \in Indexes
    BY DEF IInv, TypeOK, LifecycleOK
  <2> QED BY <1>1, <2>1, IndexFacts DEF HistoryGrows, IInv
<1>4. ASSUME NEW n \in Nodes, NEW job \in Elements(events'[n])
      PROVE  MasteredJob(n, job)'
  <2>1. CASE job \in Elements(events[n])
    <3>1. MasteredJob(n, job) /\ job.at \in Nat
      <4>1. events[n] \in Seq(Job)
        BY DEF IInv, TypeOK, LifecycleOK
      <4>2. job \in Job
        BY <2>1, <4>1, ElementsTyped
      <4>3. job.at \in Indexes
        BY <4>2 DEF Job
      <4> QED BY <2>1, <4>3, IndexFacts DEF SyncsByMasters, IInv
    <3> QED BY <1>2, <1>3, <3>1 DEF MasteredJob
  <2>2. CASE NewJob(n, job)
    <3>1. job.type = "TERM_START" => job.at = view'[n]
      BY <2>2 DEF NewJob
    <3>2. job.type = "SYNC_FAILED" => ~NeverMaster(n)'
      BY <1>2, <2>2 DEF NewJob, SyncsByMasters
    <3> QED BY <1>3, <3>1, <3>2 DEF MasteredJob
  <2> QED BY <1>1, <1>4, <2>1, <2>2 DEF JobsStep
<1>5. ASSUME NEW n \in Nodes, syncs'[n] # {}
      PROVE  ~NeverMaster(n)'
  BY <1>1, <1>2, <1>5 DEF SyncsStep, SyncsByMasters
<1>6. ASSUME NEW x \in msgs', x.at > 0 \/ x.type = "bucket"
      PROVE  ~NeverMaster(Requester(x))'
  <2>1. ASSUME NEW m \in msgs, Echo(x, m)
        PROVE  ~NeverMaster(Requester(x))'
    <3>1. Requester(x) = Requester(m) /\ Requester(m) \in Nodes
      BY <2>1, RequesterFacts DEF Echo
    <3>2. m.at > 0 \/ m.type = "bucket"
      BY <1>6, <2>1 DEF Echo
    <3>3. ~NeverMaster(Requester(m))
      BY <3>2 DEF SyncsByMasters
    <3> QED BY <1>2, <3>1, <3>3
  <2>2. CASE Fresh(x)
    <3>1. x.from \in Nodes /\ Requester(x) = x.from
      BY <2>2 DEF Fresh, Requester
    <3>2. ~NeverMaster(x.from)
      <4>1. ~(x.type \in {"digests", "backup"} /\ x.at = 0)
        BY <1>6
      <4> QED BY <2>2, <4>1 DEF Fresh
    <3> QED BY <1>2, <3>1, <3>2
  <2> QED BY <1>1, <2>1, <2>2 DEF MessagesStep
<1> QED BY <1>4, <1>5, <1>6 DEF SyncsByMasters, Requester

-----------------------------------------------------------------------------
(* What a backup's time says about the copies of the master's term *)

\* Every copy of node n's current term is later than the time.
Later(n, time) == \A c \in Copies : c.term = Info(n).term => time < c.ts

\* The infos a node has seen, before and after a step.
LEMMA SeenInfos ==
  ASSUME IInv, HistoryGrows, IInv', NEW n \in Nodes
  PROVE  /\ view[n] \in Indexes /\ view[n] \in Nat \ {0}
         /\ view'[n] \in Indexes' /\ view'[n] \in Nat \ {0}
         /\ view[n] \in Indexes' /\ view'[n] >= view[n]
         /\ \A i \in 1..view[n] : i \in Indexes /\ i \in Indexes'
                                  /\ i \in 1..view'[n] /\ infos'[i] = infos[i]
         /\ \A i \in 1..view'[n] : i \in Indexes'
         /\ infos'[view[n]] = Info(n)
         /\ infos'[view'[n]] = Info(n)'
         /\ Info(n).term \in Nat /\ Info(n)'.term \in Nat
<1>1. view[n] \in Indexes /\ Indexes \subseteq Nat \ {0} /\ Len(infos) \in Nat
  BY IndexFacts DEF IInv, TypeOK, LifecycleOK
<1>2. view'[n] \in Indexes' /\ Indexes' \subseteq Nat \ {0} /\ Len(infos') \in Nat
  <2>1. infos' \in Seq(ReplicaInfo) /\ view' \in [Nodes -> Indexes']
    BY DEF IInv, TypeOK, MastershipOK, LifecycleOK
  <2>2. Len(infos') \in Nat
    BY <2>1, LenProperties
  <2> QED BY <2>1, <2>2 DEF Indexes
<1>3. /\ Indexes \subseteq Indexes' /\ view'[n] >= view[n]
      /\ \A i \in Indexes : infos'[i] = infos[i]
  BY DEF HistoryGrows
<1>4. view[n] \in Nat \ {0} /\ view'[n] \in Nat \ {0}
  BY <1>1, <1>2
<1>5. ASSUME NEW i \in 1..view[n]
      PROVE  i \in Indexes /\ i \in Indexes' /\ i \in 1..view'[n]
             /\ infos'[i] = infos[i]
  <2>1. i \in Indexes
    BY <1>1, <1>4 DEF Indexes
  <2>2. i \in 1..view'[n]
    BY <1>3, <1>4
  <2> QED BY <1>3, <2>1, <2>2
<1>6. ASSUME NEW i \in 1..view'[n] PROVE i \in Indexes'
  BY <1>2, <1>4 DEF Indexes
<1>7. infos'[view[n]] = Info(n) /\ infos'[view'[n]] = Info(n)'
  BY <1>1, <1>3 DEF Info
<1>8. Info(n).term \in Nat /\ Info(n)'.term \in Nat
  <2>1. infos[view[n]] \in ReplicaInfo
    BY <1>1, InfoFacts DEF IInv
  <2>2. infos'[view'[n]] \in ReplicaInfo
    <3>1. infos' \in Seq(ReplicaInfo)
      BY DEF IInv, TypeOK, MastershipOK
    <3> QED BY <1>2, <3>1, ElementOfSeq DEF Indexes
  <2> QED BY <2>1, <2>2 DEF Info, ReplicaInfo
<1> QED BY <1>1, <1>2, <1>3, <1>4, <1>5, <1>6, <1>7, <1>8

\* When a node is master, it was master of the same term before the step, or
\* there is no copy of its term yet.
LEMMA MasterStep ==
  ASSUME OInv, [Next]_vars, NEW n \in Nodes, Info(n)'.master = n
  PROVE  \/ Info(n)'.term = Info(n).term /\ Info(n).master = n
         \/ \A c \in Copies' : c.term # Info(n)'.term
<1>1. IInv /\ HistoryGrows /\ OInv' /\ IInv'
  BY HistoriesGrow, NextOInv DEF OInv
<1>2. /\ view[n] \in Nat \ {0} /\ view'[n] \in Nat \ {0}
      /\ view[n] \in Indexes' /\ view'[n] \in Indexes' /\ view'[n] >= view[n]
      /\ infos'[view[n]] = Info(n) /\ infos'[view'[n]] = Info(n)'
      /\ Info(n).term \in Nat /\ Info(n)'.term \in Nat
  BY <1>1, SeenInfos
<1>3. /\ \A i \in Indexes' : infos'[i].master # NoNode => infos'[i].term > 0
      /\ \A i, j \in Indexes' :
           infos'[i].term = infos'[j].term /\ infos'[i].term > 0
           => infos'[i].master = infos'[j].master
      /\ \A i, j, k \in Indexes' :
           i <= k /\ k <= j /\ infos'[i].term = infos'[j].term
           /\ infos'[i].term > 0
           => infos'[k].term = infos'[i].term
  BY <1>1 DEF OInv, TermsCounted, TermsContiguous, TermOf
<1>4. n # NoNode /\ Info(n)'.term > 0
  <2>1. n # NoNode
    BY ConstantsAssumption
  <2> QED BY <1>2, <1>3, <2>1
<1>5. CASE Info(n)'.term = Info(n).term
  <2>1. Info(n).master = n
    BY <1>2, <1>3, <1>4, <1>5
  <2> QED BY <1>5, <2>1
<1>6. CASE Info(n)'.term # Info(n).term
  <2>1. view'[n] # view[n]
    BY <1>2, <1>6
  <2>2. PICK x \in Nodes : OnReplicaInfoChange(x)
    BY <2>1, HistoryFrame
       DEF HistoryFramed, ElectMaster, ChangeBackups, LoseMaster, AddInfo,
           lifecycle
  <2>3. Copies' = Copies
    BY <2>2 DEF OnReplicaInfoChange, store, net, Copies
  <2>4. ASSUME NEW c \in Copies, c.term = Info(n)'.term
        PROVE  FALSE
    <3>1. PICK y \in Nodes : OwnsTerm(y, c.term)
      BY <1>4, <2>4 DEF OInv, CopiesOwned, WrittenByOwner
    <3>2. PICK i \in 1..view[y] : infos[i].term = c.term /\ infos[i].master = y
      BY <3>1 DEF OwnsTerm, TermOf
    <3>3. i \in Indexes' /\ infos'[i] = infos[i]
      BY <1>1, SeenInfos
    <3>4. y = n
      BY <1>2, <1>3, <1>4, <2>4, <3>2, <3>3
    <3>5. i <= view[n]
      BY <1>2, <3>4
    <3> QED BY <1>2, <1>3, <1>4, <1>6, <2>4, <3>2, <3>3, <3>5
  <2> QED BY <2>3, <2>4
<1> QED BY <1>5, <1>6

\* Times stay before all copies of the term: copies keep their digests, and a
\* write is later than the clock.
LEMMA LaterStep ==
  ASSUME OInv, [Next]_vars, NEW n \in Nodes, NEW time \in Nat,
         time <= clock[n], Info(n)'.master = n,
         Info(n).master = n => Later(n, time)
  PROVE  Later(n, time)'
<1>1. IInv /\ TasksOwned /\ TermsCounted /\ TermsContiguous
  BY DEF OInv
<1>2. CASE \A c \in Copies' : c.term # Info(n)'.term
  BY <1>2 DEF Later
<1>3. CASE Info(n)'.term = Info(n).term /\ Info(n).master = n
  <2>1. \A c \in Copies : c.term = Info(n).term => time < c.ts
    BY <1>3 DEF Later
  <2>2. OwnsTerm(n, Info(n).term)
    BY <1>1, <1>3, MasterOwns
  <2>3. Info(n).term \in Nat \ {0}
    BY <1>1, <2>2, OneOwner
  <2>4. CASE \A c \in Copies' : Traced(c)
    <3>1. ASSUME NEW c \in Copies', c.term = Info(n).term PROVE time < c.ts
      <4>1. c # EmptyBucket
        BY <2>3, <3>1 DEF EmptyBucket
      <4> QED BY <2>1, <2>4, <3>1, <4>1 DEF Traced
    <3> QED BY <1>3, <3>1 DEF Later
  <2>5. ASSUME NEW x \in Nodes, NEW t \in Task, Wrote(x, t)
        PROVE  Later(n, time)'
    <3> DEFINE b == bucket'[x]
    <3>1. /\ b.term = t.term /\ b.ts = clock[x] + 1 /\ clock[x] \in Nat
          /\ \A c \in Copies' : c \in Copies \/ c = b
      BY <1>1, <2>5, WroteFacts
    <3> HIDE DEF b
    <3>2. b.term = Info(n).term => time < b.ts
      <4>1. ASSUME b.term = Info(n).term PROVE x = n
        BY <1>1, <2>2, <2>5, <3>1, <4>1, OneOwner DEF Wrote
      <4> QED BY <3>1, <4>1
    <3> QED BY <1>3, <2>1, <3>1, <3>2 DEF Later
  <2> QED BY <1>1, <2>4, <2>5, CopiesStep
<1> QED BY <1>2, <1>3, MasterStep

-----------------------------------------------------------------------------
(* What a step does to a backup's bucket, to backup times and to answers *)

\* Node m's bucket keeps its digest, or becomes a newer one of m's term.
BackupStep(m) ==
  \/ bucket'[m].term = bucket[m].term /\ bucket'[m].ts = bucket[m].ts
  \/ bucket'[m].term = Info(m).term /\ isNewerThan(bucket'[m], bucket[m])

\* A node that has never been master changes its bucket only for a backup of
\* its term, where the cluster is no larger than the set of replicas and no
\* table is cleared.
LEMMA BackupStepped ==
  ASSUME IInv, TasksOwned, SyncsByMasters, [Next]_vars,
         Cardinality(Nodes) <= 1 + BackupCount,
         NEW m \in Nodes, NeverMaster(m)
  PROVE  BackupStep(m)
<1>0. bucket \in [Nodes -> Bucket]
  BY DEF IInv, TypeOK, StoreOK
<1>1. CASE UNCHANGED bucket
  BY <1>1 DEF BackupStep
<1>2. ASSUME NEW n \in Nodes, n # m, NEW b, bucket' = [bucket EXCEPT ![n] = b]
      PROVE  BackupStep(m)
  BY <1>0, <1>2 DEF BackupStep
<1>3. ~ \E term : OwnsTerm(m, term)
  BY OwnerWasMaster
<1>4. ASSUME NEW n \in Nodes, NEW t, Run(n, t), OwnsTerm(n, t.term)
      PROVE  BackupStep(m)
  <2>1. n # m
    BY <1>3, <1>4
  <2>2. UNCHANGED bucket \/ \E b : bucket' = [bucket EXCEPT ![n] = b]
    BY <1>4 DEF Run
  <2> QED BY <1>1, <1>2, <2>1, <2>2
<1>5. ASSUME NEW n \in Nodes, RunEnqueued(n) PROVE BackupStep(m)
  <2>1. drain[n] # <<>> /\ Run(n, Head(drain[n]))
    BY <1>5 DEF RunEnqueued
  <2>2. drain[n] \in Seq(Task) /\ QueueOwned(n, drain[n])
    BY HeldTasks
  <2>3. OwnsTerm(n, Head(drain[n]).term)
    BY <2>1, <2>2, QueueFacts
  <2> QED BY <1>4, <2>1, <2>3
<1>6. ASSUME NEW n \in Nodes, Apply(n) PROVE BackupStep(m)
  <2>1. client[n] # NoTask /\ Run(n, client[n])
    BY <1>6 DEF Apply
  <2> QED BY <1>4, <2>1, HeldTasks
<1>7. ASSUME NEW n \in Nodes, UpdateTerm(n) \/ ActivateTerm(n)
      PROVE  BackupStep(m)
  <2>1. Cardinality(Nodes) \in Nat /\ BackupCount \in Nat
    BY ConstantsAssumption, FS_CardinalityType
  <2>2. \A i : ~MustClear(n, i)
    BY <2>1 DEF MustClear
  <2>3. UNCHANGED bucket
    BY <1>7, <2>2 DEF UpdateTerm, ActivateTerm
  <2> QED BY <1>1, <2>3
<1>8. ASSUME NEW n \in Nodes, Purge(n) PROVE BackupStep(m)
  <2>1. bucket' = [bucket EXCEPT ![n] = purge(bucket[n])]
    BY <1>8 DEF Purge
  <2>2. /\ purge(bucket[n]).term = bucket[n].term
        /\ purge(bucket[n]).ts = bucket[n].ts
    BY <1>0 DEF purge, Bucket
  <2>3. CASE n = m
    BY <1>0, <2>1, <2>2, <2>3 DEF BackupStep
  <2> QED BY <1>2, <2>1, <2>3
<1>9. ASSUME NEW n \in Nodes, OnBackup(n) PROVE BackupStep(m)
  <2>1. PICK y \in msgs : IF y.load.term = Info(n).term THEN compute(n, y.load)
                          ELSE UNCHANGED store
    BY <1>9 DEF OnBackup
  <2>2. \/ UNCHANGED bucket
        \/ /\ y.load.term = Info(n).term /\ isNewerThan(y.load, bucket[n])
           /\ bucket' = [bucket EXCEPT ![n] = y.load]
    BY <2>1 DEF compute, store
  <2>3. ASSUME n = m, bucket' # bucket PROVE BackupStep(m)
    <3>1. bucket'[m] = y.load
      BY <1>0, <2>2, <2>3
    <3> QED BY <2>2, <2>3, <3>1 DEF BackupStep
  <2> QED BY <1>1, <1>2, <2>2, <2>3
<1>10. ASSUME NEW n \in Nodes, SyncBucketAnswered(n) PROVE BackupStep(m)
  <2>1. PICK y \in msgs : IsAnswer(n, y, "bucket") /\ compute(n, y.load)
    BY <1>10 DEF SyncBucketAnswered
  <2>2. ~NeverMaster(n)
    BY <2>1 DEF SyncsByMasters, IsAnswer, Requester
  <2>3. UNCHANGED bucket \/ bucket' = [bucket EXCEPT ![n] = y.load]
    BY <2>1 DEF compute, store
  <2> QED BY <1>1, <1>2, <2>2, <2>3
<1>11. CASE ElectMaster \/ ChangeBackups \/ LoseMaster
  BY <1>1, <1>11 DEF ElectMaster, ChangeBackups, LoseMaster, AddInfo, store
<1>12. ASSUME NEW n \in Nodes,
              \/ OnReplicaInfoChange(n) \/ OnActivate(n) \/ StartTerm(n)
              \/ FallBack(n) \/ ActivateMaster(n) \/ FinishActivation(n)
              \/ RunAntiEntropy(n) \/ AskDigests(n)
       PROVE  BackupStep(m)
  BY <1>1, <1>12 DEF OnReplicaInfoChange, OnActivate, StartTerm, FallBack,
     ActivateMaster, FinishActivation, RunAntiEntropy, AskDigests, store
<1>13. ASSUME NEW n \in Nodes,
              \/ OnGetDigests(n) \/ OnGetBucket(n) \/ BackupAnswered(n)
              \/ DigestsAnswered(n) \/ SyncDigestsAnswered(n)
       PROVE  BackupStep(m)
  BY <1>1, <1>13 DEF OnGetDigests, OnGetBucket, BackupAnswered,
     DigestsAnswered, SyncDigestsAnswered, store
<1>14. ASSUME NEW n \in Nodes,
              RunInTerm(n) \/ BeginWrite(n) \/ Enqueue(n) \/ AddToTaken(n)
       PROVE  BackupStep(m)
  BY <1>1, <1>14 DEF RunInTerm, BeginWrite, Enqueue, AddToTaken
<1>15. ASSUME NEW n \in Nodes, NEW y \in msgs, TimeOut(n, y)
       PROVE  BackupStep(m)
  BY <1>1, <1>15 DEF TimeOut, store
<1>16. CASE UNCHANGED vars
  BY <1>1, <1>16 DEF vars, store
<1>17. ASSUME NEW n \in Nodes, Executor(n) PROVE BackupStep(m)
  BY <1>5, <1>7, <1>9, <1>10, <1>12, <1>13, <1>17 DEF Executor
<1>18. ASSUME NEW n \in Nodes, Client(n) PROVE BackupStep(m)
  BY <1>6, <1>8, <1>14, <1>18 DEF Client
<1> QED BY <1>11, <1>12, <1>13, <1>15, <1>16, <1>17, <1>18 DEF Next

\* Message x confirms a backup.
Confirms(x) == x.type = "backup" /\ x.reply /\ x.ok

\* The time node n keeps for backup m is what it was, or reset, or the time of
\* a bucket m has confirmed.
BackupTimeStep(n, m) ==
  \/ lastBackup'[n][m] \in {lastBackup[n][m], 0}
  \/ \E x \in msgs : /\ Confirms(x) /\ x.to = n /\ x.from = m
                     /\ lastBackup'[n][m] = x.load.ts

\* Only purge, succeedBackup and resetBackup touch lastBackupTimes.
LEMMA BackupTimeStepped ==
  ASSUME IInv, [Next]_vars, NEW n \in Nodes, NEW m \in Nodes
  PROVE  BackupTimeStep(n, m)
<1>0. lastBackup \in [Nodes -> [Nodes -> Nat]]
  BY DEF IInv, TypeOK, BackupsOK
<1>1. CASE UNCHANGED lastBackup
  BY <1>1 DEF BackupTimeStep
<1>2. ASSUME NEW k \in Nodes, NEW p, NEW time,
             lastBackup' = [lastBackup EXCEPT ![k][p] = time]
      PROVE  lastBackup'[n][m] = lastBackup[n][m]
             \/ (k = n /\ p = m /\ lastBackup'[n][m] = time)
  BY <1>0, <1>2
<1>3. ASSUME NEW k \in Nodes, Purge(k) PROVE BackupTimeStep(n, m)
  <2>1. lastBackup' = [lastBackup EXCEPT ![k] = [q \in Nodes |-> 0]]
    BY <1>3 DEF Purge
  <2> QED BY <1>0, <2>1 DEF BackupTimeStep
<1>4. ASSUME NEW k \in Nodes, BackupAnswered(k) PROVE BackupTimeStep(n, m)
  <2>1. PICK x \in msgs :
          /\ IsAnswer(k, x, "backup")
          /\ lastBackup' = IF x.ok
                           THEN [lastBackup EXCEPT ![k][x.from] = x.load.ts]
                           ELSE lastBackup
    BY <1>4 DEF BackupAnswered, Settle
  <2>2. CASE x.ok
    <3>1. \/ lastBackup'[n][m] = lastBackup[n][m]
          \/ k = n /\ x.from = m /\ lastBackup'[n][m] = x.load.ts
      BY <1>2, <2>1, <2>2
    <3> QED BY <2>1, <2>2, <3>1 DEF BackupTimeStep, Confirms, IsAnswer
  <2> QED BY <1>1, <2>1, <2>2
<1>5. ASSUME NEW k \in Nodes, DigestsAnswered(k) PROVE BackupTimeStep(n, m)
  <2>1. PICK x \in msgs :
          UNCHANGED lastBackup
          \/ lastBackup' = [lastBackup EXCEPT ![k][x.from] = 0]
    BY <1>5 DEF DigestsAnswered
  <2> QED BY <1>1, <1>2, <2>1 DEF BackupTimeStep
<1>6. CASE ElectMaster \/ ChangeBackups \/ LoseMaster
  BY <1>1, <1>6 DEF ElectMaster, ChangeBackups, LoseMaster, AddInfo, backups
<1>7. ASSUME NEW k \in Nodes,
             \/ OnReplicaInfoChange(k) \/ OnActivate(k) \/ StartTerm(k)
             \/ FallBack(k) \/ UpdateTerm(k) \/ ActivateTerm(k)
             \/ ActivateMaster(k) \/ RunEnqueued(k) \/ FinishActivation(k)
      PROVE  BackupTimeStep(n, m)
  BY <1>1, <1>7 DEF OnReplicaInfoChange, OnActivate, StartTerm, FallBack,
     UpdateTerm, ActivateTerm, ActivateMaster, RunEnqueued, FinishActivation,
     backups
<1>8. ASSUME NEW k \in Nodes,
             \/ RunAntiEntropy(k) \/ AskDigests(k) \/ OnBackup(k)
             \/ OnGetDigests(k) \/ OnGetBucket(k) \/ SyncDigestsAnswered(k)
             \/ SyncBucketAnswered(k)
      PROVE  BackupTimeStep(n, m)
  BY <1>1, <1>8 DEF RunAntiEntropy, AskDigests, OnBackup, OnGetDigests,
     OnGetBucket, SyncDigestsAnswered, SyncBucketAnswered, backups
<1>9. ASSUME NEW k \in Nodes,
             \/ RunInTerm(k) \/ BeginWrite(k) \/ Apply(k) \/ Enqueue(k)
             \/ AddToTaken(k)
      PROVE  BackupTimeStep(n, m)
  BY <1>1, <1>9 DEF RunInTerm, BeginWrite, Apply, Enqueue, AddToTaken, backups
<1>10. ASSUME NEW k \in Nodes, NEW x \in msgs, TimeOut(k, x)
       PROVE  BackupTimeStep(n, m)
  BY <1>1, <1>10 DEF TimeOut, Settle, backups
<1>11. CASE UNCHANGED vars
  BY <1>1, <1>11 DEF vars, backups
<1>12. ASSUME NEW k \in Nodes, Executor(k) PROVE BackupTimeStep(n, m)
  BY <1>4, <1>5, <1>7, <1>8, <1>12 DEF Executor
<1>13. ASSUME NEW k \in Nodes, Client(k) PROVE BackupTimeStep(n, m)
  BY <1>3, <1>9, <1>13 DEF Client
<1> QED BY <1>6, <1>7, <1>8, <1>10, <1>11, <1>12, <1>13 DEF Next

\* Message x is new and confirms a backup: its node had the term, and stored
\* the bucket or held one that is not older.
NewlyConfirms(x) ==
  /\ UNCHANGED <<infos, view>>
  /\ x.from \in Nodes
  /\ x.load.term = Info(x.from).term
  /\ \/ bucket'[x.from] = x.load
     \/ UNCHANGED bucket /\ ~isNewerThan(x.load, bucket[x.from])
  /\ \E y \in msgs : /\ y.type = "backup" /\ Requester(y) = x.to
                     /\ y.load = x.load

\* onBackup is where backups are confirmed.
LEMMA ConfirmStepped ==
  ASSUME IInv, [Next]_vars, NEW x \in msgs', Confirms(x)
  PROVE  x \in msgs \/ NewlyConfirms(x)
<1>1. CASE msgs' \subseteq msgs
  BY <1>1
<1>2. ASSUME NEW n \in Nodes, OnBackup(n) PROVE x \in msgs \/ NewlyConfirms(x)
  <2>1. PICK y \in msgs :
          /\ IsRequest(n, y, "backup")
          /\ Answer(n, y, y.load, y.load.term = Info(n).term)
          /\ IF y.load.term = Info(n).term THEN compute(n, y.load)
             ELSE UNCHANGED store
    BY <1>2 DEF OnBackup
  <2>2. CASE Answers(x, n, y, y.load, y.load.term = Info(n).term)
    <3>1. /\ x.from = n /\ x.to = y.from /\ x.load = y.load
          /\ y.load.term = Info(n).term
      BY <2>2 DEF Answers, Confirms
    <3>2. /\ y.type = "backup" /\ Requester(y) = x.to
          /\ y.load = x.load
      BY <2>1, <3>1 DEF IsRequest, Requester
    <3>3. \/ bucket'[n] = x.load
          \/ UNCHANGED bucket /\ ~isNewerThan(x.load, bucket[n])
      <4>1. bucket \in [Nodes -> Bucket] /\ compute(n, x.load)
        BY <2>1, <3>1 DEF IInv, TypeOK, StoreOK
      <4> QED BY <4>1 DEF compute, store
    <3>4. UNCHANGED <<infos, view>>
      BY <1>2 DEF OnBackup, mastership, lifecycle
    <3> QED BY <3>1, <3>2, <3>3, <3>4 DEF NewlyConfirms
  <2> QED BY <2>1, <2>2, AnsweredMessages
<1>3. ASSUME NEW n \in Nodes, OnGetDigests(n) \/ OnGetBucket(n)
      PROVE  x \in msgs
  <2>1. ASSUME NEW y \in msgs, NEW type, NEW load, type # "backup",
               IsRequest(n, y, type), Answer(n, y, load, TRUE)
        PROVE  x \in msgs
    <3>1. x \in msgs \/ Answers(x, n, y, load, TRUE)
      BY <2>1, AnsweredMessages
    <3> QED BY <2>1, <3>1 DEF Answers, IsRequest, Confirms
  <2>2. "digests" # "backup" /\ "bucket" # "backup"
    OBVIOUS
  <2>3. CASE OnGetDigests(n)
    BY <2>1, <2>2, <2>3 DEF OnGetDigests
  <2>4. CASE OnGetBucket(n)
    BY <2>1, <2>2, <2>4 DEF OnGetBucket
  <2> QED BY <1>3, <2>3, <2>4
<1>4. ASSUME NEW n \in Nodes, StartTerm(n) \/ FallBack(n) \/ AskDigests(n)
      PROVE  x \in msgs
  BY <1>4, DigestRequests DEF Asks, Confirms
<1>5. ASSUME NEW n \in Nodes, RunAntiEntropy(n) PROVE x \in msgs
  <2>1. \E peers : Send(n, peers, "backup", 0, bucket[n])
    BY <1>5 DEF RunAntiEntropy
  <2> QED BY <2>1, SentMessages DEF Asks, Confirms
<1>6. ASSUME NEW n \in Nodes,
             BackupAnswered(n) \/ DigestsAnswered(n) \/ SyncBucketAnswered(n)
      PROVE  x \in msgs
  BY <1>1, <1>6, AcceptedMessages
     DEF BackupAnswered, DigestsAnswered, SyncBucketAnswered
<1>7. ASSUME NEW n \in Nodes, SyncDigestsAnswered(n) PROVE x \in msgs
  BY <1>7, SyncDigestsMessages DEF Asks, Confirms
<1>8. ASSUME NEW n \in Nodes, NEW y \in msgs, TimeOut(n, y) PROVE x \in msgs
  BY <1>8, TimedOutMessages DEF Confirms
<1>9. CASE ElectMaster \/ ChangeBackups \/ LoseMaster
  BY <1>1, <1>9 DEF ElectMaster, ChangeBackups, LoseMaster, AddInfo, net
<1>10. ASSUME NEW n \in Nodes,
             \/ OnReplicaInfoChange(n) \/ OnActivate(n) \/ UpdateTerm(n)
             \/ ActivateTerm(n) \/ ActivateMaster(n) \/ RunEnqueued(n)
             \/ FinishActivation(n)
       PROVE  x \in msgs
  BY <1>1, <1>10 DEF OnReplicaInfoChange, OnActivate, UpdateTerm,
     ActivateTerm, ActivateMaster, RunEnqueued, FinishActivation, net
<1>11. ASSUME NEW n \in Nodes, Client(n) PROVE x \in msgs
  BY <1>1, <1>11 DEF Client, RunInTerm, BeginWrite, Apply, Enqueue, AddToTaken,
     Purge, net
<1>12. CASE UNCHANGED vars
  BY <1>1, <1>12 DEF vars, net
<1>13. ASSUME NEW n \in Nodes, Executor(n)
       PROVE  x \in msgs \/ NewlyConfirms(x)
  BY <1>2, <1>3, <1>4, <1>5, <1>6, <1>10, <1>13 DEF Executor
<1> QED BY <1>7, <1>8, <1>9, <1>10, <1>11, <1>12, <1>13 DEF Next

-----------------------------------------------------------------------------
(* What has been backed up is there *)

\* Node m's lifecycle manager has seen the term.
SeesTerm(m, term) == \E i \in 1..view[m] : TermOf(i) = term

\* A node that has never been master holds no bucket of a term it has not
\* reached (onBackup compares the terms).
BackupBehind ==
  \A m \in Nodes : NeverMaster(m) =>
    \E i \in 1..view[m] : bucket[m].term <= TermOf(i)

\* The sender's clock is past the times it keeps and has sent.
TimesCovered ==
  /\ \A n, m \in Nodes : lastBackup[n][m] <= clock[n]
  /\ \A x \in msgs : x.type = "backup" => x.load.ts <= clock[Requester(x)]

\* A backup on the wire, either way, is of the sender's term, or was overtaken
\* by it: every copy of the term is then later.
LoadKnown(n, load) ==
  Info(n).master = n => load.term = Info(n).term \/ Later(n, load.ts)

LoadsKnown == \A x \in msgs : x.type = "backup" => LoadKnown(Requester(x), x.load)

\* What backup m has confirmed to master n up to the time is in m's bucket; or
\* it was of an earlier term, and every copy of n's term is later.
There(n, m, time) ==
  Info(n).master = n =>
    \/ Later(n, time)
    \/ /\ SeesTerm(m, Info(n).term)
       /\ Info(m).term = Info(n).term /\ NeverMaster(m)
          => bucket[m].term = Info(n).term /\ bucket[m].ts >= time

\* The confirmed times, on the nodes and on their way back.
ConfirmedThere ==
  /\ \A n, m \in Nodes : There(n, m, lastBackup[n][m])
  /\ \A x \in msgs : Confirms(x) => There(x.to, x.from, x.load.ts)

BInv ==
  /\ OInv
  /\ SyncsByMasters
  /\ BackupBehind
  /\ TimesCovered
  /\ LoadsKnown
  /\ ConfirmedThere

\* An earlier time says less.
LEMMA ThereEarlier ==
  ASSUME IInv, NEW n \in Nodes, NEW m \in Nodes, NEW time \in Nat, NEW s \in Nat,
         s <= time, There(n, m, time)
  PROVE  There(n, m, s)
<1>1. \A c \in Copies : c.ts \in Nat
  BY CopyFacts
<1>2. Later(n, time) => Later(n, s)
  BY <1>1 DEF Later
<1>3. bucket[m].ts \in Nat
  BY <1>1, CopyFacts
<1> QED BY <1>2, <1>3 DEF There

\* What is there stays there.
LEMMA ThereKept ==
  ASSUME OInv, SyncsByMasters, [Next]_vars,
         Cardinality(Nodes) <= 1 + BackupCount,
         NEW n \in Nodes, NEW m \in Nodes, NEW time \in Nat, time <= clock[n],
         There(n, m, time)
  PROVE  There(n, m, time)'
<1> SUFFICES ASSUME Info(n)'.master = n, ~Later(n, time)'
             PROVE  /\ SeesTerm(m, Info(n).term)'
                    /\ Info(m)'.term = Info(n)'.term /\ NeverMaster(m)'
                       => bucket'[m].term = Info(n)'.term /\ bucket'[m].ts >= time
  BY DEF There
<1>1. IInv /\ TasksOwned /\ HistoryGrows /\ OInv' /\ IInv'
  BY HistoriesGrow, NextOInv DEF OInv
<1>2. Info(n)'.term = Info(n).term /\ Info(n).master = n
  BY MasterStep DEF Later
<1>3. /\ SeesTerm(m, Info(n).term)
      /\ Info(m).term = Info(n).term /\ NeverMaster(m)
         => bucket[m].term = Info(n).term /\ bucket[m].ts >= time
  BY <1>2, LaterStep DEF There
<1>4. PICK i \in 1..view[m] : infos[i].term = Info(n).term
  BY <1>3 DEF SeesTerm, TermOf
<1>5. /\ view[m] \in Nat \ {0} /\ view'[m] \in Nat \ {0}
      /\ view[m] \in Indexes' /\ view'[m] \in Indexes' /\ view'[m] >= view[m]
      /\ i \in Indexes' /\ i \in 1..view'[m] /\ infos'[i] = infos[i]
      /\ infos'[view[m]] = Info(m) /\ infos'[view'[m]] = Info(m)'
      /\ Info(m).term \in Nat /\ Info(m)'.term \in Nat
  BY <1>1, SeenInfos
<1>6. SeesTerm(m, Info(n).term)'
  BY <1>2, <1>4, <1>5 DEF SeesTerm, TermOf
<1>7. ASSUME Info(m)'.term = Info(n)'.term, NeverMaster(m)'
      PROVE  bucket'[m].term = Info(n)'.term /\ bucket'[m].ts >= time
  <2>1. NeverMaster(m)
    BY <1>1, <1>7, MasterKept
  <2>2. Info(n).term > 0
    BY <1>1, <1>2, MasterOwns, OneOwner DEF OInv
  <2>3. infos'[view[m]].term = infos'[i].term
    <3>1. \A j, k, h \in Indexes' :
            j <= h /\ h <= k /\ infos'[j].term = infos'[k].term
            /\ infos'[j].term > 0
            => infos'[h].term = infos'[j].term
      BY <1>1 DEF OInv, TermsContiguous, TermOf
    <3>2. i <= view[m]
      BY <1>5
    <3> QED BY <1>2, <1>4, <1>5, <1>7, <2>2, <3>1, <3>2
  <2>4. Info(m).term = Info(n).term
    BY <1>4, <1>5, <2>3
  <2>5. bucket[m].term = Info(n).term /\ bucket[m].ts >= time
    BY <1>3, <2>1, <2>4
  <2>6. BackupStep(m)
    BY <1>1, <2>1, BackupStepped
  <2>7. bucket[m].ts \in Nat /\ bucket[m].term \in Nat
        /\ bucket'[m].ts \in Nat /\ bucket'[m].term \in Nat
    <3>1. bucket[m] \in Bucket /\ bucket'[m] \in Bucket
      BY <1>1 DEF IInv, TypeOK, StoreOK
    <3> QED BY <3>1 DEF Bucket
  <2> DEFINE b == bucket[m]
             c == bucket'[m]
  <2>8. /\ b.ts \in Nat /\ c.ts \in Nat /\ b.term \in Nat
        /\ b.term = Info(n).term /\ b.ts >= time
        /\ \/ c.term = b.term /\ c.ts = b.ts
           \/ c.term = b.term /\ (c.term > b.term \/ c.ts > b.ts)
    BY <2>4, <2>5, <2>6, <2>7 DEF BackupStep, isNewerThan
  <2> HIDE DEF b, c
  <2>9. c.term = Info(n).term /\ c.ts >= time
    BY <2>8
  <2> QED BY <1>2, <2>9 DEF c
<1> QED BY <1>6, <1>7

\* Backups stay behind their terms.
LEMMA BehindPreserved ==
  ASSUME OInv, SyncsByMasters, BackupBehind, [Next]_vars,
         Cardinality(Nodes) <= 1 + BackupCount
  PROVE  BackupBehind'
<1>1. IInv /\ TasksOwned /\ HistoryGrows /\ IInv'
  BY HistoriesGrow, NextOInv DEF OInv
<1>2. ASSUME NEW m \in Nodes, NeverMaster(m)'
      PROVE  \E i \in 1..view'[m] : bucket'[m].term <= infos'[i].term
  <2>1. NeverMaster(m)
    BY <1>1, <1>2, MasterKept
  <2>2. PICK i \in 1..view[m] : bucket[m].term <= infos[i].term
    BY <2>1 DEF BackupBehind, TermOf
  <2>3. BackupStep(m)
    BY <1>1, <2>1, BackupStepped
  <2>4. /\ i \in 1..view'[m] /\ infos'[i] = infos[i]
        /\ view[m] \in Nat \ {0} /\ infos'[view[m]] = Info(m)
        /\ Info(m).term \in Nat
        /\ \A j \in 1..view[m] : j \in 1..view'[m]
    BY <1>1, SeenInfos
  <2>5. CASE bucket'[m].term = bucket[m].term
    BY <2>2, <2>4, <2>5
  <2>6. CASE bucket'[m].term = Info(m).term
    <3>1. view[m] \in 1..view'[m]
      BY <2>4
    <3>2. bucket'[m].term <= infos'[view[m]].term
      BY <2>4, <2>6
    <3> QED BY <3>1, <3>2
  <2> QED BY <2>3, <2>5, <2>6 DEF BackupStep
<1> QED BY <1>2 DEF BackupBehind, TermOf

\* The times a node keeps and has sent stay behind its clock.
LEMMA TimesPreserved ==
  ASSUME IInv, SyncsByMasters, TimesCovered, [Next]_vars
  PROVE  TimesCovered'
<1>1. HistoryGrows /\ MessagesStep
  BY HistoriesGrow, MessagesStepped
<1>2. /\ \A n \in Nodes : clock[n] \in Nat /\ clock'[n] \in Nat
                          /\ clock'[n] >= clock[n]
      /\ \A n, m \in Nodes : lastBackup[n][m] \in Nat
      /\ \A n \in Nodes : bucket[n] \in Bucket
      /\ msgs \in SUBSET Message
  BY <1>1 DEF HistoryGrows, IInv, TypeOK, NetOK, BackupsOK, StoreOK
<1>3. /\ \A x \in msgs : x.load.ts \in Nat
      /\ \A n \in Nodes : bucket[n].ts \in Nat
  BY <1>2 DEF Message, Bucket
<1>4. ASSUME NEW n \in Nodes, NEW time \in Nat, time <= clock[n]
      PROVE  time <= clock'[n]
  BY <1>2, <1>4
<1>5. ASSUME NEW n \in Nodes, NEW m \in Nodes
      PROVE  lastBackup'[n][m] <= clock'[n]
  <2>1. lastBackup[n][m] <= clock'[n] /\ 0 <= clock'[n]
    BY <1>2, <1>4 DEF TimesCovered
  <2>2. ASSUME NEW x \in msgs, Confirms(x), x.to = n, x.from = m,
               lastBackup'[n][m] = x.load.ts
        PROVE  lastBackup'[n][m] <= clock'[n]
    <3>1. x.load.ts <= clock[n]
      BY <2>2 DEF TimesCovered, Confirms, Requester
    <3> QED BY <1>3, <1>4, <2>2, <3>1
  <2> QED BY <2>1, <2>2, BackupTimeStepped DEF BackupTimeStep
<1>6. ASSUME NEW x \in msgs', x.type = "backup"
      PROVE  x.load.ts <= clock'[Requester(x)]
  <2>1. ASSUME NEW y \in msgs, Echo(x, y)
        PROVE  x.load.ts <= clock'[Requester(x)]
    <3>1. /\ y.type = "backup" /\ x.load = y.load /\ Requester(x) = Requester(y)
          /\ Requester(y) \in Nodes
      BY <1>6, <2>1, RequesterFacts DEF Echo
    <3>2. y.load.ts <= clock[Requester(y)]
      BY <3>1 DEF TimesCovered
    <3> QED BY <1>3, <1>4, <3>1, <3>2
  <2>2. CASE Fresh(x)
    <3>1. x.from \in Nodes /\ Requester(x) = x.from /\ x.load = bucket[x.from]
      BY <1>6, <2>2 DEF Fresh, Requester
    <3>2. bucket[x.from].ts <= clock[x.from]
      BY <3>1 DEF IInv, ClockCoversBuckets
    <3> QED BY <1>3, <1>4, <3>1, <3>2
  <2> QED BY <1>1, <2>1, <2>2 DEF MessagesStep
<1> QED BY <1>5, <1>6 DEF TimesCovered, Requester

\* What was sent in an earlier term is overtaken when the term begins.
LEMMA LoadsPreserved ==
  ASSUME OInv, SyncsByMasters, TimesCovered, LoadsKnown, [Next]_vars
  PROVE  LoadsKnown'
<1>1. IInv /\ MessagesStep
  BY MessagesStepped DEF OInv
<1>2. \A x \in msgs : x.load.ts \in Nat
  <2>1. msgs \in SUBSET Message
    BY <1>1 DEF IInv, TypeOK, NetOK
  <2> QED BY <2>1 DEF Message, Bucket
<1>3. ASSUME NEW y \in msgs, y.type = "backup", Info(Requester(y))'.master = Requester(y)
      PROVE  \/ y.load.term = Info(Requester(y))'.term
             \/ Later(Requester(y), y.load.ts)'
  <2> DEFINE n == Requester(y)
             time == y.load.ts
  <2>1. /\ n \in Nodes /\ time \in Nat /\ time <= clock[n]
        /\ LoadKnown(n, y.load)
    BY <1>1, <1>2, <1>3, RequesterFacts DEF TimesCovered, LoadsKnown
  <2>2. Info(n)'.master = n
    BY <1>3
  <2> HIDE DEF n, time
  <2>3. CASE \A c \in Copies' : c.term # Info(n)'.term
    BY <2>3 DEF Later, n
  <2>4. CASE Info(n)'.term = Info(n).term /\ Info(n).master = n
    <3>1. y.load.term = Info(n).term \/ Later(n, time)
      BY <2>1, <2>4 DEF LoadKnown, time
    <3>2. CASE y.load.term = Info(n).term
      BY <2>4, <3>2 DEF n
    <3>3. CASE Later(n, time)
      <4>1. Later(n, time)'
        BY <2>1, <2>2, <3>3, LaterStep
      <4> QED BY <4>1 DEF n, time, Later
    <3> QED BY <3>1, <3>2, <3>3
  <2> QED BY <2>1, <2>2, <2>3, <2>4, MasterStep
<1>4. ASSUME NEW x \in msgs', x.type = "backup",
             Info(Requester(x))'.master = Requester(x)
      PROVE  \/ x.load.term = Info(Requester(x))'.term
             \/ Later(Requester(x), x.load.ts)'
  <2>1. ASSUME NEW y \in msgs, Echo(x, y)
        PROVE  \/ x.load.term = Info(Requester(x))'.term
               \/ Later(Requester(x), x.load.ts)'
    <3>1. y.type = "backup" /\ x.load = y.load /\ Requester(x) = Requester(y)
      BY <1>4, <2>1 DEF Echo
    <3> QED BY <1>3, <1>4, <3>1
  <2>2. CASE Fresh(x)
    BY <1>4, <2>2 DEF Fresh, Requester
  <2> QED BY <1>1, <2>1, <2>2 DEF MessagesStep
<1> QED BY <1>4 DEF LoadsKnown, LoadKnown, Requester, Later

\* A backup that is confirmed is there.
LEMMA ConfirmedNow ==
  ASSUME BInv, [Next]_vars, NEW x \in msgs', Confirms(x), NewlyConfirms(x),
         x.to \in Nodes, x.load \in Bucket
  PROVE  There(x.to, x.from, x.load.ts)'
<1> DEFINE n == x.to
           m == x.from
           load == x.load
<1>1. /\ OInv /\ IInv /\ IInv' /\ TermsContiguous /\ TermsCounted
      /\ n \in Nodes /\ m \in Nodes
      /\ load.term \in Nat /\ load.ts \in Nat
  BY NextOInv DEF BInv, OInv, NewlyConfirms, Bucket
<1>2. /\ UNCHANGED <<infos, view>> /\ load.term = Info(m).term
      /\ \/ bucket'[m] = load
         \/ bucket'[m] = bucket[m] /\ ~isNewerThan(load, bucket[m])
  BY DEF NewlyConfirms
<1>3. PICK y \in msgs : y.type = "backup" /\ Requester(y) = n /\ y.load = load
  BY DEF NewlyConfirms
<1>4. LoadKnown(n, load) /\ load.ts <= clock[n]
  BY <1>3 DEF BInv, LoadsKnown, TimesCovered
<1> HIDE DEF n, m, load
<1>5. Info(n)' = Info(n) /\ Info(m)' = Info(m)
  BY <1>2 DEF Info
<1>6. ASSUME Info(n).master = n, Later(n, load.ts)
      PROVE  Later(n, load.ts)'
  BY <1>1, <1>4, <1>5, <1>6, LaterStep
<1>7. ASSUME Info(n).master = n, load.term = Info(n).term
      PROVE  /\ SeesTerm(m, Info(n).term)'
             /\ NeverMaster(m)' => bucket'[m].term = Info(n).term
                                   /\ bucket'[m].ts >= load.ts
  <2>1. /\ view[m] \in Indexes /\ view[m] \in Nat \ {0}
        /\ \A i \in 1..view[m] : i \in Indexes
        /\ Info(m).term \in Nat
    <3>1. HistoryGrows
      BY <1>1, HistoriesGrow
    <3> QED BY <1>1, <3>1, SeenInfos
  <2>2. SeesTerm(m, Info(n).term)'
    <3>1. view[m] \in 1..view[m]
      BY <2>1
    <3>2. infos[view[m]].term = Info(n).term
      BY <1>2, <1>7 DEF Info
    <3> QED BY <1>2, <1>5, <3>1, <3>2 DEF SeesTerm, TermOf
  <2>3. ASSUME NeverMaster(m)'
        PROVE  bucket'[m].term = Info(n).term /\ bucket'[m].ts >= load.ts
    <3>1. CASE bucket'[m] = load
      BY <1>1, <1>7, <3>1
    <3>2. CASE bucket'[m] = bucket[m] /\ ~isNewerThan(load, bucket[m])
      <4>1. NeverMaster(m)
        BY <1>2, <2>3 DEF NeverMaster
      <4>2. PICK i \in 1..view[m] : bucket[m].term <= TermOf(i)
        BY <1>1, <4>1 DEF BInv, BackupBehind
      <4>3. TermOf(view[m]) = Info(n).term /\ Info(n).term > 0
        <5>1. Info(n).term \in Nat \ {0}
          BY <1>1, <1>7, MasterOwns, OneOwner
        <5> QED BY <1>2, <1>7, <5>1 DEF TermOf, Info
      <4>4. i <= view[m] /\ i \in Indexes
        BY <2>1
      <4>5. TermOf(i) <= TermOf(view[m])
        BY <1>1, <2>1, <4>3, <4>4 DEF TermsContiguous
      <4>6. bucket[m].term \in Nat /\ bucket[m].ts \in Nat /\ TermOf(i) \in Nat
        <5>1. bucket[m] \in Bucket
          BY <1>1 DEF IInv, TypeOK, StoreOK
        <5>2. infos[i] \in ReplicaInfo
          BY <1>1, <4>4, InfoFacts DEF IInv
        <5> QED BY <5>1, <5>2 DEF Bucket, ReplicaInfo, TermOf
      <4>7. ~(load.term > bucket[m].term) /\ ~(load.ts > bucket[m].ts)
        BY <3>2 DEF isNewerThan
      <4>8. bucket[m].term = Info(n).term /\ bucket[m].ts >= load.ts
        BY <1>1, <1>7, <4>2, <4>3, <4>5, <4>6, <4>7
      <4> QED BY <3>2, <4>8
    <3> QED BY <1>2, <3>1, <3>2
  <2> QED BY <2>2, <2>3
<1>8. Info(n).master = n => load.term = Info(n).term \/ Later(n, load.ts)
  BY <1>4 DEF LoadKnown
<1>9. There(n, m, load.ts)'
  BY <1>5, <1>6, <1>7, <1>8 DEF There
<1> QED BY <1>9 DEF n, m, load, There, Later, SeesTerm

\* What has been confirmed stays there.
LEMMA ConfirmedPreserved ==
  ASSUME BInv, [Next]_vars, Cardinality(Nodes) <= 1 + BackupCount
  PROVE  ConfirmedThere'
<1>1. OInv /\ IInv /\ IInv' /\ SyncsByMasters /\ TimesCovered /\ ConfirmedThere
  BY NextOInv DEF BInv, OInv
<1>2. /\ \A x \in msgs : x \in Message /\ x.load.ts \in Nat
      /\ \A x \in msgs' : x.from \in Nodes /\ x.to \in Nodes /\ x.load \in Bucket
      /\ \A n, m \in Nodes : lastBackup[n][m] \in Nat
  <2>1. /\ msgs \in SUBSET Message /\ lastBackup \in [Nodes -> [Nodes -> Nat]]
        /\ msgs' \in SUBSET Message'
    BY <1>1 DEF IInv, TypeOK, NetOK, BackupsOK
  <2>2. \A x \in Message' : x.from \in Nodes /\ x.to \in Nodes /\ x.load \in Bucket
    BY DEF Message
  <2>3. \A x \in Message : x.load.ts \in Nat
    BY DEF Message, Bucket
  <2> QED BY <2>1, <2>2, <2>3
<1>3. ASSUME NEW x \in msgs, Confirms(x)
      PROVE  There(x.to, x.from, x.load.ts)'
  <2> DEFINE n == x.to
             m == x.from
             time == x.load.ts
  <2>1. n \in Nodes /\ m \in Nodes /\ time \in Nat
    BY <1>2 DEF Message
  <2>2. time <= clock[n] /\ There(n, m, time)
    BY <1>1, <1>3 DEF TimesCovered, ConfirmedThere, Confirms, Requester
  <2> HIDE DEF n, m, time
  <2>3. There(n, m, time)'
    BY <1>1, <2>1, <2>2, ThereKept
  <2> QED BY <2>3 DEF n, m, time, There, Later, SeesTerm
<1>4. ASSUME NEW n \in Nodes, NEW m \in Nodes
      PROVE  There(n, m, lastBackup[n][m])'
  <2>1. ASSUME NEW time \in Nat, time <= clock[n], There(n, m, time),
               lastBackup'[n][m] = time
        PROVE  There(n, m, lastBackup[n][m])'
    <3>1. There(n, m, time)'
      BY <1>1, <2>1, ThereKept
    <3> QED BY <2>1, <3>1 DEF There, Later
  <2>2. CASE lastBackup'[n][m] = lastBackup[n][m]
    BY <1>1, <1>2, <2>1, <2>2 DEF TimesCovered, ConfirmedThere
  <2>3. CASE lastBackup'[n][m] = 0
    <3>1. lastBackup[n][m] \in Nat /\ There(n, m, lastBackup[n][m])
      BY <1>1, <1>2 DEF ConfirmedThere
    <3>2. 0 <= lastBackup[n][m] /\ 0 <= clock[n]
      BY <1>1, <3>1 DEF IInv, TypeOK, NetOK
    <3>3. There(n, m, 0)
      BY <1>1, <3>1, <3>2, ThereEarlier
    <3> QED BY <2>1, <2>3, <3>2, <3>3
  <2>4. ASSUME NEW x \in msgs, Confirms(x), x.to = n, x.from = m,
               lastBackup'[n][m] = x.load.ts
        PROVE  There(n, m, lastBackup[n][m])'
    <3>1. x.load.ts <= clock[n] /\ There(n, m, x.load.ts)
      BY <1>1, <2>4 DEF TimesCovered, ConfirmedThere, Confirms, Requester
    <3> QED BY <1>2, <2>1, <2>4, <3>1
  <2> QED BY <2>2, <2>3, <2>4, BackupTimeStepped, <1>1 DEF BackupTimeStep
<1>5. ASSUME NEW x \in msgs', Confirms(x)
      PROVE  There(x.to, x.from, x.load.ts)'
  BY <1>1, <1>2, <1>3, <1>5, ConfirmStepped, ConfirmedNow
<1> QED BY <1>4, <1>5 DEF ConfirmedThere, Confirms, There, Later, SeesTerm

\* Initially nothing has been written or sent, and every time is 0.
LEMMA InitBInv ==
  Init => BInv
<1> SUFFICES ASSUME Init PROVE BInv
  OBVIOUS
<1>1. OInv /\ IInv
  BY InitOInv DEF OInv
<1>2. /\ msgs = {} /\ infos[1].term = 1 /\ view = [n \in Nodes |-> 1]
      /\ \A n \in Nodes : /\ events[n] = <<>> /\ syncs[n] = {} /\ clock[n] = 0
                          /\ bucket[n] = EmptyBucket
      /\ \A n, m \in Nodes : lastBackup[n][m] = 0
  BY DEF Init
<1>3. SyncsByMasters
  BY <1>2 DEF SyncsByMasters, Elements
<1>4. BackupBehind
  <2>1. ASSUME NEW m \in Nodes
        PROVE  1 \in 1..view[m] /\ bucket[m].term <= TermOf(1)
    BY <1>2 DEF EmptyBucket, TermOf
  <2> QED BY <2>1 DEF BackupBehind
<1>5. TimesCovered /\ LoadsKnown
  BY <1>2 DEF TimesCovered, LoadsKnown
<1>6. ConfirmedThere
  <2>1. ASSUME NEW n \in Nodes PROVE Later(n, 0)
    <3>1. Info(n).term = 1
      BY <1>2 DEF Info
    <3>2. \A c \in Copies : c.term = 0
      BY <1>2 DEF Copies, EmptyBucket
    <3> QED BY <3>1, <3>2 DEF Later
  <2> QED BY <1>2, <2>1 DEF ConfirmedThere, There
<1> QED BY <1>1, <1>3, <1>4, <1>5, <1>6 DEF BInv

\* Every step preserves what the times of backups say.
LEMMA NextBInv ==
  ASSUME Cardinality(Nodes) <= 1 + BackupCount
  PROVE  BInv /\ [Next]_vars => BInv'
<1> SUFFICES ASSUME BInv, [Next]_vars PROVE BInv'
  OBVIOUS
<1>1. OInv /\ IInv /\ SyncsByMasters /\ BackupBehind /\ TimesCovered /\ LoadsKnown
  BY DEF BInv, OInv
<1>2. OInv' /\ SyncsByMasters'
  BY <1>1, NextOInv, SyncsPreserved
<1>3. BackupBehind'
  BY <1>1, BehindPreserved
<1>4. TimesCovered' /\ LoadsKnown'
  BY <1>1, TimesPreserved, LoadsPreserved
<1>5. ConfirmedThere'
  BY ConfirmedPreserved
<1> QED BY <1>2, <1>3, <1>4, <1>5 DEF BInv

\* Where every node may be a replica, so that no table is cleared: when
\* lastBackupTimes says that a backup of the master's own term, which has not
\* been master itself, is up to date, the backup's bucket is not behind the
\* master's.  Purged and torn buckets, refused, lost and late backups and
\* answers, resets by anti-entropy and re-elections are all included.
THEOREM BackupsThere ==
  Cardinality(Nodes) <= 1 + BackupCount => (Spec => []BackedUpIsThere)
<1> SUFFICES ASSUME Cardinality(Nodes) <= 1 + BackupCount
             PROVE  Spec => []BackedUpIsThere
  OBVIOUS
<1>1. BInv /\ [Next]_vars => BInv'
  BY NextBInv
<1>2. BInv => BackedUpIsThere
  <2> SUFFICES ASSUME BInv, NEW n \in Nodes, NEW m \in Info(n).backups,
                      Info(n).master = n, bucket[n].term = Info(n).term,
                      lastBackup[n][m] >= bucket[n].ts,
                      Info(m).term = Info(n).term, NeverMaster(m)
               PROVE  ~isNewerThan(bucket[n], bucket[m])
    BY DEF BackedUpIsThere
  <2>1. IInv /\ m \in Nodes
    <3>1. IInv /\ view[n] \in Indexes
      BY DEF BInv, OInv, IInv, TypeOK, LifecycleOK
    <3>2. infos[view[n]] \in ReplicaInfo
      BY <3>1, InfoFacts DEF IInv
    <3> QED BY <3>1, <3>2 DEF Info, ReplicaInfo
  <2>2. There(n, m, lastBackup[n][m])
    BY <2>1 DEF BInv, ConfirmedThere
  <2>3. /\ bucket[n] \in Copies /\ bucket[n].term \in Nat /\ bucket[n].ts \in Nat
        /\ bucket[m].term \in Nat /\ bucket[m].ts \in Nat
        /\ lastBackup[n][m] \in Nat
    BY <2>1, CopyFacts DEF IInv, TypeOK, BackupsOK
  <2>4. ~Later(n, lastBackup[n][m])
    BY <2>3 DEF Later
  <2>5. bucket[m].term = Info(n).term /\ bucket[m].ts >= lastBackup[n][m]
    BY <2>2, <2>4 DEF There
  <2> QED BY <2>3, <2>5 DEF isNewerThan
<1> QED BY <1>1, <1>2, InitBInv, PTL DEF Spec

=============================================================================

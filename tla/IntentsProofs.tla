--------------------------- MODULE IntentsProofs ---------------------------
(***************************************************************************)
(* The life of an intent, for any installers, thresholds and bounds: its   *)
(* entry never moves back, no request is lost to a late answer, and an     *)
(* outcome is stored only when it has been reported.                       *)
(*                                                                         *)
(* None of these is inductive.  The invariant says of all the intent data  *)
(* in the system, wherever it is, that it stems from a request (Known); of *)
(* requests, that a version goes through the queue once (OnceOK), although *)
(* they may be put in another order than their versions were drawn; of the *)
(* threads that write, what they have found and that nobody replaces what  *)
(* they are writing (VerdictOK, BatchOK, JobsOK).                          *)
(***************************************************************************)
EXTENDS Intents, SequenceFacts, SequenceTheorems, TLAPS

Outcomes == States \ Requests

\* The requests that have drawn their version.
Drawn == {c.data : c \in calls}

\* Data that stems from a request: its version has been given, it agrees with
\* the request of that version where this is pending or to be put, and only a
\* purge purges.
Known ==
  {d \in Data :
     /\ d.version <= clock
     /\ pending # None /\ d.version = pending.version =>
          d.request = pending.request
     /\ \A e \in Drawn : d.version = e.version => d.request = e.request
     /\ d.state = "PURGE_REQ" => d.request = "PURGE_REQ"}

\* A set of data that is closed under what the phases and finish compute.
Closed(S) ==
  /\ S \subseteq Data
  /\ \A d \in S : \A st \in Outcomes :
       /\ NextState(d, st) \in S
       /\ \A f \in BOOLEAN : Compiled(d, st, f) \in S
  /\ \A d \in S : Corrupt(d) \in S
  /\ \A d \in S : \A s \in S \union {None} : Transferred(d, s) \in S

\* The installations that have begun, and what their threads do.
JobsOK ==
  \A v \in Versions :
    /\ jobs[v] = None => \A i \in Installers : answer[v][i] = "none"
    /\ jobs[v] # None =>
         /\ v <= clock
         /\ jobs[v].toInstall # None => jobs[v].toInstall.version = v
         /\ jobs[v].toInstall = None => /\ jobs[v].toUninstall # None
                                        /\ jobs[v].toUninstall.version = v
         /\ \A i \in Installers :
              answer[v][i] \in {"none", "applying"} =>
                i \in jobs[v].pendingContexts
    /\ \A i \in Installers : answer[v][i] # "done" => writes[<<v, i>>] = << >>

InBatch == batch.at \in {"start", "process"}

\* A version is in one place of the queue, and not installed before it leaves.
OnceOK ==
  /\ \A c, e \in calls : c.data.version = e.data.version => c = e
  /\ \A d \in Drawn : \A e \in events \union Elements(items) :
       d.version # e.version
  /\ \A d, e \in events : d.version = e.version => d = e
  /\ \A d \in events : \A e \in Elements(items) : d.version # e.version
  /\ \A d \in Drawn \union events \union Elements(items) :
       /\ jobs[d.version] = None
       /\ InBatch => d.version # batch.data.version
  /\ InBatch => jobs[batch.data.version] = None

\* The accumulator waits for the batch, which writes only at the end.
BatchOK ==
  /\ ready => batch.at = "idle"
  /\ batch.at # "write" => writes[Batch] = << >>

\* What the first half of write has found, and what became of it.
VerdictOK ==
  \A w \in Writers : verdict[w] # Unread =>
    /\ writes[w] # << >>
    /\ verdict[w].is \in {"accept", "reject"}
    /\ verdict[w].is = "reject" => Head(writes[w]).version <= stamp.version

\* The timestamp of the current map is that of its entry.
StampOK ==
  current # None => stamp.version = current.version /\ stamp.isv = current.isv

\* A version has left the queue, and its installation, if there was one, has
\* been reported a success by every installer.
Complete(v) ==
  /\ \A d \in Drawn \union events \union Elements(items) : d.version # v
  /\ InBatch => batch.data.version # v
  /\ jobs[v] # None =>
       /\ jobs[v].errorContexts = {}
       /\ \A i \in Installers : answer[v][i] \in {"removed", "done"}

Reported(d) == d.state \in {"INSTALLED", "WITHDRAWN"} => Complete(d.version)

\* So it is for every outcome that is stored, read by the batch or to be written.
OutOK ==
  /\ current # None => Reported(current)
  /\ batch.stored # None => Reported(batch.stored)
  /\ \A w \in Writers : \A d \in Elements(writes[w]) : Reported(d)

\* What is requested is not an outcome.
Asks == Requests \union {"INSTALLING", "WITHDRAWING"}
AskOK ==
  /\ \A d \in Drawn \union events \union Elements(items) : d.state \in Asks
  /\ InBatch => batch.data.state \in Asks
  /\ pending # None => pending.state \in Asks
  /\ \A t \in Threads : asking[t] # None /\ asking[t].again # None =>
       asking[t].again.state \in Asks

IInv ==
  /\ Typed(Known)
  /\ JobsOK
  /\ OnceOK
  /\ BatchOK
  /\ VerdictOK
  /\ StampOK
  /\ OutOK
  /\ AskOK

-----------------------------------------------------------------------------
(* Intent data *)

\* The operations keep data in its type; B stands for BOOLEAN.
LEMMA RecordOps ==
  ASSUME NEW B,
         NEW d \in [request : Requests, version : Versions, isv : Nat,
                    state : States, installables : B, errorCount : Nat],
         NEW st \in States, NEW f \in B, NEW n \in Nat
  PROVE  /\ [d EXCEPT !.isv = n, !.state = st]
              \in [request : Requests, version : Versions, isv : Nat,
                   state : States, installables : B, errorCount : Nat]
         /\ [d EXCEPT !.isv = n, !.state = st, !.installables = f]
              \in [request : Requests, version : Versions, isv : Nat,
                   state : States, installables : B, errorCount : Nat]
         /\ [d EXCEPT !.errorCount = n]
              \in [request : Requests, version : Versions, isv : Nat,
                   state : States, installables : B, errorCount : Nat]
OBVIOUS

\* Data is closed.
LEMMA DataClosed == Closed(Data)
<1>1. ASSUME NEW d \in Data, NEW st \in States, NEW f \in BOOLEAN, NEW n \in Nat
      PROVE  /\ NextState(d, st) \in Data
             /\ Compiled(d, st, f) \in Data
             /\ [d EXCEPT !.errorCount = n] \in Data
  <2>1. PICK one, two : /\ one = d.isv + 1 /\ one \in Nat
                        /\ two = d.isv + 2 /\ two \in Nat
    BY DEF Data
  <2>2. /\ NextState(d, st) = [d EXCEPT !.isv = one, !.state = st]
        /\ Compiled(d, st, f) = [d EXCEPT !.isv = two, !.state = st,
                                          !.installables = f]
    BY <2>1 DEF NextState, Compiled
  <2>3. /\ [d EXCEPT !.isv = one, !.state = st] \in Data
        /\ [d EXCEPT !.isv = two, !.state = st, !.installables = f] \in Data
        /\ [d EXCEPT !.errorCount = n] \in Data
    BY <2>1, RecordOps, Zenon DEF Data
  <2> QED BY <2>2, <2>3
<1>e. \A d \in Data : d.errorCount \in Nat
  BY DEF Data
<1>2. ASSUME NEW d \in Data
      PROVE  Corrupt(d) \in Data
  <2>1. PICK e : e = NextState(d, "CORRUPT")
    OBVIOUS
  <2>2. e \in Data
    BY <1>1, <2>1 DEF States
  <2>3. e.errorCount + 1 \in Nat
    BY <1>e, <2>2
  <2>4. Corrupt(d) = [e EXCEPT !.errorCount = e.errorCount + 1]
    BY <2>1 DEF Corrupt
  <2>5. TRUE \in BOOLEAN /\ "CORRUPT" \in States
    BY DEF States
  <2> QED BY <1>1, <2>2, <2>3, <2>4, <2>5
<1>3. ASSUME NEW d \in Data, NEW s \in Data \union {None}
      PROVE  Transferred(d, s) \in Data
  <2>1. CASE s = None
    BY <2>1 DEF Transferred
  <2>2. CASE s # None
    <3>1. PICK n : n = IF s.request = d.request THEN s.errorCount ELSE 0
      OBVIOUS
    <3>2. n \in Nat
      BY <1>e, <2>2, <3>1
    <3>3. Transferred(d, s) = [d EXCEPT !.errorCount = n]
      BY <2>2, <3>1 DEF Transferred
    <3>4. TRUE \in BOOLEAN /\ "CORRUPT" \in States
      BY DEF States
    <3> QED BY <1>1, <3>2, <3>3, <3>4
  <2> QED BY <2>1, <2>2
<1>4. Outcomes \subseteq States /\ 0 \in Nat /\ TRUE \in BOOLEAN
  BY DEF Outcomes
<1> QED BY <1>1, <1>2, <1>3, <1>4 DEF Closed

\* What the operations on data keep.
LEMMA DataOps ==
  ASSUME NEW d \in Data, NEW s \in Data \union {None}, NEW st \in Outcomes,
         NEW f \in BOOLEAN
  PROVE  /\ NextState(d, st).version = d.version
         /\ NextState(d, st).request = d.request
         /\ NextState(d, st).state = st
         /\ Compiled(d, st, f).version = d.version
         /\ Compiled(d, st, f).request = d.request
         /\ Compiled(d, st, f).state = st
         /\ Corrupt(d).version = d.version
         /\ Corrupt(d).request = d.request
         /\ Corrupt(d).state = "CORRUPT"
         /\ Transferred(d, s).version = d.version
         /\ Transferred(d, s).request = d.request
         /\ Transferred(d, s).state = d.state
BY DEF Data, NextState, Compiled, Corrupt, Transferred

\* Known data is closed, too.
LEMMA KnownClosed == Closed(Known)
<1>1. Known \subseteq Data
  BY DEF Known
<1>2. Closed(Data)
  BY DataClosed
<1>3. "CORRUPT" \in Outcomes /\ TRUE \in BOOLEAN /\ None \in Data \union {None}
  BY DEF Outcomes, States, Requests
<1>4. \A st \in Outcomes : st # "PURGE_REQ"
  BY DEF Outcomes, Requests
<1>5. ASSUME NEW d \in Known, NEW st \in Outcomes, NEW f \in BOOLEAN
      PROVE  NextState(d, st) \in Known /\ Compiled(d, st, f) \in Known
  <2>1. NextState(d, st) \in Data /\ Compiled(d, st, f) \in Data
    BY <1>1, <1>2 DEF Closed
  <2>2. /\ NextState(d, st).version = d.version
        /\ NextState(d, st).request = d.request
        /\ NextState(d, st).state # "PURGE_REQ"
        /\ Compiled(d, st, f).version = d.version
        /\ Compiled(d, st, f).request = d.request
        /\ Compiled(d, st, f).state # "PURGE_REQ"
    BY <1>1, <1>3, <1>4, DataOps
  <2> QED BY <2>1, <2>2 DEF Known
<1>6. ASSUME NEW d \in Known
      PROVE  Corrupt(d) \in Known
  <2>1. Corrupt(d) \in Data
    BY <1>1, <1>2 DEF Closed
  <2>2. /\ Corrupt(d).version = d.version
        /\ Corrupt(d).request = d.request
        /\ Corrupt(d).state # "PURGE_REQ"
    BY <1>1, <1>3, DataOps
  <2> QED BY <2>1, <2>2 DEF Known
<1>7. ASSUME NEW d \in Known, NEW s \in Known \union {None}
      PROVE  Transferred(d, s) \in Known
  <2>1. Transferred(d, s) \in Data
    BY <1>1, <1>2 DEF Closed
  <2>2. /\ Transferred(d, s).version = d.version
        /\ Transferred(d, s).request = d.request
        /\ Transferred(d, s).state = d.state
    BY <1>1, <1>3, DataOps
  <2> QED BY <2>1, <2>2 DEF Known
<1> QED BY <1>1, <1>5, <1>6, <1>7 DEF Closed

-----------------------------------------------------------------------------
(* Types: every step takes intent data from a closed set, but for new requests *)

\* Sequences over a set are sequences over a larger one.
LEMMA SeqGrows ==
  ASSUME NEW S, NEW T, S \subseteq T, NEW s \in Seq(S)
  PROVE  s \in Seq(T)
<1>1. \A j \in 1..Len(s) : s[j] \in T
  BY ElementOfSeq
<1>2. Len(s) \in Nat /\ s \in [1..Len(s) -> T]
  BY <1>1, LenProperties
<1> QED BY <1>2, SeqDef

\* With more data to choose from, the variables keep their types.
LEMMA TypedGrows ==
  ASSUME NEW S, NEW T, S \subseteq T, Typed(S)
  PROVE  Typed(T)
<1>1. items \in Seq(T)
  BY SeqGrows DEF Typed
<1>2. writes \in [Writers -> Seq(T)]
  <2>1. \A w \in Writers : writes[w] \in Seq(T)
    BY SeqGrows DEF Typed
  <2> QED BY <2>1 DEF Typed
<1>3. batch \in {Idle} \union [at : {"start", "process", "write"},
                               data : T, stored : T \union {None}]
  BY DEF Typed
<1>4. jobs \in [Versions -> Installation(T) \union {None}]
  BY DEF Typed, Installation
<1>5. verdict \in [Writers -> [is : {"unread", "accept", "reject"},
                               old : T \union {None}]]
  BY DEF Typed
<1>6. calls \subseteq Calls(T)
  BY DEF Typed, Calls
<1>7. asking \in [Threads -> Asking(T) \union {None}]
  BY DEF Typed, Asking
<1> QED BY <1>1, <1>2, <1>3, <1>4, <1>5, <1>6, <1>7 DEF Typed

\* A batch that is not idle.
LEMMA BatchFacts ==
  ASSUME NEW S, Typed(S), batch.at \in {"start", "process", "write"}
  PROVE  /\ batch \in [at : {"start", "process", "write"},
                       data : S, stored : S \union {None}]
         /\ batch.data \in S
         /\ batch.stored \in S \union {None}
<1>1. batch # Idle
  BY DEF Idle
<1>2. batch \in [at : {"start", "process", "write"},
                 data : S, stored : S \union {None}]
  BY <1>1 DEF Typed
<1> QED BY <1>2

\* Members of the writers.
LEMMA WriterFacts ==
  /\ Batch \in Writers
  /\ \A v \in Versions, i \in Installers :
       <<v, i>> \in Writers /\ <<v, i>> # Batch
  /\ \A v, u \in Versions, i, j \in Installers :
       <<v, i>> = <<u, j>> => v = u /\ i = j
BY ConstantsAssumption DEF Batch, Writers

\* The batch goes on to write.
LEMMA WrittenTyped ==
  ASSUME NEW S, Typed(S), batch.at = "process", NEW r \in S \union {None},
         None \notin S, Written(r)
  PROVE  /\ batch' \in [at : {"write"}, data : S, stored : S \union {None}]
         /\ batch'.data = batch.data /\ batch'.stored = batch.stored
         /\ writes' \in [Writers -> Seq(S)]
         /\ writes'[Batch] = IF r = None THEN << >> ELSE <<r>>
         /\ \A w \in Writers : w # Batch => writes'[w] = writes[w]
<1>1. batch \in [at : {"start", "process", "write"},
                 data : S, stored : S \union {None}]
  BY BatchFacts
<1>2. (IF r = None THEN << >> ELSE <<r>>) \in Seq(S)
  BY SMT
<1>3. writes \in [Writers -> Seq(S)] /\ Batch \in Writers
  BY WriterFacts DEF Typed
<1>4. PICK q : q = IF r = None THEN << >> ELSE <<r>>
  OBVIOUS
<1>5. q \in Seq(S) /\ writes' = [writes EXCEPT ![Batch] = q]
  BY <1>2, <1>4 DEF Written
<1>6. /\ writes' \in [Writers -> Seq(S)]
      /\ writes'[Batch] = q
      /\ \A w \in Writers : w # Batch => writes'[w] = writes[w]
  BY <1>3, <1>5
<1>7. batch' = [batch EXCEPT !.at = "write"]
  BY DEF Written
<1> QED BY <1>1, <1>4, <1>6, <1>7

\* The installation begins.
LEMMA InstallTyped ==
  ASSUME NEW S, Typed(S), batch.data \in S, S \subseteq Data,
         NEW out \in S \union {None}, NEW in \in S \union {None},
         NEW applied, InstallIntents(out, in, applied)
  PROVE  LET v == batch.data.version
         IN /\ jobs' \in [Versions -> Installation(S) \union {None}]
            /\ answer' \in [Versions -> [Installers ->
                              {"none", "applying", "removed", "done"}]]
            /\ v \in Versions
            /\ jobs'[v] = [toUninstall |-> out, toInstall |-> in,
                           pendingContexts |-> Installers, errorContexts |-> {}]
            /\ \A i \in Installers : answer'[v][i] \in {"none", "applying"}
            /\ \A u \in Versions : u # v => /\ jobs'[u] = jobs[u]
                                            /\ answer'[u] = answer[u]
<1>1. PICK v : v = batch.data.version /\ v \in Versions
  BY DEF Data
<1>2. PICK job : job = [toUninstall |-> out, toInstall |-> in,
                        pendingContexts |-> Installers, errorContexts |-> {}]
  OBVIOUS
<1>3. jobs' = [jobs EXCEPT ![v] = job]
  BY <1>1, <1>2 DEF InstallIntents
<1>4. job \in Installation(S)
  BY <1>2 DEF Installation
<1>5. jobs' \in [Versions -> Installation(S) \union {None}]
  BY <1>1, <1>3, <1>4 DEF Typed
<1>a. PICK a : a = [i \in Installers |->
                     IF i \in applied THEN "applying" ELSE "none"]
  OBVIOUS
<1>b. /\ a \in [Installers -> {"none", "applying", "removed", "done"}]
      /\ \A i \in Installers : a[i] \in {"none", "applying"}
  BY <1>a
<1>6. answer' = [answer EXCEPT ![v] = a]
  BY <1>1, <1>a DEF InstallIntents
<1>7. answer' \in [Versions -> [Installers ->
                    {"none", "applying", "removed", "done"}]]
  BY <1>1, <1>6, <1>b DEF Typed
<1>8. jobs'[v] = job /\ \A u \in Versions : u # v => jobs'[u] = jobs[u]
  BY <1>1, <1>3 DEF Typed
<1>9. /\ \A i \in Installers : answer'[v][i] \in {"none", "applying"}
      /\ \A u \in Versions : u # v => answer'[u] = answer[u]
  BY <1>1, <1>6, <1>b DEF Typed
<1> QED BY <1>1, <1>2, <1>5, <1>7, <1>8, <1>9

-----------------------------------------------------------------------------
(* What the steps do *)

Process == \/ CompileSucceeds \/ CompileFails \/ ProcessThrows
           \/ ProcessWithdraw \/ ProcessPurge

\* What a phase may write without having installed anything.
Quiet(r) ==
  \/ r = None
  \/ r.state = "FAILED"
  \/ r = batch.stored
  \/ r = batch.data
  \/ r.state = "WITHDRAWN" /\ r.version = batch.data.version

\* The installation of in, or the removal of out, while r is to be written:
\* data of the request in process either way, and r is not an outcome.
Starts(r, out, in, applied) ==
  /\ InstallIntents(out, in, applied)
  /\ r # None => r.state \in {"INSTALLING", "WITHDRAWING", "FAILED"}
  /\ \/ in # None /\ in.version = batch.data.version
     \/ in = None /\ out # None /\ out.version = batch.data.version

\* The phases write data and may begin an installation.
LEMMA ProcessFacts ==
  ASSUME NEW S, Closed(S), Typed(S), Process
  PROVE  /\ batch.at = "process"
         /\ UNCHANGED <<clock, calls, pending, events, items, ready, current, stamp,
                        verdict, corrupted, asking>>
         /\ \/ \E r \in S \union {None} :
                 Written(r) /\ Quiet(r) /\ UNCHANGED <<jobs, answer>>
            \/ \E r, out, in \in S \union {None} :
                 \E applied : Written(r) /\ Starts(r, out, in, applied)
<1>1. batch.at = "process"
  BY DEF Process, CompileSucceeds, CompileFails, ProcessThrows,
         ProcessWithdraw, ProcessPurge
<1>2. UNCHANGED <<clock, calls, pending, events, items, ready, current, stamp,
                  verdict, corrupted, asking>>
  BY DEF Process, CompileSucceeds, CompileFails, ProcessThrows,
         ProcessWithdraw, ProcessPurge, requests, stored, cleanup
<1>3. PICK d : d = batch.data /\ d \in S
  BY <1>1, BatchFacts
<1>4. PICK s : s = batch.stored /\ s \in S \union {None}
  BY <1>1, BatchFacts
<1>5. S \subseteq Data /\ TRUE \in BOOLEAN
  BY DEF Closed
<1>6. {"FAILED", "WITHDRAWN", "INSTALLING", "WITHDRAWING"} \subseteq Outcomes
  BY DEF Outcomes, States, Requests
<1>7. ASSUME NEW e \in S
      PROVE  /\ NextState(e, "FAILED") \in S
             /\ NextState(e, "FAILED").state = "FAILED"
             /\ NextState(e, "WITHDRAWN") \in S
             /\ NextState(e, "WITHDRAWN").state = "WITHDRAWN"
             /\ NextState(e, "WITHDRAWN").version = e.version
             /\ Compiled(e, "INSTALLING", TRUE) \in S
             /\ Compiled(e, "INSTALLING", TRUE).state = "INSTALLING"
             /\ Compiled(e, "INSTALLING", TRUE).version = e.version
             /\ Compiled(e, "WITHDRAWING", TRUE) \in S
             /\ Compiled(e, "WITHDRAWING", TRUE).state = "WITHDRAWING"
             /\ Compiled(e, "WITHDRAWING", TRUE).version = e.version
  <2>1. e \in Data /\ None \in Data \union {None}
    BY <1>5
  <2>2. \A st \in Outcomes : /\ NextState(e, st).state = st
                             /\ NextState(e, st).version = e.version
                             /\ Compiled(e, st, TRUE).state = st
                             /\ Compiled(e, st, TRUE).version = e.version
    BY <1>5, <2>1, DataOps
  <2>3. \A st \in Outcomes : NextState(e, st) \in S /\ Compiled(e, st, TRUE) \in S
    BY <1>5 DEF Closed
  <2> QED BY <1>6, <2>2, <2>3
<1> DEFINE P == \E r \in S \union {None} :
                   Written(r) /\ Quiet(r) /\ UNCHANGED <<jobs, answer>>
           Q == \E r, out, in \in S \union {None} :
                   \E applied : Written(r) /\ Starts(r, out, in, applied)
<1>n. None \notin S
  BY <1>5, NoneAssumption
<1>w. ASSUME Withdrawing(d)
      PROVE  Q
  <2>1. PICK r : r = Compiled(d, "WITHDRAWING", TRUE) /\ r \in S
    BY <1>3, <1>7
  <2>2. Written(r) /\ InstallIntents(r, None, Installers)
    BY <1>w, <2>1 DEF Withdrawing
  <2>3. Starts(r, r, None, Installers)
    BY <1>3, <1>7, <1>n, <2>1, <2>2 DEF Starts
  <2> QED BY <2>1, <2>2, <2>3
<1>8. CASE CompileSucceeds
  <2>1. PICK r : r = Compiled(d, "INSTALLING", TRUE) /\ r \in S
    BY <1>3, <1>7
  <2>2. Written(r) /\ InstallIntents(s, r, Installers)
    BY <1>3, <1>4, <1>8, <2>1 DEF CompileSucceeds
  <2>3. Starts(r, s, r, Installers)
    BY <1>3, <1>7, <1>n, <2>1, <2>2 DEF Starts
  <2>4. Q
    BY <1>4, <2>1, <2>2, <2>3
  <2> QED BY <1>1, <1>2, <2>4
<1>9. CASE CompileFails
  <2>1. CASE Withdrawing(d)
    BY <1>1, <1>2, <1>w, <2>1
  <2>2. CASE Written(NextState(d, "FAILED")) /\ UNCHANGED install
    <3>1. Quiet(NextState(d, "FAILED"))
      BY <1>3, <1>7 DEF Quiet
    <3>2. P
      BY <1>3, <1>7, <2>2, <3>1 DEF install
    <3> QED BY <1>1, <1>2, <3>2
  <2> QED BY <1>3, <1>9, <2>1, <2>2 DEF CompileFails
<1>10. CASE ProcessThrows
  <2>1. PICK r \in S \union {None} : /\ Written(r)
                                     /\ r # None => r.state = "FAILED"
    <3>1. CASE current = None
      <4>1. Written(None)
        BY <1>10, <3>1 DEF ProcessThrows
      <4>2. None \in S \union {None}
        OBVIOUS
      <4> QED BY <4>1, <4>2, Zenon
    <3>2. CASE current # None
      <4>1. PICK c : c = current /\ c \in S
        BY <3>2 DEF Typed
      <4>2. Written(NextState(c, "FAILED"))
        BY <1>10, <3>2, <4>1 DEF ProcessThrows
      <4>3. c \in S
        BY <4>1
      <4>4. NextState(c, "FAILED") \in S /\ NextState(c, "FAILED").state = "FAILED"
        BY <1>7, <4>3
      <4>5. PICK e : e = NextState(c, "FAILED")
        OBVIOUS
      <4>6. e \in S \union {None} /\ Written(e) /\ e.state = "FAILED"
        BY <4>2, <4>4, <4>5
      <4> QED BY <4>6
    <3> QED BY <3>1, <3>2
  <2>2. CASE UNCHANGED install
    <3>1. Quiet(r) /\ UNCHANGED <<jobs, answer>>
      BY <2>1, <2>2 DEF Quiet, install
    <3>2. P
      BY <2>1, <3>1
    <3> QED BY <1>1, <1>2, <3>2
  <2>3. ASSUME NEW applied,
               InstallIntents(s, Compiled(d, "INSTALLING", TRUE), applied)
        PROVE  Q
    <3>1. PICK e : e = Compiled(d, "INSTALLING", TRUE) /\ e \in S
      BY <1>3, <1>7
    <3>2. Starts(r, s, e, applied)
      BY <1>3, <1>7, <1>n, <2>1, <2>3, <3>1 DEF Starts
    <3> QED BY <1>4, <2>1, <3>1, <3>2
  <2>4. ASSUME NEW applied,
               InstallIntents(Compiled(d, "WITHDRAWING", TRUE), None, applied)
        PROVE  Q
    <3>1. PICK e : e = Compiled(d, "WITHDRAWING", TRUE) /\ e \in S
      BY <1>3, <1>7
    <3>2. Starts(r, e, None, applied)
      BY <1>3, <1>7, <1>n, <2>1, <2>4, <3>1 DEF Starts
    <3> QED BY <2>1, <3>1, <3>2
  <2>5. UNCHANGED install \/ Q
    BY <1>3, <1>4, <1>10, <2>3, <2>4 DEF ProcessThrows
  <2> QED BY <1>1, <1>2, <2>2, <2>5
<1>11. CASE ProcessWithdraw
  <2>1. CASE Withdrawing(d)
    BY <1>1, <1>2, <1>w, <2>1
  <2>2. CASE Written(NextState(d, "WITHDRAWN")) /\ UNCHANGED install
    <3>1. Quiet(NextState(d, "WITHDRAWN"))
      BY <1>3, <1>7 DEF Quiet
    <3>2. P
      BY <1>3, <1>7, <2>2, <3>1 DEF install
    <3> QED BY <1>1, <1>2, <3>2
  <2> QED BY <1>3, <1>11, <2>1, <2>2 DEF ProcessWithdraw
<1>12. CASE ProcessPurge
  <2>1. (Written(d) \/ Written(s)) /\ UNCHANGED install
    BY <1>3, <1>4, <1>12 DEF ProcessPurge
  <2>2. Quiet(d) /\ Quiet(s)
    BY <1>3, <1>4 DEF Quiet
  <2>3. P
    BY <1>3, <1>4, <2>1, <2>2 DEF install
  <2> QED BY <1>1, <1>2, <2>3
<1> QED BY <1>8, <1>9, <1>10, <1>11, <1>12 DEF Process

\* finish writes data of the set, and success only if there was no error.
LEMMA FinishFacts ==
  ASSUME NEW S, Closed(S), None \notin S,
         NEW job \in Installation(S),
         job.toInstall = None => job.toUninstall # None
  PROVE  /\ Finish(job) \in Seq(S)
         /\ \A d \in Elements(Finish(job)) :
              d.state \in {"INSTALLED", "WITHDRAWN"} =>
                /\ job.errorContexts = {}
                /\ d.version = IF job.toInstall # None THEN job.toInstall.version
                               ELSE job.toUninstall.version
<1>1. PICK in : in = job.toInstall /\ in \in S \union {None}
  BY DEF Installation
<1>2. PICK out : out = job.toUninstall /\ out \in S \union {None}
  BY DEF Installation
<1>3. S \subseteq Data
  BY DEF Closed
<1>4. ASSUME NEW e \in S
      PROVE  /\ Corrupt(e) \in S
             /\ Corrupt(e).state = "CORRUPT"
             /\ Elements(<<Corrupt(e)>>) = {Corrupt(e)}
             /\ <<Corrupt(e)>> \in Seq(S)
  <2>1. Corrupt(e) \in S /\ "FAILED" \in Outcomes /\ TRUE \in BOOLEAN
    BY DEF Closed, Outcomes, States, Requests
  <2>2. Corrupt(e).state = "CORRUPT"
    BY <1>3, <2>1, DataOps
  <2> QED BY <2>1, <2>2 DEF Elements
<1> DEFINE failed(d) == IF d = None THEN << >> ELSE <<Corrupt(d)>>
<1>5. CASE job.errorContexts # {}
  <2>1. Finish(job) = failed(in) \o failed(out)
    BY <1>1, <1>2, <1>5 DEF Finish
  <2>2. ASSUME NEW e \in S \union {None}
        PROVE  /\ failed(e) \in Seq(S)
               /\ \A d \in Elements(failed(e)) : d.state = "CORRUPT"
    BY <1>4, ElementsOfEmpty
  <2> HIDE DEF failed
  <2>3. failed(in) \in Seq(S) /\ failed(out) \in Seq(S)
    BY <1>1, <1>2, <2>2
  <2>4. /\ failed(in) \o failed(out) \in Seq(S)
        /\ Elements(failed(in) \o failed(out))
             = Elements(failed(in)) \union Elements(failed(out))
    BY <2>3, ElementsOfConcat, ConcatProperties
  <2> QED BY <1>1, <1>2, <2>1, <2>2, <2>4
<1>6. CASE job.errorContexts = {}
  <2>1. PICK e, st, f : /\ Finish(job) = <<Compiled(e, st, f)>>
                        /\ e = IF in # None THEN in ELSE out
                        /\ e \in S /\ st \in Outcomes /\ f \in BOOLEAN
    <3>1. CASE in # None
      <4>1. Finish(job) = <<Compiled(in, "INSTALLED", in.installables)>>
        BY <1>1, <1>6, <3>1 DEF Finish
      <4>2. in \in S /\ in.installables \in BOOLEAN
        BY <1>1, <1>3, <3>1 DEF Data
      <4>3. "INSTALLED" \in Outcomes
        BY DEF Outcomes, States, Requests
      <4> QED BY <3>1, <4>1, <4>2, <4>3
    <3>2. CASE in = None
      <4>1. PICK st : st = IF out.request = "INSTALL_REQ" THEN "FAILED"
                           ELSE "WITHDRAWN"
        OBVIOUS
      <4>2. Finish(job) = <<Compiled(out, st, FALSE)>>
        BY <1>1, <1>2, <1>6, <3>2, <4>1 DEF Finish
      <4>3. out \in S
        BY <1>1, <1>2, <3>2
      <4>4. st \in Outcomes /\ FALSE \in BOOLEAN
        BY <4>1 DEF Outcomes, States, Requests
      <4> QED BY <3>2, <4>2, <4>3, <4>4
    <3> QED BY <3>1, <3>2
  <2>2. PICK d : d = Compiled(e, st, f) /\ d \in S
    BY <2>1 DEF Closed
  <2>3. d.version = e.version
    BY <1>3, <2>1, <2>2, DataOps
  <2>4. Elements(<<d>>) = {d} /\ <<d>> \in Seq(S)
    BY <2>2 DEF Elements
  <2> QED BY <1>1, <1>2, <1>6, <2>1, <2>2, <2>3, <2>4
<1> QED BY <1>5, <1>6

\* An installer answers: its context is taken out, perhaps with an error.
LEMMA AnswerFacts ==
  ASSUME NEW S, Typed(S), JobsOK, S \subseteq Data,
         NEW v \in Versions, NEW i \in Installers, NEW errs \in SUBSET Installers,
         InstallerAnswers(v, i, errs)
  PROVE  /\ UNCHANGED <<clock, calls, pending, events, items, ready, batch, current,
                        stamp, writes, verdict, corrupted, asking>>
         /\ jobs[v] # None
         /\ jobs' \in [Versions -> Installation(S) \union {None}]
         /\ jobs'[v] # None
         /\ jobs'[v].toInstall = jobs[v].toInstall
         /\ jobs'[v].toUninstall = jobs[v].toUninstall
         /\ jobs'[v].pendingContexts = jobs[v].pendingContexts \ {i}
         /\ \A u \in Versions : u # v => jobs'[u] = jobs[u]
         /\ answer' \in [Versions -> [Installers ->
                           {"none", "applying", "removed", "done"}]]
         /\ answer[v][i] = "applying"
         /\ answer'[v][i] = "removed"
         /\ \A u \in Versions, j \in Installers :
              u # v \/ j # i => answer'[u][j] = answer[u][j]
<1>1. UNCHANGED <<clock, calls, pending, events, items, ready, batch, current,
                  stamp, writes, verdict, corrupted, asking>>
  BY DEF InstallerAnswers, requests, queueing, stored, writing, cleanup
<1>2. /\ answer[v][i] = "applying"
      /\ answer' = [answer EXCEPT ![v][i] = "removed"]
  BY DEF InstallerAnswers
<1>3. jobs[v] # None
  BY <1>2 DEF JobsOK
<1>4. PICK Job : Job = Installation(S)
  OBVIOUS
<1>5. jobs \in [Versions -> Job \union {None}]
  BY <1>4 DEF Typed
<1>6. PICK job : job = jobs[v]
  OBVIOUS
<1>7. job \in Job /\ Job \subseteq Installation(Data)
  BY <1>3, <1>4, <1>5, <1>6 DEF Installation
<1>8. PICK new : new = [job EXCEPT !.errorContexts = @ \union errs,
                                   !.pendingContexts = @ \ {i}]
  OBVIOUS
<1>9. jobs' = [jobs EXCEPT ![v] = new]
  BY <1>5, <1>6, <1>8 DEF InstallerAnswers
<1>10. /\ new \in Job
       /\ new.toInstall = job.toInstall
       /\ new.toUninstall = job.toUninstall
       /\ new.pendingContexts = job.pendingContexts \ {i}
  BY <1>4, <1>7, <1>8 DEF Installation
<1>11. /\ jobs' \in [Versions -> Job \union {None}]
       /\ jobs'[v] = new
       /\ \A u \in Versions : u # v => jobs'[u] = jobs[u]
  BY <1>5, <1>9, <1>10
<1>12. /\ answer' \in [Versions -> [Installers ->
                         {"none", "applying", "removed", "done"}]]
       /\ answer'[v][i] = "removed"
       /\ \A u \in Versions, j \in Installers :
            u # v \/ j # i => answer'[u][j] = answer[u][j]
  BY <1>2 DEF Typed
<1> QED BY <1>1, <1>2, <1>3, <1>4, <1>6, <1>7, <1>10, <1>11, <1>12, NoneAssumption

\* An installer that has answered finishes the installation or does not.
LEMMA FinishedFacts ==
  ASSUME NEW S, Closed(S), Typed(S), JobsOK,
         NEW v \in Versions, NEW i \in Installers, CheckFinished(v, i)
  PROVE  /\ UNCHANGED <<clock, calls, pending, events, items, ready, batch, current,
                        stamp, jobs, verdict, corrupted, asking>>
         /\ jobs[v] # None
         /\ jobs[v] \in Installation(S)
         /\ answer' \in [Versions -> [Installers ->
                           {"none", "applying", "removed", "done"}]]
         /\ answer[v][i] = "removed"
         /\ answer'[v][i] = "done"
         /\ \A u \in Versions, j \in Installers :
              u # v \/ j # i => answer'[u][j] = answer[u][j]
         /\ writes' \in [Writers -> Seq(S)]
         /\ writes[<<v, i>>] = << >>
         /\ \/ writes'[<<v, i>>] = << >>
            \/ /\ jobs[v].pendingContexts = {}
               /\ writes'[<<v, i>>] = Finish(jobs[v])
         /\ \A w \in Writers : w # <<v, i>> => writes'[w] = writes[w]
<1>1. UNCHANGED <<clock, calls, pending, events, items, ready, batch, current,
                  stamp, jobs, verdict, corrupted, asking>>
  BY DEF CheckFinished, requests, queueing, stored, cleanup
<1>2. /\ answer[v][i] = "removed"
      /\ answer' = [answer EXCEPT ![v][i] = "done"]
  BY DEF CheckFinished
<1>3. jobs[v] # None /\ writes[<<v, i>>] = << >>
  BY <1>2 DEF JobsOK
<1>4. jobs[v] \in Installation(S)
  BY <1>3 DEF Typed
<1>5. None \notin S
  BY NoneAssumption DEF Closed
<1>6. jobs[v].toInstall = None => jobs[v].toUninstall # None
  BY <1>3 DEF JobsOK
<1>7. Finish(jobs[v]) \in Seq(S)
  BY <1>4, <1>5, <1>6, FinishFacts
<1>8. PICK q : q = IF jobs[v].pendingContexts = {} THEN Finish(jobs[v]) ELSE << >>
  OBVIOUS
<1>9. q \in Seq(S) /\ writes' = [writes EXCEPT ![<<v, i>>] = q]
  BY <1>7, <1>8 DEF CheckFinished
<1>10. <<v, i>> \in Writers /\ writes \in [Writers -> Seq(S)]
  BY WriterFacts DEF Typed
<1>11. /\ writes' \in [Writers -> Seq(S)]
       /\ writes'[<<v, i>>] = q
       /\ \A w \in Writers : w # <<v, i>> => writes'[w] = writes[w]
  BY <1>9, <1>10
<1>12. /\ answer' \in [Versions -> [Installers ->
                         {"none", "applying", "removed", "done"}]]
       /\ answer'[v][i] = "done"
       /\ \A u \in Versions, j \in Installers :
            u # v \/ j # i => answer'[u][j] = answer[u][j]
  BY <1>2 DEF Typed
<1> QED BY <1>1, <1>2, <1>3, <1>4, <1>8, <1>11, <1>12

\* The first half of write.
LEMMA CheckFacts ==
  ASSUME NEW S, Typed(S), NEW w \in Writers, CheckUpdate(w)
  PROVE  /\ UNCHANGED <<clock, calls, pending, events, items, ready, batch, current,
                        stamp, jobs, answer, writes, corrupted, asking>>
         /\ writes[w] # << >>
         /\ Head(writes[w]) \in S
         /\ verdict' \in [Writers -> [is : {"unread", "accept", "reject"},
                                      old : S \union {None}]]
         /\ verdict'[w].is \in {"accept", "reject"}
         /\ verdict'[w].is = "accept" <=>
              IsUpdateAcceptable(current, Head(writes[w]))
         /\ verdict'[w].old \in {None, current}
         /\ \A x \in Writers : x # w => verdict'[x] = verdict[x]
<1>1. UNCHANGED <<clock, calls, pending, events, items, ready, batch, current,
                  stamp, jobs, answer, writes, corrupted, asking>>
  BY DEF CheckUpdate, requests, queueing, stored, install, cleanup
<1>2. writes[w] # << >> /\ writes[w] \in Seq(S)
  BY DEF CheckUpdate, Typed
<1>3. PICK d : d = Head(writes[w]) /\ d \in S
  BY <1>2, ElementsOfTail
<1>4. PICK u : u = [is  |-> IF IsUpdateAcceptable(current, d) THEN "accept"
                            ELSE "reject",
                    old |-> IF d.state = "PURGE_REQ" THEN current ELSE None]
  OBVIOUS
<1>5. verdict' = [verdict EXCEPT ![w] = u]
  BY <1>3, <1>4 DEF CheckUpdate
<1>6. /\ u \in [is : {"unread", "accept", "reject"}, old : S \union {None}]
      /\ u.is \in {"accept", "reject"}
      /\ u.is = "accept" <=> IsUpdateAcceptable(current, d)
      /\ u.old \in {None, current}
  BY <1>4 DEF Typed
<1>7. /\ verdict' \in [Writers -> [is : {"unread", "accept", "reject"},
                                   old : S \union {None}]]
      /\ verdict'[w] = u
      /\ \A x \in Writers : x # w => verdict'[x] = verdict[x]
  BY <1>5, <1>6 DEF Typed
<1> QED BY <1>1, <1>2, <1>3, <1>6, <1>7

\* The second half.
LEMMA ApplyFacts ==
  ASSUME NEW S, Typed(S), NEW w \in Writers, ApplyUpdate(w), NEW d,
         d = Head(writes[w])
  PROVE  /\ UNCHANGED <<clock, calls, events, items, ready, batch, jobs, answer,
                        asking>>
         /\ writes[w] # << >>
         /\ d \in S
         /\ verdict[w] # Unread
         /\ writes' \in [Writers -> Seq(S)]
         /\ writes'[w] = Tail(writes[w])
         /\ Elements(writes'[w]) \subseteq Elements(writes[w])
         /\ d \in Elements(writes[w])
         /\ \A x \in Writers : x # w => writes'[x] = writes[x]
         /\ verdict' \in [Writers -> [is : {"unread", "accept", "reject"},
                                      old : S \union {None}]]
         /\ verdict'[w] = Unread
         /\ \A x \in Writers : x # w => verdict'[x] = verdict[x]
         /\ \/ /\ verdict[w].is = "accept"
               /\ d.state # "PURGE_REQ"
               /\ Wins(d)
               /\ current' = d
               /\ stamp' = [version |-> d.version, isv |-> d.isv]
            \/ /\ verdict[w].is = "accept"
               /\ d.state = "PURGE_REQ"
               /\ verdict[w].old # None
               /\ Wins(verdict[w].old)
               /\ current' = None
               /\ stamp' = [version |-> verdict[w].old.version,
                            isv |-> verdict[w].old.isv]
            \/ /\ verdict[w].is = "accept" => d.state = "PURGE_REQ" \/ ~Wins(d)
               /\ UNCHANGED <<current, stamp>>
         /\ corrupted' \in {corrupted, corrupted + 1}
         /\ pending' = IF TakenOut(d) THEN None ELSE pending
<1>1. UNCHANGED <<clock, calls, events, items, ready, batch, jobs, answer, asking>>
  BY DEF ApplyUpdate, queueing, install
<1>2. writes[w] # << >> /\ writes[w] \in Seq(S) /\ verdict[w] # Unread
  BY DEF ApplyUpdate, Typed
<1>3. /\ d \in S
      /\ Tail(writes[w]) \in Seq(S)
      /\ Elements(writes[w]) = {d} \union Elements(Tail(writes[w]))
  BY <1>2, ElementsOfTail
<1>4. /\ writes' = [writes EXCEPT ![w] = Tail(writes[w])]
      /\ verdict' = [verdict EXCEPT ![w] = Unread]
  BY DEF ApplyUpdate
<1>5. /\ writes' \in [Writers -> Seq(S)]
      /\ writes'[w] = Tail(writes[w])
      /\ \A x \in Writers : x # w => writes'[x] = writes[x]
  BY <1>3, <1>4 DEF Typed
<1>6. /\ verdict' \in [Writers -> [is : {"unread", "accept", "reject"},
                                   old : S \union {None}]]
      /\ verdict'[w] = Unread
      /\ \A x \in Writers : x # w => verdict'[x] = verdict[x]
  BY <1>4 DEF Typed, Unread
<1>7. /\ \/ /\ verdict[w].is = "accept"
            /\ d.state # "PURGE_REQ"
            /\ Wins(d)
            /\ current' = d
            /\ stamp' = [version |-> d.version, isv |-> d.isv]
         \/ /\ verdict[w].is = "accept"
            /\ d.state = "PURGE_REQ"
            /\ verdict[w].old # None
            /\ Wins(verdict[w].old)
            /\ current' = None
            /\ stamp' = [version |-> verdict[w].old.version,
                         isv |-> verdict[w].old.isv]
         \/ /\ verdict[w].is = "accept" => d.state = "PURGE_REQ" \/ ~Wins(d)
            /\ UNCHANGED <<current, stamp>>
      /\ corrupted' \in {corrupted, corrupted + 1}
      /\ pending' = IF TakenOut(d) THEN None ELSE pending
  BY Zenon DEF ApplyUpdate, stored
<1> QED BY <1>1, <1>2, <1>3, <1>5, <1>6, <1>7

-----------------------------------------------------------------------------
(* Steps keep the types *)

Requesting == \/ \E req \in Asked : Request(req)
              \/ \E t \in Threads : Resubmit(t)
Putting    == \E c \in calls : AddPending(c) \/ RefusePut(c)
Noting     == \/ LookForPending \/ LookForFailed
              \/ HandleCorrupt \/ TriggerCompile

\* The data a request may consist of.
Askable(r, st) ==
  \/ st = r
  \/ \E t \in Threads : /\ asking[t] # None
                        /\ asking[t].again # None
                        /\ r = asking[t].again.request
                        /\ st = asking[t].again.state

\* A request with a new version is intent data; V are the versions before.
LEMMA VersionGiven ==
  ASSUME NEW B, NEW V,
         NEW d \in [request : Requests, version : V, isv : Nat,
                    state : States, installables : B, errorCount : Nat],
         NEW v \in Versions, NEW n \in Nat
  PROVE  /\ [d EXCEPT !.version = v, !.isv = n]
              \in [request : Requests, version : Versions, isv : Nat,
                   state : States, installables : B, errorCount : Nat]
         /\ [d EXCEPT !.version = v, !.isv = n].version = v
         /\ [d EXCEPT !.version = v, !.isv = n].request = d.request
         /\ [d EXCEPT !.version = v, !.isv = n].state = d.state
OBVIOUS

\* Intent data that may be without a version.
Unversioned ==
  [request : Requests, version : Versions \union {None}, isv : Nat,
   state : States, installables : BOOLEAN, errorCount : Nat]

\* What becomes of data for which a version is drawn.
LEMMA DrawFacts ==
  ASSUME Typed(Data), NEW by \in Threads \union {"client"},
         NEW again \in BOOLEAN, NEW data \in Unversioned,
         Draw(by, again, data)
  PROVE  /\ clock < MaxVersion
         /\ clock' = clock + 1
         /\ UNCHANGED <<pending, events>>
         /\ \E c \in Calls(Data) : /\ calls' = calls \union {c}
                                   /\ c.data.version = clock + 1
                                   /\ c.data.request = data.request
                                   /\ c.data.state = data.state
<1>1. PICK v, n : v = clock + 1 /\ n = data.isv + 1
  OBVIOUS
<1>2. clock < MaxVersion /\ clock' = clock + 1 /\ UNCHANGED <<pending, events>>
  BY DEF Draw
<1>3. v \in Versions /\ n \in Nat
  <2>1. clock \in Nat
    BY DEF Typed
  <2>2. data.isv \in Nat
    BY DEF Unversioned
  <2> QED BY <1>1, <1>2, <2>1, <2>2, ConstantsAssumption DEF Versions
<1>4. PICK e : e = [data EXCEPT !.version = v, !.isv = n]
  OBVIOUS
<1>5. e \in [request : Requests, version : Versions, isv : Nat,
             state : States, installables : BOOLEAN, errorCount : Nat]
  BY <1>3, <1>4, VersionGiven, Zenon DEF Unversioned
<1>6. e.version = v /\ e.request = data.request /\ e.state = data.state
  BY <1>4 DEF Unversioned
<1>7. PICK c : c = [by |-> by, again |-> again, data |-> e]
  OBVIOUS
<1>8. calls' = calls \union {c}
  BY <1>1, <1>4, <1>7 DEF Draw
<1>9. PICK B : B = BOOLEAN
  OBVIOUS
<1>10. c \in [by : Threads \union {"client"}, again : B, data : Data] /\ c.data = e
  <2>1. e \in Data /\ again \in B
    BY <1>5, <1>9, Zenon DEF Data
  <2> QED BY <1>7, <2>1
<1>11. c \in Calls(Data)
  BY <1>9, <1>10, Zenon DEF Calls
<1> QED BY <1>1, <1>2, <1>6, <1>8, <1>10, <1>11

\* submit, withdraw and purge.
LEMMA FreshFacts ==
  ASSUME NEW req \in Requests
  PROVE  /\ Fresh(req) \in Unversioned
         /\ Fresh(req).request = req
         /\ Fresh(req).state = req
<1>1. PICK f : f = FALSE /\ f \in BOOLEAN
  OBVIOUS
<1>2. Fresh(req) = [request |-> req, version |-> None, isv |-> 0, state |-> req,
                    installables |-> f, errorCount |-> 0]
  BY <1>1 DEF Fresh
<1>3. req \in States
  BY DEF States
<1> QED BY <1>1, <1>2, <1>3 DEF Unversioned

\* A step that draws a version for a request.
LEMMA RequestingFacts ==
  ASSUME Typed(Data), Requesting
  PROVE  /\ UNCHANGED <<pending, events, items, ready, batch, current, stamp,
                        jobs, answer, writes, verdict, corrupted>>
         /\ clock < MaxVersion
         /\ clock' = clock + 1
         /\ \E c \in Calls(Data) : /\ calls' = calls \union {c}
                                   /\ c.data.version = clock + 1
                                   /\ Askable(c.data.request, c.data.state)
         /\ \/ asking' = asking
            \/ \E t \in Threads : asking' = [asking EXCEPT ![t] = None]
<1> DEFINE D == /\ clock < MaxVersion
                /\ clock' = clock + 1
                /\ UNCHANGED <<pending, events>>
                /\ \E c \in Calls(Data) :
                     /\ calls' = calls \union {c}
                     /\ c.data.version = clock + 1
                     /\ Askable(c.data.request, c.data.state)
<1>1. ASSUME NEW by \in Threads \union {"client"}, NEW req \in Requests,
             Draw(by, FALSE, Fresh(req))
      PROVE  D
  <2>1. PICK data : data = Fresh(req)
    OBVIOUS
  <2>2. /\ data \in Unversioned
        /\ data.request = req
        /\ data.state = req
    BY <2>1, FreshFacts
  <2>3. PICK f : f = FALSE /\ f \in BOOLEAN
    OBVIOUS
  <2>4. Draw(by, f, data)
    BY <1>1, <2>1, <2>3
  <2>5. Askable(data.request, data.state)
    BY <2>2 DEF Askable
  <2>6. /\ clock < MaxVersion
        /\ clock' = clock + 1
        /\ UNCHANGED <<pending, events>>
        /\ \E c \in Calls(Data) : /\ calls' = calls \union {c}
                                  /\ c.data.version = clock + 1
                                  /\ c.data.request = data.request
                                  /\ c.data.state = data.state
    BY <2>2, <2>3, <2>4, DrawFacts
  <2> QED BY <2>5, <2>6
<1>2. ASSUME NEW t \in Threads, asking[t] # None, asking[t].again # None,
             Draw(t, TRUE, asking[t].again)
      PROVE  D
  <2>1. PICK data : data = asking[t].again
    OBVIOUS
  <2>2. data \in Data
    BY <1>2, <2>1 DEF Typed, Asking
  <2>3. PICK f : f = TRUE /\ f \in BOOLEAN
    OBVIOUS
  <2>4. Draw(t, f, data)
    BY <1>2, <2>1, <2>3
  <2>5. Askable(data.request, data.state)
    BY <1>2, <2>1 DEF Askable
  <2>6. data \in Unversioned
    BY <2>2 DEF Data, Unversioned
  <2>7. t \in Threads \union {"client"}
    OBVIOUS
  <2>8. /\ clock < MaxVersion
        /\ clock' = clock + 1
        /\ UNCHANGED <<pending, events>>
        /\ \E c \in Calls(Data) : /\ calls' = calls \union {c}
                                  /\ c.data.version = clock + 1
                                  /\ c.data.request = data.request
                                  /\ c.data.state = data.state
    BY <2>3, <2>4, <2>6, <2>7, DrawFacts
  <2> QED BY <2>5, <2>8
<1>3. CASE \E req \in Asked : Request(req)
  <2>1. PICK req \in Asked : Request(req)
    BY <1>3
  <2>2. Draw("client", FALSE, Fresh(req))
    BY <2>1 DEF Request
  <2>3. D
    BY <1>1, <2>2, AskedAssumption
  <2> QED BY <2>1, <2>3
       DEF Request, queueing, stored, install, writing, cleanup
<1>4. CASE \E t \in Threads : Resubmit(t)
  <2>1. PICK t \in Threads : Resubmit(t)
    BY <1>4
  <2>2. asking[t] # None
    BY <2>1 DEF Resubmit
  <2>3. CASE asking[t].again # None
    <3>1. Draw(t, TRUE, asking[t].again)
      BY <2>1, <2>3 DEF Resubmit
    <3>2. D
      BY <1>2, <2>2, <2>3, <3>1
    <3> QED BY <2>1, <3>2 DEF Resubmit, queueing, stored, install, writing
  <2>4. CASE asking[t].again = None
    <3>1. Draw(t, FALSE, Fresh(asking[t].request))
      BY <2>1, <2>4 DEF Resubmit
    <3>2. asking[t].request \in Requests
      BY <2>2 DEF Typed, Asking
    <3>3. D
      BY <1>1, <3>1, <3>2
    <3> QED BY <2>1, <3>3 DEF Resubmit, queueing, stored, install, writing
  <2> QED BY <2>3, <2>4
<1> QED BY <1>3, <1>4 DEF Requesting

\* A step that puts a request, or whose put is refused.
LEMMA PuttingFacts ==
  ASSUME Putting
  PROVE  /\ UNCHANGED <<clock, items, ready, batch, current, stamp, jobs, answer,
                        writes, verdict, corrupted, asking>>
         /\ calls' \subseteq calls
         /\ \/ UNCHANGED <<pending, events>>
            \/ \E c \in calls : /\ calls' = calls \ {c}
                                /\ pending' = c.data
                                /\ events' = events \union {c.data}
<1>1. PICK c \in calls : AddPending(c) \/ RefusePut(c)
  BY DEF Putting
<1>2. /\ UNCHANGED <<clock, items, ready, batch, current, stamp, jobs, answer,
                     writes, verdict, corrupted, asking>>
      /\ calls' = calls \ {c}
  BY <1>1 DEF AddPending, RefusePut, queueing, stored, install, writing, cleanup
<1>3. \/ UNCHANGED <<pending, events>>
      \/ pending' = c.data /\ events' = events \union {c.data}
  BY <1>1 DEF AddPending, RefusePut
<1> QED BY <1>2, <1>3

\* A step that decides to make a request, or not to.
LEMMA NotingFacts ==
  ASSUME Typed(Data), Noting
  PROVE  /\ UNCHANGED <<clock, calls, pending, events, items, ready, batch,
                        current, stamp, jobs, answer, writes, verdict>>
         /\ corrupted' \in Nat
         /\ \/ asking' = asking
            \/ \E t \in Threads, req \in Requests, again \in {None, pending, current} :
                 /\ asking' = [asking EXCEPT ![t] = [request |-> req, again |-> again]]
                 /\ again # None /\ again # pending =>
                      again.state \in {"INSTALLING", "WITHDRAWING"}
<1>1. UNCHANGED <<clock, calls, pending, events, items, ready, batch, current,
                  stamp, jobs, answer, writes, verdict>>
  BY DEF Noting, LookForPending, LookForFailed, HandleCorrupt, TriggerCompile,
         requests, queueing, stored, install, writing
<1>2. corrupted' \in Nat
  BY DEF Typed, Noting, LookForPending, LookForFailed, HandleCorrupt, TriggerCompile
<1>3. /\ {"cleanup", "event", "topology"} \subseteq Threads
      /\ {"INSTALL_REQ", "WITHDRAW_REQ"} \subseteq Requests
      /\ pending # None => pending.request \in Requests
      /\ current # None => current.request \in Requests
  BY DEF Threads, Requests, Typed, Data
<1>4. ASSUME NEW t \in Threads, NEW req \in Requests,
             NEW again \in {None, pending, current}, Note(t, req, again),
             again # None /\ again # pending =>
               again.state \in {"INSTALLING", "WITHDRAWING"}
      PROVE  \E u \in Threads, r \in Requests, a \in {None, pending, current} :
               /\ asking' = [asking EXCEPT ![u] = [request |-> r, again |-> a]]
               /\ a # None /\ a # pending =>
                    a.state \in {"INSTALLING", "WITHDRAWING"}
  BY <1>4 DEF Note
<1>5. CASE LookForPending
  BY <1>1, <1>2, <1>3, <1>4, <1>5 DEF LookForPending
<1>6. CASE LookForFailed
  <2>1. CASE Note("cleanup", current.request, None)
    BY <1>1, <1>2, <1>3, <1>4, <1>6, <2>1 DEF LookForFailed
  <2>2. CASE /\ current.state \in {"INSTALLING", "WITHDRAWING"}
             /\ Note("cleanup", current.request, current)
    BY <1>1, <1>2, <1>3, <1>4, <1>6, <2>2 DEF LookForFailed
  <2> QED BY <1>6, <2>1, <2>2 DEF LookForFailed
<1>7. CASE HandleCorrupt
  <2>1. \/ asking' = asking
        \/ current # None /\ Note("event", current.request, None)
    BY <1>7 DEF HandleCorrupt
  <2> QED BY <1>1, <1>2, <1>3, <1>4, <2>1
<1>8. CASE TriggerCompile
  <2>1. \/ Note("topology", "INSTALL_REQ", None)
        \/ Note("topology", "WITHDRAW_REQ", None)
    BY <1>8 DEF TriggerCompile
  <2> QED BY <1>1, <1>2, <1>3, <1>4, <2>1
<1> QED BY <1>5, <1>6, <1>7, <1>8 DEF Noting

\* Next, with the requests and the phases taken together.
LEMMA NextCases ==
  ASSUME Next
  PROVE  \/ Requesting
         \/ Putting
         \/ \E d \in events : HandleEvent(d)
         \/ TakeBatch
         \/ CreateInitialPhase
         \/ Process
         \/ BatchDone
         \/ \E v \in Versions, i \in Installers :
              \E errs \in SUBSET Installers : InstallerAnswers(v, i, errs)
         \/ \E v \in Versions, i \in Installers : CheckFinished(v, i)
         \/ \E w \in Writers : CheckUpdate(w)
         \/ \E w \in Writers : ApplyUpdate(w)
         \/ Noting
<1>1. \A i \in Installers : {} \in SUBSET Installers /\ {i} \in SUBSET Installers
  OBVIOUS
<1> QED BY <1>1 DEF Next, Requesting, Putting, Noting, Process

\* The first request of the queue and the others.
LEMMA LastItem ==
  ASSUME NEW S, NEW s \in Seq(S), s # << >>
  PROVE  s[Len(s)] \in S /\ s[Len(s)] \in Elements(s)
<1>1. Len(s) \in 1..Len(s)
  BY EmptySeq, LenProperties
<1> QED BY <1>1, ElementOfSeq DEF Elements

\* Types are kept if new requests are of their type.
LEMMA TypedStep ==
  ASSUME NEW S, Closed(S), Typed(S), JobsOK, Next,
         calls' \subseteq Calls(S)
  PROVE  Typed(S)'
<1>0. S \subseteq Data /\ None \notin S
  BY NoneAssumption DEF Closed
<1>t. Typed(Data)
  BY <1>0, TypedGrows
<1>1. CASE Requesting
  <2>1. /\ UNCHANGED <<pending, events, items, ready, batch, current, stamp,
                       jobs, answer, writes, verdict, corrupted>>
        /\ clock < MaxVersion
        /\ clock' = clock + 1
        /\ \/ asking' = asking
           \/ \E t \in Threads : asking' = [asking EXCEPT ![t] = None]
    BY <1>1, <1>t, RequestingFacts
  <2>2. clock' \in 0..MaxVersion
    BY <2>1, ConstantsAssumption DEF Typed
  <2>3. asking' \in [Threads -> Asking(S) \union {None}]
    BY <2>1 DEF Typed
  <2> QED BY <2>1, <2>2, <2>3 DEF Typed
<1>p. CASE Putting
  <2>1. \A c \in calls : c.data \in S
    BY DEF Typed, Calls
  <2>2. pending' \in S \union {None} /\ events' \subseteq S
    BY <1>p, <2>1, PuttingFacts DEF Typed
  <2> QED BY <1>p, <2>2, PuttingFacts DEF Typed
<1>11. CASE Noting
  <2>1. /\ UNCHANGED <<clock, calls, pending, events, items, ready, batch,
                       current, stamp, jobs, answer, writes, verdict>>
        /\ corrupted' \in Nat
    BY <1>11, <1>t, NotingFacts
  <2>2. ASSUME NEW t \in Threads, NEW req \in Requests,
               NEW again \in {None, pending, current},
               asking' = [asking EXCEPT ![t] = [request |-> req, again |-> again]]
        PROVE  asking' \in [Threads -> Asking(S) \union {None}]
    <3>1. again \in S \union {None}
      BY DEF Typed
    <3>2. [request |-> req, again |-> again] \in Asking(S)
      BY <3>1 DEF Asking
    <3> QED BY <2>2, <3>2 DEF Typed
  <2>3. asking' \in [Threads -> Asking(S) \union {None}]
    BY <1>11, <1>t, <2>2, NotingFacts DEF Typed
  <2> QED BY <2>1, <2>3 DEF Typed
<1>2. CASE \E d \in events : HandleEvent(d)
  <2>1. PICK d \in events : HandleEvent(d)
    BY <1>2
  <2>2. items' \in Seq(S) /\ events' \subseteq S
    BY <2>1, AppendProperties DEF HandleEvent, Typed
  <2> QED BY <2>1, <2>2 DEF HandleEvent, Typed, stored, install, writing, cleanup
<1>3. CASE TakeBatch
  <2>1. items[Len(items)] \in S
    BY <1>3, LastItem DEF TakeBatch, Typed
  <2>2. batch' \in [at : {"start", "process", "write"},
                    data : S, stored : S \union {None}]
    <3>1. PICK d : d = items[Len(items)] /\ d \in S
      BY <2>1
    <3>2. batch' = [at |-> "start", data |-> d, stored |-> None]
      BY <1>3, <3>1 DEF TakeBatch
    <3> QED BY <3>1, <3>2
  <2>3. items' = << >> /\ ready' = FALSE
    BY <1>3, Zenon DEF TakeBatch
  <2>4. << >> \in Seq(S)
    OBVIOUS
  <2>6. items' \in Seq(S) /\ ready' \in BOOLEAN
    BY <2>3, <2>4, Zenon
  <2>5. UNCHANGED <<clock, pending, events, current, stamp, jobs, answer, writes,
                    verdict, corrupted, asking>>
    BY <1>3 DEF TakeBatch, requests, stored, install, writing, cleanup
  <2> QED BY <2>2, <2>5, <2>6 DEF Typed
<1>4. CASE CreateInitialPhase
  <2>1. batch.at = "start" /\ current \in S \union {None}
    BY <1>4 DEF CreateInitialPhase, Typed
  <2>2. batch \in [at : {"start", "process", "write"},
                   data : S, stored : S \union {None}] /\ batch.data \in S
    BY <2>1, BatchFacts
  <2>3. Transferred(batch.data, current) \in S
    BY <2>1, <2>2 DEF Closed
  <2>4. batch' \in [at : {"start", "process", "write"},
                    data : S, stored : S \union {None}]
    BY <1>4, <2>1, <2>2, <2>3 DEF CreateInitialPhase
  <2> QED BY <1>4, <2>4
       DEF CreateInitialPhase, Typed, requests, stored, install, writing, cleanup
<1>5. CASE Process
  <2>1. /\ batch.at = "process"
        /\ UNCHANGED <<clock, calls, pending, events, items, ready, current, stamp,
                       verdict, corrupted, asking>>
    BY <1>5, ProcessFacts
  <2>2. ASSUME NEW r \in S \union {None}, Written(r), UNCHANGED <<jobs, answer>>
        PROVE  Typed(S)'
    <3>1. /\ batch' \in [at : {"start", "process", "write"},
                         data : S, stored : S \union {None}]
          /\ writes' \in [Writers -> Seq(S)]
      BY <1>0, <2>1, <2>2, WrittenTyped
    <3> QED BY <2>1, <2>2, <3>1 DEF Typed
  <2>3. ASSUME NEW r \in S \union {None}, NEW out \in S \union {None},
               NEW in \in S \union {None}, NEW applied,
               Written(r), Starts(r, out, in, applied)
        PROVE  Typed(S)'
    <3>1. /\ batch' \in [at : {"start", "process", "write"},
                         data : S, stored : S \union {None}]
          /\ writes' \in [Writers -> Seq(S)]
      BY <1>0, <2>1, <2>3, WrittenTyped
    <3>2. batch.data \in S /\ InstallIntents(out, in, applied)
      BY <2>1, <2>3, BatchFacts DEF Starts
    <3>3. /\ jobs' \in [Versions -> Installation(S) \union {None}]
          /\ answer' \in [Versions -> [Installers ->
                            {"none", "applying", "removed", "done"}]]
      BY <1>0, <3>2, InstallTyped
    <3> QED BY <2>1, <3>1, <3>3 DEF Typed
  <2> QED BY <1>5, <2>2, <2>3, ProcessFacts
<1>6. CASE BatchDone
  BY <1>6 DEF BatchDone, Typed, requests, stored, install, writing, cleanup
<1>7. ASSUME NEW v \in Versions, NEW i \in Installers,
             NEW errs \in SUBSET Installers, InstallerAnswers(v, i, errs)
      PROVE  Typed(S)'
  <2>1. /\ UNCHANGED <<clock, calls, pending, events, items, ready, batch, current,
                       stamp, writes, verdict, corrupted, asking>>
        /\ jobs' \in [Versions -> Installation(S) \union {None}]
        /\ answer' \in [Versions -> [Installers ->
                          {"none", "applying", "removed", "done"}]]
    BY <1>0, <1>7, AnswerFacts
  <2> QED BY <2>1 DEF Typed
<1>8. ASSUME NEW v \in Versions, NEW i \in Installers, CheckFinished(v, i)
      PROVE  Typed(S)'
  <2>1. /\ UNCHANGED <<clock, calls, pending, events, items, ready, batch, current,
                       stamp, jobs, verdict, corrupted, asking>>
        /\ answer' \in [Versions -> [Installers ->
                          {"none", "applying", "removed", "done"}]]
        /\ writes' \in [Writers -> Seq(S)]
    BY <1>8, FinishedFacts
  <2> QED BY <2>1 DEF Typed
<1>9. ASSUME NEW w \in Writers, CheckUpdate(w)
      PROVE  Typed(S)'
  <2>1. /\ UNCHANGED <<clock, calls, pending, events, items, ready, batch, current,
                       stamp, jobs, answer, writes, corrupted, asking>>
        /\ verdict' \in [Writers -> [is : {"unread", "accept", "reject"},
                                     old : S \union {None}]]
    BY <1>9, CheckFacts
  <2> QED BY <2>1 DEF Typed
<1>10. ASSUME NEW w \in Writers, ApplyUpdate(w)
       PROVE  Typed(S)'
  <2>1. PICK d : d = Head(writes[w])
    OBVIOUS
  <2>2. /\ UNCHANGED <<clock, calls, events, items, ready, batch, jobs, answer,
                       asking>>
        /\ d \in S
        /\ writes' \in [Writers -> Seq(S)]
        /\ verdict' \in [Writers -> [is : {"unread", "accept", "reject"},
                                     old : S \union {None}]]
        /\ \/ current' = d /\ stamp' = [version |-> d.version, isv |-> d.isv]
           \/ /\ verdict[w].old # None
              /\ current' = None
              /\ stamp' = [version |-> verdict[w].old.version,
                           isv |-> verdict[w].old.isv]
           \/ UNCHANGED <<current, stamp>>
        /\ corrupted' \in {corrupted, corrupted + 1}
        /\ pending' \in {pending, None}
    BY <1>10, <2>1, ApplyFacts
  <2>3. verdict[w].old # None => verdict[w].old \in S
    BY DEF Typed
  <2>4. \A e \in S : [version |-> e.version, isv |-> e.isv]
                       \in [version : 0..MaxVersion, isv : Nat]
    <3>1. \A e \in Data : e.version \in 0..MaxVersion /\ e.isv \in Nat
      BY ConstantsAssumption DEF Data, Versions
    <3> QED BY <1>0, <3>1
  <2>5. stamp' \in [version : 0..MaxVersion, isv : Nat] /\ current' \in S \union {None}
    BY <2>2, <2>3, <2>4 DEF Typed
  <2>6. corrupted' \in Nat /\ pending' \in S \union {None}
    BY <2>2 DEF Typed
  <2> QED BY <2>2, <2>5, <2>6 DEF Typed
<1> QED BY <1>1, <1>p, <1>2, <1>3, <1>4, <1>5, <1>6, <1>7, <1>8, <1>9, <1>10,
           <1>11, NextCases

-----------------------------------------------------------------------------
(* Requests *)

\* A step draws a version for a request, puts one, takes one out, or nothing.
LEMMA RequestStep ==
  ASSUME Typed(Data), Next
  PROVE  \/ /\ clock' = clock
            /\ calls' \subseteq calls
            /\ \/ pending' \in {pending, None} /\ events' \subseteq events
               \/ \E c \in calls : /\ calls' = calls \ {c}
                                   /\ pending' = c.data
                                   /\ events' = events \union {c.data}
         \/ /\ clock' = clock + 1
            /\ UNCHANGED <<pending, events>>
            /\ \E c \in Calls(Data) : /\ calls' = calls \union {c}
                                      /\ c.data.version = clock + 1
                                      /\ Askable(c.data.request, c.data.state)
<1> DEFINE A == /\ clock' = clock
                /\ calls' \subseteq calls
                /\ pending' \in {pending, None} /\ events' \subseteq events
<1>1. CASE Requesting
  BY <1>1, RequestingFacts
<1>p. CASE Putting
  BY <1>p, PuttingFacts
<1>2. CASE \E d \in events : HandleEvent(d)
  BY <1>2 DEF HandleEvent
<1>3. CASE TakeBatch \/ CreateInitialPhase \/ BatchDone
  BY <1>3 DEF TakeBatch, CreateInitialPhase, BatchDone, requests
<1>4. CASE Process
  BY <1>4, ProcessFacts, DataClosed
<1>5. ASSUME NEW v \in Versions, NEW i \in Installers,
             NEW errs \in SUBSET Installers, InstallerAnswers(v, i, errs)
      PROVE  A
  BY <1>5 DEF InstallerAnswers, requests
<1>6. ASSUME NEW v \in Versions, NEW i \in Installers, CheckFinished(v, i)
      PROVE  A
  BY <1>6 DEF CheckFinished, requests
<1>7. ASSUME NEW w \in Writers, CheckUpdate(w)
      PROVE  A
  BY <1>7 DEF CheckUpdate, requests
<1>8. ASSUME NEW w \in Writers, ApplyUpdate(w)
      PROVE  A
  <2>1. PICK d : d = Head(writes[w])
    OBVIOUS
  <2> QED BY <1>8, <2>1, ApplyFacts
<1>9. CASE Noting
  BY <1>9, NotingFacts
<1> QED BY <1>1, <1>p, <1>2, <1>3, <1>4, <1>5, <1>6, <1>7, <1>8, <1>9, NextCases

\* What is known stays known, and every request becomes known.
LEMMA KnownStep ==
  ASSUME Typed(Known), JobsOK, Next
  PROVE  Known \subseteq Known' /\ Typed(Known)'
<1>1. Known \subseteq Data
  BY DEF Known
<1>2. Typed(Data)
  BY <1>1, TypedGrows
<1>3. \A c \in calls : c.data \in Known
  BY DEF Typed, Calls
<1>k. Known \subseteq Known' /\ calls' \subseteq Calls(Known')
  <2>0. Known \subseteq Known' => calls \subseteq Calls(Known')
    BY DEF Typed, Calls
  <2>1. CASE /\ clock' = clock /\ calls' \subseteq calls
             /\ \/ pending' \in {pending, None}
                \/ \E c \in calls : pending' = c.data
    <3>1. Drawn' \subseteq Drawn
      BY <2>1 DEF Drawn
    <3>2. \A c \in calls : c.data \in Drawn
      BY DEF Drawn
    <3>3. Known \subseteq Known'
      BY <2>1, <3>1, <3>2 DEF Known
    <3> QED BY <2>0, <2>1, <3>3
  <2>2. ASSUME clock' = clock + 1, UNCHANGED pending,
               NEW c \in Calls(Data), calls' = calls \union {c},
               c.data.version = clock + 1, Askable(c.data.request, c.data.state)
        PROVE  Known \subseteq Known' /\ calls' \subseteq Calls(Known')
    <3>1. \A d \in Data : d.version \in Nat
      BY DEF Data, Versions
    <3>2. clock \in Nat /\ c.data \in Data
      BY <1>2 DEF Typed, Calls
    <3>3. Drawn' = Drawn \union {c.data} /\ Drawn \subseteq Known
      BY <1>3, <2>2 DEF Drawn
    <3>4. \A d \in Known : d.version # clock + 1 /\ d.version <= clock + 1
      BY <3>1, <3>2 DEF Known
    <3>5. Known \subseteq Known'
      BY <2>2, <3>3, <3>4 DEF Known
    <3>6. c.data.state = "PURGE_REQ" => c.data.request = "PURGE_REQ"
      <4>1. \A t \in Threads : asking[t] # None /\ asking[t].again # None =>
              asking[t].again \in Known
        BY DEF Typed, Asking
      <4> QED BY <2>2, <4>1 DEF Askable, Known
    <3>7. pending # None => pending.version # clock + 1
      BY <3>4 DEF Typed
    <3>8. \A e \in Drawn : e.version # clock + 1
      BY <3>3, <3>4
    <3>9. c.data \in Known'
      BY <2>2, <3>2, <3>3, <3>6, <3>7, <3>8 DEF Known
    <3>10. c \in Calls(Known')
      BY <3>9 DEF Calls
    <3> QED BY <2>0, <2>2, <3>5, <3>10
  <2> QED BY <1>2, <2>1, <2>2, RequestStep
<1>4. PICK K : K = Known'
  OBVIOUS
<1>5. Closed(Known)'
  BY KnownClosed, PTL
<1>6. Closed(K)
  BY <1>4, <1>5 DEF Closed
<1>7. Typed(K)
  BY <1>k, <1>4, TypedGrows
<1>8. Typed(K)'
  BY <1>k, <1>4, <1>6, <1>7, TypedStep
<1> QED BY <1>k, <1>4, <1>8 DEF Typed

-----------------------------------------------------------------------------
(* The parts of the invariant *)

\* The types that the invariant gives.
LEMMA Types ==
  ASSUME Typed(Known)
  PROVE  /\ Known \subseteq Data
         /\ Typed(Data)
         /\ Closed(Data)
         /\ Closed(Known)
         /\ clock \in Nat
         /\ stamp.version \in Nat
         /\ stamp.isv \in Nat
         /\ \A d \in Data : /\ d.version \in Versions
                            /\ d.version \in Nat
                            /\ d.isv \in Nat
                            /\ d # None
<1>1. Known \subseteq Data
  BY DEF Known
<1>2. Typed(Data)
  BY <1>1, TypedGrows
<1>3. clock \in Nat /\ stamp.version \in Nat /\ stamp.isv \in Nat
  BY <1>2 DEF Typed
<1>4. \A d \in Data : d.version \in Versions /\ d.version \in Nat /\ d.isv \in Nat
  BY DEF Data, Versions
<1> QED BY <1>1, <1>2, <1>3, <1>4, DataClosed, KnownClosed, NoneAssumption

\* The timestamp of the current map does not go back.
LEMMA StampGrows ==
  ASSUME Typed(Known), NEW w \in Writers, ApplyUpdate(w)
  PROVE  /\ stamp.version <= stamp'.version
         /\ ~Before(stamp', stamp)
         /\ current' # None => \/ UNCHANGED <<current, stamp>>
                               \/ /\ stamp'.version = current'.version
                                  /\ stamp'.isv = current'.isv
<1>1. PICK d : d = Head(writes[w])
  OBVIOUS
<1>2. PICK old : old = verdict[w].old
  OBVIOUS
<1>3. d \in Data /\ old \in Data \union {None}
  BY <1>1, <1>2, Types, ApplyFacts DEF Typed
<1>4. \/ /\ Wins(d)
         /\ current' = d
         /\ stamp' = [version |-> d.version, isv |-> d.isv]
      \/ /\ old # None
         /\ Wins(old)
         /\ current' = None
         /\ stamp' = [version |-> old.version, isv |-> old.isv]
      \/ UNCHANGED <<current, stamp>>
  BY <1>1, <1>2, ApplyFacts
<1>5. \A e \in Data : Wins(e) =>
        /\ stamp.version <= e.version
        /\ ~Before([version |-> e.version, isv |-> e.isv], stamp)
  BY Types DEF Wins, Before
<1>6. ~Before(stamp, stamp) /\ stamp.version <= stamp.version
  BY Types DEF Before
<1> QED BY <1>3, <1>4, <1>5, <1>6

\* Only the second half of write changes the current map.
LEMMA StoredStep ==
  ASSUME Typed(Known), Next
  PROVE  UNCHANGED <<current, stamp>> \/ \E w \in Writers : ApplyUpdate(w)
<1>1. CASE Requesting \/ Putting \/ Noting
  BY <1>1, Types, RequestingFacts, PuttingFacts, NotingFacts
<1>2. CASE \E d \in events : HandleEvent(d)
  BY <1>2 DEF HandleEvent, stored
<1>3. CASE TakeBatch \/ CreateInitialPhase \/ BatchDone
  BY <1>3 DEF TakeBatch, CreateInitialPhase, BatchDone, stored
<1>4. CASE Process
  BY <1>4, ProcessFacts, Types
<1>5. CASE \E v \in Versions, i \in Installers :
             \E errs \in SUBSET Installers : InstallerAnswers(v, i, errs)
  BY <1>5 DEF InstallerAnswers, stored
<1>6. CASE \E v \in Versions, i \in Installers : CheckFinished(v, i)
  BY <1>6 DEF CheckFinished, stored
<1>7. CASE \E w \in Writers : CheckUpdate(w)
  BY <1>7 DEF CheckUpdate, stored
<1> QED BY <1>1, <1>2, <1>3, <1>4, <1>5, <1>6, <1>7, NextCases

\* StampOK is kept.
LEMMA StampStep ==
  ASSUME Typed(Known), StampOK, Next
  PROVE  StampOK'
<1>1. CASE UNCHANGED <<current, stamp>>
  BY <1>1 DEF StampOK
<1>2. ASSUME NEW w \in Writers, ApplyUpdate(w)
      PROVE  StampOK'
  BY <1>2, StampGrows DEF StampOK
<1> QED BY <1>1, <1>2, StoredStep

\* What the phases write, and where: nobody else's thread.
LEMMA ProcessWrites ==
  ASSUME NEW S, Closed(S), Typed(S), Process
  PROVE  /\ batch'.at = "write"
         /\ batch'.data = batch.data
         /\ batch'.stored = batch.stored
         /\ writes' \in [Writers -> Seq(S)]
         /\ \A w \in Writers : w # Batch => writes'[w] = writes[w]
         /\ \E r \in S \union {None} :
              /\ writes'[Batch] = IF r = None THEN << >> ELSE <<r>>
              /\ \/ Quiet(r) /\ UNCHANGED <<jobs, answer>>
                 \/ \E out, in \in S \union {None} :
                      \E applied : Starts(r, out, in, applied)
<1>1. batch.at = "process" /\ None \notin S
  BY ProcessFacts, NoneAssumption DEF Closed
<1>2. ASSUME NEW r \in S \union {None}, Written(r)
      PROVE  /\ batch'.at = "write"
             /\ batch'.data = batch.data
             /\ batch'.stored = batch.stored
             /\ writes' \in [Writers -> Seq(S)]
             /\ \A w \in Writers : w # Batch => writes'[w] = writes[w]
             /\ writes'[Batch] = IF r = None THEN << >> ELSE <<r>>
  BY <1>1, <1>2, WrittenTyped
<1>3. CASE \E r \in S \union {None} :
             Written(r) /\ Quiet(r) /\ UNCHANGED <<jobs, answer>>
  BY <1>2, <1>3
<1>4. CASE \E r, out, in \in S \union {None} :
             \E applied : Written(r) /\ Starts(r, out, in, applied)
  BY <1>2, <1>4
<1> QED BY <1>3, <1>4, ProcessFacts

\* BatchOK is kept.
LEMMA BatchStep ==
  ASSUME Typed(Known), JobsOK, BatchOK, Next
  PROVE  BatchOK'
<1>1. CASE Requesting \/ Putting \/ Noting
  BY <1>1, Types, RequestingFacts, PuttingFacts, NotingFacts DEF BatchOK
<1>2. CASE \E d \in events : HandleEvent(d)
  BY <1>2 DEF HandleEvent, BatchOK, writing
<1>3. CASE TakeBatch
  <2>1. ready /\ ready' = FALSE /\ writes' = writes
    BY <1>3, Zenon DEF TakeBatch, writing
  <2>2. writes'[Batch] = << >>
    BY <2>1 DEF BatchOK
  <2> QED BY <2>1, <2>2, Zenon DEF BatchOK
<1>4. CASE CreateInitialPhase
  <2>1. batch.at = "start" /\ ready' = ready /\ writes' = writes
    BY <1>4 DEF CreateInitialPhase, writing
  <2>2. ~ready' /\ writes'[Batch] = << >>
    BY <2>1 DEF BatchOK
  <2> QED BY <2>2 DEF BatchOK
<1>5. CASE Process
  <2>1. batch.at = "process" /\ ready' = ready /\ batch'.at = "write"
    BY <1>5, Types, ProcessFacts, ProcessWrites
  <2> QED BY <2>1 DEF BatchOK
<1>6. CASE BatchDone
  BY <1>6 DEF BatchDone, BatchOK, Idle, writing
<1>7. ASSUME NEW v \in Versions, NEW i \in Installers,
             NEW errs \in SUBSET Installers, InstallerAnswers(v, i, errs)
      PROVE  BatchOK'
  BY <1>7 DEF InstallerAnswers, BatchOK, queueing, writing
<1>8. ASSUME NEW v \in Versions, NEW i \in Installers, CheckFinished(v, i)
      PROVE  BatchOK'
  <2>1. /\ UNCHANGED <<ready, batch>>
        /\ \A w \in Writers : w # <<v, i>> => writes'[w] = writes[w]
    <3>1. UNCHANGED <<ready, batch>>
      BY <1>8 DEF CheckFinished, queueing
    <3>2. PICK q : writes' = [writes EXCEPT ![<<v, i>>] = q]
      BY <1>8 DEF CheckFinished
    <3> QED BY <3>1, <3>2 DEF Typed
  <2>2. Batch \in Writers /\ Batch # <<v, i>>
    BY WriterFacts
  <2> QED BY <2>1, <2>2 DEF BatchOK
<1>9. CASE \E w \in Writers : CheckUpdate(w)
  BY <1>9 DEF CheckUpdate, BatchOK, queueing
<1>10. ASSUME NEW w \in Writers, ApplyUpdate(w)
       PROVE  BatchOK'
  <2>1. PICK d : d = Head(writes[w])
    OBVIOUS
  <2>2. /\ UNCHANGED <<ready, batch>> /\ writes[w] # << >>
        /\ \A x \in Writers : x # w => writes'[x] = writes[x]
    BY <1>10, <2>1, ApplyFacts
  <2> QED BY <2>2, WriterFacts DEF BatchOK
<1> QED BY <1>1, <1>2, <1>3, <1>4, <1>5, <1>6, <1>7, <1>8, <1>9, <1>10, NextCases

\* VerdictOK is kept.
LEMMA VerdictStep ==
  ASSUME Typed(Known), JobsOK, BatchOK, StampOK, VerdictOK, Next
  PROVE  VerdictOK'
<1>0. CASE UNCHANGED <<writes, verdict, stamp>>
  BY <1>0 DEF VerdictOK
<1>1. CASE \/ Requesting \/ Putting \/ Noting
           \/ \E d \in events : HandleEvent(d)
           \/ TakeBatch \/ CreateInitialPhase \/ BatchDone
  <2>1. UNCHANGED <<writes, verdict, stamp>>
    BY <1>1, Types, RequestingFacts, PuttingFacts, NotingFacts
       DEF HandleEvent, TakeBatch, CreateInitialPhase, BatchDone, writing, stored
  <2> QED BY <1>0, <2>1
<1>2. CASE Process
  <2>1. /\ batch.at = "process" /\ UNCHANGED <<verdict, stamp>>
        /\ \A w \in Writers : w # Batch => writes'[w] = writes[w]
    BY <1>2, Types, ProcessFacts, ProcessWrites
  <2>2. verdict[Batch] = Unread
    BY <2>1, WriterFacts DEF BatchOK, VerdictOK
  <2> QED BY <2>1, <2>2 DEF VerdictOK
<1>3. ASSUME NEW v \in Versions, NEW i \in Installers,
             NEW errs \in SUBSET Installers, InstallerAnswers(v, i, errs)
      PROVE  VerdictOK'
  BY <1>0, <1>3 DEF InstallerAnswers, writing, stored
<1>4. ASSUME NEW v \in Versions, NEW i \in Installers, CheckFinished(v, i)
      PROVE  VerdictOK'
  <2>1. /\ UNCHANGED <<verdict, stamp>> /\ writes[<<v, i>>] = << >>
        /\ <<v, i>> \in Writers
        /\ \A w \in Writers : w # <<v, i>> => writes'[w] = writes[w]
    BY <1>4, Types, FinishedFacts, WriterFacts
  <2>2. verdict[<<v, i>>] = Unread
    BY <2>1 DEF VerdictOK
  <2> QED BY <2>1, <2>2 DEF VerdictOK
<1>5. ASSUME NEW w \in Writers, CheckUpdate(w)
      PROVE  VerdictOK'
  <2>1. PICK d : d = Head(writes[w]) /\ d \in Data
    BY <1>5, Types, CheckFacts
  <2>2. /\ UNCHANGED <<writes, stamp, current>>
        /\ writes[w] # << >>
        /\ verdict'[w].is \in {"accept", "reject"}
        /\ verdict'[w].is = "accept" <=> IsUpdateAcceptable(current, d)
        /\ \A x \in Writers : x # w => verdict'[x] = verdict[x]
    BY <1>5, <2>1, Types, CheckFacts
  <2>3. current \in Data \union {None}
    BY Types DEF Typed
  <2>4. ~IsUpdateAcceptable(current, d) => d.version <= stamp.version
    BY <2>1, <2>3, Types DEF IsUpdateAcceptable, StampOK
  <2>6. "accept" # "reject"
    OBVIOUS
  <2>7. verdict'[w].is = "reject" => Head(writes'[w]).version <= stamp'.version
    BY <2>1, <2>2, <2>4, <2>6
  <2> QED BY <2>2, <2>7 DEF VerdictOK
<1>6. ASSUME NEW w \in Writers, ApplyUpdate(w)
      PROVE  VerdictOK'
  <2>1. PICK d : d = Head(writes[w])
    OBVIOUS
  <2>2. /\ verdict'[w] = Unread
        /\ \A x \in Writers : x # w => /\ writes'[x] = writes[x]
                                       /\ verdict'[x] = verdict[x]
    BY <1>6, <2>1, ApplyFacts
  <2>3. stamp.version <= stamp'.version /\ stamp'.version \in Nat
    <3>1. Typed(Known)'
      BY KnownStep
    <3>2. stamp' \in [version : 0..MaxVersion, isv : Nat]
      BY <3>1 DEF Typed
    <3>3. stamp'.version \in Nat
      BY <3>2
    <3> QED BY <1>6, <3>3, StampGrows
  <2>4. ASSUME NEW x \in Writers, verdict'[x] # Unread
        PROVE  /\ writes'[x] # << >>
               /\ verdict'[x].is \in {"accept", "reject"}
               /\ verdict'[x].is = "reject" =>
                    Head(writes'[x]).version <= stamp'.version
    <3>1. x # w /\ writes'[x] = writes[x] /\ verdict'[x] = verdict[x]
      BY <2>2, <2>4
    <3>2. writes[x] # << >>
      BY <2>4, <3>1 DEF VerdictOK
    <3>3. writes[x] \in Seq(Data)
      BY Types DEF Typed
    <3>4. Head(writes[x]) \in Data
      BY <3>2, <3>3, ElementsOfTail
    <3>5. Head(writes[x]).version \in Nat /\ stamp.version \in Nat
      BY <3>4, Types
    <3>6. verdict[x].is = "reject" => Head(writes[x]).version <= stamp.version
      BY <2>4, <3>1 DEF VerdictOK
    <3>7. verdict[x].is = "reject" => Head(writes[x]).version <= stamp'.version
      BY <2>3, <3>5, <3>6
    <3> QED BY <2>4, <3>1, <3>2, <3>7 DEF VerdictOK
  <2> QED BY <2>4 DEF VerdictOK
<1> QED BY <1>1, <1>2, <1>3, <1>4, <1>5, <1>6, NextCases

\* Everything in the queue is known, and has a version.
LEMMA QueueTypes ==
  ASSUME NEW S, Typed(S)
  PROVE  /\ Drawn \subseteq S
         /\ events \subseteq S
         /\ Elements(items) \subseteq S
         /\ InBatch => batch.data \in S
<1>1. items \in Seq(S) /\ events \subseteq S /\ Drawn \subseteq S
  BY DEF Typed, Drawn, Calls
<1> QED BY <1>1, ElementsTyped, BatchFacts DEF InBatch

\* JobsOK is kept.
LEMMA JobsStep ==
  ASSUME Typed(Known), JobsOK, OnceOK, Next
  PROVE  JobsOK'
<1>0. clock \in Nat /\ clock' \in Nat /\ clock <= clock'
  BY Types, RequestStep
<1>1. CASE UNCHANGED <<jobs, answer, writes>>
  BY <1>0, <1>1 DEF JobsOK, Versions
<1>2. CASE \/ Requesting \/ Putting \/ Noting
           \/ \E d \in events : HandleEvent(d)
           \/ TakeBatch \/ CreateInitialPhase \/ BatchDone
  <2>1. UNCHANGED <<jobs, answer, writes>>
    BY <1>2, Types, RequestingFacts, PuttingFacts, NotingFacts
       DEF HandleEvent, TakeBatch, CreateInitialPhase, BatchDone, writing, install
  <2> QED BY <1>1, <2>1
<1>3. CASE Process
  <2>1. batch.at = "process" /\ clock' = clock
    BY <1>3, Types, ProcessFacts
  <2>2. \A v \in Versions, i \in Installers : writes'[<<v, i>>] = writes[<<v, i>>]
    BY <1>3, Types, ProcessWrites, WriterFacts
  <2>3. CASE UNCHANGED <<jobs, answer>>
    BY <2>1, <2>2, <2>3 DEF JobsOK
  <2>4. ASSUME NEW r \in Known \union {None}, NEW out \in Known \union {None},
               NEW in \in Known \union {None}, NEW applied,
               Starts(r, out, in, applied)
        PROVE  JobsOK'
    <3>1. PICK v : v = batch.data.version
      OBVIOUS
    <3>2. batch.data \in Known /\ InstallIntents(out, in, applied)
      BY <2>1, <2>4, BatchFacts DEF Starts
    <3>3. /\ v \in Versions
          /\ jobs'[v] = [toUninstall |-> out, toInstall |-> in,
                         pendingContexts |-> Installers, errorContexts |-> {}]
          /\ \A i \in Installers : answer'[v][i] \in {"none", "applying"}
          /\ \A u \in Versions : u # v => jobs'[u] = jobs[u] /\ answer'[u] = answer[u]
      BY <3>1, <3>2, Types, InstallTyped
    <3>4. v <= clock /\ jobs[v] = None
      BY <2>1, <3>1, <3>2 DEF Known, OnceOK, InBatch
    <3>5. \A i \in Installers : writes'[<<v, i>>] = << >>
      BY <2>2, <3>3, <3>4 DEF JobsOK
    <3>6. \/ in # None /\ in.version = v
          \/ in = None /\ out # None /\ out.version = v
      BY <2>4, <3>1 DEF Starts
    <3>7. /\ jobs'[v].toInstall = in /\ jobs'[v].toUninstall = out
          /\ jobs'[v].pendingContexts = Installers
      BY <3>3
    <3>8. jobs'[v] # None
      <4>1. jobs'[v] \in Installation(Data)
        BY <2>4, <3>3, Types DEF Installation
      <4> QED BY <4>1, NoneAssumption
    <3>9. ASSUME NEW u \in Versions
          PROVE  /\ jobs'[u] = None => \A i \in Installers : answer'[u][i] = "none"
                 /\ jobs'[u] # None =>
                      /\ u <= clock'
                      /\ jobs'[u].toInstall # None =>
                           jobs'[u].toInstall.version = u
                      /\ jobs'[u].toInstall = None =>
                           /\ jobs'[u].toUninstall # None
                           /\ jobs'[u].toUninstall.version = u
                      /\ \A i \in Installers :
                           answer'[u][i] \in {"none", "applying"} =>
                             i \in jobs'[u].pendingContexts
                 /\ \A i \in Installers :
                      answer'[u][i] # "done" => writes'[<<u, i>>] = << >>
      <4>1. CASE u = v
        BY <2>1, <3>3, <3>4, <3>5, <3>6, <3>7, <3>8, <4>1
      <4>2. CASE u # v
        BY <2>1, <2>2, <3>3, <4>2 DEF JobsOK
      <4> QED BY <4>1, <4>2
    <3> QED BY <3>9 DEF JobsOK
  <2> QED BY <1>3, <2>3, <2>4, Types, ProcessWrites
<1>4. ASSUME NEW v \in Versions, NEW i \in Installers,
             NEW errs \in SUBSET Installers, InstallerAnswers(v, i, errs)
      PROVE  JobsOK'
  <2>1. /\ clock' = clock /\ writes' = writes
        /\ jobs[v] # None /\ jobs'[v] # None
        /\ jobs'[v].toInstall = jobs[v].toInstall
        /\ jobs'[v].toUninstall = jobs[v].toUninstall
        /\ jobs'[v].pendingContexts = jobs[v].pendingContexts \ {i}
        /\ \A u \in Versions : u # v => jobs'[u] = jobs[u]
        /\ answer[v][i] = "applying"
        /\ answer'[v][i] = "removed"
        /\ \A u \in Versions, j \in Installers :
             u # v \/ j # i => answer'[u][j] = answer[u][j]
    BY <1>4, Types, AnswerFacts
  <2> QED BY <2>1 DEF JobsOK
<1>5. ASSUME NEW v \in Versions, NEW i \in Installers, CheckFinished(v, i)
      PROVE  JobsOK'
  <2>1. /\ clock' = clock /\ jobs' = jobs /\ jobs[v] # None
        /\ answer[v][i] = "removed"
        /\ answer'[v][i] = "done"
        /\ \A u \in Versions, j \in Installers :
             u # v \/ j # i => answer'[u][j] = answer[u][j]
        /\ \A w \in Writers : w # <<v, i>> => writes'[w] = writes[w]
    <3>1. /\ clock' = clock /\ jobs' = jobs
          /\ answer[v][i] = "removed"
          /\ answer' = [answer EXCEPT ![v][i] = "done"]
      BY <1>5 DEF CheckFinished, requests
    <3>2. jobs[v] # None
      BY <3>1 DEF JobsOK
    <3>3. PICK q : writes' = [writes EXCEPT ![<<v, i>>] = q]
      BY <1>5 DEF CheckFinished
    <3>4. \A w \in Writers : w # <<v, i>> => writes'[w] = writes[w]
      BY <3>3 DEF Typed
    <3> QED BY <3>1, <3>2, <3>4 DEF Typed
  <2>2. \A u \in Versions, j \in Installers :
          u # v \/ j # i => writes'[<<u, j>>] = writes[<<u, j>>]
    BY <2>1, WriterFacts
  <2> QED BY <2>1, <2>2 DEF JobsOK
<1>6. CASE \E w \in Writers : CheckUpdate(w)
  <2>1. UNCHANGED <<jobs, answer, writes>>
    BY <1>6 DEF CheckUpdate, install
  <2> QED BY <1>1, <2>1
<1>7. ASSUME NEW w \in Writers, ApplyUpdate(w)
      PROVE  JobsOK'
  <2>1. PICK d : d = Head(writes[w])
    OBVIOUS
  <2>2. /\ UNCHANGED <<clock, jobs, answer>> /\ writes[w] # << >>
        /\ \A x \in Writers : x # w => writes'[x] = writes[x]
    BY <1>7, <2>1, ApplyFacts
  <2>3. \A v \in Versions, i \in Installers :
          writes[<<v, i>>] = << >> => writes'[<<v, i>>] = << >>
    BY <2>2, WriterFacts
  <2> QED BY <2>2, <2>3 DEF JobsOK
<1> QED BY <1>2, <1>3, <1>4, <1>5, <1>6, <1>7, NextCases

\* OnceOK is kept.
LEMMA OnceStep ==
  ASSUME Typed(Known), JobsOK, OnceOK, Next
  PROVE  OnceOK'
<1>0. /\ events \subseteq Known /\ Elements(items) \subseteq Known
      /\ Drawn \subseteq Known
      /\ InBatch => batch.data \in Known
  BY QueueTypes
<1>1. CASE Requesting
  <2>1. UNCHANGED <<events, items, batch, jobs>>
    BY <1>1, Types, RequestingFacts
  <2>2. PICK c \in Calls(Data) : calls' = calls \union {c} /\ c.data.version = clock + 1
    BY <1>1, Types, RequestingFacts
  <2>3. c.data \in Data /\ Drawn' = Drawn \union {c.data}
    BY <2>2 DEF Calls, Drawn
  <2>4. \A d \in Known : d.version # c.data.version
    BY <2>2, <2>3, Types DEF Known
  <2>5. jobs[c.data.version] = None
    BY <2>2, <2>3, Types DEF JobsOK
  <2>6. \A e \in calls : e.data.version # c.data.version
    BY <1>0, <2>4 DEF Drawn
  <2> QED BY <1>0, <2>1, <2>2, <2>3, <2>4, <2>5, <2>6 DEF OnceOK, InBatch
<1>p. CASE Putting
  <2>1. UNCHANGED <<items, batch, jobs>> /\ calls' \subseteq calls
    BY <1>p, PuttingFacts
  <2>2. Drawn' \subseteq Drawn
    BY <2>1 DEF Drawn
  <2>3. CASE events' = events
    BY <2>1, <2>2, <2>3 DEF OnceOK, InBatch
  <2>4. ASSUME NEW c \in calls, calls' = calls \ {c}, events' = events \union {c.data}
        PROVE  OnceOK'
    <3>1. c.data \in Drawn
      BY DEF Drawn
    <3>2. \A e \in Drawn' : e.version # c.data.version
      BY <2>4 DEF OnceOK, Drawn
    <3> QED BY <2>1, <2>2, <2>4, <3>1, <3>2 DEF OnceOK, InBatch
  <2> QED BY <1>p, <2>3, <2>4, PuttingFacts
<1>2. ASSUME NEW d \in events, HandleEvent(d)
      PROVE  OnceOK'
  <2>1. /\ events' = events \ {d} /\ items' = Append(items, d)
        /\ UNCHANGED <<calls, batch, jobs>>
    BY <1>2 DEF HandleEvent, install
  <2>2. items \in Seq(Known)
    BY DEF Typed
  <2>3. Elements(items') = Elements(items) \union {d} /\ Drawn' = Drawn
    BY <1>0, <2>1, <2>2, ElementsOfAppend DEF Drawn
  <2> QED BY <2>1, <2>3 DEF OnceOK, InBatch
<1>3. CASE TakeBatch
  <2>1. PICK d : d = items[Len(items)]
    OBVIOUS
  <2>2. /\ items # << >> /\ items' = << >> /\ UNCHANGED <<calls, events, jobs>>
        /\ batch' = [at |-> "start", data |-> d, stored |-> None]
    BY <1>3, <2>1 DEF TakeBatch, requests, install
  <2>3. d \in Elements(items)
    <3>1. items \in Seq(Known)
      BY DEF Typed
    <3> QED BY <2>1, <2>2, <3>1, LastItem
  <2>4. Elements(items') = {} /\ batch'.data = d /\ Drawn' = Drawn
    BY <2>2, ElementsOfEmpty DEF Drawn
  <2> QED BY <2>2, <2>3, <2>4 DEF OnceOK, InBatch
<1>4. CASE CreateInitialPhase
  <2>1. /\ UNCHANGED <<calls, events, items, jobs>> /\ InBatch
        /\ \/ batch' = [batch EXCEPT !.at = "write"]
           \/ batch' = [at |-> "process", stored |-> current,
                        data |-> Transferred(batch.data, current)]
    BY <1>4 DEF CreateInitialPhase, requests, install, InBatch
  <2>2. batch \in [at : {"start", "process", "write"},
                   data : Known, stored : Known \union {None}]
    BY <2>1, BatchFacts DEF InBatch
  <2>3. Transferred(batch.data, current).version = batch.data.version
    <3>1. batch.data \in Data /\ current \in Data \union {None}
      BY <1>0, <2>1, Types DEF Typed
    <3>2. "FAILED" \in Outcomes /\ TRUE \in BOOLEAN
      BY DEF Outcomes, States, Requests
    <3> QED BY <3>1, <3>2, DataOps
  <2>4. InBatch' => batch'.data.version = batch.data.version
    BY <2>1, <2>2, <2>3 DEF InBatch
  <2>5. Drawn' = Drawn
    BY <2>1 DEF Drawn
  <2> QED BY <2>1, <2>4, <2>5 DEF OnceOK
<1>5. CASE Process
  <2>1. /\ UNCHANGED <<calls, events, items>>
        /\ batch.at = "process" /\ batch'.at = "write"
    BY <1>5, Types, ProcessFacts, ProcessWrites
  <2>2. \A u \in Versions : u # batch.data.version => jobs'[u] = jobs[u]
    <3>1. CASE UNCHANGED <<jobs, answer>>
      BY <3>1
    <3>2. ASSUME NEW r \in Known \union {None}, NEW out \in Known \union {None},
                 NEW in \in Known \union {None}, NEW applied,
                 Starts(r, out, in, applied)
          PROVE  \A u \in Versions : u # batch.data.version => jobs'[u] = jobs[u]
      <4>1. batch.data \in Known /\ InstallIntents(out, in, applied)
        BY <2>1, <3>2, BatchFacts DEF Starts
      <4> QED BY <4>1, Types, InstallTyped
    <3> QED BY <1>5, <3>1, <3>2, Types, ProcessWrites
  <2>3. \A d \in Drawn \union events \union Elements(items) :
          jobs'[d.version] = None
    BY <1>0, <2>1, <2>2, Types DEF OnceOK, InBatch
  <2>4. Drawn' = Drawn
    BY <2>1 DEF Drawn
  <2> QED BY <2>1, <2>3, <2>4 DEF OnceOK, InBatch
<1>6. CASE BatchDone
  <2>1. Drawn' = Drawn
    BY <1>6 DEF BatchDone, Drawn, requests
  <2> QED BY <1>6, <2>1 DEF BatchDone, OnceOK, InBatch, Idle, requests, install
<1>7. ASSUME NEW v \in Versions, NEW i \in Installers,
             NEW errs \in SUBSET Installers, InstallerAnswers(v, i, errs)
      PROVE  OnceOK'
  <2>1. /\ UNCHANGED <<calls, events, items, batch>> /\ jobs[v] # None
        /\ \A u \in Versions : u # v => jobs'[u] = jobs[u]
    BY <1>7, Types, AnswerFacts
  <2>2. \A u \in Versions : jobs[u] = None => jobs'[u] = None
    BY <2>1
  <2>3. Drawn' = Drawn
    BY <2>1 DEF Drawn
  <2>4. \A d \in Drawn \union events \union Elements(items) :
          jobs'[d.version] = None
    BY <1>0, <2>2, Types DEF OnceOK
  <2> QED BY <1>0, <2>1, <2>2, <2>3, <2>4, Types DEF OnceOK, InBatch
<1>8. CASE UNCHANGED <<calls, events, items, batch, jobs>>
  <2>1. Drawn' = Drawn
    BY <1>8 DEF Drawn
  <2> QED BY <1>8, <2>1 DEF OnceOK, InBatch
<1>9. CASE \/ \E v \in Versions, i \in Installers : CheckFinished(v, i)
           \/ \E w \in Writers : CheckUpdate(w) \/ ApplyUpdate(w)
  <2>1. UNCHANGED <<calls, events, items, batch, jobs>>
    BY <1>9 DEF CheckFinished, CheckUpdate, ApplyUpdate, requests, queueing, install
  <2> QED BY <1>8, <2>1
<1>10. CASE Noting
  BY <1>8, <1>10, Types, NotingFacts
<1> QED BY <1>1, <1>p, <1>2, <1>3, <1>4, <1>5, <1>6, <1>7, <1>9, <1>10, NextCases

\* AskOK is kept.
LEMMA AskStep ==
  ASSUME Typed(Known), AskOK, Next
  PROVE  AskOK'
<1>1. CASE Requesting
  <2>1. UNCHANGED <<pending, events, items, batch>>
    BY <1>1, Types, RequestingFacts
  <2>2. PICK c \in Calls(Data) : /\ calls' = calls \union {c}
                                /\ Askable(c.data.request, c.data.state)
    BY <1>1, Types, RequestingFacts
  <2>3. c.data.request \in Requests /\ Drawn' = Drawn \union {c.data}
    BY <2>2 DEF Calls, Data, Drawn
  <2>4. c.data.state \in Asks
    BY <2>2, <2>3 DEF Askable, AskOK, Asks
  <2>5. \A t \in Threads : asking'[t] \in {asking[t], None}
    <3>1. asking \in [Threads -> Asking(Known) \union {None}]
      BY DEF Typed
    <3>2. \/ asking' = asking
          \/ \E t \in Threads : asking' = [asking EXCEPT ![t] = None]
      BY <1>1, Types, RequestingFacts
    <3> QED BY <3>1, <3>2
  <2> QED BY <2>1, <2>3, <2>4, <2>5 DEF AskOK, InBatch
<1>p. CASE Putting
  <2>1. UNCHANGED <<items, batch, asking>> /\ calls' \subseteq calls
    BY <1>p, PuttingFacts
  <2>2. Drawn' \subseteq Drawn /\ \A c \in calls : c.data \in Drawn
    BY <2>1 DEF Drawn
  <2> QED BY <1>p, <2>1, <2>2, PuttingFacts DEF AskOK, InBatch
<1>n. CASE Noting
  <2>1. UNCHANGED <<calls, pending, events, items, batch>>
    BY <1>n, Types, NotingFacts
  <2>2. Drawn' = Drawn
    BY <2>1 DEF Drawn
  <2>3. CASE asking' = asking
    BY <2>1, <2>2, <2>3 DEF AskOK, InBatch
  <2>4. ASSUME NEW t \in Threads, NEW req \in Requests,
               NEW again \in {None, pending, current},
               asking' = [asking EXCEPT ![t] = [request |-> req, again |-> again]],
               again # None /\ again # pending =>
                 again.state \in {"INSTALLING", "WITHDRAWING"}
        PROVE  AskOK'
    <3>1. asking \in [Threads -> Asking(Known) \union {None}]
      BY DEF Typed
    <3>2. /\ asking'[t] = [request |-> req, again |-> again]
          /\ \A u \in Threads : u # t => asking'[u] = asking[u]
      BY <2>4, <3>1
    <3>3. again # None => again.state \in Asks
      BY <2>4 DEF AskOK, Asks
    <3>4. \A u \in Threads : asking'[u] # None /\ asking'[u].again # None =>
            asking'[u].again.state \in Asks
      BY <3>2, <3>3 DEF AskOK
    <3> QED BY <2>1, <2>2, <3>4 DEF AskOK, InBatch
  <2> QED BY <1>n, <2>3, <2>4, Types, NotingFacts
<1>2. ASSUME NEW d \in events, HandleEvent(d)
      PROVE  AskOK'
  <2>1. /\ events' = events \ {d} /\ items' = Append(items, d)
        /\ UNCHANGED <<calls, batch, pending, asking>>
    BY <1>2 DEF HandleEvent, cleanup
  <2>2. items \in Seq(Known) /\ d \in Known
    BY DEF Typed
  <2>3. Elements(items') = Elements(items) \union {d} /\ Drawn' = Drawn
    BY <2>1, <2>2, ElementsOfAppend DEF Drawn
  <2> QED BY <2>1, <2>3 DEF AskOK, InBatch
<1>3. CASE TakeBatch
  <2>1. PICK d : d = items[Len(items)]
    OBVIOUS
  <2>2. /\ items # << >> /\ items' = << >>
        /\ UNCHANGED <<calls, events, pending, asking>>
        /\ batch' = [at |-> "start", data |-> d, stored |-> None]
    BY <1>3, <2>1 DEF TakeBatch, requests, cleanup
  <2>3. d \in Elements(items)
    <3>1. items \in Seq(Known)
      BY DEF Typed
    <3> QED BY <2>1, <2>2, <3>1, LastItem
  <2>4. Elements(items') = {} /\ batch'.data = d /\ Drawn' = Drawn
    BY <2>2, ElementsOfEmpty DEF Drawn
  <2> QED BY <2>2, <2>3, <2>4 DEF AskOK, InBatch
<1>4. CASE CreateInitialPhase
  <2>1. /\ UNCHANGED <<calls, events, items, pending, asking>> /\ InBatch
        /\ \/ batch' = [batch EXCEPT !.at = "write"]
           \/ batch' = [at |-> "process", stored |-> current,
                        data |-> Transferred(batch.data, current)]
    BY <1>4 DEF CreateInitialPhase, requests, cleanup, InBatch
  <2>2. batch \in [at : {"start", "process", "write"},
                   data : Known, stored : Known \union {None}]
    BY <2>1, BatchFacts DEF InBatch
  <2>3. Transferred(batch.data, current).state = batch.data.state
    <3>1. batch.data \in Data /\ current \in Data \union {None}
      BY <2>2, Types DEF Typed
    <3>2. "FAILED" \in Outcomes /\ TRUE \in BOOLEAN
      BY DEF Outcomes, States, Requests
    <3> QED BY <3>1, <3>2, DataOps
  <2>4. InBatch' => batch'.data.state = batch.data.state
    BY <2>1, <2>2, <2>3 DEF InBatch
  <2>5. Drawn' = Drawn
    BY <2>1 DEF Drawn
  <2> QED BY <2>1, <2>4, <2>5 DEF AskOK
<1>5. CASE Process
  <2>1. UNCHANGED <<calls, events, items, pending, asking>> /\ batch'.at = "write"
    BY <1>5, Types, ProcessFacts, ProcessWrites
  <2>2. Drawn' = Drawn
    BY <2>1 DEF Drawn
  <2> QED BY <2>1, <2>2 DEF AskOK, InBatch
<1>6. CASE BatchDone
  <2>1. Drawn' = Drawn
    BY <1>6 DEF BatchDone, Drawn, requests
  <2> QED BY <1>6, <2>1 DEF BatchDone, AskOK, InBatch, Idle, requests, cleanup
<1>7. CASE \/ \E v \in Versions, i \in Installers :
                \/ \E errs \in SUBSET Installers : InstallerAnswers(v, i, errs)
                \/ CheckFinished(v, i)
           \/ \E w \in Writers : CheckUpdate(w)
  <2>1. UNCHANGED <<calls, events, items, batch, pending, asking>>
    BY <1>7 DEF InstallerAnswers, CheckFinished, CheckUpdate, requests, queueing,
                cleanup
  <2>2. Drawn' = Drawn
    BY <2>1 DEF Drawn
  <2> QED BY <2>1, <2>2 DEF AskOK, InBatch
<1>8. ASSUME NEW w \in Writers, ApplyUpdate(w)
      PROVE  AskOK'
  <2>1. UNCHANGED <<calls, events, items, batch, asking>>
    BY <1>8 DEF ApplyUpdate, queueing
  <2>2. PICK d : d = Head(writes[w])
    OBVIOUS
  <2>3. pending' \in {pending, None}
    BY <1>8, <2>2, ApplyFacts
  <2>4. Drawn' = Drawn
    BY <2>1 DEF Drawn
  <2> QED BY <2>1, <2>3, <2>4 DEF AskOK, InBatch
<1> QED BY <1>1, <1>p, <1>n, <1>2, <1>3, <1>4, <1>5, <1>6, <1>7, <1>8, NextCases

\* What is complete stays complete.
LEMMA CompleteStep ==
  ASSUME Typed(Known), JobsOK, Next, NEW v \in Versions, v <= clock, Complete(v)
  PROVE  Complete(v)'
<1>0. CASE UNCHANGED <<calls, events, items, batch, jobs, answer>>
  <2>1. Drawn' = Drawn
    BY <1>0 DEF Drawn
  <2> QED BY <1>0, <2>1 DEF Complete, InBatch
<1>1. CASE Requesting
  <2>1. UNCHANGED <<events, items, batch, jobs, answer>>
    BY <1>1, Types, RequestingFacts
  <2>2. PICK c \in Calls(Data) : calls' = calls \union {c} /\ c.data.version = clock + 1
    BY <1>1, Types, RequestingFacts
  <2>3. v \in Nat /\ clock \in Nat
    BY Types DEF Versions
  <2>4. c.data.version # v /\ Drawn' = Drawn \union {c.data}
    BY <2>2, <2>3 DEF Drawn
  <2> QED BY <2>1, <2>4 DEF Complete, InBatch
<1>p. CASE Putting
  <2>1. UNCHANGED <<items, batch, jobs, answer>> /\ calls' \subseteq calls
    BY <1>p, PuttingFacts
  <2>2. Drawn' \subseteq Drawn /\ \A c \in calls : c.data \in Drawn
    BY <2>1 DEF Drawn
  <2>3. events' \subseteq events \union Drawn
    BY <1>p, <2>2, PuttingFacts
  <2> QED BY <2>1, <2>2, <2>3 DEF Complete, InBatch
<1>n. CASE Noting
  BY <1>0, <1>n, Types, NotingFacts
<1>2. ASSUME NEW d \in events, HandleEvent(d)
      PROVE  Complete(v)'
  <2>1. /\ events' = events \ {d} /\ items' = Append(items, d)
        /\ UNCHANGED <<calls, batch, jobs, answer>>
    BY <1>2 DEF HandleEvent, install
  <2>2. items \in Seq(Known) /\ d \in Known
    BY DEF Typed
  <2>3. Elements(items') = Elements(items) \union {d} /\ Drawn' = Drawn
    BY <2>1, <2>2, ElementsOfAppend DEF Drawn
  <2> QED BY <2>1, <2>3 DEF Complete, InBatch
<1>3. CASE TakeBatch
  <2>1. PICK d : d = items[Len(items)]
    OBVIOUS
  <2>2. /\ items # << >> /\ items' = << >>
        /\ UNCHANGED <<calls, events, jobs, answer>>
        /\ batch' = [at |-> "start", data |-> d, stored |-> None]
    BY <1>3, <2>1 DEF TakeBatch, requests, install
  <2>3. d \in Elements(items)
    <3>1. items \in Seq(Known)
      BY DEF Typed
    <3> QED BY <2>1, <2>2, <3>1, LastItem
  <2>4. Elements(items') = {} /\ batch'.data = d /\ Drawn' = Drawn
    BY <2>2, ElementsOfEmpty DEF Drawn
  <2> QED BY <2>2, <2>3, <2>4 DEF Complete, InBatch
<1>4. CASE CreateInitialPhase
  <2>1. /\ UNCHANGED <<calls, events, items, jobs, answer>> /\ InBatch
        /\ \/ batch' = [batch EXCEPT !.at = "write"]
           \/ batch' = [at |-> "process", stored |-> current,
                        data |-> Transferred(batch.data, current)]
    BY <1>4 DEF CreateInitialPhase, requests, install, InBatch
  <2>2. batch \in [at : {"start", "process", "write"},
                   data : Known, stored : Known \union {None}]
    BY <2>1, BatchFacts DEF InBatch
  <2>3. Transferred(batch.data, current).version = batch.data.version
    <3>1. batch.data \in Data /\ current \in Data \union {None}
      BY <2>2, Types DEF Typed
    <3>2. "FAILED" \in Outcomes /\ TRUE \in BOOLEAN
      BY DEF Outcomes, States, Requests
    <3> QED BY <3>1, <3>2, DataOps
  <2>4. InBatch' => batch'.data.version = batch.data.version
    BY <2>1, <2>2, <2>3 DEF InBatch
  <2>5. Drawn' = Drawn
    BY <2>1 DEF Drawn
  <2> QED BY <2>1, <2>4, <2>5 DEF Complete
<1>5. CASE Process
  <2>1. /\ UNCHANGED <<calls, events, items>>
        /\ batch.at = "process" /\ batch'.at = "write"
    BY <1>5, Types, ProcessFacts, ProcessWrites
  <2>2. v # batch.data.version
    BY <2>1 DEF Complete, InBatch
  <2>3. jobs'[v] = jobs[v] /\ answer'[v] = answer[v]
    <3>1. CASE UNCHANGED <<jobs, answer>>
      BY <3>1
    <3>2. ASSUME NEW r \in Known \union {None}, NEW out \in Known \union {None},
                 NEW in \in Known \union {None}, NEW applied,
                 Starts(r, out, in, applied)
          PROVE  jobs'[v] = jobs[v] /\ answer'[v] = answer[v]
      <4>1. batch.data \in Known /\ InstallIntents(out, in, applied)
        BY <2>1, <3>2, BatchFacts DEF Starts
      <4> QED BY <2>2, <4>1, Types, InstallTyped
    <3> QED BY <1>5, <3>1, <3>2, Types, ProcessWrites
  <2>4. Drawn' = Drawn
    BY <2>1 DEF Drawn
  <2> QED BY <2>1, <2>3, <2>4 DEF Complete, InBatch
<1>6. CASE BatchDone
  <2>1. Drawn' = Drawn
    BY <1>6 DEF BatchDone, Drawn, requests
  <2> QED BY <1>6, <2>1 DEF BatchDone, Complete, InBatch, Idle, requests, install
<1>7. ASSUME NEW u \in Versions, NEW i \in Installers,
             NEW errs \in SUBSET Installers, InstallerAnswers(u, i, errs)
      PROVE  Complete(v)'
  <2>1. /\ UNCHANGED <<calls, events, items, batch>> /\ jobs[u] # None
        /\ answer[u][i] = "applying"
        /\ \A x \in Versions : x # u => jobs'[x] = jobs[x]
        /\ \A x \in Versions, j \in Installers :
             x # u \/ j # i => answer'[x][j] = answer[x][j]
    BY <1>7, Types, AnswerFacts
  <2>2. u # v /\ Drawn' = Drawn
    BY <2>1 DEF Complete, Drawn
  <2> QED BY <2>1, <2>2 DEF Complete, InBatch
<1>8. ASSUME NEW u \in Versions, NEW i \in Installers, CheckFinished(u, i)
      PROVE  Complete(v)'
  <2>1. /\ UNCHANGED <<calls, events, items, batch, jobs>>
        /\ answer' = [answer EXCEPT ![u][i] = "done"]
    BY <1>8 DEF CheckFinished, requests, queueing
  <2>2. \A j \in Installers : answer'[v][j] \in {answer[v][j], "done"}
    BY <2>1 DEF Typed
  <2>3. Drawn' = Drawn
    BY <2>1 DEF Drawn
  <2> QED BY <2>1, <2>2, <2>3 DEF Complete, InBatch
<1>9. CASE \E w \in Writers : CheckUpdate(w) \/ ApplyUpdate(w)
  <2>1. UNCHANGED <<calls, events, items, batch, jobs, answer>>
    BY <1>9 DEF CheckUpdate, ApplyUpdate, requests, queueing, install
  <2> QED BY <1>0, <2>1
<1> QED BY <1>1, <1>p, <1>n, <1>2, <1>3, <1>4, <1>5, <1>6, <1>7, <1>8, <1>9,
           NextCases

\* OutOK is kept.
LEMMA OutStep ==
  ASSUME Typed(Known), JobsOK, OnceOK, AskOK, OutOK, Next
  PROVE  OutOK'
<1>1. PICK R : R = {d \in Known : Reported(d)}
  OBVIOUS
<1>2. ASSUME NEW d \in R
      PROVE  Reported(d)'
  <2>1. d.version \in Versions /\ d.version <= clock /\ Reported(d)
    BY <1>1, Types DEF Known
  <2> QED BY <2>1, CompleteStep DEF Reported
<1>3. /\ current # None => current \in R
      /\ batch.stored # None => batch.stored \in R
      /\ \A w \in Writers : Elements(writes[w]) \subseteq R
  <2>1. \A w \in Writers : Elements(writes[w]) \subseteq Known
    BY ElementsTyped DEF Typed
  <2>2. batch.stored # None => batch.stored \in Known
    <3>1. CASE batch = Idle
      BY <3>1 DEF Idle
    <3>2. CASE batch # Idle
      BY <3>2 DEF Typed
    <3> QED BY <3>1, <3>2
  <2>3. current # None => current \in Known
    BY DEF Typed
  <2> QED BY <1>1, <2>1, <2>2, <2>3 DEF OutOK
<1>4. current' # None => current' \in R
  <2>1. ASSUME NEW w \in Writers, ApplyUpdate(w)
        PROVE  current' # None => current' \in R
    <3>1. PICK d : d = Head(writes[w])
      OBVIOUS
    <3>2. d \in Elements(writes[w]) /\ current' \in {d, None, current}
      BY <2>1, <3>1, ApplyFacts
    <3> QED BY <1>3, <3>2
  <2> QED BY <1>3, <2>1, StoredStep
<1>5. batch'.stored # None => batch'.stored \in R
  <2>1. CASE TakeBatch \/ BatchDone
    BY <2>1 DEF TakeBatch, BatchDone, Idle
  <2>2. CASE CreateInitialPhase
    <3>1. batch.at = "start"
      BY <2>2 DEF CreateInitialPhase
    <3>2. batch \in [at : {"start", "process", "write"},
                     data : Known, stored : Known \union {None}]
      BY <3>1, BatchFacts
    <3>3. batch'.stored \in {batch.stored, current}
      BY <2>2, <3>2 DEF CreateInitialPhase
    <3> QED BY <1>3, <3>3
  <2>3. CASE Process
    BY <1>3, <2>3, Types, ProcessWrites
  <2>4. CASE batch' = batch
    BY <1>3, <2>4
  <2>5. TakeBatch \/ BatchDone \/ CreateInitialPhase \/ Process \/ batch' = batch
    BY NextCases, Types, RequestingFacts, PuttingFacts, NotingFacts
       DEF HandleEvent, InstallerAnswers, CheckFinished, CheckUpdate, ApplyUpdate,
           queueing
  <2> QED BY <2>1, <2>2, <2>3, <2>4, <2>5
<1>6. ASSUME NEW w \in Writers, NEW d \in Elements(writes'[w])
      PROVE  Reported(d)'
  <2>1. CASE writes'[w] = writes[w]
    BY <1>2, <1>3, <1>6, <2>1
  <2>2. CASE Process
    <3>1. /\ UNCHANGED <<calls, events, items>>
          /\ batch.at = "process" /\ batch'.at = "write"
      BY <2>2, Types, ProcessFacts, ProcessWrites
    <3>2. PICK r \in Known \union {None} :
            /\ writes'[Batch] = IF r = None THEN << >> ELSE <<r>>
            /\ \/ Quiet(r) /\ UNCHANGED <<jobs, answer>>
               \/ \E out, in \in Known \union {None} :
                    \E applied : Starts(r, out, in, applied)
      BY <2>2, Types, ProcessWrites
    <3>3. CASE w # Batch
      BY <2>1, <2>2, <3>3, Types, ProcessWrites
    <3>4. CASE w = Batch
      <4>1. r # None /\ d = r
        BY <3>2, <3>4, <1>6 DEF Elements
      <4>2. CASE r.state \notin {"INSTALLED", "WITHDRAWN"}
        BY <4>1, <4>2 DEF Reported
      <4>3. CASE r = batch.stored
        BY <1>2, <1>3, <4>1, <4>3
      <4>4. CASE r = batch.data
        <5>1. r.state \in Asks
          BY <3>1, <4>4 DEF AskOK, InBatch
        <5> QED BY <4>2, <5>1 DEF Asks, Requests
      <4>5. CASE r.version = batch.data.version /\ UNCHANGED <<jobs, answer>>
        <5>1. jobs'[r.version] = None
          BY <3>1, <4>5 DEF OnceOK, InBatch
        <5>2. \A e \in Drawn \union events \union Elements(items) :
                e.version # r.version
          BY <3>1, <4>5 DEF OnceOK, InBatch
        <5>3. Drawn' = Drawn
          BY <3>1 DEF Drawn
        <5>4. Complete(r.version)'
          BY <3>1, <5>1, <5>2, <5>3 DEF Complete, InBatch
        <5> QED BY <4>1, <5>4 DEF Reported
      <4> QED BY <3>2, <4>1, <4>2, <4>3, <4>4, <4>5 DEF Quiet, Starts
    <3> QED BY <3>3, <3>4
  <2>3. ASSUME NEW v \in Versions, NEW i \in Installers, CheckFinished(v, i)
        PROVE  Reported(d)'
    <3>1. /\ UNCHANGED <<events, items, batch, jobs>>
          /\ jobs[v] # None /\ jobs[v] \in Installation(Data)
          /\ \/ writes'[<<v, i>>] = << >>
             \/ /\ jobs[v].pendingContexts = {}
                /\ writes'[<<v, i>>] = Finish(jobs[v])
          /\ \A x \in Writers : x # <<v, i>> => writes'[x] = writes[x]
      BY <2>3, Types, FinishedFacts
    <3>2. CASE w # <<v, i>>
      BY <2>1, <3>1, <3>2
    <3>3. CASE w = <<v, i>>
      <4>1. jobs[v].pendingContexts = {} /\ d \in Elements(Finish(jobs[v]))
        BY <1>6, <3>1, <3>3, ElementsOfEmpty
      <4>2. CASE d.state \notin {"INSTALLED", "WITHDRAWN"}
        BY <4>2 DEF Reported
      <4>3. CASE d.state \in {"INSTALLED", "WITHDRAWN"}
        <5>1. /\ None \notin Data
              /\ jobs[v].toInstall = None => jobs[v].toUninstall # None
          BY <3>1, NoneAssumption DEF JobsOK
        <5>2. /\ jobs[v].errorContexts = {}
              /\ d.version = IF jobs[v].toInstall # None
                             THEN jobs[v].toInstall.version
                             ELSE jobs[v].toUninstall.version
          BY <3>1, <4>1, <4>3, <5>1, DataClosed, FinishFacts
        <5>3. d.version = v
          BY <3>1, <5>2 DEF JobsOK
        <5>4. \A j \in Installers : answer[v][j] \in {"removed", "done"}
          BY <3>1, <4>1 DEF JobsOK, Typed
        <5>5. Complete(v)
          <6>1. /\ \A e \in Drawn \union events \union Elements(items) :
                     e.version # v
                /\ InBatch => batch.data.version # v
            BY <3>1 DEF OnceOK
          <6> QED BY <5>2, <5>4, <6>1 DEF Complete
        <5>6. v <= clock
          BY <3>1 DEF JobsOK
        <5>7. Complete(v)'
          BY <5>5, <5>6, CompleteStep
        <5> QED BY <5>3, <5>7 DEF Reported
      <4> QED BY <4>2, <4>3
    <3> QED BY <3>2, <3>3
  <2>4. ASSUME NEW x \in Writers, ApplyUpdate(x)
        PROVE  Reported(d)'
    <3>1. PICK h : h = Head(writes[x])
      OBVIOUS
    <3>2. /\ Elements(writes'[x]) \subseteq Elements(writes[x])
          /\ \A y \in Writers : y # x => writes'[y] = writes[y]
      BY <2>4, <3>1, ApplyFacts
    <3>3. d \in Elements(writes[w])
      BY <1>6, <3>2
    <3> QED BY <1>2, <1>3, <3>3
  <2>5. \/ Process
        \/ \E v \in Versions, i \in Installers : CheckFinished(v, i)
        \/ \E x \in Writers : ApplyUpdate(x)
        \/ writes' = writes
    BY NextCases, Types, RequestingFacts, PuttingFacts, NotingFacts
       DEF HandleEvent, TakeBatch, CreateInitialPhase, BatchDone, InstallerAnswers,
           CheckUpdate, writing
  <2> QED BY <2>1, <2>2, <2>3, <2>4, <2>5
<1>7. (current # None => Reported(current))'
  <2>1. ASSUME current' # None
        PROVE  Reported(current)'
    <3>1. PICK c \in R : c = current'
      BY <1>4, <2>1
    <3>2. Reported(c)'
      BY <1>2
    <3> QED BY <3>1, <3>2 DEF Reported, Complete, InBatch, Drawn
  <2> QED BY <2>1
<1>8. (batch.stored # None => Reported(batch.stored))'
  <2>1. ASSUME batch'.stored # None
        PROVE  Reported(batch.stored)'
    <3>1. PICK c \in R : c = batch'.stored
      BY <1>5, <2>1
    <3>2. Reported(c)'
      BY <1>2
    <3> QED BY <3>1, <3>2 DEF Reported, Complete, InBatch, Drawn
  <2> QED BY <2>1
<1> QED BY <1>6, <1>7, <1>8 DEF OutOK

\* Only the second half of write takes a request out.
LEMMA OnlyWritersTakeOut ==
  ASSUME Typed(Known), Next, pending # None, pending' = None
  PROVE  \E w \in Writers : ApplyUpdate(w)
<1>1. ~Requesting /\ ~Noting
  BY Types, RequestingFacts, NotingFacts
<1>2. ~Putting
  <2>1. \A c \in calls : c.data # None
    BY Types DEF Typed, Calls
  <2> QED BY <2>1, PuttingFacts
<1>3. CASE Process
  BY <1>3, Types, ProcessFacts
<1> QED BY <1>1, <1>2, <1>3, NextCases
     DEF HandleEvent, TakeBatch, CreateInitialPhase, BatchDone, InstallerAnswers,
         CheckFinished, CheckUpdate, requests

-----------------------------------------------------------------------------
(* The theorems *)

\* The invariant holds initially.
LEMMA Initially ==
  ASSUME Init
  PROVE  IInv
<1>1. Typed(Known)
  <2>1. clock \in 0..MaxVersion /\ corrupted \in Nat
    BY ConstantsAssumption DEF Init
  <2>2. /\ pending = None /\ current = None /\ calls = {}
        /\ events = {} /\ items = << >> /\ batch = Idle
    BY DEF Init
  <2>a. asking \in [Threads -> Asking(Known) \union {None}]
    BY DEF Init
  <2>3. ready \in BOOLEAN
    BY DEF Init
  <2>4. stamp \in [version : 0..MaxVersion, isv : Nat]
    BY ConstantsAssumption DEF Init
  <2>5. jobs \in [Versions -> Installation(Known) \union {None}]
    BY DEF Init
  <2>6. answer \in [Versions -> [Installers ->
                     {"none", "applying", "removed", "done"}]]
    BY DEF Init
  <2>7. writes \in [Writers -> Seq(Known)]
    <3>1. << >> \in Seq(Known)
      OBVIOUS
    <3> QED BY <3>1 DEF Init
  <2>8. verdict \in [Writers -> [is : {"unread", "accept", "reject"},
                                 old : Known \union {None}]]
    BY DEF Init, Unread
  <2>9. items \in Seq(Known)
    BY <2>2
  <2> QED BY <2>1, <2>2, <2>3, <2>4, <2>5, <2>6, <2>7, <2>8, <2>9,
              <2>a DEF Typed
<1>2. JobsOK
  BY WriterFacts DEF Init, JobsOK
<1>3. StampOK
  BY DEF Init, StampOK
<1>4. batch.at = "idle" /\ batch.stored = None
  BY DEF Init, Idle
<1>5. Elements(items) = {} /\ events = {} /\ calls = {} /\ Drawn = {}
  BY ElementsOfEmpty DEF Init, Drawn
<1>6. OnceOK /\ AskOK
  BY <1>4, <1>5 DEF Init, OnceOK, AskOK, InBatch
<1>7. BatchOK
  BY <1>4, WriterFacts DEF Init, BatchOK
<1>8. VerdictOK
  BY DEF Init, VerdictOK
<1>9. \A w \in Writers : Elements(writes[w]) = {}
  BY ElementsOfEmpty DEF Init
<1>10. OutOK
  BY <1>4, <1>9 DEF Init, OutOK
<1> QED BY <1>1, <1>2, <1>3, <1>6, <1>7, <1>8, <1>10 DEF IInv

\* Steps that change nothing.
LEMMA Stutter ==
  ASSUME IInv, UNCHANGED vars
  PROVE  IInv'
<1>1. UNCHANGED <<clock, calls, pending, current, stamp, events, items, ready,
                  batch, jobs, answer, writes, verdict, corrupted, asking>>
  BY DEF vars, requests, queueing, stored, install, writing, cleanup
<1>d. Drawn' = Drawn
  BY <1>1 DEF Drawn
<1>2. Known' = Known
  BY <1>1, <1>d DEF Known
<1>3. Typed(Known)'
  BY <1>1, <1>2 DEF IInv, Typed
<1>4. JobsOK' /\ BatchOK' /\ VerdictOK' /\ StampOK'
  BY <1>1 DEF IInv, JobsOK, BatchOK, VerdictOK, StampOK
<1>5. OnceOK' /\ OutOK' /\ AskOK'
  BY <1>1, <1>d DEF IInv, OnceOK, OutOK, AskOK, InBatch, Reported, Complete
<1> QED BY <1>3, <1>4, <1>5 DEF IInv

\* Whatever clients, installers, the cleanup and the topology do, all intent
\* data stems from a request and the threads that write keep out of each
\* other's way: the inductive invariant.
THEOREM Invariance == Spec => []IInv
<1>1. Init => IInv
  BY Initially
<1>2. IInv /\ [Next]_vars => IInv'
  <2>1. ASSUME IInv, Next
        PROVE  IInv'
    BY <2>1, KnownStep, JobsStep, OnceStep, BatchStep, VerdictStep, StampStep,
       OutStep, AskStep DEF IInv
  <2> QED BY <2>1, Stutter
<1> QED BY <1>1, <1>2, PTL DEF Spec

\* Every variable of IntentManager, InstallCoordinator, IntentCleanup and the
\* store holds a value of its type.
THEOREM TypeCorrect == Spec => []TypeOK
<1>1. IInv => TypeOK
  BY Types DEF IInv, TypeOK
<1> QED BY <1>1, Invariance, PTL

\* GossipIntentStore: whoever writes, in whatever order, the entry of the intent
\* never goes back to an older request or an earlier stage of the same one.
THEOREM MovesForward == Spec => CurrentMovesForward
<1>1. IInv /\ [Next]_vars =>
        [current # None /\ current' # None => ~Before(current', current)]_vars
  <2>1. ASSUME IInv, Next, current # None, current' # None
        PROVE  ~Before(current', current)
    <3>1. Typed(Known) /\ StampOK
      BY <2>1 DEF IInv
    <3>2. /\ current.version = stamp.version /\ current.isv = stamp.isv
          /\ stamp.version \in Nat /\ stamp.isv \in Nat
      BY <2>1, <3>1, Types DEF StampOK
    <3>3. CASE UNCHANGED <<current, stamp>>
      BY <3>2, <3>3 DEF Before
    <3>4. ASSUME NEW w \in Writers, ApplyUpdate(w)
          PROVE  ~Before(current', current)
      <4>1. /\ ~Before(stamp', stamp)
            /\ \/ UNCHANGED <<current, stamp>>
               \/ /\ stamp'.version = current'.version
                  /\ stamp'.isv = current'.isv
        BY <2>1, <3>1, <3>4, StampGrows
      <4> QED BY <3>2, <3>3, <4>1 DEF Before
    <3> QED BY <2>1, <3>1, <3>3, <3>4, StoredStep
  <2> QED BY <2>1
<1> QED BY <1>1, Invariance, PTL DEF Spec, CurrentMovesForward

\* GossipIntentStore.write: whatever the order in which requests are put and
\* answered, a submission or withdrawal leaves the pending map only when the
\* entry of the intent has reached its version, or to a purge requested later.
THEOREM RequestsKept == Spec => NoRequestLost
<1>1. IInv /\ [Next]_vars =>
        [pending # None /\ pending' = None =>
           \/ pending.request = "PURGE_REQ"
           \/ stamp'.version >= pending.version
           \/ \E w \in Writers :
                /\ writes'[w] # writes[w]
                /\ Head(writes[w]).state = "PURGE_REQ"
                /\ Head(writes[w]).version > pending.version]_vars
  <2>1. ASSUME IInv, Next, pending # None, pending' = None,
               pending.request # "PURGE_REQ"
        PROVE  \/ stamp'.version >= pending.version
               \/ \E w \in Writers :
                    /\ writes'[w] # writes[w]
                    /\ Head(writes[w]).state = "PURGE_REQ"
                    /\ Head(writes[w]).version > pending.version
    <3>1. Typed(Known) /\ VerdictOK
      BY <2>1 DEF IInv
    <3>2. PICK w \in Writers : ApplyUpdate(w)
      BY <2>1, <3>1, OnlyWritersTakeOut
    <3>3. PICK d : d = Head(writes[w])
      OBVIOUS
    <3>4. /\ d \in Known /\ verdict[w] # Unread
          /\ pending.version <= d.version
          /\ writes[w] # << >> /\ writes[w] \in Seq(Known)
          /\ writes'[w] = Tail(writes[w])
      BY <2>1, <3>1, <3>2, <3>3, ApplyFacts DEF TakenOut, Typed
    <3>5. /\ pending.version \in Nat /\ stamp.version \in Nat
          /\ d.version \in Nat
      BY <2>1, <3>1, <3>4, Types DEF Typed
    <3>6. CASE d.state = "PURGE_REQ"
      <4>1. d.version # pending.version
        BY <2>1, <3>4, <3>6 DEF Known
      <4>2. writes'[w] # writes[w]
        <5>1. Len(Tail(writes[w])) # Len(writes[w])
          BY <3>4, HeadTailProperties
        <5> QED BY <3>4, <5>1
      <4> QED BY <3>3, <3>4, <3>5, <3>6, <4>1, <4>2
    <3>7. CASE d.state # "PURGE_REQ"
      <4>1. CASE stamp' = [version |-> d.version, isv |-> d.isv]
        BY <3>4, <3>5, <4>1
      <4>2. CASE /\ verdict[w].is = "accept" => ~Wins(d)
                 /\ UNCHANGED <<current, stamp>>
        <5>1. d.version <= stamp.version
          <6>1. CASE verdict[w].is = "accept"
            BY <3>5, <4>2, <6>1 DEF Wins, Before
          <6>2. CASE verdict[w].is # "accept"
            BY <3>1, <3>3, <3>4, <6>2 DEF VerdictOK
          <6> QED BY <6>1, <6>2
        <5> QED BY <3>4, <3>5, <4>2, <5>1
      <4> QED BY <3>1, <3>2, <3>3, <3>7, <4>1, <4>2, ApplyFacts
    <3> QED BY <3>6, <3>7
  <2> QED BY <2>1
<1> QED BY <1>1, Invariance, PTL DEF Spec, NoRequestLost

\* InstallCoordinator: an intent is INSTALLED or WITHDRAWN only when all its
\* installers have answered, none with an error.
THEOREM OutcomesReported == Spec => []OutcomeIsReported
<1>1. IInv => OutcomeIsReported
  BY DEF IInv, OutOK, Reported, Complete, OutcomeIsReported
<1> QED BY <1>1, Invariance, PTL

=============================================================================

------------------------------ MODULE Intents ------------------------------
(***************************************************************************)
(* The life of one intent on the master of its key: IntentManager with     *)
(* its phases, IntentAccumulator, InstallCoordinator and IntentCleanup,    *)
(* over GossipIntentStore.                                                 *)
(*                                                                         *)
(* A request draws a version and is put in the pending map under it, in    *)
(* two steps, so that requests get there in any order; the listener of the *)
(* map hands it to the accumulator.  Batches are processed one at a time:  *)
(* the phases of a request compute new intent data, ask the installers to  *)
(* apply it, and the batch writes the data to the current map.  The        *)
(* installers answer on threads of their own; the last to answer finishes  *)
(* the installation and writes the outcome.  Everyone writes with          *)
(* GossipIntentStore.write, which checks first and puts later, and takes   *)
(* out of the pending map what is not newer than the data written.         *)
(*                                                                         *)
(* A version is a point in time and is never given twice.  The third       *)
(* component of the current map's timestamps, a sequence number, is left   *)
(* out: of equal timestamps the later one wins.  Intents, installables and *)
(* resources have no content; the accumulator is a sequence (Batching).    *)
(***************************************************************************)
EXTENDS Naturals, Sequences

CONSTANTS
  Installers,      \* the installers an installable of the intent concerns
  Manager,         \* the thread that writes batches
  None,            \* null
  RetryThreshold,  \* IntentCleanup.retryThreshold
  Prompt,          \* every request is handled within a period of the cleanup
  Asked,           \* the kinds of request that clients make
  MaxRequests,     \* bound: the version up to which there are new requests
  MaxVersion       \* bound: the last version

ASSUME ConstantsAssumption ==
  /\ Installers # {}
  /\ Manager \notin Installers
  /\ RetryThreshold \in Nat
  /\ Prompt \in BOOLEAN
  /\ MaxRequests \in Nat
  /\ MaxVersion \in Nat

Versions == 1..MaxVersion
Requests == {"INSTALL_REQ", "WITHDRAW_REQ", "PURGE_REQ"}
States   == Requests \union {"INSTALLING", "INSTALLED", "WITHDRAWING",
                             "WITHDRAWN", "FAILED", "CORRUPT"}
ASSUME AskedAssumption == Asked \subseteq Requests

\* IntentData; of the installables only whether there are any.
Data == [request : Requests, version : Versions, isv : Nat, state : States,
         installables : BOOLEAN, errorCount : Nat]

\* IntentInstallationContext and the sets of contexts InstallCoordinator keeps.
Installation(D) ==
  [toUninstall : D \union {None}, toInstall : D \union {None},
   pendingContexts : SUBSET Installers, errorContexts : SUBSET Installers]

ASSUME NoneAssumption == None \notin Data \union Installation(Data)

\* The threads that write to the store: the one of the batches and, of every
\* version, the one on which an installer answers.
Writers == ({0} \X {Manager}) \union (Versions \X Installers)
Batch   == <<0, Manager>>

\* The threads that make requests of their own: of IntentCleanup its timer and
\* the listener of CORRUPT events, and the one that follows the topology.  What
\* they ask for, anew or again, and the calls of addPending.
Threads   == {"cleanup", "event", "topology"}
Asking(D) == [request : Requests, again : D \union {None}]
Calls(D)  == [by : Threads \union {"client"}, again : BOOLEAN, data : D]

ASSUME NoneAsksAssumption == None \notin Asking(Data)

VARIABLES
  clock,     \* the last version given
  calls,     \* calls of addPending that have drawn a version
  pending,   \* pendingMap, at the intent's key
  current,   \* currentMap, at the intent's key
  stamp,     \* the timestamp of current, or of its tombstone
  events,    \* PUT events of pendingMap its listener has not handled
  items,     \* the requests in the accumulator
  ready,     \* IntentAccumulator.ready
  batch,     \* the request in process: where it is, its data and the stored
  jobs,      \* jobs[v]: the IntentInstallationContext of version v, or None
  answer,    \* answer[v][i]: how far installer i is with it
  writes,    \* writes[w]: what thread w still has to write
  verdict,   \* verdict[w]: what the first half of write has found
  corrupted, \* CORRUPT events its listener has not handled
  asking     \* asking[t]: what thread t has decided to ask for, from what it read

requests == <<clock, calls, pending, events>>
queueing == <<items, ready, batch>>
stored   == <<current, stamp>>
install  == <<jobs, answer>>
writing  == <<writes, verdict>>
cleanup  == <<corrupted, asking>>
vars == <<requests, queueing, stored, install, writing, cleanup>>

Unread == [is |-> "unread", old |-> None]
Idle   == [at |-> "idle", data |-> None, stored |-> None]

Init ==
  /\ clock = 0
  /\ calls = {}
  /\ pending = None
  /\ current = None
  /\ stamp = [version |-> 0, isv |-> 0]
  /\ events = {}
  /\ items = << >>
  /\ ready = TRUE
  /\ batch = Idle
  /\ jobs = [v \in Versions |-> None]
  /\ answer = [v \in Versions |-> [i \in Installers |-> "none"]]
  /\ writes = [w \in Writers |-> << >>]
  /\ verdict = [w \in Writers |-> Unread]
  /\ corrupted = 0
  /\ asking = [t \in Threads |-> None]

-----------------------------------------------------------------------------
(* Requests: IntentService and GossipIntentStore.addPending *)

\* IntentData.submit, withdraw and purge.
Fresh(req) == [request |-> req, version |-> None, isv |-> 0, state |-> req,
               installables |-> FALSE, errorCount |-> 0]

\* Mutated form of Draw: the data is put without a version.
DrawNothing(by, again, data) ==
  /\ clock < MaxVersion
  /\ clock' = clock + 1
  /\ calls' = calls \union {[by |-> by, again |-> again, data |-> data]}
  /\ UNCHANGED <<pending, events>>

\* A version is drawn for new data, by assign, or for data to be put again.
Draw(by, again, data) ==
  LET d == [data EXCEPT !.version = clock + 1, !.isv = @ + 1]
  IN /\ clock < MaxVersion
     /\ clock' = clock + 1
     /\ calls' = calls \union {[by |-> by, again |-> again, data |-> d]}
     /\ UNCHANGED <<pending, events>>

\* A client calls submit, withdraw or purge.
Request(req) ==
  /\ clock < MaxRequests
  /\ Draw("client", FALSE, Fresh(req))
  /\ UNCHANGED <<queueing, stored, install, writing, cleanup>>

\* compute, unlike put, keeps a request that is newer.
Takes(c) == c.again => pending = None \/ pending.version < c.data.version

\* addPending: the data is put, whatever its version, or computed;
AddPending(c) ==
  /\ c \in calls
  /\ calls' = calls \ {c}
  /\ pending' = IF Takes(c) THEN c.data ELSE pending
  /\ events' = IF Takes(c) THEN events \union {c.data} ELSE events
  /\ UNCHANGED <<clock, queueing, stored, install, writing, cleanup>>

\* or the map refuses the put: it draws a timestamp too, and another put or
\* removal may have come after that (allowed at any time here).
RefusePut(c) ==
  /\ c \in calls
  /\ ~c.again
  /\ calls' = calls \ {c}
  /\ UNCHANGED <<clock, pending, events, queueing, stored, install, writing,
                 cleanup>>

\* InternalPendingListener: the events of concurrent puts come in any order.
HandleEvent(d) ==
  /\ d \in events
  /\ events' = events \ {d}
  /\ items' = Append(items, d)
  /\ UNCHANGED <<clock, calls, pending, ready, batch, stored, install,
                 writing, cleanup>>

-----------------------------------------------------------------------------
(* IntentAccumulator and InternalBatchDelegate *)

\* processItems, called when isReady(): reduce keeps the last of a key.
TakeBatch ==
  /\ ready
  /\ items # << >>
  /\ ready' = FALSE
  /\ batch' = [at |-> "start", data |-> items[Len(items)], stored |-> None]
  /\ items' = << >>
  /\ UNCHANGED <<requests, stored, install, writing, cleanup>>

\* transferErrorCount
Transferred(d, s) ==
  IF s = None THEN d
  ELSE [d EXCEPT !.errorCount =
          IF s.request = d.request THEN s.errorCount ELSE 0]

\* createInitialPhase: a request that was handled or replaced is skipped.
CreateInitialPhase ==
  /\ batch.at = "start"
  /\ batch' = IF pending = None \/ pending.version > batch.data.version
              THEN [batch EXCEPT !.at = "write"]
              ELSE [at |-> "process", stored |-> current,
                    data |-> Transferred(batch.data, current)]
  /\ UNCHANGED <<requests, items, ready, stored, install, writing, cleanup>>

\* IntentData.compiled followed by setState, and nextState.
Compiled(d, state, installables) ==
  [d EXCEPT !.isv = @ + 2, !.state = state, !.installables = installables]
NextState(d, state) == [d EXCEPT !.isv = @ + 1, !.state = state]

\* IntentData.corrupt
Corrupt(d) == [NextState(d, "CORRUPT") EXCEPT !.errorCount = @ + 1]

HasInstallables(s) == s # None /\ s.installables

\* The batch goes on to write result, or nothing.
Written(result) ==
  /\ batch' = [batch EXCEPT !.at = "write"]
  /\ writes' = [writes EXCEPT ![Batch] =
                  IF result = None THEN << >> ELSE <<result>>]

\* Mutated form of InstallIntents: a context is pending once it is applied.
InstallOneByOne(toUninstall, toInstall, applied) ==
  LET v == batch.data.version
  IN /\ jobs' = [jobs EXCEPT ![v] =
           [toUninstall |-> toUninstall, toInstall |-> toInstall,
            pendingContexts |-> {CHOOSE i \in Installers : TRUE},
            errorContexts |-> {}]]
     /\ answer' = [answer EXCEPT ![v] =
           [i \in Installers |-> IF i \in applied THEN "applying" ELSE "none"]]

\* installIntents: every context is pending before the first is applied.
InstallIntents(toUninstall, toInstall, applied) ==
  LET v == batch.data.version
  IN /\ jobs' = [jobs EXCEPT ![v] =
           [toUninstall |-> toUninstall, toInstall |-> toInstall,
            pendingContexts |-> Installers, errorContexts |-> {}]]
     /\ answer' = [answer EXCEPT ![v] =
           [i \in Installers |-> IF i \in applied THEN "applying" ELSE "none"]]

\* The phase Withdrawing.
Withdrawing(d) ==
  LET result == Compiled(d, "WITHDRAWING", TRUE)
  IN Written(result) /\ InstallIntents(result, None, Installers)

\* InstallRequest, Compiling and Installing: the compilation succeeds.
CompileSucceeds ==
  /\ batch.at = "process"
  /\ batch.data.request = "INSTALL_REQ"
  /\ LET result == Compiled(batch.data, "INSTALLING", TRUE)
     IN Written(result) /\ InstallIntents(batch.stored, result, Installers)
  /\ UNCHANGED <<requests, items, ready, stored, verdict, cleanup>>

\* Compiling: an IntentException; what is installed is withdrawn.
CompileFails ==
  /\ batch.at = "process"
  /\ batch.data.request = "INSTALL_REQ"
  /\ \/ /\ HasInstallables(batch.stored)
        /\ Withdrawing(batch.data)
     \/ /\ ~HasInstallables(batch.stored)
        /\ Written(NextState(batch.data, "FAILED"))
        /\ UNCHANGED install
  /\ UNCHANGED <<requests, items, ready, stored, verdict, cleanup>>

\* "Future failed": a compiler or an installer throws any other exception, the
\* latter after the contexts of some others were applied; without a current
\* entry the handler fails too, and with it the batch.
ProcessThrows ==
  /\ batch.at = "process"
  /\ batch.data.request # "PURGE_REQ"
  /\ Written(IF current = None THEN None ELSE NextState(current, "FAILED"))
  /\ \/ UNCHANGED install
     \/ \E applied \in SUBSET Installers \ {{}, Installers} :
          \/ /\ batch.data.request = "INSTALL_REQ"
             /\ InstallIntents(batch.stored,
                  Compiled(batch.data, "INSTALLING", TRUE), applied)
          \/ /\ HasInstallables(batch.stored)
             /\ InstallIntents(
                  Compiled(batch.data, "WITHDRAWING", TRUE), None, applied)
  /\ UNCHANGED <<requests, items, ready, stored, verdict, cleanup>>

\* WithdrawRequest
ProcessWithdraw ==
  /\ batch.at = "process"
  /\ batch.data.request = "WITHDRAW_REQ"
  /\ \/ /\ HasInstallables(batch.stored)
        /\ Withdrawing(batch.data)
     \/ /\ ~HasInstallables(batch.stored)
        /\ Written(NextState(batch.data, "WITHDRAWN"))
        /\ UNCHANGED install
  /\ UNCHANGED <<requests, items, ready, stored, verdict, cleanup>>

\* PurgeRequest: a purge that is rejected writes what is stored.
ProcessPurge ==
  /\ batch.at = "process"
  /\ batch.data.request = "PURGE_REQ"
  /\ LET s == batch.stored
         accepted == s = None \/ s.state \in {"WITHDRAWN", "FAILED"}
     IN Written(IF accepted THEN batch.data ELSE s)
  /\ UNCHANGED <<requests, items, ready, stored, install, verdict, cleanup>>

\* Mutated form of BatchDone: the accumulator is not told.
BatchForgotten ==
  /\ batch.at = "write"
  /\ writes[Batch] = << >>
  /\ batch' = Idle
  /\ UNCHANGED <<requests, items, ready, stored, install, writing, cleanup>>

\* thenRun(accumulator::ready)
BatchDone ==
  /\ batch.at = "write"
  /\ writes[Batch] = << >>
  /\ batch' = Idle
  /\ ready' = TRUE
  /\ UNCHANGED <<requests, items, stored, install, writing, cleanup>>

-----------------------------------------------------------------------------
(* InstallCoordinator *)

\* finish: what is written when all installers have answered.
Finish(job) ==
  LET in  == job.toInstall
      out == job.toUninstall
      failed(d) == IF d = None THEN << >> ELSE <<Corrupt(d)>>
  IN IF job.errorContexts # {} THEN failed(in) \o failed(out)
     ELSE IF in # None THEN <<Compiled(in, "INSTALLED", in.installables)>>
     ELSE <<Compiled(out, IF out.request = "INSTALL_REQ" THEN "FAILED"
                          ELSE "WITHDRAWN", FALSE)>>

\* success() and failed(): an error is recorded before the context is removed.
InstallerAnswers(v, i, errors) ==
  /\ answer[v][i] = "applying"
  /\ answer' = [answer EXCEPT ![v][i] = "removed"]
  /\ jobs' = [jobs EXCEPT ![v].errorContexts = @ \union errors,
                          ![v].pendingContexts = @ \ {i}]
  /\ UNCHANGED <<requests, queueing, stored, writing, cleanup>>

\* isPendingContextsEmpty: two installers may both find that they are the last.
CheckFinished(v, i) ==
  /\ answer[v][i] = "removed"
  /\ answer' = [answer EXCEPT ![v][i] = "done"]
  /\ writes' = [writes EXCEPT ![<<v, i>>] =
                  IF jobs[v].pendingContexts = {} THEN Finish(jobs[v])
                  ELSE << >>]
  /\ UNCHANGED <<requests, queueing, stored, jobs, verdict, cleanup>>

-----------------------------------------------------------------------------
(* GossipIntentStore.write *)

\* The states of current from which an update of the same version to a state
\* is refused.
Refused ==
  [INSTALLING  |-> {"INSTALLING", "WITHDRAWING", "WITHDRAWN", "PURGE_REQ"},
   INSTALLED   |-> {"INSTALLED", "WITHDRAWING", "WITHDRAWN", "PURGE_REQ"},
   WITHDRAWING |-> {"WITHDRAWING", "WITHDRAWN", "INSTALLING", "INSTALLED",
                    "PURGE_REQ"},
   WITHDRAWN   |-> {"WITHDRAWN", "INSTALLING", "INSTALLED", "PURGE_REQ"},
   FAILED      |-> {"FAILED"},
   CORRUPT     |-> {"CORRUPT"},
   PURGE_REQ   |-> {},
   INSTALL_REQ  |-> States,
   WITHDRAW_REQ |-> States]

IsUpdateAcceptable(cur, new) ==
  \/ cur = None
  \/ cur.version < new.version
  \/ /\ cur.version = new.version
     /\ cur.isv < new.isv
     /\ cur.state \notin Refused[new.state]

\* The first half of write: the update is held against the current map.
CheckUpdate(w) ==
  /\ writes[w] # << >>
  /\ verdict[w] = Unread
  /\ LET d == Head(writes[w])
     IN verdict' = [verdict EXCEPT ![w] =
          [is  |-> IF IsUpdateAcceptable(current, d) THEN "accept" ELSE "reject",
           old |-> IF d.state = "PURGE_REQ" THEN current ELSE None]]
  /\ UNCHANGED <<requests, queueing, stored, install, writes, cleanup>>

Before(s, t) == s.version < t.version \/ (s.version = t.version /\ s.isv < t.isv)

\* Mutated form of Wins: timestamps are versions and sequence numbers.
WinsByVersion(d) == stamp.version <= d.version

\* The current map takes an entry unless the one it has is newer.
Wins(d) == ~Before(d, stamp)

\* Mutated form of TakenOut: whatever is pending is taken out.
TakenOutAnyway(d) == pending # None

\* The request of the data written, or an older one, is taken out.
TakenOut(d) == pending # None /\ pending.version <= d.version

\* The second half: the entry is put or removed, and the pending map is tidied.
ApplyUpdate(w) ==
  /\ writes[w] # << >>
  /\ verdict[w] # Unread
  /\ LET d   == Head(writes[w])
         old == verdict[w].old
         ok  == verdict[w].is = "accept"
         purge   == d.state = "PURGE_REQ"
         puts    == ok /\ ~purge /\ Wins(d)
         removes == /\ ok /\ purge /\ old # None
                    /\ Wins(old)
                    /\ current = None \/ current.version = old.version
         At(t)   == [version |-> t.version, isv |-> t.isv]
     IN /\ \/ puts /\ current' = d /\ stamp' = At(d)
           \/ removes /\ current' = None /\ stamp' = At(old)
           \/ ~puts /\ ~removes /\ UNCHANGED stored
        /\ corrupted' = IF puts /\ d.state = "CORRUPT" THEN corrupted + 1
                        ELSE corrupted
        /\ pending' = IF TakenOut(d) THEN None ELSE pending
  /\ writes' = [writes EXCEPT ![w] = Tail(@)]
  /\ verdict' = [verdict EXCEPT ![w] = Unread]
  /\ UNCHANGED <<clock, calls, events, queueing, install, asking>>

-----------------------------------------------------------------------------
(* IntentCleanup, and the recompilation that a topology change triggers *)

\* A request is on its way: it is to be put, handled, or its data written.
OnItsWay ==
  \/ calls # {}
  \/ events # {}
  \/ items # << >>
  \/ ~ready
  \/ \E w \in Writers : writes[w] # << >>

\* Thread t, with no call to finish, decides to ask for something.
Note(t, req, again) ==
  /\ asking[t] = None
  /\ \A c \in calls : c.by # t
  /\ asking' = [asking EXCEPT ![t] = [request |-> req, again |-> again]]

\* cleanup: a request that has been pending for a period is to be put again,
LookForPending ==
  /\ pending # None
  /\ Prompt => ~OnItsWay
  /\ Note("cleanup", pending.request, pending)
  /\ UNCHANGED <<requests, queueing, stored, install, writing, corrupted>>

\* and so is a stuck intent that has no request; a failed one, whose request
\* is never a purge, is submitted or withdrawn anew.
LookForFailed ==
  /\ clock < MaxRequests
  /\ pending = None
  /\ current # None
  /\ \/ /\ current.state \in {"FAILED", "CORRUPT"}
        /\ Note("cleanup", current.request, None)
     \/ /\ current.state \in {"INSTALLING", "WITHDRAWING"}
        /\ Note("cleanup", current.request, current)
  /\ UNCHANGED <<requests, queueing, stored, install, writing, corrupted>>

\* event: a CORRUPT intent is resubmitted at once, until the threshold is met.
HandleCorrupt ==
  /\ clock < MaxRequests
  /\ corrupted > 0
  /\ corrupted' = corrupted - 1
  /\ LET retried == current # None /\ current.errorCount < RetryThreshold
     IN \/ retried /\ Note("event", current.request, None)
        \/ ~retried /\ UNCHANGED asking
  /\ UNCHANGED <<requests, queueing, stored, install, writing>>

\* buildAndSubmitBatches: an intent without a request is submitted if the
\* change concerns it or it has failed, and one that allows partial failures
\* in any state, or withdrawn if it was.
TriggerCompile ==
  /\ clock < MaxRequests
  /\ pending = None
  /\ current # None
  /\ \/ Note("topology", "INSTALL_REQ", None)
     \/ /\ current.state \in {"WITHDRAWING", "WITHDRAWN"}
        /\ Note("topology", "WITHDRAW_REQ", None)
  /\ UNCHANGED <<requests, queueing, stored, install, writing, corrupted>>

\* resubmitCorrupt, resubmitPendingRequest, submit and withdraw: what was
\* decided is asked for, whatever has been requested in the meantime.
Resubmit(t) ==
  /\ asking[t] # None
  /\ LET again == asking[t].again
     IN Draw(t, again # None,
             IF again # None THEN again ELSE Fresh(asking[t].request))
  /\ asking' = [asking EXCEPT ![t] = None]
  /\ UNCHANGED <<queueing, stored, install, writing, corrupted>>

-----------------------------------------------------------------------------
Next ==
  \/ \E req \in Asked : Request(req)
  \/ \E c \in calls : AddPending(c)
  \/ \E c \in calls : RefusePut(c)
  \/ \E d \in events : HandleEvent(d)
  \/ TakeBatch
  \/ CreateInitialPhase
  \/ CompileSucceeds
  \/ CompileFails
  \/ ProcessThrows
  \/ ProcessWithdraw
  \/ ProcessPurge
  \/ BatchDone
  \/ \E v \in Versions, i \in Installers :
       \/ InstallerAnswers(v, i, {})
       \/ InstallerAnswers(v, i, {i})
       \/ CheckFinished(v, i)
  \/ \E w \in Writers : CheckUpdate(w) \/ ApplyUpdate(w)
  \/ LookForPending
  \/ LookForFailed
  \/ HandleCorrupt
  \/ TriggerCompile
  \/ \E t \in Threads : Resubmit(t)

Spec == Init /\ [][Next]_vars

\* Threads are not starved and the cleanup runs periodically.  The installers
\* need not answer, nor the clients or the topology do anything.
Fairness ==
  /\ WF_vars(\E c \in calls : AddPending(c) \/ RefusePut(c))
  /\ WF_vars(\E d \in events : HandleEvent(d))
  /\ WF_vars(TakeBatch)
  /\ WF_vars(CreateInitialPhase)
  /\ WF_vars(CompileSucceeds \/ CompileFails \/ ProcessThrows)
  /\ WF_vars(ProcessWithdraw \/ ProcessThrows)
  /\ WF_vars(ProcessPurge)
  /\ WF_vars(BatchDone)
  /\ \A w \in Writers : WF_vars(CheckUpdate(w) \/ ApplyUpdate(w))
  /\ WF_vars(LookForPending)
  /\ \A t \in Threads : WF_vars(Resubmit(t))

FairSpec == Spec /\ Fairness

-----------------------------------------------------------------------------
(* Properties *)

\* The values of the variables, with intent data taken from D.
Typed(D) ==
  /\ clock \in 0..MaxVersion
  /\ calls \subseteq Calls(D)
  /\ pending \in D \union {None}
  /\ current \in D \union {None}
  /\ stamp \in [version : 0..MaxVersion, isv : Nat]
  /\ events \subseteq D
  /\ items \in Seq(D)
  /\ ready \in BOOLEAN
  /\ batch \in {Idle} \union [at : {"start", "process", "write"},
                              data : D, stored : D \union {None}]
  /\ jobs \in [Versions -> Installation(D) \union {None}]
  /\ answer \in [Versions -> [Installers ->
                  {"none", "applying", "removed", "done"}]]
  /\ writes \in [Writers -> Seq(D)]
  /\ verdict \in [Writers -> [is : {"unread", "accept", "reject"},
                             old : D \union {None}]]
  /\ corrupted \in Nat
  /\ asking \in [Threads -> Asking(D) \union {None}]

\* Every variable holds a value of its type.
TypeOK == Typed(Data)

\* The entry of the intent never goes back to an older request, nor to an
\* earlier stage of the same one: "compilation result overwriting installation
\* state", although writers check first and put later.
CurrentMovesForward ==
  [][current # None /\ current' # None => ~Before(current', current)]_vars

\* An intent is INSTALLED or, having had installables, WITHDRAWN only when
\* every installer has answered its installation, and none with an error.
OutcomeIsReported ==
  current # None /\ current.state \in {"INSTALLED", "WITHDRAWN"}
    /\ jobs[current.version] # None =>
      /\ jobs[current.version].errorContexts = {}
      /\ \A i \in Installers : answer[current.version][i] \in {"removed", "done"}

\* A late answer to an old request does not lose a new one: a submission or
\* withdrawal leaves the pending map only when the intent's entry (or, purged,
\* the tombstone of the entry) has reached its version, or when a purge that
\* was requested later takes it out.
NoRequestLost ==
  [][pending # None /\ pending' = None =>
       \/ pending.request = "PURGE_REQ"
       \/ stamp'.version >= pending.version
       \/ \E w \in Writers :
            /\ writes'[w] # writes[w]
            /\ Head(writes[w]).state = "PURGE_REQ"
            /\ Head(writes[w]).version > pending.version]_vars

\* A submission or withdrawal is dealt with, even if its data was put into the
\* accumulator in the wrong order and skipped, or its compilation failed (or it
\* would take one more repetition than the bound allows).
Handled ==
  Prompt => (pending # None /\ pending.request # "PURGE_REQ"
               ~> \/ pending = None
                  \/ pending.request = "PURGE_REQ"
                  \/ clock = MaxVersion /\ ~OnItsWay)

\* "It will start withdrawing shortly": a withdrawal that is pending is replaced
\* by an installation only if a client requests one.
WithdrawalStands ==
  [][pending # None /\ pending.request = "WITHDRAW_REQ"
       /\ pending' # None /\ pending'.request = "INSTALL_REQ"
       => \E c \in calls : c.by = "client" /\ c.data = pending']_vars

=============================================================================

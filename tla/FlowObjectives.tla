--------------------------- MODULE FlowObjectives ---------------------------
(***************************************************************************)
(* The flow objective service (InOrderFlowObjectiveManager over            *)
(* FlowObjectiveManager) with the inventory of next groups it consults     *)
(* (DistributedFlowObjectiveStore).                                        *)
(*                                                                         *)
(* Objectives of one queue key are executed one after the other: enqueue   *)
(* executes the first of a queue, and the answer to an objective dequeues  *)
(* it and executes the next.  An objective that refers to a next group     *)
(* that does not exist waits in pendingForwards or pendingNexts until the  *)
(* store notifies the group.  A cache holds the executing objective of     *)
(* every key; an entry that expires is answered with an error.             *)
(*                                                                         *)
(* Threads: clients and those that answer an objective run enqueue and     *)
(* dequeue, one at a time (both are synchronized); the store's notifier    *)
(* executes what waited for a group and holds no such lock; the installer  *)
(* pool hands objectives to the device's pipeliner; the cache's executor   *)
(* reports expired entries.  calls["manager"] and calls["notifier"] are    *)
(* the calls that the holder of the lock and the notifier still have to    *)
(* make.                                                                   *)
(*                                                                         *)
(* Objectives are told apart by what they are queued under, the next id    *)
(* they refer to and their operation.  Their content, the filtering of     *)
(* permissions and the caches of drivers are left out.                     *)
(***************************************************************************)
EXTENDS Naturals, Sequences

CONSTANTS
  Objectives,   \* the objectives clients submit, each once
  Keys,         \* queue keys: device, priority and selector, or device and id
  NextIds,      \* identifiers of next groups
  NoNext,       \* "nextId() == null"
  NoObjective,  \* no entry in the cache of executing objectives
  KeyOf,        \* KeyOf[o]: the queue key of o
  NextOf,       \* NextOf[o]: the next id o refers to or defines, or NoNext
  OpOf          \* OpOf[o]: what o is, one of Operations

Operations == {"filter", "forward", "add", "edit", "remove", "verify"}
NextOps    == {"add", "edit", "remove", "verify"}

ASSUME ConstantsAssumption ==
  /\ NoNext \notin NextIds
  /\ NoObjective \notin Objectives
  /\ KeyOf \in [Objectives -> Keys]
  /\ NextOf \in [Objectives -> NextIds \union {NoNext}]
  /\ OpOf \in [Objectives -> Operations]
  /\ \A o \in Objectives : OpOf[o] \in NextOps => NextOf[o] \in NextIds

VARIABLES
  submitted,        \* objectives that clients have submitted
  queue,            \* queue[k]: filtObjQueue, fwdObjQueue and nextObjQueue
  head,             \* head[k]: the cached head of the queue
  expired,          \* expired[o]: "no", "queued" (the removal notification of
                    \* its cache entry waits for its executor), "reported"
  failed,           \* failed[o]: InOrderObjectiveContext.failed
  finishing,        \* finishing[o][e]: threads about to dequeue o with error e
  calls,            \* calls[t]: the calls thread t still has to make
  pendingForwards,  \* pendingForwards[i]: forwards that wait for group i
  pendingNexts,     \* pendingNexts[i]: nexts that wait for group i
  groups,           \* the next groups of the store
  eventQ,           \* ADD events on their way to the delegate
  notifying,        \* the event the notifier is at, and where in notify it is
  tasks,            \* tasks[o]: ObjectiveProcessors of o in the installer pool
  handed,           \* handed[o]: times o is with the pipeliner
  applied,          \* applied[o]: of a next whose group is stored or removed
  answers           \* answers[o]: what the submitter of o was told

ordering  == <<submitted, queue, head, failed, finishing, answers>>
pending   == <<pendingForwards, pendingNexts>>
store     == <<groups, eventQ>>
pipeline  == <<tasks, handed, applied>>
vars      == <<ordering, expired, calls, pending, store, notifying, pipeline>>

Threads == {"manager", "notifier"}
Errors  == {"none", "timeout", "other"}

Call(op, o, e) == [op |-> op, obj |-> o, error |-> e]
Calls == [op : {"execute", "queue", "onError", "dequeue"},
          obj : Objectives, error : Errors]

Objs(s) == {s[i] : i \in 1..Len(s)}

\* The calls that execute the objectives of s one by one.
ExecuteAll(s) == [i \in 1..Len(s) |-> Call("execute", s[i], "none")]

Init ==
  /\ submitted = {}
  /\ queue = [k \in Keys |-> << >>]
  /\ head = [k \in Keys |-> NoObjective]
  /\ expired = [o \in Objectives |-> "no"]
  /\ failed = [o \in Objectives |-> FALSE]
  /\ finishing = [o \in Objectives |-> [e \in Errors |-> 0]]
  /\ calls = [t \in Threads |-> << >>]
  /\ pendingForwards = [i \in NextIds |-> << >>]
  /\ pendingNexts = [i \in NextIds |-> << >>]
  /\ groups = {}
  /\ eventQ = << >>
  /\ notifying = [phase |-> "idle", id |-> NoNext]
  /\ tasks = [o \in Objectives |-> 0]
  /\ handed = [o \in Objectives |-> 0]
  /\ applied = [o \in Objectives |-> 0]
  /\ answers = [o \in Objectives |-> {}]

-----------------------------------------------------------------------------
(* enqueue, execute and the wait for a next group *)

\* forward() and next(): an ADD, a VERIFY, a filter and a forward without a
\* next id do not wait.
Waits(o) == OpOf[o] \in {"forward", "edit", "remove"} /\ NextOf[o] # NoNext

\* Mutated form of Enqueue: every objective is executed at once.
EnqueueAndExecute(o) ==
  /\ o \notin submitted
  /\ calls["manager"] = << >>
  /\ submitted' = submitted \union {o}
  /\ queue' = [queue EXCEPT ![KeyOf[o]] = Append(@, o)]
  /\ calls' = [calls EXCEPT !["manager"] = ExecuteAll(<<o>>)]
  /\ UNCHANGED <<head, failed, finishing, answers, expired, pending, store,
                 notifying, pipeline>>

\* enqueue, synchronized: the objective is executed if none is ahead.
Enqueue(o) ==
  /\ o \notin submitted
  /\ calls["manager"] = << >>
  /\ submitted' = submitted \union {o}
  /\ queue' = [queue EXCEPT ![KeyOf[o]] = Append(@, o)]
  /\ calls' = [calls EXCEPT !["manager"] =
                 IF Len(queue'[KeyOf[o]]) = 1 THEN ExecuteAll(<<o>>) ELSE @]
  /\ UNCHANGED <<head, failed, finishing, answers, expired, pending, store,
                 notifying, pipeline>>

\* execute: enters the objective in the cache and looks for its group; without
\* it, queueFwdObjective or queueNextObjective is called.
Execute(t) ==
  /\ calls[t] # << >>
  /\ Head(calls[t]).op = "execute"
  /\ LET o == Head(calls[t]).obj
         ready == ~Waits(o) \/ NextOf[o] \in groups
     IN /\ head' = [head EXCEPT ![KeyOf[o]] = o]
        /\ tasks' = [tasks EXCEPT ![o] = IF ready THEN @ + 1 ELSE @]
        /\ calls' = [calls EXCEPT ![t] =
                       (IF ready THEN << >> ELSE <<Call("queue", o, "none")>>)
                       \o Tail(@)]
  /\ UNCHANGED <<submitted, queue, failed, finishing, answers, expired,
                 pending, store, notifying, handed, applied>>

\* Mutated form of FoundAgain: the store is not consulted a second time.
NotLookedAgain(o) == FALSE

\* The double check under the lock of pendingForwards or pendingNexts.
FoundAgain(o) == NextOf[o] \in groups

\* queueFwdObjective and queueNextObjective: forwards wait in a linked set,
\* nexts in a list.  The set compares by equals, which leaves out the context:
\* an objective equal to one that has timed out and still waits would not enter
\* it.  Every objective of the model is unlike the others.
QueueObjective(t) ==
  /\ calls[t] # << >>
  /\ Head(calls[t]).op = "queue"
  /\ LET o == Head(calls[t]).obj
         i == NextOf[o]
     IN \/ /\ FoundAgain(o)
           /\ tasks' = [tasks EXCEPT ![o] = @ + 1]
           /\ UNCHANGED pending
        \/ /\ ~FoundAgain(o)
           /\ OpOf[o] = "forward"
           /\ pendingForwards' = [pendingForwards EXCEPT ![i] =
                IF o \in Objs(@) THEN @ ELSE Append(@, o)]
           /\ UNCHANGED <<pendingNexts, tasks>>
        \/ /\ ~FoundAgain(o)
           /\ OpOf[o] # "forward"
           /\ pendingNexts' = [pendingNexts EXCEPT ![i] = Append(@, o)]
           /\ UNCHANGED <<pendingForwards, tasks>>
  /\ calls' = [calls EXCEPT ![t] = Tail(@)]
  /\ UNCHANGED <<ordering, expired, store, notifying, handed, applied>>

-----------------------------------------------------------------------------
(* Answers: InOrderObjectiveContext and dequeue *)

\* onSuccess(o): past "if (!failed.get())" the thread goes on to dequeue.
Succeeded(o) ==
  /\ finishing' = IF failed[o] THEN finishing
                  ELSE [finishing EXCEPT ![o]["none"] = @ + 1]
  /\ UNCHANGED failed

\* onError(o, e): past "if (!failed.getAndSet(true))" likewise.
Failed(o, e) ==
  /\ failed' = [failed EXCEPT ![o] = TRUE]
  /\ finishing' = IF failed[o] THEN finishing
                  ELSE [finishing EXCEPT ![o][e] = @ + 1]

\* A queue without o, which is in it at most once.
Without(q, o) ==
  IF o \notin Objs(q) THEN q
  ELSE LET j == CHOOSE j \in 1..Len(q) : q[j] = o
       IN [i \in 1..(Len(q) - 1) |-> IF i < j THEN q[i] ELSE q[i + 1]]

\* Mutated form of Remove: the next objective is executed after a success only.
RemoveAndStop(o, e, rest) ==
  LET k == KeyOf[o]
      remaining == Without(queue[k], o)
  IN /\ head' = IF e = "timeout" THEN head
                ELSE [head EXCEPT ![k] = NoObjective]
     /\ queue' = [queue EXCEPT ![k] = remaining]
     /\ answers' = [answers EXCEPT ![o] =
                      @ \union {IF e = "none" THEN "success" ELSE "error"}]
     /\ calls' = [calls EXCEPT !["manager"] =
                    (IF remaining = << >> \/ e # "none" THEN << >>
                     ELSE ExecuteAll(<<remaining[1]>>)) \o rest]

\* Mutated form of Remove: the objective of the cache of heads is executed, not
\* the first of the list of those that remain.
RemoveAndExecuteHead(o, e, rest) ==
  LET k == KeyOf[o]
      remaining == Without(queue[k], o)
  IN /\ head' = IF e = "timeout" THEN head
                ELSE [head EXCEPT ![k] = NoObjective]
     /\ queue' = [queue EXCEPT ![k] = remaining]
     /\ answers' = [answers EXCEPT ![o] =
                      @ \union {IF e = "none" THEN "success" ELSE "error"}]
     /\ calls' = [calls EXCEPT !["manager"] =
                    (IF remaining = << >> THEN << >>
                     ELSE ExecuteAll(<<head'[k]>>)) \o rest]

\* What dequeue(o, e) does to a queue and the cache, and the call of execute
\* it ends with; its submitter is told after it.  The entry of an objective
\* that timed out is gone, or belongs to another.
Remove(o, e, rest) ==
  LET k == KeyOf[o]
      remaining == Without(queue[k], o)
  IN /\ head' = IF e = "timeout" THEN head
                ELSE [head EXCEPT ![k] = NoObjective]
     /\ queue' = [queue EXCEPT ![k] = remaining]
     /\ answers' = [answers EXCEPT ![o] =
                      @ \union {IF e = "none" THEN "success" ELSE "error"}]
     /\ calls' = [calls EXCEPT !["manager"] =
                    (IF remaining = << >> THEN << >>
                     ELSE ExecuteAll(<<remaining[1]>>)) \o rest]

\* dequeue of a next that failed: first what waits for its group is removed,
\* and fails too.  The two maps are emptied in one step, though in the code the
\* notifier may come in between.
Dequeue(o, e, rest) ==
  IF OpOf[o] \in NextOps /\ e # "none"
  THEN LET i == NextOf[o]
           waiting == pendingForwards[i] \o pendingNexts[i]
       IN /\ pendingForwards' = [pendingForwards EXCEPT ![i] = << >>]
          /\ pendingNexts' = [pendingNexts EXCEPT ![i] = << >>]
          /\ calls' = [calls EXCEPT !["manager"] =
                [j \in 1..Len(waiting) |-> Call("onError", waiting[j], e)]
                \o <<Call("dequeue", o, e)>> \o rest]
          /\ UNCHANGED <<queue, head, answers>>
  ELSE Remove(o, e, rest) /\ UNCHANGED pending

\* A thread that answers o gets the lock and calls dequeue.
StartDequeue(o, e) ==
  /\ calls["manager"] = << >>
  /\ finishing[o][e] > 0
  /\ finishing' = [finishing EXCEPT ![o][e] = @ - 1]
  /\ Dequeue(o, e, << >>)
  /\ UNCHANGED <<submitted, failed, expired, store, notifying, pipeline>>

\* dequeue of a failed next goes on after what waited for it was told.
FinishDequeue ==
  /\ calls["manager"] # << >>
  /\ LET c == Head(calls["manager"])
     IN /\ c.op = "dequeue"
        /\ Remove(c.obj, c.error, Tail(calls["manager"]))
  /\ UNCHANGED <<submitted, failed, finishing, expired, pending, store,
                 notifying, pipeline>>

\* onError of an objective that waited for a next that failed, called with
\* the lock held.
PendingError ==
  /\ calls["manager"] # << >>
  /\ LET c == Head(calls["manager"])
         rest == Tail(calls["manager"])
     IN /\ c.op = "onError"
        /\ \/ /\ failed[c.obj]
              /\ calls' = [calls EXCEPT !["manager"] = rest]
              /\ UNCHANGED <<queue, head, answers, failed, pending>>
           \/ /\ ~failed[c.obj]
              /\ failed' = [failed EXCEPT ![c.obj] = TRUE]
              /\ Dequeue(c.obj, c.error, rest)
  /\ UNCHANGED <<submitted, finishing, expired, store, notifying, pipeline>>

-----------------------------------------------------------------------------
(* Timeouts: the caches and their removal listener *)

\* cleanUp, run periodically and by writes: an entry has expired.
Expire(k) ==
  /\ head[k] # NoObjective
  /\ head' = [head EXCEPT ![k] = NoObjective]
  /\ expired' = [expired EXCEPT ![head[k]] = "queued"]
  /\ UNCHANGED <<submitted, queue, failed, finishing, answers, calls, pending,
                 store, notifying, pipeline>>

\* Mutated form of ReportExpired: the context is not told.
ReportNothing(o) ==
  /\ expired[o] = "queued"
  /\ expired' = [expired EXCEPT ![o] = "reported"]
  /\ UNCHANGED <<ordering, calls, pending, store, notifying, pipeline>>

\* removalListener, on the executor of cache events.
ReportExpired(o) ==
  /\ expired[o] = "queued"
  /\ expired' = [expired EXCEPT ![o] = "reported"]
  /\ Failed(o, "timeout")
  /\ UNCHANGED <<submitted, queue, head, answers, calls, pending, store,
                 notifying, pipeline>>

-----------------------------------------------------------------------------
(* The notifier of the store and InternalStoreDelegate.notify *)

\* FlowObjectiveNotifier takes an event.
TakeEvent ==
  /\ notifying.phase = "idle"
  /\ calls["notifier"] = << >>
  /\ eventQ # << >>
  /\ notifying' = [phase |-> "forwards", id |-> Head(eventQ)]
  /\ eventQ' = Tail(eventQ)
  /\ UNCHANGED <<ordering, expired, calls, pending, groups, pipeline>>

\* notify: "first send all pending flows".
NotifyForwards ==
  /\ notifying.phase = "forwards"
  /\ calls' = [calls EXCEPT !["notifier"] =
                 ExecuteAll(pendingForwards[notifying.id])]
  /\ pendingForwards' = [pendingForwards EXCEPT ![notifying.id] = << >>]
  /\ notifying' = [notifying EXCEPT !.phase = "nexts"]
  /\ UNCHANGED <<ordering, expired, pendingNexts, store, pipeline>>

\* notify: "now check for pending next-objectives".
NotifyNexts ==
  /\ notifying.phase = "nexts"
  /\ calls["notifier"] = << >>
  /\ calls' = [calls EXCEPT !["notifier"] =
                 ExecuteAll(pendingNexts[notifying.id])]
  /\ pendingNexts' = [pendingNexts EXCEPT ![notifying.id] = << >>]
  /\ notifying' = [phase |-> "idle", id |-> NoNext]
  /\ UNCHANGED <<ordering, expired, pendingForwards, store, pipeline>>

-----------------------------------------------------------------------------
(* ObjectiveProcessor and, external, the device's pipeliner *)

\* A processor finds the pipeliner and hands it the objective.  If that throws,
\* the processor logs it and nobody is told: the objective is then with a
\* pipeliner that never answers.
Process(o) ==
  /\ tasks[o] > 0
  /\ tasks' = [tasks EXCEPT ![o] = @ - 1]
  /\ handed' = [handed EXCEPT ![o] = @ + 1]
  /\ UNCHANGED <<ordering, expired, calls, pending, store, notifying, applied>>

\* A processor has looked for a pipeliner INSTALL_RETRY_ATTEMPTS times.
NoPipeliner(o) ==
  /\ tasks[o] > 0
  /\ tasks' = [tasks EXCEPT ![o] = @ - 1]
  /\ Failed(o, "other")
  /\ UNCHANGED <<submitted, queue, head, answers, expired, calls, pending,
                 store, notifying, handed, applied>>

\* The pipeliner stores the group of an ADD, or removes that of a REMOVE.  The
\* map tells its listeners of an insertion, not of an update.
Apply(o) ==
  /\ handed[o] > 0
  /\ \/ /\ OpOf[o] = "add"
        /\ groups' = groups \union {NextOf[o]}
        /\ eventQ' = IF NextOf[o] \in groups THEN eventQ
                     ELSE Append(eventQ, NextOf[o])
     \/ /\ OpOf[o] = "remove"
        /\ NextOf[o] \in groups
        /\ groups' = groups \ {NextOf[o]}
        /\ UNCHANGED eventQ
  /\ handed' = [handed EXCEPT ![o] = @ - 1]
  /\ applied' = [applied EXCEPT ![o] = @ + 1]
  /\ UNCHANGED <<ordering, expired, calls, pending, notifying, tasks>>

\* The pipeliner reports success.
Succeed(o) ==
  /\ \/ /\ OpOf[o] \in {"add", "remove"}
        /\ applied[o] > 0
        /\ applied' = [applied EXCEPT ![o] = @ - 1]
        /\ UNCHANGED handed
     \/ /\ OpOf[o] \notin {"add", "remove"}
        /\ handed[o] > 0
        /\ handed' = [handed EXCEPT ![o] = @ - 1]
        /\ UNCHANGED applied
  /\ Succeeded(o)
  /\ UNCHANGED <<submitted, queue, head, answers, expired, calls, pending,
                 store, notifying, tasks>>

\* The pipeliner reports an error.
Fail(o) ==
  /\ handed[o] > 0
  /\ handed' = [handed EXCEPT ![o] = @ - 1]
  /\ Failed(o, "other")
  /\ UNCHANGED <<submitted, queue, head, answers, expired, calls, pending,
                 store, notifying, tasks, applied>>

-----------------------------------------------------------------------------
Next ==
  \/ \E o \in Objectives : Enqueue(o)
  \/ \E t \in Threads : Execute(t)
  \/ \E t \in Threads : QueueObjective(t)
  \/ \E o \in Objectives, e \in Errors : StartDequeue(o, e)
  \/ FinishDequeue
  \/ PendingError
  \/ \E k \in Keys : Expire(k)
  \/ \E o \in Objectives : ReportExpired(o)
  \/ TakeEvent
  \/ NotifyForwards
  \/ NotifyNexts
  \/ \E o \in Objectives : Process(o)
  \/ \E o \in Objectives : NoPipeliner(o)
  \/ \E o \in Objectives : Apply(o)
  \/ \E o \in Objectives : Succeed(o)
  \/ \E o \in Objectives : Fail(o)

Spec == Init /\ [][Next]_vars

\* Threads are not starved: who waits for the lock gets it, the notifier and
\* the executor of cache events run, and the cleaner finds every entry that
\* has expired.  Clients, the installer pool and the pipeliner need not act.
Fairness ==
  /\ \A t \in Threads : WF_vars(Execute(t)) /\ WF_vars(QueueObjective(t))
  /\ \A o \in Objectives, e \in Errors : WF_vars(StartDequeue(o, e))
  /\ WF_vars(FinishDequeue)
  /\ WF_vars(PendingError)
  /\ \A k \in Keys : WF_vars(Expire(k))
  /\ \A o \in Objectives : WF_vars(ReportExpired(o))
  /\ WF_vars(TakeEvent)
  /\ WF_vars(NotifyForwards)
  /\ WF_vars(NotifyNexts)

FairSpec == Spec /\ Fairness

-----------------------------------------------------------------------------
(* Properties *)

\* Every variable holds a value of its type.
TypeOK ==
  /\ submitted \subseteq Objectives
  /\ queue \in [Keys -> Seq(Objectives)]
  /\ head \in [Keys -> Objectives \union {NoObjective}]
  /\ expired \in [Objectives -> {"no", "queued", "reported"}]
  /\ failed \in [Objectives -> BOOLEAN]
  /\ finishing \in [Objectives -> [Errors -> Nat]]
  /\ calls \in [Threads -> Seq(Calls)]
  /\ pendingForwards \in [NextIds -> Seq(Objectives)]
  /\ pendingNexts \in [NextIds -> Seq(Objectives)]
  /\ groups \subseteq NextIds
  /\ eventQ \in Seq(NextIds)
  /\ notifying \in [phase : {"idle", "forwards", "nexts"},
                   id : NextIds \union {NoNext}]
  /\ tasks \in [Objectives -> Nat]
  /\ handed \in [Objectives -> Nat]
  /\ applied \in [Objectives -> Nat]
  /\ answers \in [Objectives -> SUBSET {"success", "error"}]

\* No objective waits for a group that exists unless the notification that
\* releases it is still to be handled: the group may appear, and its event be
\* handled, between the first look at the store and the queueing.
NoLostNotification ==
  \A i \in groups :
    LET coming == i \in Objs(eventQ)
        at(phases) == notifying.phase \in phases /\ notifying.id = i
    IN /\ pendingForwards[i] # << >> => coming \/ at({"forwards"})
       /\ pendingNexts[i] # << >> => coming \/ at({"forwards", "nexts"})

InCalls(o) == \E t \in Threads : \E c \in Objs(calls[t]) : c.obj = o
Pending(o) ==
  \E i \in NextIds : o \in Objs(pendingForwards[i]) \union Objs(pendingNexts[i])

\* What keeps an objective in execution.
InProgress(o) ==
  \/ tasks[o] + handed[o] + applied[o] > 0
  \/ \E e \in Errors : finishing[o][e] > 0
  \/ InCalls(o)
  \/ Pending(o)

\* The first objective of a queue is always on its way to an answer: a queue is
\* never left with nobody to take its head out.
HeadInProgress ==
  \A k \in Keys : queue[k] # << >> => InProgress(queue[k][1])

Lapsed(k) == \E o \in Objectives : KeyOf[o] = k /\ expired[o] # "no"

\* As long as no objective of a key has timed out, only the first one of its
\* queue is in execution: "guaranteed to be executed in order".
OneAtATime ==
  \A o \in Objectives :
    InProgress(o) /\ ~Lapsed(KeyOf[o]) =>
      /\ queue[KeyOf[o]] # << >>
      /\ queue[KeyOf[o]][1] = o

\* The cache entry of a key belongs to an objective that had timed out and left
\* its queue, and is executed again because the group it waited for appeared,
\* although another objective is first in the queue.  That one's entry is gone:
\* if the pipeliner is silent, it does not time out.
Revived(k) ==
  /\ head[k] # NoObjective
  /\ expired[head[k]] # "no"
  /\ queue[k] # << >>
  /\ head[k] \notin Objs(queue[k])

\* Unless a timed-out objective is executed again while another is first in its
\* queue, every objective is answered, even if the pipeliner stays silent, no
\* group is ever stored, or the next objective it waits for times out.
Answered ==
  [](\A k \in Keys : ~Revived(k)) =>
    \A o \in Objectives : o \in submitted ~> answers[o] # {}

=============================================================================

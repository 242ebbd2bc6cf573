---------------------------- MODULE Accumulator ----------------------------
(***************************************************************************)
(* AbstractAccumulator: items are collected until there are maxItems of    *)
(* them, until none has come for maxIdleMillis, or until the first is      *)
(* maxBatchMillis old, and are then processed as one batch on the thread   *)
(* of a java.util.Timer.                                                   *)
(*                                                                         *)
(* Every item is added by a thread of its own.  rescheduleTask first gives *)
(* the new task to the timer and then publishes it in idleTask or maxTask, *)
(* cancelling the task it finds there: two steps, so that a task may run   *)
(* before it is published.  todo[a] is what thread a still has to do; the  *)
(* adders are named by their items.  Time is left out: a task that is      *)
(* waiting may run at any moment, whatever its delay, except that only     *)
(* tasks of the kinds in Early run before they are published.              *)
(***************************************************************************)
EXTENDS Naturals, Sequences

CONSTANTS
  Items,      \* the items, and the threads that add them
  Timer,      \* the thread of the timer
  NoTask,     \* an empty AtomicReference
  MaxItems,   \* maxItems
  Early,      \* the kinds of task whose delay a thread may exceed between
              \* scheduling and publishing
  MaxStalls   \* bound: times that isReady() returns false

ASSUME ConstantsAssumption ==
  /\ Timer \notin Items
  /\ MaxItems \in Nat
  /\ MaxItems > 1
  /\ MaxStalls \in Nat

Threads == Items \union {Timer}

\* The tasks a thread creates: an adder at most one of each kind, the timer's
\* thread an idle task each time isReady() returns false.
Kinds == {"now", "idle", "max"}
ASSUME EarlyAssumption == Early \subseteq Kinds
Tasks == [by : Items, kind : Kinds, n : {0}]
         \union [by : {Timer}, kind : {"idle"}, n : 1..MaxStalls]
ASSUME NoTaskAssumption == NoTask \notin Tasks

VARIABLES
  idling,     \* maxIdleMillis < maxBatchMillis
  items,      \* the items accumulated
  batch,      \* the batch finalizeCurrentBatch returned, until processItems
  processed,  \* the items processItems was called with
  task,       \* task[t]: "waiting" in the timer's queue, "run", or "none":
              \* not scheduled, or cancelled before it ran
  ref,        \* ref.idle and ref.max: idleTask and maxTask
  todo,       \* todo[a]: the steps thread a still has to make
  added,      \* the items whose add() has begun
  stalls      \* times that isReady() has returned false

vars == <<idling, items, batch, processed, task, ref, todo, added, stalls>>

Steps == [op : {"schedule", "publish", "cancel", "process"},
          ref : {"idle", "max"}, kind : Kinds]
Step(op, r, kind) == [op |-> op, ref |-> r, kind |-> kind]

rescheduleTask(r, kind) == <<Step("schedule", r, kind), Step("publish", r, kind)>>
cancelTask(r) == <<Step("cancel", r, "now")>>

Init ==
  /\ idling \in BOOLEAN
  /\ items = << >>
  /\ batch = << >>
  /\ processed = << >>
  /\ task = [t \in Tasks |-> "none"]
  /\ ref = [r \in {"idle", "max"} |-> NoTask]
  /\ todo = [a \in Threads |-> << >>]
  /\ added = {}
  /\ stalls = 0

-----------------------------------------------------------------------------
\* What add() does after the item is in the list, by the size it found.
Reschedule(size) ==
  IF size >= MaxItems
  THEN (IF idling THEN cancelTask("idle") ELSE << >>)
       \o rescheduleTask("max", "now")
  ELSE (IF idling THEN rescheduleTask("idle", "idle") ELSE << >>)
       \o (IF size = 1 THEN rescheduleTask("max", "max") ELSE << >>)

\* finalizeCurrentBatch holds the lock on items while it cancels the tasks.
Locked == todo[Timer] # << >> /\ Head(todo[Timer]).op = "cancel"

\* add(), the synchronized block.
Add(i) ==
  /\ i \notin added
  /\ ~Locked
  /\ added' = added \union {i}
  /\ items' = Append(items, i)
  /\ todo' = [todo EXCEPT ![i] = Reschedule(Len(items) + 1)]
  /\ UNCHANGED <<idling, batch, processed, task, ref, stalls>>

\* The task a thread is scheduling or publishing.
Created(a, kind) ==
  [by |-> a, kind |-> kind, n |-> IF a = Timer THEN stalls ELSE 0]

\* timer.schedule(newTask, millis)
Schedule(a) ==
  /\ todo[a] # << >>
  /\ Head(todo[a]).op = "schedule"
  /\ task' = [task EXCEPT ![Created(a, Head(todo[a]).kind)] = "waiting"]
  /\ todo' = [todo EXCEPT ![a] = Tail(@)]
  /\ UNCHANGED <<idling, items, batch, processed, ref, added, stalls>>

\* oldTask.cancel(): a task that has run, or is running, is not affected.
Cancelled(old) ==
  IF old # NoTask /\ task[old] = "waiting"
  THEN [task EXCEPT ![old] = "none"] ELSE task

\* swapAndCancelTask(taskRef, newTask), with newTask null for cancelTask.
\* getAndSet and the cancellation of the old task are one step, so the old task
\* does not run between them; if it did, it would take the items all the same
\* and cancel the new task.
SwapAndCancel(a) ==
  /\ todo[a] # << >>
  /\ LET s == Head(todo[a])
     IN /\ s.op \in {"publish", "cancel"}
        /\ ref' = [ref EXCEPT ![s.ref] =
                     IF s.op = "cancel" THEN NoTask ELSE Created(a, s.kind)]
        /\ task' = Cancelled(ref[s.ref])
  /\ todo' = [todo EXCEPT ![a] = Tail(@)]
  /\ UNCHANGED <<idling, items, batch, processed, added, stalls>>

-----------------------------------------------------------------------------
(* ProcessorTask.run, on the timer's thread *)

\* Thread a has scheduled task t and not published it yet.
Unpublished(a, t) ==
  /\ todo[a] # << >>
  /\ Head(todo[a]).op = "publish"
  /\ t = Created(a, Head(todo[a]).kind)

MayRun(t) ==
  /\ todo[Timer] = << >>
  /\ task[t] = "waiting"
  /\ t.kind \in Early \/ ~Unpublished(t.by, t)

\* Mutated form of RunReady: the list is copied and not cleared.
RunAndKeep(t) ==
  /\ MayRun(t)
  /\ task' = [task EXCEPT ![t] = "run"]
  /\ batch' = items
  /\ todo' = [todo EXCEPT ![Timer] =
                cancelTask("max") \o cancelTask("idle")
                \o <<Step("process", "max", "now")>>]
  /\ UNCHANGED <<idling, items, processed, ref, added, stalls>>

\* isReady() is true: finalizeCurrentBatch copies and clears the list.
RunReady(t) ==
  /\ MayRun(t)
  /\ task' = [task EXCEPT ![t] = "run"]
  /\ batch' = items
  /\ items' = << >>
  /\ todo' = [todo EXCEPT ![Timer] =
                cancelTask("max") \o cancelTask("idle")
                \o <<Step("process", "max", "now")>>]
  /\ UNCHANGED <<idling, processed, ref, added, stalls>>

\* Mutated form of RunNotReady: no task is scheduled for later.
RunAndForget(t) ==
  /\ MayRun(t)
  /\ stalls < MaxStalls
  /\ task' = [task EXCEPT ![t] = "run"]
  /\ stalls' = stalls + 1
  /\ UNCHANGED <<idling, items, batch, processed, ref, todo, added>>

\* Mutated form of RunNotReady: maxTask is rescheduled instead of idleTask.
RunAndRescheduleMax(t) ==
  /\ MayRun(t)
  /\ stalls < MaxStalls
  /\ task' = [task EXCEPT ![t] = "run"]
  /\ stalls' = stalls + 1
  /\ todo' = [todo EXCEPT ![Timer] = rescheduleTask("max", "max")]
  /\ UNCHANGED <<idling, items, batch, processed, ref, added>>

\* isReady() is false: the idle task is rescheduled, whatever its delay.
RunNotReady(t) ==
  /\ MayRun(t)
  /\ stalls < MaxStalls
  /\ task' = [task EXCEPT ![t] = "run"]
  /\ stalls' = stalls + 1
  /\ todo' = [todo EXCEPT ![Timer] = rescheduleTask("idle", "idle")]
  /\ UNCHANGED <<idling, items, batch, processed, ref, added>>

\* processItems(batch), skipped when the batch is empty.  That it or isReady()
\* throws is left out: run() would log it, and the batch would be lost or no
\* task be scheduled.
ProcessItems ==
  /\ todo[Timer] # << >>
  /\ Head(todo[Timer]).op = "process"
  /\ processed' = processed \o batch
  /\ batch' = << >>
  /\ todo' = [todo EXCEPT ![Timer] = Tail(@)]
  /\ UNCHANGED <<idling, items, task, ref, added, stalls>>

-----------------------------------------------------------------------------
Next ==
  \/ \E i \in Items : Add(i)
  \/ \E a \in Threads : Schedule(a)
  \/ \E a \in Threads : SwapAndCancel(a)
  \/ \E t \in Tasks : RunReady(t)
  \/ \E t \in Tasks : RunNotReady(t)
  \/ ProcessItems

Spec == Init /\ [][Next]_vars

\* A thread that has begun add() ends it, the timer's thread runs, and isReady()
\* does not return false for ever.
Fairness ==
  /\ \A a \in Threads : WF_vars(Schedule(a) \/ SwapAndCancel(a))
  /\ WF_vars(\E t \in Tasks : RunReady(t))
  /\ WF_vars(ProcessItems)

FairSpec == Spec /\ Fairness

-----------------------------------------------------------------------------
(* Properties *)

\* Every variable holds a value of its type.
TypeOK ==
  /\ idling \in BOOLEAN
  /\ items \in Seq(Items)
  /\ batch \in Seq(Items)
  /\ processed \in Seq(Items)
  /\ task \in [Tasks -> {"none", "waiting", "run"}]
  /\ ref \in [{"idle", "max"} -> Tasks \union {NoTask}]
  /\ todo \in [Threads -> Seq(Steps)]
  /\ added \subseteq Items
  /\ stalls \in 0..MaxStalls

\* The accumulator is an implementation of Batching: no item is lost,
\* processed twice or overtaken by another, whichever tasks run, are cancelled
\* or run without need.
Abstract == INSTANCE Batching WITH waiting <- batch \o items
Batches == Abstract!Spec

\* A task has run although the thread that scheduled it has not published it.
RanUnpublished ==
  \E t \in Tasks : task[t] = "run" /\ Unpublished(t.by, t)

InSeq(i, s) == \E j \in 1..Len(s) : s[j] = i

\* Every item is processed, provided no task runs before it is published.
ProcessedIfPunctual ==
  []~RanUnpublished => \A i \in Items : i \in added ~> InSeq(i, processed)

=============================================================================

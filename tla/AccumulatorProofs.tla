------------------------- MODULE AccumulatorProofs -------------------------
(***************************************************************************)
(* The accumulator implements Batching, for every set of items, every      *)
(* maxItems, every number of times isReady() returns false and whichever   *)
(* tasks run before they are published.                                    *)
(*                                                                         *)
(* That processItems hands on the whole batch, and that a batch is not     *)
(* overwritten by the next, is not inductive: the invariant adds what the  *)
(* timer's thread may still have to do, and that it is not done with the   *)
(* batch as long as there is one.                                          *)
(***************************************************************************)
EXTENDS Accumulator, SequenceFacts, SequenceTheorems, TLAPS

\* What the timer's thread has left of run() while it has a batch.
Batched == {<<Step("cancel", "max", "now"), Step("cancel", "idle", "now"),
              Step("process", "max", "now")>>,
            <<Step("cancel", "idle", "now"), Step("process", "max", "now")>>,
            <<Step("process", "max", "now")>>}

\* What it has left when isReady() was false.
Postponed == {<<Step("schedule", "idle", "idle"), Step("publish", "idle", "idle")>>,
              <<Step("publish", "idle", "idle")>>}

\* The timer's thread is in the middle of run(), or idle and without a batch.
TimerOK ==
  /\ todo[Timer] \in Batched \union Postponed \union {<< >>}
  /\ todo[Timer] \notin Batched => batch = << >>
  /\ todo[Timer] \in Postponed => stalls > 0

\* Items are collected and processed only after they have been added.
OnlyAdded ==
  /\ Elements(items) \subseteq added
  /\ Elements(batch) \subseteq added
  /\ Elements(processed) \subseteq added

IInv == TypeOK /\ TimerOK /\ OnlyAdded

-----------------------------------------------------------------------------
(* Sequences *)

\* The first part of a concatenation and the rest of it.
LEMMA SplitConcat ==
  ASSUME NEW S, NEW s \in Seq(S), NEW t \in Seq(S)
  PROVE  /\ SubSeq(s \o t, 1, Len(s)) = s
         /\ SubSeq(s \o t, Len(s) + 1, Len(s \o t)) = t
<1> DEFINE u == s \o t
<1>1. /\ Len(s) \in Nat /\ Len(t) \in Nat /\ u \in Seq(S)
      /\ Len(u) = Len(s) + Len(t)
      /\ \A i \in 1..Len(s) + Len(t) :
           u[i] = IF i <= Len(s) THEN s[i] ELSE t[i - Len(s)]
  BY ConcatProperties, LenProperties
<1>2. \A i \in 1..Len(u) : u[i] \in S
  BY <1>1, ElementOfSeq
<1> HIDE DEF u
<1>3. SubSeq(u, 1, Len(s)) = s
  <2>1. \A i \in 1..Len(s) : u[i] \in S
    BY <1>1, <1>2
  <2>2. /\ SubSeq(u, 1, Len(s)) \in Seq(S)
        /\ Len(SubSeq(u, 1, Len(s))) = Len(s)
        /\ \A i \in 1..Len(s) : SubSeq(u, 1, Len(s))[i] = u[i]
    BY <1>1, <2>1, SubSeqProperties
  <2> QED BY <1>1, <2>2, SeqEqual
<1>4. SubSeq(u, Len(s) + 1, Len(u)) = t
  <2>1. \A i \in Len(s) + 1..Len(u) : u[i] \in S
    BY <1>1, <1>2
  <2>2. /\ SubSeq(u, Len(s) + 1, Len(u)) \in Seq(S)
        /\ Len(SubSeq(u, Len(s) + 1, Len(u))) = Len(t)
        /\ \A i \in 1..Len(t) : SubSeq(u, Len(s) + 1, Len(u))[i] = u[Len(s) + i]
    BY <1>1, <2>1, SubSeqProperties
  <2>3. \A i \in 1..Len(t) : u[Len(s) + i] = t[i]
    BY <1>1
  <2> QED BY <2>2, <2>3, SeqEqual
<1> QED BY <1>3, <1>4 DEF u

-----------------------------------------------------------------------------
(* The steps of the timer's thread *)

\* The steps are steps.
LEMMA StepFacts ==
  ASSUME NEW op \in {"schedule", "publish", "cancel", "process"},
         NEW r \in {"idle", "max"}, NEW k \in Kinds
  PROVE  /\ Step(op, r, k) \in Steps
         /\ Step(op, r, k).op = op
         /\ Step(op, r, k).ref = r
         /\ Step(op, r, k).kind = k
BY DEF Step, Steps

\* What the timer's thread has to do begins with a step of one kind, and what
\* is left after it is again something it may have to do.
LEMMA TimerSteps ==
  ASSUME NEW s
  PROVE  /\ s \in Batched => /\ s # << >>
                             /\ \/ Head(s).op = "cancel" /\ Tail(s) \in Batched
                                \/ Head(s).op = "process" /\ Tail(s) = << >>
         /\ s \in Postponed => /\ s # << >>
                               /\ Head(s).kind = "idle"
                               /\ Head(s).op \in {"schedule", "publish"}
                               /\ Tail(s) \in Postponed \union {<< >>}
         /\ s \in Batched => s \notin Postponed
<1> DEFINE c1 == Step("cancel", "max", "now")
           c2 == Step("cancel", "idle", "now")
           p  == Step("process", "max", "now")
           u  == Step("schedule", "idle", "idle")
           w  == Step("publish", "idle", "idle")
<1>1. /\ c1.op = "cancel" /\ c2.op = "cancel" /\ p.op = "process"
      /\ u.op = "schedule" /\ u.kind = "idle"
      /\ w.op = "publish" /\ w.kind = "idle"
  BY DEF Step
<1> HIDE DEF c1, c2, p, u, w
<1>2. /\ Head(<<c1, c2, p>>) = c1 /\ Tail(<<c1, c2, p>>) = <<c2, p>>
      /\ Head(<<c2, p>>) = c2 /\ Tail(<<c2, p>>) = <<p>>
      /\ Head(<<p>>) = p /\ Tail(<<p>>) = << >>
      /\ Head(<<u, w>>) = u /\ Tail(<<u, w>>) = <<w>>
      /\ Head(<<w>>) = w /\ Tail(<<w>>) = << >>
      /\ <<c1, c2, p>> # << >> /\ <<c2, p>> # << >> /\ <<p>> # << >>
      /\ <<u, w>> # << >> /\ <<w>> # << >>
  OBVIOUS
<1>3. /\ Batched = {<<c1, c2, p>>, <<c2, p>>, <<p>>}
      /\ Postponed = {<<u, w>>, <<w>>}
  BY DEF Batched, Postponed, c1, c2, p, u, w
<1> QED BY <1>1, <1>2, <1>3

\* Three sequences of one element each.
LEMMA ConcatThree ==
  ASSUME NEW S, NEW x \in S, NEW y \in S, NEW z \in S
  PROVE  <<x>> \o <<y>> \o <<z>> = <<x, y, z>>
<1>1. /\ <<x>> \in Seq(S) /\ <<y>> \in Seq(S) /\ <<z>> \in Seq(S)
      /\ <<x, y>> \in Seq(S) /\ <<x, y, z>> \in Seq(S)
  OBVIOUS
<1>2. /\ <<x, y>> = Append(<<x>>, y)
      /\ <<x, y, z>> = Append(<<x, y>>, z)
  OBVIOUS
<1>3. Append(<<x>>, y) = <<x>> \o <<y>>
  BY <1>1, AppendIsConcat
<1>4. Append(<<x, y>>, z) = <<x, y>> \o <<z>>
  BY <1>1, AppendIsConcat
<1> QED BY <1>2, <1>3, <1>4

\* What run() and add() set out to do is made of steps.
LEMMA TodoFacts ==
  /\ \A size \in Nat : Reschedule(size) \in Seq(Steps)
  /\ cancelTask("max") \o cancelTask("idle")
       \o <<Step("process", "max", "now")>> \in Seq(Steps) \cap Batched
  /\ rescheduleTask("idle", "idle") \in Seq(Steps) \cap Postponed
<1>1. /\ rescheduleTask("idle", "idle") \in Seq(Steps)
      /\ rescheduleTask("max", "now") \in Seq(Steps)
      /\ rescheduleTask("max", "max") \in Seq(Steps)
      /\ cancelTask("idle") \in Seq(Steps)
      /\ cancelTask("max") \in Seq(Steps)
      /\ << >> \in Seq(Steps)
  BY DEF rescheduleTask, cancelTask, Steps, Step, Kinds
<1>2. \A size \in Nat : Reschedule(size) \in Seq(Steps)
  BY <1>1, ConcatProperties DEF Reschedule
<1>3. <<Step("process", "max", "now")>> \in Seq(Steps)
  BY DEF Steps, Step, Kinds
<1>4. cancelTask("max") \o cancelTask("idle") \o <<Step("process", "max", "now")>>
        = <<Step("cancel", "max", "now"), Step("cancel", "idle", "now"),
            Step("process", "max", "now")>>
  BY ConcatThree, StepFacts DEF cancelTask, Kinds
<1>5. cancelTask("max") \o cancelTask("idle") \o <<Step("process", "max", "now")>>
        \in Seq(Steps)
  BY <1>1, <1>3, ConcatProperties
<1>6. rescheduleTask("idle", "idle") \in Postponed
  BY DEF rescheduleTask, Postponed
<1> QED BY <1>1, <1>2, <1>4, <1>5, <1>6 DEF Batched

\* The tasks that threads create are tasks.
LEMMA CreatedFacts ==
  ASSUME IInv, NEW a \in Threads, todo[a] # << >>,
         Head(todo[a]).op \in {"schedule", "publish"}
  PROVE  Created(a, Head(todo[a]).kind) \in Tasks
<1>1. Head(todo[a]) \in Steps
  BY HeadTailProperties DEF IInv, TypeOK
<1>2. Head(todo[a]).kind \in Kinds
  BY <1>1 DEF Steps
<1>3. CASE a = Timer
  <2>1. todo[Timer] \in Postponed
    BY <1>3, TimerSteps DEF IInv, TimerOK
  <2>2. Head(todo[a]).kind = "idle" /\ stalls \in 1..MaxStalls
    BY <1>3, <2>1, TimerSteps DEF IInv, TimerOK, TypeOK
  <2> QED BY <1>3, <2>2 DEF Created, Tasks
<1>4. CASE a \in Items
  <2>1. a # Timer
    BY <1>4, ConstantsAssumption
  <2> QED BY <1>2, <1>4, <2>1 DEF Created, Tasks
<1> QED BY <1>3, <1>4 DEF Threads

-----------------------------------------------------------------------------
(* The invariant *)

\* What a thread other than the timer's does leaves the timer's alone.
LEMMA OthersFacts ==
  ASSUME IInv, NEW i \in Items
  PROVE  /\ i # Timer
         /\ i \in Threads /\ Timer \in Threads
         /\ \A s : [todo EXCEPT ![i] = s][Timer] = todo[Timer]
BY ConstantsAssumption DEF IInv, TypeOK, Threads

LEMMA InitIInv == Init => IInv
<1> SUFFICES ASSUME Init PROVE IInv
  OBVIOUS
<1>1. TypeOK
  BY ConstantsAssumption, EmptySeq DEF Init, TypeOK
<1>2. TimerOK
  <2>1. todo[Timer] = << >> /\ batch = << >>
    BY DEF Init, Threads
  <2> QED BY <2>1, TimerSteps DEF TimerOK
<1>3. OnlyAdded
  BY ElementsOfEmpty DEF Init, OnlyAdded
<1> QED BY <1>1, <1>2, <1>3 DEF IInv

LEMMA AddIInv ==
  ASSUME IInv, NEW i \in Items, Add(i)
  PROVE  IInv'
<1>1. /\ items \in Seq(Items) /\ Len(items) + 1 \in Nat
      /\ Append(items, i) \in Seq(Items)
  BY AppendProperties, LenProperties DEF IInv, TypeOK
<1>2. TypeOK'
  BY <1>1, TodoFacts DEF IInv, TypeOK, Add, Threads
<1>3. TimerOK'
  BY OthersFacts DEF IInv, TimerOK, Add
<1>4. OnlyAdded'
  <2>1. Elements(items') = Elements(items) \union {i}
    BY <1>1, ElementsOfAppend DEF Add
  <2> QED BY <2>1 DEF IInv, OnlyAdded, Add
<1> QED BY <1>2, <1>3, <1>4 DEF IInv

\* A step of a thread that takes its first step off what it has to do.
LEMMA TailFacts ==
  ASSUME IInv, NEW a \in Threads, todo[a] # << >>,
         todo' = [todo EXCEPT ![a] = Tail(@)]
  PROVE  /\ todo' \in [Threads -> Seq(Steps)]
         /\ Head(todo[a]) \in Steps
         /\ a # Timer => todo'[Timer] = todo[Timer]
         /\ a = Timer => todo'[Timer] = Tail(todo[Timer])
<1>1. todo[a] \in Seq(Steps)
  BY DEF IInv, TypeOK
<1>2. Tail(todo[a]) \in Seq(Steps) /\ Head(todo[a]) \in Steps
  BY <1>1, HeadTailProperties
<1> QED BY <1>2 DEF IInv, TypeOK, Threads

LEMMA ScheduleIInv ==
  ASSUME IInv, NEW a \in Threads, Schedule(a)
  PROVE  IInv'
<1>1. /\ todo[a] # << >> /\ Head(todo[a]).op = "schedule"
      /\ todo' = [todo EXCEPT ![a] = Tail(@)]
      /\ UNCHANGED <<idling, items, batch, processed, ref, added, stalls>>
  BY DEF Schedule
<1>2. task' \in [Tasks -> {"none", "waiting", "run"}]
  BY <1>1, CreatedFacts DEF Schedule, IInv, TypeOK
<1>3. TypeOK'
  BY <1>1, <1>2, TailFacts DEF IInv, TypeOK
<1>4. TimerOK'
  <2>1. CASE a = Timer
    <3>1. todo[Timer] \in Postponed
      BY <1>1, <2>1, TimerSteps DEF IInv, TimerOK
    <3>2. todo'[Timer] \in Postponed \union {<< >>}
      BY <1>1, <2>1, <3>1, TailFacts, TimerSteps
    <3>3. batch = << >> /\ stalls > 0
      BY <3>1, TimerSteps DEF IInv, TimerOK
    <3> QED BY <1>1, <3>2, <3>3 DEF TimerOK
  <2>2. CASE a # Timer
    BY <1>1, <2>2, TailFacts DEF IInv, TimerOK
  <2> QED BY <2>1, <2>2
<1>5. OnlyAdded'
  BY <1>1 DEF IInv, OnlyAdded
<1> QED BY <1>3, <1>4, <1>5 DEF IInv

LEMMA SwapIInv ==
  ASSUME IInv, NEW a \in Threads, SwapAndCancel(a)
  PROVE  IInv'
<1> DEFINE s == Head(todo[a])
<1>1. /\ todo[a] # << >> /\ s.op \in {"publish", "cancel"}
      /\ todo' = [todo EXCEPT ![a] = Tail(@)]
      /\ UNCHANGED <<idling, items, batch, processed, added, stalls>>
  BY DEF SwapAndCancel
<1>2. s \in Steps /\ s.ref \in {"idle", "max"}
  BY <1>1, TailFacts DEF Steps
<1>3. ref' \in [{"idle", "max"} -> Tasks \union {NoTask}]
  <2>1. s.op = "publish" => Created(a, s.kind) \in Tasks
    BY <1>1, CreatedFacts
  <2> QED BY <1>1, <1>2, <2>1 DEF SwapAndCancel, IInv, TypeOK
<1>4. task' \in [Tasks -> {"none", "waiting", "run"}]
  BY <1>2 DEF SwapAndCancel, Cancelled, IInv, TypeOK
<1>5. TypeOK'
  BY <1>1, <1>3, <1>4, TailFacts DEF IInv, TypeOK
<1>6. TimerOK'
  <2>1. CASE a = Timer /\ s.op = "publish"
    <3>1. todo[Timer] \in Postponed
      BY <1>1, <2>1, TimerSteps DEF IInv, TimerOK
    <3>2. todo'[Timer] \in Postponed \union {<< >>}
      BY <1>1, <2>1, <3>1, TailFacts, TimerSteps
    <3>3. batch = << >> /\ stalls > 0
      BY <3>1, TimerSteps DEF IInv, TimerOK
    <3> QED BY <1>1, <3>2, <3>3 DEF TimerOK
  <2>2. CASE a = Timer /\ s.op = "cancel"
    <3>1. todo[Timer] \in Batched
      BY <1>1, <2>2, TimerSteps DEF IInv, TimerOK
    <3>2. todo'[Timer] \in Batched
      BY <1>1, <2>2, <3>1, TailFacts, TimerSteps
    <3> QED BY <3>2, TimerSteps DEF TimerOK
  <2>3. CASE a # Timer
    BY <1>1, <2>3, TailFacts DEF IInv, TimerOK
  <2> QED BY <1>1, <2>1, <2>2, <2>3
<1>7. OnlyAdded'
  BY <1>1 DEF IInv, OnlyAdded
<1> QED BY <1>5, <1>6, <1>7 DEF IInv

LEMMA RunReadyIInv ==
  ASSUME IInv, NEW t \in Tasks, RunReady(t)
  PROVE  IInv'
<1>1. Timer \in Threads
  BY DEF Threads
<1>2. TypeOK'
  BY <1>1, TodoFacts, EmptySeq DEF IInv, TypeOK, RunReady
<1>3. todo'[Timer] \in Batched
  BY <1>1, TodoFacts DEF IInv, TypeOK, RunReady
<1>4. TimerOK'
  BY <1>3, TimerSteps DEF TimerOK
<1>5. OnlyAdded'
  BY ElementsOfEmpty DEF IInv, OnlyAdded, RunReady
<1> QED BY <1>2, <1>4, <1>5 DEF IInv

LEMMA RunNotReadyIInv ==
  ASSUME IInv, NEW t \in Tasks, RunNotReady(t)
  PROVE  IInv'
<1>1. Timer \in Threads /\ MaxStalls \in Nat
  BY ConstantsAssumption DEF Threads
<1>2. TypeOK'
  <2>1. stalls' \in 0..MaxStalls
    BY <1>1 DEF IInv, TypeOK, RunNotReady
  <2>2. todo' \in [Threads -> Seq(Steps)]
    BY <1>1, TodoFacts DEF IInv, TypeOK, RunNotReady
  <2>3. task' \in [Tasks -> {"none", "waiting", "run"}]
    BY DEF IInv, TypeOK, RunNotReady
  <2> QED BY <2>1, <2>2, <2>3 DEF IInv, TypeOK, RunNotReady
<1>3. todo'[Timer] \in Postponed
  BY <1>1, TodoFacts DEF IInv, TypeOK, RunNotReady
<1>4. batch = << >>
  BY TimerSteps DEF IInv, TimerOK, RunNotReady, MayRun
<1>5. TimerOK'
  BY <1>1, <1>3, <1>4 DEF TimerOK, RunNotReady, IInv, TypeOK
<1>6. OnlyAdded'
  BY DEF IInv, OnlyAdded, RunNotReady
<1> QED BY <1>2, <1>5, <1>6 DEF IInv

LEMMA ProcessItemsIInv ==
  ASSUME IInv, ProcessItems
  PROVE  IInv'
<1>1. /\ Timer \in Threads
      /\ todo[Timer] # << >> /\ Head(todo[Timer]).op = "process"
      /\ todo' = [todo EXCEPT ![Timer] = Tail(@)]
      /\ processed' = processed \o batch /\ batch' = << >>
      /\ UNCHANGED <<idling, items, task, ref, added, stalls>>
  BY DEF ProcessItems, Threads
<1>2. processed \in Seq(Items) /\ batch \in Seq(Items)
  BY DEF IInv, TypeOK
<1>3. processed' \in Seq(Items)
  BY <1>1, <1>2, ConcatProperties
<1>4. TypeOK'
  BY <1>1, <1>3, TailFacts, EmptySeq DEF IInv, TypeOK
<1>5. todo'[Timer] = << >>
  <2>1. todo[Timer] \in Batched
    BY <1>1, TimerSteps DEF IInv, TimerOK
  <2> QED BY <1>1, <2>1, TailFacts, TimerSteps
<1>6. TimerOK'
  BY <1>1, <1>5, TimerSteps DEF TimerOK
<1>7. OnlyAdded'
  <2>1. Elements(processed') = Elements(processed) \union Elements(batch)
    BY <1>1, <1>2, ElementsOfConcat
  <2> QED BY <1>1, <2>1, ElementsOfEmpty DEF IInv, OnlyAdded
<1> QED BY <1>4, <1>6, <1>7 DEF IInv

\* The invariant holds of every reachable state: the timer's thread processes
\* a batch before it takes another.
THEOREM Invariance == Spec => []IInv
<1>1. IInv /\ [Next]_vars => IInv'
  <2> SUFFICES ASSUME IInv, [Next]_vars PROVE IInv'
    OBVIOUS
  <2>1. CASE UNCHANGED vars
    BY <2>1 DEF vars, IInv, TypeOK, TimerOK, OnlyAdded
  <2> QED BY <2>1, AddIInv, ScheduleIInv, SwapIInv, RunReadyIInv,
             RunNotReadyIInv, ProcessItemsIInv DEF Next
<1> QED BY <1>1, InitIInv, PTL DEF Spec

\* Type correctness, for every set of items and every bound: rescheduleTask
\* never creates a task that does not exist.
THEOREM TypeCorrect == Spec => []TypeOK
<1>1. IInv => TypeOK
  BY DEF IInv
<1> QED BY <1>1, Invariance, PTL

-----------------------------------------------------------------------------
(* The refinement *)

\* add() of AbstractAccumulator adds to what waits.
LEMMA AddRefines ==
  ASSUME IInv, NEW i \in Items, Add(i)
  PROVE  Abstract!Add(i)
<1>1. items \in Seq(Items) /\ batch \in Seq(Items)
  BY DEF IInv, TypeOK
<1>2. batch \o Append(items, i) = Append(batch \o items, i)
  <2>1. Append(items, i) = items \o <<i>> /\ <<i>> \in Seq(Items)
    BY <1>1, AppendIsConcat
  <2>2. batch \o items \in Seq(Items)
    BY <1>1, ConcatProperties
  <2>3. Append(batch \o items, i) = (batch \o items) \o <<i>>
    BY <2>2, AppendIsConcat
  <2> QED BY <1>1, <2>1, <2>3, ConcatAssociative
<1>3. i \notin Elements(batch \o items) /\ i \notin Elements(processed)
  BY <1>1, ElementsOfConcat DEF IInv, OnlyAdded, Add
<1> QED BY <1>2, <1>3 DEF Abstract!Add, Add, Elements

\* finalizeCurrentBatch moves what waits, and processItems hands it on.
LEMMA ProcessRefines ==
  ASSUME IInv, ProcessItems
  PROVE  [Abstract!Next]_(Abstract!vars)
<1>1. /\ items \in Seq(Items) /\ batch \in Seq(Items)
      /\ processed \in Seq(Items)
  BY DEF IInv, TypeOK
<1>2. << >> \o items = items /\ processed \o << >> = processed
  BY <1>1, ConcatEmptySeq
<1>3. CASE batch = << >>
  BY <1>2, <1>3 DEF ProcessItems, Abstract!vars
<1>4. CASE batch # << >>
  <2>1. Len(batch) \in 1..Len(batch \o items)
    BY <1>1, <1>4, ConcatProperties, LenProperties, EmptySeq
  <2>2. /\ processed' = processed \o SubSeq(batch \o items, 1, Len(batch))
        /\ batch' \o items' =
             SubSeq(batch \o items, Len(batch) + 1, Len(batch \o items))
    BY <1>1, <1>2, SplitConcat DEF ProcessItems
  <2>3. Abstract!ProcessBatch
    BY <2>1, <2>2 DEF Abstract!ProcessBatch
  <2> QED BY <2>3 DEF Abstract!Next
<1> QED BY <1>3, <1>4

\* The accumulator implements Batching: every item added is handed on at most
\* once and in the order of adding, whichever tasks are scheduled, cancelled,
\* run early or run without need.
THEOREM Implements == Spec => Batches
<1>1. Init => Abstract!Init
  BY ConcatEmptySeq, EmptySeq DEF Init, Abstract!Init
<1>2. IInv /\ [Next]_vars => [Abstract!Next]_(Abstract!vars)
  <2> SUFFICES ASSUME IInv, [Next]_vars
               PROVE  [Abstract!Next]_(Abstract!vars)
    OBVIOUS
  <2>1. ASSUME NEW i \in Items, Add(i)
        PROVE  [Abstract!Next]_(Abstract!vars)
    BY <2>1, AddRefines DEF Abstract!Next
  <2>2. ASSUME NEW t \in Tasks, RunReady(t)
        PROVE  [Abstract!Next]_(Abstract!vars)
    <3>1. batch = << >> /\ items \in Seq(Items)
      BY <2>2, TimerSteps DEF IInv, TimerOK, TypeOK, RunReady, MayRun
    <3>2. << >> \o items = items /\ items \o << >> = items
      BY <3>1, ConcatEmptySeq
    <3> QED BY <2>2, <3>1, <3>2 DEF RunReady, Abstract!vars
  <2>3. ASSUME NEW a \in Threads, Schedule(a) \/ SwapAndCancel(a)
        PROVE  [Abstract!Next]_(Abstract!vars)
    BY <2>3 DEF Schedule, SwapAndCancel, Abstract!vars
  <2>4. ASSUME NEW t \in Tasks, RunNotReady(t)
        PROVE  [Abstract!Next]_(Abstract!vars)
    BY <2>4 DEF RunNotReady, Abstract!vars
  <2>5. CASE UNCHANGED vars
    BY <2>5 DEF vars, Abstract!vars
  <2> QED BY <2>1, <2>2, <2>3, <2>4, <2>5, ProcessRefines DEF Next
<1> QED BY <1>1, <1>2, Invariance, PTL DEF Spec, Batches, Abstract!Spec

=============================================================================

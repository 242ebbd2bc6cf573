------------------------ MODULE FlowObjectivesProofs ------------------------
(***************************************************************************)
(* For every set of objectives, keys and next groups: no objective waits   *)
(* for a group that exists and whose notification has been handled, and    *)
(* the first objective of a queue is always on its way to an answer.       *)
(*                                                                         *)
(* The second is not inductive.  A context that has failed drops all later *)
(* answers, so the invariant adds that the thread that found it not failed *)
(* yet is still to dequeue the objective (FailedOK); that an objective is  *)
(* in one queue, once (QueueOK), so that it is gone when it was dequeued;  *)
(* and that what is called to wait has a group to wait for (CallsOK).      *)
(***************************************************************************)
EXTENDS FlowObjectives, SequenceFacts, SequenceTheorems, TLAPS

Distinct(q) == \A i, j \in 1..Len(q) : q[i] = q[j] => i = j

\* Queues hold submitted objectives of their key, each once.
QueueOK ==
  \A k \in Keys : /\ Distinct(queue[k])
                  /\ \A o \in Objs(queue[k]) : KeyOf[o] = k /\ o \in submitted

\* Who is put to wait has a group to wait for.
CallsOK ==
  \A t \in Threads : \A c \in Objs(calls[t]) : c.op = "queue" => Waits(c.obj)

\* notify is about a group, and begins when the notifier is done with the last.
NotifierOK ==
  /\ notifying.phase # "idle" => notifying.id \in NextIds
  /\ notifying.phase = "forwards" => calls["notifier"] = << >>

ToBeDequeued(o) ==
  \/ \E e \in Errors : finishing[o][e] > 0
  \/ \E c \in Objs(calls["manager"]) : c.op = "dequeue" /\ c.obj = o

\* An objective that has failed and is still queued is about to be dequeued.
FailedOK ==
  \A o \in Objectives : failed[o] /\ o \in Objs(queue[KeyOf[o]]) => ToBeDequeued(o)

Unknown(o) ==
  /\ ~InProgress(o) /\ ~failed[o] /\ expired[o] = "no"
  /\ \A k \in Keys : head[k] # o

\* Nothing is known of an objective before it is submitted.
SubmittedOK == \A o \in Objectives \ submitted : Unknown(o)

IInv ==
  /\ TypeOK
  /\ SubmittedOK
  /\ NotifierOK
  /\ NoLostNotification
  /\ QueueOK
  /\ CallsOK
  /\ FailedOK
  /\ HeadInProgress

-----------------------------------------------------------------------------
(* Sequences of objectives and of calls *)

LEMMA ObjsIs == ASSUME NEW s PROVE Objs(s) = Elements(s)
  BY DEF Objs, Elements

LEMMA CallFacts ==
  ASSUME NEW op \in {"execute", "queue", "onError", "dequeue"},
         NEW o \in Objectives, NEW e \in Errors
  PROVE  /\ Call(op, o, e) \in Calls
         /\ Call(op, o, e).op = op
         /\ Call(op, o, e).obj = o
         /\ Call(op, o, e).error = e
BY DEF Call, Calls

LEMMA EmptyFacts == Objs(<< >>) = {}
  BY ElementsOfEmpty, ObjsIs

LEMMA OneFacts ==
  ASSUME NEW S, NEW x \in S
  PROVE  <<x>> \in Seq(S) /\ Objs(<<x>>) = {x}
<1>1. <<x>> \in Seq(S) /\ Len(<<x>>) = 1 /\ <<x>>[1] = x
  OBVIOUS
<1> QED BY <1>1 DEF Objs

LEMMA ConcatFacts ==
  ASSUME NEW S, NEW s \in Seq(S), NEW t \in Seq(S)
  PROVE  s \o t \in Seq(S) /\ Objs(s \o t) = Objs(s) \union Objs(t)
<1>1. s \o t \in Seq(S)
  BY ConcatProperties
<1> QED BY <1>1, ElementsOfConcat, ObjsIs

\* ExecuteAll(s) executes the objectives of s and nothing else.
LEMMA ExecuteAllFacts ==
  ASSUME NEW s \in Seq(Objectives)
  PROVE  /\ ExecuteAll(s) \in Seq(Calls)
         /\ Objs(ExecuteAll(s)) = {Call("execute", o, "none") : o \in Objs(s)}
<1>1. Len(s) \in Nat /\ \A i \in 1..Len(s) : s[i] \in Objectives
  BY LenProperties, ElementOfSeq
<1>2. ExecuteAll(s) \in [1..Len(s) -> Calls]
  BY <1>1, CallFacts DEF ExecuteAll, Errors
<1>3. ExecuteAll(s) \in Seq(Calls) /\ Len(ExecuteAll(s)) = Len(s)
  BY <1>1, <1>2, FunctionSeq
<1>4. \A i \in 1..Len(s) : ExecuteAll(s)[i] = Call("execute", s[i], "none")
  BY DEF ExecuteAll
<1> QED BY <1>3, <1>4 DEF Objs

\* The calls that report an error to every objective of s.
LEMMA ErrorCallsFacts ==
  ASSUME NEW s \in Seq(Objectives), NEW e \in Errors, NEW f,
         f = [j \in 1..Len(s) |-> Call("onError", s[j], e)]
  PROVE  /\ f \in Seq(Calls)
         /\ Objs(f) = {Call("onError", o, e) : o \in Objs(s)}
<1>1. Len(s) \in Nat /\ \A i \in 1..Len(s) : s[i] \in Objectives
  BY LenProperties, ElementOfSeq
<1>2. f \in [1..Len(s) -> Calls]
  BY <1>1, CallFacts
<1>3. f \in Seq(Calls) /\ Len(f) = Len(s)
  BY <1>1, <1>2, FunctionSeq
<1> QED BY <1>3 DEF Objs

\* What is left of a queue when an objective is taken out of it.
LEMMA WithoutFacts ==
  ASSUME NEW q \in Seq(Objectives), Distinct(q), NEW o
  PROVE  /\ Without(q, o) \in Seq(Objectives)
         /\ Distinct(Without(q, o))
         /\ Objs(Without(q, o)) = Objs(q) \ {o}
<1>1. Len(q) \in Nat /\ \A i \in 1..Len(q) : q[i] \in Objectives
  BY LenProperties, ElementOfSeq
<1>2. CASE o \notin Objs(q)
  BY <1>2 DEF Without
<1>3. CASE o \in Objs(q)
  <2> DEFINE j == CHOOSE j \in 1..Len(q) : q[j] = o
             r == Without(q, o)
  <2>1. j \in 1..Len(q) /\ q[j] = o
    BY <1>3 DEF Objs
  <2>2. r = [i \in 1..(Len(q) - 1) |-> IF i < j THEN q[i] ELSE q[i + 1]]
    BY <1>3 DEF Without
  <2> HIDE DEF j, r
  <2>3. Len(q) - 1 \in Nat /\ r \in [1..(Len(q) - 1) -> Objectives]
    BY <1>1, <2>1, <2>2
  <2>4. r \in Seq(Objectives) /\ Len(r) = Len(q) - 1
    BY <2>3, FunctionSeq
  <2>5. \A i \in 1..Len(r) : r[i] = q[IF i < j THEN i ELSE i + 1]
    BY <2>2, <2>4
  <2>6. Distinct(r)
    BY <1>1, <2>1, <2>4, <2>5 DEF Distinct
  <2>7. ASSUME NEW i \in 1..Len(r)
        PROVE  r[i] \in Objs(q) \ {o}
    <3>1. r[i] = q[IF i < j THEN i ELSE i + 1]
      BY <2>5
    <3>2. (IF i < j THEN i ELSE i + 1) \in 1..Len(q) \ {j}
      BY <1>1, <2>1, <2>4
    <3> QED BY <2>1, <3>1, <3>2 DEF Objs, Distinct
  <2>8. ASSUME NEW i \in 1..Len(q), q[i] # o
        PROVE  q[i] \in Objs(r)
    <3>1. CASE i < j
      <4>1. i \in 1..Len(r) /\ r[i] = q[i]
        BY <1>1, <2>1, <2>4, <2>5, <3>1
      <4> QED BY <4>1 DEF Objs
    <3>2. CASE i > j
      <4>1. i - 1 \in 1..Len(r) /\ r[i - 1] = q[i]
        BY <1>1, <2>1, <2>4, <2>5, <3>2
      <4> QED BY <4>1 DEF Objs
    <3> QED BY <2>1, <2>8, <3>1, <3>2
  <2>9. Objs(r) = Objs(q) \ {o}
    BY <2>7, <2>8 DEF Objs
  <2> QED BY <2>4, <2>6, <2>9 DEF r
<1> QED BY <1>2, <1>3

-----------------------------------------------------------------------------
(* Three kinds of step *)

\* A step that leaves the queues and the contexts alone, and every objective in
\* progress.
LEMMA ProgressIInv ==
  ASSUME IInv, TypeOK', NotifierOK', NoLostNotification', CallsOK', SubmittedOK',
         UNCHANGED <<submitted, queue, failed, finishing>>,
         \A c \in Objs(calls["manager"]) :
            c.op = "dequeue" => c \in Objs(calls'["manager"]),
         \A p \in Objectives : InProgress(p) => InProgress(p)'
  PROVE  IInv'
<1>1. QueueOK'
  BY DEF IInv, QueueOK
<1>2. FailedOK'
  BY DEF IInv, FailedOK, ToBeDequeued
<1>3. HeadInProgress'
  <2> SUFFICES ASSUME NEW k \in Keys, queue[k] # << >>
               PROVE  InProgress(queue[k][1])'
    BY DEF HeadInProgress
  <2>1. InProgress(queue[k][1])
    BY DEF IInv, HeadInProgress
  <2>2. queue[k][1] \in Objectives
    BY ElementsTyped DEF IInv, TypeOK
  <2> QED BY <2>1, <2>2
<1> QED BY <1>1, <1>2, <1>3 DEF IInv

\* A step in which the context of o hears an answer.
LEMMA AnswerIInv ==
  ASSUME IInv, TypeOK', NEW o \in submitted,
         UNCHANGED <<submitted, queue, head, calls, pending, store, notifying>>,
         \A p \in Objectives \ {o} :
            /\ failed'[p] = failed[p] /\ finishing'[p] = finishing[p]
            /\ tasks'[p] = tasks[p] /\ handed'[p] = handed[p]
            /\ applied'[p] = applied[p] /\ expired'[p] = expired[p],
         \A e \in Errors : finishing[o][e] > 0 => finishing'[o][e] > 0,
         failed[o] \/ \E e \in Errors : finishing'[o][e] > 0
  PROVE  IInv'
<1> USE DEF pending, store
<1>0. SubmittedOK'
  <2> SUFFICES ASSUME NEW p \in Objectives \ submitted PROVE Unknown(p)'
    BY DEF SubmittedOK
  <2>1. Unknown(p) /\ p # o
    BY DEF IInv, SubmittedOK
  <2>2. InCalls(p)' <=> InCalls(p)
    BY DEF InCalls
  <2>3. Pending(p)' <=> Pending(p)
    BY DEF Pending
  <2> QED BY <2>1, <2>2, <2>3 DEF Unknown, InProgress
<1>a. o \in Objectives
  BY DEF IInv, TypeOK
<1>1. NotifierOK' /\ NoLostNotification' /\ QueueOK' /\ CallsOK'
  BY DEF IInv, NotifierOK, NoLostNotification, QueueOK, CallsOK
<1>2. FailedOK'
  <2> SUFFICES ASSUME NEW p \in Objectives, failed'[p],
                      p \in Objs(queue[KeyOf[p]])
               PROVE  ToBeDequeued(p)'
    BY DEF FailedOK
  <2>1. CASE p = o
    BY <1>a, <2>1 DEF IInv, FailedOK, ToBeDequeued
  <2>2. CASE p # o
    BY <2>2 DEF IInv, FailedOK, ToBeDequeued
  <2> QED BY <2>1, <2>2
<1>3. HeadInProgress'
  <2> SUFFICES ASSUME NEW k \in Keys, queue[k] # << >>
               PROVE  InProgress(queue[k][1])'
    BY DEF HeadInProgress
  <2>1. PICK h \in Objectives :
          h = queue[k][1] /\ h \in Objs(queue[k]) /\ KeyOf[h] = k
    <3>1. queue[k] \in Seq(Objectives)
      BY DEF IInv, TypeOK
    <3>2. queue[k][1] \in Objs(queue[k]) /\ queue[k][1] \in Objectives
      BY <3>1, ElementsTyped, ObjsIs
    <3> QED BY <3>2 DEF IInv, QueueOK
  <2> SUFFICES InProgress(h)'
    BY <2>1 DEF InProgress, InCalls, Pending
  <2>2. InProgress(h)
    BY <2>1 DEF IInv, HeadInProgress
  <2>3. CASE h # o
    <3>1. InCalls(h)' <=> InCalls(h)
      BY DEF InCalls
    <3>2. Pending(h)' <=> Pending(h)
      BY DEF Pending
    <3> QED BY <2>1, <2>2, <2>3, <3>1, <3>2 DEF InProgress
  <2>4. CASE h = o
    <3>1. CASE \E e \in Errors : finishing'[o][e] > 0
      BY <2>4, <3>1 DEF InProgress
    <3>2. CASE failed[o] /\ ~\E e \in Errors : finishing'[o][e] > 0
      <4>1. ToBeDequeued(o)
        BY <2>1, <2>4, <3>2 DEF IInv, FailedOK
      <4>2. InCalls(o)'
        BY <3>2, <4>1 DEF ToBeDequeued, InCalls, Threads
      <4> QED BY <2>4, <4>2 DEF InProgress
    <3> QED BY <3>1, <3>2
  <2> QED BY <2>3, <2>4
<1> QED BY <1>0, <1>1, <1>2, <1>3 DEF IInv

\* What dequeue(o) leaves, with the calls in rest still to be made.
Dequeued(o, rest) ==
  /\ head' \in [Keys -> Objectives \union {NoObjective}]
  /\ queue' \in [Keys -> Seq(Objectives)]
  /\ answers' \in [Objectives -> SUBSET {"success", "error"}]
  /\ calls' \in [Threads -> Seq(Calls)]
  /\ pendingForwards' \in [NextIds -> Seq(Objectives)]
  /\ pendingNexts' \in [NextIds -> Seq(Objectives)]
  /\ calls'["notifier"] = calls["notifier"]
  /\ Objs(rest) \subseteq Objs(calls'["manager"])
  /\ \A c \in Objs(calls'["manager"]) :
       c \in Objs(rest) \/ (c.op # "queue" /\ c.obj \in submitted)
  /\ \A k \in Keys : head'[k] \in {head[k], NoObjective}
  /\ \A k \in Keys : Distinct(queue'[k]) /\ Objs(queue'[k]) \subseteq Objs(queue[k])
  /\ o \in Objs(queue'[KeyOf[o]]) =>
       \E c \in Objs(calls'["manager"]) : c.op = "dequeue" /\ c.obj = o
  /\ \A k \in Keys : queue'[k] # << >> =>
       \/ queue'[k] = queue[k]
       \/ \E c \in Objs(calls'["manager"]) : c.obj = queue'[k][1]
  /\ \A i \in NextIds : /\ pendingForwards'[i] \in {pendingForwards[i], << >>}
                        /\ pendingNexts'[i] \in {pendingNexts[i], << >>}
  /\ \A p \in Objectives :
       Pending(p) => \/ Pending(p)'
                     \/ \E c \in Objs(calls'["manager"]) : c.obj = p

LEMMA DequeuedIInv ==
  ASSUME IInv, NEW o \in submitted, NEW rest, Dequeued(o, rest),
         \A c \in Objs(calls["manager"]) : c \in Objs(rest) \/ c.obj = o,
         Objs(rest) \subseteq Objs(calls["manager"]),
         finishing' \in [Objectives -> [Errors -> Nat]],
         failed' \in [Objectives -> BOOLEAN],
         \A p \in Objectives \ {o} :
            failed'[p] = failed[p] /\ finishing'[p] = finishing[p],
         UNCHANGED <<submitted, expired, store, notifying, pipeline>>
  PROVE  IInv'
<1> USE DEF store, pipeline
<1>0. SubmittedOK'
  <2> SUFFICES ASSUME NEW p \in Objectives \ submitted PROVE Unknown(p)'
    BY DEF SubmittedOK
  <2>1. Unknown(p) /\ p # o
    BY DEF IInv, SubmittedOK
  <2>2. ~InCalls(p)'
    BY <2>1 DEF Unknown, InProgress, InCalls, Threads, Dequeued
  <2>3. ~Pending(p)'
    BY <2>1, EmptyFacts DEF Unknown, InProgress, Pending, Dequeued
  <2>4. \A k \in Keys : head'[k] # p
    <3>1. \A k \in Keys : head'[k] \in {head[k], NoObjective}
      BY DEF Dequeued
    <3>2. p # NoObjective /\ \A k \in Keys : head[k] # p
      BY <2>1, ConstantsAssumption DEF Unknown
    <3> QED BY <3>1, <3>2
  <2> QED BY <2>1, <2>2, <2>3, <2>4 DEF Unknown, InProgress
<1>a. o \in Objectives
  BY DEF IInv, TypeOK
<1>1. TypeOK'
  BY DEF IInv, TypeOK, Dequeued
<1>2. NotifierOK'
  BY DEF IInv, NotifierOK, Dequeued
<1>3. NoLostNotification'
  BY DEF IInv, TypeOK, NoLostNotification, Dequeued
<1>4. QueueOK'
  BY DEF IInv, QueueOK, Dequeued
<1>5. CallsOK'
  BY DEF IInv, CallsOK, Dequeued, Threads
<1>6. FailedOK'
  <2> SUFFICES ASSUME NEW p \in Objectives, failed'[p],
                      p \in Objs(queue'[KeyOf[p]])
               PROVE  ToBeDequeued(p)'
    BY DEF FailedOK
  <2>1. CASE p = o
    BY <2>1 DEF ToBeDequeued, Dequeued
  <2>2. CASE p # o
    <3>1. p \in Objs(queue[KeyOf[p]])
      BY ConstantsAssumption DEF Dequeued
    <3>2. ToBeDequeued(p)
      BY <2>2, <3>1 DEF IInv, FailedOK
    <3> QED BY <2>2, <3>2 DEF ToBeDequeued, Dequeued
  <2> QED BY <2>1, <2>2
<1>7. HeadInProgress'
  <2> SUFFICES ASSUME NEW k \in Keys, queue'[k] # << >>
               PROVE  InProgress(queue[k][1])'
    BY DEF HeadInProgress
  <2>1. PICK h \in Objectives :
          h = queue'[k][1] /\ h \in Objs(queue'[k]) /\ KeyOf[h] = k
    BY <1>1, <1>4, ElementsTyped, ObjsIs DEF TypeOK, QueueOK
  <2> SUFFICES InProgress(h)'
    BY <2>1 DEF InProgress, InCalls, Pending
  <2>2. CASE \E c \in Objs(calls'["manager"]) : c.obj = h
    BY <2>2 DEF InProgress, InCalls, Threads
  <2>3. CASE h = o
    BY <2>1, <2>2, <2>3 DEF Dequeued
  <2>4. CASE h # o /\ queue'[k] = queue[k]
    <3>1. InProgress(h)
      BY <2>1, <2>4 DEF IInv, HeadInProgress
    <3>2. InCalls(h) => InCalls(h)'
      BY <2>4 DEF InCalls, Threads, Dequeued
    <3>3. Pending(h) => Pending(h)' \/ InCalls(h)'
      BY DEF Dequeued, InCalls, Threads
    <3> QED BY <2>4, <3>1, <3>2, <3>3 DEF InProgress
  <2> QED BY <2>1, <2>2, <2>3, <2>4 DEF Dequeued
<1> QED BY <1>0, <1>1, <1>2, <1>3, <1>4, <1>5, <1>6, <1>7 DEF IInv

-----------------------------------------------------------------------------
(* dequeue *)

LEMMA RemoveFacts ==
  ASSUME IInv, NEW o \in submitted, NEW e \in Errors, NEW rest \in Seq(Calls),
         Remove(o, e, rest), UNCHANGED pending
  PROVE  Dequeued(o, rest)
<1>1. PICK k \in Keys : k = KeyOf[o]
  BY ConstantsAssumption DEF IInv, TypeOK
<1>2. PICK r : r = Without(queue[k], o)
  OBVIOUS
<1>3. PICK x : x = IF r = << >> THEN << >> ELSE ExecuteAll(<<r[1]>>)
  OBVIOUS
<1>4. o \in Objectives /\ queue[k] \in Seq(Objectives) /\ Distinct(queue[k])
  BY DEF IInv, TypeOK, QueueOK
<1>5. r \in Seq(Objectives) /\ Distinct(r) /\ Objs(r) = Objs(queue[k]) \ {o}
  BY <1>2, <1>4, WithoutFacts
<1>6. r # << >> => r[1] \in Objs(r) /\ r[1] \in Objectives
  BY <1>5, ElementsTyped, ObjsIs
<1>7. /\ x \in Seq(Calls)
      /\ r = << >> => Objs(x) = {}
      /\ r # << >> => Objs(x) = {Call("execute", r[1], "none")}
  <2>1. CASE r = << >>
    BY <1>3, <2>1, EmptyFacts, EmptySeq
  <2>2. CASE r # << >>
    <3>1. <<r[1]>> \in Seq(Objectives) /\ Objs(<<r[1]>>) = {r[1]}
      BY <1>6, <2>2, OneFacts
    <3> QED BY <1>3, <2>2, <3>1, ExecuteAllFacts
  <2> QED BY <2>1, <2>2
<1>8. x \o rest \in Seq(Calls) /\ Objs(x \o rest) = Objs(x) \union Objs(rest)
  BY <1>7, ConcatFacts
<1>9. /\ queue' = [queue EXCEPT ![k] = r]
      /\ calls' = [calls EXCEPT !["manager"] = x \o rest]
      /\ head' = IF e = "timeout" THEN head ELSE [head EXCEPT ![k] = NoObjective]
      /\ answers' = [answers EXCEPT ![o] =
                       @ \union {IF e = "none" THEN "success" ELSE "error"}]
      /\ UNCHANGED <<pendingForwards, pendingNexts>>
  BY <1>1, <1>2, <1>3 DEF Remove, pending
<1>10. /\ queue' \in [Keys -> Seq(Objectives)]
       /\ queue'[k] = r
       /\ \A j \in Keys \ {k} : queue'[j] = queue[j]
  BY <1>5, <1>9 DEF IInv, TypeOK
<1>11. /\ calls' \in [Threads -> Seq(Calls)]
       /\ calls'["manager"] = x \o rest
       /\ calls'["notifier"] = calls["notifier"]
  BY <1>8, <1>9 DEF IInv, TypeOK, Threads
<1>12. /\ head' \in [Keys -> Objectives \union {NoObjective}]
       /\ \A j \in Keys : head'[j] \in {head[j], NoObjective}
  BY <1>9 DEF IInv, TypeOK
<1>13. answers' \in [Objectives -> SUBSET {"success", "error"}]
  BY <1>4, <1>9 DEF IInv, TypeOK
<1>14. \A j \in Keys : /\ Distinct(queue'[j])
                       /\ Objs(queue'[j]) \subseteq Objs(queue[j])
  BY <1>5, <1>10 DEF IInv, QueueOK
<1>15. \A c \in Objs(x) : c.op = "execute" /\ c.obj = r[1] /\ r # << >>
  BY <1>6, <1>7, CallFacts DEF Errors
<1>16. \A c \in Objs(calls'["manager"]) :
         c \in Objs(rest) \/ (c.op # "queue" /\ c.obj \in submitted)
  <2>1. r # << >> => r[1] \in submitted
    BY <1>5, <1>6 DEF IInv, QueueOK
  <2> QED BY <1>8, <1>11, <1>15, <2>1
<1>17. r # << >> => \E c \in Objs(calls'["manager"]) : c.obj = r[1]
  <2>1. CASE r # << >>
    <3>1. /\ Call("execute", r[1], "none") \in Objs(calls'["manager"])
          /\ Call("execute", r[1], "none").obj = r[1]
      BY <1>6, <1>7, <1>8, <1>11, <2>1, CallFacts DEF Errors
    <3> QED BY <3>1
  <2> QED BY <2>1
<1>18. o \notin Objs(queue'[KeyOf[o]])
  BY <1>1, <1>5, <1>10
<1>19. \A p \in Objectives : Pending(p)' <=> Pending(p)
  BY <1>9 DEF Pending
<1> QED
  BY <1>8, <1>9, <1>10, <1>11, <1>12, <1>13, <1>14, <1>16, <1>17, <1>18, <1>19
  DEF Dequeued, IInv, TypeOK

LEMMA DequeueFacts ==
  ASSUME IInv, NEW o \in submitted, NEW e \in Errors, NEW rest \in Seq(Calls),
         Dequeue(o, e, rest)
  PROVE  Dequeued(o, rest)
<1>1. CASE ~(OpOf[o] \in NextOps /\ e # "none")
  BY <1>1, RemoveFacts DEF Dequeue
<1>2. CASE OpOf[o] \in NextOps /\ e # "none"
  <2>1. o \in Objectives
    BY DEF IInv, TypeOK
  <2>2. PICK i \in NextIds : i = NextOf[o]
    BY <1>2, <2>1, ConstantsAssumption
  <2>3. PICK w : w = pendingForwards[i] \o pendingNexts[i]
    OBVIOUS
  <2>4. PICK f : f = [j \in 1..Len(w) |-> Call("onError", w[j], e)]
    OBVIOUS
  <2>5. PICK d : d = Call("dequeue", o, e)
    OBVIOUS
  <2>a. PICK y : y = <<d>>
    OBVIOUS
  <2>6. /\ pendingForwards' = [pendingForwards EXCEPT ![i] = << >>]
        /\ pendingNexts' = [pendingNexts EXCEPT ![i] = << >>]
        /\ calls' = [calls EXCEPT !["manager"] = f \o y \o rest]
        /\ UNCHANGED <<queue, head, answers>>
    BY <1>2, <2>2, <2>3, <2>4, <2>5, <2>a DEF Dequeue
  <2>7. /\ w \in Seq(Objectives)
        /\ Objs(w) = Objs(pendingForwards[i]) \union Objs(pendingNexts[i])
    BY <2>3, ConcatFacts DEF IInv, TypeOK
  <2>8. f \in Seq(Calls) /\ Objs(f) = {Call("onError", p, e) : p \in Objs(w)}
    BY <2>4, <2>7, ErrorCallsFacts
  <2>9. /\ d \in Calls /\ d.op = "dequeue" /\ d.obj = o
        /\ y \in Seq(Calls) /\ Objs(y) = {d}
    BY <2>1, <2>5, <2>a, CallFacts, OneFacts
  <2>10. f \o y \in Seq(Calls) /\ Objs(f \o y) = Objs(f) \union {d}
    BY <2>8, <2>9, ConcatFacts
  <2>11. /\ f \o y \o rest \in Seq(Calls)
         /\ Objs(f \o y \o rest) = Objs(f) \union {d} \union Objs(rest)
    <3>1. PICK z \in Seq(Calls) : z = f \o y /\ Objs(z) = Objs(f) \union {d}
      BY <2>10
    <3>2. z \o rest \in Seq(Calls) /\ Objs(z \o rest) = Objs(z) \union Objs(rest)
      BY ConcatFacts
    <3> QED BY <3>1, <3>2
  <2>12. /\ calls' \in [Threads -> Seq(Calls)]
         /\ Objs(calls'["manager"]) = Objs(f) \union {d} \union Objs(rest)
         /\ calls'["notifier"] = calls["notifier"]
    BY <2>6, <2>11 DEF IInv, TypeOK, Threads
  <2>13. \A p \in Objs(w) : p \in Objectives /\ p \in submitted
    <3>1. Objs(w) \subseteq Objectives
      BY <2>7, ElementsTyped, ObjsIs
    <3>2. \A p \in Objs(w) : Pending(p)
      BY <2>7 DEF Pending
    <3> QED BY <3>1, <3>2 DEF IInv, SubmittedOK, Unknown, InProgress
  <2>14. \A p \in Objs(w) : \E c \in Objs(f) : c.obj = p
    BY <2>8, <2>13, CallFacts
  <2>15. \A c \in Objs(f) : c.op = "onError" /\ c.obj \in Objs(w)
    BY <2>8, <2>13, CallFacts
  <2>16. \A j \in NextIds : /\ pendingForwards'[j] \in {pendingForwards[j], << >>}
                            /\ pendingNexts'[j] \in {pendingNexts[j], << >>}
                            /\ j # i => /\ pendingForwards'[j] = pendingForwards[j]
                                        /\ pendingNexts'[j] = pendingNexts[j]
    BY <2>6 DEF IInv, TypeOK
  <2>17. /\ pendingForwards' \in [NextIds -> Seq(Objectives)]
         /\ pendingNexts' \in [NextIds -> Seq(Objectives)]
    BY <2>6, EmptySeq DEF IInv, TypeOK
  <2>18. ASSUME NEW p \in Objectives, Pending(p)
         PROVE  Pending(p)' \/ \E c \in Objs(calls'["manager"]) : c.obj = p
    <3>1. PICK j \in NextIds :
            p \in Objs(pendingForwards[j]) \union Objs(pendingNexts[j])
      BY <2>18 DEF Pending
    <3>2. CASE j = i
      BY <2>7, <2>12, <2>14, <3>1, <3>2
    <3>3. CASE j # i
      BY <2>16, <3>1, <3>3 DEF Pending
    <3> QED BY <3>2, <3>3
  <2>19. \A c \in Objs(calls'["manager"]) :
           c \in Objs(rest) \/ (c.op # "queue" /\ c.obj \in submitted)
    BY <2>9, <2>12, <2>13, <2>15
  <2> QED
    BY <2>6, <2>9, <2>12, <2>16, <2>17, <2>18, <2>19
    DEF Dequeued, IInv, TypeOK, QueueOK
<1> QED BY <1>1, <1>2

\* The call that a thread is at, and those after it.
LEMMA TailFacts ==
  ASSUME IInv, NEW t \in Threads, calls[t] # << >>
  PROVE  /\ Head(calls[t]) \in Calls
         /\ Head(calls[t]).obj \in submitted
         /\ Head(calls[t]).obj \in Objectives
         /\ Head(calls[t]).error \in Errors
         /\ Tail(calls[t]) \in Seq(Calls)
         /\ Objs(calls[t]) = {Head(calls[t])} \union Objs(Tail(calls[t]))
<1>1. calls[t] \in Seq(Calls)
  BY DEF IInv, TypeOK
<1>2. /\ Head(calls[t]) \in Calls
      /\ Tail(calls[t]) \in Seq(Calls)
      /\ Objs(calls[t]) = {Head(calls[t])} \union Objs(Tail(calls[t]))
  BY <1>1, ElementsOfTail, ObjsIs
<1>3. Head(calls[t]).obj \in Objectives /\ Head(calls[t]).error \in Errors
  BY <1>2 DEF Calls
<1>4. Head(calls[t]).obj \in submitted
  BY <1>2, <1>3 DEF IInv, SubmittedOK, Unknown, InProgress, InCalls
<1> QED BY <1>2, <1>3, <1>4

LEMMA StartDequeueIInv ==
  ASSUME IInv, NEW o \in Objectives, NEW e \in Errors, StartDequeue(o, e)
  PROVE  IInv'
<1>1. o \in submitted
  BY DEF StartDequeue, IInv, SubmittedOK, Unknown, InProgress
<1>2. /\ finishing' \in [Objectives -> [Errors -> Nat]]
      /\ \A p \in Objectives \ {o} : finishing'[p] = finishing[p]
  BY DEF StartDequeue, IInv, TypeOK
<1>3. Dequeued(o, << >>)
  BY <1>1, EmptySeq, DequeueFacts DEF StartDequeue
<1> QED BY <1>1, <1>2, <1>3, EmptyFacts, DequeuedIInv DEF StartDequeue, IInv, TypeOK

LEMMA FinishDequeueIInv ==
  ASSUME IInv, FinishDequeue
  PROVE  IInv'
<1>1. "manager" \in Threads /\ calls["manager"] # << >>
  BY DEF Threads, FinishDequeue
<1>2. PICK c : c = Head(calls["manager"])
  OBVIOUS
<1>3. PICK rest : rest = Tail(calls["manager"])
  OBVIOUS
<1>4. /\ c.obj \in submitted /\ c.error \in Errors /\ rest \in Seq(Calls)
      /\ Objs(calls["manager"]) = {c} \union Objs(rest)
  BY <1>1, <1>2, <1>3, TailFacts
<1>5. Remove(c.obj, c.error, rest)
  BY <1>2, <1>3 DEF FinishDequeue
<1>6. Dequeued(c.obj, rest)
  BY <1>4, <1>5, RemoveFacts DEF FinishDequeue
<1> QED BY <1>4, <1>6, DequeuedIInv DEF FinishDequeue, IInv, TypeOK

LEMMA PendingErrorIInv ==
  ASSUME IInv, PendingError
  PROVE  IInv'
<1>1. "manager" \in Threads /\ calls["manager"] # << >>
  BY DEF Threads, PendingError
<1>2. PICK c : c = Head(calls["manager"])
  OBVIOUS
<1>3. PICK rest : rest = Tail(calls["manager"])
  OBVIOUS
<1>4. /\ c.obj \in submitted /\ c.error \in Errors /\ rest \in Seq(Calls)
      /\ Objs(calls["manager"]) = {c} \union Objs(rest)
      /\ c.obj \in Objectives
  BY <1>1, <1>2, <1>3, TailFacts
<1>5. CASE ~failed[c.obj]
  <2>1. /\ Dequeue(c.obj, c.error, rest)
        /\ failed' = [failed EXCEPT ![c.obj] = TRUE]
    BY <1>2, <1>3, <1>5 DEF PendingError
  <2>2. /\ failed' \in [Objectives -> BOOLEAN]
        /\ \A p \in Objectives \ {c.obj} : failed'[p] = failed[p]
    BY <2>1 DEF IInv, TypeOK
  <2>3. Dequeued(c.obj, rest)
    BY <1>4, <2>1, DequeueFacts
  <2> QED BY <1>4, <2>2, <2>3, DequeuedIInv DEF PendingError, IInv, TypeOK
<1>6. CASE failed[c.obj]
  <2>1. /\ c.op = "onError"
        /\ calls' = [calls EXCEPT !["manager"] = rest]
        /\ UNCHANGED <<submitted, queue, head, answers, failed, finishing,
                       expired, notifying, pendingForwards, pendingNexts,
                       groups, eventQ, tasks, handed, applied>>
    BY <1>2, <1>3, <1>6 DEF PendingError, pending, store, pipeline
  <2>2. /\ calls' \in [Threads -> Seq(Calls)]
        /\ calls'["manager"] = rest /\ calls'["notifier"] = calls["notifier"]
    BY <1>4, <2>1 DEF IInv, TypeOK, Threads
  <2>3. TypeOK'
    BY <2>1, <2>2 DEF IInv, TypeOK
  <2>4. NotifierOK' /\ NoLostNotification' /\ QueueOK'
    BY <2>1, <2>2 DEF IInv, NotifierOK, NoLostNotification, QueueOK
  <2>5. CallsOK'
    BY <1>4, <2>2 DEF IInv, CallsOK, Threads
  <2>6. FailedOK'
    BY <1>4, <2>1, <2>2 DEF IInv, FailedOK, ToBeDequeued
  <2>7. \A p \in Objectives : /\ InCalls(p)' => InCalls(p)
                              /\ p # c.obj => InCalls(p)' = InCalls(p)
                              /\ Pending(p)' <=> Pending(p)
    BY <1>4, <2>1, <2>2 DEF InCalls, Pending, Threads
  <2>8. SubmittedOK'
    BY <2>1, <2>7 DEF IInv, SubmittedOK, Unknown, InProgress
  <2>9. HeadInProgress'
    <3> SUFFICES ASSUME NEW k \in Keys, queue[k] # << >>
                 PROVE  InProgress(queue[k][1])'
      BY <2>1 DEF HeadInProgress
    <3>1. PICK h \in Objectives :
            h = queue[k][1] /\ h \in Objs(queue[k]) /\ KeyOf[h] = k
      <4>1. queue[k] \in Seq(Objectives)
        BY DEF IInv, TypeOK
      <4>2. queue[k][1] \in Objs(queue[k]) /\ queue[k][1] \in Objectives
        BY <4>1, ElementsTyped, ObjsIs
      <4> QED BY <4>2 DEF IInv, QueueOK
    <3> SUFFICES InProgress(h)'
      BY <2>1, <3>1 DEF InProgress, InCalls, Pending
    <3>2. InProgress(h)
      BY <3>1 DEF IInv, HeadInProgress
    <3>3. CASE h # c.obj
      BY <2>1, <2>7, <3>2, <3>3 DEF InProgress
    <3>4. CASE h = c.obj
      <4>1. ToBeDequeued(h)'
        BY <1>6, <2>1, <2>6, <3>1, <3>4 DEF FailedOK
      <4>2. InCalls(h)' \/ \E e \in Errors : finishing'[h][e] > 0
        BY <4>1 DEF ToBeDequeued, InCalls, Threads
      <4> QED BY <4>2 DEF InProgress
    <3> QED BY <3>3, <3>4
  <2> QED BY <2>3, <2>4, <2>5, <2>6, <2>8, <2>9 DEF IInv
<1> QED BY <1>5, <1>6

-----------------------------------------------------------------------------
(* Answers *)

\* What onError does to the contexts.
LEMMA FailedFacts ==
  ASSUME IInv, NEW o \in Objectives, NEW e \in Errors, Failed(o, e)
  PROVE  /\ failed' \in [Objectives -> BOOLEAN]
         /\ finishing' \in [Objectives -> [Errors -> Nat]]
         /\ \A p \in Objectives \ {o} :
              failed'[p] = failed[p] /\ finishing'[p] = finishing[p]
         /\ \A x \in Errors : finishing[o][x] > 0 => finishing'[o][x] > 0
         /\ failed[o] \/ \E x \in Errors : finishing'[o][x] > 0
<1>1. failed' \in [Objectives -> BOOLEAN]
  BY DEF Failed, IInv, TypeOK
<1>2. \A p \in Objectives \ {o} : failed'[p] = failed[p]
  BY DEF Failed, IInv, TypeOK
<1>3. CASE failed[o]
  BY <1>1, <1>2, <1>3 DEF Failed, IInv, TypeOK
<1>4. CASE ~failed[o]
  <2>1. finishing' = [finishing EXCEPT ![o][e] = @ + 1]
    BY <1>4 DEF Failed
  <2>2. /\ finishing' \in [Objectives -> [Errors -> Nat]]
        /\ finishing'[o][e] = finishing[o][e] + 1
        /\ finishing[o][e] \in Nat
        /\ \A x \in Errors \ {e} : finishing'[o][x] = finishing[o][x]
        /\ \A p \in Objectives \ {o} : finishing'[p] = finishing[p]
    BY <2>1 DEF IInv, TypeOK
  <2>3. finishing'[o][e] > 0
    BY <2>2
  <2> QED BY <1>1, <1>2, <2>2, <2>3
<1> QED BY <1>3, <1>4

LEMMA ReportExpiredIInv ==
  ASSUME IInv, NEW o \in Objectives, ReportExpired(o)
  PROVE  IInv'
<1>1. Failed(o, "timeout") /\ "timeout" \in Errors
  BY DEF ReportExpired, Errors
<1>2. o \in submitted
  BY DEF ReportExpired, IInv, SubmittedOK, Unknown
<1>3. TypeOK' /\ \A p \in Objectives \ {o} : expired'[p] = expired[p]
  BY <1>1, FailedFacts
  DEF ReportExpired, IInv, TypeOK, pending, store, pipeline
<1> QED BY <1>1, <1>2, <1>3, FailedFacts, AnswerIInv
        DEF ReportExpired, pipeline

LEMMA NoPipelinerIInv ==
  ASSUME IInv, NEW o \in Objectives, NoPipeliner(o)
  PROVE  IInv'
<1>1. Failed(o, "other") /\ "other" \in Errors
  BY DEF NoPipeliner, Errors
<1>2. /\ tasks[o] \in Nat /\ tasks[o] > 0
      /\ handed[o] \in Nat /\ applied[o] \in Nat
  BY DEF NoPipeliner, IInv, TypeOK
<1>3. o \in submitted
  BY <1>2 DEF IInv, SubmittedOK, Unknown, InProgress
<1>4. TypeOK' /\ \A p \in Objectives \ {o} : tasks'[p] = tasks[p]
  <2>1. tasks' \in [Objectives -> Nat]
    BY <1>2 DEF NoPipeliner, IInv, TypeOK
  <2>2. \A p \in Objectives \ {o} : tasks'[p] = tasks[p]
    BY DEF NoPipeliner, IInv, TypeOK
  <2> QED BY <1>1, <2>1, <2>2, FailedFacts DEF NoPipeliner, IInv, TypeOK, pending, store
<1> QED BY <1>1, <1>3, <1>4, FailedFacts, AnswerIInv DEF NoPipeliner

LEMMA FailIInv ==
  ASSUME IInv, NEW o \in Objectives, Fail(o)
  PROVE  IInv'
<1>1. Failed(o, "other") /\ "other" \in Errors
  BY DEF Fail, Errors
<1>2. /\ handed[o] \in Nat /\ handed[o] > 0
      /\ tasks[o] \in Nat /\ applied[o] \in Nat
  BY DEF Fail, IInv, TypeOK
<1>3. o \in submitted
  BY <1>2 DEF IInv, SubmittedOK, Unknown, InProgress
<1>4. TypeOK' /\ \A p \in Objectives \ {o} : handed'[p] = handed[p]
  <2>1. handed' \in [Objectives -> Nat]
    BY <1>2 DEF Fail, IInv, TypeOK
  <2>2. \A p \in Objectives \ {o} : handed'[p] = handed[p]
    BY DEF Fail, IInv, TypeOK
  <2> QED BY <1>1, <2>1, <2>2, FailedFacts DEF Fail, IInv, TypeOK, pending, store
<1> QED BY <1>1, <1>3, <1>4, FailedFacts, AnswerIInv DEF Fail

\* What onSuccess does to the contexts.
LEMMA SucceededFacts ==
  ASSUME IInv, NEW o \in Objectives, Succeeded(o)
  PROVE  /\ failed' = failed
         /\ finishing' \in [Objectives -> [Errors -> Nat]]
         /\ \A p \in Objectives \ {o} : finishing'[p] = finishing[p]
         /\ \A x \in Errors : finishing[o][x] > 0 => finishing'[o][x] > 0
         /\ failed[o] \/ \E x \in Errors : finishing'[o][x] > 0
<1>1. CASE failed[o]
  BY <1>1 DEF Succeeded, IInv, TypeOK
<1>2. CASE ~failed[o]
  <2>1. /\ finishing' = [finishing EXCEPT ![o]["none"] = @ + 1]
        /\ failed' = failed /\ "none" \in Errors
    BY <1>2 DEF Succeeded, Errors
  <2>2. /\ finishing' \in [Objectives -> [Errors -> Nat]]
        /\ finishing'[o]["none"] = finishing[o]["none"] + 1
        /\ finishing[o]["none"] \in Nat
        /\ \A x \in Errors \ {"none"} : finishing'[o][x] = finishing[o][x]
        /\ \A p \in Objectives \ {o} : finishing'[p] = finishing[p]
    BY <2>1 DEF IInv, TypeOK
  <2>3. finishing'[o]["none"] > 0
    BY <2>2
  <2> QED BY <2>1, <2>2, <2>3
<1> QED BY <1>1, <1>2

LEMMA SucceedIInv ==
  ASSUME IInv, NEW o \in Objectives, Succeed(o)
  PROVE  IInv'
<1>1. Succeeded(o)
  BY DEF Succeed
<1>2. /\ handed' \in [Objectives -> Nat] /\ applied' \in [Objectives -> Nat]
      /\ \A p \in Objectives \ {o} :
           handed'[p] = handed[p] /\ applied'[p] = applied[p]
      /\ handed[o] > 0 \/ applied[o] > 0
  <2>1. CASE OpOf[o] \in {"add", "remove"}
    <3>1. applied[o] > 0 /\ applied' = [applied EXCEPT ![o] = @ - 1] /\ handed' = handed
      BY <2>1 DEF Succeed
    <3> QED BY <3>1 DEF IInv, TypeOK
  <2>2. CASE OpOf[o] \notin {"add", "remove"}
    <3>1. handed[o] > 0 /\ handed' = [handed EXCEPT ![o] = @ - 1] /\ applied' = applied
      BY <2>2 DEF Succeed
    <3> QED BY <3>1 DEF IInv, TypeOK
  <2> QED BY <2>1, <2>2
<1>3. tasks[o] \in Nat /\ handed[o] \in Nat /\ applied[o] \in Nat
  BY DEF IInv, TypeOK
<1>4. o \in submitted
  BY <1>2, <1>3 DEF IInv, SubmittedOK, Unknown, InProgress
<1>5. TypeOK'
  BY <1>1, <1>2, SucceededFacts DEF Succeed, IInv, TypeOK, pending, store
<1> QED BY <1>1, <1>2, <1>4, <1>5, SucceededFacts, AnswerIInv DEF Succeed

-----------------------------------------------------------------------------
(* The other steps *)

LEMMA EnqueueIInv ==
  ASSUME IInv, NEW o \in Objectives, Enqueue(o)
  PROVE  IInv'
<1> USE DEF pending, store, pipeline
<1>1. PICK k \in Keys : k = KeyOf[o]
  BY ConstantsAssumption
<1>2. PICK q : q = Append(queue[k], o)
  OBVIOUS
<1>3. queue[k] \in Seq(Objectives) /\ Len(queue[k]) \in Nat
  BY LenProperties DEF IInv, TypeOK
<1>4. /\ q \in Seq(Objectives) /\ q # << >>
      /\ Len(q) = Len(queue[k]) + 1
      /\ \A i \in 1..Len(queue[k]) : q[i] = queue[k][i]
      /\ q[Len(q)] = o
      /\ Objs(q) = Objs(queue[k]) \union {o}
  BY <1>2, <1>3, AppendProperties, ElementsOfAppend, ObjsIs
<1>5. o \notin submitted /\ o \notin Objs(queue[k]) /\ Unknown(o)
  BY DEF Enqueue, IInv, QueueOK, SubmittedOK
<1>6. /\ queue' = [queue EXCEPT ![k] = q]
      /\ submitted' = submitted \union {o}
      /\ calls["manager"] = << >>
      /\ calls' = [calls EXCEPT !["manager"] =
                     IF Len(q) = 1 THEN ExecuteAll(<<o>>) ELSE << >>]
  <2>1. queue' = [queue EXCEPT ![k] = q] /\ queue'[k] = q
    BY <1>1, <1>2 DEF Enqueue, IInv, TypeOK
  <2> QED BY <1>1, <2>1 DEF Enqueue
<1>7. /\ queue' \in [Keys -> Seq(Objectives)]
      /\ queue'[k] = q
      /\ \A j \in Keys \ {k} : queue'[j] = queue[j]
  BY <1>4, <1>6 DEF IInv, TypeOK
<1>8. <<o>> \in Seq(Objectives) /\ Objs(<<o>>) = {o}
  BY OneFacts
<1>9. /\ ExecuteAll(<<o>>) \in Seq(Calls)
      /\ Objs(ExecuteAll(<<o>>)) = {Call("execute", o, "none")}
  BY <1>8, ExecuteAllFacts
<1>10. /\ calls' \in [Threads -> Seq(Calls)]
       /\ calls'["notifier"] = calls["notifier"]
       /\ Len(q) = 1 => calls'["manager"] = ExecuteAll(<<o>>)
       /\ Len(q) # 1 => calls'["manager"] = << >>
  BY <1>6, <1>9, EmptySeq DEF IInv, TypeOK, Threads
<1>11. /\ Call("execute", o, "none").obj = o
       /\ Call("execute", o, "none").op = "execute"
  BY CallFacts DEF Errors
<1>12. /\ \A c \in Objs(calls'["manager"]) : c.op = "execute" /\ c.obj = o
       /\ Len(q) = 1 => \E c \in Objs(calls'["manager"]) : c.obj = o
       /\ Objs(calls["manager"]) = {}
  BY <1>6, <1>9, <1>10, <1>11, EmptyFacts
<1>13. TypeOK'
  BY <1>6, <1>7, <1>10 DEF Enqueue, IInv, TypeOK
<1>14. NotifierOK' /\ NoLostNotification'
  BY <1>10 DEF Enqueue, IInv, NotifierOK, NoLostNotification
<1>15. CallsOK'
  BY <1>10, <1>12 DEF IInv, CallsOK, Threads
<1>16. QueueOK'
  <2>1. Distinct(q)
    BY <1>3, <1>4, <1>5 DEF IInv, QueueOK, Distinct, Objs
  <2>2. \A p \in Objs(q) : KeyOf[p] = k /\ p \in submitted'
    BY <1>1, <1>4, <1>6 DEF IInv, QueueOK
  <2> QED BY <1>6, <1>7, <2>1, <2>2 DEF IInv, QueueOK
<1>17. /\ \A p \in Objectives \ {o} : InCalls(p)' <=> InCalls(p)
       /\ \A p \in Objectives : Pending(p)' <=> Pending(p)
  <2>1. \A p \in Objectives \ {o} : InCalls(p)' <=> InCalls(p)
    BY <1>10, <1>12 DEF InCalls, Threads
  <2>2. \A p \in Objectives : Pending(p)' <=> Pending(p)
    BY DEF Enqueue, Pending
  <2> QED BY <2>1, <2>2
<1>18. SubmittedOK'
  <2> SUFFICES ASSUME NEW p \in Objectives \ submitted' PROVE Unknown(p)'
    BY DEF SubmittedOK
  <2>1. p # o /\ Unknown(p)
    BY <1>6 DEF IInv, SubmittedOK
  <2> QED BY <1>17, <2>1 DEF Enqueue, Unknown, InProgress
<1>19. FailedOK'
  <2> SUFFICES ASSUME NEW p \in Objectives, failed[p],
                      p \in Objs(queue'[KeyOf[p]])
               PROVE  ToBeDequeued(p)'
    BY DEF FailedOK, Enqueue
  <2>1. p # o
    BY <1>5 DEF Unknown
  <2>2. p \in Objs(queue[KeyOf[p]])
    BY <1>4, <1>7, <2>1, ConstantsAssumption
  <2>3. ToBeDequeued(p)
    BY <2>2 DEF IInv, FailedOK
  <2> QED BY <1>12, <2>3 DEF ToBeDequeued, Enqueue
<1>20. HeadInProgress'
  <2> SUFFICES ASSUME NEW j \in Keys, queue'[j] # << >>
               PROVE  InProgress(queue[j][1])'
    BY DEF HeadInProgress
  <2>1. CASE j = k /\ queue[k] = << >>
    <3>1. Len(q) = 1 /\ q[1] = o
      BY <1>4, <2>1, EmptySeq
    <3>2. \E c \in Objs(calls'["manager"]) : c.obj = queue'[j][1]
      BY <1>7, <1>12, <2>1, <3>1
    <3> QED BY <3>2 DEF InProgress, InCalls, Threads
  <2>2. CASE ~(j = k /\ queue[k] = << >>)
    <3>1. queue[j] # << >> /\ queue'[j][1] = queue[j][1]
      BY <1>3, <1>4, <1>7, <2>2, EmptySeq
    <3>2. PICK h \in Objectives : h = queue[j][1] /\ h \in Objs(queue[j])
      <4>1. queue[j] \in Seq(Objectives)
        BY DEF IInv, TypeOK
      <4> QED BY <3>1, <4>1, ElementsTyped, ObjsIs
    <3>3. InProgress(h) /\ h \in submitted
      BY <3>1, <3>2 DEF IInv, HeadInProgress, QueueOK
    <3>4. h # o
      BY <1>5, <3>3
    <3>5. InProgress(h)'
      BY <1>17, <3>3, <3>4 DEF InProgress, Enqueue
    <3> QED BY <3>1, <3>2, <3>5 DEF InProgress, InCalls, Pending
  <2> QED BY <2>1, <2>2
<1> QED BY <1>13, <1>14, <1>15, <1>16, <1>18, <1>19, <1>20 DEF IInv

LEMMA ExecuteIInv ==
  ASSUME IInv, NEW t \in Threads, Execute(t)
  PROVE  IInv'
<1> USE DEF pending, store
<1>1. PICK c : c = Head(calls[t])
  OBVIOUS
<1>2. PICK rest : rest = Tail(calls[t])
  OBVIOUS
<1>3. PICK o : o = c.obj
  OBVIOUS
<1>4. PICK ready \in BOOLEAN : ready = (~Waits(o) \/ NextOf[o] \in groups)
  OBVIOUS
<1>5. PICK x : x = IF ready THEN << >> ELSE <<Call("queue", o, "none")>>
  OBVIOUS
<1>6. /\ calls[t] # << >> /\ c.op = "execute"
      /\ head' = [head EXCEPT ![KeyOf[o]] = o]
      /\ tasks' = [tasks EXCEPT ![o] = IF ready THEN @ + 1 ELSE @]
      /\ calls' = [calls EXCEPT ![t] = x \o rest]
      /\ UNCHANGED <<submitted, queue, failed, finishing, answers, expired,
                     pending, store, notifying, handed, applied>>
  BY <1>1, <1>2, <1>3, <1>4, <1>5 DEF Execute
<1>7. /\ o \in submitted /\ o \in Objectives /\ rest \in Seq(Calls)
      /\ Objs(calls[t]) = {c} \union Objs(rest)
  BY <1>1, <1>2, <1>3, <1>6, TailFacts
<1>8. /\ x \in Seq(Calls)
      /\ ready => Objs(x) = {}
      /\ ~ready => Objs(x) = {Call("queue", o, "none")}
  BY <1>5, <1>7, CallFacts, OneFacts, EmptyFacts, EmptySeq DEF Errors
<1>9. x \o rest \in Seq(Calls) /\ Objs(x \o rest) = Objs(x) \union Objs(rest)
  BY <1>7, <1>8, ConcatFacts
<1>10. /\ calls' \in [Threads -> Seq(Calls)]
       /\ Objs(calls'[t]) = Objs(x) \union Objs(rest)
       /\ \A u \in Threads \ {t} : calls'[u] = calls[u]
  BY <1>6, <1>9 DEF IInv, TypeOK
<1>11. /\ tasks' \in [Objectives -> Nat]
       /\ ready => tasks'[o] = tasks[o] + 1
       /\ \A p \in Objectives : tasks[p] \in Nat /\ tasks'[p] >= tasks[p]
       /\ \A p \in Objectives \ {o} : tasks'[p] = tasks[p]
  BY <1>6, <1>7 DEF IInv, TypeOK
<1>12. TypeOK'
  <2>1. head' \in [Keys -> Objectives \union {NoObjective}]
    BY <1>6, <1>7 DEF IInv, TypeOK
  <2> QED BY <1>6, <1>10, <1>11, <2>1 DEF IInv, TypeOK
<1>13. NoLostNotification'
  BY <1>6 DEF IInv, NoLostNotification
<1>14. NotifierOK'
  <2>1. t = "notifier" => notifying.phase # "forwards"
    BY <1>6 DEF IInv, NotifierOK
  <2> QED BY <1>6, <1>10, <2>1 DEF IInv, NotifierOK, Threads
<1>15. ~ready => /\ Call("queue", o, "none").op = "queue"
                 /\ Call("queue", o, "none").obj = o
                 /\ Waits(o)
  BY <1>4, <1>7, CallFacts DEF Errors
<1>16. CallsOK'
  BY <1>7, <1>8, <1>10, <1>15 DEF IInv, CallsOK
<1>17. \A d \in Objs(calls["manager"]) :
         d.op = "dequeue" => d \in Objs(calls'["manager"])
  BY <1>6, <1>7, <1>10 DEF Threads
<1>18. \A p \in Objectives : Pending(p)' <=> Pending(p)
  BY <1>6 DEF Pending
<1>19. \A p \in Objectives \ {o} : InCalls(p)' <=> InCalls(p)
  BY <1>3, <1>7, <1>8, <1>10, <1>15 DEF InCalls
<1>20. SubmittedOK'
  <2> SUFFICES ASSUME NEW p \in Objectives \ submitted PROVE Unknown(p)'
    BY <1>6 DEF SubmittedOK
  <2>1. p # o /\ Unknown(p)
    BY <1>7 DEF IInv, SubmittedOK
  <2>2. \A k \in Keys : head'[k] # p
    BY <1>6, <2>1 DEF Unknown, IInv, TypeOK
  <2> QED BY <1>6, <1>11, <1>18, <1>19, <2>1, <2>2 DEF Unknown, InProgress
<1>21. ASSUME NEW p \in Objectives, InProgress(p)
       PROVE  InProgress(p)'
  <2>1. CASE p # o
    BY <1>6, <1>11, <1>18, <1>19, <1>21, <2>1 DEF InProgress
  <2>2. CASE p = o /\ ready
    <3>1. /\ tasks'[o] \in Nat /\ handed'[o] \in Nat /\ applied'[o] \in Nat
          /\ tasks'[o] > 0
      BY <1>7, <1>11, <1>12, <2>2 DEF TypeOK
    <3> QED BY <2>2, <3>1 DEF InProgress
  <2>3. CASE p = o /\ ~ready
    <3>1. InCalls(p)'
      BY <1>8, <1>10, <1>15, <2>3 DEF InCalls
    <3> QED BY <3>1 DEF InProgress
  <2> QED BY <2>1, <2>2, <2>3
<1> QED BY <1>6, <1>12, <1>13, <1>14, <1>16, <1>17, <1>20, <1>21, ProgressIInv

LEMMA QueueObjectiveIInv ==
  ASSUME IInv, NEW t \in Threads, QueueObjective(t)
  PROVE  IInv'
<1> USE DEF pending, store, ordering
<1>1. PICK c : c = Head(calls[t])
  OBVIOUS
<1>2. PICK rest : rest = Tail(calls[t])
  OBVIOUS
<1>3. PICK o : o = c.obj
  OBVIOUS
<1>4. /\ calls[t] # << >> /\ c.op = "queue"
      /\ calls' = [calls EXCEPT ![t] = rest]
      /\ UNCHANGED <<submitted, queue, head, failed, finishing, answers, expired,
                     groups, eventQ, notifying, handed, applied>>
  BY <1>1, <1>2 DEF QueueObjective
<1>5. /\ o \in submitted /\ o \in Objectives /\ rest \in Seq(Calls)
      /\ Objs(calls[t]) = {c} \union Objs(rest)
  BY <1>1, <1>2, <1>3, <1>4, TailFacts
<1>6. PICK i \in NextIds : i = NextOf[o]
  <2>1. Waits(o)
    BY <1>3, <1>4, <1>5 DEF IInv, CallsOK
  <2> QED BY <1>5, <2>1, ConstantsAssumption DEF Waits
<1>7. \/ /\ tasks' = [tasks EXCEPT ![o] = @ + 1]
         /\ UNCHANGED <<pendingForwards, pendingNexts>>
      \/ /\ i \notin groups
         /\ pendingForwards' = [pendingForwards EXCEPT ![i] =
              IF o \in Objs(@) THEN @ ELSE Append(@, o)]
         /\ UNCHANGED <<pendingNexts, tasks>>
      \/ /\ i \notin groups
         /\ pendingNexts' = [pendingNexts EXCEPT ![i] = Append(@, o)]
         /\ UNCHANGED <<pendingForwards, tasks>>
  BY <1>1, <1>3, <1>6 DEF QueueObjective, FoundAgain
<1>8. /\ calls' \in [Threads -> Seq(Calls)]
      /\ Objs(calls'[t]) = Objs(rest)
      /\ \A u \in Threads \ {t} : calls'[u] = calls[u]
  BY <1>4, <1>5 DEF IInv, TypeOK
<1>9. /\ pendingForwards[i] \in Seq(Objectives) /\ pendingNexts[i] \in Seq(Objectives)
      /\ Append(pendingForwards[i], o) \in Seq(Objectives)
      /\ Append(pendingNexts[i], o) \in Seq(Objectives)
      /\ Objs(Append(pendingForwards[i], o)) = Objs(pendingForwards[i]) \union {o}
      /\ Objs(Append(pendingNexts[i], o)) = Objs(pendingNexts[i]) \union {o}
  BY <1>5, AppendProperties, ElementsOfAppend, ObjsIs DEF IInv, TypeOK
<1>10. /\ tasks' \in [Objectives -> Nat]
       /\ \A p \in Objectives : tasks[p] \in Nat /\ tasks'[p] >= tasks[p]
       /\ \A p \in Objectives \ {o} : tasks'[p] = tasks[p]
  <2>1. CASE tasks' = tasks
    BY <2>1 DEF IInv, TypeOK
  <2>2. CASE tasks' = [tasks EXCEPT ![o] = @ + 1]
    BY <1>5, <2>2 DEF IInv, TypeOK
  <2> QED BY <1>7, <2>1, <2>2
<1>11. /\ pendingForwards' \in [NextIds -> Seq(Objectives)]
       /\ pendingNexts' \in [NextIds -> Seq(Objectives)]
  <2>1. CASE UNCHANGED <<pendingForwards, pendingNexts>>
    BY <2>1 DEF IInv, TypeOK
  <2>2. CASE /\ pendingForwards' = [pendingForwards EXCEPT ![i] =
                  IF o \in Objs(@) THEN @ ELSE Append(@, o)]
             /\ UNCHANGED pendingNexts
    BY <1>9, <2>2 DEF IInv, TypeOK
  <2>3. CASE /\ pendingNexts' = [pendingNexts EXCEPT ![i] = Append(@, o)]
             /\ UNCHANGED pendingForwards
    BY <1>9, <2>3 DEF IInv, TypeOK
  <2> QED BY <1>7, <2>1, <2>2, <2>3
<1>12. TypeOK'
  BY <1>4, <1>8, <1>10, <1>11 DEF IInv, TypeOK
<1>13. /\ \A j \in NextIds \ {i} : /\ pendingForwards'[j] = pendingForwards[j]
                                   /\ pendingNexts'[j] = pendingNexts[j]
       /\ i \in groups => /\ pendingForwards'[i] = pendingForwards[i]
                          /\ pendingNexts'[i] = pendingNexts[i]
  BY <1>7 DEF IInv, TypeOK
<1>14. /\ Objs(pendingForwards'[i]) \in
            {Objs(pendingForwards[i]), Objs(pendingForwards[i]) \union {o}}
       /\ Objs(pendingNexts'[i]) \in
            {Objs(pendingNexts[i]), Objs(pendingNexts[i]) \union {o}}
       /\ \/ tasks'[o] = tasks[o] + 1
          \/ o \in Objs(pendingForwards'[i]) \union Objs(pendingNexts'[i])
  <2>1. CASE /\ tasks' = [tasks EXCEPT ![o] = @ + 1]
             /\ UNCHANGED <<pendingForwards, pendingNexts>>
    BY <1>5, <2>1 DEF IInv, TypeOK
  <2>2. CASE /\ pendingForwards' = [pendingForwards EXCEPT ![i] =
                  IF o \in Objs(@) THEN @ ELSE Append(@, o)]
             /\ UNCHANGED <<pendingNexts, tasks>>
    <3>1. pendingForwards'[i] = IF o \in Objs(pendingForwards[i])
                                THEN pendingForwards[i]
                                ELSE Append(pendingForwards[i], o)
      BY <2>2 DEF IInv, TypeOK
    <3>2. Objs(pendingForwards'[i]) = Objs(pendingForwards[i]) \union {o}
      BY <1>9, <3>1
    <3> QED BY <2>2, <3>2
  <2>3. CASE /\ pendingNexts' = [pendingNexts EXCEPT ![i] = Append(@, o)]
             /\ UNCHANGED <<pendingForwards, tasks>>
    <3>1. pendingNexts'[i] = Append(pendingNexts[i], o)
      BY <2>3 DEF IInv, TypeOK
    <3> QED BY <1>9, <2>3, <3>1
  <2> QED BY <1>7, <2>1, <2>2, <2>3
<1>16. NoLostNotification'
  BY <1>4, <1>13 DEF IInv, TypeOK, NoLostNotification
<1>17. NotifierOK'
  <2>1. t = "notifier" => notifying.phase # "forwards"
    BY <1>4 DEF IInv, NotifierOK
  <2> QED BY <1>4, <1>8, <2>1 DEF IInv, NotifierOK, Threads
<1>18. CallsOK'
  BY <1>5, <1>8 DEF IInv, CallsOK
<1>19. \A d \in Objs(calls["manager"]) :
         d.op = "dequeue" => d \in Objs(calls'["manager"])
  BY <1>4, <1>5, <1>8 DEF Threads
<1>20. \A p \in Objectives \ {o} : Pending(p)' <=> Pending(p)
  BY <1>13, <1>14 DEF Pending
<1>21. \A p \in Objectives \ {o} : InCalls(p)' <=> InCalls(p)
  BY <1>3, <1>5, <1>8 DEF InCalls
<1>22. SubmittedOK'
  <2> SUFFICES ASSUME NEW p \in Objectives \ submitted PROVE Unknown(p)'
    BY <1>4 DEF SubmittedOK
  <2>1. p # o /\ Unknown(p)
    BY <1>5 DEF IInv, SubmittedOK
  <2> QED BY <1>4, <1>10, <1>20, <1>21, <2>1 DEF Unknown, InProgress
<1>23. ASSUME NEW p \in Objectives, InProgress(p)
       PROVE  InProgress(p)'
  <2>1. CASE p # o
    BY <1>4, <1>10, <1>20, <1>21, <1>23, <2>1 DEF InProgress
  <2>2. CASE p = o /\ tasks'[o] = tasks[o] + 1
    <3>1. /\ tasks'[o] \in Nat /\ handed'[o] \in Nat /\ applied'[o] \in Nat
          /\ tasks'[o] > 0
      BY <1>5, <1>10, <1>12, <2>2 DEF TypeOK
    <3> QED BY <2>2, <3>1 DEF InProgress
  <2>3. CASE p = o /\ o \in Objs(pendingForwards'[i]) \union Objs(pendingNexts'[i])
    <3>1. Pending(p)'
      BY <2>3 DEF Pending
    <3> QED BY <3>1 DEF InProgress
  <2> QED BY <1>14, <2>1, <2>2, <2>3
<1> QED BY <1>4, <1>12, <1>16, <1>17, <1>18, <1>19, <1>22, <1>23, ProgressIInv

LEMMA ExpireIInv ==
  ASSUME IInv, NEW k \in Keys, Expire(k)
  PROVE  IInv'
<1> USE DEF pending, store, pipeline
<1>1. head[k] \in Objectives /\ head[k] \in submitted
  BY DEF Expire, IInv, TypeOK, SubmittedOK, Unknown
<1>2. TypeOK'
  BY <1>1 DEF Expire, IInv, TypeOK
<1>3. NotifierOK' /\ NoLostNotification' /\ CallsOK'
  BY DEF Expire, IInv, NotifierOK, NoLostNotification, CallsOK
<1>4. \A p \in Objectives : InProgress(p)' <=> InProgress(p)
  BY DEF Expire, InProgress, InCalls, Pending
<1>5. SubmittedOK'
  <2> SUFFICES ASSUME NEW p \in Objectives \ submitted PROVE Unknown(p)'
    BY DEF SubmittedOK, Expire
  <2>1. Unknown(p) /\ p # head[k] /\ p # NoObjective
    BY <1>1, ConstantsAssumption DEF IInv, SubmittedOK
  <2>2. \A j \in Keys : head'[j] # p
    BY <2>1 DEF Expire, IInv, TypeOK, Unknown
  <2>3. expired'[p] = "no"
    BY <1>1, <2>1 DEF Expire, IInv, TypeOK, Unknown
  <2> QED BY <1>4, <2>1, <2>2, <2>3 DEF Unknown, Expire
<1> QED BY <1>2, <1>3, <1>4, <1>5, ProgressIInv DEF Expire

\* Steps that touch neither calls nor pending objectives nor the cache, and
\* leave as many of an objective in the pipeline as there are.
LEMMA QuietIInv ==
  ASSUME IInv, TypeOK', NoLostNotification', NotifierOK',
         UNCHANGED <<ordering, expired, calls, pending>>,
         \A p \in Objectives : tasks'[p] + handed'[p] + applied'[p]
                                 = tasks[p] + handed[p] + applied[p]
  PROVE  IInv'
<1> USE DEF ordering, pending
<1>1. CallsOK'
  BY DEF IInv, CallsOK
<1>2. \A p \in Objectives : InProgress(p)' <=> InProgress(p)
  <2>1. \A p \in Objectives : (InCalls(p)' <=> InCalls(p)) /\ (Pending(p)' <=> Pending(p))
    BY DEF InCalls, Pending
  <2> QED BY <2>1 DEF InProgress
<1>3. SubmittedOK'
  BY <1>2 DEF IInv, SubmittedOK, Unknown
<1> QED BY <1>1, <1>2, <1>3, ProgressIInv

LEMMA TakeEventIInv ==
  ASSUME IInv, TakeEvent
  PROVE  IInv'
<1> USE DEF pipeline
<1>1. /\ Head(eventQ) \in NextIds /\ Tail(eventQ) \in Seq(NextIds)
      /\ Objs(eventQ) = {Head(eventQ)} \union Objs(Tail(eventQ))
  BY ElementsOfTail, ObjsIs DEF TakeEvent, IInv, TypeOK
<1>2. TypeOK'
  BY <1>1 DEF TakeEvent, IInv, TypeOK, ordering, pending
<1>3. NoLostNotification'
  BY <1>1 DEF TakeEvent, IInv, NoLostNotification, pending
<1>4. NotifierOK'
  BY <1>1 DEF TakeEvent, NotifierOK
<1> QED BY <1>2, <1>3, <1>4, QuietIInv DEF TakeEvent

LEMMA ProcessIInv ==
  ASSUME IInv, NEW o \in Objectives, Process(o)
  PROVE  IInv'
<1> USE DEF store
<1>1. /\ tasks' \in [Objectives -> Nat] /\ handed' \in [Objectives -> Nat]
      /\ \A p \in Objectives : tasks'[p] + handed'[p] + applied'[p]
                                 = tasks[p] + handed[p] + applied[p]
  <2>1. /\ tasks[o] > 0 /\ tasks' = [tasks EXCEPT ![o] = @ - 1]
        /\ handed' = [handed EXCEPT ![o] = @ + 1] /\ applied' = applied
    BY DEF Process
  <2>2. \A p \in Objectives : tasks[p] \in Nat /\ handed[p] \in Nat /\ applied[p] \in Nat
    BY DEF IInv, TypeOK
  <2>3. tasks' \in [Objectives -> Nat] /\ handed' \in [Objectives -> Nat]
    BY <2>1, <2>2 DEF IInv, TypeOK
  <2>4. /\ tasks'[o] = tasks[o] - 1 /\ handed'[o] = handed[o] + 1
        /\ \A p \in Objectives \ {o} : tasks'[p] = tasks[p] /\ handed'[p] = handed[p]
    BY <2>1 DEF IInv, TypeOK
  <2>5. \A p \in Objectives : tasks'[p] + handed'[p] = tasks[p] + handed[p]
    BY <2>2, <2>4
  <2> QED BY <2>1, <2>2, <2>3, <2>5
<1>2. TypeOK'
  BY <1>1 DEF Process, IInv, TypeOK, ordering, pending
<1>3. NoLostNotification' /\ NotifierOK'
  BY DEF Process, IInv, NoLostNotification, NotifierOK, pending
<1> QED BY <1>1, <1>2, <1>3, QuietIInv DEF Process

LEMMA ApplyIInv ==
  ASSUME IInv, NEW o \in Objectives, Apply(o)
  PROVE  IInv'
<1>1. /\ handed' \in [Objectives -> Nat] /\ applied' \in [Objectives -> Nat]
      /\ \A p \in Objectives : tasks'[p] + handed'[p] + applied'[p]
                                 = tasks[p] + handed[p] + applied[p]
  <2>1. /\ handed[o] > 0 /\ handed' = [handed EXCEPT ![o] = @ - 1]
        /\ applied' = [applied EXCEPT ![o] = @ + 1] /\ tasks' = tasks
    BY DEF Apply
  <2>2. \A p \in Objectives : handed[p] \in Nat /\ applied[p] \in Nat /\ tasks[p] \in Nat
    BY DEF IInv, TypeOK
  <2>3. handed' \in [Objectives -> Nat] /\ applied' \in [Objectives -> Nat]
    BY <2>1, <2>2 DEF IInv, TypeOK
  <2>4. /\ handed'[o] = handed[o] - 1 /\ applied'[o] = applied[o] + 1
        /\ \A p \in Objectives \ {o} : handed'[p] = handed[p] /\ applied'[p] = applied[p]
    BY <2>1 DEF IInv, TypeOK
  <2>5. \A p \in Objectives : handed'[p] + applied'[p] = handed[p] + applied[p]
    BY <2>2, <2>4
  <2> QED BY <2>1, <2>2, <2>3, <2>5
<1>2. NextOf[o] \in NextIds
  BY ConstantsAssumption DEF Apply, NextOps
<1>3. eventQ \in Seq(NextIds)
  BY DEF IInv, TypeOK
<1>4. /\ Append(eventQ, NextOf[o]) \in Seq(NextIds)
      /\ Objs(Append(eventQ, NextOf[o])) = Objs(eventQ) \union {NextOf[o]}
  BY <1>2, <1>3, AppendProperties, ElementsOfAppend, ObjsIs
<1>5. groups' \subseteq NextIds /\ eventQ' \in Seq(NextIds)
  BY <1>2, <1>3, <1>4 DEF Apply, IInv, TypeOK
<1>6. TypeOK'
  BY <1>1, <1>5 DEF Apply, IInv, TypeOK, ordering, pending
<1>7. NotifierOK'
  BY DEF Apply, IInv, NotifierOK
<1>8. /\ Objs(eventQ) \subseteq Objs(eventQ')
      /\ \A i \in groups' \ groups : i \in Objs(eventQ')
  BY <1>4 DEF Apply
<1>9. NoLostNotification'
  BY <1>8 DEF Apply, IInv, NoLostNotification, pending
<1> QED BY <1>1, <1>6, <1>7, <1>9, QuietIInv DEF Apply

\* notify turns the objectives that wait for its group into calls of execute.
LEMMA ReleaseFacts ==
  ASSUME IInv, NEW s \in Seq(Objectives),
         calls["notifier"] = << >>,
         calls' = [calls EXCEPT !["notifier"] = ExecuteAll(s)],
         \A p \in Objs(s) : Pending(p)
  PROVE  /\ calls' \in [Threads -> Seq(Calls)]
         /\ calls'["manager"] = calls["manager"]
         /\ calls'["notifier"] = ExecuteAll(s)
         /\ CallsOK'
         /\ \A p \in Objectives : /\ InCalls(p) => InCalls(p)'
                                  /\ p \in Objs(s) => InCalls(p)'
                                  /\ InCalls(p)' => InCalls(p) \/ p \in Objs(s)
<1>1. /\ ExecuteAll(s) \in Seq(Calls)
      /\ Objs(ExecuteAll(s)) = {Call("execute", o, "none") : o \in Objs(s)}
      /\ Objs(s) \subseteq Objectives
  BY ExecuteAllFacts, ElementsTyped, ObjsIs
<1>2. \A o \in Objs(s) : /\ Call("execute", o, "none").op = "execute"
                         /\ Call("execute", o, "none").obj = o
  BY <1>1, CallFacts DEF Errors
<1>3. /\ calls' \in [Threads -> Seq(Calls)]
      /\ calls'["manager"] = calls["manager"]
      /\ calls'["notifier"] = ExecuteAll(s)
  BY <1>1 DEF IInv, TypeOK, Threads
<1>4. \A c \in Objs(calls'["notifier"]) : c.op = "execute" /\ c.obj \in Objs(s)
  BY <1>1, <1>2, <1>3
<1>5. \A p \in Objs(s) : \E c \in Objs(calls'["notifier"]) : c.obj = p
  BY <1>1, <1>2, <1>3
<1>6. Objs(calls["notifier"]) = {}
  BY EmptyFacts
<1>7. CallsOK'
  BY <1>3, <1>4 DEF IInv, CallsOK, Threads
<1>8. \A p \in Objectives : /\ InCalls(p) => InCalls(p)'
                            /\ p \in Objs(s) => InCalls(p)'
                            /\ InCalls(p)' => InCalls(p) \/ p \in Objs(s)
  BY <1>3, <1>4, <1>5, <1>6 DEF InCalls, Threads
<1> QED BY <1>3, <1>7, <1>8

LEMMA NotifyForwardsIInv ==
  ASSUME IInv, NotifyForwards
  PROVE  IInv'
<1> USE DEF ordering, store, pipeline
<1>1. PICK i \in NextIds : i = notifying.id
  BY DEF NotifyForwards, IInv, NotifierOK
<1>2. PICK s \in Seq(Objectives) : s = pendingForwards[i]
  BY DEF IInv, TypeOK
<1>3. \A p \in Objs(s) : Pending(p)
  BY <1>2 DEF Pending
<1>4. /\ calls["notifier"] = << >>
      /\ calls' = [calls EXCEPT !["notifier"] = ExecuteAll(s)]
      /\ pendingForwards' = [pendingForwards EXCEPT ![i] = << >>]
      /\ notifying.phase = "forwards"
      /\ notifying' = [notifying EXCEPT !.phase = "nexts"]
      /\ UNCHANGED <<ordering, expired, pendingNexts, store, pipeline>>
  BY <1>1, <1>2 DEF NotifyForwards, IInv, NotifierOK
<1>5. /\ pendingForwards' \in [NextIds -> Seq(Objectives)]
      /\ pendingForwards'[i] = << >>
      /\ \A j \in NextIds \ {i} : pendingForwards'[j] = pendingForwards[j]
  BY <1>4, EmptySeq DEF IInv, TypeOK
<1>6. /\ notifying' \in [phase : {"idle", "forwards", "nexts"},
                         id : NextIds \union {NoNext}]
      /\ notifying'.phase = "nexts" /\ notifying'.id = i
  BY <1>1, <1>4 DEF IInv, TypeOK
<1>7. /\ calls' \in [Threads -> Seq(Calls)]
      /\ calls'["manager"] = calls["manager"]
      /\ CallsOK'
      /\ \A p \in Objectives : /\ InCalls(p) => InCalls(p)'
                               /\ p \in Objs(s) => InCalls(p)'
                               /\ InCalls(p)' => InCalls(p) \/ p \in Objs(s)
  BY <1>3, <1>4, ReleaseFacts
<1>8. TypeOK'
  BY <1>4, <1>5, <1>6, <1>7 DEF IInv, TypeOK
<1>9. NotifierOK'
  BY <1>6 DEF NotifierOK
<1>10. NoLostNotification'
  BY <1>1, <1>4, <1>5, <1>6 DEF IInv, TypeOK, NoLostNotification
<1>11. \A p \in Objectives : /\ Pending(p)' => Pending(p)
                             /\ Pending(p) => Pending(p)' \/ p \in Objs(s)
  BY <1>2, <1>4, <1>5, EmptyFacts DEF Pending
<1>12. \A p \in Objectives : /\ InProgress(p) => InProgress(p)'
                             /\ InProgress(p)' => InProgress(p)
  BY <1>3, <1>4, <1>7, <1>11 DEF InProgress
<1>13. SubmittedOK'
  BY <1>4, <1>12 DEF IInv, SubmittedOK, Unknown
<1> QED BY <1>4, <1>7, <1>8, <1>9, <1>10, <1>12, <1>13, ProgressIInv

LEMMA NotifyNextsIInv ==
  ASSUME IInv, NotifyNexts
  PROVE  IInv'
<1> USE DEF ordering, store, pipeline
<1>1. PICK i \in NextIds : i = notifying.id
  BY DEF NotifyNexts, IInv, NotifierOK
<1>2. PICK s \in Seq(Objectives) : s = pendingNexts[i]
  BY DEF IInv, TypeOK
<1>3. \A p \in Objs(s) : Pending(p)
  BY <1>2 DEF Pending
<1>4. /\ calls["notifier"] = << >>
      /\ calls' = [calls EXCEPT !["notifier"] = ExecuteAll(s)]
      /\ pendingNexts' = [pendingNexts EXCEPT ![i] = << >>]
      /\ notifying.phase = "nexts"
      /\ notifying' = [phase |-> "idle", id |-> NoNext]
      /\ UNCHANGED <<ordering, expired, pendingForwards, store, pipeline>>
  BY <1>1, <1>2 DEF NotifyNexts
<1>5. /\ pendingNexts' \in [NextIds -> Seq(Objectives)]
      /\ pendingNexts'[i] = << >>
      /\ \A j \in NextIds \ {i} : pendingNexts'[j] = pendingNexts[j]
  BY <1>4, EmptySeq DEF IInv, TypeOK
<1>6. /\ notifying' \in [phase : {"idle", "forwards", "nexts"},
                         id : NextIds \union {NoNext}]
      /\ notifying'.phase = "idle"
  BY <1>4
<1>7. /\ calls' \in [Threads -> Seq(Calls)]
      /\ calls'["manager"] = calls["manager"]
      /\ CallsOK'
      /\ \A p \in Objectives : /\ InCalls(p) => InCalls(p)'
                               /\ p \in Objs(s) => InCalls(p)'
                               /\ InCalls(p)' => InCalls(p) \/ p \in Objs(s)
  BY <1>3, <1>4, ReleaseFacts
<1>8. TypeOK'
  BY <1>4, <1>5, <1>6, <1>7 DEF IInv, TypeOK
<1>9. NotifierOK'
  BY <1>6 DEF NotifierOK
<1>10. NoLostNotification'
  BY <1>1, <1>4, <1>5, <1>6 DEF IInv, TypeOK, NoLostNotification
<1>11. \A p \in Objectives : /\ Pending(p)' => Pending(p)
                             /\ Pending(p) => Pending(p)' \/ p \in Objs(s)
  BY <1>2, <1>4, <1>5, EmptyFacts DEF Pending
<1>12. \A p \in Objectives : /\ InProgress(p) => InProgress(p)'
                             /\ InProgress(p)' => InProgress(p)
  BY <1>3, <1>4, <1>7, <1>11 DEF InProgress
<1>13. SubmittedOK'
  BY <1>4, <1>12 DEF IInv, SubmittedOK, Unknown
<1> QED BY <1>4, <1>7, <1>8, <1>9, <1>10, <1>12, <1>13, ProgressIInv

LEMMA InitIInv == Init => IInv
<1> SUFFICES ASSUME Init PROVE IInv
  OBVIOUS
<1>1. TypeOK
  BY EmptySeq DEF Init, TypeOK, Threads
<1>2. /\ \A k \in Keys : queue[k] = << >> /\ Objs(queue[k]) = {}
      /\ \A t \in Threads : Objs(calls[t]) = {}
      /\ \A i \in NextIds : /\ Objs(pendingForwards[i]) = {}
                            /\ Objs(pendingNexts[i]) = {}
  BY EmptyFacts DEF Init
<1>3. NotifierOK /\ CallsOK /\ HeadInProgress
  BY <1>2 DEF Init, NotifierOK, CallsOK, HeadInProgress
<1>4. NoLostNotification
  BY DEF Init, NoLostNotification
<1>5. QueueOK
  BY <1>2, EmptySeq DEF QueueOK, Distinct
<1>6. FailedOK
  BY DEF Init, FailedOK
<1>7. SubmittedOK
  <2>1. \A o \in Objectives : ~InCalls(o) /\ ~Pending(o)
    BY <1>2 DEF InCalls, Pending
  <2>2. \A o \in Objectives : ~(tasks[o] + handed[o] + applied[o] > 0)
    <3> SUFFICES ASSUME NEW o \in Objectives
                 PROVE  ~(tasks[o] + handed[o] + applied[o] > 0)
      OBVIOUS
    <3>1. tasks[o] = 0 /\ handed[o] = 0 /\ applied[o] = 0
      BY DEF Init
    <3>2. ~(0 + 0 + 0 > 0)
      OBVIOUS
    <3> QED BY <3>1, <3>2
  <2>3. \A o \in Objectives : \A e \in Errors : ~(finishing[o][e] > 0)
    BY DEF Init
  <2> QED BY <2>1, <2>2, <2>3, ConstantsAssumption
          DEF Init, SubmittedOK, Unknown, InProgress
<1> QED BY <1>1, <1>3, <1>4, <1>5, <1>6, <1>7 DEF IInv

LEMMA StutterIInv == IInv /\ UNCHANGED vars => IInv'
<1> SUFFICES ASSUME IInv, UNCHANGED vars PROVE IInv'
  OBVIOUS
<1> USE DEF vars, ordering, pending, store, pipeline
<1>1. TypeOK' /\ NotifierOK' /\ NoLostNotification'
  BY DEF IInv, TypeOK, NotifierOK, NoLostNotification
<1> QED BY <1>1, QuietIInv

LEMMA Invariance == Spec => []IInv
<1>1. IInv /\ [Next]_vars => IInv'
  <2> SUFFICES ASSUME IInv, [Next]_vars PROVE IInv'
    OBVIOUS
  <2>1. ASSUME NEW o \in Objectives, Enqueue(o) PROVE IInv'
    BY <2>1, EnqueueIInv
  <2>2. ASSUME NEW t \in Threads, Execute(t) PROVE IInv'
    BY <2>2, ExecuteIInv
  <2>3. ASSUME NEW t \in Threads, QueueObjective(t) PROVE IInv'
    BY <2>3, QueueObjectiveIInv
  <2>4. ASSUME NEW o \in Objectives, NEW e \in Errors, StartDequeue(o, e) PROVE IInv'
    BY <2>4, StartDequeueIInv
  <2>5. ASSUME NEW k \in Keys, Expire(k) PROVE IInv'
    BY <2>5, ExpireIInv
  <2>6. ASSUME NEW o \in Objectives, ReportExpired(o) PROVE IInv'
    BY <2>6, ReportExpiredIInv
  <2>7. ASSUME NEW o \in Objectives, Process(o) PROVE IInv'
    BY <2>7, ProcessIInv
  <2>8. ASSUME NEW o \in Objectives, NoPipeliner(o) PROVE IInv'
    BY <2>8, NoPipelinerIInv
  <2>9. ASSUME NEW o \in Objectives, Apply(o) PROVE IInv'
    BY <2>9, ApplyIInv
  <2>10. ASSUME NEW o \in Objectives, Succeed(o) PROVE IInv'
    BY <2>10, SucceedIInv
  <2>11. ASSUME NEW o \in Objectives, Fail(o) PROVE IInv'
    BY <2>11, FailIInv
  <2>12. CASE FinishDequeue
    BY <2>12, FinishDequeueIInv
  <2>13. CASE PendingError
    BY <2>13, PendingErrorIInv
  <2>14. CASE TakeEvent
    BY <2>14, TakeEventIInv
  <2>15. CASE NotifyForwards
    BY <2>15, NotifyForwardsIInv
  <2>16. CASE NotifyNexts
    BY <2>16, NotifyNextsIInv
  <2>17. CASE UNCHANGED vars
    BY <2>17, StutterIInv
  <2> QED BY <2>1, <2>2, <2>3, <2>4, <2>5, <2>6, <2>7, <2>8, <2>9, <2>10, <2>11,
             <2>12, <2>13, <2>14, <2>15, <2>16, <2>17 DEF Next
<1> QED BY <1>1, InitIInv, PTL DEF Spec

\* Every variable keeps its type.
THEOREM TypeCorrect == Spec => []TypeOK
<1>1. IInv => TypeOK
  BY DEF IInv
<1> QED BY <1>1, Invariance, PTL

\* No objective misses the notification of its group: the double check of
\* queueFwdObjective and queueNextObjective suffices.
THEOREM Notified == Spec => []NoLostNotification
<1>1. IInv => NoLostNotification
  BY DEF IInv
<1> QED BY <1>1, Invariance, PTL

\* No queue is left with nobody to take its head out, whatever answers, errors
\* and timeouts come in which order (dequeue and InOrderObjectiveContext).
THEOREM QueuesMove == Spec => []HeadInProgress
<1>1. IInv => HeadInProgress
  BY DEF IInv
<1> QED BY <1>1, Invariance, PTL

=============================================================================

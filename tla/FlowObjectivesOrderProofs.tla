---------------------- MODULE FlowObjectivesOrderProofs ----------------------
(***************************************************************************)
(* Objectives of a queue key are executed one at a time, for every set of  *)
(* objectives, keys and next groups, as long as no objective of the key    *)
(* has timed out.                                                          *)
(*                                                                         *)
(* OneAtATime is not inductive.  When an objective is dequeued, nothing    *)
(* else may keep it in execution, so the invariant adds that an objective  *)
(* is in one place at a time, and there once: a task of the installer      *)
(* pool, with the pipeliner, answered, called by one of the two threads or *)
(* waiting for a group (Alone).  No place is ever lost to an answer that   *)
(* is dropped, since what has failed is only left to be dequeued           *)
(* (Settled).  What waits is found under its group and where its kind      *)
(* waits (PendingOK), so it is released or failed once.                    *)
(***************************************************************************)
EXTENDS FlowObjectivesProofs

OnceIn(q, o) == \A i, j \in 1..Len(q) : q[i] = o /\ q[j] = o => i = j

OnceCalled(s, o) ==
  \A i, j \in 1..Len(s) : s[i].obj = o /\ s[j].obj = o => i = j

Called(s, o) == \E c \in Objs(s) : c.obj = o

InPipeline(o) == tasks[o] + handed[o] + applied[o]

Weight(o) ==
  InPipeline(o)
  + finishing[o]["none"] + finishing[o]["timeout"] + finishing[o]["other"]

\* What waits for a group is found under it, forwards and nexts apart.
PendingOK ==
  \A i \in NextIds :
    /\ \A o \in Objs(pendingForwards[i]) : OpOf[o] = "forward" /\ NextOf[o] = i
    /\ \A o \in Objs(pendingNexts[i]) : OpOf[o] # "forward" /\ NextOf[o] = i

\* The objective is in one place of its execution at most.
Alone(o) ==
  /\ Weight(o) <= 1
  /\ Weight(o) > 0 => ~InCalls(o) /\ ~Pending(o)
  /\ InCalls(o) => ~Pending(o)
  /\ ~(Called(calls["manager"], o) /\ Called(calls["notifier"], o))
  /\ \A t \in Threads : OnceCalled(calls[t], o)
  /\ \A i \in NextIds : OnceIn(pendingForwards[i], o) /\ OnceIn(pendingNexts[i], o)

\* An objective that has failed is only left to be dequeued.
Settled(o) ==
  failed[o] =>
    /\ InPipeline(o) = 0
    /\ ~Pending(o)
    /\ \A t \in Threads : \A c \in Objs(calls[t]) : c.obj = o => c.op = "dequeue"

First(o) == queue[KeyOf[o]] # << >> /\ queue[KeyOf[o]][1] = o

Ordered(o) ==
  ~Lapsed(KeyOf[o]) => /\ Alone(o)
                       /\ Settled(o)
                       /\ InProgress(o) => First(o)

OInv == PendingOK /\ \A o \in Objectives : Ordered(o)

-----------------------------------------------------------------------------
(* Sequences in which an objective occurs once *)

LEMMA EmptyOnce ==
  ASSUME NEW o
  PROVE  /\ OnceIn(<< >>, o) /\ OnceCalled(<< >>, o)
         /\ ~Called(<< >>, o)
<1>1. 1..Len(<< >>) = {}
  OBVIOUS
<1> QED BY <1>1, EmptyFacts DEF OnceIn, OnceCalled, Called

LEMMA OneOnce ==
  ASSUME NEW c \in Calls, NEW o
  PROVE  /\ <<c>> \in Seq(Calls)
         /\ OnceCalled(<<c>>, o)
         /\ Called(<<c>>, o) <=> c.obj = o
<1>1. <<c>> \in Seq(Calls) /\ Objs(<<c>>) = {c} /\ Len(<<c>>) = 1
  BY OneFacts
<1> QED BY <1>1 DEF OnceCalled, Called

LEMMA ConcatOnce ==
  ASSUME NEW s \in Seq(Calls), NEW t \in Seq(Calls), NEW o
  PROVE  /\ s \o t \in Seq(Calls)
         /\ Called(s \o t, o) <=> Called(s, o) \/ Called(t, o)
         /\ OnceCalled(s, o) /\ OnceCalled(t, o) /\ ~(Called(s, o) /\ Called(t, o))
              => OnceCalled(s \o t, o)
<1>1. s \o t \in Seq(Calls) /\ Objs(s \o t) = Objs(s) \union Objs(t)
  BY ConcatFacts
<1>2. Called(s \o t, o) <=> Called(s, o) \/ Called(t, o)
  BY <1>1 DEF Called
<1>3. ASSUME OnceCalled(s, o), OnceCalled(t, o), ~(Called(s, o) /\ Called(t, o))
      PROVE  OnceCalled(s \o t, o)
  <2>1. /\ Len(s) \in Nat /\ Len(t) \in Nat
        /\ Len(s \o t) = Len(s) + Len(t)
        /\ \A i \in 1..Len(s) + Len(t) :
             (s \o t)[i] = IF i <= Len(s) THEN s[i] ELSE t[i - Len(s)]
    BY ConcatProperties, LenProperties
  <2> SUFFICES ASSUME NEW i \in 1..Len(s) + Len(t), NEW j \in 1..Len(s) + Len(t),
                      (s \o t)[i].obj = o, (s \o t)[j].obj = o
               PROVE  i = j
    BY <2>1 DEF OnceCalled
  <2>2. \A k \in 1..Len(s) : s[k].obj = o => Called(s, o)
    BY DEF Called, Objs
  <2>3. \A k \in 1..Len(t) : t[k].obj = o => Called(t, o)
    BY DEF Called, Objs
  <2>4. CASE i <= Len(s) /\ j <= Len(s)
    BY <1>3, <2>1, <2>4 DEF OnceCalled
  <2>5. CASE i > Len(s) /\ j > Len(s)
    <3>1. i - Len(s) \in 1..Len(t) /\ j - Len(s) \in 1..Len(t)
      BY <2>1, <2>5
    <3>2. t[i - Len(s)].obj = o /\ t[j - Len(s)].obj = o
      BY <2>1, <2>5
    <3>3. i - Len(s) = j - Len(s)
      BY <1>3, <3>1, <3>2 DEF OnceCalled
    <3> QED BY <2>1, <3>3
  <2>6. CASE i <= Len(s) /\ j > Len(s)
    <3>1. i \in 1..Len(s) /\ j - Len(s) \in 1..Len(t)
      BY <2>1, <2>6
    <3>2. s[i].obj = o /\ t[j - Len(s)].obj = o
      BY <2>1, <2>6
    <3> QED BY <1>3, <2>2, <2>3, <3>1, <3>2
  <2>7. CASE i > Len(s) /\ j <= Len(s)
    <3>1. j \in 1..Len(s) /\ i - Len(s) \in 1..Len(t)
      BY <2>1, <2>7
    <3>2. s[j].obj = o /\ t[i - Len(s)].obj = o
      BY <2>1, <2>7
    <3> QED BY <1>3, <2>2, <2>3, <3>1, <3>2
  <2> QED BY <2>1, <2>4, <2>5, <2>6, <2>7
<1> QED BY <1>1, <1>2, <1>3

LEMMA TailOnce ==
  ASSUME NEW s \in Seq(Calls), s # << >>, NEW o, OnceCalled(s, o)
  PROVE  /\ OnceCalled(Tail(s), o)
         /\ Head(s).obj = o => ~Called(Tail(s), o)
<1>1. /\ Len(s) \in Nat \ {0} /\ Head(s) = s[1]
      /\ Len(Tail(s)) = Len(s) - 1
      /\ \A i \in 1..Len(Tail(s)) : Tail(s)[i] = s[i + 1]
  BY EmptySeq, HeadTailProperties
<1>2. \A i \in 1..Len(Tail(s)) : i + 1 \in 1..Len(s)
  BY <1>1
<1>3. OnceCalled(Tail(s), o)
  <2> SUFFICES ASSUME NEW i \in 1..Len(Tail(s)), NEW j \in 1..Len(Tail(s)),
                      Tail(s)[i].obj = o, Tail(s)[j].obj = o
               PROVE  i = j
    BY DEF OnceCalled
  <2>1. s[i + 1].obj = o /\ s[j + 1].obj = o
    BY <1>1
  <2>2. i + 1 = j + 1
    BY <1>2, <2>1 DEF OnceCalled
  <2> QED BY <1>1, <2>2
<1>4. ASSUME Head(s).obj = o PROVE ~Called(Tail(s), o)
  <2> SUFFICES ASSUME NEW i \in 1..Len(Tail(s)), Tail(s)[i].obj = o PROVE FALSE
    BY DEF Called, Objs
  <2>1. s[i + 1].obj = o /\ s[1].obj = o /\ 1 \in 1..Len(s)
    BY <1>1, <1>4
  <2>2. i + 1 = 1
    BY <1>2, <2>1 DEF OnceCalled
  <2> QED BY <1>1, <2>2
<1> QED BY <1>3, <1>4

\* Calls made for every objective of s are as often for o as o is in s.
LEMMA CallsForOnce ==
  ASSUME NEW s \in Seq(Objectives), NEW f \in Seq(Calls), Len(f) = Len(s),
         \A i \in 1..Len(s) : f[i].obj = s[i], NEW o
  PROVE  /\ OnceIn(s, o) => OnceCalled(f, o)
         /\ Called(f, o) <=> o \in Objs(s)
<1>1. OnceIn(s, o) => OnceCalled(f, o)
  BY DEF OnceIn, OnceCalled
<1>2. Called(f, o) <=> o \in Objs(s)
  BY DEF Called, Objs
<1> QED BY <1>1, <1>2

LEMMA ExecuteAllOnce ==
  ASSUME NEW s \in Seq(Objectives), NEW o
  PROVE  /\ OnceIn(s, o) => OnceCalled(ExecuteAll(s), o)
         /\ Called(ExecuteAll(s), o) <=> o \in Objs(s)
<1>1. Len(s) \in Nat /\ \A i \in 1..Len(s) : s[i] \in Objectives
  BY LenProperties, ElementOfSeq
<1>2. ExecuteAll(s) \in [1..Len(s) -> Calls]
  BY <1>1, CallFacts DEF ExecuteAll, Errors
<1>3. ExecuteAll(s) \in Seq(Calls) /\ Len(ExecuteAll(s)) = Len(s)
  BY <1>1, <1>2, FunctionSeq
<1>4. \A i \in 1..Len(s) : ExecuteAll(s)[i].obj = s[i]
  BY <1>1, CallFacts DEF ExecuteAll, Errors
<1> QED BY <1>3, <1>4, CallsForOnce

LEMMA ErrorCallsOnce ==
  ASSUME NEW s \in Seq(Objectives), NEW e \in Errors, NEW f,
         f = [j \in 1..Len(s) |-> Call("onError", s[j], e)], NEW o
  PROVE  /\ OnceIn(s, o) => OnceCalled(f, o)
         /\ Called(f, o) <=> o \in Objs(s)
<1>1. Len(s) \in Nat /\ \A i \in 1..Len(s) : s[i] \in Objectives
  BY LenProperties, ElementOfSeq
<1>2. f \in [1..Len(s) -> Calls]
  BY <1>1, CallFacts
<1>3. f \in Seq(Calls) /\ Len(f) = Len(s)
  BY <1>1, <1>2, FunctionSeq
<1>4. \A i \in 1..Len(s) : f[i].obj = s[i]
  BY <1>1, CallFacts
<1> QED BY <1>3, <1>4, CallsForOnce

LEMMA ConcatOnceIn ==
  ASSUME NEW s \in Seq(Objectives), NEW t \in Seq(Objectives), NEW o,
         OnceIn(s, o), OnceIn(t, o), ~(o \in Objs(s) /\ o \in Objs(t))
  PROVE  OnceIn(s \o t, o)
<1>1. /\ Len(s) \in Nat /\ Len(t) \in Nat
      /\ Len(s \o t) = Len(s) + Len(t)
      /\ \A i \in 1..Len(s) + Len(t) :
           (s \o t)[i] = IF i <= Len(s) THEN s[i] ELSE t[i - Len(s)]
  BY ConcatProperties, LenProperties
<1> SUFFICES ASSUME NEW i \in 1..Len(s) + Len(t), NEW j \in 1..Len(s) + Len(t),
                    (s \o t)[i] = o, (s \o t)[j] = o
             PROVE  i = j
  BY <1>1 DEF OnceIn
<1>2. \A k \in 1..Len(s) : s[k] = o => o \in Objs(s)
  BY DEF Objs
<1>3. \A k \in 1..Len(t) : t[k] = o => o \in Objs(t)
  BY DEF Objs
<1>4. CASE i <= Len(s) /\ j <= Len(s)
  BY <1>1, <1>4 DEF OnceIn
<1>5. CASE i > Len(s) /\ j > Len(s)
  <2>1. i - Len(s) \in 1..Len(t) /\ j - Len(s) \in 1..Len(t)
    BY <1>1, <1>5
  <2>2. t[i - Len(s)] = o /\ t[j - Len(s)] = o
    BY <1>1, <1>5
  <2>3. i - Len(s) = j - Len(s)
    BY <2>1, <2>2 DEF OnceIn
  <2> QED BY <1>1, <2>3
<1>6. CASE i <= Len(s) /\ j > Len(s)
  <2>1. i \in 1..Len(s) /\ j - Len(s) \in 1..Len(t)
    BY <1>1, <1>6
  <2>2. s[i] = o /\ t[j - Len(s)] = o
    BY <1>1, <1>6
  <2> QED BY <1>2, <1>3, <2>1, <2>2
<1>7. CASE i > Len(s) /\ j <= Len(s)
  <2>1. j \in 1..Len(s) /\ i - Len(s) \in 1..Len(t)
    BY <1>1, <1>7
  <2>2. s[j] = o /\ t[i - Len(s)] = o
    BY <1>1, <1>7
  <2> QED BY <1>2, <1>3, <2>1, <2>2
<1> QED BY <1>1, <1>4, <1>5, <1>6, <1>7

LEMMA AppendOnceIn ==
  ASSUME NEW s \in Seq(Objectives), NEW o \in Objectives, NEW p,
         OnceIn(s, p), p = o => o \notin Objs(s)
  PROVE  OnceIn(Append(s, o), p)
<1>1. /\ Len(s) \in Nat
      /\ Len(Append(s, o)) = Len(s) + 1
      /\ \A i \in 1..Len(s) : Append(s, o)[i] = s[i]
      /\ Append(s, o)[Len(s) + 1] = o
  BY AppendProperties, LenProperties
<1> QED BY <1>1 DEF OnceIn, Objs

-----------------------------------------------------------------------------
(* Places of an objective *)

LEMMA WeightFacts ==
  ASSUME TypeOK, NEW o \in Objectives
  PROVE  /\ InPipeline(o) \in Nat /\ Weight(o) \in Nat
         /\ InPipeline(o) > 0 => Weight(o) > 0
         /\ \A e \in Errors : finishing[o][e] \in Nat
         /\ \A e \in Errors : finishing[o][e] > 0 => Weight(o) > 0
         /\ InProgress(o) <=> Weight(o) > 0 \/ InCalls(o) \/ Pending(o)
<1>1. /\ tasks[o] \in Nat /\ handed[o] \in Nat /\ applied[o] \in Nat
      /\ \A e \in Errors : finishing[o][e] \in Nat
  BY DEF TypeOK
<1>2. /\ finishing[o]["none"] \in Nat /\ finishing[o]["timeout"] \in Nat
      /\ finishing[o]["other"] \in Nat
  BY <1>1 DEF Errors
<1>3. /\ InPipeline(o) \in Nat /\ Weight(o) \in Nat
      /\ InPipeline(o) > 0 => Weight(o) > 0
  BY <1>1, <1>2 DEF InPipeline, Weight
<1>4. \A e \in Errors : finishing[o][e] > 0 => Weight(o) > 0
  BY <1>1, <1>2 DEF InPipeline, Weight, Errors
<1>5. Weight(o) > 0 => \/ tasks[o] + handed[o] + applied[o] > 0
                       \/ \E e \in Errors : finishing[o][e] > 0
  BY <1>1, <1>2 DEF InPipeline, Weight, Errors
<1>6. InProgress(o) <=> Weight(o) > 0 \/ InCalls(o) \/ Pending(o)
  BY <1>3, <1>4, <1>5 DEF InProgress, InPipeline
<1> QED BY <1>1, <1>3, <1>4, <1>6

LEMMA CalledFacts ==
  ASSUME NEW o
  PROVE  InCalls(o) <=> Called(calls["manager"], o) \/ Called(calls["notifier"], o)
BY DEF InCalls, Called, Threads

\* A step after which an objective is in no place it was not in before.
LEMMA KeptOrdered ==
  ASSUME TypeOK, TypeOK', NEW p \in Objectives, Ordered(p),
         Lapsed(KeyOf[p]) => Lapsed(KeyOf[p])',
         failed'[p] = failed[p],
         tasks'[p] = tasks[p], handed'[p] = handed[p], applied'[p] = applied[p],
         finishing'[p] = finishing[p],
         \A t \in Threads :
            /\ OnceCalled(calls[t], p) => OnceCalled(calls'[t], p)
            /\ \A c \in Objs(calls'[t]) : c.obj = p => c \in Objs(calls[t]),
         \A i \in NextIds :
            /\ OnceIn(pendingForwards[i], p) => OnceIn(pendingForwards'[i], p)
            /\ OnceIn(pendingNexts[i], p) => OnceIn(pendingNexts'[i], p)
            /\ p \in Objs(pendingForwards'[i]) => p \in Objs(pendingForwards[i])
            /\ p \in Objs(pendingNexts'[i]) => p \in Objs(pendingNexts[i]),
         ~Lapsed(KeyOf[p]) /\ InProgress(p) /\ First(p) => First(p)'
  PROVE  Ordered(p)'
<1> SUFFICES ASSUME ~Lapsed(KeyOf[p])'
             PROVE  Alone(p)' /\ Settled(p)' /\ (InProgress(p)' => First(p)')
  BY DEF Ordered
<1>1. ~Lapsed(KeyOf[p]) /\ Alone(p) /\ Settled(p) /\ (InProgress(p) => First(p))
  BY DEF Ordered
<1>2. InPipeline(p)' = InPipeline(p) /\ Weight(p)' = Weight(p)
  BY DEF InPipeline, Weight
<1>3. \A t \in Threads : Called(calls'[t], p) => Called(calls[t], p)
  BY DEF Called
<1>4. InCalls(p)' => InCalls(p)
  BY DEF InCalls
<1>5. Pending(p)' => Pending(p)
  BY DEF Pending
<1>6. InProgress(p)' => InProgress(p)
  BY <1>2, <1>4, <1>5 DEF InProgress
<1>7. Alone(p)'
  BY <1>1, <1>2, <1>3, <1>4, <1>5 DEF Alone, Threads
<1>8. Settled(p)'
  BY <1>1, <1>2, <1>5 DEF Settled
<1> QED BY <1>1, <1>6, <1>7, <1>8

LEMMA SumZero ==
  ASSUME NEW a \in Nat, NEW b \in Nat, NEW c \in Nat,
         NEW d \in Nat, NEW e \in Nat, NEW f \in Nat, a + b + c + d + e + f = 0
  PROVE  a = 0 /\ b = 0 /\ c = 0 /\ d = 0 /\ e = 0 /\ f = 0
  OBVIOUS

\* A step after which an objective is in no place at all.
LEMMA GoneOrdered ==
  ASSUME TypeOK', NEW p \in Objectives,
         ~Lapsed(KeyOf[p])' =>
            /\ Weight(p)' = 0
            /\ \A t \in Threads : ~Called(calls'[t], p) /\ OnceCalled(calls'[t], p)
            /\ ~Pending(p)'
            /\ \A i \in NextIds : /\ OnceIn(pendingForwards'[i], p)
                                  /\ OnceIn(pendingNexts'[i], p)
  PROVE  Ordered(p)'
<1> SUFFICES ASSUME ~Lapsed(KeyOf[p])'
             PROVE  Alone(p)' /\ Settled(p)' /\ (InProgress(p)' => First(p)')
  BY DEF Ordered
<1>1. \A t \in Threads : ~Called(calls'[t], p)
  OBVIOUS
<1>2. ~InCalls(p)'
  BY <1>1 DEF InCalls, Called
<1>3. /\ tasks'[p] \in Nat /\ handed'[p] \in Nat /\ applied'[p] \in Nat
      /\ finishing'[p]["none"] \in Nat /\ finishing'[p]["timeout"] \in Nat
      /\ finishing'[p]["other"] \in Nat
  BY DEF TypeOK, Errors
<1>b. tasks'[p] + handed'[p] + applied'[p] + finishing'[p]["none"]
      + finishing'[p]["timeout"] + finishing'[p]["other"] = 0
  BY DEF Weight, InPipeline
<1>c. /\ tasks'[p] = 0 /\ handed'[p] = 0 /\ applied'[p] = 0
      /\ finishing'[p]["none"] = 0 /\ finishing'[p]["timeout"] = 0
      /\ finishing'[p]["other"] = 0
  <2> DEFINE a == tasks'[p]   b == handed'[p]   c == applied'[p]
             d == finishing'[p]["none"]   e == finishing'[p]["timeout"]
             f == finishing'[p]["other"]
  <2>1. /\ a \in Nat /\ b \in Nat /\ c \in Nat /\ d \in Nat /\ e \in Nat /\ f \in Nat
        /\ a + b + c + d + e + f = 0
    BY <1>3, <1>b
  <2> HIDE DEF a, b, c, d, e, f
  <2>2. a = 0 /\ b = 0 /\ c = 0 /\ d = 0 /\ e = 0 /\ f = 0
    BY <2>1, SumZero
  <2> QED BY <2>2 DEF a, b, c, d, e, f
<1>4. /\ InPipeline(p)' = 0
      /\ tasks'[p] = 0 /\ handed'[p] = 0 /\ applied'[p] = 0
      /\ \A e \in Errors : finishing'[p][e] = 0
  BY <1>c DEF InPipeline, Errors
<1>a. ~InProgress(p)'
  BY <1>2, <1>4 DEF InProgress
<1>5. Alone(p)'
  BY <1>1, <1>2 DEF Alone, Threads
<1>6. Settled(p)'
  BY <1>1, <1>4 DEF Settled, Called
<1> QED BY <1>a, <1>5, <1>6

LEMMA LapsedLasts ==
  ASSUME NEW k, Lapsed(k), UNCHANGED expired
  PROVE  Lapsed(k)'
BY DEF Lapsed

-----------------------------------------------------------------------------
(* Steps that leave calls, queues and what waits alone *)

\* A step of the installer pool, the pipeliner or the executor of cache events:
\* it moves an objective from one place to another, or ends one.
LEMMA PlaceOrdered ==
  ASSUME IInv, TypeOK', OInv, NEW o \in Objectives,
         UNCHANGED <<queue, calls, pending>>,
         \A k \in Keys : Lapsed(k) => Lapsed(k)',
         \A p \in Objectives \ {o} :
            /\ failed'[p] = failed[p] /\ finishing'[p] = finishing[p]
            /\ tasks'[p] = tasks[p] /\ handed'[p] = handed[p]
            /\ applied'[p] = applied[p],
         ~Lapsed(KeyOf[o])' /\ Alone(o) /\ Settled(o) =>
            /\ Weight(o) > 0
            /\ Weight(o)' <= 1
            /\ failed'[o] => InPipeline(o)' = 0
  PROVE  OInv'
<1> USE DEF pending
<1>1. PendingOK'
  BY DEF OInv, PendingOK
<1>2. ASSUME NEW p \in Objectives, p # o PROVE Ordered(p)'
  <2>1. Ordered(p) /\ TypeOK /\ KeyOf[p] \in Keys
    BY ConstantsAssumption DEF OInv, IInv
  <2>2. First(p) => First(p)'
    BY DEF First
  <2> QED BY <1>2, <2>1, <2>2, KeptOrdered
<1>3. Ordered(o)'
  <2> SUFFICES ASSUME ~Lapsed(KeyOf[o])'
               PROVE  Alone(o)' /\ Settled(o)' /\ First(o)'
    BY DEF Ordered
  <2>1. /\ Alone(o) /\ Settled(o) /\ (InProgress(o) => First(o))
        /\ TypeOK
    BY ConstantsAssumption DEF OInv, Ordered, IInv
  <2>2. /\ Weight(o) > 0 /\ Weight(o)' <= 1
        /\ failed'[o] => InPipeline(o)' = 0
    BY <2>1
  <2>3. ~InCalls(o) /\ ~Pending(o)
    BY <2>1, <2>2 DEF Alone
  <2>4. InProgress(o)
    BY <2>1, <2>2, WeightFacts
  <2>5. ~InCalls(o)' /\ ~Pending(o)'
    BY <2>3 DEF InCalls, Pending
  <2>6. Alone(o)'
    BY <2>1, <2>2, <2>5 DEF Alone, Called, OnceCalled, OnceIn
  <2>7. Settled(o)'
    BY <2>2, <2>5 DEF Settled, InCalls
  <2> QED BY <2>1, <2>4, <2>6, <2>7 DEF First
<1> QED BY <1>1, <1>2, <1>3 DEF OInv

\* A step that no objective notices.
LEMMA QuietOrdered ==
  ASSUME IInv, TypeOK', OInv,
         UNCHANGED <<queue, calls, pending, failed, finishing, pipeline>>,
         \A k \in Keys : Lapsed(k) => Lapsed(k)'
  PROVE  OInv'
<1> USE DEF pending, pipeline
<1>1. PendingOK'
  BY DEF OInv, PendingOK
<1>2. ASSUME NEW p \in Objectives PROVE Ordered(p)'
  <2>1. Ordered(p) /\ TypeOK /\ KeyOf[p] \in Keys
    BY ConstantsAssumption DEF OInv, IInv
  <2>2. First(p) => First(p)'
    BY DEF First
  <2> QED BY <2>1, <2>2, KeptOrdered
<1> QED BY <1>1, <1>2 DEF OInv

LEMMA ExpireOrdered ==
  ASSUME IInv, IInv', OInv, NEW k \in Keys, Expire(k)
  PROVE  OInv'
<1>1. \A j \in Keys : Lapsed(j) => Lapsed(j)'
  <2> SUFFICES ASSUME NEW o \in Objectives, expired[o] # "no"
               PROVE  expired'[o] # "no"
    BY DEF Lapsed
  <2>1. expired'[o] \in {expired[o], "queued"}
    BY DEF Expire, IInv, TypeOK
  <2> QED BY <2>1
<1> QED BY <1>1, QuietOrdered DEF Expire, IInv

LEMMA TakeEventOrdered ==
  ASSUME IInv, IInv', OInv, TakeEvent
  PROVE  OInv'
<1>1. \A k \in Keys : Lapsed(k) => Lapsed(k)'
  BY LapsedLasts DEF TakeEvent
<1> QED BY <1>1, QuietOrdered DEF TakeEvent, IInv, ordering

LEMMA StutterOrdered ==
  ASSUME IInv, IInv', OInv, UNCHANGED vars
  PROVE  OInv'
<1>1. \A k \in Keys : Lapsed(k) => Lapsed(k)'
  BY LapsedLasts DEF vars
<1> QED BY <1>1, QuietOrdered DEF vars, IInv, ordering

LEMMA ReportExpiredOrdered ==
  ASSUME IInv, IInv', OInv, NEW o \in Objectives, ReportExpired(o)
  PROVE  OInv'
<1>1. expired \in [Objectives -> {"no", "queued", "reported"}]
  BY DEF IInv, TypeOK
<1>2. expired' = [expired EXCEPT ![o] = "reported"]
  BY DEF ReportExpired
<1>3. \A k \in Keys : Lapsed(k) => Lapsed(k)'
  BY <1>1, <1>2 DEF Lapsed
<1>4. Lapsed(KeyOf[o])'
  BY <1>1, <1>2 DEF Lapsed
<1>5. \A p \in Objectives \ {o} :
         failed'[p] = failed[p] /\ finishing'[p] = finishing[p]
  BY FailedFacts DEF ReportExpired, Errors
<1> QED BY <1>3, <1>4, <1>5, PlaceOrdered DEF ReportExpired, pipeline, IInv

LEMMA ProcessOrdered ==
  ASSUME IInv, IInv', OInv, NEW o \in Objectives, Process(o)
  PROVE  OInv'
<1>0. TypeOK /\ TypeOK'
  BY DEF IInv
<1>1. \A k \in Keys : Lapsed(k) => Lapsed(k)'
  BY LapsedLasts DEF Process
<1>2. /\ tasks[o] \in Nat /\ tasks[o] > 0 /\ handed[o] \in Nat /\ applied[o] \in Nat
      /\ tasks'[o] = tasks[o] - 1 /\ handed'[o] = handed[o] + 1
      /\ applied'[o] = applied[o] /\ finishing' = finishing /\ failed' = failed
      /\ \A p \in Objectives \ {o} : /\ tasks'[p] = tasks[p]
                                     /\ handed'[p] = handed[p]
                                     /\ applied'[p] = applied[p]
  BY <1>0 DEF Process, TypeOK, ordering
<1>3. InPipeline(o)' = InPipeline(o) /\ InPipeline(o) > 0
  BY <1>2 DEF InPipeline
<1>4. Weight(o)' = Weight(o) /\ Weight(o) > 0
  BY <1>0, <1>2, <1>3, WeightFacts DEF Weight
<1>5. Alone(o) /\ Settled(o) => /\ Weight(o) > 0
                                /\ Weight(o)' <= 1
                                /\ failed'[o] => InPipeline(o)' = 0
  BY <1>2, <1>3, <1>4 DEF Alone, Settled
<1> QED BY <1>0, <1>1, <1>2, <1>5, PlaceOrdered DEF Process, ordering, pending

LEMMA ApplyOrdered ==
  ASSUME IInv, IInv', OInv, NEW o \in Objectives, Apply(o)
  PROVE  OInv'
<1>0. TypeOK /\ TypeOK'
  BY DEF IInv
<1>1. \A k \in Keys : Lapsed(k) => Lapsed(k)'
  BY LapsedLasts DEF Apply
<1>2. /\ handed[o] \in Nat /\ handed[o] > 0 /\ tasks[o] \in Nat /\ applied[o] \in Nat
      /\ handed'[o] = handed[o] - 1 /\ applied'[o] = applied[o] + 1
      /\ tasks'[o] = tasks[o] /\ finishing' = finishing /\ failed' = failed
      /\ \A p \in Objectives \ {o} : /\ tasks'[p] = tasks[p]
                                     /\ handed'[p] = handed[p]
                                     /\ applied'[p] = applied[p]
  BY <1>0 DEF Apply, TypeOK, ordering
<1>3. InPipeline(o)' = InPipeline(o) /\ InPipeline(o) > 0
  BY <1>2 DEF InPipeline
<1>4. Weight(o)' = Weight(o) /\ Weight(o) > 0
  BY <1>0, <1>2, <1>3, WeightFacts DEF Weight
<1>5. Alone(o) /\ Settled(o) => /\ Weight(o) > 0
                                /\ Weight(o)' <= 1
                                /\ failed'[o] => InPipeline(o)' = 0
  BY <1>2, <1>3, <1>4 DEF Alone, Settled
<1> QED BY <1>0, <1>1, <1>2, <1>5, PlaceOrdered DEF Apply, ordering, pending

Answering(o) ==
  finishing[o]["none"] + finishing[o]["timeout"] + finishing[o]["other"]

LEMMA WeightIs ==
  ASSUME TypeOK, NEW o \in Objectives
  PROVE  /\ InPipeline(o) \in Nat /\ Answering(o) \in Nat
         /\ Weight(o) = InPipeline(o) + Answering(o)
<1>1. /\ tasks[o] \in Nat /\ handed[o] \in Nat /\ applied[o] \in Nat
      /\ finishing[o]["none"] \in Nat /\ finishing[o]["timeout"] \in Nat
      /\ finishing[o]["other"] \in Nat
  BY DEF TypeOK, Errors
<1> QED BY <1>1 DEF InPipeline, Answering, Weight

LEMMA WeightIsAfter ==
  ASSUME TypeOK', NEW o \in Objectives
  PROVE  /\ InPipeline(o)' \in Nat /\ Answering(o)' \in Nat
         /\ Weight(o)' = InPipeline(o)' + Answering(o)'
<1>1. /\ tasks'[o] \in Nat /\ handed'[o] \in Nat /\ applied'[o] \in Nat
      /\ finishing'[o]["none"] \in Nat /\ finishing'[o]["timeout"] \in Nat
      /\ finishing'[o]["other"] \in Nat
  BY DEF TypeOK, Errors
<1> QED BY <1>1 DEF InPipeline, Answering, Weight

\* One more thread is about to dequeue o with error e.
LEMMA AnsweringGrows ==
  ASSUME TypeOK, NEW o \in Objectives, NEW e \in Errors,
         finishing' = [finishing EXCEPT ![o][e] = @ + 1]
  PROVE  /\ Answering(o)' = Answering(o) + 1
         /\ \A p \in Objectives \ {o} : finishing'[p] = finishing[p]
<1>1. /\ finishing'[o][e] = finishing[o][e] + 1
      /\ \A x \in Errors \ {e} : finishing'[o][x] = finishing[o][x]
      /\ \A p \in Objectives \ {o} : finishing'[p] = finishing[p]
  BY DEF TypeOK
<1>2. /\ finishing[o]["none"] \in Nat /\ finishing[o]["timeout"] \in Nat
      /\ finishing[o]["other"] \in Nat
  BY DEF TypeOK, Errors
<1> QED BY <1>1, <1>2 DEF Answering, Errors

\* One of those threads goes on.
LEMMA AnsweringShrinks ==
  ASSUME TypeOK, NEW o \in Objectives, NEW e \in Errors,
         finishing' = [finishing EXCEPT ![o][e] = @ - 1]
  PROVE  /\ Answering(o)' = Answering(o) - 1
         /\ \A p \in Objectives \ {o} : finishing'[p] = finishing[p]
<1>1. /\ finishing'[o][e] = finishing[o][e] - 1
      /\ \A x \in Errors \ {e} : finishing'[o][x] = finishing[o][x]
      /\ \A p \in Objectives \ {o} : finishing'[p] = finishing[p]
  BY DEF TypeOK
<1>2. /\ finishing[o]["none"] \in Nat /\ finishing[o]["timeout"] \in Nat
      /\ finishing[o]["other"] \in Nat
  BY DEF TypeOK, Errors
<1> QED BY <1>1, <1>2 DEF Answering, Errors

\* The processor or the pipeliner is done with o and the context is told: unless
\* it has failed before, a thread goes on to dequeue o.
LEMMA AnswerOrdered ==
  ASSUME IInv, TypeOK', OInv, NEW o \in Objectives,
         UNCHANGED <<queue, calls, pending, expired>>,
         \A p \in Objectives \ {o} :
            /\ tasks'[p] = tasks[p] /\ handed'[p] = handed[p]
            /\ applied'[p] = applied[p],
         InPipeline(o) > 0, InPipeline(o)' = InPipeline(o) - 1,
         Succeeded(o) \/ \E e \in Errors : Failed(o, e)
  PROVE  OInv'
<1>0. TypeOK /\ failed \in [Objectives -> BOOLEAN]
  BY DEF IInv, TypeOK
<1>1. \A k \in Keys : Lapsed(k) => Lapsed(k)'
  BY LapsedLasts
<1>2. \A p \in Objectives \ {o} :
         failed'[p] = failed[p] /\ finishing'[p] = finishing[p]
  BY FailedFacts, SucceededFacts
<1>3. Weight(o) > 0
  BY <1>0, WeightIs
<1>4. ASSUME Alone(o), Settled(o)
      PROVE  Weight(o)' <= 1 /\ (failed'[o] => InPipeline(o)' = 0)
  <2>1. ~failed[o] /\ InPipeline(o) = 1 /\ Answering(o) = 0
    BY <1>0, <1>4, WeightIs DEF Alone, Settled
  <2>2. Answering(o)' = 1
    <3>1. CASE Succeeded(o)
      <4>1. finishing' = [finishing EXCEPT ![o]["none"] = @ + 1] /\ "none" \in Errors
        BY <2>1, <3>1 DEF Succeeded, Errors
      <4>2. Answering(o)' = Answering(o) + 1
        BY <1>0, <4>1, AnsweringGrows
      <4> QED BY <2>1, <4>2
    <3>2. ASSUME NEW e \in Errors, Failed(o, e) PROVE Answering(o)' = 1
      <4>1. finishing' = [finishing EXCEPT ![o][e] = @ + 1]
        BY <2>1, <3>2 DEF Failed
      <4>2. Answering(o)' = Answering(o) + 1
        BY <1>0, <4>1, AnsweringGrows
      <4> QED BY <2>1, <4>2
    <3> QED BY <3>1, <3>2
  <2> QED BY <2>1, <2>2, WeightIsAfter
<1> QED BY <1>1, <1>2, <1>3, <1>4, PlaceOrdered

LEMMA NoPipelinerOrdered ==
  ASSUME IInv, IInv', OInv, NEW o \in Objectives, NoPipeliner(o)
  PROVE  OInv'
<1>1. /\ tasks[o] \in Nat /\ tasks[o] > 0 /\ handed[o] \in Nat /\ applied[o] \in Nat
      /\ tasks'[o] = tasks[o] - 1 /\ UNCHANGED <<handed, applied>>
      /\ \A p \in Objectives \ {o} : tasks'[p] = tasks[p]
  BY DEF NoPipeliner, IInv, TypeOK
<1>2. InPipeline(o) > 0 /\ InPipeline(o)' = InPipeline(o) - 1
  BY <1>1 DEF InPipeline
<1>3. Failed(o, "other") /\ "other" \in Errors
  BY DEF NoPipeliner, Errors
<1> QED BY <1>1, <1>2, <1>3, AnswerOrdered DEF NoPipeliner, IInv

LEMMA FailOrdered ==
  ASSUME IInv, IInv', OInv, NEW o \in Objectives, Fail(o)
  PROVE  OInv'
<1>1. /\ handed[o] \in Nat /\ handed[o] > 0 /\ tasks[o] \in Nat /\ applied[o] \in Nat
      /\ handed'[o] = handed[o] - 1 /\ UNCHANGED <<tasks, applied>>
      /\ \A p \in Objectives \ {o} : handed'[p] = handed[p]
  BY DEF Fail, IInv, TypeOK
<1>2. InPipeline(o) > 0 /\ InPipeline(o)' = InPipeline(o) - 1
  BY <1>1 DEF InPipeline
<1>3. Failed(o, "other") /\ "other" \in Errors
  BY DEF Fail, Errors
<1> QED BY <1>1, <1>2, <1>3, AnswerOrdered DEF Fail, IInv

LEMMA SucceedOrdered ==
  ASSUME IInv, IInv', OInv, NEW o \in Objectives, Succeed(o)
  PROVE  OInv'
<1>1. /\ handed[o] \in Nat /\ tasks[o] \in Nat /\ applied[o] \in Nat /\ tasks' = tasks
      /\ \/ handed[o] > 0 /\ handed'[o] = handed[o] - 1 /\ applied'[o] = applied[o]
         \/ applied[o] > 0 /\ applied'[o] = applied[o] - 1 /\ handed'[o] = handed[o]
      /\ \A p \in Objectives \ {o} : /\ handed'[p] = handed[p]
                                     /\ applied'[p] = applied[p]
  BY DEF Succeed, IInv, TypeOK
<1>2. InPipeline(o) > 0 /\ InPipeline(o)' = InPipeline(o) - 1
  <2>1. CASE handed[o] > 0 /\ handed'[o] = handed[o] - 1 /\ applied'[o] = applied[o]
    BY <1>1, <2>1 DEF InPipeline
  <2>2. CASE applied[o] > 0 /\ applied'[o] = applied[o] - 1 /\ handed'[o] = handed[o]
    BY <1>1, <2>2 DEF InPipeline
  <2> QED BY <1>1, <2>1, <2>2
<1>3. Succeeded(o)
  BY DEF Succeed
<1> QED BY <1>1, <1>2, <1>3, AnswerOrdered DEF Succeed, IInv

-----------------------------------------------------------------------------
(* enqueue, execute and the wait for a next group *)

LEMMA EnqueueOrdered ==
  ASSUME IInv, IInv', OInv, NEW o \in Objectives, Enqueue(o)
  PROVE  OInv'
<1>0. /\ TypeOK /\ TypeOK' /\ o \in Objectives \ submitted
      /\ queue \in [Keys -> Seq(Objectives)]
  BY DEF IInv, TypeOK, Enqueue
<1>1. PICK k \in Keys : k = KeyOf[o]
  BY ConstantsAssumption
<1>2. /\ queue' = [queue EXCEPT ![k] = Append(queue[k], o)]
      /\ calls["manager"] = << >>
      /\ calls' = [calls EXCEPT !["manager"] =
                     IF Len(queue'[k]) = 1 THEN ExecuteAll(<<o>>) ELSE << >>]
      /\ UNCHANGED <<failed, finishing, expired, pendingForwards, pendingNexts,
                     tasks, handed, applied>>
  BY <1>0, <1>1 DEF Enqueue, pending, pipeline, TypeOK, Threads
<1>3. /\ queue'[k] = Append(queue[k], o) /\ queue'[k] # << >>
      /\ \A j \in Keys \ {k} : queue'[j] = queue[j]
      /\ queue[k] # << >> => queue'[k][1] = queue[k][1] /\ Len(queue'[k]) # 1
      /\ queue[k] = << >> => queue'[k][1] = o
  <2>1. queue'[k] = Append(queue[k], o) /\ \A j \in Keys \ {k} : queue'[j] = queue[j]
    BY <1>0, <1>2
  <2>2. /\ Len(queue[k]) \in Nat
        /\ Len(Append(queue[k], o)) = Len(queue[k]) + 1
        /\ \A i \in 1..Len(queue[k]) : Append(queue[k], o)[i] = queue[k][i]
        /\ Append(queue[k], o)[Len(queue[k]) + 1] = o
    BY <1>0, AppendProperties, LenProperties
  <2>3. queue[k] # << >> <=> Len(queue[k]) > 0
    BY <1>0, <2>2, EmptySeq
  <2>4. queue'[k] # << >>
    BY <1>0, <2>1, <2>2, EmptySeq
  <2> QED BY <2>1, <2>2, <2>3, <2>4
<1>4. /\ \A p \in Objectives : OnceCalled(calls'["manager"], p)
      /\ \A c \in Objs(calls'["manager"]) :
           c.obj = o /\ c.op = "execute" /\ queue[k] = << >>
      /\ calls'["notifier"] = calls["notifier"]
  <2>1. calls'["notifier"] = calls["notifier"]
    BY <1>0, <1>2 DEF TypeOK, Threads
  <2>2. calls'["manager"] = IF Len(queue'[k]) = 1 THEN ExecuteAll(<<o>>) ELSE << >>
    BY <1>0, <1>2 DEF TypeOK, Threads
  <2>3. CASE Len(queue'[k]) = 1
    <3>1. <<o>> \in Seq(Objectives) /\ Objs(<<o>>) = {o} /\ Len(<<o>>) = 1
      BY OneFacts
    <3>2. \A p \in Objectives : OnceIn(<<o>>, p)
      BY <3>1 DEF OnceIn
    <3>3. \A p \in Objectives : OnceCalled(ExecuteAll(<<o>>), p)
      BY <3>1, <3>2, ExecuteAllOnce
    <3>4. Objs(ExecuteAll(<<o>>)) = {Call("execute", o, "none")}
      BY <3>1, ExecuteAllFacts
    <3>5. \A c \in Objs(ExecuteAll(<<o>>)) : c.obj = o /\ c.op = "execute"
      BY <3>4, CallFacts DEF Errors
    <3> QED BY <1>3, <2>1, <2>2, <2>3, <3>3, <3>5
  <2>4. CASE Len(queue'[k]) # 1
    BY <2>1, <2>2, <2>4, EmptyOnce, EmptyFacts
  <2> QED BY <2>3, <2>4
<1>5. PendingOK'
  BY <1>2 DEF OInv, PendingOK
<1>6. ASSUME NEW p \in Objectives, p # o PROVE Ordered(p)'
  <2>1. Lapsed(KeyOf[p]) => Lapsed(KeyOf[p])'
    BY <1>2, LapsedLasts
  <2>2. First(p) => First(p)'
    BY <1>1, <1>3, ConstantsAssumption DEF First
  <2>3. \A t \in Threads :
          /\ OnceCalled(calls[t], p) => OnceCalled(calls'[t], p)
          /\ \A c \in Objs(calls'[t]) : c.obj = p => c \in Objs(calls[t])
    BY <1>4, <1>6 DEF Threads
  <2> QED BY <1>0, <1>2, <2>1, <2>2, <2>3, KeptOrdered DEF OInv
<1>7. Ordered(o)'
  <2>1. ~InProgress(o) /\ ~failed[o]
    BY <1>0 DEF IInv, SubmittedOK, Unknown
  <2>2. Weight(o) = 0 /\ ~InCalls(o) /\ ~Pending(o)
    BY <1>0, <2>1, WeightFacts
  <2>3. Weight(o)' = 0 /\ ~Pending(o)' /\ ~Called(calls'["notifier"], o)
    BY <1>2, <1>4, <2>2, CalledFacts DEF Weight, InPipeline, Pending
  <2>4. \A i \in NextIds : OnceIn(pendingForwards'[i], o) /\ OnceIn(pendingNexts'[i], o)
    BY <1>2, <2>2 DEF Pending, Objs, OnceIn
  <2>5. OnceCalled(calls'["notifier"], o)
    BY <1>4, <2>2 DEF InCalls, Objs, OnceCalled, Threads
  <2>6. CASE queue[k] # << >>
    <3>1. ~Called(calls'["manager"], o)
      BY <1>4, <2>6 DEF Called
    <3> QED BY <1>0, <1>4, <2>3, <2>4, <2>5, <3>1, GoneOrdered DEF Threads
  <2>7. CASE queue[k] = << >>
    <3>1. First(o)'
      BY <1>1, <1>3, <2>7 DEF First
    <3>2. Alone(o)'
      BY <1>4, <2>3, <2>4, <2>5 DEF Alone, Threads
    <3>3. Settled(o)'
      BY <1>2, <2>1 DEF Settled
    <3> QED BY <3>1, <3>2, <3>3 DEF Ordered
  <2> QED BY <2>6, <2>7
<1> QED BY <1>5, <1>6, <1>7 DEF OInv

\* A thread that has made its first call: where the other objectives are called
\* does not change, and the one it was for is called no more.
LEMMA FirstCall ==
  ASSUME IInv, OInv, NEW t \in Threads, calls[t] # << >>,
         NEW o, o = Head(calls[t]).obj
  PROVE  /\ o \in Objectives /\ Tail(calls[t]) \in Seq(Calls)
         /\ \A p \in Objectives : OnceCalled(calls[t], p) => OnceCalled(Tail(calls[t]), p)
         /\ \A c \in Objs(Tail(calls[t])) : c \in Objs(calls[t])
         /\ ~Lapsed(KeyOf[o]) =>
              /\ Weight(o) = 0 /\ InPipeline(o) = 0
              /\ InProgress(o) /\ First(o) /\ ~Pending(o)
              /\ ~Called(Tail(calls[t]), o)
              /\ \A u \in Threads \ {t} : ~Called(calls[u], o)
              /\ failed[o] => Head(calls[t]).op = "dequeue"
              /\ Alone(o)
<1>1. /\ o \in Objectives /\ Tail(calls[t]) \in Seq(Calls)
      /\ calls[t] \in Seq(Calls) /\ TypeOK
      /\ Objs(calls[t]) = {Head(calls[t])} \union Objs(Tail(calls[t]))
  BY TailFacts DEF IInv, TypeOK
<1>2. \A p \in Objectives : OnceCalled(calls[t], p) => OnceCalled(Tail(calls[t]), p)
  BY <1>1, TailOnce
<1>3. ASSUME ~Lapsed(KeyOf[o])
      PROVE  /\ Weight(o) = 0 /\ InPipeline(o) = 0
             /\ InProgress(o) /\ First(o) /\ ~Pending(o)
             /\ ~Called(Tail(calls[t]), o)
             /\ \A u \in Threads \ {t} : ~Called(calls[u], o)
             /\ failed[o] => Head(calls[t]).op = "dequeue"
             /\ Alone(o)
  <2>1. Alone(o) /\ Settled(o) /\ (InProgress(o) => First(o))
    BY <1>1, <1>3 DEF OInv, Ordered
  <2>2. InCalls(o) /\ Called(calls[t], o)
    BY <1>1 DEF InCalls, Called
  <2>3. InProgress(o)
    BY <2>2 DEF InProgress
  <2>4. Weight(o) = 0 /\ InPipeline(o) = 0 /\ ~Pending(o)
    BY <1>1, <2>1, <2>2, WeightFacts DEF Alone
  <2>5. ~Called(Tail(calls[t]), o)
    BY <1>1, <2>1, TailOnce DEF Alone
  <2>6. \A u \in Threads \ {t} : ~Called(calls[u], o)
    BY <2>1, <2>2 DEF Alone, Threads
  <2>7. failed[o] => Head(calls[t]).op = "dequeue"
    BY <1>1, <2>1 DEF Settled
  <2> QED BY <2>1, <2>3, <2>4, <2>5, <2>6, <2>7
<1> QED BY <1>1, <1>2, <1>3

LEMMA ExecuteOrdered ==
  ASSUME IInv, IInv', OInv, NEW t \in Threads, Execute(t)
  PROVE  OInv'
<1>0. TypeOK /\ TypeOK' /\ calls[t] # << >> /\ Head(calls[t]).op = "execute"
  BY DEF IInv, Execute
<1>1. PICK o : o = Head(calls[t]).obj
  OBVIOUS
<1>2. PICK rest : rest = Tail(calls[t])
  OBVIOUS
<1>3. PICK ready : ready = (~Waits(o) \/ NextOf[o] \in groups)
  OBVIOUS
<1>4. PICK y : y = IF ready THEN << >> ELSE <<Call("queue", o, "none")>>
  OBVIOUS
<1>5. /\ o \in Objectives /\ rest \in Seq(Calls)
      /\ \A p \in Objectives : OnceCalled(calls[t], p) => OnceCalled(rest, p)
      /\ \A c \in Objs(rest) : c \in Objs(calls[t])
      /\ ~Lapsed(KeyOf[o]) =>
           /\ Weight(o) = 0 /\ InPipeline(o) = 0
           /\ InProgress(o) /\ First(o) /\ ~Pending(o)
           /\ ~Called(rest, o)
           /\ \A u \in Threads \ {t} : ~Called(calls[u], o)
           /\ ~failed[o]
           /\ Alone(o)
  BY <1>0, <1>1, <1>2, FirstCall
<1>6. /\ tasks' = [tasks EXCEPT ![o] = IF ready THEN @ + 1 ELSE @]
      /\ calls' = [calls EXCEPT ![t] = y \o rest]
      /\ UNCHANGED <<queue, failed, finishing, expired, handed, applied,
                     pendingForwards, pendingNexts>>
  BY <1>1, <1>2, <1>3, <1>4 DEF Execute, pending
<1>7. /\ calls'[t] = y \o rest
      /\ \A u \in Threads \ {t} : calls'[u] = calls[u]
      /\ \A p \in Objectives \ {o} : tasks'[p] = tasks[p]
      /\ tasks'[o] = IF ready THEN tasks[o] + 1 ELSE tasks[o]
  BY <1>0, <1>5, <1>6 DEF TypeOK
<1>8. /\ y \in Seq(Calls)
      /\ \A p \in Objectives : OnceCalled(y, p)
      /\ \A c \in Objs(y) : c.obj = o
      /\ ready => y = << >>
  <2>1. CASE ready
    BY <1>4, <2>1, EmptyOnce, EmptyFacts, EmptySeq
  <2>2. CASE ~ready
    <3>1. Call("queue", o, "none") \in Calls /\ Call("queue", o, "none").obj = o
      BY <1>5, CallFacts DEF Errors
    <3>2. y = <<Call("queue", o, "none")>>
      BY <1>4, <2>2
    <3> QED BY <2>2, <3>1, <3>2, OneOnce, OneFacts
  <2> QED BY <2>1, <2>2
<1>9. /\ Objs(y \o rest) = Objs(y) \union Objs(rest)
      /\ \A p \in Objectives :
           /\ Called(y \o rest, p) <=> Called(y, p) \/ Called(rest, p)
           /\ OnceCalled(y, p) /\ OnceCalled(rest, p) /\ ~(Called(y, p) /\ Called(rest, p))
                => OnceCalled(y \o rest, p)
  BY <1>5, <1>8, ConcatOnce, ConcatFacts
<1>10. \A k \in Keys : Lapsed(k) => Lapsed(k)'
  BY <1>6, LapsedLasts
<1>11. PendingOK'
  BY <1>6 DEF OInv, PendingOK
<1>12. ASSUME NEW p \in Objectives, p # o PROVE Ordered(p)'
  <2>1. ~Called(y, p)
    BY <1>8, <1>12 DEF Called
  <2>2. /\ OnceCalled(calls[t], p) => OnceCalled(calls'[t], p)
        /\ \A c \in Objs(calls'[t]) : c.obj = p => c \in Objs(calls[t])
    BY <1>5, <1>7, <1>8, <1>9, <1>12, <2>1
  <2>3. \A u \in Threads :
          /\ OnceCalled(calls[u], p) => OnceCalled(calls'[u], p)
          /\ \A c \in Objs(calls'[u]) : c.obj = p => c \in Objs(calls[u])
    BY <1>7, <2>2
  <2>4. First(p) => First(p)'
    BY <1>6 DEF First
  <2>5. Ordered(p) /\ (Lapsed(KeyOf[p]) => Lapsed(KeyOf[p])')
    BY <1>10, ConstantsAssumption DEF OInv
  <2> QED BY <1>0, <1>6, <1>7, <1>12, <2>3, <2>4, <2>5, KeptOrdered
<1>13. Ordered(o)'
  <2> SUFFICES ASSUME ~Lapsed(KeyOf[o])'
               PROVE  Alone(o)' /\ Settled(o)' /\ First(o)'
    BY DEF Ordered
  <2>1. ~Lapsed(KeyOf[o])
    BY <1>5, <1>10, ConstantsAssumption
  <2>2. First(o)' /\ Settled(o)'
    BY <1>5, <1>6, <2>1 DEF First, Settled
  <2>3. Answering(o)' = Answering(o)
    BY <1>6 DEF Answering
  <2>4. InPipeline(o)' = IF ready THEN 1 ELSE 0
    <3>1. tasks[o] \in Nat /\ handed[o] \in Nat /\ applied[o] \in Nat
      BY <1>0, <1>5 DEF TypeOK
    <3>2. tasks[o] + handed[o] + applied[o] = 0
      BY <1>5, <2>1 DEF InPipeline
    <3> QED BY <1>6, <1>7, <3>1, <3>2 DEF InPipeline
  <2>5. Weight(o)' = IF ready THEN 1 ELSE 0
    BY <1>0, <1>5, <2>1, <2>3, <2>4, WeightIs, WeightIsAfter
  <2>6. ~Pending(o)'
    BY <1>5, <1>6, <2>1 DEF Pending
  <2>7. \A i \in NextIds : OnceIn(pendingForwards'[i], o) /\ OnceIn(pendingNexts'[i], o)
    BY <1>5, <1>6, <2>1 DEF Alone
  <2>8. OnceCalled(calls'[t], o) /\ (Called(calls'[t], o) => ~ready)
    BY <1>5, <1>7, <1>8, <1>9, <2>1, EmptyOnce DEF Alone
  <2>9. \A u \in Threads \ {t} : OnceCalled(calls'[u], o) /\ ~Called(calls'[u], o)
    BY <1>5, <1>7, <2>1 DEF Alone
  <2>10. /\ \A u \in Threads : OnceCalled(calls'[u], o)
         /\ ~(Called(calls'["manager"], o) /\ Called(calls'["notifier"], o))
         /\ InCalls(o)' => ~ready
    BY <2>8, <2>9 DEF InCalls, Called, Threads
  <2>11. Alone(o)'
    BY <2>5, <2>6, <2>7, <2>10 DEF Alone
  <2> QED BY <2>2, <2>11
<1> QED BY <1>5, <1>11, <1>12, <1>13 DEF OInv

LEMMA QueueObjectiveOrdered ==
  ASSUME IInv, IInv', OInv, NEW t \in Threads, QueueObjective(t)
  PROVE  OInv'
<1>0. TypeOK /\ TypeOK' /\ calls[t] # << >> /\ Head(calls[t]).op = "queue"
  BY DEF IInv, QueueObjective
<1>1. PICK o : o = Head(calls[t]).obj
  OBVIOUS
<1>2. PICK rest : rest = Tail(calls[t])
  OBVIOUS
<1>3. /\ o \in Objectives /\ rest \in Seq(Calls)
      /\ \A p \in Objectives : OnceCalled(calls[t], p) => OnceCalled(rest, p)
      /\ \A c \in Objs(rest) : c \in Objs(calls[t])
      /\ ~Lapsed(KeyOf[o]) =>
           /\ Weight(o) = 0 /\ InPipeline(o) = 0
           /\ InProgress(o) /\ First(o) /\ ~Pending(o)
           /\ ~Called(rest, o)
           /\ \A u \in Threads \ {t} : ~Called(calls[u], o)
           /\ ~failed[o]
           /\ Alone(o)
  BY <1>0, <1>1, <1>2, FirstCall
<1>4. PICK i \in NextIds : i = NextOf[o]
  <2>1. Head(calls[t]) \in Objs(calls[t])
    BY <1>0, TailFacts
  <2>2. Waits(o)
    BY <1>0, <1>1, <2>1 DEF IInv, CallsOK
  <2> QED BY <1>3, <2>2, ConstantsAssumption DEF Waits
<1>5. /\ calls' = [calls EXCEPT ![t] = rest]
      /\ UNCHANGED <<queue, failed, finishing, expired, handed, applied>>
  BY <1>2 DEF QueueObjective, ordering
<1>6. /\ calls'[t] = rest
      /\ \A u \in Threads \ {t} : calls'[u] = calls[u]
  BY <1>0, <1>5 DEF TypeOK
<1>7. \/ /\ tasks' = [tasks EXCEPT ![o] = @ + 1]
         /\ UNCHANGED <<pendingForwards, pendingNexts>>
      \/ /\ OpOf[o] = "forward"
         /\ pendingForwards' = [pendingForwards EXCEPT ![i] =
              IF o \in Objs(@) THEN @ ELSE Append(@, o)]
         /\ UNCHANGED <<pendingNexts, tasks>>
      \/ /\ OpOf[o] # "forward"
         /\ pendingNexts' = [pendingNexts EXCEPT ![i] = Append(@, o)]
         /\ UNCHANGED <<pendingForwards, tasks>>
  BY <1>1, <1>4 DEF QueueObjective, pending
<1>8. \A k \in Keys : Lapsed(k) => Lapsed(k)'
  BY <1>5, LapsedLasts
<1>9. /\ pendingForwards \in [NextIds -> Seq(Objectives)]
      /\ pendingNexts \in [NextIds -> Seq(Objectives)]
  BY <1>0 DEF TypeOK
<1>10. /\ Objs(Append(pendingForwards[i], o)) = Objs(pendingForwards[i]) \union {o}
       /\ Objs(Append(pendingNexts[i], o)) = Objs(pendingNexts[i]) \union {o}
  BY <1>3, <1>9, ElementsOfAppend, ObjsIs
<1>11. \A j \in NextIds :
         /\ Objs(pendingForwards[j]) \subseteq Objs(pendingForwards'[j])
         /\ \A p \in Objs(pendingForwards'[j]) \ Objs(pendingForwards[j]) :
              p = o /\ j = i /\ OpOf[o] = "forward"
         /\ Objs(pendingNexts[j]) \subseteq Objs(pendingNexts'[j])
         /\ \A p \in Objs(pendingNexts'[j]) \ Objs(pendingNexts[j]) :
              p = o /\ j = i /\ OpOf[o] # "forward"
  BY <1>7, <1>9, <1>10
<1>12. \A j \in NextIds, p \in Objectives :
         /\ OnceIn(pendingForwards[j], p) => OnceIn(pendingForwards'[j], p)
         /\ OnceIn(pendingNexts[j], p) /\ (p = o => o \notin Objs(pendingNexts[j]))
              => OnceIn(pendingNexts'[j], p)
  <2> SUFFICES ASSUME NEW j \in NextIds, NEW p \in Objectives
               PROVE  /\ OnceIn(pendingForwards[j], p) => OnceIn(pendingForwards'[j], p)
                      /\ OnceIn(pendingNexts[j], p)
                         /\ (p = o => o \notin Objs(pendingNexts[j]))
                           => OnceIn(pendingNexts'[j], p)
    OBVIOUS
  <2>1. /\ pendingForwards[j] \in Seq(Objectives)
        /\ pendingNexts[j] \in Seq(Objectives)
    BY <1>9
  <2>2. \/ pendingForwards'[j] = pendingForwards[j]
        \/ /\ pendingForwards'[j] = Append(pendingForwards[j], o)
           /\ o \notin Objs(pendingForwards[j])
    BY <1>7, <1>9
  <2>3. pendingNexts'[j] \in {pendingNexts[j], Append(pendingNexts[j], o)}
    BY <1>7, <1>9
  <2>4. OnceIn(pendingForwards[j], p) => OnceIn(pendingForwards'[j], p)
    BY <1>3, <2>1, <2>2, AppendOnceIn
  <2>5. OnceIn(pendingNexts[j], p) /\ (p = o => o \notin Objs(pendingNexts[j]))
          => OnceIn(pendingNexts'[j], p)
    BY <1>3, <2>1, <2>3, AppendOnceIn
  <2> QED BY <2>4, <2>5
<1>13. PendingOK'
  BY <1>4, <1>11 DEF OInv, PendingOK
<1>14. ASSUME NEW p \in Objectives, p # o PROVE Ordered(p)'
  <2>1. \A u \in Threads :
          /\ OnceCalled(calls[u], p) => OnceCalled(calls'[u], p)
          /\ \A c \in Objs(calls'[u]) : c.obj = p => c \in Objs(calls[u])
    BY <1>3, <1>6
  <2>2. First(p) => First(p)'
    BY <1>5 DEF First
  <2>3. Ordered(p) /\ (Lapsed(KeyOf[p]) => Lapsed(KeyOf[p])')
    BY <1>8, ConstantsAssumption DEF OInv
  <2>4. tasks'[p] = tasks[p]
    BY <1>0, <1>7, <1>14 DEF TypeOK
  <2>5. \A j \in NextIds :
          /\ OnceIn(pendingForwards[j], p) => OnceIn(pendingForwards'[j], p)
          /\ OnceIn(pendingNexts[j], p) => OnceIn(pendingNexts'[j], p)
          /\ p \in Objs(pendingForwards'[j]) => p \in Objs(pendingForwards[j])
          /\ p \in Objs(pendingNexts'[j]) => p \in Objs(pendingNexts[j])
    BY <1>11, <1>12, <1>14
  <2> QED BY <1>0, <1>5, <2>1, <2>2, <2>3, <2>4, <2>5, KeptOrdered
<1>15. Ordered(o)'
  <2> SUFFICES ASSUME ~Lapsed(KeyOf[o])'
               PROVE  Alone(o)' /\ Settled(o)' /\ First(o)'
    BY DEF Ordered
  <2>1. ~Lapsed(KeyOf[o])
    BY <1>3, <1>8, ConstantsAssumption
  <2>2. First(o)' /\ Settled(o)'
    BY <1>3, <1>5, <2>1 DEF First, Settled
  <2>3. Answering(o)' = Answering(o)
    BY <1>5 DEF Answering
  <2>4. \/ InPipeline(o)' = 1 /\ UNCHANGED <<pendingForwards, pendingNexts>>
        \/ InPipeline(o)' = 0
    <3>1. tasks[o] \in Nat /\ handed[o] \in Nat /\ applied[o] \in Nat
      BY <1>0, <1>3 DEF TypeOK
    <3>2. tasks[o] + handed[o] + applied[o] = 0
      BY <1>3, <2>1 DEF InPipeline
    <3>3. CASE /\ tasks' = [tasks EXCEPT ![o] = @ + 1]
               /\ UNCHANGED <<pendingForwards, pendingNexts>>
      <4>1. tasks'[o] = tasks[o] + 1
        BY <1>0, <1>3, <3>3 DEF TypeOK
      <4> QED BY <1>5, <3>1, <3>2, <3>3, <4>1 DEF InPipeline
    <3>4. CASE tasks' = tasks
      BY <1>5, <3>2, <3>4 DEF InPipeline
    <3> QED BY <1>7, <3>3, <3>4
  <2>5. Weight(o)' <= 1 /\ (Weight(o)' > 0 => UNCHANGED <<pendingForwards, pendingNexts>>)
    BY <1>0, <1>3, <2>1, <2>3, <2>4, WeightIs, WeightIsAfter
  <2>6. Weight(o)' > 0 => ~Pending(o)'
    BY <1>3, <2>1, <2>5 DEF Pending
  <2>7. \A j \in NextIds : OnceIn(pendingForwards'[j], o) /\ OnceIn(pendingNexts'[j], o)
    BY <1>3, <1>12, <2>1 DEF Alone, Pending
  <2>8. \A u \in Threads : OnceCalled(calls'[u], o) /\ ~Called(calls'[u], o)
    BY <1>3, <1>6, <2>1 DEF Alone
  <2>9. ~InCalls(o)'
    BY <2>8 DEF InCalls, Called
  <2>10. Alone(o)'
    BY <2>5, <2>6, <2>7, <2>8, <2>9 DEF Alone, Threads
  <2> QED BY <2>2, <2>10
<1> QED BY <1>3, <1>13, <1>14, <1>15 DEF OInv

-----------------------------------------------------------------------------
(* The notifier *)

\* The notifier takes the objectives of s, all those that wait in one place for
\* group i, and goes on to execute them.
LEMMA ReleaseOrdered ==
  ASSUME IInv, IInv', OInv, NEW i \in NextIds, NEW s \in Seq(Objectives),
         calls["notifier"] = << >>,
         calls' = [calls EXCEPT !["notifier"] = ExecuteAll(s)],
         UNCHANGED <<queue, failed, finishing, expired, pipeline>>,
         \/ /\ s = pendingForwards[i]
            /\ pendingForwards' = [pendingForwards EXCEPT ![i] = << >>]
            /\ UNCHANGED pendingNexts
         \/ /\ s = pendingNexts[i]
            /\ pendingNexts' = [pendingNexts EXCEPT ![i] = << >>]
            /\ UNCHANGED pendingForwards
  PROVE  OInv'
<1> USE DEF pipeline
<1>0. /\ TypeOK /\ TypeOK'
      /\ pendingForwards \in [NextIds -> Seq(Objectives)]
      /\ pendingNexts \in [NextIds -> Seq(Objectives)]
  BY DEF IInv, TypeOK
<1>1. /\ calls'["notifier"] = ExecuteAll(s)
      /\ calls'["manager"] = calls["manager"]
  BY <1>0 DEF TypeOK, Threads
<1>2. \A k \in Keys : Lapsed(k) => Lapsed(k)'
  BY LapsedLasts
<1>3. \A j \in NextIds :
        /\ pendingForwards'[j] \in {pendingForwards[j], << >>}
        /\ pendingNexts'[j] \in {pendingNexts[j], << >>}
        /\ \/ s = pendingForwards[i] /\ pendingForwards'[i] = << >>
           \/ s = pendingNexts[i] /\ pendingNexts'[i] = << >>
  BY <1>0
<1>4. \A j \in NextIds, p \in Objectives :
        /\ OnceIn(pendingForwards[j], p) => OnceIn(pendingForwards'[j], p)
        /\ OnceIn(pendingNexts[j], p) => OnceIn(pendingNexts'[j], p)
        /\ p \in Objs(pendingForwards'[j]) => p \in Objs(pendingForwards[j])
        /\ p \in Objs(pendingNexts'[j]) => p \in Objs(pendingNexts[j])
  BY <1>3, EmptyOnce, EmptyFacts
<1>5. PendingOK'
  BY <1>3, EmptyFacts DEF OInv, PendingOK
<1>6. ASSUME NEW p \in Objectives, p \notin Objs(s) PROVE Ordered(p)'
  <2>1. ~Called(calls'["notifier"], p) /\ OnceCalled(calls'["notifier"], p)
    <3>1. ~Called(ExecuteAll(s), p)
      BY <1>6, ExecuteAllOnce
    <3>2. OnceIn(s, p)
      BY <1>6 DEF OnceIn, Objs
    <3> QED BY <1>1, <3>1, <3>2, ExecuteAllOnce
  <2>2. \A u \in Threads :
          /\ OnceCalled(calls[u], p) => OnceCalled(calls'[u], p)
          /\ \A c \in Objs(calls'[u]) : c.obj = p => c \in Objs(calls[u])
    BY <1>1, <2>1 DEF Threads, Called
  <2>3. First(p) => First(p)'
    BY DEF First
  <2>4. Ordered(p) /\ (Lapsed(KeyOf[p]) => Lapsed(KeyOf[p])')
    BY <1>2, ConstantsAssumption DEF OInv
  <2> QED BY <1>0, <1>4, <2>2, <2>3, <2>4, KeptOrdered
<1>7. ASSUME NEW p \in Objectives, p \in Objs(s) PROVE Ordered(p)'
  <2> SUFFICES ASSUME ~Lapsed(KeyOf[p])'
               PROVE  Alone(p)' /\ Settled(p)' /\ First(p)'
    BY DEF Ordered
  <2>1. ~Lapsed(KeyOf[p])
    BY <1>2, ConstantsAssumption
  <2>2. Alone(p) /\ Settled(p) /\ (InProgress(p) => First(p))
    BY <2>1 DEF OInv, Ordered
  <2>3. Pending(p)
    BY <1>7 DEF Pending
  <2>4. /\ InProgress(p) /\ First(p) /\ ~failed[p]
        /\ ~InCalls(p)
    BY <2>2, <2>3 DEF InProgress, Settled, Alone
  <2>5. Weight(p) = 0
    BY <1>0, <2>2, <2>3, WeightFacts DEF Alone
  <2>6. First(p)' /\ Settled(p)'
    BY <2>4 DEF First, Settled
  <2>7. Weight(p)' = 0
    BY <2>5 DEF Weight, InPipeline
  <2>8. ~Pending(p)'
    <3> SUFFICES ASSUME NEW j \in NextIds,
                        p \in Objs(pendingForwards'[j]) \union Objs(pendingNexts'[j])
                 PROVE  FALSE
      BY DEF Pending
    <3>1. p \in Objs(pendingForwards[j]) \union Objs(pendingNexts[j])
      BY <1>4
    <3>2. PendingOK
      BY DEF OInv
    <3>3. j = i
      BY <1>3, <1>7, <3>1, <3>2 DEF PendingOK
    <3>4. CASE s = pendingForwards[i] /\ pendingForwards'[i] = << >>
      <4>1. OpOf[p] = "forward"
        BY <1>7, <3>2, <3>4 DEF PendingOK
      <4>2. p \notin Objs(pendingForwards'[j])
        BY <3>3, <3>4, EmptyFacts
      <4>3. p \notin Objs(pendingNexts[j])
        BY <3>2, <4>1 DEF PendingOK
      <4> QED BY <1>4, <4>2, <4>3
    <3>5. CASE s = pendingNexts[i] /\ pendingNexts'[i] = << >>
      <4>1. OpOf[p] # "forward"
        BY <1>7, <3>2, <3>5 DEF PendingOK
      <4>2. p \notin Objs(pendingNexts'[j])
        BY <3>3, <3>5, EmptyFacts
      <4>3. p \notin Objs(pendingForwards[j])
        BY <3>2, <4>1 DEF PendingOK
      <4> QED BY <1>4, <4>2, <4>3
    <3> QED BY <1>3, <3>4, <3>5
  <2>9. OnceIn(s, p)
    BY <2>2 DEF Alone
  <2>10. OnceCalled(calls'["notifier"], p)
    BY <1>1, <2>9, ExecuteAllOnce
  <2>11. OnceCalled(calls'["manager"], p) /\ ~Called(calls'["manager"], p)
    BY <1>1, <2>2, <2>4 DEF Alone, Threads, InCalls, Called
  <2>12. Alone(p)'
    BY <1>4, <2>2, <2>7, <2>8, <2>10, <2>11 DEF Alone, Threads
  <2> QED BY <2>6, <2>12
<1> QED BY <1>5, <1>6, <1>7 DEF OInv

LEMMA NotifyForwardsOrdered ==
  ASSUME IInv, IInv', OInv, NotifyForwards
  PROVE  OInv'
<1>1. PICK i \in NextIds : i = notifying.id
  BY DEF NotifyForwards, IInv, NotifierOK
<1>2. calls["notifier"] = << >> /\ pendingForwards[i] \in Seq(Objectives)
  BY DEF NotifyForwards, IInv, NotifierOK, TypeOK
<1> QED BY <1>1, <1>2, ReleaseOrdered DEF NotifyForwards, ordering

LEMMA NotifyNextsOrdered ==
  ASSUME IInv, IInv', OInv, NotifyNexts
  PROVE  OInv'
<1>1. PICK i \in NextIds : i = notifying.id
  BY DEF NotifyNexts, IInv, NotifierOK
<1>2. calls["notifier"] = << >> /\ pendingNexts[i] \in Seq(Objectives)
  BY DEF NotifyNexts, IInv, TypeOK
<1> QED BY <1>1, <1>2, ReleaseOrdered DEF NotifyNexts, ordering

-----------------------------------------------------------------------------
(* dequeue *)

\* What holds when dequeue(o) is called, with the calls in rest to be made after
\* it: it is all that keeps o in execution.
Leaving(o, rest) ==
  /\ \A c \in Objs(rest) : c \in Objs(calls["manager"])
  /\ \A p \in Objectives : OnceCalled(calls["manager"], p) => OnceCalled(rest, p)
  /\ ~Lapsed(KeyOf[o]) =>
       /\ InProgress(o) /\ Alone(o) /\ First(o)
       /\ ~Pending(o)
       /\ ~Called(calls["notifier"], o)
       /\ ~Called(rest, o)
       /\ Weight(o)' = 0

\* Nothing else of the state is changed by dequeue(o).
OthersKept(o) ==
  /\ \A p \in Objectives \ {o} : failed'[p] = failed[p] /\ finishing'[p] = finishing[p]
  /\ UNCHANGED <<expired, pipeline>>

LEMMA RemoveOrdered ==
  ASSUME IInv, TypeOK', OInv, NEW o \in Objectives, NEW e \in Errors,
         NEW rest \in Seq(Calls), Remove(o, e, rest), UNCHANGED pending,
         Leaving(o, rest), OthersKept(o)
  PROVE  OInv'
<1> USE DEF pending, pipeline
<1>0. /\ TypeOK /\ queue \in [Keys -> Seq(Objectives)]
      /\ calls \in [Threads -> Seq(Calls)]
  BY DEF IInv, TypeOK
<1>1. PICK k \in Keys : k = KeyOf[o]
  BY ConstantsAssumption
<1>2. PICK r : r = Without(queue[k], o)
  OBVIOUS
<1>3. PICK x : x = IF r = << >> THEN << >> ELSE ExecuteAll(<<r[1]>>)
  OBVIOUS
<1>4. r \in Seq(Objectives) /\ Objs(r) = Objs(queue[k]) \ {o}
  <2>1. queue[k] \in Seq(Objectives) /\ Distinct(queue[k])
    BY <1>0 DEF IInv, QueueOK
  <2> QED BY <1>2, <2>1, WithoutFacts
<1>5. r # << >> => /\ r[1] \in Objectives /\ r[1] \in Objs(queue[k])
                   /\ r[1] # o /\ KeyOf[r[1]] = k
  <2>1. r # << >> => r[1] \in Objs(r) /\ r[1] \in Objectives
    BY <1>4, ElementsTyped, ObjsIs
  <2> QED BY <1>4, <2>1 DEF IInv, QueueOK
<1>6. /\ x \in Seq(Calls)
      /\ \A p \in Objectives : OnceCalled(x, p)
      /\ \A c \in Objs(x) : r # << >> /\ c.obj = r[1]
  <2>1. CASE r = << >>
    BY <1>3, <2>1, EmptyFacts, EmptySeq, EmptyOnce
  <2>2. CASE r # << >>
    <3>1. PICK h \in Objectives : h = r[1]
      BY <1>5, <2>2
    <3>2. <<h>> \in Seq(Objectives) /\ Objs(<<h>>) = {h} /\ Len(<<h>>) = 1
      BY OneFacts
    <3>3. \A p \in Objectives : OnceIn(<<h>>, p)
      BY <3>2 DEF OnceIn
    <3>4. x = ExecuteAll(<<h>>)
      BY <1>3, <2>2, <3>1
    <3>5. x \in Seq(Calls) /\ Objs(x) = {Call("execute", h, "none")}
      BY <3>2, <3>4, ExecuteAllFacts
    <3>6. \A p \in Objectives : OnceCalled(x, p)
      BY <3>2, <3>3, <3>4, ExecuteAllOnce
    <3> QED BY <2>2, <3>1, <3>5, <3>6, CallFacts DEF Errors
  <2> QED BY <2>1, <2>2
<1>7. /\ queue' = [queue EXCEPT ![k] = r]
      /\ calls' = [calls EXCEPT !["manager"] = x \o rest]
      /\ UNCHANGED <<pendingForwards, pendingNexts>>
  BY <1>1, <1>2, <1>3 DEF Remove
<1>8. /\ queue'[k] = r /\ \A j \in Keys \ {k} : queue'[j] = queue[j]
      /\ calls'["manager"] = x \o rest
      /\ calls'["notifier"] = calls["notifier"]
  BY <1>0, <1>7 DEF Threads
<1>9. /\ Objs(x \o rest) = Objs(x) \union Objs(rest)
      /\ \A p \in Objectives :
           /\ Called(x \o rest, p) <=> Called(x, p) \/ Called(rest, p)
           /\ OnceCalled(x, p) /\ OnceCalled(rest, p) /\ ~(Called(x, p) /\ Called(rest, p))
                => OnceCalled(x \o rest, p)
  BY <1>6, ConcatOnce, ConcatFacts
<1>10. \A j \in Keys : Lapsed(j) => Lapsed(j)'
  BY LapsedLasts DEF OthersKept
<1>11. PendingOK'
  BY <1>7 DEF OInv, PendingOK
<1>12. ASSUME NEW p \in Objectives, p # o, ~Called(x, p),
              KeyOf[p] = k => Lapsed(k) \/ ~InProgress(p)
       PROVE  Ordered(p)'
  <2>1. \A u \in Threads :
          /\ OnceCalled(calls[u], p) => OnceCalled(calls'[u], p)
          /\ \A c \in Objs(calls'[u]) : c.obj = p => c \in Objs(calls[u])
    BY <1>6, <1>8, <1>9, <1>12 DEF Threads, Called, Leaving
  <2>2. ~Lapsed(KeyOf[p]) /\ InProgress(p) /\ First(p) => First(p)'
    BY <1>8, <1>12, ConstantsAssumption DEF First
  <2>3. Ordered(p) /\ (Lapsed(KeyOf[p]) => Lapsed(KeyOf[p])')
    BY <1>10, ConstantsAssumption DEF OInv
  <2> QED BY <1>0, <1>7, <1>12, <2>1, <2>2, <2>3, KeptOrdered DEF OthersKept
<1>13. Ordered(o)'
  <2> SUFFICES ASSUME ~Lapsed(KeyOf[o])'
               PROVE  /\ Weight(o)' = 0
                      /\ \A t \in Threads : ~Called(calls'[t], o) /\ OnceCalled(calls'[t], o)
                      /\ ~Pending(o)'
                      /\ \A i \in NextIds : /\ OnceIn(pendingForwards'[i], o)
                                            /\ OnceIn(pendingNexts'[i], o)
    BY GoneOrdered
  <2>1. ~Lapsed(KeyOf[o])
    BY <1>1, <1>10
  <2>2. /\ Alone(o) /\ ~Pending(o) /\ Weight(o)' = 0
        /\ ~Called(calls["notifier"], o) /\ ~Called(rest, o)
        /\ OnceCalled(rest, o)
    BY <2>1 DEF Leaving, Alone, Threads
  <2>3. ~Called(x, o)
    BY <1>5, <1>6 DEF Called
  <2>4. ~Called(calls'["manager"], o) /\ OnceCalled(calls'["manager"], o)
    BY <1>6, <1>8, <1>9, <2>2, <2>3
  <2>5. ~Pending(o)'
    BY <1>7, <2>2 DEF Pending
  <2> QED BY <1>7, <1>8, <2>2, <2>4, <2>5 DEF Alone, Threads
<1>14. ASSUME NEW p \in Objectives, p # o, KeyOf[p] = k, ~Lapsed(k)
       PROVE  ~InProgress(p)
  <2>1. First(o)
    BY <1>1, <1>14 DEF Leaving
  <2>2. InProgress(p) => First(p)
    BY <1>14 DEF OInv, Ordered
  <2> QED BY <1>1, <1>14, <2>1, <2>2 DEF First
<1>15. ASSUME NEW p \in Objectives, p # o, Called(x, p)
       PROVE  Ordered(p)'
  <2> SUFFICES ASSUME ~Lapsed(k)'
               PROVE  Alone(p)' /\ Settled(p)' /\ First(p)'
    BY <1>5, <1>6, <1>15 DEF Ordered, Called
  <2>1. p = r[1] /\ r # << >> /\ KeyOf[p] = k /\ p \in Objs(queue[k])
    BY <1>5, <1>6, <1>15 DEF Called
  <2>2. ~Lapsed(k) /\ ~InProgress(p)
    BY <1>10, <1>14, <1>15, <2>1
  <2>3. ~failed[p]
    <3>1. ~ToBeDequeued(p)
      BY <2>2 DEF ToBeDequeued, InProgress, InCalls, Threads
    <3> QED BY <2>1, <3>1 DEF IInv, FailedOK
  <2>4. Alone(p) /\ Weight(p) = 0 /\ ~InCalls(p) /\ ~Pending(p)
    BY <1>0, <2>1, <2>2, WeightFacts DEF OInv, Ordered
  <2>5. Weight(p)' = 0 /\ ~Pending(p)' /\ ~failed'[p]
    BY <1>7, <1>15, <2>3, <2>4 DEF Weight, InPipeline, Pending, OthersKept
  <2>6. ~Called(rest, p) /\ OnceCalled(rest, p)
    BY <2>4 DEF Leaving, InCalls, Called, Alone, Threads
  <2>7. OnceCalled(calls'["manager"], p)
    BY <1>6, <1>8, <1>9, <2>6
  <2>8. OnceCalled(calls'["notifier"], p) /\ ~Called(calls'["notifier"], p)
    BY <1>8, <2>4 DEF Alone, InCalls, Called, Threads
  <2>9. Alone(p)'
    BY <1>7, <2>4, <2>5, <2>7, <2>8 DEF Alone, Threads
  <2>10. First(p)'
    BY <1>8, <2>1 DEF First
  <2> QED BY <2>5, <2>9, <2>10 DEF Settled
<1> QED BY <1>11, <1>12, <1>13, <1>14, <1>15 DEF OInv

LEMMA DequeueOrdered ==
  ASSUME IInv, TypeOK', OInv, NEW o \in Objectives, NEW e \in Errors,
         NEW rest \in Seq(Calls), Dequeue(o, e, rest),
         Leaving(o, rest), OthersKept(o)
  PROVE  OInv'
<1>1. CASE ~(OpOf[o] \in NextOps /\ e # "none")
  BY <1>1, RemoveOrdered DEF Dequeue
<1>2. CASE OpOf[o] \in NextOps /\ e # "none"
  <2> USE DEF pipeline
  <2>0. /\ TypeOK /\ calls \in [Threads -> Seq(Calls)]
        /\ pendingForwards \in [NextIds -> Seq(Objectives)]
        /\ pendingNexts \in [NextIds -> Seq(Objectives)]
    BY DEF IInv, TypeOK
  <2>1. PICK i \in NextIds : i = NextOf[o]
    BY <1>2, ConstantsAssumption
  <2>2. PICK w : w = pendingForwards[i] \o pendingNexts[i]
    OBVIOUS
  <2>3. PICK f : f = [j \in 1..Len(w) |-> Call("onError", w[j], e)]
    OBVIOUS
  <2>4. PICK d : d = Call("dequeue", o, e)
    OBVIOUS
  <2>5. PICK y : y = <<d>>
    OBVIOUS
  <2>6. /\ pendingForwards' = [pendingForwards EXCEPT ![i] = << >>]
        /\ pendingNexts' = [pendingNexts EXCEPT ![i] = << >>]
        /\ calls' = [calls EXCEPT !["manager"] = f \o y \o rest]
        /\ UNCHANGED queue
    BY <1>2, <2>1, <2>2, <2>3, <2>4, <2>5 DEF Dequeue
  <2>7. /\ w \in Seq(Objectives)
        /\ Objs(w) = Objs(pendingForwards[i]) \union Objs(pendingNexts[i])
    BY <2>0, <2>2, ConcatFacts
  <2>8. /\ f \in Seq(Calls)
        /\ \A p \in Objectives : /\ OnceIn(w, p) => OnceCalled(f, p)
                                 /\ Called(f, p) <=> p \in Objs(w)
    BY <2>3, <2>7, ErrorCallsFacts, ErrorCallsOnce
  <2>9. /\ y \in Seq(Calls)
        /\ \A p \in Objectives : OnceCalled(y, p) /\ (Called(y, p) <=> p = o)
        /\ \A c \in Objs(y) : c.op = "dequeue"
    <3>1. d \in Calls /\ d.op = "dequeue" /\ d.obj = o
      BY <2>4, CallFacts
    <3> QED BY <2>5, <3>1, OneOnce, OneFacts
  <2>a. PICK z : z = f \o y
    OBVIOUS
  <2>10. /\ z \in Seq(Calls)
         /\ Objs(z) = Objs(f) \union Objs(y)
         /\ \A p \in Objectives :
              /\ Called(z, p) <=> Called(f, p) \/ Called(y, p)
              /\ OnceCalled(f, p) /\ OnceCalled(y, p) /\ ~(Called(f, p) /\ Called(y, p))
                   => OnceCalled(z, p)
    BY <2>8, <2>9, <2>a, ConcatOnce, ConcatFacts
  <2>11. /\ Objs(z \o rest) = Objs(z) \union Objs(rest)
         /\ \A p \in Objectives :
              /\ Called(z \o rest, p) <=> Called(z, p) \/ Called(rest, p)
              /\ OnceCalled(z, p) /\ OnceCalled(rest, p) /\ ~(Called(z, p) /\ Called(rest, p))
                   => OnceCalled(z \o rest, p)
    BY <2>10, ConcatOnce, ConcatFacts
  <2>12. calls'["manager"] = z \o rest /\ calls'["notifier"] = calls["notifier"]
    BY <2>0, <2>6, <2>a DEF Threads
  <2>13. /\ pendingForwards'[i] = << >> /\ pendingNexts'[i] = << >>
         /\ \A j \in NextIds \ {i} : /\ pendingForwards'[j] = pendingForwards[j]
                                     /\ pendingNexts'[j] = pendingNexts[j]
    BY <2>0, <2>6
  <2>14. \A j \in NextIds, p \in Objectives :
           /\ OnceIn(pendingForwards[j], p) => OnceIn(pendingForwards'[j], p)
           /\ OnceIn(pendingNexts[j], p) => OnceIn(pendingNexts'[j], p)
           /\ p \in Objs(pendingForwards'[j]) => p \in Objs(pendingForwards[j])
           /\ p \in Objs(pendingNexts'[j]) => p \in Objs(pendingNexts[j])
    BY <2>13, EmptyOnce, EmptyFacts
  <2>15. \A j \in Keys : Lapsed(j) => Lapsed(j)'
    BY LapsedLasts DEF OthersKept
  <2>16. PendingOK'
    BY <2>13, <2>14, EmptyFacts DEF OInv, PendingOK
  <2>17. ASSUME NEW p \in Objectives, p # o, p \notin Objs(w) PROVE Ordered(p)'
    <3>1. OnceIn(w, p)
      BY <2>17 DEF OnceIn, Objs
    <3>2. ~Called(f, p) /\ ~Called(y, p) /\ OnceCalled(f, p) /\ OnceCalled(y, p)
      BY <2>8, <2>9, <2>17, <3>1
    <3>3. ~Called(z, p) /\ OnceCalled(z, p)
      BY <2>10, <3>2
    <3>4. \A u \in Threads :
            /\ OnceCalled(calls[u], p) => OnceCalled(calls'[u], p)
            /\ \A c \in Objs(calls'[u]) : c.obj = p => c \in Objs(calls[u])
      BY <2>11, <2>12, <3>3 DEF Threads, Called, Leaving
    <3>5. First(p) => First(p)'
      BY <2>6 DEF First
    <3>6. Ordered(p) /\ (Lapsed(KeyOf[p]) => Lapsed(KeyOf[p])')
      BY <2>15, ConstantsAssumption DEF OInv
    <3> QED BY <2>0, <2>14, <2>17, <3>4, <3>5, <3>6, KeptOrdered DEF OthersKept
  <2>18. ASSUME NEW p \in Objectives, p # o, p \in Objs(w) PROVE Ordered(p)'
    <3> SUFFICES ASSUME ~Lapsed(KeyOf[p])'
                 PROVE  Alone(p)' /\ Settled(p)' /\ First(p)'
      BY DEF Ordered
    <3>1. ~Lapsed(KeyOf[p])
      BY <2>15, ConstantsAssumption
    <3>2. Alone(p) /\ Settled(p) /\ (InProgress(p) => First(p))
      BY <3>1 DEF OInv, Ordered
    <3>3. Pending(p)
      BY <2>7, <2>18 DEF Pending
    <3>4. InProgress(p) /\ First(p) /\ ~failed[p] /\ ~InCalls(p)
      BY <3>2, <3>3 DEF InProgress, Settled, Alone
    <3>5. Weight(p) = 0
      BY <2>0, <3>2, <3>3, WeightFacts DEF Alone
    <3>6. First(p)' /\ Settled(p)'
      BY <2>6, <2>18, <3>4 DEF First, Settled, OthersKept
    <3>7. Weight(p)' = 0
      BY <2>18, <3>5 DEF Weight, InPipeline, OthersKept
    <3>8. PendingOK
      BY DEF OInv
    <3>9. NextOf[p] = i /\ ~(p \in Objs(pendingForwards[i]) /\ p \in Objs(pendingNexts[i]))
      BY <2>7, <2>18, <3>8 DEF PendingOK
    <3>10. ~Pending(p)'
      <4> SUFFICES ASSUME NEW j \in NextIds,
                          p \in Objs(pendingForwards'[j]) \union Objs(pendingNexts'[j])
                   PROVE  FALSE
        BY DEF Pending
      <4>1. p \in Objs(pendingForwards[j]) \union Objs(pendingNexts[j])
        BY <2>14
      <4>2. j = i
        BY <3>8, <3>9, <4>1 DEF PendingOK
      <4> QED BY <2>13, <4>2, EmptyFacts
    <3>11. OnceIn(w, p)
      BY <2>0, <2>2, <3>2, <3>9, ConcatOnceIn DEF Alone
    <3>12. OnceCalled(f, p) /\ OnceCalled(y, p) /\ ~Called(y, p)
      BY <2>8, <2>9, <2>18, <3>11
    <3>13. OnceCalled(z, p)
      BY <2>10, <3>12
    <3>14. ~Called(rest, p) /\ OnceCalled(rest, p)
      BY <3>2, <3>4 DEF Leaving, InCalls, Called, Alone, Threads
    <3>15. OnceCalled(calls'["manager"], p)
      BY <2>11, <2>12, <3>13, <3>14
    <3>16. OnceCalled(calls'["notifier"], p) /\ ~Called(calls'["notifier"], p)
      BY <2>12, <3>2, <3>4 DEF Alone, InCalls, Called, Threads
    <3>17. Alone(p)'
      BY <2>14, <3>2, <3>7, <3>10, <3>15, <3>16 DEF Alone, Threads
    <3> QED BY <3>6, <3>17
  <2>19. Ordered(o)'
    <3> SUFFICES ASSUME ~Lapsed(KeyOf[o])'
                 PROVE  Alone(o)' /\ Settled(o)' /\ First(o)'
      BY DEF Ordered
    <3>1. ~Lapsed(KeyOf[o])
      BY <2>15, ConstantsAssumption
    <3>2. /\ Alone(o) /\ First(o) /\ ~Pending(o) /\ Weight(o)' = 0
          /\ ~Called(calls["notifier"], o) /\ ~Called(rest, o)
          /\ OnceCalled(rest, o)
      BY <3>1 DEF Leaving, Alone, Threads
    <3>3. o \notin Objs(w)
      BY <2>7, <3>2 DEF Pending
    <3>4. OnceIn(w, o)
      BY <3>3 DEF OnceIn, Objs
    <3>5. OnceCalled(f, o) /\ ~Called(f, o) /\ OnceCalled(y, o)
      BY <2>8, <2>9, <3>3, <3>4
    <3>6. OnceCalled(z, o)
      BY <2>10, <3>5
    <3>7. OnceCalled(calls'["manager"], o)
      BY <2>11, <2>12, <3>2, <3>6
    <3>8. OnceCalled(calls'["notifier"], o) /\ ~Called(calls'["notifier"], o)
      BY <2>12, <3>2 DEF Alone, Threads
    <3>9. ~Pending(o)'
      BY <2>14, <3>2 DEF Pending
    <3>10. Alone(o)'
      BY <2>14, <3>2, <3>7, <3>8, <3>9 DEF Alone, Threads
    <3>11. InPipeline(o)' = 0
      BY <3>2, WeightIsAfter
    <3>12. \A t \in Threads : \A c \in Objs(calls'[t]) : c.obj = o => c.op = "dequeue"
      BY <2>9, <2>10, <2>11, <2>12, <3>2, <3>5, <3>8 DEF Called, Threads
    <3>13. Settled(o)'
      BY <3>9, <3>11, <3>12 DEF Settled
    <3>14. First(o)'
      BY <2>6, <3>2 DEF First
    <3> QED BY <3>10, <3>13, <3>14
  <2> QED BY <2>16, <2>17, <2>18, <2>19 DEF OInv
<1> QED BY <1>1, <1>2

LEMMA StartDequeueOrdered ==
  ASSUME IInv, IInv', OInv, NEW o \in Objectives, NEW e \in Errors,
         StartDequeue(o, e)
  PROVE  OInv'
<1>0. TypeOK /\ TypeOK'
  BY DEF IInv
<1>1. /\ calls["manager"] = << >> /\ finishing[o][e] > 0
      /\ finishing' = [finishing EXCEPT ![o][e] = @ - 1]
      /\ Dequeue(o, e, << >>)
      /\ UNCHANGED <<failed, expired, pipeline>>
  BY DEF StartDequeue
<1>2. Answering(o)' = Answering(o) - 1
  BY <1>0, <1>1, AnsweringShrinks
<1>3. \A p \in Objectives \ {o} : finishing'[p] = finishing[p]
  BY <1>0, <1>1, AnsweringShrinks
<1>4. OthersKept(o)
  BY <1>1, <1>3 DEF OthersKept
<1>5. InPipeline(o)' = InPipeline(o)
  BY <1>1 DEF InPipeline, pipeline
<1>6. ASSUME ~Lapsed(KeyOf[o])
      PROVE  /\ InProgress(o) /\ Alone(o) /\ First(o) /\ ~Pending(o)
             /\ ~Called(calls["notifier"], o) /\ Weight(o)' = 0
  <2>1. Alone(o) /\ (InProgress(o) => First(o))
    BY <1>6 DEF OInv, Ordered
  <2>2. Weight(o) > 0 /\ InProgress(o)
    BY <1>0, <1>1, WeightFacts
  <2>3. ~Pending(o) /\ ~Called(calls["notifier"], o) /\ Weight(o) <= 1
    BY <2>1, <2>2, CalledFacts DEF Alone
  <2>4. Weight(o)' = 0
    BY <1>0, <1>2, <1>5, <2>2, <2>3, WeightIs, WeightIsAfter
  <2> QED BY <2>1, <2>2, <2>3, <2>4
<1>7. Leaving(o, << >>)
  BY <1>1, <1>6, EmptyFacts, EmptyOnce DEF Leaving
<1> QED BY <1>0, <1>1, <1>4, <1>7, EmptySeq, DequeueOrdered

\* The head call of the lock's holder is all that keeps its objective in
\* execution.
LEMMA CallLeaving ==
  ASSUME IInv, OInv, calls["manager"] # << >>, NEW o,
         o = Head(calls["manager"]).obj, UNCHANGED <<finishing, pipeline>>
  PROVE  Leaving(o, Tail(calls["manager"])) /\ o \in Objectives
<1>1. "manager" \in Threads /\ "notifier" \in Threads \ {"manager"}
  BY DEF Threads
<1>2. Weight(o)' = Weight(o)
  BY DEF Weight, InPipeline, pipeline
<1> QED BY <1>1, <1>2, FirstCall DEF Leaving

LEMMA FinishDequeueOrdered ==
  ASSUME IInv, IInv', OInv, FinishDequeue
  PROVE  OInv'
<1>1. PICK c : c = Head(calls["manager"])
  OBVIOUS
<1>2. PICK rest : rest = Tail(calls["manager"])
  OBVIOUS
<1>3. calls["manager"] # << >> /\ "manager" \in Threads
  BY DEF FinishDequeue, Threads
<1>4. c.error \in Errors /\ rest \in Seq(Calls) /\ TypeOK'
  BY <1>1, <1>2, <1>3, TailFacts DEF IInv
<1>5. /\ Remove(c.obj, c.error, rest)
      /\ UNCHANGED <<failed, finishing, expired, pending, pipeline>>
  BY <1>1, <1>2 DEF FinishDequeue
<1>6. Leaving(c.obj, rest) /\ c.obj \in Objectives
  BY <1>1, <1>2, <1>3, <1>5, CallLeaving
<1>7. OthersKept(c.obj)
  BY <1>5 DEF OthersKept
<1> QED BY <1>4, <1>5, <1>6, <1>7, RemoveOrdered

LEMMA PendingErrorOrdered ==
  ASSUME IInv, IInv', OInv, PendingError
  PROVE  OInv'
<1>1. PICK c : c = Head(calls["manager"])
  OBVIOUS
<1>2. PICK rest : rest = Tail(calls["manager"])
  OBVIOUS
<1>3. calls["manager"] # << >> /\ "manager" \in Threads /\ c.op = "onError"
  BY <1>1 DEF PendingError, Threads
<1>4. c.error \in Errors /\ rest \in Seq(Calls) /\ TypeOK' /\ TypeOK
  BY <1>1, <1>2, <1>3, TailFacts DEF IInv
<1>5. UNCHANGED <<finishing, expired, pipeline>>
  BY DEF PendingError
<1>6. Leaving(c.obj, rest) /\ c.obj \in Objectives
  BY <1>1, <1>2, <1>3, <1>5, CallLeaving
<1>7. CASE ~failed[c.obj]
  <2>1. /\ failed' = [failed EXCEPT ![c.obj] = TRUE]
        /\ Dequeue(c.obj, c.error, rest)
    BY <1>1, <1>2, <1>7 DEF PendingError
  <2>2. OthersKept(c.obj)
    BY <1>4, <1>5, <2>1 DEF OthersKept, TypeOK
  <2> QED BY <1>4, <1>6, <2>1, <2>2, DequeueOrdered
<1>8. CASE failed[c.obj]
  <2>1. /\ calls' = [calls EXCEPT !["manager"] = rest]
        /\ UNCHANGED <<queue, failed, pendingForwards, pendingNexts>>
    BY <1>1, <1>2, <1>8 DEF PendingError, pending
  <2>2. calls'["manager"] = rest /\ calls'["notifier"] = calls["notifier"]
    BY <1>4, <2>1 DEF TypeOK, Threads
  <2>3. PendingOK'
    BY <2>1 DEF OInv, PendingOK
  <2>4. ASSUME NEW p \in Objectives PROVE Ordered(p)'
    <3>1. \A u \in Threads :
            /\ OnceCalled(calls[u], p) => OnceCalled(calls'[u], p)
            /\ \A x \in Objs(calls'[u]) : x.obj = p => x \in Objs(calls[u])
      BY <1>6, <2>2 DEF Threads, Leaving
    <3>2. First(p) => First(p)'
      BY <2>1 DEF First
    <3>3. Ordered(p) /\ (Lapsed(KeyOf[p]) => Lapsed(KeyOf[p])')
      BY <1>5, LapsedLasts DEF OInv
    <3> QED BY <1>4, <1>5, <2>1, <3>1, <3>2, <3>3, KeptOrdered DEF pipeline
  <2> QED BY <2>3, <2>4 DEF OInv
<1> QED BY <1>7, <1>8

-----------------------------------------------------------------------------
(* The invariant *)

LEMMA InitOrdered == Init => OInv
<1> SUFFICES ASSUME Init PROVE OInv
  OBVIOUS
<1>1. \A i \in NextIds : pendingForwards[i] = << >> /\ pendingNexts[i] = << >>
  BY DEF Init
<1>2. \A t \in Threads : calls[t] = << >>
  BY DEF Init
<1>3. PendingOK
  BY <1>1, EmptyFacts DEF PendingOK
<1>4. ASSUME NEW o \in Objectives PROVE Ordered(o)
  <2>1. ~InProgress(o) /\ ~failed[o]
    BY InitIInv DEF Init, IInv, SubmittedOK, Unknown
  <2>2. TypeOK
    BY InitIInv DEF IInv
  <2>3. Weight(o) = 0 /\ ~InCalls(o) /\ ~Pending(o)
    BY <2>1, <2>2, WeightFacts
  <2>4. Alone(o)
    BY <1>1, <1>2, <2>3, EmptyOnce DEF Alone, Threads
  <2> QED BY <2>1, <2>4 DEF Ordered, Settled
<1> QED BY <1>3, <1>4 DEF OInv

LEMMA OrderInvariance == Spec => []OInv
<1>1. IInv /\ IInv' /\ OInv /\ [Next]_vars => OInv'
  <2> SUFFICES ASSUME IInv, IInv', OInv, [Next]_vars PROVE OInv'
    OBVIOUS
  <2>1. ASSUME NEW o \in Objectives, Enqueue(o) PROVE OInv'
    BY <2>1, EnqueueOrdered
  <2>2. ASSUME NEW t \in Threads, Execute(t) PROVE OInv'
    BY <2>2, ExecuteOrdered
  <2>3. ASSUME NEW t \in Threads, QueueObjective(t) PROVE OInv'
    BY <2>3, QueueObjectiveOrdered
  <2>4. ASSUME NEW o \in Objectives, NEW e \in Errors, StartDequeue(o, e) PROVE OInv'
    BY <2>4, StartDequeueOrdered
  <2>5. ASSUME NEW k \in Keys, Expire(k) PROVE OInv'
    BY <2>5, ExpireOrdered
  <2>6. ASSUME NEW o \in Objectives, ReportExpired(o) PROVE OInv'
    BY <2>6, ReportExpiredOrdered
  <2>7. ASSUME NEW o \in Objectives, Process(o) PROVE OInv'
    BY <2>7, ProcessOrdered
  <2>8. ASSUME NEW o \in Objectives, NoPipeliner(o) PROVE OInv'
    BY <2>8, NoPipelinerOrdered
  <2>9. ASSUME NEW o \in Objectives, Apply(o) PROVE OInv'
    BY <2>9, ApplyOrdered
  <2>10. ASSUME NEW o \in Objectives, Succeed(o) PROVE OInv'
    BY <2>10, SucceedOrdered
  <2>11. ASSUME NEW o \in Objectives, Fail(o) PROVE OInv'
    BY <2>11, FailOrdered
  <2>12. CASE FinishDequeue
    BY <2>12, FinishDequeueOrdered
  <2>13. CASE PendingError
    BY <2>13, PendingErrorOrdered
  <2>14. CASE TakeEvent
    BY <2>14, TakeEventOrdered
  <2>15. CASE NotifyForwards
    BY <2>15, NotifyForwardsOrdered
  <2>16. CASE NotifyNexts
    BY <2>16, NotifyNextsOrdered
  <2>17. CASE UNCHANGED vars
    BY <2>17, StutterOrdered
  <2> QED BY <2>1, <2>2, <2>3, <2>4, <2>5, <2>6, <2>7, <2>8, <2>9, <2>10, <2>11,
             <2>12, <2>13, <2>14, <2>15, <2>16, <2>17 DEF Next
<1> QED BY <1>1, InitOrdered, Invariance, PTL DEF Spec

\* As long as no objective of a queue key has timed out, only the first of its
\* queue is in execution, whatever the interleaving of clients, installers,
\* pipeliner and notifier (enqueue, dequeue, execute and
\* InOrderObjectiveContext).
THEOREM ExecutedInOrder == Spec => []OneAtATime
<1>1. OInv => OneAtATime
  BY DEF OInv, Ordered, OneAtATime, First
<1> QED BY <1>1, OrderInvariance, PTL

=============================================================================

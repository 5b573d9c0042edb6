--------------------------- MODULE SchedulerProofs ---------------------------
(***************************************************************************)
(* Proofs about Scheduler, for any number of threads, callbacks and tasks. *)
(***************************************************************************)
EXTENDS Scheduler, FiniteSetTheorems, SequenceTheorems, TLAPS

Item == [time: Nat, kind: {"process", "job", "repeat"}]

Busy == {"callback", "clear"}

(***************************************************************************)
(* The inductive invariant.  The callbacks pending are those added and not *)
(* started, in order: without this nothing is known of the number of the   *)
(* one that ProcessQueue takes.  The thread that shuts down leaves its     *)
(* place only after it has said so: without this a callback could wait for *)
(* EmptyQueue before the end.                                              *)
(***************************************************************************)
Types ==
    /\ taskQueue \in Seq(Item)
    /\ pc \in [Thread -> Label] /\ task \in [Thread -> Item]
    /\ running \in BOOLEAN
    /\ added \in Nat /\ started \in Nat /\ done \in Nat

InOrder ==
    /\ pending \in Seq(Nat)
    /\ Len(pending) = added - started
    /\ \A i \in 1 .. Len(pending) : pending[i] = started + i

ToldFirst == pc[Main] # "ready" => stop # "no"

Inv == Types /\ InOrder /\ ToldFirst /\ Serial /\ NeverForgotten

-----------------------------------------------------------------------------
(* taskQueue.insert keeps the tasks that are there and adds the new one.   *)
LEMMA InsertAtFacts ==
    ASSUME NEW S, NEW s \in Seq(S), NEW i \in 1 .. Len(s) + 1, NEW e \in S
    PROVE  /\ InsertAt(s, i, e) \in Seq(S)
           /\ \E j \in DOMAIN InsertAt(s, i, e) : InsertAt(s, i, e)[j] = e
           /\ \A k \in DOMAIN s :
                 \E j \in DOMAIN InsertAt(s, i, e) : InsertAt(s, i, e)[j] = s[k]
<1> DEFINE a == SubSeq(s, 1, i - 1)
           b == SubSeq(s, i, Len(s))
           ae == a \o <<e>>
<1>1. /\ a \in Seq(S) /\ Len(a) = i - 1
      /\ \A k \in 1 .. i - 1 : a[k] = s[k]
  <2>1. \A k \in 1 .. i - 1 : s[k] \in S
        BY ElementOfSeq
  <2> QED BY <2>1, SubSeqProperties
<1>2. /\ b \in Seq(S) /\ Len(b) = Len(s) - i + 1
      /\ \A k \in 1 .. Len(s) - i + 1 : b[k] = s[i + k - 1]
  <2>1. \A k \in i .. Len(s) : s[k] \in S
        BY ElementOfSeq
  <2> QED BY <2>1, SubSeqProperties
<1>3. /\ <<e>> \in Seq(S) /\ Len(<<e>>) = 1 /\ <<e>>[1] = e
      OBVIOUS
<1> HIDE DEF a, b
<1>4. /\ ae \in Seq(S) /\ Len(ae) = i
      /\ \A k \in 1 .. i : ae[k] = IF k <= i - 1 THEN a[k] ELSE <<e>>[k - (i - 1)]
      BY <1>1, <1>3, ConcatProperties
<1> HIDE DEF ae
<1> DEFINE r == ae \o b
<1>5. /\ r \in Seq(S) /\ Len(r) = Len(s) + 1
      /\ \A k \in 1 .. Len(s) + 1 : r[k] = IF k <= i THEN ae[k] ELSE b[k - i]
  <2>1. /\ r \in Seq(S) /\ Len(r) = Len(ae) + Len(b)
        /\ \A k \in 1 .. Len(ae) + Len(b) :
               r[k] = IF k <= Len(ae) THEN ae[k] ELSE b[k - Len(ae)]
        BY <1>2, <1>4, ConcatProperties
  <2>2. Len(ae) + Len(b) = Len(s) + 1 /\ Len(ae) = i
        BY <1>2, <1>4
  <2> HIDE DEF r
  <2> QED BY <2>1, <2>2
<1>6. InsertAt(s, i, e) = r
      BY DEF InsertAt, r, ae, a, b
<1> HIDE DEF r
<1>7. DOMAIN r = 1 .. Len(s) + 1 /\ DOMAIN s = 1 .. Len(s) /\ Len(s) \in Nat
      BY <1>5
<1>8. r[i] = e
      BY <1>3, <1>4, <1>5
<1>9. ASSUME NEW k \in 1 .. Len(s), k < i PROVE r[k] = s[k]
  <2>1. r[k] = ae[k] /\ ae[k] = a[k]
        BY <1>4, <1>5, <1>9
  <2> QED BY <2>1, <1>1, <1>9
<1>10. ASSUME NEW k \in 1 .. Len(s), k >= i PROVE r[k + 1] = s[k]
  <2>1. r[k + 1] = b[k + 1 - i]
        BY <1>5, <1>10
  <2>2. b[k + 1 - i] = s[k]
        BY <1>2, <1>10
  <2> QED BY <2>1, <2>2
<1>11. ASSUME NEW k \in DOMAIN s PROVE \E j \in DOMAIN r : r[j] = s[k]
  <2>1. CASE k < i
        BY <2>1, <1>7, <1>9
  <2>2. CASE k >= i
    <3>1. k + 1 \in DOMAIN r /\ r[k + 1] = s[k]
          BY <2>2, <1>7, <1>10
    <3> QED BY <3>1
  <2> QED BY <2>1, <2>2, <1>7
<1> QED BY <1>5, <1>6, <1>7, <1>8, <1>11

(* So does schedule(), which inserts after all tasks due no later.         *)
LEMMA InsertedFacts ==
    ASSUME taskQueue \in Seq(Item), NEW k \in Item
    PROVE  /\ Inserted(k) \in Seq(Item)
           /\ \E j \in DOMAIN Inserted(k) : Inserted(k)[j] = k
           /\ \A i \in DOMAIN taskQueue :
                 \E j \in DOMAIN Inserted(k) : Inserted(k)[j] = taskQueue[i]
<1> DEFINE before == {i \in DOMAIN taskQueue : taskQueue[i].time <= k.time}
<1>1. before \in SUBSET (1 .. Len(taskQueue)) /\ Len(taskQueue) \in Nat
      OBVIOUS
<1>2. /\ IsFiniteSet(1 .. Len(taskQueue))
      /\ Cardinality(1 .. Len(taskQueue)) = Len(taskQueue)
      BY <1>1, FS_Interval
<1>3. IsFiniteSet(before) /\ Cardinality(before) <= Len(taskQueue)
      BY <1>1, <1>2, FS_Subset
<1>4. Cardinality(before) + 1 \in 1 .. Len(taskQueue) + 1
      BY <1>1, <1>3, FS_CardinalityType
<1> HIDE DEF before
<1>5. Inserted(k) = InsertAt(taskQueue, Cardinality(before) + 1, k)
      BY DEF Inserted, before
<1> QED BY <1>4, <1>5, InsertAtFacts

-----------------------------------------------------------------------------
(* The task that Repeat schedules is one.                                  *)
LEMMA RepeatedItem == ASSUME SchedulerAssumption PROVE Repeated \in Item
BY DEF SchedulerAssumption, Repeated, Item

(* Time passes for a task, which stays what it is.                         *)
LEMMA SoonerFacts ==
    ASSUME NEW k \in Item
    PROVE  Sooner(k) \in Item /\ Sooner(k).kind = k.kind
BY DEF Item, Sooner

-----------------------------------------------------------------------------
(* A notification moves threads only from a wait to the head of the loop.  *)
Notified(p, q) ==
    /\ q \in [Thread -> Label]
    /\ \A t \in Thread : \/ q[t] = p[t]
                         \/ t \in Worker /\ p[t] \in {"idle", "timed"} /\ q[t] = "loop"

(* notify_one is such a notification, ...                                  *)
LEMMA NotifyOneFacts ==
    ASSUME NEW p \in [Thread -> Label], NEW q \in NotifyOne(p)
    PROVE  Notified(p, q)
<1>1. CASE Waiting(p) = {}
      BY <1>1 DEF NotifyOne, Notified
<1>2. CASE Waiting(p) # {}
  <2>1. PICK w \in Waiting(p) : q = [p EXCEPT ![w] = "loop"]
        BY <1>2 DEF NotifyOne
  <2>2. w \in Worker /\ w \in Thread /\ p[w] \in {"idle", "timed"}
        BY DEF Waiting, Thread
  <2> QED BY <2>1, <2>2 DEF Notified, Label
<1> QED BY <1>1, <1>2

(* ... and so is notify_all.                                               *)
LEMMA NotifyAllFacts ==
    ASSUME NEW p \in [Thread -> Label]
    PROVE  Notified(p, NotifyAll(p))
BY DEF NotifyAll, Notified, Waiting, Label, Thread

(* Steps that neither begin nor end a callback.                            *)
LEMMA SerialFrame ==
    ASSUME Inv, pc' \in [Thread -> Label], UNCHANGED <<running, started, done>>,
           \A t \in Thread : /\ pc'[t] \in Busy <=> pc[t] \in Busy
                             /\ pc'[t] = "callback" <=> pc[t] = "callback"
    PROVE  Serial'
<1>1. /\ running <=> \E t \in Thread : pc[t] \in Busy
      /\ running' <=> \E t \in Thread : pc'[t] \in Busy
      BY DEF Inv, Serial, Busy
<1>2. \A t, u \in Thread : pc'[t] \in Busy /\ pc'[u] \in Busy => t = u
      BY DEF Inv, Serial, Busy
<1>3. started' = IF \E t \in Thread : pc'[t] = "callback" THEN done' + 1 ELSE done'
      BY DEF Inv, Serial
<1> QED BY <1>1, <1>2, <1>3 DEF Serial, Busy

(* A thread that will look for pending callbacks, or a task that will.     *)
Sees(p, k, t) ==
    \/ p[t] \in {"clear", "maybe", "insert", "again"}
    \/ p[t] = "run" /\ k[t].kind = "process"

Looked ==
    \/ \E i \in DOMAIN taskQueue : taskQueue[i].kind = "process"
    \/ \E t \in Thread : Sees(pc, task, t)

(* A step that changes nothing of the client, neither begins nor ends a    *)
(* callback and takes nobody away who will look keeps the invariant.       *)
LEMMA QuietStep ==
    ASSUME Inv, Types', UNCHANGED <<clientVars, stop>>,
           \A t \in Thread : /\ pc'[t] \in Busy <=> pc[t] \in Busy
                             /\ pc'[t] = "callback" <=> pc[t] = "callback",
           stop = "no" => pc'[Main] = pc[Main],
           pending # <<>> /\ ~running /\ stop = "no" /\ Looked => Looked'
    PROVE  Inv'
<1>1. InOrder'
      BY DEF Inv, InOrder, clientVars
<1>2. ToldFirst'
      BY DEF Inv, ToldFirst
<1>3. Serial'
      BY SerialFrame DEF Types, clientVars
<1>4. NeverForgotten'
      BY DEF Inv, NeverForgotten, Looked, Sees, clientVars
<1> QED BY <1>1, <1>2, <1>3, <1>4 DEF Inv

(* A single thread moves from l to m, with its task.                       *)
Moves(t, l, m) ==
    /\ pc[t] = l /\ pc' = [pc EXCEPT ![t] = m]
    /\ l \in Label /\ m \in Label
    /\ task' \in [Thread -> Item]
    /\ \A u \in Thread : u # t => task'[u] = task[u]

(* Nothing leaves the queue.                                               *)
QueueKept ==
    /\ taskQueue' \in Seq(Item)
    /\ \A i \in DOMAIN taskQueue :
          \E j \in DOMAIN taskQueue' : taskQueue'[j] = taskQueue[i]

(* A thread that moves within serviceQueue, with no callback concerned.    *)
LEMMA MoveKeeps ==
    ASSUME Inv, NEW t \in Thread, NEW l, NEW m, Moves(t, l, m),
           l \notin Busy, m \notin Busy, t = Main => stop # "no",
           taskQueue' \in Seq(Item), UNCHANGED <<clientVars, stop>>,
           pending # <<>> /\ ~running /\ stop = "no" /\ Looked => Looked'
    PROVE  Inv'
<1>1. pc \in [Thread -> Label] /\ Main \in Thread
      BY DEF Inv, Types, Thread
<1>2. \A u \in Thread : pc'[u] = IF u = t THEN m ELSE pc[u]
      BY <1>1 DEF Moves
<1>3. \A u \in Thread : /\ pc'[u] \in Busy <=> pc[u] \in Busy
                        /\ pc'[u] = "callback" <=> pc[u] = "callback"
      BY <1>2 DEF Moves, Busy
<1>4. pc' \in [Thread -> Label]
      BY <1>1 DEF Moves
<1>5. Types'
      BY <1>4 DEF Inv, Types, Moves, clientVars
<1> QED BY <1>1, <1>2, <1>3, <1>5, QuietStep

(* Whoever will look at the callbacks before such a step will after it.    *)
LEMMA LookedKept ==
    ASSUME Inv, NEW t \in Thread, NEW l, NEW m, Moves(t, l, m), QueueKept,
           ~Sees(pc, task, t)
    PROVE  Looked => Looked'
<1>1. \A u \in Thread : Sees(pc, task, u) => Sees(pc', task', u)
  <2> SUFFICES ASSUME NEW u \in Thread, Sees(pc, task, u) PROVE Sees(pc', task', u)
      OBVIOUS
  <2>1. u # t
        OBVIOUS
  <2>2. pc'[u] = pc[u] /\ task'[u] = task[u]
        BY <2>1 DEF Moves, Inv, Types
  <2> QED BY <2>2 DEF Sees
<1>2. \A i \in DOMAIN taskQueue : taskQueue[i].kind = "process" =>
          \E j \in DOMAIN taskQueue' : taskQueue'[j].kind = "process"
      BY DEF QueueKept
<1> QED BY <1>1, <1>2 DEF Looked

(* A thread that was notified by another looks for nothing either way.     *)
LEMMA NotifyKeeps ==
    ASSUME SchedulerAssumption, Inv, NEW t \in Thread, NEW l, NEW m,
           l \in Label, m \in Label, pc[t] = l, l \notin Busy, m \notin Busy,
           pc' \in NotifyOne([pc EXCEPT ![t] = m]), t = Main => stop # "no",
           ~Sees(pc, task, t), UNCHANGED <<taskQueue, task, clientVars, stop>>
    PROVE  Inv'
<1>1. /\ pc \in [Thread -> Label] /\ Main \in Thread /\ Main \notin Worker
      /\ [pc EXCEPT ![t] = m] \in [Thread -> Label]
      BY DEF Inv, Types, Thread, SchedulerAssumption
<1>2. Notified([pc EXCEPT ![t] = m], pc')
      BY <1>1, NotifyOneFacts
<1>3. /\ pc' \in [Thread -> Label]
      /\ \A u \in Thread : u # t => \/ pc'[u] = pc[u]
                                    \/ /\ u \in Worker /\ pc[u] \in {"idle", "timed"}
                                       /\ pc'[u] = "loop"
      /\ pc'[t] \in {m, "loop"}
      BY <1>1, <1>2 DEF Notified
<1>4. \A u \in Thread : /\ pc'[u] \in Busy <=> pc[u] \in Busy
                        /\ pc'[u] = "callback" <=> pc[u] = "callback"
      BY <1>3 DEF Busy
<1>5. stop = "no" => pc'[Main] = pc[Main]
      BY <1>1, <1>3
<1>6. \A u \in Thread : Sees(pc, task, u) => Sees(pc', task', u)
  <2> SUFFICES ASSUME NEW u \in Thread, Sees(pc, task, u) PROVE Sees(pc', task', u)
      OBVIOUS
  <2>1. u # t /\ pc[u] \notin {"idle", "timed"}
        BY DEF Sees
  <2>2. pc'[u] = pc[u]
        BY <1>3, <2>1
  <2> QED BY <2>2 DEF Sees
<1>7. Looked => Looked'
      BY <1>6 DEF Looked
<1>8. Types'
      BY <1>3 DEF Inv, Types, clientVars
<1> QED BY <1>4, <1>5, <1>7, <1>8, QuietStep

-----------------------------------------------------------------------------
(* The steps of a thread in serviceQueue.                                  *)
LEMMA WorkerKeeps ==
    ASSUME SchedulerAssumption, Inv, NEW w \in Worker,
           WorkerStep(w) \/ SpuriousWakeup(w)
    PROVE  Inv'
<1> USE DEF Label, Busy
<1>0. w \in Thread /\ w # Main /\ Types
      BY DEF SchedulerAssumption, Thread, Inv
<1>1. CASE ServiceLoop(w)
  <2>1. CASE shouldStop
        BY <1>0, <1>1, <2>1, NotifyKeeps DEF ServiceLoop, Sees, jobVars
  <2>2. CASE ~shouldStop /\ taskQueue = <<>>
    <3>1. Moves(w, "loop", "idle") /\ QueueKept
          BY <1>0, <1>1, <2>2 DEF ServiceLoop, Goto, Moves, QueueKept, Types
    <3>2. ~Sees(pc, task, w) /\ UNCHANGED <<clientVars, stop>>
          BY <1>1 DEF ServiceLoop, Sees
    <3> QED BY <1>0, <3>1, <3>2, MoveKeeps, LookedKept DEF QueueKept, Types
  <2>3. CASE ~shouldStop /\ taskQueue # <<>>
    <3>1. [NoTask EXCEPT !.time = Head(taskQueue).time] \in Item
          BY <1>0, <2>3, HeadTailProperties DEF Types, Item, NoTask
    <3>2. Moves(w, "loop", "timed") /\ QueueKept
          BY <1>0, <1>1, <2>3, <3>1 DEF ServiceLoop, Goto, Moves, QueueKept, Types
    <3>3. ~Sees(pc, task, w) /\ UNCHANGED <<clientVars, stop>>
          BY <1>1 DEF ServiceLoop, Sees
    <3> QED BY <1>0, <3>2, <3>3, MoveKeeps, LookedKept DEF QueueKept, Types
  <2> QED BY <2>1, <2>2, <2>3
<1>2. CASE TimeOut(w)
  <2>1. Moves(w, "timed", "late") /\ QueueKept
        BY <1>0, <1>2 DEF TimeOut, Goto, Moves, QueueKept, Types
  <2>2. ~Sees(pc, task, w) /\ UNCHANGED <<clientVars, stop>>
        BY <1>2 DEF TimeOut, Sees
  <2> QED BY <1>0, <2>1, <2>2, MoveKeeps, LookedKept DEF QueueKept, Types
<1>3. CASE SpuriousWakeup(w) \/ Interrupted(w)
  <2>1. PICK l \in {"idle", "timed"}, m \in {"loop", "out"} : Moves(w, l, m)
        BY <1>0, <1>3 DEF SpuriousWakeup, Interrupted, Waiting, Goto, Moves, Types
  <2>2. QueueKept /\ UNCHANGED <<clientVars, stop>>
        BY <1>0, <1>3 DEF SpuriousWakeup, Interrupted, QueueKept, Types
  <2>3. ~Sees(pc, task, w)
        BY <2>1 DEF Moves, Sees
  <2> QED BY <1>0, <2>1, <2>2, <2>3, MoveKeeps, LookedKept DEF QueueKept, Types
<1>4. CASE TakeTask(w)
  <2>0. ~Sees(pc, task, w) /\ UNCHANGED <<clientVars, stop>>
        BY <1>4 DEF TakeTask, Sees
  <2>1. CASE shouldStop \/ taskQueue = <<>>
    <3>1. Moves(w, "late", "loop") /\ QueueKept
          BY <1>0, <1>4, <2>1 DEF TakeTask, Goto, Moves, QueueKept, Types
    <3> QED BY <1>0, <2>0, <3>1, MoveKeeps, LookedKept DEF QueueKept, Types
  <2>2. CASE ~(shouldStop \/ taskQueue = <<>>)
    <3> DEFINE first == Head(taskQueue)
    <3>1. /\ first \in Item /\ Tail(taskQueue) \in Seq(Item)
          /\ Len(Tail(taskQueue)) = Len(taskQueue) - 1
          /\ \A i \in 1 .. Len(Tail(taskQueue)) : Tail(taskQueue)[i] = taskQueue[i + 1]
          BY <1>0, <2>2, HeadTailProperties DEF Types
    <3>2. first = taskQueue[1] /\ Len(taskQueue) \in Nat /\ DOMAIN taskQueue = 1 .. Len(taskQueue)
          BY <1>0, <2>2 DEF Types
    <3>3. [first EXCEPT !.time = 0] \in Item /\ [first EXCEPT !.time = 0].kind = first.kind
          BY <3>1 DEF Item
    <3>4. /\ taskQueue' = Tail(taskQueue)
          /\ task' = [task EXCEPT ![w] = [first EXCEPT !.time = 0]]
          /\ pc' = [pc EXCEPT ![w] = "run"] /\ pc[w] = "late"
          BY <1>4, <2>2 DEF TakeTask, Goto
    <3> HIDE DEF first
    <3>5. Moves(w, "late", "run")
          BY <1>0, <3>3, <3>4 DEF Moves, Types
    <3>6. pc'[w] = "run" /\ task'[w].kind = first.kind
          BY <1>0, <3>3, <3>4 DEF Types
    <3>7. Looked => Looked'
      <4>1. ASSUME NEW i \in DOMAIN taskQueue, taskQueue[i].kind = "process"
            PROVE  Looked'
        <5>1. CASE i = 1
              BY <1>0, <3>2, <3>6, <4>1, <5>1 DEF Looked, Sees
        <5>2. CASE i # 1
          <6>1. i - 1 \in DOMAIN taskQueue' /\ taskQueue'[i - 1] = taskQueue[i]
                BY <3>1, <3>2, <3>4, <5>2
          <6> QED BY <4>1, <6>1 DEF Looked
        <5> QED BY <5>1, <5>2
      <4>2. ASSUME NEW t \in Thread, Sees(pc, task, t) PROVE Looked'
        <5>1. t # w
              BY <2>0, <4>2
        <5>2. pc'[t] = pc[t] /\ task'[t] = task[t]
              BY <1>0, <3>4, <5>1 DEF Types
        <5> QED BY <4>2, <5>2 DEF Looked, Sees
      <4> QED BY <4>1, <4>2 DEF Looked
    <3> QED BY <1>0, <2>0, <3>1, <3>4, <3>5, <3>7, MoveKeeps DEF Types
  <2> QED BY <2>1, <2>2
<1>5. CASE RunJob(w)
  <2>0. /\ ~Sees(pc, task, w) /\ UNCHANGED <<clientVars, stop>>
        /\ pc[w] = "run" /\ task' = [task EXCEPT ![w] = NoTask] /\ NoTask \in Item
        BY <1>5 DEF RunJob, Sees, NoTask, Item
  <2>1. CASE task[w].kind = "repeat"
    <3>1. Repeated \in Item
          BY RepeatedItem
    <3>2. taskQueue' = Inserted(Repeated) /\ pc' = [pc EXCEPT ![w] = "notify"]
          BY <1>5, <2>1 DEF RunJob, Goto
    <3>3. QueueKept
          BY <1>0, <3>1, <3>2, InsertedFacts DEF QueueKept, Types
    <3>4. Moves(w, "run", "notify")
          BY <1>0, <2>0, <3>2 DEF Moves, Types
    <3> QED BY <1>0, <2>0, <3>3, <3>4, MoveKeeps, LookedKept DEF QueueKept, Types
  <2>2. CASE task[w].kind # "repeat"
    <3>1. Moves(w, "run", "loop") /\ QueueKept
          BY <1>0, <1>5, <2>0, <2>2 DEF RunJob, Goto, Moves, QueueKept, Types
    <3> QED BY <1>0, <2>0, <3>1, MoveKeeps, LookedKept DEF QueueKept, Types
  <2> QED BY <2>1, <2>2
<1> QED BY <1>1, <1>2, <1>3, <1>4, <1>5 DEF WorkerStep

(* The steps of SingleThreadedSchedulerClient, on whichever thread.        *)
LEMMA ClientKeeps ==
    ASSUME SchedulerAssumption, Inv, NEW t \in Thread, ClientStep(t)
    PROVE  Inv'
<1> USE DEF Label, Busy
<1>0. Types /\ InOrder /\ Serial /\ Main \in Thread /\ Returned(t) \in {"loop", "again", "ready"}
      BY DEF Inv, Returned, Thread
<1>1. t = Main => stop # "no"
      BY DEF ClientStep, ProcessQueue, CallbackReturns, ClearRunning, ScheduleProcessQueue,
             MaybeScheduleProcessQueue, Notify, Inv, ToldFirst
<1>2. CASE ProcessQueue(t) /\ (running \/ pending = <<>>)
  <2>1. Moves(t, "run", Returned(t)) /\ UNCHANGED <<taskQueue, clientVars, stop>>
        BY <1>0, <1>2 DEF ProcessQueue, Goto, Moves, Types, clientVars
  <2> QED BY <1>0, <1>1, <1>2, <2>1, MoveKeeps DEF Types
<1>3. CASE ProcessQueue(t) /\ ~(running \/ pending = <<>>)
  <2>1. /\ pc[t] = "run" /\ pc' = [pc EXCEPT ![t] = "callback"]
        /\ running' = TRUE /\ started' = Head(pending) /\ pending' = Tail(pending)
        /\ UNCHANGED <<taskQueue, task, added, done, stop>>
        BY <1>3 DEF ProcessQueue, Goto
  <2>2. /\ Tail(pending) \in Seq(Nat) /\ Len(Tail(pending)) = Len(pending) - 1
        /\ \A i \in 1 .. Len(Tail(pending)) : Tail(pending)[i] = pending[i + 1]
        BY <1>0, <1>3, HeadTailProperties DEF InOrder
  <2>3. Len(pending) \in Nat \ {0} /\ Head(pending) = pending[1]
        BY <1>0, <1>3 DEF InOrder
  <2>4. Head(pending) = started + 1
        BY <1>0, <2>3 DEF InOrder
  <2>5. Types'
        BY <1>0, <2>1, <2>4 DEF Types
  <2>6. InOrder'
    <3>1. Len(Tail(pending)) = added - (started + 1)
          BY <1>0, <2>2, <2>3 DEF InOrder, Types
    <3>2. \A i \in 1 .. Len(Tail(pending)) : Tail(pending)[i] = (started + 1) + i
          BY <1>0, <2>2, <2>3 DEF InOrder, Types
    <3> QED BY <2>1, <2>2, <2>4, <3>1, <3>2 DEF InOrder
  <2>7. ToldFirst'
        BY <1>0, <1>1, <2>1 DEF Inv, ToldFirst, Types
  <2>8. Serial'
    <3>1. \A u \in Thread : pc[u] \notin Busy
          BY <1>0, <1>3 DEF Serial
    <3>2. started = done
          BY <1>0, <3>1 DEF Serial
    <3>3. \A u \in Thread : pc'[u] = IF u = t THEN "callback" ELSE pc[u]
          BY <1>0, <2>1 DEF Types
    <3>4. \A u \in Thread : pc'[u] \in Busy <=> u = t
          BY <3>1, <3>3
    <3> QED BY <2>1, <2>4, <3>2, <3>3, <3>4 DEF Serial
  <2>9. NeverForgotten'
        BY <2>1 DEF NeverForgotten
  <2> QED BY <2>5, <2>6, <2>7, <2>8, <2>9 DEF Inv
<1>4. CASE CallbackReturns(t)
  <2>1. /\ pc[t] = "callback" /\ pc' = [pc EXCEPT ![t] = "clear"] /\ done' = done + 1
        /\ UNCHANGED <<taskQueue, task, pending, running, added, started, stop>>
        BY <1>4 DEF CallbackReturns, Goto
  <2>2. \A u \in Thread : pc'[u] = IF u = t THEN "clear" ELSE pc[u]
        BY <1>0, <2>1 DEF Types
  <2>3. \A u \in Thread : pc[u] \in Busy => u = t
        BY <1>0, <2>1 DEF Serial
  <2>4. Types' /\ InOrder'
        BY <1>0, <2>1 DEF Types, InOrder
  <2>5. ToldFirst'
        BY <1>0, <1>1, <2>1, <2>2 DEF Inv, ToldFirst
  <2>6. Serial'
    <3>1. started = done + 1
          BY <1>0, <2>1 DEF Serial
    <3>2. /\ \A u \in Thread : pc'[u] \in Busy <=> u = t
          /\ \A u \in Thread : pc'[u] # "callback"
          BY <2>2, <2>3
    <3>3. running
          BY <1>0, <2>1 DEF Serial
    <3> QED BY <2>1, <3>1, <3>2, <3>3 DEF Serial
  <2>7. NeverForgotten'
        BY <2>2 DEF NeverForgotten
  <2> QED BY <2>4, <2>5, <2>6, <2>7 DEF Inv
<1>5. CASE ClearRunning(t)
  <2>1. /\ pc[t] = "clear" /\ pc' = [pc EXCEPT ![t] = "maybe"] /\ running' = FALSE
        /\ UNCHANGED <<taskQueue, task, pending, added, started, done, stop>>
        BY <1>5 DEF ClearRunning, Goto
  <2>2. \A u \in Thread : pc'[u] = IF u = t THEN "maybe" ELSE pc[u]
        BY <1>0, <2>1 DEF Types
  <2>3. \A u \in Thread : pc[u] \in Busy => u = t
        BY <1>0, <2>1 DEF Serial
  <2>4. Types' /\ InOrder'
        BY <1>0, <2>1 DEF Types, InOrder
  <2>5. ToldFirst'
        BY <1>0, <1>1, <2>1, <2>2 DEF Inv, ToldFirst
  <2>6. Serial'
    <3>1. started = done
          BY <1>0, <2>1, <2>3 DEF Serial
    <3>2. \A u \in Thread : pc'[u] \notin Busy
          BY <2>2, <2>3
    <3> QED BY <2>1, <3>1, <3>2 DEF Serial
  <2>7. NeverForgotten'
        BY <2>2 DEF NeverForgotten
  <2> QED BY <2>4, <2>5, <2>6, <2>7 DEF Inv
<1>6. CASE MaybeScheduleProcessQueue(t)
  <2> DEFINE m == IF running \/ pending = <<>> THEN Returned(t) ELSE "insert"
  <2>1. Moves(t, "maybe", m) /\ UNCHANGED <<taskQueue, clientVars, stop>>
        BY <1>0, <1>6 DEF MaybeScheduleProcessQueue, Goto, Moves, Types
  <2>2. pending # <<>> /\ ~running => Looked'
        BY <1>0, <2>1 DEF Moves, Types, Looked, Sees
  <2> QED BY <1>0, <1>1, <2>1, <2>2, MoveKeeps DEF Types
<1>7. CASE ScheduleProcessQueue(t)
  <2> DEFINE process == [time |-> 0, kind |-> "process"]
  <2>1. process \in Item /\ process.kind = "process"
        BY <1>0 DEF Item, Types
  <2>2. /\ taskQueue' = Inserted(process)
        /\ Moves(t, "insert", "notify") /\ UNCHANGED <<clientVars, stop>>
        BY <1>0, <1>7 DEF ScheduleProcessQueue, Goto, Moves, Types
  <2> HIDE DEF process
  <2>3. /\ taskQueue' \in Seq(Item)
        /\ \E j \in DOMAIN taskQueue' : taskQueue'[j] = process
        BY <1>0, <2>1, <2>2, InsertedFacts DEF Types
  <2>4. Looked'
        BY <2>1, <2>3 DEF Looked
  <2> QED BY <1>0, <1>1, <2>2, <2>3, <2>4, MoveKeeps DEF Types
<1>8. CASE Notify(t)
      BY <1>0, <1>1, <1>8, NotifyKeeps DEF Notify, Sees, jobVars
<1> QED BY <1>2, <1>3, <1>4, <1>5, <1>6, <1>7, <1>8 DEF ClientStep

(* The steps of a thread that adds callbacks or schedules tasks.           *)
LEMMA ProducerKeeps ==
    ASSUME SchedulerAssumption, Inv, NEW p \in Producer,
           AddToProcessQueue(p) \/ \E delay \in 0 .. MaxDelay : Schedule(p, delay)
    PROVE  Inv'
<1> USE DEF Label, Busy
<1>0. Types /\ InOrder /\ p \in Thread /\ p # Main /\ Main \in Thread
      BY DEF Inv, Thread, SchedulerAssumption
<1>1. CASE AddToProcessQueue(p)
  <2>1. /\ pc[p] = "ready" /\ pc' = [pc EXCEPT ![p] = "maybe"]
        /\ added' = added + 1 /\ pending' = Append(pending, added + 1)
        /\ UNCHANGED <<taskQueue, task, running, started, done, stop>>
        BY <1>1 DEF AddToProcessQueue, Goto
  <2>2. \A u \in Thread : pc'[u] = IF u = p THEN "maybe" ELSE pc[u]
        BY <1>0, <2>1 DEF Types
  <2>3. Types'
        BY <1>0, <2>1 DEF Types
  <2>4. InOrder'
    <3> DEFINE q == Append(pending, added + 1)
    <3>1. /\ q \in Seq(Nat) /\ Len(q) = Len(pending) + 1
          /\ \A i \in 1 .. Len(pending) : q[i] = pending[i]
          /\ q[Len(pending) + 1] = added + 1
          BY <1>0 DEF InOrder, Types
    <3> HIDE DEF q
    <3>2. Len(pending) + 1 = (added + 1) - started /\ Len(pending) \in Nat
          BY <1>0 DEF InOrder, Types
    <3>3. ASSUME NEW i \in 1 .. Len(q) PROVE q[i] = started + i
      <4>1. CASE i = Len(pending) + 1
            BY <1>0, <3>1, <3>2, <4>1 DEF Types
      <4>2. CASE i # Len(pending) + 1
        <5>1. i \in 1 .. Len(pending)
              BY <3>1, <3>2, <4>2
        <5> QED BY <1>0, <3>1, <5>1 DEF InOrder
      <4> QED BY <4>1, <4>2
    <3>4. pending' = q
          BY <2>1 DEF q
    <3> QED BY <2>1, <3>1, <3>2, <3>3, <3>4 DEF InOrder
  <2>5. ToldFirst'
        BY <1>0, <2>1, <2>2 DEF Inv, ToldFirst
  <2>6. Serial'
        BY <2>1, <2>2, <2>3, SerialFrame DEF Types
  <2>7. NeverForgotten'
        BY <1>0, <2>2 DEF NeverForgotten
  <2> QED BY <2>3, <2>4, <2>5, <2>6, <2>7 DEF Inv
<1>2. ASSUME NEW delay \in 0 .. MaxDelay, Schedule(p, delay) PROVE Inv'
  <2> DEFINE job == [time |-> delay, kind |-> "job"]
  <2>1. job \in Item
        BY <1>0 DEF Item, SchedulerAssumption
  <2>2. /\ taskQueue' = Inserted(job)
        /\ Moves(p, "ready", "notify") /\ UNCHANGED <<clientVars, stop>>
        /\ ~Sees(pc, task, p)
        BY <1>0, <1>2 DEF Schedule, Goto, Moves, Types, Sees
  <2> HIDE DEF job
  <2>3. QueueKept
        BY <1>0, <2>1, <2>2, InsertedFacts DEF QueueKept, Types
  <2> QED BY <1>0, <2>2, <2>3, MoveKeeps, LookedKept DEF QueueKept, Types
<1> QED BY <1>1, <1>2

(* The steps of the thread that shuts down, and of the clock.              *)
LEMMA MainKeeps ==
    ASSUME SchedulerAssumption, Inv,
           \/ \E how \in {"stop", "drain", "interrupt"} : Stop(how)
           \/ MainStep \/ Tick
    PROVE  Inv'
<1> USE DEF Label, Busy
<1>0. Types /\ InOrder /\ Main \in Thread /\ Main \notin Worker
      BY DEF Inv, Thread, SchedulerAssumption
<1>1. ASSUME NEW how \in {"stop", "drain", "interrupt"}, Stop(how) PROVE Inv'
  <2>1. /\ pc[Main] = "ready" /\ stop' = how
        /\ \E m \in {"join", "stop"} : pc' = [pc EXCEPT ![Main] = m]
        /\ UNCHANGED <<taskQueue, task, clientVars>>
        BY <1>1 DEF Stop, Goto
  <2>2. Types' /\ InOrder'
        BY <1>0, <2>1 DEF Types, InOrder, clientVars
  <2>3. ToldFirst' /\ NeverForgotten'
        BY <2>1 DEF ToldFirst, NeverForgotten
  <2>4. \A u \in Thread : u # Main => pc'[u] = pc[u]
        BY <1>0, <2>1 DEF Types
  <2>5. pc'[Main] \in {"join", "stop"}
        BY <1>0, <2>1 DEF Types
  <2>6. Serial'
        BY <2>1, <2>2, <2>4, <2>5, SerialFrame DEF Types, clientVars
  <2> QED BY <2>2, <2>3, <2>6 DEF Inv
<1>2. CASE StopNotify
  <2>1. Notified(pc, NotifyAll(pc))
        BY <1>0, NotifyAllFacts DEF Types
  <2>2. /\ pc[Main] = "stop" /\ pc' = [NotifyAll(pc) EXCEPT ![Main] = "join"]
        /\ UNCHANGED <<taskQueue, task, clientVars, stop>>
        BY <1>2 DEF StopNotify
  <2>3. /\ pc' \in [Thread -> Label] /\ pc'[Main] = "join"
        /\ \A u \in Thread : u # Main => \/ pc'[u] = pc[u]
                                         \/ pc[u] \in {"idle", "timed"} /\ pc'[u] = "loop"
        BY <1>0, <2>1, <2>2 DEF Notified
  <2>4. stop # "no"
        BY <2>2 DEF Inv, ToldFirst
  <2>5. \A u \in Thread : /\ pc'[u] \in Busy <=> pc[u] \in Busy
                          /\ pc'[u] = "callback" <=> pc[u] = "callback"
        BY <2>2, <2>3
  <2>6. Types'
        BY <1>0, <2>2, <2>3 DEF Types, clientVars
  <2> QED BY <2>2, <2>4, <2>5, <2>6, QuietStep
<1>3. CASE EmptyQueue \/ ShouldContinue
  <2>1. PICK l \in {"join", "again"}, m \in {"run", "out"} : Moves(Main, l, m)
        BY <1>0, <1>3 DEF EmptyQueue, ShouldContinue, Goto, Moves, Types
  <2>2. UNCHANGED <<taskQueue, clientVars, stop>>
        BY <1>3 DEF EmptyQueue, ShouldContinue
  <2>3. stop # "no"
        BY <2>1 DEF Moves, Inv, ToldFirst
  <2> QED BY <1>0, <2>1, <2>2, <2>3, MoveKeeps DEF Types
<1>4. CASE Tick
  <2>1. /\ taskQueue' = [i \in DOMAIN taskQueue |-> Sooner(taskQueue[i])]
        /\ task' = [t \in Thread |-> Sooner(task[t])]
        /\ UNCHANGED <<pc, clientVars, stop>>
        BY <1>4 DEF Tick
  <2>2. /\ DOMAIN taskQueue = 1 .. Len(taskQueue) /\ Len(taskQueue) \in Nat
        /\ \A i \in DOMAIN taskQueue : taskQueue[i] \in Item
        /\ \A t \in Thread : task[t] \in Item
        BY <1>0 DEF Types
  <2>3. /\ \A i \in DOMAIN taskQueue : /\ Sooner(taskQueue[i]) \in Item
                                      /\ Sooner(taskQueue[i]).kind = taskQueue[i].kind
        /\ \A t \in Thread : /\ Sooner(task[t]) \in Item
                              /\ Sooner(task[t]).kind = task[t].kind
        BY <2>2, SoonerFacts
  <2>4. taskQueue' \in Seq(Item) /\ task' \in [Thread -> Item]
        BY <2>1, <2>2, <2>3
  <2>5. /\ DOMAIN taskQueue' = DOMAIN taskQueue
        /\ \A i \in DOMAIN taskQueue : taskQueue'[i].kind = taskQueue[i].kind
        /\ \A t \in Thread : task'[t].kind = task[t].kind
        BY <2>1, <2>3
  <2>6. Types'
        BY <1>0, <2>1, <2>4 DEF Types, clientVars
  <2>7. Looked => Looked'
        BY <2>1, <2>5 DEF Looked, Sees
  <2> QED BY <2>1, <2>6, <2>7, QuietStep
<1> QED BY <1>1, <1>2, <1>3, <1>4 DEF MainStep

-----------------------------------------------------------------------------
(* The invariant holds at first and is kept by every step.                 *)
LEMMA Invariance ==
    ASSUME SchedulerAssumption PROVE Spec => []Inv
<1>1. Init => Inv
  <2> SUFFICES ASSUME Init PROVE Inv
      OBVIOUS
  <2>1. NoTask \in Item /\ Repeated \in Item
        BY RepeatedItem DEF NoTask, Item
  <2>2. taskQueue \in Seq(Item)
    <3>1. <<>> \in Seq(Item) /\ <<Repeated>> \in Seq(Item)
          BY <2>1
    <3> QED BY <3>1 DEF Init
  <2>3. Types
        BY <2>1, <2>2 DEF Init, Types, Label
  <2>4. InOrder
        BY DEF Init, InOrder
  <2>5. ToldFirst /\ Serial /\ NeverForgotten
        BY DEF Init, ToldFirst, Serial, NeverForgotten, Thread, SchedulerAssumption
  <2> QED BY <2>3, <2>4, <2>5 DEF Inv
<1>2. Inv /\ [Next]_vars => Inv'
  <2> SUFFICES ASSUME Inv, [Next]_vars PROVE Inv'
      OBVIOUS
  <2>1. CASE UNCHANGED vars
    <3>1. Types' /\ (Looked => Looked') /\ UNCHANGED <<clientVars, stop, pc>>
          BY <2>1 DEF Inv, Types, Looked, vars, clientVars
    <3> QED BY <3>1, QuietStep
  <2> QED BY <2>1, WorkerKeeps, ClientKeeps, ProducerKeeps, MainKeeps DEF Next
<1> QED BY <1>1, <1>2, PTL DEF Spec

(* "No two jobs will be executed at the same time" (scheduler.h), and each *)
(* in its turn: for any number of threads, although several copies of      *)
(* ProcessQueue may be scheduled and the running flag is read and set      *)
(* under a lock that is not held while the callback runs.                  *)
THEOREM CallbacksAreSerial ==
    ASSUME SchedulerAssumption PROVE Spec => []Serial
BY Invariance, PTL DEF Inv

(* As long as the threads run, a pending callback always has somebody who  *)
(* will look for it: AddToProcessQueue and the end of a callback together  *)
(* leave no gap between their looks at the queue and the flag.             *)
THEOREM CallbacksAreRemembered ==
    ASSUME SchedulerAssumption PROVE Spec => []NeverForgotten
BY Invariance, PTL DEF Inv
=============================================================================

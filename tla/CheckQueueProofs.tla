-------------------------- MODULE CheckQueueProofs --------------------------
(***************************************************************************)
(* Proofs about CheckQueue, for any number of workers and checks and any   *)
(* size of a batch.                                                        *)
(***************************************************************************)
EXTENDS CheckQueue, FiniteSetTheorems, TLAPS

Label == {"out", "add", "enter", "work", "report", "wait", "woken", "gone"}

IdleIn(p) == {t \in Thread : p[t] \in {"wait", "woken", "gone"}}
LoopIn(p) == {t \in Thread : p[t] \in {"work", "report", "wait", "woken", "gone"}}
Held(V)   == UNION {V[t] : t \in Thread}

(***************************************************************************)
(* The inductive invariant.  It is stated of values, not of the variables, *)
(* so that it can also be stated in the middle of a critical section,      *)
(* where a thread has counted the result of its batch and not looked at    *)
(* the queue yet.                                                          *)
(*                                                                         *)
(* Counted: nTotal and nIdle count the threads in Loop and in a wait.      *)
(* Without it the size of a batch might be zero, and a thread with an      *)
(* empty batch could carry its verdict into the next block.                *)
(***************************************************************************)
Typed(p, V, f, q, b) ==
    /\ p \in [Thread -> Label]
    /\ V \in [Thread -> SUBSET Check] /\ f \in [Thread -> BOOLEAN]
    /\ q \subseteq Check /\ b \subseteq Check

Counted(p, total, idle) ==
    /\ total = Cardinality(LoopIn(p))
    /\ idle = Cardinality(IdleIn(p))

(* Every check is in one place, and those with work have a batch.          *)
Shared(p, V, q, todo, b) ==
    /\ todo = Cardinality(q \cup Held(V))
    /\ q \cup Held(V) \subseteq b
    /\ \A t \in Thread : q \cap V[t] = {}
    /\ \A t, u \in Thread : t # u => V[t] \cap V[u] = {}
    /\ \A t \in Thread : V[t] # {} <=> p[t] \in {"work", "report"}

(* A failure is one of this block, and a bad check is queued, in the hands *)
(* of a thread that will find it or has found it, or reported.             *)
Judged(p, V, f, q, ok, b) ==
    /\ ~ok => b \cap Bad # {}
    /\ \A t \in Thread : p[t] \in {"work", "report"} /\ ~f[t] => b \cap Bad # {}
    /\ p[Master] # "out" /\ ok =>
          \A c \in b \cap Bad :
             \/ c \in q
             \/ \E t \in Thread : c \in V[t] /\ (p[t] = "work" \/ ~f[t])

(* The master waits only for others, and when it is out all is done.       *)
Ended(p, V, q, todo, ok, b, v) ==
    /\ p[Master] = "wait" => q = {} /\ todo # 0
    /\ p[Master] = "out" => /\ q \cup Held(V) = {} /\ ok
                            /\ v <=> b \cap Bad = {}

Good(p, V, f, q, total, idle, todo, ok, b, v) ==
    /\ Typed(p, V, f, q, b)
    /\ Counted(p, total, idle)
    /\ Shared(p, V, q, todo, b)
    /\ Judged(p, V, f, q, ok, b)
    /\ Ended(p, V, q, todo, ok, b, v)

Inv ==
    /\ fAllOk \in BOOLEAN /\ verdict \in BOOLEAN
    /\ Good(pc, vChecks, fOk, queue, nTotal, nIdle, nTodo, fAllOk, pushed, verdict)

-----------------------------------------------------------------------------
(* The sets that are counted are finite.                                   *)
LEMMA Finite ==
    ASSUME CheckQueueAssumption
    PROVE  /\ IsFiniteSet(Thread)
           /\ \A S \in SUBSET Thread : IsFiniteSet(S) /\ Cardinality(S) \in Nat
           /\ \A S \in SUBSET Check : IsFiniteSet(S) /\ Cardinality(S) \in Nat
<1>1. IsFiniteSet(Thread)
      BY FS_AddElement DEF CheckQueueAssumption, Thread
<1>2. \A S \in SUBSET Thread : IsFiniteSet(S)
      BY <1>1, FS_Subset
<1>3. \A S \in SUBSET Check : IsFiniteSet(S)
      BY FS_Subset DEF CheckQueueAssumption
<1> QED BY <1>1, <1>2, <1>3, FS_CardinalityType

(* A batch is never empty, nor larger than the queue allows.               *)
LEMMA BatchNotEmpty ==
    ASSUME CheckQueueAssumption, queue \subseteq Check,
           NEW total \in Nat, NEW idle \in Nat,
           NEW B \in kSubset(BatchSize(total, idle), queue)
    PROVE  B \subseteq queue /\ B # {}
<1> DEFINE q == Cardinality(queue) \div (total + idle + 1)
           m == Min({nBatchSize, q})
<1>1. Cardinality(queue) \in Nat
      BY Finite
<1>2. q \in Int
      BY <1>1
<1> HIDE DEF q
<1>3. m \in Int
  <2>1. \E x \in {nBatchSize, q} : \A y \in {nBatchSize, q} : x =< y
        BY <1>2 DEF CheckQueueAssumption
  <2>2. m \in {nBatchSize, q}
        BY <2>1 DEF Min
  <2> QED BY <1>2, <2>2 DEF CheckQueueAssumption
<1> HIDE DEF m
<1>4. Max({1, m}) >= 1
  <2>1. \E x \in {1, m} : \A y \in {1, m} : x >= y
        BY <1>3
  <2>2. \A y \in {1, m} : Max({1, m}) >= y
        BY <2>1 DEF Max
  <2> QED BY <2>2
<1>5. BatchSize(total, idle) = Max({1, m})
      BY DEF BatchSize, m, q
<1>6. B \subseteq queue /\ Cardinality(B) = Max({1, m})
      BY <1>5 DEF kSubset
<1>7. Cardinality(B) # 0
      BY <1>4, <1>6
<1> QED BY <1>6, <1>7, FS_EmptySet

(* What a step does to the sets of threads that are counted.               *)
LEMMA OneMoves ==
    ASSUME NEW p \in [Thread -> Label], NEW t \in Thread, NEW l \in Label
    PROVE  LET r == [p EXCEPT ![t] = l] IN
           /\ r \in [Thread -> Label]
           /\ LoopIn(r) = IF l \in {"work", "report", "wait", "woken", "gone"}
                          THEN LoopIn(p) \cup {t} ELSE LoopIn(p) \ {t}
           /\ IdleIn(r) = IF l \in {"wait", "woken", "gone"}
                          THEN IdleIn(p) \cup {t} ELSE IdleIn(p) \ {t}
BY DEF LoopIn, IdleIn

(* Adding a thread that is not counted, or removing one that is, changes   *)
(* the count by one.                                                       *)
LEMMA OneMore ==
    ASSUME CheckQueueAssumption, NEW S \in SUBSET Thread, NEW t \in Thread
    PROVE  /\ t \notin S => Cardinality(S \cup {t}) = Cardinality(S) + 1
           /\ t \in S => Cardinality(S \ {t}) = Cardinality(S) - 1
BY Finite, FS_AddElement, FS_RemoveElement

(* What a batch does to the checks in the hands of the threads.            *)
LEMMA OneBatch ==
    ASSUME NEW V \in [Thread -> SUBSET Check], NEW t \in Thread,
           NEW B \in SUBSET Check, V[t] = {}
    PROVE  /\ [V EXCEPT ![t] = B] \in [Thread -> SUBSET Check]
           /\ Held([V EXCEPT ![t] = B]) = Held(V) \cup B
<1> DEFINE W == [V EXCEPT ![t] = B]
<1>1. W \in [Thread -> SUBSET Check] /\ W[t] = B
      /\ \A u \in Thread : u # t => W[u] = V[u]
      OBVIOUS
<1> HIDE DEF W
<1>2. \A c : (\E u \in Thread : c \in W[u]) <=> (\E u \in Thread : c \in V[u]) \/ c \in B
      BY <1>1
<1>3. Held(W) = Held(V) \cup B
      BY <1>2 DEF Held
<1> QED BY <1>1, <1>3 DEF W

-----------------------------------------------------------------------------
(***************************************************************************)
(* The three ways to leave the critical section.  The thread t that is in  *)
(* it counts as one outside the loop, without a batch.                     *)
(***************************************************************************)
Inside(t, p, total, idle, todo, ok) ==
    Good([p EXCEPT ![t] = "enter"], [vChecks EXCEPT ![t] = {}], fOk, queue,
         total - 1, idle, todo, ok, pushed, verdict)

(* A thread that takes a batch.                                            *)
LEMMA TakeKeeps ==
    ASSUME CheckQueueAssumption, NEW t \in Thread, NEW p \in [Thread -> Label],
           NEW total \in Int, NEW idle \in Int, NEW todo \in Int, NEW ok \in BOOLEAN,
           vChecks \in [Thread -> SUBSET Check], verdict \in BOOLEAN,
           Inside(t, p, total, idle, todo, ok),
           TakeBatch(t, p, total, idle, ok), nTodo' = todo, pushed' = pushed
    PROVE  Inv'
<1> DEFINE P == [p EXCEPT ![t] = "enter"]
           V == [vChecks EXCEPT ![t] = {}]
<1>1. Good(P, V, fOk, queue, total - 1, idle, todo, ok, pushed, verdict)
      BY DEF Inside
<1>2. P \in [Thread -> Label] /\ P[t] = "enter" /\ pc' = [P EXCEPT ![t] = "work"]
      BY DEF TakeBatch, Label
<1>3. V \in [Thread -> SUBSET Check] /\ V[t] = {}
      OBVIOUS
<1>4. PICK B \in kSubset(BatchSize(total, idle), queue) :
            vChecks' = [vChecks EXCEPT ![t] = B] /\ queue' = queue \ B
      BY DEF TakeBatch
<1>5. vChecks' = [V EXCEPT ![t] = B]
      BY <1>4
<1> HIDE DEF P, V
<1>6. queue \subseteq Check /\ pushed \subseteq Check /\ fOk \in [Thread -> BOOLEAN]
      BY <1>1 DEF Good, Typed
<1>7. /\ LoopIn(pc') = LoopIn(P) \cup {t} /\ IdleIn(pc') = IdleIn(P) \ {t}
      /\ t \notin LoopIn(P) /\ t \notin IdleIn(P) /\ pc' \in [Thread -> Label]
  <2>1. "work" \in Label
        BY DEF Label
  <2>2. t \notin LoopIn(P) /\ t \notin IdleIn(P)
        BY <1>2 DEF LoopIn, IdleIn
  <2> QED BY <1>2, <2>1, <2>2, OneMoves
<1>8. Counted(pc', total, idle) /\ total \in Nat /\ idle \in Nat
  <2>1. LoopIn(P) \in SUBSET Thread /\ IdleIn(P) \in SUBSET Thread
        BY DEF LoopIn, IdleIn
  <2>2. total - 1 = Cardinality(LoopIn(P)) /\ idle = Cardinality(IdleIn(P))
        BY <1>1 DEF Good, Counted
  <2>3. Cardinality(LoopIn(pc')) = Cardinality(LoopIn(P)) + 1
        BY <1>7, <2>1, OneMore
  <2>4. IdleIn(pc') = IdleIn(P)
        BY <1>7
  <2>5. Cardinality(LoopIn(P)) \in Nat /\ Cardinality(IdleIn(P)) \in Nat
        BY <2>1, Finite
  <2> QED BY <2>2, <2>3, <2>4, <2>5 DEF Counted
<1>9. B \subseteq queue /\ B # {}
      BY <1>4, <1>6, <1>8, BatchNotEmpty
<1>10. vChecks' \in [Thread -> SUBSET Check] /\ Held(vChecks') = Held(V) \cup B
      BY <1>3, <1>5, <1>6, <1>9, OneBatch
<1>11. /\ vChecks'[t] = B /\ \A u \in Thread : u # t => vChecks'[u] = V[u]
       /\ pc'[t] = "work" /\ \A u \in Thread : u # t => pc'[u] = P[u]
       /\ fOk' \in [Thread -> BOOLEAN] /\ fOk'[t] = ok
       /\ \A u \in Thread : u # t => fOk'[u] = fOk[u]
      BY <1>2, <1>3, <1>5, <1>6 DEF TakeBatch
<1>12. Typed(pc', vChecks', fOk', queue', pushed')
      BY <1>4, <1>6, <1>7, <1>10, <1>11 DEF Typed
<1>13. queue' \cup Held(vChecks') = queue \cup Held(V)
      BY <1>4, <1>9, <1>10
<1>14. Shared(pc', vChecks', queue', todo, pushed')
  <2>1. Shared(P, V, queue, todo, pushed)
        BY <1>1 DEF Good
  <2>2. \A u \in Thread : queue' \cap vChecks'[u] = {}
        BY <1>4, <1>9, <1>11, <2>1 DEF Shared
  <2>3. \A u, w \in Thread : u # w => vChecks'[u] \cap vChecks'[w] = {}
        BY <1>9, <1>11, <2>1 DEF Shared
  <2>4. \A u \in Thread : vChecks'[u] # {} <=> pc'[u] \in {"work", "report"}
        BY <1>9, <1>11, <2>1 DEF Shared
  <2>5. pushed' = pushed
        OBVIOUS
  <2> QED BY <1>13, <2>1, <2>2, <2>3, <2>4, <2>5 DEF Shared
<1>15. P[Master] # "out"
      BY <1>1 DEF Good, Ended, TakeBatch
<1>16. Judged(pc', vChecks', fOk', queue', ok, pushed')
  <2>1. Judged(P, V, fOk, queue, ok, pushed) /\ pushed' = pushed
        BY <1>1 DEF Good
  <2>2. \A u \in Thread : pc'[u] \in {"work", "report"} /\ ~fOk'[u] => pushed \cap Bad # {}
        BY <1>11, <2>1 DEF Judged
  <2>3. ASSUME ok, NEW c \in pushed \cap Bad
        PROVE  \/ c \in queue'
               \/ \E u \in Thread : c \in vChecks'[u] /\ (pc'[u] = "work" \/ ~fOk'[u])
    <3>1. \/ c \in queue
          \/ \E u \in Thread : c \in V[u] /\ (P[u] = "work" \/ ~fOk[u])
          BY <1>15, <2>1, <2>3 DEF Judged
    <3>2. CASE c \in queue
          BY <1>4, <1>11, <3>2
    <3>3. ASSUME NEW u \in Thread, c \in V[u], P[u] = "work" \/ ~fOk[u]
          PROVE  \E w \in Thread : c \in vChecks'[w] /\ (pc'[w] = "work" \/ ~fOk'[w])
          BY <1>3, <1>11, <3>3
    <3> QED BY <3>1, <3>2, <3>3
  <2> QED BY <2>1, <2>2, <2>3 DEF Judged
<1>17. Ended(pc', vChecks', queue', todo, ok, pushed', verdict')
  <2>1. pc'[Master] # "wait" /\ pc'[Master] # "out"
    <3>1. CASE t = Master
          BY <1>11, <3>1
    <3>2. CASE t # Master
      <4>1. pc'[Master] = P[Master]
            BY <1>11, <3>2 DEF Thread
      <4>2. P[Master] # "wait"
            BY <1>1 DEF Good, Ended, TakeBatch
      <4> QED BY <1>15, <4>1, <4>2
    <3> QED BY <3>1, <3>2
  <2> QED BY <2>1 DEF Ended
<1>18. nTotal' = total /\ nIdle' = idle /\ fAllOk' = ok /\ verdict' = verdict
      BY DEF TakeBatch
<1> QED BY <1>8, <1>12, <1>14, <1>16, <1>17, <1>18 DEF Inv, Good

(* The master that returns: nothing is outstanding, so a bad check can     *)
(* only be one that was reported.                                          *)
LEMMA ReturnKeeps ==
    ASSUME CheckQueueAssumption, NEW t \in Thread, NEW p \in [Thread -> Label],
           NEW total \in Int, NEW idle \in Int, NEW todo \in Int, NEW ok \in BOOLEAN,
           vChecks \in [Thread -> SUBSET Check], verdict \in BOOLEAN,
           Inside(t, p, total, idle, todo, ok),
           Return(t, p, total, idle, todo, ok), nTodo' = todo, pushed' = pushed
    PROVE  Inv'
<1> DEFINE P == [p EXCEPT ![t] = "enter"]
           V == [vChecks EXCEPT ![t] = {}]
<1>1. Good(P, V, fOk, queue, total - 1, idle, todo, ok, pushed, verdict)
      BY DEF Inside
<1>2. P \in [Thread -> Label] /\ P[t] = "enter" /\ pc' = [P EXCEPT ![t] = "out"]
      BY DEF Return, Label
<1>3. V \in [Thread -> SUBSET Check] /\ V[t] = {} /\ vChecks' = V
      BY DEF Return
<1> HIDE DEF P, V
<1>4. /\ t = Master /\ queue = {} /\ todo = 0 /\ queue' = queue /\ fOk' = fOk
      /\ nTotal' = total - 1 /\ nIdle' = idle /\ fAllOk' = TRUE /\ verdict' = ok
      BY DEF Return
<1>5. /\ LoopIn(pc') = LoopIn(P) /\ IdleIn(pc') = IdleIn(P) /\ pc' \in [Thread -> Label]
  <2>1. "out" \in Label
        BY DEF Label
  <2>2. t \notin LoopIn(P) /\ t \notin IdleIn(P)
        BY <1>2 DEF LoopIn, IdleIn
  <2>3. LoopIn(pc') = LoopIn(P) \ {t} /\ IdleIn(pc') = IdleIn(P) \ {t}
        BY <1>2, <2>1, OneMoves
  <2> QED BY <1>2, <2>1, <2>2, <2>3
<1>6. Typed(pc', vChecks', fOk', queue', pushed') /\ Counted(pc', total - 1, idle)
      BY <1>1, <1>3, <1>4, <1>5 DEF Good, Typed, Counted
<1>7. /\ pc'[t] = "out" /\ \A u \in Thread : u # t => pc'[u] = P[u]
      BY <1>2
<1>8. Shared(pc', vChecks', queue', todo, pushed')
      BY <1>1, <1>2, <1>3, <1>4, <1>7 DEF Good, Shared
<1>9. queue \cup Held(V) = {}
  <2>1. queue \cup Held(V) \in SUBSET Check
        BY <1>1, <1>3 DEF Good, Typed, Held
  <2>2. Cardinality(queue \cup Held(V)) = 0
        BY <1>1, <1>4 DEF Good, Shared
  <2> QED BY <2>1, <2>2, Finite, FS_EmptySet
<1>10. ok <=> pushed \cap Bad = {}
  <2>1. ~ok => pushed \cap Bad # {}
        BY <1>1 DEF Good, Judged
  <2>2. P[Master] # "out"
        BY <1>2, <1>4
  <2>3. ok => \A c \in pushed \cap Bad : c \in queue \cup Held(V)
        BY <1>1, <2>2 DEF Good, Judged, Held
  <2> QED BY <1>9, <2>1, <2>3
<1>11. Judged(pc', vChecks', fOk', queue', TRUE, pushed')
  <2>1. \A u \in Thread : pc'[u] \in {"work", "report"} /\ ~fOk[u] => pushed \cap Bad # {}
        BY <1>1, <1>7 DEF Good, Judged
  <2> QED BY <1>4, <1>7, <2>1 DEF Judged
<1>12. Ended(pc', vChecks', queue', todo, TRUE, pushed', ok)
      BY <1>3, <1>4, <1>7, <1>9, <1>10 DEF Ended
<1> QED BY <1>4, <1>6, <1>8, <1>11, <1>12 DEF Inv, Good

(* A thread that waits.                                                    *)
LEMMA SleepKeeps ==
    ASSUME CheckQueueAssumption, NEW t \in Thread, NEW p \in [Thread -> Label],
           NEW total \in Int, NEW idle \in Int, NEW todo \in Int, NEW ok \in BOOLEAN,
           vChecks \in [Thread -> SUBSET Check], verdict \in BOOLEAN,
           Inside(t, p, total, idle, todo, ok),
           Sleep(t, p, total, idle, todo, ok), nTodo' = todo, pushed' = pushed
    PROVE  Inv'
<1> DEFINE P == [p EXCEPT ![t] = "enter"]
           V == [vChecks EXCEPT ![t] = {}]
<1>1. Good(P, V, fOk, queue, total - 1, idle, todo, ok, pushed, verdict)
      BY DEF Inside
<1>2. P \in [Thread -> Label] /\ P[t] = "enter" /\ pc' = [P EXCEPT ![t] = "wait"]
      BY DEF Sleep, Label
<1>3. V \in [Thread -> SUBSET Check] /\ V[t] = {} /\ vChecks' = V
      BY DEF Sleep
<1> HIDE DEF P, V
<1>4. /\ queue = {} /\ ~(t = Master /\ todo = 0) /\ queue' = queue /\ fOk' = fOk
      /\ nTotal' = total /\ nIdle' = idle + 1 /\ fAllOk' = ok /\ verdict' = verdict
      BY DEF Sleep
<1>5. /\ LoopIn(pc') = LoopIn(P) \cup {t} /\ IdleIn(pc') = IdleIn(P) \cup {t}
      /\ t \notin LoopIn(P) /\ t \notin IdleIn(P) /\ pc' \in [Thread -> Label]
  <2>1. "wait" \in Label
        BY DEF Label
  <2>2. t \notin LoopIn(P) /\ t \notin IdleIn(P)
        BY <1>2 DEF LoopIn, IdleIn
  <2> QED BY <1>2, <2>1, <2>2, OneMoves
<1>6. Counted(pc', total, idle + 1)
  <2>1. LoopIn(P) \in SUBSET Thread /\ IdleIn(P) \in SUBSET Thread
        BY DEF LoopIn, IdleIn
  <2>2. total - 1 = Cardinality(LoopIn(P)) /\ idle = Cardinality(IdleIn(P))
        BY <1>1 DEF Good, Counted
  <2>3. /\ Cardinality(LoopIn(pc')) = Cardinality(LoopIn(P)) + 1
        /\ Cardinality(IdleIn(pc')) = Cardinality(IdleIn(P)) + 1
        BY <1>5, <2>1, OneMore
  <2> QED BY <2>2, <2>3 DEF Counted
<1>7. Typed(pc', vChecks', fOk', queue', pushed')
      BY <1>1, <1>3, <1>4, <1>5 DEF Good, Typed
<1>8. /\ pc'[t] = "wait" /\ \A u \in Thread : u # t => pc'[u] = P[u]
      BY <1>2
<1>9. Shared(pc', vChecks', queue', todo, pushed')
      BY <1>1, <1>2, <1>3, <1>4, <1>8 DEF Good, Shared
<1>10. pc'[Master] = "out" <=> P[Master] = "out"
      BY <1>2, <1>8 DEF Thread
<1>11. Judged(pc', vChecks', fOk', queue', ok, pushed')
  <2>1. Judged(P, V, fOk, queue, ok, pushed)
        BY <1>1 DEF Good
  <2>2. \A u \in Thread : pc'[u] \in {"work", "report"} /\ ~fOk[u] => pushed \cap Bad # {}
        BY <1>8, <2>1 DEF Judged
  <2>3. ASSUME P[Master] # "out", ok, NEW c \in pushed \cap Bad
        PROVE  c \in queue \/ \E u \in Thread : c \in V[u] /\ (pc'[u] = "work" \/ ~fOk[u])
    <3>1. c \in queue \/ \E u \in Thread : c \in V[u] /\ (P[u] = "work" \/ ~fOk[u])
          BY <2>1, <2>3 DEF Judged
    <3> QED BY <1>3, <1>8, <3>1
  <2>4. pushed' = pushed /\ queue' = queue /\ fOk' = fOk /\ vChecks' = V
        BY <1>3, <1>4
  <2>5. ~ok => pushed \cap Bad # {}
        BY <2>1 DEF Judged
  <2> QED BY <1>10, <2>2, <2>3, <2>4, <2>5 DEF Judged
<1>12. Ended(pc', vChecks', queue', todo, ok, pushed', verdict')
  <2>1. Ended(P, V, queue, todo, ok, pushed, verdict)
        BY <1>1 DEF Good
  <2>2. pc'[Master] = "wait" => queue = {} /\ todo # 0
    <3>1. CASE t = Master
          BY <1>4, <3>1
    <3>2. CASE t # Master
          BY <1>8, <2>1, <3>2 DEF Ended, Thread
    <3> QED BY <3>1, <3>2
  <2> QED BY <1>3, <1>4, <1>10, <2>1, <2>2 DEF Ended
<1> QED BY <1>4, <1>6, <1>7, <1>9, <1>11, <1>12 DEF Inv, Good

(* The critical section as a whole.                                        *)
LEMMA LookKeeps ==
    ASSUME CheckQueueAssumption, Inv, NEW t \in Thread, NEW p \in [Thread -> Label],
           NEW total \in Int, NEW idle \in Int, NEW todo \in Int, NEW ok \in BOOLEAN,
           Inside(t, p, total, idle, todo, ok),
           LookAtQueue(t, p, total, idle, todo, ok)
    PROVE  Inv'
<1>1. vChecks \in [Thread -> SUBSET Check] /\ verdict \in BOOLEAN
      BY DEF Inv, Good, Typed
<1>2. nTodo' = todo /\ pushed' = pushed
      BY DEF LookAtQueue
<1>3. CASE TakeBatch(t, p, total, idle, ok)
      BY <1>1, <1>2, <1>3, TakeKeeps
<1>4. CASE Return(t, p, total, idle, todo, ok)
      BY <1>1, <1>2, <1>4, ReturnKeeps
<1>5. CASE Sleep(t, p, total, idle, todo, ok)
      BY <1>1, <1>2, <1>5, SleepKeeps
<1> QED BY <1>3, <1>4, <1>5 DEF LookAtQueue

-----------------------------------------------------------------------------
(* The three ways into the critical section: on the first iteration, ...   *)
LEMMA EnterKeeps ==
    ASSUME CheckQueueAssumption, Inv, NEW t \in Thread, Enter(t)
    PROVE  Inv'
<1>1. Good(pc, vChecks, fOk, queue, nTotal, nIdle, nTodo, fAllOk, pushed, verdict)
      BY DEF Inv
<1>2. pc \in [Thread -> Label] /\ vChecks \in [Thread -> SUBSET Check] /\ queue \subseteq Check
      BY <1>1 DEF Good, Typed
<1>3. nTotal \in Int /\ nIdle \in Int /\ nTodo \in Int /\ fAllOk \in BOOLEAN
  <2>1. LoopIn(pc) \in SUBSET Thread /\ IdleIn(pc) \in SUBSET Thread
        BY DEF LoopIn, IdleIn
  <2>2. queue \cup Held(vChecks) \in SUBSET Check
        BY <1>2 DEF Held
  <2> QED BY <1>1, <2>1, <2>2, Finite DEF Good, Counted, Shared, Inv
<1>4. pc[t] = "enter" /\ vChecks[t] = {}
      BY <1>1 DEF Enter, Good, Shared
<1>5. [pc EXCEPT ![t] = "enter"] = pc /\ [vChecks EXCEPT ![t] = {}] = vChecks
      BY <1>2, <1>4
<1>6. (nTotal + 1) - 1 = nTotal /\ nTotal + 1 \in Int
      BY <1>3
<1>7. Inside(t, pc, nTotal + 1, nIdle, nTodo, fAllOk)
      BY <1>1, <1>5, <1>6 DEF Inside
<1>8. LookAtQueue(t, pc, nTotal + 1, nIdle, nTodo, fAllOk)
      BY DEF Enter
<1> QED BY <1>2, <1>3, <1>6, <1>7, <1>8, LookKeeps

(* ... after a wait, ...                                                   *)
LEMMA WakeUpKeeps ==
    ASSUME CheckQueueAssumption, Inv, NEW t \in Thread, WakeUp(t)
    PROVE  Inv'
<1> DEFINE P == [pc EXCEPT ![t] = "enter"]
<1>1. Good(pc, vChecks, fOk, queue, nTotal, nIdle, nTodo, fAllOk, pushed, verdict)
      BY DEF Inv
<1>2. pc \in [Thread -> Label] /\ vChecks \in [Thread -> SUBSET Check] /\ queue \subseteq Check
      BY <1>1 DEF Good, Typed
<1>3. LoopIn(pc) \in SUBSET Thread /\ IdleIn(pc) \in SUBSET Thread
      BY DEF LoopIn, IdleIn
<1>4. nTotal \in Int /\ nIdle \in Int /\ nTodo \in Int /\ fAllOk \in BOOLEAN
  <2>1. queue \cup Held(vChecks) \in SUBSET Check
        BY <1>2 DEF Held
  <2> QED BY <1>1, <1>3, <2>1, Finite DEF Good, Counted, Shared, Inv
<1>5. pc[t] = "woken" /\ vChecks[t] = {}
      BY <1>1 DEF WakeUp, Good, Shared
<1>6. [vChecks EXCEPT ![t] = {}] = vChecks
      BY <1>2, <1>5
<1>7. /\ P \in [Thread -> Label]
      /\ LoopIn(P) = LoopIn(pc) \ {t} /\ IdleIn(P) = IdleIn(pc) \ {t}
      /\ t \in LoopIn(pc) /\ t \in IdleIn(pc)
  <2>1. "enter" \in Label
        BY DEF Label
  <2>2. t \in LoopIn(pc) /\ t \in IdleIn(pc)
        BY <1>5 DEF LoopIn, IdleIn
  <2> QED BY <1>2, <2>1, <2>2, OneMoves
<1>8. P[t] = "enter" /\ \A u \in Thread : u # t => P[u] = pc[u]
      BY <1>2
<1> HIDE DEF P
<1>9. Counted(P, nTotal - 1, nIdle - 1)
  <2>1. /\ Cardinality(LoopIn(P)) = Cardinality(LoopIn(pc)) - 1
        /\ Cardinality(IdleIn(P)) = Cardinality(IdleIn(pc)) - 1
        BY <1>3, <1>7, OneMore
  <2> QED BY <1>1, <2>1 DEF Good, Counted
<1>10. Typed(P, vChecks, fOk, queue, pushed) /\ Shared(P, vChecks, queue, nTodo, pushed)
      BY <1>1, <1>5, <1>7, <1>8 DEF Good, Typed, Shared
<1>11. P[Master] = "out" <=> pc[Master] = "out"
      BY <1>5, <1>8 DEF Thread
<1>12. Judged(P, vChecks, fOk, queue, fAllOk, pushed)
  <2>1. Judged(pc, vChecks, fOk, queue, fAllOk, pushed)
        BY <1>1 DEF Good
  <2>2. \A u \in Thread : P[u] \in {"work", "report"} => pc[u] = P[u]
        BY <1>8
  <2>3. \A u \in Thread : \A c \in vChecks[u] : pc[u] = P[u]
        BY <1>5, <1>8
  <2> QED BY <1>11, <2>1, <2>2, <2>3 DEF Judged
<1>13. Ended(P, vChecks, queue, nTodo, fAllOk, pushed, verdict)
      BY <1>1, <1>8, <1>11 DEF Good, Ended, Thread
<1>14. Inside(t, pc, nTotal, nIdle - 1, nTodo, fAllOk)
      BY <1>6, <1>9, <1>10, <1>12, <1>13 DEF Inside, Good, P
<1>15. LookAtQueue(t, pc, nTotal, nIdle - 1, nTodo, fAllOk) /\ nIdle - 1 \in Int
      BY <1>4 DEF WakeUp
<1> QED BY <1>2, <1>4, <1>14, <1>15, LookKeeps

(* ... and after a batch, which is counted, and whose end may wake the     *)
(* master.                                                                 *)
LEMMA ReportKeeps ==
    ASSUME CheckQueueAssumption, Inv, NEW t \in Thread, Report(t)
    PROVE  Inv'
<1> DEFINE todo == nTodo - Cardinality(vChecks[t])
           ok == fAllOk /\ fOk[t]
           p == MasterWoken(t, todo)
           P == [p EXCEPT ![t] = "enter"]
           V == [vChecks EXCEPT ![t] = {}]
<1>1. Good(pc, vChecks, fOk, queue, nTotal, nIdle, nTodo, fAllOk, pushed, verdict)
      BY DEF Inv
<1>2. /\ pc \in [Thread -> Label] /\ vChecks \in [Thread -> SUBSET Check]
      /\ queue \subseteq Check /\ fOk \in [Thread -> BOOLEAN]
      BY <1>1 DEF Good, Typed
<1>3. LoopIn(pc) \in SUBSET Thread /\ IdleIn(pc) \in SUBSET Thread
      BY DEF LoopIn, IdleIn
<1>4. /\ queue \cup Held(vChecks) \in SUBSET Check /\ vChecks[t] \in SUBSET Check
      /\ vChecks[t] \subseteq Held(vChecks)
      BY <1>2 DEF Held
<1>5. nTotal \in Int /\ nIdle \in Int /\ nTodo \in Int /\ fAllOk \in BOOLEAN
      BY <1>1, <1>3, <1>4, Finite DEF Good, Counted, Shared, Inv
<1>6. pc[t] = "report" /\ vChecks[t] # {}
      BY <1>1 DEF Report, Good, Shared
<1>7. /\ p \in [Thread -> Label] /\ p[t] = "report"
      /\ \A u \in Thread : p[u] # pc[u] => u = Master /\ pc[u] = "wait" /\ p[u] = "woken"
      /\ p[Master] = "wait" => todo # 0 \/ t = Master
  <2>1. Master \in Thread /\ "woken" \in Label
        BY DEF Thread, Label
  <2> HIDE DEF todo
  <2>2. CASE t # Master /\ todo = 0 /\ pc[Master] = "wait"
    <3>1. p = [u \in Thread |-> IF u \in {Master} THEN "woken" ELSE pc[u]]
          BY <2>2 DEF MasterWoken, Wake
    <3> QED BY <1>2, <1>6, <2>1, <2>2, <3>1
  <2>3. CASE ~(t # Master /\ todo = 0 /\ pc[Master] = "wait")
    <3>1. p = pc
          BY <2>3 DEF MasterWoken
    <3> QED BY <1>2, <1>6, <2>3, <3>1
  <2> QED BY <2>2, <2>3
<1> HIDE DEF p
<1>8. LoopIn(p) = LoopIn(pc) /\ IdleIn(p) = IdleIn(pc)
      BY <1>7 DEF LoopIn, IdleIn
<1>9. /\ P \in [Thread -> Label]
      /\ LoopIn(P) = LoopIn(pc) \ {t} /\ IdleIn(P) = IdleIn(pc)
      /\ t \in LoopIn(pc)
  <2>1. "enter" \in Label
        BY DEF Label
  <2>2. t \in LoopIn(pc) /\ t \notin IdleIn(pc)
        BY <1>6 DEF LoopIn, IdleIn
  <2>3. LoopIn(P) = LoopIn(p) \ {t} /\ IdleIn(P) = IdleIn(p) \ {t}
        BY <1>7, <2>1, OneMoves
  <2> QED BY <1>7, <1>8, <2>1, <2>2, <2>3
<1>10. P[t] = "enter" /\ \A u \in Thread : u # t => P[u] = p[u]
      BY <1>7
<1>11. /\ V \in [Thread -> SUBSET Check] /\ V[t] = {}
       /\ \A u \in Thread : u # t => V[u] = vChecks[u]
       /\ vChecks = [V EXCEPT ![t] = vChecks[t]]
      BY <1>2
<1> HIDE DEF P, V
<1>12. queue \cup Held(V) = (queue \cup Held(vChecks)) \ vChecks[t]
  <2>1. Held(vChecks) = Held(V) \cup vChecks[t]
        BY <1>4, <1>11, OneBatch
  <2>2. Held(V) \cap vChecks[t] = {}
        BY <1>1, <1>11 DEF Good, Shared, Held
  <2>3. queue \cap vChecks[t] = {}
        BY <1>1 DEF Good, Shared
  <2> QED BY <2>1, <2>2, <2>3
<1>13. todo = Cardinality(queue \cup Held(V)) /\ todo \in Int
  <2> DEFINE S == queue \cup Held(vChecks)
  <2>1. S \cap vChecks[t] = vChecks[t] /\ IsFiniteSet(S)
        BY <1>4, Finite
  <2>2. Cardinality(S \ vChecks[t]) = Cardinality(S) - Cardinality(vChecks[t])
        BY <2>1, FS_Difference
  <2>3. nTodo = Cardinality(S) /\ Cardinality(S) \in Nat /\ Cardinality(vChecks[t]) \in Nat
        BY <1>1, <1>4, Finite DEF Good, Shared
  <2> HIDE DEF S
  <2>4. todo = Cardinality(S \ vChecks[t]) /\ todo \in Int
        BY <2>2, <2>3
  <2> QED BY <1>12, <2>4 DEF S
<1> HIDE DEF todo
<1>14. Counted(P, nTotal - 1, nIdle)
  <2>1. Cardinality(LoopIn(P)) = Cardinality(LoopIn(pc)) - 1
        BY <1>3, <1>9, OneMore
  <2> QED BY <1>1, <1>9, <2>1 DEF Good, Counted
<1>15. Typed(P, V, fOk, queue, pushed)
      BY <1>1, <1>9, <1>11 DEF Good, Typed
<1>16. Shared(P, V, queue, todo, pushed)
  <2>1. Shared(pc, vChecks, queue, nTodo, pushed)
        BY <1>1 DEF Good
  <2>2. \A u \in Thread : u # t => (P[u] \in {"work", "report"} <=> pc[u] \in {"work", "report"})
        BY <1>7, <1>10
  <2>3. \A u \in Thread : V[u] # {} <=> P[u] \in {"work", "report"}
        BY <1>10, <1>11, <2>1, <2>2 DEF Shared
  <2>4. \A u, w \in Thread : u # w => V[u] \cap V[w] = {}
        BY <1>11, <2>1 DEF Shared
  <2>5. \A u \in Thread : queue \cap V[u] = {}
        BY <1>11, <2>1 DEF Shared
  <2>6. queue \cup Held(V) \subseteq pushed
        BY <1>12, <2>1 DEF Shared
  <2> QED BY <1>13, <2>3, <2>4, <2>5, <2>6 DEF Shared
<1>17. pc[Master] # "out" /\ P[Master] # "out"
  <2>1. pc[Master] # "out"
        BY <1>1, <1>4, <1>6 DEF Good, Ended
  <2> QED BY <1>7, <1>10, <2>1 DEF Thread
<1>18. Judged(P, V, fOk, queue, ok, pushed)
  <2>1. Judged(pc, vChecks, fOk, queue, fAllOk, pushed)
        BY <1>1 DEF Good
  <2>2. ~ok => pushed \cap Bad # {}
        BY <1>6, <2>1 DEF Judged
  <2>3. \A u \in Thread : P[u] \in {"work", "report"} => pc[u] = P[u]
        BY <1>7, <1>10
  <2>4. \A u \in Thread : P[u] \in {"work", "report"} /\ ~fOk[u] => pushed \cap Bad # {}
        BY <2>1, <2>3 DEF Judged
  <2>5. ASSUME ok, NEW c \in pushed \cap Bad
        PROVE  c \in queue \/ \E u \in Thread : c \in V[u] /\ (P[u] = "work" \/ ~fOk[u])
    <3>1. c \in queue \/ \E u \in Thread : c \in vChecks[u] /\ (pc[u] = "work" \/ ~fOk[u])
          BY <1>17, <2>1, <2>5 DEF Judged
    <3>2. ASSUME NEW u \in Thread, c \in vChecks[u], pc[u] = "work" \/ ~fOk[u]
          PROVE  c \in V[u] /\ (P[u] = "work" \/ ~fOk[u])
          BY <1>6, <1>7, <1>10, <1>11, <2>5, <3>2
    <3> QED BY <3>1, <3>2
  <2> QED BY <2>2, <2>4, <2>5 DEF Judged
<1>19. Ended(P, V, queue, todo, ok, pushed, verdict)
  <2>1. ASSUME P[Master] = "wait" PROVE queue = {} /\ todo # 0
    <3>1. t # Master /\ p[Master] = "wait"
          BY <1>10, <2>1 DEF Thread
    <3>2. pc[Master] = "wait"
          BY <1>7, <3>1 DEF Thread
    <3> QED BY <1>1, <1>7, <3>1, <3>2 DEF Good, Ended
  <2> QED BY <1>17, <2>1 DEF Ended
<1>20. ok \in BOOLEAN
      BY <1>2, <1>5
<1>21. LookAtQueue(t, p, nTotal, nIdle, todo, ok)
      BY DEF Report, p, todo
<1> HIDE DEF ok
<1>22. Inside(t, p, nTotal, nIdle, todo, ok)
      BY <1>14, <1>15, <1>16, <1>18, <1>19 DEF Inside, Good, P, V
<1> QED BY <1>5, <1>7, <1>13, <1>20, <1>21, <1>22, LookKeeps

-----------------------------------------------------------------------------
(* Steps that only move threads from one wait to another, or the master    *)
(* outside the loop.                                                       *)
LEMMA MoveKeeps ==
    ASSUME Inv, pc' \in [Thread -> Label],
           \A t \in Thread : pc'[t] # pc[t] =>
              \/ {pc[t], pc'[t]} \subseteq {"wait", "woken", "gone"} /\ pc'[t] # "wait"
              \/ pc[t] = "add" /\ pc'[t] = "enter",
           UNCHANGED <<shared, vChecks, fOk, pushed, verdict>>
    PROVE  Inv'
<1>1. Good(pc, vChecks, fOk, queue, nTotal, nIdle, nTodo, fAllOk, pushed, verdict)
      BY DEF Inv
<1>2. /\ \A t \in Thread : pc'[t] \in {"work", "report"} \/ pc[t] \in {"work", "report"}
                              => pc'[t] = pc[t]
      /\ pc'[Master] = "out" <=> pc[Master] = "out"
      BY DEF Thread
<1>3. LoopIn(pc') = LoopIn(pc) /\ IdleIn(pc') = IdleIn(pc)
      BY DEF LoopIn, IdleIn
<1>4. Typed(pc', vChecks, fOk, queue, pushed) /\ Counted(pc', nTotal, nIdle)
      BY <1>1, <1>3 DEF Good, Typed, Counted
<1>5. Shared(pc', vChecks, queue, nTodo, pushed)
      BY <1>1, <1>2 DEF Good, Shared
<1>6. Judged(pc', vChecks, fOk, queue, fAllOk, pushed)
  <2>1. Judged(pc, vChecks, fOk, queue, fAllOk, pushed)
        BY <1>1 DEF Good
  <2> QED BY <1>2, <2>1 DEF Judged
<1>7. Ended(pc', vChecks, queue, nTodo, fAllOk, pushed, verdict)
  <2>1. pc'[Master] = "wait" => pc[Master] = "wait"
        BY DEF Thread
  <2> QED BY <1>1, <1>2, <2>1 DEF Good, Ended
<1> QED BY <1>1, <1>4, <1>5, <1>6, <1>7 DEF Inv, Good, shared

(* Add: the new checks are none of those that are outstanding.             *)
LEMMA AddKeeps ==
    ASSUME CheckQueueAssumption, Inv, NEW checks \in SUBSET Check, Add(checks)
    PROVE  Inv'
<1>1. Good(pc, vChecks, fOk, queue, nTotal, nIdle, nTodo, fAllOk, pushed, verdict)
      BY DEF Inv
<1>2. /\ pc \in [Thread -> Label] /\ vChecks \in [Thread -> SUBSET Check]
      /\ queue \subseteq Check /\ pushed \subseteq Check
      BY <1>1 DEF Good, Typed
<1>3. /\ pc[Master] = "add" /\ checks \cap pushed = {}
      /\ queue' = queue \cup checks /\ pushed' = pushed \cup checks
      /\ nTodo' = nTodo + Cardinality(checks)
      /\ UNCHANGED <<nIdle, nTotal, fAllOk, vChecks, fOk, verdict>>
      BY DEF Add
<1>4. /\ pc' \in [Thread -> Label] /\ pc'[Master] = "add"
      /\ \A t \in Thread : pc'[t] # pc[t] => pc[t] = "wait" /\ pc'[t] = "woken"
  <2>1. PICK T \in Notified(Cardinality(checks)) : pc' = Wake(T)
        BY DEF Add
  <2>2. T \subseteq {w \in Worker : pc[w] = "wait"}
        BY <2>1 DEF Notified, Waiting
  <2>3. "woken" \in Label /\ Master \in Thread
        BY DEF Label, Thread
  <2> QED BY <1>2, <1>3, <2>1, <2>2, <2>3 DEF Wake
<1>5. LoopIn(pc') = LoopIn(pc) /\ IdleIn(pc') = IdleIn(pc)
      BY <1>4 DEF LoopIn, IdleIn
<1>6. Typed(pc', vChecks, fOk, queue', pushed') /\ Counted(pc', nTotal, nIdle)
      BY <1>1, <1>3, <1>4, <1>5 DEF Good, Typed, Counted
<1>7. Shared(pc', vChecks, queue', nTodo', pushed')
  <2> DEFINE S == queue \cup Held(vChecks)
  <2>1. Shared(pc, vChecks, queue, nTodo, pushed)
        BY <1>1 DEF Good
  <2>2. S \cap checks = {} /\ queue' \cup Held(vChecks) = S \cup checks
        BY <1>3, <2>1 DEF Shared
  <2>3. S \in SUBSET Check
        BY <1>2 DEF Held
  <2>4. nTodo = Cardinality(S) /\ S \subseteq pushed
        BY <2>1 DEF Shared
  <2>5. \A t \in Thread : vChecks[t] \subseteq S
        BY DEF Held
  <2> HIDE DEF S
  <2>6. Cardinality(S \cup checks) = Cardinality(S) + Cardinality(checks)
    <3>1. Cardinality(S \cup checks) = Cardinality(S) + Cardinality(checks) - Cardinality(S \cap checks)
          BY <2>3, Finite, FS_Union
    <3>2. Cardinality(S \cap checks) = 0
          BY <2>2, FS_EmptySet
    <3>3. Cardinality(S) \in Nat /\ Cardinality(checks) \in Nat
          BY <2>3, Finite
    <3> QED BY <3>1, <3>2, <3>3
  <2>7. nTodo' = Cardinality(queue' \cup Held(vChecks))
        BY <1>3, <2>2, <2>4, <2>6
  <2>8. queue' \cup Held(vChecks) \subseteq pushed'
        BY <1>3, <2>2, <2>4
  <2>9. \A t \in Thread : queue' \cap vChecks[t] = {}
    <3>1. \A t \in Thread : queue \cap vChecks[t] = {}
          BY <2>1 DEF Shared
    <3> QED BY <1>3, <2>2, <2>5, <3>1
  <2>10. \A t \in Thread : vChecks[t] # {} <=> pc'[t] \in {"work", "report"}
        BY <1>4, <2>1 DEF Shared
  <2>11. \A t, u \in Thread : t # u => vChecks[t] \cap vChecks[u] = {}
        BY <2>1 DEF Shared
  <2> QED BY <2>7, <2>8, <2>9, <2>10, <2>11 DEF Shared
<1>8. Judged(pc', vChecks, fOk, queue', fAllOk, pushed')
  <2>1. Judged(pc, vChecks, fOk, queue, fAllOk, pushed)
        BY <1>1 DEF Good
  <2>2. \A t \in Thread : (pc'[t] = "work" <=> pc[t] = "work")
                          /\ (pc'[t] = "report" <=> pc[t] = "report")
        BY <1>4
  <2>3. fAllOk => \A c \in pushed \cap Bad :
             c \in queue \/ \E t \in Thread : c \in vChecks[t] /\ (pc[t] = "work" \/ ~fOk[t])
        BY <1>3, <2>1 DEF Judged
  <2>4. fAllOk => \A c \in pushed' \cap Bad :
             c \in queue' \/ \E t \in Thread : c \in vChecks[t] /\ (pc'[t] = "work" \/ ~fOk[t])
        BY <1>3, <2>2, <2>3
  <2>5. pushed \cap Bad # {} => pushed' \cap Bad # {}
        BY <1>3
  <2>6. \A t \in Thread : pc'[t] \in {"work", "report"} /\ ~fOk[t] => pushed \cap Bad # {}
        BY <2>1, <2>2 DEF Judged
  <2> QED BY <2>1, <2>4, <2>5, <2>6 DEF Judged
<1>9. Ended(pc', vChecks, queue', nTodo', fAllOk, pushed', verdict)
      BY <1>4 DEF Ended
<1> QED BY <1>1, <1>3, <1>6, <1>7, <1>8, <1>9 DEF Inv, Good

(* BeginBlock: nothing is left of the block before.                        *)
LEMMA BeginBlockKeeps ==
    ASSUME CheckQueueAssumption, Inv, BeginBlock
    PROVE  Inv'
<1>1. Good(pc, vChecks, fOk, queue, nTotal, nIdle, nTodo, fAllOk, pushed, verdict)
      BY DEF Inv
<1>2. pc \in [Thread -> Label] /\ Master \in Thread /\ "add" \in Label
      BY <1>1 DEF Good, Typed, Thread, Label
<1>3. /\ pc[Master] = "out" /\ pc' = [pc EXCEPT ![Master] = "add"] /\ pushed' = {}
      /\ UNCHANGED <<shared, vChecks, fOk, verdict>>
      BY DEF BeginBlock
<1>4. /\ pc' \in [Thread -> Label] /\ pc'[Master] = "add"
      /\ \A t \in Thread : t # Master => pc'[t] = pc[t]
      BY <1>2, <1>3
<1>5. LoopIn(pc') = LoopIn(pc) /\ IdleIn(pc') = IdleIn(pc)
      BY <1>3, <1>4 DEF LoopIn, IdleIn
<1>6. queue \cup Held(vChecks) = {} /\ fAllOk
      BY <1>1, <1>3 DEF Good, Ended
<1>7. \A t \in Thread : vChecks[t] = {} /\ pc'[t] \notin {"work", "report"}
  <2>1. \A t \in Thread : vChecks[t] = {}
        BY <1>6 DEF Held
  <2> QED BY <1>1, <1>4, <2>1 DEF Good, Shared
<1>8. Typed(pc', vChecks, fOk, queue, pushed') /\ Counted(pc', nTotal, nIdle)
      BY <1>1, <1>3, <1>4, <1>5 DEF Good, Typed, Counted
<1>9. Shared(pc', vChecks, queue, nTodo, pushed')
      BY <1>1, <1>6, <1>7 DEF Good, Shared
<1>10. Judged(pc', vChecks, fOk, queue, fAllOk, pushed')
      BY <1>3, <1>6, <1>7 DEF Judged
<1>11. Ended(pc', vChecks, queue, nTodo, fAllOk, pushed', verdict)
      BY <1>4 DEF Ended
<1> QED BY <1>1, <1>3, <1>8, <1>9, <1>10, <1>11 DEF Inv, Good, shared

(* RunChecks: a bad check of the batch is found, or one was found before.  *)
LEMMA WorkKeeps ==
    ASSUME CheckQueueAssumption, Inv, NEW t \in Thread, RunChecks(t)
    PROVE  Inv'
<1>1. Good(pc, vChecks, fOk, queue, nTotal, nIdle, nTodo, fAllOk, pushed, verdict)
      BY DEF Inv
<1>2. pc \in [Thread -> Label] /\ fOk \in [Thread -> BOOLEAN] /\ "report" \in Label
      BY <1>1 DEF Good, Typed, Label
<1>3. /\ pc[t] = "work" /\ pc' = [pc EXCEPT ![t] = "report"]
      /\ UNCHANGED <<shared, vChecks, pushed, verdict>>
      BY DEF RunChecks
<1>4. /\ pc' \in [Thread -> Label] /\ pc'[t] = "report"
      /\ \A u \in Thread : u # t => pc'[u] = pc[u]
      BY <1>2, <1>3
<1>5. /\ fOk' \in [Thread -> BOOLEAN] /\ fOk'[t] = (fOk[t] /\ vChecks[t] \cap Bad = {})
      /\ \A u \in Thread : u # t => fOk'[u] = fOk[u]
      BY <1>2 DEF RunChecks
<1>6. LoopIn(pc') = LoopIn(pc) /\ IdleIn(pc') = IdleIn(pc)
      BY <1>3, <1>4 DEF LoopIn, IdleIn
<1>7. Typed(pc', vChecks, fOk', queue, pushed) /\ Counted(pc', nTotal, nIdle)
      BY <1>1, <1>4, <1>5, <1>6 DEF Good, Typed, Counted
<1>8. Shared(pc', vChecks, queue, nTodo, pushed)
      BY <1>1, <1>3, <1>4 DEF Good, Shared
<1>9. pc'[Master] = "out" <=> pc[Master] = "out"
      BY <1>3, <1>4 DEF Thread
<1>10. Judged(pc', vChecks, fOk', queue, fAllOk, pushed)
  <2>1. Judged(pc, vChecks, fOk, queue, fAllOk, pushed)
        BY <1>1 DEF Good
  <2>2. vChecks[t] \subseteq pushed
        BY <1>1 DEF Good, Shared, Held
  <2>3. ~fOk'[t] => pushed \cap Bad # {}
        BY <1>3, <1>5, <2>1, <2>2 DEF Judged
  <2>4. \A u \in Thread : pc'[u] \in {"work", "report"} /\ ~fOk'[u] => pushed \cap Bad # {}
        BY <1>4, <1>5, <2>1, <2>3 DEF Judged
  <2>5. ASSUME pc[Master] # "out", fAllOk, NEW c \in pushed \cap Bad
        PROVE  c \in queue \/ \E u \in Thread : c \in vChecks[u] /\ (pc'[u] = "work" \/ ~fOk'[u])
    <3>1. c \in queue \/ \E u \in Thread : c \in vChecks[u] /\ (pc[u] = "work" \/ ~fOk[u])
          BY <2>1, <2>5 DEF Judged
    <3>2. ASSUME NEW u \in Thread, c \in vChecks[u], pc[u] = "work" \/ ~fOk[u]
          PROVE  pc'[u] = "work" \/ ~fOk'[u]
          BY <1>4, <1>5, <3>2
    <3> QED BY <3>1, <3>2
  <2> QED BY <1>9, <2>1, <2>4, <2>5 DEF Judged
<1>11. Ended(pc', vChecks, queue, nTodo, fAllOk, pushed, verdict)
  <2>1. pc'[Master] = "wait" => pc[Master] = "wait"
        BY <1>4 DEF Thread
  <2> QED BY <1>1, <1>9, <2>1 DEF Good, Ended
<1> QED BY <1>1, <1>3, <1>7, <1>8, <1>10, <1>11 DEF Inv, Good, shared

-----------------------------------------------------------------------------
(* Inv holds at first, ...                                                 *)
LEMMA InitInv ==
    ASSUME CheckQueueAssumption, Init
    PROVE  Inv
<1>1. /\ pc \in [Thread -> Label] /\ pc[Master] = "out"
      /\ \A t \in Thread : pc[t] \in {"out", "enter"}
      BY DEF Init, Thread, Label
<1>2. LoopIn(pc) = {} /\ IdleIn(pc) = {}
      BY <1>1 DEF LoopIn, IdleIn
<1>3. /\ vChecks \in [Thread -> SUBSET Check] /\ fOk \in [Thread -> BOOLEAN]
      /\ \A t \in Thread : vChecks[t] = {}
      BY DEF Init
<1>4. queue \cup Held(vChecks) = {}
      BY <1>3 DEF Init, Held
<1>5. Typed(pc, vChecks, fOk, queue, pushed) /\ Counted(pc, nTotal, nIdle)
      BY <1>1, <1>2, <1>3, FS_EmptySet DEF Init, Typed, Counted
<1>6. Shared(pc, vChecks, queue, nTodo, pushed)
      BY <1>1, <1>3, <1>4, FS_EmptySet DEF Init, Shared
<1>7. Judged(pc, vChecks, fOk, queue, fAllOk, pushed)
      BY <1>1 DEF Init, Judged
<1>8. Ended(pc, vChecks, queue, nTodo, fAllOk, pushed, verdict)
      BY <1>1, <1>4 DEF Init, Ended
<1> QED BY <1>5, <1>6, <1>7, <1>8 DEF Inv, Good, Init

(* ... every step keeps it, ...                                            *)
LEMMA StepInv ==
    ASSUME CheckQueueAssumption, Inv, [Next]_vars
    PROVE  Inv'
<1>1. pc \in [Thread -> Label] /\ Master \in Thread /\ Worker \subseteq Thread
      BY DEF Inv, Good, Typed, Thread
<1>2. CASE BeginBlock
      BY <1>2, BeginBlockKeeps
<1>3. ASSUME NEW checks \in SUBSET Check, Add(checks) PROVE Inv'
      BY <1>3, AddKeeps
<1>4. CASE Wait
      BY <1>1, <1>4, MoveKeeps DEF Wait, Label
<1>5. ASSUME NEW t \in Thread, Step(t) PROVE Inv'
      BY <1>5, EnterKeeps, ReportKeeps, WakeUpKeeps, WorkKeeps DEF Step
<1>6. ASSUME NEW t \in Thread, SpuriousWakeup(t) PROVE Inv'
  <2>1. pc' = [u \in Thread |-> IF u \in {t} THEN "woken" ELSE pc[u]] /\ pc[t] = "wait"
        BY <1>6 DEF SpuriousWakeup, Wake
  <2>2. pc' \in [Thread -> Label]
        BY <1>1, <2>1 DEF Label
  <2> QED BY <1>6, <2>1, <2>2, MoveKeeps DEF SpuriousWakeup
<1>7. ASSUME NEW w \in Worker, Interrupted(w) PROVE Inv'
  <2>1. pc' = [pc EXCEPT ![w] = "gone"] /\ pc[w] = "wait"
        BY <1>7 DEF Interrupted
  <2>2. pc' \in [Thread -> Label]
        BY <1>1, <2>1 DEF Label
  <2>3. \A t \in Thread : pc'[t] # pc[t] => t = w /\ pc'[t] = "gone"
        BY <1>1, <2>1
  <2> QED BY <1>7, <2>1, <2>2, <2>3, MoveKeeps DEF Interrupted
<1>8. CASE UNCHANGED vars
      BY <1>8 DEF vars, shared, Inv
<1> QED BY <1>2, <1>3, <1>4, <1>5, <1>6, <1>7, <1>8 DEF Next

(* ... and it implies what is said of the queue.                           *)
LEMMA InvImplies ==
    ASSUME CheckQueueAssumption, Inv
    PROVE  VerdictExact /\ TodoExact /\ SomeoneAwake
<1>1. Good(pc, vChecks, fOk, queue, nTotal, nIdle, nTodo, fAllOk, pushed, verdict)
      BY DEF Inv
<1>2. Outstanding = queue \cup Held(vChecks)
      BY DEF Outstanding, Held
<1>3. VerdictExact
      BY <1>1, <1>2 DEF Good, Ended, VerdictExact
<1>4. TodoExact
      BY <1>1, <1>2 DEF Good, Shared, TodoExact
<1>5. SomeoneAwake
  <2>1. SUFFICES ASSUME pc[Master] = "wait"
                 PROVE  \E w \in Worker : pc[w] \in {"work", "report"}
        BY DEF SomeoneAwake
  <2>2. queue = {} /\ nTodo # 0
        BY <1>1, <2>1 DEF Good, Ended
  <2>3. Held(vChecks) # {}
        BY <1>1, <2>2, FS_EmptySet DEF Good, Shared
  <2>4. PICK t \in Thread : vChecks[t] # {}
        BY <2>3 DEF Held
  <2>5. pc[t] \in {"work", "report"}
        BY <1>1, <2>4 DEF Good, Shared
  <2> QED BY <2>1, <2>5 DEF Thread
<1> QED BY <1>3, <1>4, <1>5

(* For any number of workers, checks and blocks: the verdict Wait returns  *)
(* is that of the checks of its own block, and none is left.               *)
THEOREM VerdictIsExact ==
    ASSUME CheckQueueAssumption
    PROVE  Spec => []VerdictExact
<1>1. Init => Inv
      BY InitInv
<1>2. Inv /\ [Next]_vars => Inv'
      BY StepInv
<1>3. Inv => VerdictExact
      BY InvImplies
<1> QED BY <1>1, <1>2, <1>3, PTL DEF Spec

(* nTodo is what is outstanding, and no check is in two batches.           *)
THEOREM TodoIsExact ==
    ASSUME CheckQueueAssumption
    PROVE  Spec => []TodoExact
<1>1. Init => Inv
      BY InitInv
<1>2. Inv /\ [Next]_vars => Inv'
      BY StepInv
<1>3. Inv => TodoExact
      BY InvImplies
<1> QED BY <1>1, <1>2, <1>3, PTL DEF Spec

(* The master never waits for a notification nobody will send.             *)
THEOREM MasterIsWoken ==
    ASSUME CheckQueueAssumption
    PROVE  Spec => []SomeoneAwake
<1>1. Init => Inv
      BY InitInv
<1>2. Inv /\ [Next]_vars => Inv'
      BY StepInv
<1>3. Inv => SomeoneAwake
      BY InvImplies
<1> QED BY <1>1, <1>2, <1>3, PTL DEF Spec
=============================================================================

------------------------------ MODULE CheckQueue ------------------------------
(***************************************************************************)
(* CCheckQueue (checkqueue.h): ConnectBlock pushes the script checks of a  *)
(* block, worker threads take them in batches, and when all are pushed the *)
(* master joins the workers until none is left and gets the verdict.       *)
(*                                                                         *)
(* A step is one critical section of the mutex, or the work on a batch     *)
(* between two of them.  Only one CCheckQueueControl exists at a time      *)
(* (ControlMutex), so there is one master.  The order in the queue does    *)
(* not matter: a batch is any set of checks of the right size.             *)
(***************************************************************************)
EXTENDS Integers, FiniteSets, FiniteSetsExt

CONSTANTS Worker, Master,
          Check, Bad,  \* the checks, and those that fail
          nBatchSize,  \* the most a thread takes at once
          MaxBlocks    \* bound on the blocks verified

CheckQueueAssumption ==
    /\ Master \notin Worker /\ IsFiniteSet(Worker)
    /\ IsFiniteSet(Check) /\ Bad \subseteq Check
    /\ nBatchSize \in Nat \ {0} /\ MaxBlocks \in Nat

VARIABLES
    queue,    \* the checks not taken yet
    nIdle, nTotal, fAllOk, nTodo,
    pc,       \* where each thread is
    vChecks,  \* its batch, until its result is counted
    fOk,      \* the verdict on the batch
    pushed,   \* the checks pushed for this block
    verdict,  \* what the last Wait returned
    blocks    \* the blocks begun

shared == <<queue, nIdle, nTotal, fAllOk, nTodo>>
vars   == <<shared, pc, vChecks, fOk, pushed, verdict, blocks>>

Thread == Worker \cup {Master}

Init ==
    /\ queue = {} /\ nIdle = 0 /\ nTotal = 0 /\ fAllOk = TRUE /\ nTodo = 0
    /\ pc = [t \in Thread |-> IF t = Master THEN "out" ELSE "enter"]
    /\ vChecks = [t \in Thread |-> {}]
    /\ fOk = [t \in Thread |-> TRUE]
    /\ pushed = {} /\ verdict = TRUE
    /\ blocks = 0

-----------------------------------------------------------------------------
(* CCheckQueueControl.                                                     *)
BeginBlock ==
    /\ pc[Master] = "out" /\ blocks < MaxBlocks
    /\ pc' = [pc EXCEPT ![Master] = "add"]
    /\ pushed' = {}
    /\ blocks' = blocks + 1
    /\ UNCHANGED <<shared, vChecks, fOk, verdict>>

Waiting == {w \in Worker : pc[w] = "wait"}

(* condWorker.notify_one for one check, notify_all for more: the workers   *)
(* that are woken.                                                         *)
Notified(n) ==
    IF n = 0 \/ Waiting = {} THEN {{}}
    ELSE IF n = 1 THEN {{w} : w \in Waiting} ELSE {Waiting}

Wake(T) == [t \in Thread |-> IF t \in T THEN "woken" ELSE pc[t]]

(* Mutant: a batch counts as one check.                                    *)
AddCountsBatches(checks) ==
    /\ pc[Master] = "add"
    /\ checks \cap pushed = {}
    /\ queue' = queue \cup checks
    /\ nTodo' = nTodo + 1
    /\ pushed' = pushed \cup checks
    /\ \E T \in Notified(Cardinality(checks)) : pc' = Wake(T)
    /\ UNCHANGED <<nIdle, nTotal, fAllOk, vChecks, fOk, verdict, blocks>>

(* Add: a batch of checks of the block.                                    *)
Add(checks) ==
    /\ pc[Master] = "add"
    /\ checks \cap pushed = {}
    /\ queue' = queue \cup checks
    /\ nTodo' = nTodo + Cardinality(checks)
    /\ pushed' = pushed \cup checks
    /\ \E T \in Notified(Cardinality(checks)) : pc' = Wake(T)
    /\ UNCHANGED <<nIdle, nTotal, fAllOk, vChecks, fOk, verdict, blocks>>

(* Wait, called at the end of ConnectBlock, or by the destructor after an  *)
(* early return.                                                           *)
Wait ==
    /\ pc[Master] = "add"
    /\ pc' = [pc EXCEPT ![Master] = "enter"]
    /\ UNCHANGED <<shared, vChecks, fOk, pushed, verdict, blocks>>

-----------------------------------------------------------------------------
(* Increasingly smaller batches, but at least one.                         *)
BatchSize(total, idle) ==
    Max({1, Min({nBatchSize, Cardinality(queue) \div (total + idle + 1)})})

(* The threads of Loop find the queue with work in it ...                  *)
TakeBatch(t, p, total, idle, ok) ==
    /\ queue # {}
    /\ \E B \in kSubset(BatchSize(total, idle), queue) :
        /\ vChecks' = [vChecks EXCEPT ![t] = B]
        /\ queue' = queue \ B
    /\ fOk' = [fOk EXCEPT ![t] = ok]
    /\ pc' = [p EXCEPT ![t] = "work"]
    /\ nTotal' = total /\ nIdle' = idle /\ fAllOk' = ok
    /\ UNCHANGED verdict

(* Mutant: the master returns only with a good verdict.                    *)
ReturnGood(t, p, total, idle, todo, ok) ==
    /\ queue = {} /\ t = Master /\ todo = 0 /\ ok
    /\ pc' = [p EXCEPT ![t] = "out"]
    /\ nTotal' = total - 1 /\ nIdle' = idle
    /\ verdict' = ok /\ fAllOk' = TRUE
    /\ vChecks' = [vChecks EXCEPT ![t] = {}]
    /\ UNCHANGED <<queue, fOk>>

(* ... or all work done, and the master returns ...                        *)
Return(t, p, total, idle, todo, ok) ==
    /\ queue = {} /\ t = Master /\ todo = 0
    /\ pc' = [p EXCEPT ![t] = "out"]
    /\ nTotal' = total - 1 /\ nIdle' = idle
    /\ verdict' = ok /\ fAllOk' = TRUE
    /\ vChecks' = [vChecks EXCEPT ![t] = {}]
    /\ UNCHANGED <<queue, fOk>>

(* ... or wait for work, the master for the result of the others.          *)
Sleep(t, p, total, idle, todo, ok) ==
    /\ queue = {} /\ ~(t = Master /\ todo = 0)
    /\ pc' = [p EXCEPT ![t] = "wait"]
    /\ nTotal' = total /\ nIdle' = idle + 1 /\ fAllOk' = ok
    /\ vChecks' = [vChecks EXCEPT ![t] = {}]
    /\ UNCHANGED <<queue, fOk, verdict>>

(* The part of the critical section from where it looks at the queue, with *)
(* the counters as they are then; p has the threads it has woken before.   *)
LookAtQueue(t, p, total, idle, todo, ok) ==
    /\ \/ TakeBatch(t, p, total, idle, ok)
       \/ Return(t, p, total, idle, todo, ok)
       \/ Sleep(t, p, total, idle, todo, ok)
    /\ nTodo' = todo
    /\ UNCHANGED <<pushed, blocks>>

(* Mutant: a thread leaves the idle ones on its first iteration too.       *)
EnterFromIdle(t) ==
    /\ pc[t] = "enter"
    /\ LookAtQueue(t, pc, nTotal + 1, nIdle - 1, nTodo, fAllOk)

(* The lock on the first iteration.                                        *)
Enter(t) ==
    /\ pc[t] = "enter"
    /\ LookAtQueue(t, pc, nTotal + 1, nIdle, nTodo, fAllOk)

(* Mutant: the worker that finishes the last check tells nobody.           *)
MasterNotWoken(t, todo) == pc

(* condMaster.notify_one by the worker that finishes the last check.       *)
MasterWoken(t, todo) ==
    IF t # Master /\ todo = 0 /\ pc[Master] = "wait"
    THEN Wake({Master}) ELSE pc

(* Mutant: the result of the batch overwrites that of earlier ones.        *)
ReportLast(t) ==
    LET todo == nTodo - Cardinality(vChecks[t]) IN
    /\ pc[t] = "report"
    /\ LookAtQueue(t, MasterWoken(t, todo), nTotal, nIdle, todo, fOk[t])

(* The lock after a batch: its result is counted first.                    *)
Report(t) ==
    LET todo == nTodo - Cardinality(vChecks[t]) IN
    /\ pc[t] = "report"
    /\ LookAtQueue(t, MasterWoken(t, todo), nTotal, nIdle, todo,
                   fAllOk /\ fOk[t])

(* The lock after a wait.                                                  *)
WakeUp(t) ==
    /\ pc[t] = "woken"
    /\ LookAtQueue(t, pc, nTotal, nIdle - 1, nTodo, fAllOk)

(* A wait may end without a notification.                                  *)
SpuriousWakeup(t) ==
    /\ pc[t] = "wait"
    /\ pc' = Wake({t})
    /\ UNCHANGED <<shared, vChecks, fOk, pushed, verdict, blocks>>

(* The checks of the batch, until one fails; none if one has failed.       *)
RunChecks(t) ==
    /\ pc[t] = "work"
    /\ fOk' = [fOk EXCEPT ![t] = @ /\ vChecks[t] \cap Bad = {}]
    /\ pc' = [pc EXCEPT ![t] = "report"]
    /\ UNCHANGED <<shared, vChecks, pushed, verdict, blocks>>

(* Interrupt(threadGroup): the worker leaves its wait; nIdle and nTotal    *)
(* still count it.                                                         *)
Interrupted(w) ==
    /\ pc[w] = "wait"
    /\ pc' = [pc EXCEPT ![w] = "gone"]
    /\ UNCHANGED <<shared, vChecks, fOk, pushed, verdict, blocks>>

Step(t) == Enter(t) \/ Report(t) \/ WakeUp(t) \/ RunChecks(t)

Next ==
    \/ BeginBlock
    \/ \E checks \in SUBSET Check : Add(checks)
    \/ Wait
    \/ \E t \in Thread : Step(t) \/ SpuriousWakeup(t)
    \/ \E w \in Worker : Interrupted(w)

Spec == Init /\ [][Next]_vars

(* Threads that can go on do.                                              *)
FairSpec == Spec /\ \A t \in Thread : WF_vars(Step(t))

-----------------------------------------------------------------------------
(***************************************************************************)
(* Properties.                                                             *)
(***************************************************************************)
(* Every variable has its type.                                            *)
TypeOK ==
    /\ queue \subseteq Check /\ pushed \subseteq Check
    /\ nIdle \in Nat /\ nTotal \in Nat /\ nTodo \in Nat
    /\ fAllOk \in BOOLEAN /\ verdict \in BOOLEAN
    /\ pc \in [Thread -> {"out", "add", "enter", "work", "report", "wait",
                          "woken", "gone"}]
    /\ vChecks \in [Thread -> SUBSET Check] /\ fOk \in [Thread -> BOOLEAN]
    /\ blocks \in 0 .. MaxBlocks

(* The checks that are pushed and not counted as done yet.                 *)
Outstanding == queue \cup UNION {vChecks[t] : t \in Thread}

(* When Wait returns, the queue is finished, whoever was still working on  *)
(* a batch, and it says whether every check of this block was good: a bad  *)
(* one is never missed, and never held against the block after it.         *)
VerdictExact ==
    pc[Master] = "out" =>
        /\ Outstanding = {}
        /\ verdict <=> pushed \cap Bad = {}

(* The counters on which the waits depend: nTodo is what is outstanding,   *)
(* and no two threads have the same check.                                 *)
TodoExact ==
    /\ nTodo = Cardinality(Outstanding)
    /\ \A t, u \in Thread : t # u => vChecks[t] \cap vChecks[u] = {}

(* The master never sleeps without somebody who will wake it: work is left *)
(* in the hands of a worker that is awake.                                 *)
SomeoneAwake ==
    pc[Master] = "wait" =>
        \E w \in Worker : pc[w] \in {"work", "report"}

(* ConnectBlock gets its verdict, even if all workers are interrupted.     *)
MasterReturns == pc[Master] = "enter" ~> pc[Master] = "out"
=============================================================================

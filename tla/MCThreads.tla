------------------------------ MODULE MCThreads ------------------------------
(***************************************************************************)
(* Where threads wait for one another: the script check queue with its     *)
(* master and two workers, two threads in ActivateBestChain, the scheduler *)
(* with two workers, a producer of callbacks and the thread that shuts     *)
(* down.  They share no state; scene says which of them moves.             *)
(***************************************************************************)
EXTENDS CheckQueue, TLC

CONSTANTS g, a1, a2, b1, b2, b3, b4,  \* blocks
          t1, t2,                     \* threads in ActivateBestChain
          Producer, Main,             \* clients of the scheduler
          Null, Idle

VARIABLES scene,
          header, have, linked, scripts, failedValid, failedChild, seqId, nextSeq,
          reverseSeq, lastPrecious, candidates, unlinked, failedBlocks, tip,
          mostWork, user, precious, restarts, asserted,
          taskQueue, taskPc, task, pending, running, added, started, done,
          jobs, jobsRun, stop

treeVars == <<header, have, linked, scripts, failedValid, failedChild, seqId, nextSeq,
              reverseSeq, lastPrecious, candidates, unlinked, failedBlocks, tip,
              mostWork, user, precious, restarts, asserted>>
taskVars == <<taskQueue, taskPc, task, pending, running, added, started, done,
              jobs, jobsRun, stop>>

(* Two branches, a1 a2 and b1 b2 b3 b4, of which b2 is invalid; the        *)
(* pointers are ordered against the order of the heights in one branch.    *)
Pprev == (g :> Null) @@ (a1 :> g) @@ (a2 :> a1) @@ (b1 :> g) @@ (b2 :> b1)
         @@ (b3 :> b2) @@ (b4 :> b3)
ChainWork == (g :> 1) @@ (a1 :> 2) @@ (a2 :> 3) @@ (b1 :> 2) @@ (b2 :> 3)
             @@ (b3 :> 4) @@ (b4 :> 5)
Pointer == (g :> 0) @@ (b2 :> 1) @@ (a1 :> 2) @@ (b1 :> 3) @@ (a2 :> 4)
           @@ (b3 :> 5) @@ (b4 :> 6)

Tree == INSTANCE BlockTree
    WITH Block <- {g, a1, a2, b1, b2, b3, b4}, Genesis <- g, Parent <- Pprev,
         Work <- ChainWork, Address <- Pointer, Malformed <- {}, Invalid <- {b2},
         Thread <- {t1, t2}, Invalidatable <- {}, Reconsidered <- {}, Precious <- {},
         MaxPrecious <- 0, MaxUser <- 0, MaxRestarts <- 0

Tasks == INSTANCE Scheduler
    WITH MaxDelay <- 1, Delta <- 1, MaxCallbacks <- 2, MaxJobs <- 1, pc <- taskPc

ASSUME CheckQueueAssumption /\ Tree!TreeAssumption /\ Tasks!SchedulerAssumption

-----------------------------------------------------------------------------
MCInit ==
    /\ scene \in {"tree", "checks", "tasks"}
    /\ Init /\ Tree!Init /\ Tasks!Init
    /\ scene # "tasks" => taskQueue = <<>>

MCNext ==
    /\ \/ scene = "tree" /\ Tree!Next /\ UNCHANGED <<vars, taskVars>>
       \/ scene = "checks" /\ Next /\ UNCHANGED <<treeVars, taskVars>>
       \/ scene = "tasks" /\ Tasks!Next /\ UNCHANGED <<vars, treeVars>>
    /\ UNCHANGED scene

(* The fairness of each component while it moves: a thread that can go on  *)
(* does, and time passes.                                                  *)
Fairness ==
    /\ \A t \in {t1, t2} : WF_treeVars(scene = "tree" /\ Tree!ActivateBestChain(t))
    /\ \A t \in Thread : WF_vars(scene = "checks" /\ Step(t))
    /\ \A w \in Worker : WF_taskVars(scene = "tasks" /\ Tasks!WorkerStep(w))
    /\ \A t \in Worker \cup Producer \cup {Main} :
          WF_taskVars(scene = "tasks" /\ Tasks!ClientStep(t))
    /\ WF_taskVars(scene = "tasks" /\ Tasks!MainStep)
    /\ WF_taskVars(scene = "tasks" /\ Tasks!Tick)

MCSpec == MCInit /\ [][MCNext]_<<scene, vars, treeVars, taskVars>> /\ Fairness

-----------------------------------------------------------------------------
(* The state of every part keeps its type.                                 *)
TypesOK ==
    CASE scene = "tree" -> Tree!TypeOK
      [] scene = "checks" -> TypeOK
      [] scene = "tasks" -> Tasks!TypeOK

(* No assert() of AcceptBlockHeader or PruneBlockIndexCandidates fails,    *)
(* with two threads that move the tip and prune each other's candidates.   *)
NoAssertionFails == scene = "tree" => Tree!NoAssertionFails

(* Every ActivateBestChain comes to an end, also when another thread goes  *)
(* for another chain, or an invalid block is on the way.                   *)
ActivationEnds == Tree!ActivationEnds

(* Callbacks run one at a time and in the order they were added, whatever  *)
(* threads ProcessQueue was scheduled on, and one that waits always has    *)
(* somebody who will look for it (SingleThreadedSchedulerClient).          *)
CallbacksInOrder == scene = "tasks" => Tasks!Serial /\ Tasks!NeverForgotten

(* Every callback that was added is run, also while the node shuts down;   *)
(* every task is run unless the threads end; all workers of the scheduler  *)
(* end after an interrupt or a stop that does not drain the queue, and     *)
(* after one that does unless a task of it is repeated for ever            *)
(* (serviceQueue, Repeat, EmptyQueue, stop).                               *)
SchedulerFinishes == Tasks!CallbacksRun /\ Tasks!TasksRun /\ Tasks!ThreadsEnd
=============================================================================

------------------------------ MODULE Scheduler ------------------------------
(***************************************************************************)
(* CScheduler, whose threads take timed tasks from one queue, and          *)
(* SingleThreadedSchedulerClient, which runs callbacks one at a time on    *)
(* whichever of these threads is free (scheduler.cpp).  Nothing in the     *)
(* repository calls AddToProcessQueue: Producer stands for any thread that *)
(* would.                                                                  *)
(*                                                                         *)
(* One step is what a thread does under newTaskMutex or under              *)
(* m_cs_callbacks_pending, or between two acquisitions of them.  A notify  *)
(* is a step of its own where the code has left the lock before it.        *)
(*                                                                         *)
(* Times are told by the ticks that are left, which is all that the code   *)
(* compares; a task that is due, or overdue, has none.  So the clock has   *)
(* no bound, and a repeated task is repeated for ever.                     *)
(***************************************************************************)
EXTENDS Naturals, FiniteSets, SequencesExt

CONSTANTS Worker,        \* the threads in serviceQueue
          Producer,      \* threads that add callbacks and schedule tasks
          Main,          \* the thread that shuts down
          MaxDelay,      \* bound on the ticks until a task is due
          Delta,         \* deltaMilliSeconds of the repeated task, in ticks
          MaxCallbacks,  \* bound on the callbacks added
          MaxJobs        \* bound on the tasks scheduled for a given time

SchedulerAssumption ==
    /\ Worker \cap Producer = {} /\ Main \notin Worker \cup Producer
    /\ MaxDelay \in Nat /\ Delta \in 1 .. MaxDelay
    /\ MaxCallbacks \in Nat /\ MaxJobs \in Nat

VARIABLES
    taskQueue,     \* sequence of tasks by time, as the multimap orders them
    pc,            \* where each thread is
    task,          \* what the thread runs, or waits for (timeToWaitFor)
    pending,       \* m_callbacks_pending
    running,       \* m_are_callbacks_running
    added,         \* callbacks are numbered in the order they are added
    started,       \* the number of callbacks started
    done,          \* and of those that have returned
    jobs, jobsRun, \* tasks scheduled for a time, and those taken to be run
    stop           \* "no", or how the threads were told to end

clientVars == <<pending, running, added, started, done>>
jobVars    == <<jobs, jobsRun>>
vars       == <<taskQueue, pc, task, clientVars, jobVars, stop>>

Thread == Worker \cup Producer \cup {Main}
Task   == [time: 0 .. MaxDelay, kind: {"process", "job", "repeat"}]
NoTask == [time |-> 0, kind |-> "process"]
Repeated == [time |-> Delta, kind |-> "repeat"]

Init ==
    /\ taskQueue \in {<<>>, <<Repeated>>}   \* scheduleEvery was called, or not
    /\ pc = [t \in Thread |-> IF t \in Worker THEN "loop" ELSE "ready"]
    /\ task = [t \in Thread |-> NoTask]
    /\ pending = <<>> /\ running = FALSE
    /\ added = 0 /\ started = 0 /\ done = 0
    /\ jobs = 0 /\ jobsRun = 0
    /\ stop = "no"

Goto(t, l) == pc' = [pc EXCEPT ![t] = l]

-----------------------------------------------------------------------------
(***************************************************************************)
(* newTaskScheduled.  A thread that is woken looks at the queue again from *)
(* the head of its loop.                                                   *)
(***************************************************************************)
Waiting(p) == {w \in Worker : p[w] \in {"idle", "timed"}}

(* notify_one: one of the waiting threads, if there is any.                *)
NotifyOne(p) ==
    IF Waiting(p) = {} THEN {p}
    ELSE {[p EXCEPT ![w] = "loop"] : w \in Waiting(p)}

NotifyAll(p) == [t \in Thread |-> IF t \in Waiting(p) THEN "loop" ELSE p[t]]

shouldStop ==
    \/ stop = "stop"
    \/ stop = "drain" /\ taskQueue = <<>>

(* taskQueue.insert: behind the tasks of the same time.                    *)
Inserted(k) ==
    LET before == Cardinality({i \in DOMAIN taskQueue :
                                    taskQueue[i].time <= k.time})
    IN  InsertAt(taskQueue, before + 1, k)

-----------------------------------------------------------------------------
(***************************************************************************)
(* serviceQueue from the head of its loop to the next wait, which releases *)
(* the mutex: the thread ends, waits for a task, or waits for the time of  *)
(* the first task.                                                         *)
(***************************************************************************)
ServiceLoop(w) ==
    /\ pc[w] = "loop"
    /\ IF shouldStop
       THEN pc' \in NotifyOne([pc EXCEPT ![w] = "out"]) /\ UNCHANGED task
       ELSE IF taskQueue = <<>>
       THEN Goto(w, "idle") /\ UNCHANGED task
       ELSE /\ Goto(w, "timed")
            /\ task' = [task EXCEPT ![w] = [NoTask EXCEPT !.time = Head(taskQueue).time]]
    /\ UNCHANGED <<taskQueue, clientVars, jobVars, stop>>

(* wait_until returns with a timeout; the mutex is not held yet.  A thread *)
(* that is interrupted does not get so far.                                *)
TimeOut(w) ==
    /\ pc[w] = "timed" /\ task[w].time = 0 /\ stop # "interrupt"
    /\ Goto(w, "late")
    /\ UNCHANGED <<taskQueue, task, clientVars, jobVars, stop>>

(* Either wait may return without a notification, unless there is reason   *)
(* for a timeout or an interruption.                                       *)
SpuriousWakeup(w) ==
    /\ w \in Waiting(pc) /\ stop # "interrupt"
    /\ pc[w] = "timed" => task[w].time > 0
    /\ Goto(w, "loop")
    /\ UNCHANGED <<taskQueue, task, clientVars, jobVars, stop>>

(* After the timeout, with the mutex again: whatever is first by now.      *)
TakeTask(w) ==
    /\ pc[w] = "late"
    /\ IF shouldStop \/ taskQueue = <<>>
       THEN Goto(w, "loop") /\ UNCHANGED <<taskQueue, task, jobsRun>>
       ELSE LET first == Head(taskQueue) IN
            /\ task' = [task EXCEPT ![w] = [first EXCEPT !.time = 0]]
            /\ taskQueue' = Tail(taskQueue)
            /\ Goto(w, "run")
            /\ jobsRun' = jobsRun + IF first.kind = "job" THEN 1 ELSE 0
    /\ UNCHANGED <<clientVars, jobs, stop>>

(* A job is done; Repeat schedules itself again.                           *)
RunJob(w) ==
    /\ pc[w] = "run" /\ task[w].kind # "process"
    /\ IF task[w].kind = "repeat"
       THEN taskQueue' = Inserted(Repeated) /\ Goto(w, "notify")
       ELSE Goto(w, "loop") /\ UNCHANGED taskQueue
    /\ task' = [task EXCEPT ![w] = NoTask]
    /\ UNCHANGED <<clientVars, jobVars, stop>>

(* The thread is interrupted in a wait and leaves without a notify.        *)
Interrupted(w) ==
    /\ stop = "interrupt" /\ w \in Waiting(pc)
    /\ Goto(w, "out")
    /\ UNCHANGED <<taskQueue, task, clientVars, jobVars, stop>>

-----------------------------------------------------------------------------
(***************************************************************************)
(* SingleThreadedSchedulerClient.                                          *)
(***************************************************************************)
Returned(t) == IF t \in Worker THEN "loop"
               ELSE IF t = Main THEN "again" ELSE "ready"

(* Mutant: the running flag is not looked at.                              *)
ProcessQueueAnyway(t) ==
    /\ pc[t] = "run" /\ task[t].kind = "process"
    /\ IF pending = <<>>
       THEN Goto(t, Returned(t)) /\ UNCHANGED <<pending, running, started>>
       ELSE /\ running' = TRUE
            /\ started' = Head(pending)
            /\ pending' = Tail(pending)
            /\ Goto(t, "callback")
    /\ UNCHANGED <<taskQueue, task, added, done, jobVars, stop>>

(* ProcessQueue up to the callback.                                        *)
ProcessQueue(t) ==
    /\ pc[t] = "run" /\ task[t].kind = "process"
    /\ IF running \/ pending = <<>>
       THEN Goto(t, Returned(t)) /\ UNCHANGED <<pending, running, started>>
       ELSE /\ running' = TRUE
            /\ started' = Head(pending)
            /\ pending' = Tail(pending)
            /\ Goto(t, "callback")
    /\ UNCHANGED <<taskQueue, task, added, done, jobVars, stop>>

CallbackReturns(t) ==
    /\ pc[t] = "callback"
    /\ done' = done + 1
    /\ Goto(t, "clear")
    /\ UNCHANGED <<taskQueue, task, pending, running, added, started,
                   jobVars, stop>>

(* ~RAIICallbacksRunning.                                                  *)
ClearRunning(t) ==
    /\ pc[t] = "clear"
    /\ running' = FALSE
    /\ Goto(t, "maybe")
    /\ UNCHANGED <<taskQueue, task, pending, added, started, done,
                   jobVars, stop>>

AddToProcessQueue(p) ==
    /\ pc[p] = "ready" /\ stop = "no"
    /\ added < MaxCallbacks
    /\ added' = added + 1
    /\ pending' = Append(pending, added + 1)
    /\ Goto(p, "maybe")
    /\ UNCHANGED <<taskQueue, task, running, started, done, jobVars, stop>>

(* MaybeScheduleProcessQueue looks under the lock ...                      *)
MaybeScheduleProcessQueue(t) ==
    /\ pc[t] = "maybe"
    /\ Goto(t, IF running \/ pending = <<>> THEN Returned(t) ELSE "insert")
    /\ UNCHANGED <<taskQueue, task, clientVars, jobVars, stop>>

(* ... and schedules after it.                                             *)
ScheduleProcessQueue(t) ==
    /\ pc[t] = "insert"
    /\ taskQueue' = Inserted([time |-> 0, kind |-> "process"])
    /\ Goto(t, "notify")
    /\ UNCHANGED <<task, clientVars, jobVars, stop>>

(* scheduleFromNow, or schedule with no time left.                         *)
Schedule(p, delay) ==
    /\ pc[p] = "ready" /\ stop = "no"
    /\ jobs < MaxJobs
    /\ jobs' = jobs + 1
    /\ taskQueue' = Inserted([time |-> delay, kind |-> "job"])
    /\ Goto(p, "notify")
    /\ UNCHANGED <<task, clientVars, jobsRun, stop>>

(* Mutant: schedule does not notify.                                       *)
NoNotify(t) ==
    /\ pc[t] = "notify"
    /\ pc' = [pc EXCEPT ![t] = Returned(t)]
    /\ UNCHANGED <<taskQueue, task, clientVars, jobVars, stop>>

(* The end of schedule.                                                    *)
Notify(t) ==
    /\ pc[t] = "notify"
    /\ pc' \in NotifyOne([pc EXCEPT ![t] = Returned(t)])
    /\ UNCHANGED <<taskQueue, task, clientVars, jobVars, stop>>

-----------------------------------------------------------------------------
(* The end of the node, when its other threads are done: CScheduler::stop, *)
(* or Interrupt(threadGroup).                                              *)
Stop(how) ==
    /\ pc[Main] = "ready" /\ stop = "no"
    /\ \A p \in Producer : pc[p] = "ready"
    /\ stop' = how
    /\ Goto(Main, IF how = "interrupt" THEN "join" ELSE "stop")
    /\ UNCHANGED <<taskQueue, task, clientVars, jobVars>>

StopNotify ==
    /\ pc[Main] = "stop"
    /\ pc' = [NotifyAll(pc) EXCEPT ![Main] = "join"]
    /\ UNCHANGED <<taskQueue, task, clientVars, jobVars, stop>>

(* join_all, then EmptyQueue: ProcessQueue on this thread ...              *)
EmptyQueue ==
    /\ pc[Main] = "join"
    /\ \A w \in Worker : pc[w] = "out"
    /\ Goto(Main, "run")
    /\ UNCHANGED <<taskQueue, task, clientVars, jobVars, stop>>

(* ... until nothing is pending.                                           *)
ShouldContinue ==
    /\ pc[Main] = "again"
    /\ Goto(Main, IF pending = <<>> THEN "out" ELSE "run")
    /\ UNCHANGED <<taskQueue, task, clientVars, jobVars, stop>>

(* Time passes, for the tasks and for those that wait for them.            *)
Sooner(k) == [k EXCEPT !.time = IF @ = 0 THEN 0 ELSE @ - 1]

Tick ==
    /\ taskQueue' = [i \in DOMAIN taskQueue |-> Sooner(taskQueue[i])]
    /\ task' = [t \in Thread |-> Sooner(task[t])]
    /\ UNCHANGED <<pc, clientVars, jobVars, stop>>

WorkerStep(w) ==
    \/ ServiceLoop(w) \/ TimeOut(w) \/ TakeTask(w) \/ RunJob(w)
    \/ Interrupted(w)

ClientStep(t) ==
    \/ ProcessQueue(t) \/ CallbackReturns(t) \/ ClearRunning(t)
    \/ MaybeScheduleProcessQueue(t) \/ ScheduleProcessQueue(t) \/ Notify(t)

MainStep == StopNotify \/ EmptyQueue \/ ShouldContinue

Next ==
    \/ \E w \in Worker : WorkerStep(w) \/ SpuriousWakeup(w)
    \/ \E t \in Thread : ClientStep(t)
    \/ \E p \in Producer :
        AddToProcessQueue(p) \/ \E delay \in 0 .. MaxDelay : Schedule(p, delay)
    \/ \E how \in {"stop", "drain", "interrupt"} : Stop(how)
    \/ MainStep
    \/ Tick

Spec == Init /\ [][Next]_vars

(* A thread that can go on does so, a callback returns, and time passes.   *)
FairSpec ==
    /\ Spec
    /\ \A w \in Worker : WF_vars(WorkerStep(w))
    /\ \A t \in Thread : WF_vars(ClientStep(t))
    /\ WF_vars(MainStep)
    /\ WF_vars(Tick)

-----------------------------------------------------------------------------
(***************************************************************************)
(* Properties.                                                             *)
(***************************************************************************)
Label == {"loop", "idle", "timed", "late", "run", "callback", "clear", "maybe",
          "insert", "notify", "ready", "stop", "join", "again", "out"}

(* Every variable has its type.                                            *)
TypeOK ==
    /\ taskQueue \in Seq(Task)
    /\ pc \in [Thread -> Label] /\ task \in [Thread -> Task]
    /\ pending \in Seq(1 .. MaxCallbacks)
    /\ running \in BOOLEAN
    /\ added \in 0 .. MaxCallbacks /\ started \in 0 .. added
    /\ done \in 0 .. started
    /\ jobs \in 0 .. MaxJobs /\ jobsRun \in 0 .. jobs
    /\ stop \in {"no", "stop", "drain", "interrupt"}

(* "No two jobs will be executed at the same time" (scheduler.h): although *)
(* two copies of ProcessQueue may be scheduled at once, only one thread is *)
(* in a callback, the flag says so, and a callback begins only after all   *)
(* that were added before it have returned.                                *)
Serial ==
    /\ \A t, u \in Thread :
        pc[t] \in {"callback", "clear"} /\ pc[u] \in {"callback", "clear"} => t = u
    /\ running <=> \E t \in Thread : pc[t] \in {"callback", "clear"}
    /\ started = IF \E t \in Thread : pc[t] = "callback" THEN done + 1 ELSE done

(* A callback that waits is never forgotten: somebody runs one and will    *)
(* look again, is about to schedule ProcessQueue, or has it scheduled.     *)
NeverForgotten ==
    pending # <<>> =>
        \/ running
        \/ \E i \in DOMAIN taskQueue : taskQueue[i].kind = "process"
        \/ \E t \in Thread :
            \/ pc[t] \in {"clear", "maybe", "insert", "again"}
            \/ pc[t] = "run" /\ task[t].kind = "process"
        \/ stop # "no"

(* Every callback that was added is run, by the threads or by EmptyQueue,  *)
(* whenever the threads are stopped or interrupted.                        *)
CallbacksRun == \A k \in 1 .. MaxCallbacks : added >= k ~> done >= k

(* Every task is run unless the threads end, however often a repeated one  *)
(* comes before it.                                                        *)
TasksRun == \A k \in 1 .. MaxJobs :
    jobs >= k ~> jobsRun >= k \/ stop \in {"stop", "interrupt"}

(* A thread that was told to end does.  One that was told to drain the     *)
(* queue does so when it has become empty, which takes that nothing was    *)
(* scheduled to be repeated: Repeat puts its task back whether the threads *)
(* are to end or not.                                                      *)
Repeating ==
    \/ \E i \in DOMAIN taskQueue : taskQueue[i].kind = "repeat"
    \/ \E w \in Worker : pc[w] = "run" /\ task[w].kind = "repeat"

ThreadsEnd ==
    /\ stop \in {"stop", "interrupt"} ~> \A w \in Worker : pc[w] = "out"
    /\ stop = "drain" ~> Repeating \/ \A w \in Worker : pc[w] = "out"

=============================================================================

------------------------------ MODULE TaskPool ------------------------------
(***************************************************************************)
(* The task pool (include/celer/core/task_pool.hpp).                       *)
(*                                                                         *)
(* Any thread submits tasks, a running task included; workers take them    *)
(* from the submission queue in order.  The per-worker deques of the class *)
(* are left out: nothing pushes to them, so steps 1 and 3 of worker_loop   *)
(* and the first loop of drain_remaining never find a task.                *)
(*                                                                         *)
(* submit notifies without wake_mutex_, so a notification may fall between *)
(* a worker's test of its wait predicate and its going to sleep, and is    *)
(* lost; the timeout of wait_for is the remedy.                            *)
(***************************************************************************)
EXTENDS Integers, Sequences, SequencesExt

CONSTANTS
    Tasks,    \* the tasks there are to submit
    Workers   \* the worker threads, num_workers_ of them

\* The constructor turns a count of 0 into at least 2.
ASSUME WorkersAssumption == Workers # {}

VARIABLES
    queue,      \* submission_queue_
    shutdown,   \* shutdown_
    pc,         \* where each worker is in worker_loop or drain_remaining
    task,       \* the task each worker runs: a set of at most one
    notify,     \* submitters that have queued a task and not yet called notify_one
    submitted,  \* history: the tasks submitted
    done,       \* history: the tasks that have run
    late        \* history: the tasks submitted from outside after shutdown began

vars == <<queue, shutdown, pc, task, notify, submitted, done, late>>

Busy == {"run", "drainRun"}

Running == UNION {task[w] : w \in Workers}

-----------------------------------------------------------------------------
(* submit and shutdown *)

Enqueue(t) ==
    /\ t \notin submitted
    /\ submitted' = submitted \union {t}
    /\ queue' = Append(queue, t)
    /\ notify' = notify \union {t}
    /\ UNCHANGED <<shutdown, pc, task, done>>

Submit(t) ==
    /\ Enqueue(t)
    /\ late' = IF shutdown THEN late \union {t} ELSE late

SubmitFromTask(w, t) ==
    /\ pc[w] \in Busy
    /\ Enqueue(t)
    /\ UNCHANGED late

\* notify_one reaches a sleeping worker if there is one.
NotifyOne(t) ==
    /\ t \in notify
    /\ notify' = notify \ {t}
    /\ LET sleeping == {w \in Workers : pc[w] = "asleep"} IN
          IF sleeping = {} THEN UNCHANGED pc
          ELSE \E w \in sleeping : pc' = [pc EXCEPT ![w] = "test"]
    /\ UNCHANGED <<queue, shutdown, task, submitted, done, late>>

Shutdown ==
    /\ ~shutdown
    /\ shutdown' = TRUE
    /\ pc' = [w \in Workers |-> IF pc[w] = "asleep" THEN "test" ELSE pc[w]]
    /\ UNCHANGED <<queue, task, notify, submitted, done, late>>

-----------------------------------------------------------------------------
(* worker_loop and drain_remaining *)

Goto(w, where) ==
    /\ pc' = [pc EXCEPT ![w] = where]
    /\ UNCHANGED <<queue, shutdown, task, notify, submitted, done, late>>

\* Mutant of PopFront: the task is copied and stays in the queue.
PopFrontCopies(w, where) ==
    /\ queue # <<>>
    /\ task' = [task EXCEPT ![w] = {Head(queue)}]
    /\ pc' = [pc EXCEPT ![w] = where]
    /\ UNCHANGED <<queue, shutdown, notify, submitted, done, late>>

\* The front of the submission queue, under its mutex.
PopFront(w, where) ==
    /\ queue # <<>>
    /\ task' = [task EXCEPT ![w] = {Head(queue)}]
    /\ queue' = Tail(queue)
    /\ pc' = [pc EXCEPT ![w] = where]
    /\ UNCHANGED <<shutdown, notify, submitted, done, late>>

RunTask(w, where) ==
    /\ done' = done \union task[w]
    /\ task' = [task EXCEPT ![w] = {}]
    /\ pc' = [pc EXCEPT ![w] = where]
    /\ UNCHANGED <<queue, shutdown, notify, submitted, late>>

TakeTask(w) == pc[w] = "scan" /\ PopFront(w, "run")

Run(w) == pc[w] = "run" /\ RunTask(w, "scan")

\* Mutant of NoTask: the worker does not look whether it found a task.
NoTaskRuns(w) == pc[w] = "scan" /\ queue = <<>> /\ Goto(w, "run")

NoTask(w) == pc[w] = "scan" /\ queue = <<>> /\ Goto(w, "nowork")

\* Mutants of CheckShutdown: no drain before the exit; shutdown_ not looked at.
CheckShutdownExits(w) ==
    /\ pc[w] = "nowork"
    /\ Goto(w, IF shutdown THEN "exit" ELSE "test")

CheckShutdownNever(w) == pc[w] = "nowork" /\ Goto(w, "test")

CheckShutdown(w) ==
    /\ pc[w] = "nowork"
    /\ Goto(w, IF shutdown THEN "drain" ELSE "test")

\* wait_for: the predicate is tested before every sleep ...
TestPredicate(w) ==
    /\ pc[w] = "test"
    /\ Goto(w, IF shutdown \/ queue # <<>> THEN "scan" ELSE "falling")

FallAsleep(w) == pc[w] = "falling" /\ Goto(w, "asleep")

\* Mutant of Timeout: wait in place of wait_for.
TimeoutNever(w) == FALSE

\* ... and the wait ends after 100 microseconds whatever it says.
Timeout(w) == pc[w] = "asleep" /\ Goto(w, "scan")

DrainTask(w) == pc[w] = "drain" /\ PopFront(w, "drainRun")

DrainRun(w) == pc[w] = "drainRun" /\ RunTask(w, "drain")

Exit(w) == pc[w] = "drain" /\ queue = <<>> /\ Goto(w, "exit")

-----------------------------------------------------------------------------
Init ==
    /\ queue = <<>>
    /\ shutdown = FALSE
    /\ pc = [w \in Workers |-> "scan"]
    /\ task = [w \in Workers |-> {}]
    /\ notify = {}
    /\ submitted = {}
    /\ done = {}
    /\ late = {}

Loop(w) ==
    \/ TakeTask(w) \/ Run(w) \/ NoTask(w) \/ CheckShutdown(w)
    \/ TestPredicate(w) \/ FallAsleep(w) \/ Timeout(w)
    \/ DrainTask(w) \/ DrainRun(w) \/ Exit(w)

Next ==
    \/ \E t \in Tasks : Submit(t) \/ NotifyOne(t)
    \/ \E w \in Workers, t \in Tasks : SubmitFromTask(w, t)
    \/ Shutdown
    \/ \E w \in Workers : Loop(w)

\* Tasks return and locks are released, so every worker keeps running.
\* Submitters may stop at any point, between queueing and notifying too.
Spec == Init /\ [][Next]_vars /\ \A w \in Workers : WF_vars(Loop(w))

-----------------------------------------------------------------------------
(* Properties *)

\* The variables have their types, and a worker that calls task() has a task: an
\* empty std::function would throw.
TypeOK ==
    /\ queue \in Seq(Tasks)
    /\ shutdown \in BOOLEAN
    /\ pc \in [Workers -> Busy \union {"scan", "nowork", "test", "falling", "asleep",
                                      "drain", "exit"}]
    /\ task \in [Workers -> SUBSET Tasks]
    /\ \A w \in Workers : pc[w] \in Busy <=> task[w] # {}
    /\ notify \subseteq submitted
    /\ submitted \subseteq Tasks
    /\ done \subseteq submitted
    /\ late \subseteq submitted

\* A submitted task is queued once, or run by one worker, or done, and only one
\* of these, so it runs once however many workers race for it.
RunOnce ==
    /\ IsInjective(queue)
    /\ \A v, w \in Workers : v # w => task[v] \intersect task[w] = {}
    /\ submitted = Range(queue) \union Running \union done
    /\ Range(queue) \intersect (Running \union done) = {}
    /\ Running \intersect done = {}

AllExited == \A w \in Workers : pc[w] = "exit"

\* "Signal all workers to finish pending work and exit": when shutdown has
\* joined the workers, every task submitted before it was called, and every
\* task that a running task submitted, has run.  Only what other threads submit
\* afterwards is left.
ShutdownFinishesWork == AllExited => submitted \ late \subseteq done

\* shutdown returns: every worker exits.
ShutdownReturns == shutdown ~> AllExited

\* A task submitted in time runs, even when its notification is lost or its
\* submitter never sends it, and whether or not the pool is being shut down.
SubmittedRuns == \A t \in Tasks : (t \in submitted \ late) ~> (t \in done)

=============================================================================

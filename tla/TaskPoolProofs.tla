--------------------------- MODULE TaskPoolProofs ---------------------------
(***************************************************************************)
(* Proofs about TaskPool, for any number of tasks and workers.             *)
(*                                                                         *)
(* ShutdownFinishesWork is not inductive.  It needs RunOnce (what is not   *)
(* done is queued or running), TypeOK (who runs a task has not exited) and *)
(* that a worker drains only once shutdown has begun, so that what comes   *)
(* after the last exit is late.                                            *)
(***************************************************************************)
EXTENDS TaskPool, SequenceFacts, TLAPS

DrainsAfterShutdown ==
    \A w \in Workers : pc[w] \in {"drain", "drainRun", "exit"} => shutdown

IInv == TypeOK /\ RunOnce /\ DrainsAfterShutdown /\ ShutdownFinishesWork

-----------------------------------------------------------------------------
(* The steps *)

LEMMA InitIInv == Init => IInv
<1> SUFFICES ASSUME Init PROVE IInv
  OBVIOUS
<1>1. Running = {}
  BY DEF Init, Running
<1>2. Range(queue) = {} /\ IsInjective(queue)
  BY DEF Init, Range, IsInjective
<1>3. TypeOK
  <2>1. queue \in Seq(Tasks)
    BY DEF Init
  <2>6. shutdown \in BOOLEAN
    BY Zenon DEF Init
  <2>2. task \in [Workers -> SUBSET Tasks] /\ \A w \in Workers : task[w] = {}
    BY DEF Init
  <2>3. \A w \in Workers : pc[w] = "scan"
    BY DEF Init
  <2>4. pc \in [Workers -> Busy \union {"scan", "nowork", "test", "falling", "asleep",
                                       "drain", "exit"}]
    BY DEF Init
  <2>5. notify = {} /\ submitted = {} /\ done = {} /\ late = {}
    BY DEF Init
  <2> QED BY <2>1, <2>2, <2>3, <2>4, <2>5, <2>6 DEF TypeOK, Busy
<1>4. RunOnce
  BY <1>1, <1>2 DEF Init, RunOnce
<1>5. DrainsAfterShutdown /\ ShutdownFinishesWork
  BY DEF Init, DrainsAfterShutdown, ShutdownFinishesWork
<1> QED BY <1>3, <1>4, <1>5 DEF IInv

\* A step that moves one worker from a place without a task to another.
LEMMA StepGoto ==
    ASSUME IInv, NEW w \in Workers, NEW x, Goto(w, x),
           pc[w] \notin Busy, pc[w] # "exit",
           x \in {"scan", "nowork", "test", "falling", "asleep", "drain", "exit"},
           x \in {"drain", "exit"} => shutdown,
           x = "exit" => queue = <<>>
    PROVE  IInv'
<1>1. TypeOK'
  BY DEF IInv, TypeOK, Goto, Busy
<1>2. RunOnce'
  BY DEF IInv, RunOnce, Goto, Running
<1>3. DrainsAfterShutdown'
  BY DEF IInv, DrainsAfterShutdown, Goto, TypeOK
<1>4. ASSUME AllExited' PROVE (submitted \ late \subseteq done)'
  <2>1. x = "exit" /\ queue = <<>>
    BY <1>4 DEF AllExited, Goto, IInv, TypeOK
  <2>2. \A v \in Workers : task[v] = {}
    BY <1>4, <1>1 DEF AllExited, Goto, TypeOK, Busy
  <2>3. Running = {} /\ Range(queue) = {}
    BY <2>1, <2>2 DEF Running, Range
  <2> QED BY <2>3 DEF IInv, RunOnce, Goto
<1> QED BY <1>1, <1>2, <1>3, <1>4 DEF IInv, ShutdownFinishesWork

\* A task enters the queue.
LEMMA StepEnqueue ==
    ASSUME IInv, NEW t \in Tasks, Enqueue(t), late \subseteq late', late' \subseteq late \union {t},
           AllExited => t \in late'
    PROVE  IInv'
<1>1. /\ queue' \in Seq(Tasks)
      /\ Range(queue') = Range(queue) \union {t}
      /\ t \notin Range(queue)
      /\ IsInjective(queue')
  <2>1. t \notin Range(queue)
    BY DEF Enqueue, IInv, RunOnce
  <2> QED BY <2>1, AppendFacts DEF Enqueue, IInv, TypeOK, RunOnce
<1>2. TypeOK'
  BY <1>1 DEF IInv, TypeOK, Enqueue
<1>3. Running' = Running
  BY DEF Running, Enqueue
<1>4. RunOnce'
  BY <1>1, <1>3 DEF IInv, RunOnce, Enqueue
<1>5. DrainsAfterShutdown'
  BY DEF IInv, DrainsAfterShutdown, Enqueue
<1>6. ShutdownFinishesWork'
  BY DEF IInv, ShutdownFinishesWork, AllExited, Enqueue
<1> QED BY <1>2, <1>4, <1>5, <1>6 DEF IInv

\* A worker takes the front of the queue.
LEMMA StepPopFront ==
    ASSUME IInv, NEW w \in Workers, NEW x, PopFront(w, x),
           pc[w] \in {"scan", "drain"}, x \in Busy, x = "drainRun" => pc[w] = "drain"
    PROVE  IInv'
<1> DEFINE t == Head(queue)
<1>0. queue \in Seq(Tasks) /\ queue # <<>>
  BY DEF PopFront, IInv, TypeOK
<1>1. /\ t \in Tasks
      /\ queue' \in Seq(Tasks)
      /\ Range(queue) = {t} \union Range(queue')
      /\ t \notin Range(queue') /\ IsInjective(queue')
  BY <1>0, TailFacts DEF PopFront, IInv, RunOnce
<1>2. /\ \A v \in Workers : task'[v] = IF v = w THEN {t} ELSE task[v]
      /\ task[w] = {}
  BY DEF PopFront, IInv, TypeOK, Busy
<1>3. Running' = Running \union {t}
  BY <1>2 DEF Running
<1>4. TypeOK'
  BY <1>1, <1>2 DEF IInv, TypeOK, PopFront, Busy
<1>5. RunOnce'
  <2>1. \A v \in Workers : t \notin task[v]
    BY <1>1 DEF IInv, RunOnce, Running
  <2>2. \A u, v \in Workers : u # v => task'[u] \intersect task'[v] = {}
    BY <1>2, <2>1 DEF IInv, RunOnce
  <2> QED BY <1>1, <1>3, <2>2 DEF IInv, RunOnce, PopFront
<1>6. DrainsAfterShutdown'
  BY DEF IInv, DrainsAfterShutdown, PopFront, TypeOK, Busy
<1>7. ShutdownFinishesWork'
  BY DEF IInv, ShutdownFinishesWork, AllExited, PopFront, TypeOK, Busy
<1> QED BY <1>4, <1>5, <1>6, <1>7 DEF IInv

\* A worker finishes its task.
LEMMA StepRunTask ==
    ASSUME IInv, NEW w \in Workers, NEW x, RunTask(w, x),
           pc[w] \in Busy, x \in {"scan", "drain"}, x = "drain" => pc[w] = "drainRun"
    PROVE  IInv'
<1>1. \A v \in Workers : task'[v] = IF v = w THEN {} ELSE task[v]
  BY DEF RunTask, IInv, TypeOK
<1>2. Running' \union done' = Running \union done
  BY <1>1 DEF Running, RunTask
<1>3. TypeOK'
  <2>1. task[w] \subseteq submitted
    BY DEF IInv, RunOnce, Running
  <2> QED BY <1>1, <2>1 DEF IInv, TypeOK, RunTask, Busy
<1>4. RunOnce'
  <2>1. Running' \intersect done' = {}
    BY <1>1 DEF IInv, RunOnce, Running, RunTask
  <2>2. \A u, v \in Workers : u # v => task'[u] \intersect task'[v] = {}
    BY <1>1 DEF IInv, RunOnce
  <2> QED BY <1>2, <2>1, <2>2 DEF IInv, RunOnce, RunTask
<1>5. DrainsAfterShutdown'
  BY DEF IInv, DrainsAfterShutdown, RunTask, TypeOK
<1>6. ShutdownFinishesWork'
  BY DEF IInv, ShutdownFinishesWork, AllExited, RunTask, TypeOK
<1> QED BY <1>3, <1>4, <1>5, <1>6 DEF IInv

\* notify_one and shutdown only wake sleepers.
LEMMA StepAwaken ==
    ASSUME IInv, UNCHANGED <<queue, task, submitted, done, late>>,
           notify' \subseteq notify, shutdown' \in BOOLEAN, shutdown => shutdown',
           pc' = [w \in Workers |-> pc'[w]],
           \A w \in Workers : pc'[w] = pc[w] \/ (pc[w] = "asleep" /\ pc'[w] = "test")
    PROVE  IInv'
<1>1. \A w \in Workers : pc'[w] \in Busy <=> pc[w] \in Busy
  BY DEF Busy
<1>2. pc' \in [Workers -> Busy \union {"scan", "nowork", "test", "falling", "asleep",
                                      "drain", "exit"}]
  BY DEF IInv, TypeOK
<1>3. TypeOK'
  BY <1>1, <1>2 DEF IInv, TypeOK
<1>4. RunOnce'
  BY DEF IInv, RunOnce, Running
<1>5. DrainsAfterShutdown'
  BY DEF IInv, DrainsAfterShutdown
<1>6. ShutdownFinishesWork'
  BY DEF IInv, ShutdownFinishesWork, AllExited
<1> QED BY <1>3, <1>4, <1>5, <1>6 DEF IInv

LEMMA NextIInv == IInv /\ [Next]_vars => IInv'
<1> SUFFICES ASSUME IInv, [Next]_vars PROVE IInv'
  OBVIOUS
<1>1. ASSUME NEW t \in Tasks, Submit(t) PROVE IInv'
  <2>1. AllExited => t \in late'
    <3>1. AllExited => shutdown
      BY WorkersAssumption DEF AllExited, IInv, DrainsAfterShutdown
    <3> QED BY <1>1, <3>1 DEF Submit
  <2> QED BY <1>1, <2>1, StepEnqueue DEF Submit
<1>2. ASSUME NEW w \in Workers, NEW t \in Tasks, SubmitFromTask(w, t) PROVE IInv'
  <2>1. ~AllExited
    BY <1>2 DEF SubmitFromTask, AllExited, Busy
  <2> QED BY <1>2, <2>1, StepEnqueue DEF SubmitFromTask
<1>3. ASSUME NEW t \in Tasks, NotifyOne(t) PROVE IInv'
  <2>1. \A w \in Workers : pc'[w] = pc[w] \/ (pc[w] = "asleep" /\ pc'[w] = "test")
    BY <1>3 DEF NotifyOne, IInv, TypeOK
  <2>2. pc' = [w \in Workers |-> pc'[w]]
    BY <1>3 DEF NotifyOne, IInv, TypeOK
  <2> QED BY <1>3, <2>1, <2>2, StepAwaken DEF NotifyOne, IInv, TypeOK
<1>4. ASSUME Shutdown PROVE IInv'
  <2>1. \A w \in Workers : pc'[w] = pc[w] \/ (pc[w] = "asleep" /\ pc'[w] = "test")
    BY <1>4 DEF Shutdown
  <2>2. pc' = [w \in Workers |-> pc'[w]]
    BY <1>4 DEF Shutdown
  <2> QED BY <1>4, <2>1, <2>2, StepAwaken DEF Shutdown
<1>5. ASSUME NEW w \in Workers, TakeTask(w) \/ DrainTask(w) PROVE IInv'
  BY <1>5, StepPopFront DEF TakeTask, DrainTask, Busy
<1>6. ASSUME NEW w \in Workers, Run(w) \/ DrainRun(w) PROVE IInv'
  BY <1>6, StepRunTask DEF Run, DrainRun, Busy
<1>7. ASSUME NEW w \in Workers,
             \/ NoTask(w) \/ CheckShutdown(w) \/ TestPredicate(w)
             \/ FallAsleep(w) \/ Timeout(w) \/ Exit(w)
      PROVE IInv'
  <2>1. CASE NoTask(w)
    BY <2>1, StepGoto DEF NoTask, Busy
  <2>2. CASE CheckShutdown(w)
    BY <2>2, StepGoto DEF CheckShutdown, Busy
  <2>3. CASE TestPredicate(w)
    BY <2>3, StepGoto DEF TestPredicate, Busy
  <2>4. CASE FallAsleep(w)
    BY <2>4, StepGoto DEF FallAsleep, Busy
  <2>5. CASE Timeout(w)
    BY <2>5, StepGoto DEF Timeout, Busy
  <2>6. CASE Exit(w)
    BY <2>6, StepGoto DEF Exit, Busy, IInv, DrainsAfterShutdown
  <2> QED BY <1>7, <2>1, <2>2, <2>3, <2>4, <2>5, <2>6
<1>8. CASE UNCHANGED vars
  BY <1>8 DEF vars, IInv, TypeOK, RunOnce, Running, DrainsAfterShutdown,
              ShutdownFinishesWork, AllExited
<1> QED
  BY <1>1, <1>2, <1>3, <1>4, <1>5, <1>6, <1>7, <1>8 DEF Next, Loop

-----------------------------------------------------------------------------
(* The theorems *)

\* The inductive invariant holds in every state the pool reaches.
THEOREM InductiveInvariant == Spec => []IInv
BY InitIInv, NextIInv, PTL DEF Spec

\* The pool's variables keep their types, and task() is never called on an
\* empty function.
THEOREM TypeCorrect == Spec => []TypeOK
<1>1. IInv => TypeOK
  BY DEF IInv
<1> QED BY <1>1, InductiveInvariant, PTL

\* submit and the workers never lose or repeat a task.
THEOREM TasksRunOnce == Spec => []RunOnce
<1>1. IInv => RunOnce
  BY DEF IInv
<1> QED BY <1>1, InductiveInvariant, PTL

\* When shutdown has joined the workers, every task submitted in time has run.
THEOREM ShutdownLosesNoTask == Spec => []ShutdownFinishesWork
<1>1. IInv => ShutdownFinishesWork
  BY DEF IInv
<1> QED BY <1>1, InductiveInvariant, PTL

=============================================================================

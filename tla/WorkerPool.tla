----------------------------- MODULE WorkerPool -----------------------------
(***************************************************************************)
(* The task pool of the service (src/worker_pool.cpp): a bounded FIFO of   *)
(* tasks, a fixed set of worker threads that sleep on the condition        *)
(* variable cv_, and the main thread, which at shutdown calls              *)
(* stop_accepting, wait_idle (with a timeout, on cv_idle_) and finally the *)
(* destructor (src/main.cpp:291-310 and the end of main).                  *)
(*                                                                         *)
(* One action is one critical section of mutex_, or one notification       *)
(* issued outside it.  A submitter releases the mutex before it calls      *)
(* notify_one, so notifications in flight are a state of their own.        *)
(***************************************************************************)
EXTENDS Naturals, Sequences, FiniteSets

CONSTANTS Task,        \* the tasks that may be submitted, each at most once
          Worker,      \* the worker threads
          MaxQueue,    \* max_queue_
          NoTask       \* what an idle worker holds

ASSUME WorkerPoolAssumption ==
    /\ Worker # {} /\ IsFiniteSet(Worker)
    /\ MaxQueue \in Nat
    /\ NoTask \notin Task

VARIABLES tasks,       \* tasks_, oldest first
          accepting,   \* accepting_
          stopping,    \* stopping_
          active,      \* active_
          phase,       \* where each worker is in worker_loop
          job,         \* the task each worker executes
          notifies,    \* notify_one calls issued and not yet delivered
          mainPc,      \* where the main thread is in its shutdown
          idle,        \* what wait_idle returned: "unknown", "yes", "timeout"
          finished,    \* tasks whose body has returned or thrown
          rejected     \* tasks for which try_submit returned false

queueVars == <<tasks, accepting, stopping>>
workerVars == <<active, phase, job, finished>>
mainVars == <<mainPc, idle>>
vars == <<queueVars, workerVars, notifies, mainVars, rejected>>

Phases == {"ready", "asleep", "running", "exited"}
MainPcs == {"serving", "closed", "blocked", "woken", "waited",
            "stopping", "joining", "gone"}

InPhase(p) == {w \in Worker : phase[w] = p}
Executing == {job[w] : w \in InPhase("running")}
Queued(t) == \E i \in 1..Len(tasks) : tasks[i] = t

Init == /\ tasks = <<>> /\ accepting = TRUE /\ stopping = FALSE
        /\ active = 0
        /\ phase = [w \in Worker |-> "ready"]
        /\ job = [w \in Worker |-> NoTask]
        /\ notifies = 0
        /\ mainPc = "serving" /\ idle = "unknown"
        /\ finished = {} /\ rejected = {}

-----------------------------------------------------------------------------
(* try_submit.  Until the destructor runs any thread may submit; from then *)
(* on only a task that is still being executed can.                        *)

CanSubmit(t) ==
    /\ t \notin finished \cup rejected \cup Executing /\ ~Queued(t)
    /\ mainPc \in {"stopping", "joining", "gone"} => InPhase("running") # {}

\* Mutant: the queue bound is not tested.
TrySubmitUnbounded(t) ==
    /\ CanSubmit(t) /\ accepting
    /\ tasks' = Append(tasks, t) /\ notifies' = notifies + 1
    /\ UNCHANGED <<rejected, accepting, stopping, workerVars, mainVars>>

\* Mutant: a task is queued without a notification when others are queued.
TrySubmitNotifyOnEmpty(t) ==
    /\ CanSubmit(t) /\ accepting /\ Len(tasks) < MaxQueue
    /\ tasks' = Append(tasks, t)
    /\ notifies' = IF tasks = <<>> THEN notifies + 1 ELSE notifies
    /\ UNCHANGED <<rejected, accepting, stopping, workerVars, mainVars>>

TrySubmit(t) ==
    /\ CanSubmit(t)
    /\ IF stopping \/ ~accepting \/ Len(tasks) >= MaxQueue
       THEN /\ rejected' = rejected \cup {t}
            /\ UNCHANGED <<tasks, notifies>>
       ELSE /\ tasks' = Append(tasks, t)
            /\ notifies' = notifies + 1
            /\ UNCHANGED rejected
    /\ UNCHANGED <<accepting, stopping, workerVars, mainVars>>

\* A notification reaches some sleeping worker, or nobody when none sleeps.
NotifyOne ==
    /\ notifies > 0
    /\ notifies' = notifies - 1
    /\ \/ \E w \in InPhase("asleep") : phase' = [phase EXCEPT ![w] = "ready"]
       \/ InPhase("asleep") = {} /\ UNCHANGED phase
    /\ UNCHANGED <<queueVars, active, job, finished, mainVars, rejected>>

-----------------------------------------------------------------------------
(* worker_loop.                                                            *)

\* The predicate of cv_.wait is false: the worker blocks, releasing mutex_.
Sleep(w) ==
    /\ phase[w] = "ready" /\ ~stopping /\ tasks = <<>>
    /\ phase' = [phase EXCEPT ![w] = "asleep"]
    /\ UNCHANGED <<queueVars, active, job, finished, notifies, mainVars, rejected>>

\* Mutant: a worker leaves as soon as stopping_ is set.
ExitWithBacklog(w) ==
    /\ phase[w] = "ready" /\ stopping
    /\ phase' = [phase EXCEPT ![w] = "exited"]
    /\ UNCHANGED <<queueVars, active, job, finished, notifies, mainVars, rejected>>

Exit(w) ==
    /\ phase[w] = "ready" /\ stopping /\ tasks = <<>>
    /\ phase' = [phase EXCEPT ![w] = "exited"]
    /\ UNCHANGED <<queueVars, active, job, finished, notifies, mainVars, rejected>>

Take(w) ==
    /\ phase[w] = "ready" /\ tasks # <<>>
    /\ job' = [job EXCEPT ![w] = Head(tasks)]
    /\ tasks' = Tail(tasks)
    /\ active' = active + 1
    /\ phase' = [phase EXCEPT ![w] = "running"]
    /\ UNCHANGED <<accepting, stopping, finished, notifies, mainVars, rejected>>

\* Mutant: fetch_sub is compared with 0, the value after the decrement.
FinishOffByOne(w) ==
    /\ phase[w] = "running"
    /\ finished' = finished \cup {job[w]}
    /\ job' = [job EXCEPT ![w] = NoTask]
    /\ phase' = [phase EXCEPT ![w] = "ready"]
    /\ active' = active - 1
    /\ mainPc' = IF mainPc = "blocked" /\ active = 0 /\ tasks = <<>>
                 THEN "woken" ELSE mainPc
    /\ UNCHANGED <<queueVars, notifies, idle, rejected>>

\* The task returned or threw (both end the same way); the last worker to
\* become free on an empty queue wakes wait_idle, all under mutex_.
Finish(w) ==
    /\ phase[w] = "running"
    /\ finished' = finished \cup {job[w]}
    /\ job' = [job EXCEPT ![w] = NoTask]
    /\ phase' = [phase EXCEPT ![w] = "ready"]
    /\ active' = active - 1
    /\ mainPc' = IF mainPc = "blocked" /\ active = 1 /\ tasks = <<>>
                 THEN "woken" ELSE mainPc
    /\ UNCHANGED <<queueVars, notifies, idle, rejected>>

\* Condition variables may wake without a notification.
SpuriousWakeup(w) ==
    /\ phase[w] = "asleep"
    /\ phase' = [phase EXCEPT ![w] = "ready"]
    /\ UNCHANGED <<queueVars, active, job, finished, notifies, mainVars, rejected>>

-----------------------------------------------------------------------------
(* The main thread: stop_accepting, wait_idle(timeout), ~WorkerPool.       *)

\* Mutant: wait_idle looks at the queue only.
IdleQueueOnly == tasks = <<>>

Idle == tasks = <<>> /\ active = 0

MainStep(from, to) == mainPc = from /\ mainPc' = to

StopAccepting ==
    /\ MainStep("serving", "closed")
    /\ accepting' = FALSE
    /\ UNCHANGED <<tasks, stopping, workerVars, notifies, idle, rejected>>

\* wait_for evaluates its predicate first, and again after every wakeup.
WaitIdle ==
    /\ mainPc \in {"closed", "woken"}
    /\ IF Idle THEN mainPc' = "waited" /\ idle' = "yes"
               ELSE mainPc' = "blocked" /\ UNCHANGED idle
    /\ UNCHANGED <<queueVars, workerVars, notifies, rejected>>

\* At the timeout wait_for returns the value its predicate has then.
WaitTimeout ==
    /\ mainPc \in {"blocked", "woken"}
    /\ mainPc' = "waited"
    /\ idle' = IF Idle THEN "yes" ELSE "timeout"
    /\ UNCHANGED <<queueVars, workerVars, notifies, rejected>>

Destroy ==
    /\ MainStep("waited", "stopping")
    /\ stopping' = TRUE /\ accepting' = FALSE
    /\ UNCHANGED <<tasks, workerVars, notifies, idle, rejected>>

\* Mutant: the destructor wakes a single worker.
NotifyJustOne ==
    /\ MainStep("stopping", "joining")
    /\ \/ \E w \in InPhase("asleep") : phase' = [phase EXCEPT ![w] = "ready"]
       \/ InPhase("asleep") = {} /\ UNCHANGED phase
    /\ UNCHANGED <<queueVars, active, job, finished, notifies, idle, rejected>>

NotifyAll ==
    /\ MainStep("stopping", "joining")
    /\ phase' = [w \in Worker |-> IF phase[w] = "asleep" THEN "ready" ELSE phase[w]]
    /\ UNCHANGED <<queueVars, active, job, finished, notifies, idle, rejected>>

Join ==
    /\ MainStep("joining", "gone")
    /\ \A w \in Worker : phase[w] = "exited"
    /\ UNCHANGED <<queueVars, workerVars, notifies, idle, rejected>>

-----------------------------------------------------------------------------
WorkerStep(w) == Sleep(w) \/ Exit(w) \/ Take(w) \/ Finish(w)
MainShutdown == WaitIdle \/ WaitTimeout \/ Destroy \/ NotifyAll \/ Join

Next == \/ \E t \in Task : TrySubmit(t)
        \/ NotifyOne
        \/ \E w \in Worker : WorkerStep(w) \/ SpuriousWakeup(w)
        \/ StopAccepting \/ MainShutdown

SafeSpec == Init /\ [][Next]_vars

(* Threads are scheduled, an issued notification is delivered, a task body *)
(* returns, and main runs its shutdown once it has begun.  Nothing forces  *)
(* a submission, a spurious wakeup or the shutdown itself.                 *)
Fairness == /\ \A w \in Worker : WF_vars(WorkerStep(w))
            /\ WF_vars(NotifyOne)
            /\ WF_vars(MainShutdown)

Spec == SafeSpec /\ Fairness
-----------------------------------------------------------------------------
(* The types of the variables; the queue never outgrows max_queue_, the    *)
(* bound that try_submit enforces.                                         *)
TypeOK ==
    /\ tasks \in Seq(Task) /\ Len(tasks) <= MaxQueue
    /\ accepting \in BOOLEAN /\ stopping \in BOOLEAN
    /\ active \in Nat /\ notifies \in Nat
    /\ phase \in [Worker -> Phases]
    /\ job \in [Worker -> Task \cup {NoTask}]
    /\ mainPc \in MainPcs
    /\ idle \in {"unknown", "yes", "timeout"}
    /\ finished \subseteq Task /\ rejected \subseteq Task

(* No lost wakeup in cv_: while some worker sleeps, every queued task is   *)
(* covered by a worker that is about to look at the queue or by a          *)
(* notification still in flight (notify_one is called after the unlock).   *)
NoTaskBehindSleeper ==
    InPhase("asleep") # {}
      => Len(tasks) <= notifies + Cardinality(InPhase("ready"))

(* No lost wakeup in cv_idle_: main never blocks in wait_idle on a pool    *)
(* that is already idle.                                                   *)
IdleWaiterNotForgotten == mainPc = "blocked" => ~Idle

(* "all tasks finished" (main.cpp:299) is final: once wait_idle has        *)
(* returned true after stop_accepting no task is queued or executed again, *)
(* so what main tears down next is not in use by a pool task.              *)
IdleReportIsFinal ==
    idle = "yes" => tasks = <<>> /\ InPhase("running") = {}

(* The destructor returns: every worker drains the queue and leaves.       *)
DestructorReturns == mainPc = "stopping" ~> mainPc = "gone"

(* The pool implements the task service: exactly-once FIFO execution of    *)
(* what try_submit accepted, nothing of what it refused, and no task left  *)
(* behind when the destructor returns.                                     *)
Service == INSTANCE TaskService
    WITH open <- accepting /\ ~stopping,
         backlog <- tasks,
         running <- Executing,
         done <- finished,
         refused <- rejected,
         gone <- mainPc = "gone"

ImplementsTaskService == Service!Spec
=============================================================================

-------------------------- MODULE WorkerPool_proofs --------------------------
(***************************************************************************)
(* Proofs about the worker pool, for any set of tasks, any finite set of   *)
(* workers and any queue bound.  PoolInv is the inductive invariant.       *)
(***************************************************************************)
EXTENDS WorkerPool, FiniteSetTheorems, SequenceTheorems, TLAPS

(* active_ is the number of workers inside a task body.                    *)
ActiveCounts == active = Cardinality(InPhase("running"))

(* A worker holds a task exactly while it executes it, and no two workers  *)
(* hold the same one.                                                      *)
Holding ==
    /\ \A w \in Worker : IF phase[w] = "running" THEN job[w] \in Task
                                                 ELSE job[w] = NoTask
    /\ \A v, w \in InPhase("running") : job[v] = job[w] => v = w

(* A task is in at most one place: queued once, executed, over or refused. *)
OnePlace ==
    /\ \A i, j \in 1..Len(tasks) : tasks[i] = tasks[j] => i = j
    /\ \A i \in 1..Len(tasks) : tasks[i] \notin finished \cup rejected \cup Executing
    /\ Executing \cap (finished \cup rejected) = {}

(* The flags follow the main thread.                                       *)
MainFlags ==
    /\ accepting <=> mainPc = "serving"
    /\ stopping <=> (mainPc \in {"stopping", "joining", "gone"})
    /\ idle = "yes" => mainPc # "serving" /\ Idle
    /\ mainPc = "gone" => \A w \in Worker : phase[w] = "exited"

(* A worker only leaves when nothing is queued, and nothing is queued      *)
(* after that.                                                             *)
LeftEmpty == \A w \in Worker : phase[w] = "exited" => stopping /\ tasks = <<>>

PoolInv ==
    /\ TypeOK /\ ActiveCounts /\ Holding /\ OnePlace /\ MainFlags /\ LeftEmpty
    /\ NoTaskBehindSleeper /\ IdleWaiterNotForgotten

-----------------------------------------------------------------------------
(* The workers in one phase are finitely many.                             *)
LEMMA PhaseFinite ==
    ASSUME NEW p
    PROVE  IsFiniteSet(InPhase(p)) /\ Cardinality(InPhase(p)) \in Nat
<1>1. InPhase(p) \in SUBSET Worker
  BY DEF InPhase
<1>2. QED
  BY <1>1, WorkerPoolAssumption, FS_Subset, FS_CardinalityType

(* A worker that changes phase leaves one set and joins another; the       *)
(* cardinalities follow.                                                   *)
LEMMA PhaseMove ==
    ASSUME TypeOK, NEW w \in Worker, NEW p \in Phases, NEW q \in Phases,
           p # q, phase[w] = p, phase' = [phase EXCEPT ![w] = q]
    PROVE  /\ InPhase(q)' = InPhase(q) \cup {w}
           /\ InPhase(p)' = InPhase(p) \ {w}
           /\ \A r : r # q /\ r # p => InPhase(r)' = InPhase(r)
           /\ Cardinality(InPhase(q)') = Cardinality(InPhase(q)) + 1
           /\ Cardinality(InPhase(p)') = Cardinality(InPhase(p)) - 1
<1>0. \A v \in Worker : phase'[v] = IF v = w THEN q ELSE phase[v]
  BY DEF TypeOK
<1>1. /\ InPhase(q)' = InPhase(q) \cup {w}
      /\ InPhase(p)' = InPhase(p) \ {w}
      /\ \A r : r # q /\ r # p => InPhase(r)' = InPhase(r)
  BY <1>0, Zenon DEF InPhase
<1>2. w \notin InPhase(q) /\ w \in InPhase(p)
  BY DEF InPhase
<1>3. Cardinality(InPhase(q)') = Cardinality(InPhase(q)) + 1
  BY <1>1, <1>2, PhaseFinite, FS_AddElement
<1>4. Cardinality(InPhase(p)') = Cardinality(InPhase(p)) - 1
  BY <1>1, <1>2, PhaseFinite, FS_RemoveElement
<1>5. QED
  BY <1>1, <1>3, <1>4

(* The initial states satisfy the invariant.                               *)
LEMMA InitInv == Init => PoolInv
<1> SUFFICES ASSUME Init PROVE PoolInv
  OBVIOUS
<1>1. InPhase("running") = {} /\ InPhase("asleep") = {} /\ Executing = {}
  BY DEF Init, InPhase, Executing
<1>2. TypeOK
  <2>1. <<>> \in Seq(Task) /\ Len(<<>>) = 0
    BY EmptySeq
  <2>2. tasks \in Seq(Task) /\ Len(tasks) <= MaxQueue
    BY <2>1, WorkerPoolAssumption DEF Init
  <2>3. phase \in [Worker -> Phases] /\ job \in [Worker -> Task \cup {NoTask}]
    BY DEF Init, Phases
  <2>4. QED
    BY <2>2, <2>3 DEF Init, TypeOK, MainPcs
<1>3. ActiveCounts
  BY <1>1, FS_EmptySet DEF Init, ActiveCounts
<1>4. Holding /\ OnePlace
  BY <1>1 DEF Init, Holding, OnePlace
<1>5. MainFlags /\ LeftEmpty
  BY DEF Init, MainFlags, LeftEmpty
<1>6. NoTaskBehindSleeper /\ IdleWaiterNotForgotten
  BY <1>1 DEF Init, NoTaskBehindSleeper, IdleWaiterNotForgotten
<1>7. QED
  BY <1>2, <1>3, <1>4, <1>5, <1>6 DEF PoolInv

-----------------------------------------------------------------------------
(* One lemma per action.                                                   *)

LEMMA TrySubmitInv ==
    ASSUME PoolInv, NEW t \in Task, TrySubmit(t)
    PROVE  PoolInv'
<1> USE DEF PoolInv
<1>0. /\ phase' = phase /\ job' = job /\ active' = active /\ finished' = finished
      /\ accepting' = accepting /\ stopping' = stopping
      /\ mainPc' = mainPc /\ idle' = idle
  BY DEF TrySubmit, workerVars, mainVars
<1>1. /\ \A p : InPhase(p)' = InPhase(p)
      /\ Executing' = Executing
  BY <1>0 DEF InPhase, Executing
<1>2. CASE stopping \/ ~accepting \/ Len(tasks) >= MaxQueue
  <2>1. rejected' = rejected \cup {t} /\ tasks' = tasks /\ notifies' = notifies
    BY <1>2 DEF TrySubmit
  <2>2. t \notin finished \cup Executing /\ ~Queued(t)
    BY DEF TrySubmit, CanSubmit
  <2>3. TypeOK'
    BY <1>0, <2>1 DEF TypeOK
  <2>4. OnePlace'
    BY <1>0, <1>1, <2>1, <2>2 DEF OnePlace, Queued
  <2>5. ActiveCounts' /\ Holding' /\ LeftEmpty'
    BY <1>0, <1>1, <2>1 DEF ActiveCounts, Holding, LeftEmpty
  <2>6. MainFlags' /\ NoTaskBehindSleeper' /\ IdleWaiterNotForgotten'
    BY <1>0, <1>1, <2>1 DEF MainFlags, Idle, NoTaskBehindSleeper, IdleWaiterNotForgotten
  <2>7. QED
    BY <2>3, <2>4, <2>5, <2>6
<1>3. CASE ~(stopping \/ ~accepting \/ Len(tasks) >= MaxQueue)
  <2>1. rejected' = rejected /\ tasks' = Append(tasks, t) /\ notifies' = notifies + 1
    BY <1>3 DEF TrySubmit
  <2>2. t \notin finished \cup rejected \cup Executing /\ ~Queued(t)
    BY DEF TrySubmit, CanSubmit
  <2>3. /\ tasks' \in Seq(Task) /\ Len(tasks') = Len(tasks) + 1
        /\ \A i \in 1..Len(tasks) : tasks'[i] = tasks[i]
        /\ tasks'[Len(tasks) + 1] = t
    BY <2>1, AppendProperties DEF TypeOK
  <2>4. tasks' # <<>> /\ Len(tasks) \in Nat /\ notifies \in Nat /\ Len(tasks) < MaxQueue
    BY <1>3, <2>3, WorkerPoolAssumption DEF TypeOK
  <2>5. TypeOK'
    BY <1>0, <2>1, <2>3, <2>4, WorkerPoolAssumption DEF TypeOK
  <2>6. OnePlace'
    BY <1>0, <1>1, <2>1, <2>2, <2>3, <2>4 DEF OnePlace, Queued
  <2>7. ActiveCounts' /\ Holding'
    BY <1>0, <1>1 DEF ActiveCounts, Holding
  <2>8. LeftEmpty' /\ MainFlags'
    BY <1>0, <1>3 DEF LeftEmpty, MainFlags, TypeOK
  <2>9. NoTaskBehindSleeper'
    BY <1>1, <2>1, <2>3, <2>4, PhaseFinite DEF NoTaskBehindSleeper
  <2>10. IdleWaiterNotForgotten'
    BY <1>0, <2>4 DEF IdleWaiterNotForgotten, Idle
  <2>11. QED
    BY <2>5, <2>6, <2>7, <2>8, <2>9, <2>10
<1>4. QED
  BY <1>2, <1>3

(* A worker that wakes up keeps the invariant, with the notification that  *)
(* woke it or spuriously.                                                  *)
LEMMA WakeInv ==
    ASSUME PoolInv, NEW w \in InPhase("asleep"),
           phase' = [phase EXCEPT ![w] = "ready"],
           notifies' \in Nat, notifies' >= notifies - 1,
           UNCHANGED <<queueVars, active, job, finished, mainVars, rejected>>
    PROVE  PoolInv'
<1> USE DEF PoolInv
<1>1. w \in Worker /\ phase[w] = "asleep"
  BY DEF InPhase
<1>2. /\ InPhase("ready")' = InPhase("ready") \cup {w}
      /\ InPhase("running")' = InPhase("running")
      /\ InPhase("asleep")' = InPhase("asleep") \ {w}
      /\ Cardinality(InPhase("ready")') = Cardinality(InPhase("ready")) + 1
  BY <1>1, PhaseMove DEF Phases
<1>3. Executing' = Executing
  BY <1>2 DEF Executing
<1>4. TypeOK' /\ ActiveCounts'
  BY <1>1, <1>2 DEF TypeOK, ActiveCounts, queueVars, mainVars, Phases
<1>5. Holding' /\ LeftEmpty'
  BY <1>1, <1>2 DEF Holding, LeftEmpty, TypeOK, queueVars
<1>6. OnePlace'
  BY <1>3 DEF OnePlace, queueVars
<1>7. MainFlags' /\ IdleWaiterNotForgotten'
  BY <1>1 DEF MainFlags, IdleWaiterNotForgotten, Idle, queueVars, mainVars, TypeOK
<1>8. NoTaskBehindSleeper'
  BY <1>2, PhaseFinite DEF NoTaskBehindSleeper, TypeOK, queueVars
<1>9. QED
  BY <1>4, <1>5, <1>6, <1>7, <1>8

LEMMA NotifyOneInv ==
    ASSUME PoolInv, NotifyOne
    PROVE  PoolInv'
<1>1. notifies \in Nat /\ notifies > 0 /\ notifies' = notifies - 1
  BY DEF PoolInv, TypeOK, NotifyOne
<1>2. notifies' \in Nat /\ notifies' >= notifies - 1
  BY <1>1
<1>3. CASE \E w \in InPhase("asleep") : phase' = [phase EXCEPT ![w] = "ready"]
  BY <1>2, <1>3, WakeInv DEF NotifyOne
<1>4. CASE InPhase("asleep") = {} /\ UNCHANGED phase
  <2>1. UNCHANGED <<queueVars, active, job, finished, mainVars, rejected, phase>>
    BY <1>4 DEF NotifyOne
  <2>2. \A p : InPhase(p)' = InPhase(p)
    BY <2>1 DEF InPhase
  <2>3. Executing' = Executing
    BY <2>1, <2>2 DEF Executing
  <2>4. QED
    BY <1>2, <1>4, <2>1, <2>2, <2>3
       DEF PoolInv, TypeOK, ActiveCounts, Holding, OnePlace, MainFlags, LeftEmpty, Idle,
           NoTaskBehindSleeper, IdleWaiterNotForgotten, queueVars, mainVars
<1>5. QED
  BY <1>3, <1>4 DEF NotifyOne

(* A worker that finds the queue empty sleeps or leaves.                   *)
LEMMA ParkInv ==
    ASSUME PoolInv, NEW w \in Worker, NEW q \in {"asleep", "exited"},
           phase[w] = "ready", tasks = <<>>, q = "exited" => stopping,
           phase' = [phase EXCEPT ![w] = q],
           UNCHANGED <<queueVars, active, job, finished, notifies, mainVars, rejected>>
    PROVE  PoolInv'
<1> USE DEF PoolInv
<1>1. /\ q \in Phases /\ q # "ready" /\ q # "running"
      /\ "ready" \in Phases /\ TypeOK
  BY DEF Phases
<1>2. /\ InPhase("running")' = InPhase("running")
      /\ InPhase("ready")' = InPhase("ready") \ {w}
  <2>1. /\ InPhase("ready")' = InPhase("ready") \ {w}
        /\ \A r : r # q /\ r # "ready" => InPhase(r)' = InPhase(r)
    BY <1>1, PhaseMove, Zenon
  <2>2. QED
    BY <1>1, <2>1
<1>3. Executing' = Executing
  BY <1>2 DEF Executing
<1>4. TypeOK' /\ ActiveCounts'
  BY <1>1, <1>2 DEF TypeOK, ActiveCounts, queueVars, mainVars
<1>5. Holding'
  BY <1>1, <1>2 DEF Holding, TypeOK
<1>6. OnePlace'
  BY <1>3 DEF OnePlace, queueVars
<1>7. LeftEmpty'
  BY <1>1 DEF LeftEmpty, TypeOK, queueVars
<1>8. MainFlags' /\ IdleWaiterNotForgotten'
  BY <1>1 DEF MainFlags, IdleWaiterNotForgotten, Idle, queueVars, mainVars, TypeOK
<1>9. NoTaskBehindSleeper'
  <2>1. Len(tasks') = 0 /\ notifies' \in Nat
    BY EmptySeq DEF queueVars, TypeOK
  <2>2. Cardinality(InPhase("ready")') \in Nat
    BY <1>2, PhaseFinite, FS_RemoveElement, FS_CardinalityType
  <2>3. QED
    BY <2>1, <2>2 DEF NoTaskBehindSleeper
<1>10. QED
  BY <1>4, <1>5, <1>6, <1>7, <1>8, <1>9

LEMMA SleepInv ==
    ASSUME PoolInv, NEW w \in Worker, Sleep(w)
    PROVE  PoolInv'
BY ParkInv DEF Sleep

LEMMA ExitInv ==
    ASSUME PoolInv, NEW w \in Worker, Exit(w)
    PROVE  PoolInv'
BY ParkInv DEF Exit

(* A worker takes the oldest task: that task leaves the queue and is held  *)
(* by this worker only.                                                    *)
LEMMA TakeInv ==
    ASSUME PoolInv, NEW w \in Worker, Take(w)
    PROVE  /\ PoolInv'
           /\ Executing' = Executing \cup {Head(tasks)}
<1> USE DEF PoolInv
<1>0. /\ phase[w] = "ready" /\ tasks # <<>>
      /\ job' = [job EXCEPT ![w] = Head(tasks)]
      /\ tasks' = Tail(tasks) /\ active' = active + 1
      /\ phase' = [phase EXCEPT ![w] = "running"]
      /\ UNCHANGED <<accepting, stopping, finished, notifies, mainVars, rejected>>
  BY DEF Take
<1>1. /\ Len(tasks) \in Nat /\ Len(tasks) > 0
      /\ tasks' \in Seq(Task) /\ Len(tasks') = Len(tasks) - 1
      /\ \A i \in 1..Len(tasks') : i + 1 \in 1..Len(tasks) /\ tasks'[i] = tasks[i + 1]
      /\ 1 \in 1..Len(tasks) /\ Head(tasks) = tasks[1] /\ Head(tasks) \in Task
  BY <1>0, HeadTailProperties, EmptySeq, LenProperties DEF TypeOK
<1>2. /\ InPhase("running")' = InPhase("running") \cup {w}
      /\ InPhase("ready")' = InPhase("ready") \ {w}
      /\ InPhase("asleep")' = InPhase("asleep")
      /\ Cardinality(InPhase("running")') = Cardinality(InPhase("running")) + 1
      /\ Cardinality(InPhase("ready")') = Cardinality(InPhase("ready")) - 1
  BY <1>0, PhaseMove DEF Phases
<1>3. w \notin InPhase("running") /\ w \in InPhase("ready")
  BY <1>0 DEF InPhase
<1>4. \A v \in Worker : job'[v] = IF v = w THEN Head(tasks) ELSE job[v]
  BY <1>0 DEF TypeOK
<1>5. InPhase("running") \subseteq Worker
  BY DEF InPhase
<1>6. Executing' = Executing \cup {Head(tasks)}
  BY <1>2, <1>3, <1>4, <1>5 DEF Executing
<1>7. TypeOK'
  BY <1>0, <1>1, WorkerPoolAssumption DEF TypeOK, Phases, mainVars
<1>8. ActiveCounts'
  BY <1>0, <1>2 DEF ActiveCounts
<1>9. Holding'
  <2>1. \A v \in InPhase("running") : job[v] # Head(tasks)
    BY <1>1 DEF OnePlace, Executing
  <2>2. \A u, v \in InPhase("running")' : job'[u] = job'[v] => u = v
    BY <1>2, <1>4, <1>5, <2>1 DEF Holding
  <2>3. \A v \in Worker : IF phase'[v] = "running" THEN job'[v] \in Task
                                                   ELSE job'[v] = NoTask
    BY <1>0, <1>1, <1>4 DEF Holding, TypeOK
  <2>4. QED
    BY <2>2, <2>3 DEF Holding
<1>10. OnePlace'
  <2>1. \A i, j \in 1..Len(tasks') : tasks'[i] = tasks'[j] => i = j
    BY <1>1 DEF OnePlace
  <2>2. \A i \in 1..Len(tasks') : tasks'[i] # Head(tasks)
    BY <1>1 DEF OnePlace
  <2>3. \A i \in 1..Len(tasks') : tasks'[i] \notin finished \cup rejected \cup Executing
    BY <1>1 DEF OnePlace
  <2>4. Head(tasks) \notin finished \cup rejected
    BY <1>1 DEF OnePlace
  <2>5. finished' = finished /\ rejected' = rejected
    BY <1>0
  <2>6. QED
    BY <1>6, <2>1, <2>2, <2>3, <2>4, <2>5 DEF OnePlace
<1>11. LeftEmpty' /\ MainFlags' /\ IdleWaiterNotForgotten'
  <2>1. \A v \in Worker : phase'[v] # "exited" /\ phase[v] # "exited"
    BY <1>0 DEF LeftEmpty, TypeOK
  <2>2. mainPc # "gone" /\ ~Idle /\ active' # 0
    BY <1>0, <2>1 DEF MainFlags, Idle, TypeOK
  <2>3. UNCHANGED <<accepting, stopping, mainPc, idle>>
    BY <1>0 DEF mainVars
  <2>4. QED
    BY <2>1, <2>2, <2>3 DEF LeftEmpty, MainFlags, IdleWaiterNotForgotten, Idle
<1>12. NoTaskBehindSleeper'
  BY <1>0, <1>1, <1>2, PhaseFinite DEF NoTaskBehindSleeper, TypeOK
<1>13. QED
  BY <1>6, <1>7, <1>8, <1>9, <1>10, <1>11, <1>12

(* A worker that finishes its task holds nothing any more, and wakes main  *)
(* exactly when the pool becomes idle.                                     *)
LEMMA FinishInv ==
    ASSUME PoolInv, NEW w \in Worker, Finish(w)
    PROVE  /\ PoolInv'
           /\ job[w] \in Executing
           /\ Executing' = Executing \ {job[w]}
<1> USE DEF PoolInv
<1>0. /\ phase[w] = "running"
      /\ finished' = finished \cup {job[w]}
      /\ job' = [job EXCEPT ![w] = NoTask]
      /\ phase' = [phase EXCEPT ![w] = "ready"]
      /\ active' = active - 1
      /\ mainPc' = IF mainPc = "blocked" /\ active = 1 /\ tasks = <<>>
                   THEN "woken" ELSE mainPc
      /\ UNCHANGED <<tasks, accepting, stopping, notifies, idle, rejected>>
  BY DEF Finish, queueVars
<1>1. /\ InPhase("running")' = InPhase("running") \ {w}
      /\ InPhase("ready")' = InPhase("ready") \cup {w}
      /\ InPhase("asleep")' = InPhase("asleep")
      /\ Cardinality(InPhase("running")') = Cardinality(InPhase("running")) - 1
      /\ Cardinality(InPhase("ready")') = Cardinality(InPhase("ready")) + 1
  BY <1>0, PhaseMove DEF Phases
<1>2. w \in InPhase("running") /\ InPhase("running") \subseteq Worker
  BY <1>0 DEF InPhase
<1>3. \A v \in Worker : job'[v] = IF v = w THEN NoTask ELSE job[v]
  BY <1>0 DEF TypeOK
<1>4. job[w] \in Task /\ job[w] \in Executing
  BY <1>0, <1>2 DEF Holding, Executing
<1>5. Executing' = Executing \ {job[w]}
  <2>1. Executing' = {job[v] : v \in InPhase("running") \ {w}}
    BY <1>1, <1>2, <1>3 DEF Executing
  <2>2. \A v \in InPhase("running") : job[v] = job[w] => v = w
    BY <1>2 DEF Holding
  <2>3. QED
    BY <1>2, <2>1, <2>2 DEF Executing
<1>6. active \in Nat /\ active > 0 /\ active' \in Nat
  <2>1. active \in Nat /\ active = Cardinality(InPhase("running"))
    BY DEF ActiveCounts, TypeOK
  <2>2. Cardinality(InPhase("running")) # 0
    BY <1>2, PhaseFinite, FS_EmptySet
  <2>3. QED
    BY <1>0, <2>1, <2>2
<1>7. TypeOK'
  BY <1>0, <1>4, <1>6 DEF TypeOK, Phases, MainPcs
<1>8. ActiveCounts'
  BY <1>0, <1>1 DEF ActiveCounts
<1>9. Holding'
  BY <1>0, <1>1, <1>2, <1>3 DEF Holding, TypeOK
<1>10. OnePlace'
  <2>1. \A i \in 1..Len(tasks) : tasks[i] # job[w]
    BY <1>4 DEF OnePlace
  <2>2. job[w] \notin rejected
    BY <1>4 DEF OnePlace
  <2>3. QED
    BY <1>0, <1>5, <2>1, <2>2 DEF OnePlace
<1>11. LeftEmpty' /\ NoTaskBehindSleeper'
  <2>1. LeftEmpty'
    BY <1>0 DEF LeftEmpty, TypeOK
  <2>2. Len(tasks) \in Nat /\ notifies \in Nat
    BY DEF TypeOK
  <2>3. QED
    BY <1>0, <1>1, <2>1, <2>2, PhaseFinite DEF NoTaskBehindSleeper
<1>12. MainFlags' /\ IdleWaiterNotForgotten'
  <2>1. idle # "yes" /\ mainPc # "gone"
    BY <1>0, <1>6 DEF MainFlags, Idle
  <2>2. MainFlags'
    BY <1>0, <2>1 DEF MainFlags
  <2>3. IdleWaiterNotForgotten'
    BY <1>0, <1>6 DEF IdleWaiterNotForgotten, Idle
  <2>4. QED
    BY <2>2, <2>3
<1>13. QED
  BY <1>4, <1>5, <1>7, <1>8, <1>9, <1>10, <1>11, <1>12

(* The steps of main that leave the workers and the queue alone.           *)
LEMMA MainInv ==
    ASSUME PoolInv, StopAccepting \/ WaitIdle \/ WaitTimeout \/ Destroy \/ Join
    PROVE  /\ PoolInv'
           /\ Executing' = Executing
<1> USE DEF PoolInv
<1>0. UNCHANGED <<tasks, workerVars, notifies, rejected>>
  BY DEF StopAccepting, WaitIdle, WaitTimeout, Destroy, Join, queueVars
<1>1. \A p : InPhase(p)' = InPhase(p)
  BY <1>0 DEF InPhase, workerVars
<1>2. Executing' = Executing
  BY <1>0, <1>1 DEF Executing, workerVars
<1>3. accepting' \in BOOLEAN /\ stopping' \in BOOLEAN
      /\ mainPc' \in MainPcs /\ idle' \in {"unknown", "yes", "timeout"}
  BY DEF StopAccepting, WaitIdle, WaitTimeout, Destroy, Join, MainStep, TypeOK, MainPcs,
         queueVars
<1>4. TypeOK'
  BY <1>0, <1>3 DEF TypeOK, workerVars
<1>5. ActiveCounts' /\ Holding' /\ OnePlace' /\ NoTaskBehindSleeper'
  BY <1>0, <1>1, <1>2
     DEF ActiveCounts, Holding, OnePlace, NoTaskBehindSleeper, workerVars
<1>6. Idle' = Idle
  BY <1>0 DEF Idle, workerVars
<1>7. LeftEmpty'
  BY <1>0 DEF LeftEmpty, StopAccepting, WaitIdle, WaitTimeout, Destroy, Join, workerVars,
              queueVars
<1>8. MainFlags' /\ IdleWaiterNotForgotten'
  <2>1. CASE StopAccepting
    BY <1>0, <1>6, <2>1 DEF StopAccepting, MainStep, MainFlags, IdleWaiterNotForgotten, TypeOK
  <2>2. CASE WaitIdle
    BY <1>0, <1>6, <2>2 DEF WaitIdle, MainFlags, IdleWaiterNotForgotten, queueVars
  <2>3. CASE WaitTimeout
    BY <1>0, <1>6, <2>3 DEF WaitTimeout, MainFlags, IdleWaiterNotForgotten, queueVars
  <2>4. CASE Destroy
    BY <1>0, <1>6, <2>4 DEF Destroy, MainStep, MainFlags, IdleWaiterNotForgotten
  <2>5. CASE Join
    BY <1>0, <1>6, <2>5 DEF Join, MainStep, MainFlags, IdleWaiterNotForgotten, queueVars,
                            workerVars
  <2>6. QED
    BY <2>1, <2>2, <2>3, <2>4, <2>5
<1>9. QED
  BY <1>2, <1>4, <1>5, <1>7, <1>8

(* The destructor wakes every sleeper.                                     *)
LEMMA NotifyAllInv ==
    ASSUME PoolInv, NotifyAll
    PROVE  /\ PoolInv'
           /\ Executing' = Executing
<1> USE DEF PoolInv
<1>0. /\ \A w \in Worker : phase'[w] = IF phase[w] = "asleep" THEN "ready" ELSE phase[w]
      /\ mainPc = "stopping" /\ mainPc' = "joining"
      /\ UNCHANGED <<tasks, accepting, stopping, active, job, finished, notifies, idle,
                     rejected>>
      /\ phase' \in [Worker -> Phases]
  BY DEF NotifyAll, MainStep, queueVars, TypeOK, Phases
<1>1. InPhase("running")' = InPhase("running") /\ InPhase("asleep")' = {}
  BY <1>0 DEF InPhase
<1>2. Executing' = Executing
  BY <1>0, <1>1 DEF Executing
<1>3. TypeOK' /\ ActiveCounts'
  BY <1>0, <1>1 DEF TypeOK, ActiveCounts, MainPcs
<1>4. Holding' /\ LeftEmpty'
  BY <1>0, <1>1 DEF Holding, LeftEmpty
<1>5. OnePlace'
  BY <1>0, <1>2 DEF OnePlace
<1>6. NoTaskBehindSleeper'
  BY <1>1 DEF NoTaskBehindSleeper
<1>7. MainFlags' /\ IdleWaiterNotForgotten'
  BY <1>0 DEF MainFlags, IdleWaiterNotForgotten, Idle
<1>8. QED
  BY <1>2, <1>3, <1>4, <1>5, <1>6, <1>7

(* A step that changes nothing.                                            *)
LEMMA StutterInv ==
    ASSUME PoolInv, UNCHANGED vars
    PROVE  PoolInv'
<1>1. UNCHANGED <<tasks, accepting, stopping, active, phase, job, finished, notifies,
                  mainPc, idle, rejected>>
  BY DEF vars, queueVars, workerVars, mainVars
<1>2. \A p : InPhase(p)' = InPhase(p)
  BY <1>1 DEF InPhase
<1>3. Executing' = Executing
  BY <1>1, <1>2 DEF Executing
<1>4. QED
  BY <1>1, <1>2, <1>3
     DEF PoolInv, TypeOK, ActiveCounts, Holding, OnePlace, MainFlags, LeftEmpty, Idle,
         NoTaskBehindSleeper, IdleWaiterNotForgotten

LEMMA StepInv == PoolInv /\ [Next]_vars => PoolInv'
<1> SUFFICES ASSUME PoolInv, [Next]_vars PROVE PoolInv'
  OBVIOUS
<1>1. CASE \E t \in Task : TrySubmit(t)
  BY <1>1, TrySubmitInv
<1>2. CASE NotifyOne
  BY <1>2, NotifyOneInv
<1>3. ASSUME NEW w \in Worker, WorkerStep(w) PROVE PoolInv'
  BY <1>3, SleepInv, ExitInv, TakeInv, FinishInv DEF WorkerStep
<1>4. ASSUME NEW w \in Worker, SpuriousWakeup(w) PROVE PoolInv'
  <2>1. /\ w \in InPhase("asleep") /\ notifies' = notifies /\ notifies \in Nat
        /\ phase' = [phase EXCEPT ![w] = "ready"]
        /\ UNCHANGED <<queueVars, active, job, finished, mainVars, rejected>>
    BY <1>4 DEF SpuriousWakeup, InPhase, PoolInv, TypeOK
  <2>2. notifies' \in Nat /\ notifies' >= notifies - 1
    BY <2>1
  <2>3. QED
    BY <2>1, <2>2, WakeInv
<1>5. CASE StopAccepting \/ MainShutdown
  BY <1>5, MainInv, NotifyAllInv DEF MainShutdown
<1>6. CASE UNCHANGED vars
  BY <1>6, StutterInv
<1>7. QED
  BY <1>1, <1>2, <1>3, <1>4, <1>5, <1>6 DEF Next

-----------------------------------------------------------------------------
(* The invariant holds in every reachable state.                           *)
THEOREM PoolInvariant == SafeSpec => []PoolInv
<1>1. QED
  BY InitInv, StepInv, PTL DEF SafeSpec

(* Type correctness of the pool, and the queue bound of try_submit.        *)
THEOREM TypeCorrect == Spec => []TypeOK
<1>1. PoolInv => TypeOK
  BY DEF PoolInv
<1>2. QED
  BY <1>1, PoolInvariant, PTL DEF Spec

(* No queued task is left behind sleeping workers: the notification that   *)
(* try_submit issues after the unlock cannot be lost.                      *)
THEOREM NoLostTaskWakeup == Spec => []NoTaskBehindSleeper
<1>1. PoolInv => NoTaskBehindSleeper
  BY DEF PoolInv
<1>2. QED
  BY <1>1, PoolInvariant, PTL DEF Spec

(* main never blocks in wait_idle on an idle pool.                         *)
THEOREM NoLostIdleWakeup == Spec => []IdleWaiterNotForgotten
<1>1. PoolInv => IdleWaiterNotForgotten
  BY DEF PoolInv
<1>2. QED
  BY <1>1, PoolInvariant, PTL DEF Spec

(* After wait_idle has reported an idle pool, no task is queued or runs.   *)
THEOREM IdleReport == Spec => []IdleReportIsFinal
<1>1. PoolInv => IdleReportIsFinal
  <2> SUFFICES ASSUME PoolInv, idle = "yes" PROVE tasks = <<>> /\ InPhase("running") = {}
    BY DEF IdleReportIsFinal
  <2>1. tasks = <<>> /\ active = 0
    BY DEF PoolInv, MainFlags, Idle
  <2>2. Cardinality(InPhase("running")) = 0
    BY <2>1 DEF PoolInv, ActiveCounts
  <2>3. QED
    BY <2>1, <2>2, PhaseFinite, FS_EmptySet
<1>2. QED
  BY <1>1, PoolInvariant, PTL DEF Spec

-----------------------------------------------------------------------------
(* Every step of the pool is a step of the task service or a stutter.      *)
LEMMA ServiceStep == PoolInv /\ [Next]_vars => [Service!Next]_Service!svars
<1> SUFFICES ASSUME PoolInv, [Next]_vars PROVE [Service!Next]_Service!svars
  OBVIOUS
<1> USE DEF Service!Next, Service!svars
<1>1. ASSUME NEW t \in Task, TrySubmit(t) PROVE [Service!Next]_Service!svars
  <2>1. /\ Executing' = Executing
        /\ UNCHANGED <<accepting, stopping, finished, mainPc>>
    BY <1>1 DEF TrySubmit, workerVars, mainVars, Executing, InPhase
  <2>2. Service!Fresh(t)
    BY <1>1 DEF TrySubmit, CanSubmit, Queued, Service!Fresh, Service!InBacklog
  <2>3. Len(tasks) \in Nat
    BY DEF PoolInv, TypeOK
  <2>4. CASE stopping \/ ~accepting \/ Len(tasks) >= MaxQueue
    <3>1. Service!Refuse(t)
      BY <1>1, <2>1, <2>2, <2>4 DEF Service!Refuse, TrySubmit
    <3>2. QED
      BY <3>1
  <2>5. CASE ~(stopping \/ ~accepting \/ Len(tasks) >= MaxQueue)
    <3>1. Service!Accept(t)
      BY <1>1, <2>1, <2>2, <2>3, <2>5, WorkerPoolAssumption DEF Service!Accept, TrySubmit
    <3>2. QED
      BY <3>1
  <2>6. QED
    BY <2>4, <2>5
<1>2. ASSUME NEW w \in Worker, Take(w) PROVE [Service!Next]_Service!svars
  <2>1. Executing' = Executing \cup {Head(tasks)}
    BY <1>2, TakeInv
  <2>2. mainPc # "gone"
    BY <1>2 DEF Take, PoolInv, MainFlags
  <2>3. Service!Start
    BY <1>2, <2>1, <2>2 DEF Service!Start, Take, mainVars
  <2>4. QED
    BY <2>3
<1>3. ASSUME NEW w \in Worker, Finish(w) PROVE [Service!Next]_Service!svars
  <2>1. job[w] \in Executing /\ Executing' = Executing \ {job[w]} /\ job[w] \in Task
    BY <1>3, FinishInv DEF Finish, PoolInv, Holding
  <2>2. mainPc' = mainPc \/ (mainPc = "blocked" /\ mainPc' = "woken")
    BY <1>3 DEF Finish
  <2>3. Service!Finish(job[w])
    BY <1>3, <2>1, <2>2 DEF Service!Finish, Finish, queueVars
  <2>4. QED
    BY <2>1, <2>3
<1>4. ASSUME NEW w \in Worker, Sleep(w) \/ Exit(w) \/ SpuriousWakeup(w)
      PROVE  [Service!Next]_Service!svars
  <2>1. phase[w] # "running" /\ \E q : q # "running" /\ phase' = [phase EXCEPT ![w] = q]
    BY <1>4 DEF Sleep, Exit, SpuriousWakeup
  <2>2. InPhase("running")' = InPhase("running") /\ job' = job
    BY <1>4, <2>1 DEF PoolInv, TypeOK, InPhase, Sleep, Exit, SpuriousWakeup
  <2>3. Executing' = Executing
    BY <2>2 DEF Executing
  <2>4. UNCHANGED <<tasks, accepting, stopping, finished, mainPc, rejected>>
    BY <1>4 DEF Sleep, Exit, SpuriousWakeup, queueVars, mainVars
  <2>5. QED
    BY <2>3, <2>4
<1>5. CASE NotifyOne
  <2>1. InPhase("running")' = InPhase("running") /\ job' = job
    BY <1>5 DEF PoolInv, TypeOK, InPhase, NotifyOne
  <2>2. Executing' = Executing
    BY <2>1 DEF Executing
  <2>3. UNCHANGED <<tasks, accepting, stopping, finished, mainPc, rejected>>
    BY <1>5 DEF NotifyOne, queueVars, mainVars
  <2>4. QED
    BY <2>2, <2>3
<1>6. CASE StopAccepting
  <2>1. Executing' = Executing
    BY <1>6, MainInv
  <2>2. Service!Close
    BY <1>6, <2>1 DEF Service!Close, StopAccepting, MainStep, PoolInv, MainFlags, workerVars
  <2>3. QED
    BY <2>2
<1>7. CASE WaitIdle \/ WaitTimeout \/ Destroy \/ NotifyAll
  <2>1. Executing' = Executing
    BY <1>7, MainInv, NotifyAllInv
  <2>2. /\ UNCHANGED <<tasks, finished, rejected>>
        /\ (accepting /\ ~stopping)' = (accepting /\ ~stopping)
        /\ (mainPc = "gone")' = (mainPc = "gone")
    BY <1>7 DEF WaitIdle, WaitTimeout, Destroy, NotifyAll, MainStep, PoolInv, MainFlags,
                queueVars, workerVars
  <2>3. QED
    BY <2>1, <2>2
<1>8. CASE Join
  <2>1. Executing' = Executing
    BY <1>8, MainInv
  <2>2. /\ mainPc = "joining" /\ mainPc' = "gone"
        /\ UNCHANGED <<queueVars, workerVars, notifies, idle, rejected>>
        /\ InPhase("running") = {}
    BY <1>8 DEF Join, MainStep, InPhase
  <2>3. tasks = <<>> /\ stopping
    BY <1>8, WorkerPoolAssumption DEF Join, PoolInv, LeftEmpty
  <2>4. Executing = {}
    BY <2>2 DEF Executing
  <2>5. Service!Vanish
    BY <2>1, <2>2, <2>3, <2>4 DEF Service!Vanish, queueVars, workerVars
  <2>6. QED
    BY <2>5
<1>9. CASE UNCHANGED vars
  BY <1>9 DEF vars, queueVars, workerVars, mainVars, Executing, InPhase
<1>10. QED
  BY <1>1, <1>2, <1>3, <1>4, <1>5, <1>6, <1>7, <1>8, <1>9
     DEF Next, WorkerStep, MainShutdown

(* The pool implements the safety part of the task service: every accepted *)
(* task runs exactly once, in order, none is lost when the destructor      *)
(* returns, and a refused task never runs.                                 *)
THEOREM Implements == Spec => Service!SafeSpec
<1>1. Init => Service!Init
  BY DEF Init, Service!Init, Executing, InPhase
<1>2. QED
  BY <1>1, ServiceStep, PoolInvariant, PTL DEF Spec, SafeSpec, Service!SafeSpec

=============================================================================

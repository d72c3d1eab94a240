------------------------ MODULE InventoryPull_proofs ------------------------
(***************************************************************************)
(* Proofs about InventoryPull, for any number of HTTP threads, pulls,      *)
(* resets and restarts: its types, and the four invariants of the run      *)
(* inventory_pull.  The inductive invariants say what the order of the     *)
(* steps gives: generations are unique and none is ahead of the counter;   *)
(* a job has its record before its checkpoint and ends it first; whoever   *)
(* may still close a running checkpoint was seen by the start after it.    *)
(***************************************************************************)
EXTENDS InventoryPull, TLAPS

Numbered == {j \in Job : task[j].at \notin {"none", "bump"}}
Working(j) == task[j].at \in ThreadPoints \ {"show_thrown"}

\* Every job id came from a post or will come from the resume of a restart.
IdBound == ids + (IF mainPc = "up" THEN 0 ELSE 1) =< posts + breaks

\* While the process is down, nothing runs.
DownIsEmpty == mainPc = "down" => \A j \in Job : At(j, "none")

\* An interrupted checkpoint is older than the process, so no start misses it.
SeenInterrupted ==
    \A j \in Job : At(j, "insert_cp") =>
        \A k \in Job : cp[k].status = "interrupted" => k \in seen[j]

GenOrder ==
    /\ \A j \in Job : task[j].gen =< gen
    /\ \A i \in Numbered, j \in Numbered : task[i].gen = task[j].gen => i = j

\* A job id that is not handed out has no rows.
Unused == \A j \in Job : j > ids => At(j, "none") /\ rec[j] = "none" /\ cp[j].status = "none"

\* A job at work has a record, and its checkpoint is not done yet.
Recorded ==
    \A j \in Job :
        /\ Working(j) \/ task[j].at \in {"open_cp", "insert_cp", "show_thrown"} => rec[j] # "none"
        /\ Working(j) \/ task[j].at \in HandlerPoints => cp[j].status # "done"

\* The record is closed before the checkpoint, with the same outcome.
RecordClosed == \A j \in Job : task[j].at \in {"end_cp", "show_thrown"} => rec[j] # "running"
RecordDone == \A j \in Job : At(j, "end_cp") /\ task[j].report = "imported" => rec[j] = "done"

\* A superseded pull that has passed its last look at the generation closes no
\* checkpoint the newest pull relies on.
LateEnd ==
    \A i \in Job, j \in Job :
        i # j /\ task[j].at \in {"end_rec", "end_cp"} /\ cp[j].status = "running"
              /\ i \in Numbered /\ Current(i) =>
            /\ ~Working(i)
            /\ At(i, "insert_cp") => j \in seen[i]

-----------------------------------------------------------------------------
(* Types.                                                                  *)

Points == {"bump", "close_recs", "close_cps", "show_new", "insert_rec", "open_cp",
           "insert_cp", "check", "show", "work", "mark", "gate", "end_rec", "end_cp",
           "show_thrown", "none", "ended"}

LEMMA PointsAre == HandlerPoints \cup ThreadPoints \cup {"none", "ended"} = Points
BY DEF Points, HandlerPoints, ThreadPoints

\* What the steps write into a task is a task again.
LEMMA TaskUpdate ==
    ASSUME task \in [Job -> Task], NEW j \in Job, NEW at \in Points,
           NEW stage \in Stages, NEW report \in Reports, NEW g \in Nat
    PROVE  /\ [task EXCEPT ![j].at = at] \in [Job -> Task]
           /\ [task EXCEPT ![j].at = at, ![j].gen = g] \in [Job -> Task]
           /\ [task EXCEPT ![j].at = at, ![j].report = report] \in [Job -> Task]
           /\ [task EXCEPT ![j].at = at, ![j].stage = stage, ![j].report = report] \in [Job -> Task]
           /\ [task EXCEPT ![j] = [at |-> at, stage |-> stage, report |-> report, gen |-> g]]
                \in [Job -> Task]
BY PointsAre DEF Task

LEMMA AfterType == \A report : After(report) \in {"work", "mark", "gate"}
BY DEF After

LEMMA JobType == Job \subseteq Nat \ {0} /\ NoJob \notin Job
BY PullAssumption DEF Job, NoJob

LEMMA FieldTypes ==
    ASSUME task \in [Job -> Task], NEW j \in Job
    PROVE  /\ task[j] \in Task /\ task[j].at \in Points
           /\ task[j].stage \in Stages /\ task[j].report \in Reports /\ task[j].gen \in Nat
BY PointsAre DEF Task

LEMMA NoTaskType == NoTask \in Task
<1>1. "none" \in Points /\ "start" \in Stages /\ "running" \in Reports
  BY DEF Points, Stages, Reports
<1>. QED BY <1>1, PointsAre DEF NoTask, Task

LEMMA GotoType ==
    ASSUME task \in [Job -> Task], NEW j \in Job, NEW from, NEW to \in Points, Goto(j, from, to)
    PROVE  task' \in [Job -> Task]
BY TaskUpdate, FieldTypes DEF Goto

LEMMA ReportType ==
    ASSUME task \in [Job -> Task], NEW j \in Job, NEW stage \in Stages, NEW report \in Reports,
           Report(j, stage, report)
    PROVE  task' \in [Job -> Task]
<1>1. "check" \in Points
  BY DEF Points
<1>. QED BY <1>1, TaskUpdate, FieldTypes DEF Report

LEMMA CatchType ==
    ASSUME task \in [Job -> Task], NEW j \in Job, Catch(j)
    PROVE  task' \in [Job -> Task]
<1>1. "gate" \in Points /\ "thrown" \in Reports
  BY DEF Points, Reports
<1>. QED BY <1>1, TaskUpdate, FieldTypes DEF Catch

LEMMA EndType ==
    ASSUME task \in [Job -> Task], NEW j \in Job, End(j)
    PROVE  task' \in [Job -> Task]
<1>1. "ended" \in Points /\ "start" \in Stages /\ "running" \in Reports
  BY DEF Points, Stages, Reports
<1>2. task[j].gen \in Nat
  BY FieldTypes
<1>. QED BY <1>1, <1>2, TaskUpdate DEF End

\* A job step writes a task: one case per way its steps do so.
LEMMA JobTask ==
    ASSUME task \in [Job -> Task], gen \in Nat, NEW j \in Job, Handle(j) \/ Pull(j)
    PROVE  task' \in [Job -> Task]
<1>p. \A p \in {"close_recs", "close_cps", "show_new", "insert_rec", "open_cp", "insert_cp", "check",
                "show", "work", "mark", "gate", "end_rec", "end_cp", "show_thrown"} : p \in Points
  BY DEF Points
<1>r. /\ \A s \in {"catalog", "ka2_pull", "save"} : s \in Stages
      /\ \A r \in {"running", "done", "imported", "failed"} : r \in Reports
  BY DEF Stages, Reports
<1>f. /\ task[j].stage \in Stages /\ task[j].report \in Reports /\ task[j].gen \in Nat
      /\ gen + 1 \in Nat
  BY FieldTypes
<1>1. CASE Bump(j)
  BY <1>1, <1>p, <1>f, TaskUpdate DEF Bump
<1>2. CASE \/ AbandonRecords(j) \/ AbandonCheckpoints(j) \/ ShowNew(j)
           \/ InsertRecord(j) \/ OpenCheckpoint(j) \/ EndRecord(j)
  BY <1>2, <1>p, GotoType
     DEF AbandonRecords, AbandonCheckpoints, ShowNew, InsertRecord, OpenCheckpoint, EndRecord
<1>3. CASE InsertCheckpoint(j)
  <2>1. task' = [task EXCEPT ![j].at = "check", ![j].stage = "catalog", ![j].report = "running"]
    BY <1>3 DEF InsertCheckpoint, ThreadStart
  <2>. QED BY <2>1, <1>p, <1>r, <1>f, TaskUpdate
<1>4. CASE Check(j) \/ Show(j)
  <2>1. PICK p \in {"show", "work", "mark", "gate"} : task' = [task EXCEPT ![j].at = p]
    BY <1>4, AfterType DEF Check, Show
  <2>. QED BY <2>1, <1>p, <1>f, TaskUpdate
<1>5. CASE Work(j)
  <2>1. \/ \E r \in {"done", "failed"} : Report(j, task[j].stage, r)
        \/ Catch(j)
    BY <1>5 DEF Work
  <2>. QED BY <2>1, <1>r, <1>f, ReportType, CatchType
<1>6. CASE Mark(j)
  <2>1. \/ \E s \in {"ka2_pull", "save"}, r \in {"running", "failed", "imported"} : Report(j, s, r)
        \/ Catch(j)
    BY <1>6 DEF Mark, NextStage
  <2>. QED BY <2>1, <1>r, <1>f, ReportType, CatchType
<1>7. CASE Gate(j) \/ EndCheckpoint(j) \/ ShowThrown(j)
  <2>1. End(j) \/ Goto(j, "gate", "end_rec") \/ Goto(j, "end_cp", "show_thrown")
    BY <1>7 DEF Gate, EndCheckpoint, ShowThrown
  <2>. QED BY <2>1, <1>p, GotoType, EndType
<1>. QED BY <1>1, <1>2, <1>3, <1>4, <1>5, <1>6, <1>7 DEF Handle, Pull

LEMMA JobTypes ==
    ASSUME TypeOK, NEW j \in Job, Handle(j) \/ Pull(j)
    PROVE  TypeOK'
<1>. USE DEF TypeOK
<1>t. task' \in [Job -> Task] /\ task[j].report \in Reports /\ task[j].stage \in Stages
  BY JobTask, FieldTypes
<1>r. /\ RowStatus = {"none", "running", "interrupted", "done", "failed"}
      /\ \A r \in Reports \cup {"running", "failed"} : r \in Reports \cup {"none"}
      /\ "start" \in Stages
  BY DEF RowStatus, Reports, Stages
<1>1. CASE Bump(j)
  BY <1>1, <1>t, <1>r, JobType DEF Bump, process, bounds, tables
<1>2. CASE AbandonRecords(j)
  BY <1>2, <1>t, <1>r, JobType DEF AbandonRecords, CloseRecords, process, bounds, tables
<1>3. CASE AbandonCheckpoints(j)
  BY <1>3, <1>t, <1>r, JobType
      DEF AbandonCheckpoints, CloseCheckpoints, Open, process, bounds, tables
<1>4. CASE ShowNew(j)
  BY <1>4, <1>t, <1>r, JobType DEF ShowNew, process, bounds, tables
<1>5. CASE InsertRecord(j)
  BY <1>5, <1>t, <1>r, JobType DEF InsertRecord, process, bounds, tables
<1>6. CASE OpenCheckpoint(j)
  BY <1>6, <1>t, <1>r, JobType DEF OpenCheckpoint, Open, process, bounds, tables
<1>7. CASE InsertCheckpoint(j)
  <2>1. cp' \in [Job -> [status : RowStatus, stage : Stages]]
    <3>1. CASE cp' = cp
      BY <3>1
    <3>2. CASE cp' # cp
      <4>1. \A k \in Job : [cp[k] EXCEPT !.status = "failed"] \in [status : RowStatus, stage : Stages]
        BY <1>r
      <4>2. [status |-> "running", stage |-> "start"] \in [status : RowStatus, stage : Stages]
        BY <1>r
      <4>3. cp' = [k \in Job |-> IF k = j THEN [status |-> "running", stage |-> "start"]
                                 ELSE IF k \in seen[j] /\ Open(k)
                                 THEN [cp[k] EXCEPT !.status = "failed"] ELSE cp[k]]
        BY <1>7, <3>2 DEF InsertCheckpoint
      <4>. QED BY <4>1, <4>2, <4>3
    <3>. QED BY <3>1, <3>2
  <2>2. seen' \in [Job -> SUBSET Job]
    BY <1>7 DEF InsertCheckpoint, ThreadStart
  <2>. QED BY <1>7, <1>t, <2>1, <2>2, JobType DEF InsertCheckpoint, process, bounds
<1>8. CASE Check(j)
  BY <1>8, <1>t, <1>r, JobType DEF Check, After, Current, process, bounds, tables
<1>9. CASE Show(j)
  BY <1>9, <1>t, <1>r, JobType DEF Show, After, process, bounds, tables
<1>10. CASE Work(j)
  BY <1>10, <1>t, <1>r, JobType DEF Work, Report, Catch, process, bounds, tables
<1>11. CASE Mark(j)
  BY <1>11, <1>t, <1>r, JobType
      DEF Mark, UpdateCheckpoint, Report, Catch, NextStage, process, bounds, tables
<1>12. CASE Gate(j)
  BY <1>12, <1>t, <1>r, JobType DEF Gate, Current, End, process, bounds, tables
<1>13. CASE EndRecord(j)
  BY <1>13, <1>t, <1>r, JobType DEF EndRecord, FinishRecord, Outcome, process, bounds, tables
<1>14. CASE EndCheckpoint(j)
  <2>1. PICK to \in RowStatus : cp' = [cp EXCEPT ![j].status = to]
    BY <1>14, <1>r DEF EndCheckpoint, FinishCheckpoint, Outcome
  <2>2. cp' \in [Job -> [status : RowStatus, stage : Stages]]
    BY <2>1
  <2>. QED BY <1>14, <1>t, <2>2, JobType DEF EndCheckpoint, process, bounds
<1>15. CASE ShowThrown(j)
  BY <1>15, <1>t, <1>r, JobType DEF ShowThrown, End, process, bounds, tables
<1>. QED BY <1>1, <1>2, <1>3, <1>4, <1>5, <1>6, <1>7, <1>8, <1>9, <1>10, <1>11, <1>12, <1>13,
    <1>14, <1>15
    DEF Handle, Pull

\* The bound on the ids makes the id of a new request a job.
LEMMA NewJob ==
    ASSUME TypeOK, IdBound, PostPull \/ ResumePost
    PROVE  ids + 1 \in Job /\ ids + 1 \in 0 .. (MaxPosts + MaxBreaks)
BY PullAssumption DEF TypeOK, IdBound, PostPull, ResumePost, Receive, Job

LEMMA ReceiveTypes ==
    ASSUME TypeOK, IdBound, PostPull \/ ResumePost
    PROVE  TypeOK'
<1>1. "bump" \in Points
  BY DEF Points
<1>2. task' = [task EXCEPT ![ids + 1].at = "bump"] /\ ids' = ids + 1
  BY DEF PostPull, ResumePost, Receive
<1>3. task' \in [Job -> Task]
  BY <1>1, <1>2, NewJob, TaskUpdate, FieldTypes DEF TypeOK
<1>4. CASE PostPull
  BY <1>2, <1>3, <1>4, NewJob, PullAssumption DEF TypeOK, PostPull, Receive, tables
<1>5. CASE ResumePost
  BY <1>2, <1>3, <1>5, NewJob DEF TypeOK, ResumePost, Receive, tables, bounds
<1>. QED BY <1>4, <1>5

LEMMA OtherTypes ==
    ASSUME TypeOK, Resetting \/ ProcessEnds \/ Restart \/ FindUnfinished
    PROVE  TypeOK'
<1>. USE DEF TypeOK
<1>r. /\ RowStatus = {"none", "running", "interrupted", "done", "failed"}
      /\ NoShow \in [job : Job \cup {NoJob}, status : Reports \cup {"none"}]
  BY DEF RowStatus, NoShow
<1>1. CASE Reset
  BY <1>1, <1>r, PullAssumption DEF Reset, CloseRecords
<1>2. CASE ResetCheckpoints
  BY <1>2, <1>r DEF ResetCheckpoints, CloseCheckpoints, Open, process, bounds
<1>3. CASE ResetShown
  BY <1>3, <1>r DEF ResetShown, process, bounds, tables
<1>4. CASE ResetGeneration
  BY <1>4 DEF ResetGeneration, process, bounds, tables
<1>5. CASE ProcessEnds
  BY <1>5, <1>r, NoTaskType, PullAssumption DEF ProcessEnds, tables
<1>6. CASE Restart
  BY <1>6, <1>r DEF Restart, CloseRecords, bounds
<1>7. CASE FindUnfinished
  BY <1>7 DEF FindUnfinished, Interrupted, bounds, tables
<1>. QED BY <1>1, <1>2, <1>3, <1>4, <1>5, <1>6, <1>7 DEF Resetting

LEMMA IdStep ==
    ASSUME TypeOK, IdBound, Next
    PROVE  IdBound'
<1>. USE DEF TypeOK, IdBound
<1>1. CASE \E j \in Job : Handle(j) \/ Pull(j)
  <2>1. UNCHANGED process
    BY <1>1
        DEF Handle, Pull, Bump, AbandonRecords, AbandonCheckpoints, ShowNew, InsertRecord,
            OpenCheckpoint, InsertCheckpoint, Check, Show, Work, Mark, Gate, EndRecord,
            EndCheckpoint, ShowThrown
  <2>. QED BY <2>1 DEF process, bounds
<1>2. CASE PostPull
  BY <1>2 DEF PostPull, Receive
<1>3. CASE Resetting
  BY <1>3 DEF Resetting, Reset, ResetCheckpoints, ResetShown, ResetGeneration, process, bounds
<1>4. CASE Life
  BY <1>4 DEF Life, ProcessEnds, Restart, FindUnfinished, ResumePost, Receive, bounds
<1>. QED BY <1>1, <1>2, <1>3, <1>4 DEF Next

\* Every reachable state is well typed: no step leaves a status, a stage or a
\* job id outside its set, and the ids never exceed the pulls asked for.
THEOREM TypeCorrect == Spec => [](TypeOK /\ IdBound)
<1>1. Init => TypeOK /\ IdBound
  <2>1. /\ NoCheckpoint \in [status : RowStatus, stage : Stages]
        /\ NoShow \in [job : Job \cup {NoJob}, status : Reports \cup {"none"}]
        /\ "none" \in RowStatus
    BY DEF NoCheckpoint, NoShow, RowStatus, Stages
  <2>2. ASSUME Init PROVE task \in [Job -> Task] /\ rec \in [Job -> RowStatus]
    BY <2>1, <2>2, NoTaskType DEF Init
  <2>3. ASSUME Init PROVE cp \in [Job -> [status : RowStatus, stage : Stages]]
    BY <2>1, <2>3 DEF Init
  <2>4. ASSUME Init PROVE seen \in [Job -> SUBSET Job]
    BY <2>4 DEF Init
  <2>5. ASSUME Init
        PROVE  /\ gen \in Nat /\ resetPc \in {"idle", "close_cps", "clear", "bump"}
               /\ mainPc \in {"down", "booting", "resuming", "up"}
               /\ found \in Job \cup {NoJob} /\ (cut <=> FALSE)
               /\ ids \in 0 .. (MaxPosts + MaxBreaks)
               /\ posts \in 0..MaxPosts /\ breaks \in 0..MaxBreaks
    BY <2>5, PullAssumption DEF Init
  <2>7. Init => cut \in BOOLEAN
    BY DEF Init
  <2>8. Init => IdBound
    BY DEF Init, IdBound
  <2>6. ASSUME Init PROVE shown \in [job : Job \cup {NoJob}, status : Reports \cup {"none"}]
    BY <2>1, <2>6 DEF Init
  <2>. QED BY <2>2, <2>3, <2>4, <2>5, <2>6, <2>7, <2>8 DEF TypeOK
<1>2. TypeOK /\ IdBound /\ [Next]_vars => (TypeOK /\ IdBound)'
  <2>. SUFFICES ASSUME TypeOK, IdBound, [Next]_vars PROVE (TypeOK /\ IdBound)'
    OBVIOUS
  <2>1. CASE Next
    BY <2>1, JobTypes, ReceiveTypes, OtherTypes, IdStep DEF Next, Life
  <2>2. CASE UNCHANGED vars
    BY <2>2 DEF vars, process, bounds, tables, TypeOK, IdBound
  <2>. QED BY <2>1, <2>2
<1>. QED BY <1>1, <1>2, PTL DEF Spec

-----------------------------------------------------------------------------
(* What a step of a job does to its task, and that it leaves the others'.   *)

LEMMA JobFrame ==
    ASSUME TypeOK, NEW j \in Job, Handle(j) \/ Pull(j)
    PROVE  /\ \A k \in Job : k # j => task'[k] = task[k]
           /\ UNCHANGED <<resetPc, process>>
           /\ task[j].at \notin {"none", "ended"} /\ task'[j].at \notin {"none", "bump"}
<1>. /\ task \in [Job -> Task] /\ \A x : After(x) \in {"work", "mark", "gate"}
  BY AfterType DEF TypeOK
<1>. UNCHANGED <<resetPc, process>>
  BY
      DEF Handle, Pull, Bump, AbandonRecords, AbandonCheckpoints, ShowNew, InsertRecord,
          OpenCheckpoint, InsertCheckpoint, Check, Show, Work, Mark, Gate, EndRecord,
          EndCheckpoint, ShowThrown
<1>1. CASE Bump(j)
  BY <1>1 DEF Bump, At, Task
<1>2. CASE AbandonRecords(j)
  BY <1>2 DEF AbandonRecords, Goto, At, Task
<1>3. CASE AbandonCheckpoints(j)
  BY <1>3 DEF AbandonCheckpoints, Goto, At, Task
<1>4. CASE ShowNew(j)
  BY <1>4 DEF ShowNew, Goto, At, Task
<1>5. CASE InsertRecord(j)
  BY <1>5 DEF InsertRecord, Goto, At, Task
<1>6. CASE OpenCheckpoint(j)
  BY <1>6 DEF OpenCheckpoint, Goto, At, Task
<1>7. CASE InsertCheckpoint(j)
  BY <1>7 DEF InsertCheckpoint, ThreadStart, At, Task
<1>8. CASE Check(j)
  BY <1>8 DEF Check, At, Task
<1>9. CASE Show(j)
  BY <1>9 DEF Show, At, Task
<1>10. CASE Work(j)
  BY <1>10 DEF Work, Report, Catch, At, Task
<1>11. CASE Mark(j)
  BY <1>11 DEF Mark, Report, Catch, At, Task
<1>12. CASE Gate(j)
  BY <1>12 DEF Gate, Goto, End, At, Task
<1>13. CASE EndRecord(j)
  BY <1>13 DEF EndRecord, Goto, At, Task
<1>14. CASE EndCheckpoint(j)
  BY <1>14 DEF EndCheckpoint, Goto, End, At, Task
<1>15. CASE ShowThrown(j)
  BY <1>15 DEF ShowThrown, End, At, Task
<1>. QED BY <1>1, <1>2, <1>3, <1>4, <1>5, <1>6, <1>7, <1>8, <1>9, <1>10, <1>11, <1>12, <1>13,
    <1>14, <1>15
    DEF Handle, Pull

Moves(j, from, to) ==
    At(j, from) /\ task'[j].at \in to /\ task'[j].gen = task[j].gen /\ gen' = gen

\* From where to where each step goes.
LEMMA JobMoves ==
    ASSUME TypeOK, NEW j \in Job
    PROVE  /\ Bump(j) =>
                 At(j, "bump") /\ task'[j].at = "close_recs" /\ task'[j].gen = gen + 1 /\ gen' = gen + 1
           /\ AbandonRecords(j) => Moves(j, "close_recs", {"close_cps"})
           /\ AbandonCheckpoints(j) => Moves(j, "close_cps", {"show_new"})
           /\ ShowNew(j) => Moves(j, "show_new", {"insert_rec"})
           /\ InsertRecord(j) => Moves(j, "insert_rec", {"open_cp"})
           /\ OpenCheckpoint(j) => Moves(j, "open_cp", {"insert_cp"})
           /\ InsertCheckpoint(j) => Moves(j, "insert_cp", {"check"})
           /\ Check(j) => Moves(j, "check", {"show", "work", "mark", "gate"})
           /\ Show(j) => Moves(j, "show", {"work", "mark", "gate"})
           /\ Work(j) => Moves(j, "work", {"check", "gate"})
           /\ Mark(j) => Moves(j, "mark", {"check", "gate"})
           /\ Gate(j) => Moves(j, "gate", {"end_rec", "ended"})
           /\ EndRecord(j) => Moves(j, "end_rec", {"end_cp"})
           /\ EndCheckpoint(j) => Moves(j, "end_cp", {"show_thrown", "ended"})
           /\ ShowThrown(j) => Moves(j, "show_thrown", {"ended"})
<1>. /\ task \in [Job -> Task] /\ \A x : After(x) \in {"work", "mark", "gate"}
  BY AfterType DEF TypeOK
<1>1. ASSUME Bump(j)
      PROVE At(j, "bump") /\ task'[j].at = "close_recs" /\ task'[j].gen = gen + 1 /\ gen' = gen + 1
  BY <1>1 DEF Bump, At, Task
<1>2. ASSUME AbandonRecords(j) PROVE Moves(j, "close_recs", {"close_cps"})
  BY <1>2 DEF Moves, AbandonRecords, Goto, At, Task
<1>3. ASSUME AbandonCheckpoints(j) PROVE Moves(j, "close_cps", {"show_new"})
  BY <1>3 DEF Moves, AbandonCheckpoints, Goto, At, Task
<1>4. ASSUME ShowNew(j) PROVE Moves(j, "show_new", {"insert_rec"})
  BY <1>4 DEF Moves, ShowNew, Goto, At, Task
<1>5. ASSUME InsertRecord(j) PROVE Moves(j, "insert_rec", {"open_cp"})
  BY <1>5 DEF Moves, InsertRecord, Goto, At, Task
<1>6. ASSUME OpenCheckpoint(j) PROVE Moves(j, "open_cp", {"insert_cp"})
  BY <1>6 DEF Moves, OpenCheckpoint, Goto, At, Task
<1>7. ASSUME InsertCheckpoint(j) PROVE Moves(j, "insert_cp", {"check"})
  BY <1>7 DEF Moves, InsertCheckpoint, ThreadStart, At, Task
<1>8. ASSUME Check(j) PROVE Moves(j, "check", {"show", "work", "mark", "gate"})
  BY <1>8 DEF Moves, Check, At, Task
<1>9. ASSUME Show(j) PROVE Moves(j, "show", {"work", "mark", "gate"})
  BY <1>9 DEF Moves, Show, At, Task
<1>10. ASSUME Work(j) PROVE Moves(j, "work", {"check", "gate"})
  BY <1>10 DEF Moves, Work, Report, Catch, At, Task
<1>11. ASSUME Mark(j) PROVE Moves(j, "mark", {"check", "gate"})
  BY <1>11 DEF Moves, Mark, Report, Catch, At, Task
<1>12. ASSUME Gate(j) PROVE Moves(j, "gate", {"end_rec", "ended"})
  BY <1>12 DEF Moves, Gate, Goto, End, At, Task
<1>13. ASSUME EndRecord(j) PROVE Moves(j, "end_rec", {"end_cp"})
  BY <1>13 DEF Moves, EndRecord, Goto, At, Task
<1>14. ASSUME EndCheckpoint(j) PROVE Moves(j, "end_cp", {"show_thrown", "ended"})
  BY <1>14 DEF Moves, EndCheckpoint, Goto, End, At, Task
<1>15. ASSUME ShowThrown(j) PROVE Moves(j, "show_thrown", {"ended"})
  BY <1>15 DEF Moves, ShowThrown, End, At, Task
<1>. QED BY <1>1, <1>2, <1>3, <1>4, <1>5, <1>6, <1>7, <1>8, <1>9, <1>10, <1>11, <1>12,
    <1>13, <1>14, <1>15

-----------------------------------------------------------------------------
(* One open checkpoint.                                                    *)

OneOpenInv == OneOpenCheckpoint /\ DownIsEmpty /\ SeenInterrupted

\* The steps that change no status of a checkpoint and open no transaction.
LEMMA OneOpenFrame ==
    ASSUME TypeOK, OneOpenInv,
           \A k \in Job : cp'[k].status = cp[k].status,
           \A k \in Job : At(k, "insert_cp")' => At(k, "insert_cp") /\ seen'[k] = seen[k]
    PROVE  (OneOpenCheckpoint /\ SeenInterrupted)'
BY DEF OneOpenInv, OneOpenCheckpoint, SeenInterrupted, Open

\* A step of a job comes while the process is up.
LEMMA DownJob ==
    ASSUME TypeOK, DownIsEmpty, NEW j \in Job, Handle(j) \/ Pull(j)
    PROVE  DownIsEmpty'
<1>1. ~At(j, "none") /\ UNCHANGED mainPc
  BY JobFrame DEF At, process
<1>. QED BY <1>1 DEF DownIsEmpty

LEMMA OneOpenHandle ==
    ASSUME TypeOK, OneOpenInv, NEW j \in Job, Handle(j)
    PROVE  (OneOpenCheckpoint /\ SeenInterrupted)'
<1>. USE DEF OneOpenInv
<1>k. \A k \in Job : k # j => task'[k] = task[k]
  BY JobFrame
<1>1. CASE Bump(j) \/ AbandonRecords(j) \/ ShowNew(j) \/ InsertRecord(j)
  <2>1. UNCHANGED <<cp, seen>> /\ ~At(j, "insert_cp")'
    BY <1>1, JobMoves DEF Moves, Bump, AbandonRecords, ShowNew, InsertRecord, At, tables
  <2>. QED BY <2>1, <1>k, OneOpenFrame DEF At
<1>2. CASE AbandonCheckpoints(j)
  <2>1. \A k \in Job : ~Open(k)' /\ cp'[k].status # "interrupted"
    BY <1>2 DEF AbandonCheckpoints, CloseCheckpoints, Open, TypeOK
  <2>. QED BY <2>1 DEF OneOpenCheckpoint, SeenInterrupted
<1>3. CASE OpenCheckpoint(j)
  <2>1. cp' = cp /\ seen' = [seen EXCEPT ![j] = {k \in Job : Open(k)}]
    BY <1>3 DEF OpenCheckpoint, tables
  <2>2. OneOpenCheckpoint'
    BY <2>1 DEF OneOpenCheckpoint, Open
  <2>3. \A k \in Job : cp[k].status = "interrupted" => k \in seen'[j]
    BY <2>1 DEF Open, TypeOK
  <2>4. \A i \in Job : i # j => seen'[i] = seen[i]
    BY <2>1 DEF TypeOK
  <2>. QED BY <2>1, <2>2, <2>3, <2>4, <1>k DEF SeenInterrupted, At
<1>4. CASE InsertCheckpoint(j)
  <2>1. ~At(j, "insert_cp")' /\ At(j, "insert_cp")
    BY <1>4, JobMoves DEF Moves, At
  <2>2. \A i \in Job : i # j => seen'[i] = seen[i]
    BY <1>4 DEF InsertCheckpoint, ThreadStart, TypeOK
  <2>3. CASE cp' = cp
    BY <2>1, <2>2, <2>3, <1>k, OneOpenFrame DEF At
  <2>4. CASE cp' # cp
    <3>1. /\ \A k \in Job \ seen[j] : cp[k].status # "running"
          /\ cp' = [k \in Job |-> IF k = j THEN [status |-> "running", stage |-> "start"]
                                  ELSE IF k \in seen[j] /\ Open(k)
                                  THEN [cp[k] EXCEPT !.status = "failed"] ELSE cp[k]]
      BY <1>4, <2>4 DEF InsertCheckpoint
    <3>2. \A k \in Job : Open(k) => k \in seen[j]
      BY <3>1, <2>1 DEF SeenInterrupted, Open
    <3>3. \A k \in Job : k # j => ~Open(k)'
      <4>. SUFFICES ASSUME NEW k \in Job, k # j PROVE cp'[k].status \notin {"running", "interrupted"}
        BY DEF Open
      <4>1. CASE Open(k)
        BY <4>1, <3>1, <3>2 DEF TypeOK
      <4>2. CASE ~Open(k)
        BY <4>2, <3>1 DEF Open
      <4>. QED BY <4>1, <4>2
    <3>4. cp'[j].status = "running"
      BY <3>1
    <3>. QED BY <3>3, <3>4 DEF OneOpenCheckpoint, SeenInterrupted, Open
  <2>. QED BY <2>3, <2>4
<1>. QED BY <1>1, <1>2, <1>3, <1>4 DEF Handle

LEMMA OneOpenPull ==
    ASSUME TypeOK, OneOpenInv, NEW j \in Job, Pull(j)
    PROVE  (OneOpenCheckpoint /\ SeenInterrupted)'
<1>. USE DEF OneOpenInv
<1>k. \A k \in Job : k # j => task'[k] = task[k]
  BY JobFrame
<1>s. seen' = seen /\ ~At(j, "insert_cp")'
  BY JobMoves
      DEF Moves, Pull, Check, Show, Work, Mark, Gate, EndRecord, EndCheckpoint, ShowThrown, At
<1>1. CASE Check(j) \/ Show(j) \/ Work(j) \/ Gate(j) \/ EndRecord(j) \/ ShowThrown(j)
  <2>1. cp' = cp
    BY <1>1 DEF Check, Show, Work, Gate, EndRecord, ShowThrown, tables
  <2>. QED BY <2>1, <1>k, <1>s, OneOpenFrame DEF At
<1>2. CASE Mark(j)
  <2>1. \A k \in Job : cp'[k].status = cp[k].status
    BY <1>2 DEF Mark, UpdateCheckpoint, TypeOK
  <2>. QED BY <2>1, <1>k, <1>s, OneOpenFrame DEF At
<1>3. CASE EndCheckpoint(j)
  <2>1. PICK to \in {"none", "done", "failed"} : cp' = [cp EXCEPT ![j].status = to]
    BY <1>3 DEF EndCheckpoint, FinishCheckpoint, Outcome
  <2>2. \A k \in Job : k # j => cp'[k] = cp[k]
    BY <2>1 DEF TypeOK
  <2>3. cp'[j].status \notin {"running", "interrupted"}
    BY <2>1 DEF TypeOK
  <2>. QED BY <2>2, <2>3, <1>k, <1>s DEF OneOpenCheckpoint, SeenInterrupted, Open, At
<1>. QED BY <1>1, <1>2, <1>3 DEF Pull

LEMMA ReceiveTask ==
    ASSUME TypeOK, IdBound, PostPull \/ ResumePost
    PROVE  /\ \A k \in Job : k # ids + 1 => task'[k] = task[k]
           /\ task'[ids + 1].at = "bump" /\ task'[ids + 1].gen = task[ids + 1].gen
           /\ UNCHANGED <<gen, shown, rec, cp, seen, resetPc>> /\ ids' = ids + 1
<1>1. /\ task' = [task EXCEPT ![ids + 1].at = "bump"] /\ ids' = ids + 1
      /\ UNCHANGED <<gen, shown, rec, cp, seen, resetPc>>
  BY DEF PostPull, ResumePost, Receive, tables
<1>. QED BY <1>1, NewJob DEF TypeOK, Task

LEMMA OneOpenStep ==
    ASSUME TypeOK, IdBound, OneOpenInv, [Next]_vars
    PROVE  OneOpenInv'
<1>. USE DEF OneOpenInv
<1>1. CASE \E j \in Job : Handle(j) \/ Pull(j)
  BY <1>1, OneOpenHandle, OneOpenPull, DownJob
<1>2. CASE PostPull \/ ResumePost
  <2>1. mainPc # "down" /\ mainPc' # "down"
    BY <1>2 DEF PostPull, ResumePost
  <2>. QED BY <1>2, <2>1, ReceiveTask, OneOpenFrame DEF At, DownIsEmpty
<1>3. CASE Reset \/ ResetShown \/ ResetGeneration \/ FindUnfinished
  <2>1. UNCHANGED <<cp, seen, task>>
    BY <1>3 DEF Reset, ResetShown, ResetGeneration, FindUnfinished, tables
  <2>2. mainPc' # mainPc => mainPc' # "down"
    BY <1>3 DEF Reset, ResetShown, ResetGeneration, FindUnfinished, process
  <2>. QED BY <2>1, <2>2, OneOpenFrame DEF At, DownIsEmpty
<1>4. CASE ResetCheckpoints
  <2>1. \A k \in Job : ~Open(k)' /\ cp'[k].status # "interrupted"
    BY <1>4 DEF ResetCheckpoints, CloseCheckpoints, Open, TypeOK
  <2>2. UNCHANGED <<mainPc, task>>
    BY <1>4 DEF ResetCheckpoints, process
  <2>. QED BY <2>1, <2>2 DEF OneOpenCheckpoint, SeenInterrupted, DownIsEmpty, At
<1>5. CASE ProcessEnds
  <2>1. cp' = cp /\ \A k \in Job : task'[k].at = "none"
    BY <1>5 DEF ProcessEnds, tables, NoTask
  <2>. QED BY <2>1, OneOpenFrame DEF At, DownIsEmpty
<1>6. CASE Restart
  <2>1. task' = task /\ mainPc = "down" /\ mainPc' # "down"
    BY <1>6 DEF Restart
  <2>2. \A k \in Job : Open(k)' => Open(k)
    BY <1>6 DEF Restart, Open, TypeOK
  <2>. QED BY <2>1, <2>2 DEF OneOpenCheckpoint, SeenInterrupted, DownIsEmpty, At
<1>7. CASE UNCHANGED vars
  BY <1>7, OneOpenFrame DEF vars, process, tables, DownIsEmpty, At
<1>. QED BY <1>1, <1>2, <1>3, <1>4, <1>5, <1>6, <1>7 DEF Next, Resetting, Life

\* There is never more than one open checkpoint: the index keeps two starts
\* from both inserting, and the first statement of a start closes what is
\* interrupted, which is always older than the start.
THEOREM OneOpenAtATime == Spec => []OneOpenCheckpoint
<1>1. Init => OneOpenInv
  BY
      DEF Init, OneOpenInv, OneOpenCheckpoint, DownIsEmpty, SeenInterrupted, Open, At, NoTask,
          NoCheckpoint
<1>2. TypeOK /\ IdBound /\ OneOpenInv /\ [Next]_vars => OneOpenInv'
  BY OneOpenStep
<1>3. OneOpenInv => OneOpenCheckpoint
  BY DEF OneOpenInv
<1>. QED BY <1>1, <1>2, <1>3, TypeCorrect, PTL DEF Spec

-----------------------------------------------------------------------------
(* What any step may do to the task and the rows of one job.               *)

JobStep(k) == Handle(k) \/ Pull(k)

LEMMA StepCases ==
    ASSUME [Next]_vars
    PROVE  \/ \E j \in Job : JobStep(j)
           \/ PostPull \/ ResumePost \/ Reset \/ ResetCheckpoints \/ ResetShown \/ ResetGeneration
           \/ ProcessEnds \/ Restart \/ FindUnfinished \/ UNCHANGED vars
BY DEF Next, Resetting, Life, JobStep

LEMMA TaskSteps ==
    ASSUME TypeOK, IdBound, [Next]_vars, NEW k \in Job
    PROVE  \/ task'[k] = task[k]
           \/ JobStep(k)
           \/ (PostPull \/ ResumePost) /\ k = ids + 1
           \/ ProcessEnds /\ task'[k] = NoTask
<1>1. ASSUME NEW j \in Job, JobStep(j), j # k PROVE task'[k] = task[k]
  BY <1>1, JobFrame DEF JobStep
<1>2. ASSUME PostPull \/ ResumePost PROVE task'[k] = task[k] \/ k = ids + 1
  BY <1>2, ReceiveTask
<1>3. Reset \/ ResetCheckpoints \/ ResetShown \/ ResetGeneration \/ Restart \/ FindUnfinished
        \/ UNCHANGED vars => task' = task
  BY DEF Reset, ResetCheckpoints, ResetShown, ResetGeneration, Restart, FindUnfinished, vars
<1>4. ProcessEnds => task'[k] = NoTask
  BY DEF ProcessEnds
<1>. QED BY <1>1, <1>2, <1>3, <1>4, StepCases

\* Records: only their own job opens and ends them, otherwise they are closed.
LEMMA RecSteps ==
    ASSUME TypeOK, IdBound, [Next]_vars, NEW k \in Job, ~InsertRecord(k), ~EndRecord(k)
    PROVE  rec'[k] = rec[k] \/ (rec[k] = "running" /\ rec'[k] \in {"failed", "interrupted"})
<1>. rec \in [Job -> RowStatus]
  BY DEF TypeOK
<1>1. ASSUME NEW j \in Job, JobStep(j)
      PROVE  rec'[k] = rec[k] \/ (rec[k] = "running" /\ rec'[k] = "failed")
  <2>1. CASE AbandonRecords(j)
    BY <2>1 DEF AbandonRecords, CloseRecords
  <2>2. CASE InsertRecord(j)
    <3>1. j # k /\ rec' = [rec EXCEPT ![j] = "running"]
      BY <2>2 DEF InsertRecord
    <3>. QED BY <3>1
  <2>3. CASE EndRecord(j)
    <3>1. j # k
      BY <2>3
    <3>2. rec' = [rec EXCEPT ![j] = IF rec[j] = "none" THEN rec[j] ELSE Outcome(j)]
      BY <2>3 DEF EndRecord, FinishRecord
    <3>. QED BY <3>1, <3>2
  <2>4. CASE ~AbandonRecords(j) /\ ~InsertRecord(j) /\ ~EndRecord(j)
    BY <1>1, <2>4 DEF JobStep, Handle, Pull, Bump, AbandonCheckpoints, ShowNew, OpenCheckpoint,
       InsertCheckpoint, Check, Show, Work, Mark, Gate, EndCheckpoint, ShowThrown, tables
  <2>. QED BY <2>1, <2>2, <2>3, <2>4
<1>2. CASE Reset \/ Restart
  BY <1>2 DEF Reset, Restart, CloseRecords
<1>3. CASE PostPull \/ ResumePost
  BY <1>3, ReceiveTask
<1>4. CASE \/ ResetCheckpoints \/ ResetShown \/ ResetGeneration
           \/ ProcessEnds \/ FindUnfinished \/ UNCHANGED vars
  BY <1>4
      DEF ResetCheckpoints, ResetShown, ResetGeneration, ProcessEnds, FindUnfinished, vars,
          tables
<1>. QED BY <1>1, <1>2, <1>3, <1>4, StepCases

\* Checkpoints: likewise.
LEMMA CpSteps ==
    ASSUME TypeOK, IdBound, [Next]_vars, NEW k \in Job, ~InsertCheckpoint(k), ~EndCheckpoint(k)
    PROVE  \/ cp'[k].status = cp[k].status
           \/ Open(k) /\ cp'[k].status \in {"failed", "interrupted"}
<1>. cp \in [Job -> [status : RowStatus, stage : Stages]]
  BY DEF TypeOK
<1>1. ASSUME NEW j \in Job, JobStep(j)
      PROVE  cp'[k].status = cp[k].status \/ (Open(k) /\ cp'[k].status = "failed")
  <2>1. CASE AbandonCheckpoints(j)
    BY <2>1 DEF AbandonCheckpoints, CloseCheckpoints
  <2>2. CASE InsertCheckpoint(j)
    BY <2>2 DEF InsertCheckpoint
  <2>3. CASE EndCheckpoint(j)
    <3>1. j # k /\ cp' = [cp EXCEPT ![j].status = IF cp[j].status = "none" THEN cp[j].status ELSE Outcome(j)]
      BY <2>3 DEF EndCheckpoint, FinishCheckpoint
    <3>. QED BY <3>1
  <2>4. CASE Mark(j)
    BY <2>4 DEF Mark, UpdateCheckpoint
  <2>5. CASE ~AbandonCheckpoints(j) /\ ~InsertCheckpoint(j) /\ ~EndCheckpoint(j) /\ ~Mark(j)
    BY <1>1, <2>5
        DEF JobStep, Handle, Pull, Bump, AbandonRecords, ShowNew, InsertRecord, OpenCheckpoint,
       Check, Show, Work, Gate, EndRecord, ShowThrown, tables
  <2>. QED BY <2>1, <2>2, <2>3, <2>4, <2>5
<1>2. CASE ResetCheckpoints
  BY <1>2 DEF ResetCheckpoints, CloseCheckpoints
<1>3. CASE Restart
  BY <1>3 DEF Restart, Open
<1>4. CASE PostPull \/ ResumePost
  BY <1>4, ReceiveTask
<1>5. CASE Reset \/ ResetShown \/ ResetGeneration \/ ProcessEnds \/ FindUnfinished \/ UNCHANGED vars
  BY <1>5 DEF Reset, ResetShown, ResetGeneration, ProcessEnds, FindUnfinished, vars, tables
<1>. QED BY <1>1, <1>2, <1>3, <1>4, <1>5, StepCases

LEMMA GenSteps ==
    ASSUME TypeOK, IdBound, [Next]_vars
    PROVE  \/ gen' = gen
           \/ gen' = gen + 1 /\ (ResetGeneration \/ \E j \in Job : Bump(j))
           \/ ProcessEnds
<1>1. ASSUME NEW j \in Job, JobStep(j) PROVE gen' = gen \/ (gen' = gen + 1 /\ Bump(j))
  BY <1>1, JobMoves DEF Moves, JobStep, Handle, Pull
<1>2. ResetGeneration => gen' = gen + 1
  BY DEF ResetGeneration
<1>3. PostPull \/ ResumePost => gen' = gen
  BY ReceiveTask
<1>4. Reset \/ ResetCheckpoints \/ ResetShown \/ Restart \/ FindUnfinished \/ UNCHANGED vars => gen' = gen
  BY DEF Reset, ResetCheckpoints, ResetShown, Restart, FindUnfinished, vars
<1>. QED BY <1>1, <1>2, <1>3, <1>4, StepCases

\* A job gets its generation from Bump and keeps it while the process lives.
LEMMA NumberedSteps ==
    ASSUME TypeOK, IdBound, [Next]_vars, NEW k \in Job, k \in Numbered'
    PROVE  (k \in Numbered /\ task'[k].gen = task[k].gen /\ ~ProcessEnds) \/ Bump(k)
<1>0. task'[k].at \notin {"none", "bump"}
  BY DEF Numbered
<1>1. ~ProcessEnds
  BY <1>0 DEF ProcessEnds, NoTask
<1>2. CASE task'[k] = task[k]
  BY <1>0, <1>1, <1>2 DEF Numbered
<1>3. CASE JobStep(k)
  BY <1>1, <1>3, JobMoves DEF Moves, JobStep, Handle, Pull, Numbered, At
<1>4. CASE (PostPull \/ ResumePost) /\ k = ids + 1
  BY <1>0, <1>4, ReceiveTask
<1>. QED BY <1>1, <1>2, <1>3, <1>4, TaskSteps

LEMMA GenStep ==
    ASSUME TypeOK, IdBound, GenOrder, [Next]_vars
    PROVE  GenOrder'
<1>g. gen \in Nat /\ \A k \in Job : task[k].gen \in Nat
  BY FieldTypes DEF TypeOK
<1>1. ASSUME NEW k \in Job PROVE task'[k].gen =< gen'
  <2>1. CASE ProcessEnds
    BY <2>1 DEF ProcessEnds, NoTask
  <2>2. CASE Bump(k)
    BY <2>2, <1>g, JobMoves DEF Moves
  <2>3. CASE ~ProcessEnds /\ ~Bump(k)
    <3>1. task'[k].gen = task[k].gen
      BY <2>3, TaskSteps, ReceiveTask, JobMoves DEF Moves, JobStep, Handle, Pull
    <3>2. gen' = gen \/ gen' = gen + 1
      BY <2>3, GenSteps
    <3>. QED BY <3>1, <3>2, <1>g DEF GenOrder
  <2>. QED BY <2>1, <2>2, <2>3
<1>2. ASSUME NEW i \in Numbered', NEW k \in Numbered', task'[i].gen = task'[k].gen PROVE i = k
  <2>0. i \in Job /\ k \in Job
    BY DEF Numbered
  <2>1. ASSUME NEW x \in Job, Bump(x) PROVE /\ task'[x].gen = gen + 1
                                            /\ \A y \in Job : y # x => task'[y].gen = task[y].gen /\ ~Bump(y)
    BY <2>1, JobMoves, JobFrame DEF Moves, Handle, At
  <2>2. CASE Bump(i) \/ Bump(k)
    BY <2>0, <2>1, <2>2, <1>2, <1>g DEF GenOrder
  <2>3. CASE ~Bump(i) /\ ~Bump(k)
    BY <2>0, <2>3, <1>2, NumberedSteps DEF GenOrder
  <2>. QED BY <2>2, <2>3
<1>. QED BY <1>1, <1>2 DEF GenOrder

-----------------------------------------------------------------------------
(* The newest pull closes its record.                                      *)

LEMMA RecordClosedStep ==
    ASSUME TypeOK, IdBound, RecordClosed, [Next]_vars
    PROVE  RecordClosed'
<1>. SUFFICES ASSUME NEW k \in Job, task'[k].at \in {"end_cp", "show_thrown"} PROVE rec'[k] # "running"
  BY DEF RecordClosed
<1>1. CASE InsertRecord(k)
  BY <1>1, JobMoves DEF Moves
<1>2. CASE EndRecord(k)
  BY <1>2 DEF EndRecord, FinishRecord, Outcome, TypeOK
<1>3. CASE ~InsertRecord(k) /\ ~EndRecord(k)
  <2>1. task[k].at \in {"end_cp", "show_thrown"}
    BY <1>3, TaskSteps, ReceiveTask, JobMoves DEF Moves, JobStep, Handle, Pull, At, NoTask
  <2>. QED BY <2>1, <1>3, RecSteps DEF RecordClosed
<1>. QED BY <1>1, <1>2, <1>3

LEMMA NewestStep ==
    ASSUME TypeOK, IdBound, GenOrder, RecordClosed, NewestIsClosed, [Next]_vars
    PROVE  NewestIsClosed'
<1>. SUFFICES ASSUME NEW k \in Job, task'[k].at = "ended", task'[k].gen = gen' PROVE rec'[k] # "running"
  BY DEF NewestIsClosed, At, Current
<1>g. gen \in Nat /\ task[k].gen \in Nat /\ task[k].gen =< gen
  BY FieldTypes DEF TypeOK, GenOrder
<1>1. ~InsertRecord(k) /\ ~EndRecord(k) /\ ~ProcessEnds
  BY JobMoves DEF Moves, ProcessEnds, NoTask
<1>2. CASE task'[k] = task[k]
  <2>1. gen' = gen
    BY <1>1, <1>2, <1>g, GenSteps
  <2>. QED BY <2>1, <1>1, <1>2, RecSteps DEF NewestIsClosed, At, Current
<1>3. CASE JobStep(k)
  <2>1. Gate(k) \/ EndCheckpoint(k) \/ ShowThrown(k)
    BY <1>3, JobMoves DEF Moves, JobStep, Handle, Pull
  <2>2. CASE Gate(k)
    <3>1. ~Current(k)
      <4>1. Goto(k, "gate", "end_rec") => task'[k].at = "end_rec"
        BY DEF Goto, TypeOK, Task
      <4>. QED BY <2>2, <4>1 DEF Gate
    <3>. QED BY <2>2, <3>1, JobMoves DEF Moves, Current
  <2>3. CASE EndCheckpoint(k) \/ ShowThrown(k)
    <3>1. task[k].at \in {"end_cp", "show_thrown"}
      BY <2>3, JobMoves DEF Moves, At
    <3>. QED BY <3>1, <1>1, RecSteps DEF RecordClosed
  <2>. QED BY <2>1, <2>2, <2>3
<1>4. CASE (PostPull \/ ResumePost) /\ k = ids + 1
  BY <1>4, ReceiveTask
<1>. QED BY <1>1, <1>2, <1>3, <1>4, TaskSteps

\* A pull that ended as the newest has closed its record, on every way out:
\* whoever leaves it open was superseded first, and generations never return.
THEOREM NewestClosesItsRecord == Spec => []NewestIsClosed
<1>. DEFINE Inv == GenOrder /\ RecordClosed /\ NewestIsClosed
<1>1. Init => Inv
  BY DEF Init, GenOrder, RecordClosed, NewestIsClosed, Numbered, At, NoTask
<1>2. TypeOK /\ IdBound /\ Inv /\ [Next]_vars => Inv'
  BY GenStep, RecordClosedStep, NewestStep
<1>3. Inv => NewestIsClosed
  OBVIOUS
<1>. QED BY <1>1, <1>2, <1>3, TypeCorrect, PTL DEF Spec

-----------------------------------------------------------------------------
(* What is done is recorded.                                               *)

DoneInv == Unused /\ Recorded /\ RecordDone /\ DoneIsRecorded

LEMMA UnusedStep ==
    ASSUME TypeOK, IdBound, Unused, [Next]_vars
    PROVE  Unused'
<1>. SUFFICES ASSUME NEW k \in Job, k > ids'
              PROVE  task'[k].at = "none" /\ rec'[k] = "none" /\ cp'[k].status = "none"
  BY DEF Unused, At
<1>1. ids' = ids \/ (ids' = ids + 1 /\ (PostPull \/ ResumePost))
  <2>1. \A j \in Job : JobStep(j) => ids' = ids
    BY JobFrame DEF JobStep, process
  <2>. QED BY <2>1, StepCases, ReceiveTask DEF Reset, ResetCheckpoints, ResetShown, ResetGeneration,
         ProcessEnds, Restart, FindUnfinished, vars, process
<1>2. /\ k # ids + 1 \/ ~(PostPull \/ ResumePost)
      /\ k > ids
  BY <1>1, ReceiveTask, JobType DEF TypeOK
<1>3. task[k].at = "none" /\ rec[k] = "none" /\ cp[k].status = "none"
  BY <1>2 DEF Unused, At
<1>4. ~JobStep(k)
  BY <1>3, JobFrame DEF JobStep
<1>5. ~InsertRecord(k) /\ ~EndRecord(k) /\ ~InsertCheckpoint(k) /\ ~EndCheckpoint(k)
  BY <1>4 DEF JobStep, Handle, Pull
<1>6. task'[k].at = "none"
  BY <1>2, <1>3, <1>4, TaskSteps DEF NoTask
<1>. QED BY <1>3, <1>5, <1>6, RecSteps, CpSteps DEF Open

LEMMA RecordedStep ==
    ASSUME TypeOK, IdBound, Unused, Recorded, [Next]_vars
    PROVE  Recorded'
<1>p. /\ HandlerPoints = {"bump", "close_recs", "close_cps", "show_new", "insert_rec", "open_cp", "insert_cp"}
      /\ ThreadPoints = {"check", "show", "work", "mark", "gate", "end_rec", "end_cp", "show_thrown"}
  BY DEF HandlerPoints, ThreadPoints
<1>1. ASSUME NEW k \in Job, Working(k)' \/ task'[k].at \in {"open_cp", "insert_cp", "show_thrown"}
      PROVE  rec'[k] # "none"
  <2>1. CASE InsertRecord(k)
    BY <2>1 DEF InsertRecord, TypeOK
  <2>2. CASE EndRecord(k)
    <3>1. rec[k] # "none"
      BY <2>2, JobMoves, <1>p DEF Moves, Recorded, Working, At
    <3>. QED BY <2>2, <3>1 DEF EndRecord, FinishRecord, Outcome, TypeOK
  <2>3. CASE ~InsertRecord(k) /\ ~EndRecord(k)
    <3>1. Working(k) \/ task[k].at \in {"open_cp", "insert_cp", "show_thrown"}
      BY <1>1, <1>p, <2>3, TaskSteps, ReceiveTask, JobMoves
          DEF Moves, JobStep, Handle, Pull, At, NoTask, Working
    <3>. QED BY <3>1, <2>3, RecSteps DEF Recorded
  <2>. QED BY <2>1, <2>2, <2>3
<1>2. ASSUME NEW k \in Job, Working(k)' \/ task'[k].at \in HandlerPoints
      PROVE  cp'[k].status # "done"
  <2>0. ~EndCheckpoint(k)
    BY <1>2, <1>p, JobMoves DEF Moves, Working
  <2>1. CASE InsertCheckpoint(k)
    <3>1. cp[k].status # "done"
      BY <2>1, JobMoves, <1>p DEF Moves, Recorded, At
    <3>. QED BY <2>1, <3>1 DEF InsertCheckpoint, TypeOK
  <2>2. CASE (PostPull \/ ResumePost) /\ k = ids + 1
    <3>1. k > ids
      BY <2>2 DEF TypeOK
    <3>. QED BY <2>2, <3>1, ReceiveTask DEF Unused
  <2>3. CASE ~InsertCheckpoint(k) /\ ~((PostPull \/ ResumePost) /\ k = ids + 1)
    <3>1. Working(k) \/ task[k].at \in HandlerPoints
      BY <1>2, <1>p, <2>0, <2>3, TaskSteps, JobMoves
          DEF Moves, JobStep, Handle, Pull, At, NoTask, Working
    <3>. QED BY <3>1, <2>0, <2>3, CpSteps DEF Recorded
  <2>. QED BY <2>1, <2>2, <2>3
<1>. QED BY <1>1, <1>2 DEF Recorded, Working

LEMMA DoneStep ==
    ASSUME TypeOK, IdBound, Recorded, RecordDone, DoneIsRecorded, [Next]_vars
    PROVE  (RecordDone /\ DoneIsRecorded)'
<1>p. /\ HandlerPoints = {"bump", "close_recs", "close_cps", "show_new", "insert_rec", "open_cp", "insert_cp"}
      /\ ThreadPoints = {"check", "show", "work", "mark", "gate", "end_rec", "end_cp", "show_thrown"}
  BY DEF HandlerPoints, ThreadPoints
<1>1. ASSUME NEW k \in Job, task'[k].at = "end_cp", task'[k].report = "imported" PROVE rec'[k] = "done"
  <2>1. CASE EndRecord(k)
    <3>1. rec[k] # "none"
      BY <2>1, JobMoves, <1>p DEF Moves, Recorded, Working, At
    <3>2. task'[k].report = task[k].report
      BY <2>1 DEF EndRecord, Goto, TypeOK, Task
    <3>. QED BY <1>1, <2>1, <3>1, <3>2 DEF EndRecord, FinishRecord, Outcome, TypeOK
  <2>2. CASE ~EndRecord(k)
    <3>1. task'[k] = task[k] /\ ~InsertRecord(k)
      BY <1>1, <2>2, TaskSteps, ReceiveTask, JobMoves DEF Moves, JobStep, Handle, Pull, NoTask
    <3>. QED BY <1>1, <3>1, <2>2, RecSteps DEF RecordDone, At
  <2>. QED BY <2>1, <2>2
<1>2. ASSUME NEW k \in Job, cp'[k].status = "done" PROVE rec'[k] = "done"
  <2>1. CASE EndCheckpoint(k) /\ cp[k].status # "done"
    <3>1. Outcome(k) = "done"
      BY <1>2, <2>1 DEF EndCheckpoint, FinishCheckpoint, TypeOK
    <3>2. At(k, "end_cp") /\ task[k].report = "imported" /\ rec' = rec
      BY <2>1, <3>1 DEF EndCheckpoint, Outcome
    <3>. QED BY <3>2 DEF RecordDone
  <2>2. CASE ~EndCheckpoint(k) \/ cp[k].status = "done"
    <3>1. cp[k].status = "done"
      <4>1. CASE InsertCheckpoint(k)
        BY <1>2, <4>1 DEF InsertCheckpoint, TypeOK
      <4>2. CASE ~InsertCheckpoint(k)
        BY <1>2, <2>2, <4>2, CpSteps
      <4>. QED BY <4>1, <4>2
    <3>2. ~InsertRecord(k) /\ ~EndRecord(k)
      BY <3>1, <1>p, JobMoves DEF Moves, Recorded, Working, At
    <3>. QED BY <3>1, <3>2, RecSteps DEF DoneIsRecorded
  <2>. QED BY <2>1, <2>2
<1>. QED BY <1>1, <1>2 DEF RecordDone, DoneIsRecorded, At

\* A checkpoint says "done" only beside a record that does: the record is
\* written first, and nothing reopens or overwrites a closed one.
THEOREM DoneStaysRecorded == Spec => []DoneIsRecorded
<1>1. Init => DoneInv
  <2>. SUFFICES ASSUME Init PROVE DoneInv
    OBVIOUS
  <2>1. \A k \in Job : task[k].at = "none" /\ rec[k] = "none" /\ cp[k].status = "none"
    BY DEF Init, NoTask, NoCheckpoint
  <2>. QED BY <2>1 DEF DoneInv, Unused, Recorded, RecordDone, DoneIsRecorded, At, Working,
         HandlerPoints, ThreadPoints
<1>2. TypeOK /\ IdBound /\ DoneInv /\ [Next]_vars => DoneInv'
  BY UnusedStep, RecordedStep, DoneStep DEF DoneInv
<1>3. DoneInv => DoneIsRecorded
  BY DEF DoneInv
<1>. QED BY <1>1, <1>2, <1>3, TypeCorrect, PTL DEF Spec

-----------------------------------------------------------------------------
(* A working pull can be resumed.                                          *)

LEMMA WorkingPoints ==
    \A k \in Job : Working(k) <=> task[k].at \in {"check", "show", "work", "mark", "gate", "end_rec", "end_cp"}
BY DEF Working, ThreadPoints

\* Whoever works as the newest after a step worked as the newest before it,
\* unless the step was its start.
LEMMA WorkingSteps ==
    ASSUME TypeOK, IdBound, GenOrder, [Next]_vars, NEW i \in Job, Working(i)', Current(i)'
    PROVE  /\ (Working(i) /\ ~InsertCheckpoint(i)) \/ InsertCheckpoint(i)
           /\ Current(i) /\ gen' = gen /\ task'[i].gen = task[i].gen /\ ~ProcessEnds
           /\ i \in Numbered /\ i \in Numbered'
<1>w. task'[i].at \in {"check", "show", "work", "mark", "gate", "end_rec", "end_cp"}
  BY DEF Working, ThreadPoints
<1>1. i \in Numbered'
  BY <1>w DEF Numbered
<1>2. ~Bump(i)
  BY <1>w, JobMoves DEF Moves
<1>3. i \in Numbered /\ task'[i].gen = task[i].gen /\ ~ProcessEnds
  BY <1>1, <1>2, NumberedSteps
<1>4. gen' = gen
  BY <1>3, GenSteps, FieldTypes DEF GenOrder, Current, TypeOK
<1>5. Working(i) \/ InsertCheckpoint(i)
  BY <1>w, <1>3, TaskSteps, ReceiveTask, JobMoves, WorkingPoints
      DEF Moves, JobStep, Handle, Pull, At
<1>. QED BY <1>1, <1>3, <1>4, <1>5 DEF Current

LEMMA SeenSteps ==
    ASSUME TypeOK, IdBound, [Next]_vars, NEW i \in Job, ~ProcessEnds, ~OpenCheckpoint(i), ~InsertCheckpoint(i)
    PROVE  seen'[i] = seen[i]
<1>1. ASSUME NEW j \in Job, JobStep(j) PROVE seen'[i] = seen[i]
  <2>1. CASE OpenCheckpoint(j) \/ InsertCheckpoint(j)
    <3>1. j # i
      BY <2>1
    <3>2. \E x : seen' = [seen EXCEPT ![j] = x]
      BY <2>1 DEF OpenCheckpoint, InsertCheckpoint, ThreadStart
    <3>. QED BY <3>1, <3>2 DEF TypeOK
  <2>2. CASE ~OpenCheckpoint(j) /\ ~InsertCheckpoint(j)
    BY <1>1, <2>2 DEF JobStep, Handle, Pull, Bump, AbandonRecords, AbandonCheckpoints, ShowNew,
       InsertRecord, Check, Show, Work, Mark, Gate, EndRecord, EndCheckpoint, ShowThrown
  <2>. QED BY <2>1, <2>2
<1>2. PostPull \/ ResumePost => seen' = seen
  BY ReceiveTask
<1>3. Reset \/ ResetCheckpoints \/ ResetShown \/ ResetGeneration \/ Restart \/ FindUnfinished
        \/ UNCHANGED vars => seen' = seen
  BY DEF Reset, ResetCheckpoints, ResetShown, ResetGeneration, Restart, FindUnfinished, vars
<1>. QED BY <1>1, <1>2, <1>3, StepCases

LEMMA LateEndStep ==
    ASSUME TypeOK, IdBound, OneOpenCheckpoint, GenOrder, LateEnd, [Next]_vars
    PROVE  LateEnd'
<1>. SUFFICES ASSUME NEW i \in Job, NEW j \in Job, i # j, task'[j].at \in {"end_rec", "end_cp"},
                     cp'[j].status = "running", i \in Numbered', task'[i].gen = gen'
              PROVE  ~Working(i)' /\ (task'[i].at = "insert_cp" => j \in seen'[i])
  BY DEF LateEnd, Working, At, Current
<1>j. /\ ~InsertCheckpoint(j) /\ ~EndCheckpoint(j) /\ ~ProcessEnds
      /\ cp[j].status = "running"
  <2>1. ~InsertCheckpoint(j) /\ ~EndCheckpoint(j) /\ ~ProcessEnds
    BY JobMoves DEF Moves, ProcessEnds, NoTask
  <2>. QED BY <2>1, CpSteps
<1>b. CASE Bump(i)
  <2>1. task'[i].at = "close_recs"
    BY <1>b, JobMoves DEF Moves
  <2>. QED BY <2>1 DEF Working, ThreadPoints
<1>n. CASE ~Bump(i)
  <2>1. i \in Numbered /\ task'[i].gen = task[i].gen
    BY <1>n, NumberedSteps
  <2>2. gen' = gen /\ Current(i)
    BY <1>j, <2>1, GenSteps, FieldTypes DEF GenOrder, Current, TypeOK
  <2>3. ~Gate(j)
    <3>1. ASSUME Gate(j) PROVE FALSE
      <4>1. Current(j)
        <5>1. End(j) => task'[j].at = "ended"
          BY DEF End, TypeOK
        <5>. QED BY <3>1, <5>1 DEF Gate
      <4>2. j \in Numbered
        BY <3>1, JobMoves DEF Moves, Numbered, At
      <4>. QED BY <2>1, <2>2, <4>1, <4>2 DEF GenOrder, Current
    <3>. QED BY <3>1
  <2>4. task[j].at \in {"end_rec", "end_cp"}
    BY <1>j, <2>3, TaskSteps, ReceiveTask, JobMoves DEF Moves, JobStep, Handle, Pull, At
  <2>5. ~Working(i) /\ (At(i, "insert_cp") => j \in seen[i])
    BY <1>j, <2>1, <2>2, <2>4 DEF LateEnd
  <2>6. CASE InsertCheckpoint(i)
    <3>1. At(i, "insert_cp") /\ j \in seen[i]
      BY <2>5, <2>6, JobMoves DEF Moves
    <3>2. ~\E k \in Job \ seen[i] : cp[k].status = "running"
      BY <1>j, <3>1 DEF OneOpenCheckpoint, Open
    <3>3. cp'[j].status = "failed"
      <4>1. cp' = [k \in Job |-> IF k = i THEN [status |-> "running", stage |-> "start"]
                                 ELSE IF k \in seen[i] /\ Open(k)
                                 THEN [cp[k] EXCEPT !.status = "failed"] ELSE cp[k]]
        BY <2>6, <3>2 DEF InsertCheckpoint
      <4>. QED BY <1>j, <3>1, <4>1 DEF Open, TypeOK
    <3>. QED BY <3>3
  <2>7. CASE OpenCheckpoint(i)
    <3>1. seen'[i] = {k \in Job : Open(k)} /\ task'[i].at = "insert_cp"
      BY <2>7, JobMoves DEF Moves, OpenCheckpoint, TypeOK
    <3>. QED BY <1>j, <3>1 DEF Open, Working, ThreadPoints
  <2>8. CASE ~InsertCheckpoint(i) /\ ~OpenCheckpoint(i)
    <3>1. seen'[i] = seen[i]
      BY <1>j, <2>8, SeenSteps
    <3>2. ~Working(i)'
      BY <2>2, <2>5, <2>8, WorkingSteps DEF Current
    <3>3. task'[i].at = "insert_cp" => At(i, "insert_cp")
      BY <1>j, <2>8, TaskSteps, ReceiveTask, JobMoves DEF Moves, JobStep, Handle, Pull, At
    <3>. QED BY <2>5, <3>1, <3>2, <3>3
  <2>. QED BY <2>6, <2>7, <2>8
<1>. QED BY <1>b, <1>n

LEMMA LiveStep ==
    ASSUME TypeOK, IdBound, OneOpenCheckpoint, DownIsEmpty, Unused, GenOrder, LateEnd,
           LivePullIsResumable, [Next]_vars
    PROVE  LivePullIsResumable'
<1>. SUFFICES ASSUME NEW i \in Job, Working(i)', Current(i)'
              PROVE  \/ \E k \in Job : cp'[k].status = "running"
                     \/ \E k \in Job : k \in Between'
                     \/ resetPc' \in {"clear", "bump"}
  BY DEF LivePullIsResumable, Working, Between
<1>i. /\ Working(i) \/ InsertCheckpoint(i)
      /\ Current(i) /\ gen' = gen /\ ~ProcessEnds /\ i \in Numbered
  BY WorkingSteps
<1>1. ASSUME NEW j \in Job, InsertCheckpoint(j) PROVE \E k \in Job : cp'[k].status = "running"
  <2>1. CASE \E k \in Job \ seen[j] : cp[k].status = "running"
    BY <1>1, <2>1 DEF InsertCheckpoint
  <2>2. CASE ~\E k \in Job \ seen[j] : cp[k].status = "running"
    <3>1. cp' = [k \in Job |-> IF k = j THEN [status |-> "running", stage |-> "start"]
                               ELSE IF k \in seen[j] /\ Open(k)
                               THEN [cp[k] EXCEPT !.status = "failed"] ELSE cp[k]]
      BY <1>1, <2>2 DEF InsertCheckpoint
    <3>2. cp'[j].status = "running"
      BY <3>1
    <3>. QED BY <3>2
  <2>. QED BY <2>1, <2>2
<1>2. ASSUME NEW j \in Job, AbandonCheckpoints(j) \/ ShowNew(j) \/ InsertRecord(j) \/ OpenCheckpoint(j)
      PROVE  j \in Between'
  BY <1>2, JobMoves DEF Moves, Between
<1>3. CASE ResetCheckpoints \/ ResetShown
  BY <1>3 DEF ResetCheckpoints, ResetShown
<1>4. ~ResetGeneration
  BY <1>i DEF ResetGeneration, TypeOK
<1>5. CASE /\ \A j \in Job : ~InsertCheckpoint(j) /\ ~AbandonCheckpoints(j) /\ ~ShowNew(j)
                             /\ ~InsertRecord(j) /\ ~OpenCheckpoint(j)
           /\ ~ResetCheckpoints /\ ~ResetShown
  <2>1. Working(i)
    BY <1>i, <1>5
  <2>2. ~Restart
    BY <2>1, WorkingPoints DEF Restart, DownIsEmpty, At
  <2>3. \/ \E k \in Job : cp[k].status = "running"
        \/ \E k \in Job : k \in Between
        \/ resetPc \in {"clear", "bump"}
    BY <1>i, <2>1 DEF LivePullIsResumable, Working, Between
  <2>4. ASSUME NEW k \in Job, cp[k].status = "running" PROVE cp'[k].status = "running"
    <3>1. ~EndCheckpoint(k)
      <4>1. ASSUME EndCheckpoint(k) PROVE FALSE
        <5>1. task[k].at = "end_cp" /\ task'[k].at \in {"show_thrown", "ended"}
          BY <4>1, JobMoves DEF Moves, At
        <5>2. k # i
          BY <5>1 DEF Working, ThreadPoints
        <5>. QED BY <1>i, <2>1, <2>4, <5>1, <5>2 DEF LateEnd
      <4>. QED BY <4>1
    <3>2. ASSUME NEW j \in Job, JobStep(j) PROVE cp'[k].status = cp[k].status
      <4>1. CASE Mark(j)
        BY <4>1 DEF Mark, UpdateCheckpoint, TypeOK
      <4>2. CASE EndCheckpoint(j)
        <5>1. j # k /\ cp' = [cp EXCEPT ![j].status = IF cp[j].status = "none" THEN cp[j].status ELSE Outcome(j)]
          BY <3>1, <4>2 DEF EndCheckpoint, FinishCheckpoint
        <5>. QED BY <5>1 DEF TypeOK
      <4>3. CASE ~Mark(j) /\ ~EndCheckpoint(j)
        <5>1. cp' = cp
          BY <1>5, <3>2, <4>3
              DEF JobStep, Handle, Pull, Bump, AbandonRecords, Check, Show, Work, Gate,
             EndRecord, ShowThrown, tables
        <5>. QED BY <5>1
      <4>. QED BY <4>1, <4>2, <4>3
    <3>3. PostPull \/ ResumePost => cp' = cp
      BY ReceiveTask
    <3>4. Reset \/ FindUnfinished \/ UNCHANGED vars => cp' = cp
      BY DEF Reset, FindUnfinished, vars, tables
    <3>. QED BY <1>4, <1>5, <1>i, <2>2, <2>4, <3>2, <3>3, <3>4, StepCases
  <2>5. ASSUME NEW k \in Job, k \in Between PROVE k \in Between'
    <3>1. task[k].at \in {"show_new", "insert_rec", "open_cp", "insert_cp"}
      BY <2>5 DEF Between
    <3>0. k # ids + 1
      BY <3>1 DEF Unused, At, TypeOK
    <3>2. task'[k].at = task[k].at
      BY <1>5, <1>i, <3>0, <3>1, TaskSteps, ReceiveTask, JobMoves
          DEF Moves, JobStep, Handle, Pull, At
    <3>. QED BY <3>1, <3>2 DEF Between
  <2>6. resetPc \in {"clear", "bump"} => resetPc' = resetPc
    <3>1. \A j \in Job : JobStep(j) => resetPc' = resetPc
      BY JobFrame DEF JobStep
    <3>2. PostPull \/ ResumePost => resetPc' = resetPc
      BY ReceiveTask
    <3>3. FindUnfinished \/ UNCHANGED vars => resetPc' = resetPc
      BY DEF FindUnfinished, vars
    <3>4. Reset => resetPc = "idle"
      BY DEF Reset
    <3>. QED BY <1>4, <1>5, <1>i, <2>2, <3>1, <3>2, <3>3, <3>4, StepCases
  <2>. QED BY <2>3, <2>4, <2>5, <2>6
<1>. QED BY <1>1, <1>2, <1>3, <1>5

\* Outside the moments in which a start or a reset has closed the checkpoints,
\* a pull that works as the newest always leaves a running checkpoint to a
\* restart: a superseded pull that ends late has none that the newest relies on.
THEOREM WorkingPullIsResumable == Spec => []LivePullIsResumable
<1>. DEFINE Inv == Unused /\ GenOrder /\ LateEnd /\ LivePullIsResumable
<1>1. Init => Inv
  <2>. SUFFICES ASSUME Init PROVE Inv
    OBVIOUS
  <2>1. /\ gen = 0 /\ \A k \in Job : task[k].at = "none" /\ task[k].gen = 0
        /\ \A k \in Job : rec[k] = "none" /\ cp[k].status = "none"
    BY DEF Init, NoTask, NoCheckpoint
  <2>. QED BY <2>1 DEF Unused, At, GenOrder, LateEnd, LivePullIsResumable, Numbered, ThreadPoints
<1>2. TypeOK /\ IdBound /\ OneOpenInv /\ Inv /\ [Next]_vars => Inv'
  BY UnusedStep, GenStep, LateEndStep, LiveStep DEF OneOpenInv
<1>3. Inv => LivePullIsResumable
  OBVIOUS
<1>4. Init => OneOpenInv
  BY
      DEF Init, OneOpenInv, OneOpenCheckpoint, DownIsEmpty, SeenInterrupted, Open, At, NoTask,
          NoCheckpoint
<1>5. TypeOK /\ IdBound /\ OneOpenInv /\ [Next]_vars => OneOpenInv'
  BY OneOpenStep
<1>. QED BY <1>1, <1>2, <1>3, <1>4, <1>5, TypeCorrect, PTL DEF Spec

=============================================================================

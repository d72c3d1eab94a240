-------------------------- MODULE OzonSync_proofs --------------------------
(***************************************************************************)
(* Proofs about the Ozon sync that hold with every operation and fault the *)
(* module allows: resets that let several runs live at once, wipes,        *)
(* refused submits, failed writes, crashes and restarts; for any callers,  *)
(* pages and bounds.                                                       *)
(***************************************************************************)
EXTENDS OzonSync, TLAPS

(* A run that may still fetch has failed fewer than MaxFailures times in a *)
(* row, and one that has a page to store is not past the last page.        *)
Bounded(r) ==
    /\ r.phase \in {"queued", "begin", "loop", "store", "mem", "save"}
         => r.fails < MaxFailures
    /\ r.phase = "store" => r.cursor < Pages
RunBounds == \A j \in Job : Bounded(run[j])

(* The record of a run that is not alive is well formed.                   *)
LEMMA NoRunOK == NoRun \in RunRecord /\ Bounded(NoRun)
  BY OzonAssumption DEF NoRun, RunRecord, Bounded, Phases, LoopPhases, Outcomes, NoJob

(* Replacing one run by a well-formed one keeps all of them well formed.   *)
LEMMA RunChange ==
    ASSUME TypeOK, RunBounds, NEW j, NEW r \in RunRecord, Bounded(r),
           run' = [run EXCEPT ![j] = r]
    PROVE  run' \in [Job -> RunRecord] /\ RunBounds'
<1>1. run \in [Job -> RunRecord]
  BY DEF TypeOK
<1>2. run' \in [Job -> RunRecord]
  BY <1>1
<1>3. ASSUME NEW i \in Job PROVE Bounded(run'[i])
  <2>1. run'[i] = IF i = j THEN r ELSE run[i]
    BY <1>1
  <2>2. QED
    BY <2>1 DEF RunBounds
<1>4. QED
  BY <1>2, <1>3 DEF RunBounds

(* Every step of run_ozon_sync keeps the runs well formed.                 *)
LEMMA RunTyped ==
    ASSUME TypeOK, RunBounds, NEW j \in Job, RunStep(j)
    PROVE  run' \in [Job -> RunRecord] /\ RunBounds'
<1>0. run[j] \in RunRecord /\ Bounded(run[j])
  BY DEF TypeOK, RunBounds
<1> USE OzonAssumption
<1>1. CASE LoadCheckpoint(j)
  <2>0. PICK c \in IF mem # NoMem THEN {mem} ELSE ReadCursor :
           run' = [run EXCEPT ![j].phase = "begin", ![j].cursor = c]
    BY <1>1 DEF LoadCheckpoint
  <2> DEFINE r == [run[j] EXCEPT !.phase = "begin", !.cursor = c]
  <2>1. c \in 0..Pages /\ "begin" \in Phases
    BY DEF TypeOK, DbRow, NoMem, Phases, ReadCursor
  <2>2. run' = [run EXCEPT ![j] = r]
    BY <2>0
  <2>3. run[j].phase = "queued"
    BY <1>1 DEF LoadCheckpoint, InPhase
  <2>4. r \in RunRecord
    BY <1>0, <2>1 DEF RunRecord
  <2>5. Bounded(r)
    BY <1>0, <2>1, <2>3 DEF Bounded, RunRecord
  <2>6. QED
    BY <2>2, <2>4, <2>5, RunChange
<1>2. CASE BeginRun(j)
  <2> DEFINE r == [run[j] EXCEPT !.phase = "loop"]
  <2>1. r \in RunRecord /\ Bounded(r)
    BY <1>0, <1>2 DEF BeginRun, RunGoto, InPhase, RunRecord, Bounded, Phases,
      LoopPhases, Outcomes, TypeOK, DbRow, NoMem, NoJob
  <2>2. run' = [run EXCEPT ![j] = r]
    BY <1>2 DEF BeginRun, RunGoto
  <2>3. QED
    BY <2>1, <2>2, RunChange
<1>3. CASE StopSeen(j)
  <2> DEFINE r == [run[j] EXCEPT !.phase = "end"]
  <2>1. r \in RunRecord /\ Bounded(r)
    BY <1>0, <1>3 DEF StopSeen, RunGoto, InPhase, RunRecord, Bounded, Phases,
      LoopPhases, Outcomes, TypeOK, DbRow, NoMem, NoJob
  <2>2. run' = [run EXCEPT ![j] = r]
    BY <1>3 DEF StopSeen, RunGoto
  <2>3. QED
    BY <2>1, <2>2, RunChange
<1>4. CASE FetchFails(j)
  <2> DEFINE r == [run[j] EXCEPT !.phase = "retry", !.fails = @ + 1]
  <2>1. r \in RunRecord /\ Bounded(r)
    BY <1>0, <1>4 DEF FetchFails, RunGoto, InPhase, RunRecord, Bounded, Phases,
      LoopPhases, Outcomes, TypeOK, DbRow, NoMem, NoJob
  <2>2. run' = [run EXCEPT ![j] = r]
    BY <1>4 DEF FetchFails, RunGoto
  <2>3. QED
    BY <2>1, <2>2, RunChange
<1>5. CASE FetchPage(j)
  <2>1. CASE run' = [run EXCEPT ![j].phase = "end", ![j].fails = 0]
    <3> DEFINE r == [run[j] EXCEPT !.phase = "end", !.fails = 0]
    <3>1. r \in RunRecord /\ Bounded(r)
      <4>1. 0 \in 0..MaxFailures /\ "end" \in Phases
        BY DEF Phases, LoopPhases
      <4>2. r \in RunRecord
        BY <1>0, <4>1 DEF RunRecord
      <4>3. QED
        BY <4>2, <1>0 DEF Bounded, RunRecord
    <3>2. run' = [run EXCEPT ![j] = r]
      BY <2>1
    <3>3. QED
      BY <3>1, <3>2, RunChange
  <2>2. CASE run' # [run EXCEPT ![j].phase = "end", ![j].fails = 0]
    <3>0. run[j].cursor < Pages
      BY <1>5, <2>2 DEF FetchPage
    <3>1. PICK more \in BOOLEAN :
            run' = [run EXCEPT ![j].phase = "store", ![j].fails = 0, ![j].more = more]
      BY <1>5, <2>2 DEF FetchPage
    <3> DEFINE r == [run[j] EXCEPT !.phase = "store", !.fails = 0, !.more = more]
    <3>2. r \in RunRecord /\ Bounded(r)
      <4>1. 0 \in 0..MaxFailures /\ "store" \in Phases
        BY DEF Phases, LoopPhases
      <4>2. r \in RunRecord
        BY <1>0, <4>1 DEF RunRecord
      <4>3. 0 < MaxFailures /\ run[j].cursor < Pages
        BY <1>0, <3>0 DEF RunRecord
      <4>4. QED
        BY <4>2, <4>3, <1>0 DEF Bounded, RunRecord
    <3>3. run' = [run EXCEPT ![j] = r]
      BY <3>1
    <3>4. QED
      BY <3>2, <3>3, RunChange
  <2>3. QED
    BY <2>1, <2>2
<1>6. CASE RetryLater(j)
  <2> DEFINE r == [run[j] EXCEPT !.phase = IF run[j].fails >= MaxFailures THEN "giveup" ELSE "loop"]
  <2>1. r \in RunRecord /\ Bounded(r)
    BY <1>0, <1>6 DEF RetryLater, RunGoto, InPhase, RunRecord, Bounded, Phases,
      LoopPhases, Outcomes, TypeOK, DbRow, NoMem, NoJob
  <2>2. run' = [run EXCEPT ![j] = r]
    BY <1>6 DEF RetryLater, RunGoto
  <2>3. QED
    BY <2>1, <2>2, RunChange
<1>7. CASE GiveUp(j)
  <2> DEFINE r == [run[j] EXCEPT !.phase = "record", !.outcome = "network"]
  <2>1. r \in RunRecord /\ Bounded(r)
    BY <1>0, <1>7 DEF GiveUp, RunGoto, InPhase, RunRecord, Bounded, Phases,
      LoopPhases, Outcomes, TypeOK, DbRow, NoMem, NoJob
  <2>2. run' = [run EXCEPT ![j] = r]
    BY <1>7 DEF GiveUp, RunGoto
  <2>3. QED
    BY <2>1, <2>2, RunChange
<1>8. CASE StorePage(j)
  <2> DEFINE r == [run[j] EXCEPT !.phase = "mem", !.cursor = @ + 1]
  <2>1. r \in RunRecord /\ Bounded(r)
    BY <1>0, <1>8 DEF StorePage, RunGoto, InPhase, RunRecord, Bounded, Phases,
      LoopPhases, Outcomes, TypeOK, DbRow, NoMem, NoJob
  <2>2. run' = [run EXCEPT ![j] = r]
    BY <1>8 DEF StorePage, RunGoto
  <2>3. QED
    BY <2>1, <2>2, RunChange
<1>9. CASE Remember(j)
  <2> DEFINE r == [run[j] EXCEPT !.phase = "save"]
  <2>1. r \in RunRecord /\ Bounded(r)
    BY <1>0, <1>9 DEF Remember, RunGoto, InPhase, RunRecord, Bounded, Phases,
      LoopPhases, Outcomes, TypeOK, DbRow, NoMem, NoJob
  <2>2. run' = [run EXCEPT ![j] = r]
    BY <1>9 DEF Remember, RunGoto
  <2>3. QED
    BY <2>1, <2>2, RunChange
<1>10. CASE SavePage(j)
  <2> DEFINE r == [run[j] EXCEPT !.phase = IF run[j].more THEN "loop" ELSE "end", !.more = FALSE]
  <2>1. r \in RunRecord /\ Bounded(r)
    BY <1>0, <1>10 DEF SavePage, RunGoto, InPhase, RunRecord, Bounded, Phases,
      LoopPhases, Outcomes, TypeOK, DbRow, NoMem, NoJob
  <2>2. run' = [run EXCEPT ![j] = r]
    BY <1>10 DEF SavePage, RunGoto
  <2>3. QED
    BY <2>1, <2>2, RunChange
<1>11. CASE EndDone(j)
  <2> DEFINE r == [run[j] EXCEPT !.phase = "record", !.outcome = "done"]
  <2>1. r \in RunRecord /\ Bounded(r)
    BY <1>0, <1>11 DEF EndDone, RunGoto, InPhase, RunRecord, Bounded, Phases,
      LoopPhases, Outcomes, TypeOK, DbRow, NoMem, NoJob
  <2>2. run' = [run EXCEPT ![j] = r]
    BY <1>11 DEF EndDone, RunGoto
  <2>3. QED
    BY <2>1, <2>2, RunChange
<1>12. CASE EndStopped(j)
  <2> DEFINE r == [run[j] EXCEPT !.phase = "record", !.outcome = "stopped"]
  <2>1. r \in RunRecord /\ Bounded(r)
    BY <1>0, <1>12 DEF EndStopped, RunGoto, InPhase, RunRecord, Bounded, Phases,
      LoopPhases, Outcomes, TypeOK, DbRow, NoMem, NoJob
  <2>2. run' = [run EXCEPT ![j] = r]
    BY <1>12 DEF EndStopped, RunGoto
  <2>3. QED
    BY <2>1, <2>2, RunChange
<1>13. CASE ReadOwnJob(j)
  <2> DEFINE r == [run[j] EXCEPT !.phase = IF jobId = NoJob THEN "free" ELSE "write", !.job = jobId]
  <2>1. r \in RunRecord /\ Bounded(r)
    BY <1>0, <1>13 DEF ReadOwnJob, RunGoto, InPhase, RunRecord, Bounded, Phases,
      LoopPhases, Outcomes, TypeOK, DbRow, NoMem, NoJob
  <2>2. run' = [run EXCEPT ![j] = r]
    BY <1>13 DEF ReadOwnJob, RunGoto
  <2>3. QED
    BY <2>1, <2>2, RunChange
<1>14. CASE WriteOutcome(j)
  <2> DEFINE r == [run[j] EXCEPT !.phase = "free"]
  <2>1. r \in RunRecord /\ Bounded(r)
    BY <1>0, <1>14 DEF WriteOutcome, RunGoto, InPhase, RunRecord, Bounded, Phases,
      LoopPhases, Outcomes, TypeOK, DbRow, NoMem, NoJob
  <2>2. run' = [run EXCEPT ![j] = r]
    BY <1>14 DEF WriteOutcome, RunGoto
  <2>3. QED
    BY <2>1, <2>2, RunChange
<1>15. CASE ReleaseRun(j)
  BY <1>15, NoRunOK, RunChange DEF ReleaseRun
<1>. QED
  BY <1>1, <1>2, <1>3, <1>4, <1>5, <1>6, <1>7, <1>8, <1>9, <1>10, <1>11, <1>12,
    <1>13, <1>14, <1>15 DEF RunStep

(* What the database operations leave behind, whether they fail or not, is *)
(* well formed.                                                            *)
LEMMA WritesTyped ==
    ASSUME TypeOK
    PROVE  /\ \A c \in 0..Pages, s \in DbStatus : SaveCheckpoint(c, s) => db' \in DbRow
           /\ \A s \in DbStatus : UpdateStatus(s) => db' \in DbRow
           /\ ResetCheckpoint => db' \in DbRow
           /\ \A to \in RecStatus : CloseRunning(to) \in [Job -> RecStatus]
           /\ \A to \in RecStatus : \A j : FinishRecord(j, to) => rec' \in [Job -> RecStatus]
<1> USE OzonAssumption DEF TypeOK, Write, DbRow
<1>1. \A c \in 0..Pages, s \in DbStatus : SaveCheckpoint(c, s) => db' \in DbRow
  BY DEF SaveCheckpoint
<1>2. \A s \in DbStatus : UpdateStatus(s) => db' \in DbRow
  BY DEF UpdateStatus
<1>3. ResetCheckpoint => db' \in DbRow
  <2>1. [cursor |-> 0, status |-> ""] \in DbRow
    <3>1. 0 \in 0..Pages
      BY OzonAssumption
    <3>2. "" \in DbStatus
      BY Zenon DEF DbStatus
    <3>3. QED
      BY <3>1, <3>2, Zenon DEF DbRow
  <2>2. db' = db \/ db' = [cursor |-> 0, status |-> ""] \/ ~ResetCheckpoint
    BY DEF ResetCheckpoint
  <2>3. QED
    BY <2>1, <2>2
<1>4. \A to \in RecStatus : CloseRunning(to) \in [Job -> RecStatus]
  BY DEF CloseRunning
<1>5. \A to \in RecStatus : \A j : FinishRecord(j, to) => rec' \in [Job -> RecStatus]
  BY DEF FinishRecord
<1>6. QED
  BY <1>1, <1>2, <1>3, <1>4, <1>5

(* A process that ends leaves a well-formed state.                         *)
LEMMA ForgetTyped == TypeOK /\ Forget => TypeOK' /\ RunBounds'
<1> SUFFICES ASSUME TypeOK, Forget PROVE TypeOK' /\ RunBounds'
  OBVIOUS
<1>1. run' \in [Job -> RunRecord] /\ RunBounds'
  BY NoRunOK DEF Forget, RunBounds
<1>2. QED
  <2>1. pc' \in [Thread -> Pcs] /\ arg' \in [Thread -> 0..MaxJobs]
    <3>1. NoJob \in 0..MaxJobs /\ "idle" \in Pcs
      BY OzonAssumption DEF NoJob, Pcs
    <3>2. QED
      BY <3>1 DEF Forget
  <2>2. mem' \in NoMem..Pages /\ jobId' \in 0..MaxJobs /\ progress' \in Progress
    <3>1. NoMem \in NoMem..Pages
      BY OzonAssumption DEF NoMem
    <3>2. NoJob \in 0..MaxJobs /\ "" \in Progress
      BY OzonAssumption DEF NoJob, Progress
    <3>3. QED
      BY <3>1, <3>2 DEF Forget
  <2>3. UNCHANGED <<db, rec, stored, lost, ids, restarts>>
    BY DEF Forget, disk
  <2>4. /\ ozonRunning' \in BOOLEAN /\ ozonStop' \in BOOLEAN /\ shuttingDown' \in BOOLEAN
        /\ poolOpen' \in BOOLEAN /\ mainPc' = "down"
    BY DEF Forget
  <2>5. QED
    BY <1>1, <2>1, <2>2, <2>3, <2>4 DEF TypeOK

(* Type correctness is preserved by every step: one case per action.       *)
LEMMA TypeStep == TypeOK /\ RunBounds /\ [Next]_vars => TypeOK' /\ RunBounds'
<1> SUFFICES ASSUME TypeOK, RunBounds, [Next]_vars PROVE TypeOK' /\ RunBounds'
  OBVIOUS
<1> USE OzonAssumption
<1>1. ASSUME NEW t \in Thread, Trigger(t) PROVE TypeOK' /\ RunBounds'
  BY <1>1 DEF Trigger, TypeOK, RunBounds, Goto, disk, flags, life, NoMem, NoJob, Job,
    Pcs, TriggerPcs
<1>2. ASSUME NEW t \in Thread, TriggerFull(t) PROVE TypeOK' /\ RunBounds'
  BY <1>2 DEF TriggerFull, TypeOK, RunBounds, Goto, disk, flags, life, NoMem, NoJob,
    Job, Pcs, TriggerPcs
<1>3. ASSUME NEW t \in Thread, StopOzon(t) PROVE TypeOK' /\ RunBounds'
  BY <1>3, WritesTyped DEF StopOzon, TypeOK, RunBounds, Goto, disk, flags, life,
    NoMem, NoJob, Job, Pcs, TriggerPcs, DbStatus
<1>4. ASSUME NEW t \in Thread, Reset(t) PROVE TypeOK' /\ RunBounds'
  BY <1>4, WritesTyped DEF Reset, TypeOK, RunBounds, Goto, disk, flags, life, NoMem,
    NoJob, Job, Pcs, TriggerPcs, RecStatus
<1>5. ASSUME NEW t \in Thread, WipeDb(t) PROVE TypeOK' /\ RunBounds'
  BY <1>5, WritesTyped DEF WipeDb, TypeOK, RunBounds, Goto, disk, flags, life, NoMem,
    NoJob, Job, Pcs, TriggerPcs
<1>6. ASSUME NEW t \in Thread, WipeMem(t) PROVE TypeOK' /\ RunBounds'
  BY <1>6 DEF WipeMem, TypeOK, RunBounds, Goto, disk, flags, life, NoMem, NoJob, Job,
    Pcs, TriggerPcs
<1>7. ASSUME NEW t \in Thread, CheckShutdown(t) PROVE TypeOK' /\ RunBounds'
  BY <1>7 DEF CheckShutdown, TypeOK, RunBounds, Goto, disk, flags, life, NoMem,
    NoJob, Job, Pcs, TriggerPcs
<1>8. ASSUME NEW t \in Thread, ClaimRun(t) PROVE TypeOK' /\ RunBounds'
  <2>1. CASE ozonRunning
    BY <1>8, <2>1 DEF ClaimRun, TypeOK, RunBounds, Goto, disk, flags, life, NoMem,
      NoJob, Job, Pcs, TriggerPcs
  <2>2. CASE ~ozonRunning
    <3>1. ids + 1 \in 0..MaxJobs
      BY <1>8, <2>2 DEF ClaimRun, TypeOK
    <3>2. QED
      BY <1>8, <2>2, <3>1 DEF ClaimRun, TypeOK, RunBounds, Goto, disk, flags, life,
        NoMem, NoJob, Job, Pcs, TriggerPcs
  <2>3. QED
    BY <2>1, <2>2
<1>9. ASSUME NEW t \in Thread, ClearStop(t) PROVE TypeOK' /\ RunBounds'
  BY <1>9 DEF ClearStop, TypeOK, RunBounds, Goto, disk, flags, life, NoMem, NoJob,
    Job, Pcs, TriggerPcs
<1>10. ASSUME NEW t \in Thread, SetJob(t) PROVE TypeOK' /\ RunBounds'
  BY <1>10 DEF SetJob, TypeOK, RunBounds, Goto, disk, flags, life, NoMem, NoJob, Job,
    Pcs, TriggerPcs
<1>11. ASSUME NEW t \in Thread, AbandonOthers(t) PROVE TypeOK' /\ RunBounds'
  BY <1>11, WritesTyped DEF AbandonOthers, TypeOK, RunBounds, Goto, disk, flags,
    life, NoMem, NoJob, Job, Pcs, TriggerPcs, RecStatus
<1>12. ASSUME NEW t \in Thread, InsertRecord(t) PROVE TypeOK' /\ RunBounds'
  BY <1>12 DEF InsertRecord, TypeOK, RunBounds, Goto, disk, flags, life, NoMem,
    NoJob, Job, Pcs, TriggerPcs, Write, RecStatus
<1>13. ASSUME NEW t \in Thread, Submit(t) PROVE TypeOK' /\ RunBounds'
  <2>1. run' \in [Job -> RunRecord] /\ RunBounds'
    <3> DEFINE r == [NoRun EXCEPT !.phase = "queued"]
    <3>1. r \in RunRecord /\ Bounded(r)
      <4>1. NoRun.fails < MaxFailures /\ "queued" \in Phases
        BY DEF NoRun, Phases
      <4>2. r \in RunRecord
        BY NoRunOK, <4>1 DEF RunRecord
      <4>3. QED
        BY NoRunOK, <4>1, <4>2 DEF RunRecord, Bounded
    <3>2. CASE run' = [run EXCEPT ![arg[t]] = r]
      BY <3>1, <3>2, RunChange
    <3>3. CASE UNCHANGED run
      BY <3>3 DEF TypeOK, RunBounds
    <3>4. QED
      BY <1>13, <3>2, <3>3 DEF Submit
  <2>2. QED
    <3>1. arg' \in [Thread -> 0..MaxJobs] /\ pc' \in [Thread -> Pcs]
      BY <1>13 DEF Submit, Goto, TypeOK, NoJob, Pcs, TriggerPcs
    <3>2. UNCHANGED <<disk, mem, flags, progress, life>>
      BY <1>13 DEF Submit
    <3>3. QED
      BY <2>1, <3>1, <3>2 DEF TypeOK, disk, flags, life
<1>14. ASSUME NEW t \in Thread, FreeRefused(t) PROVE TypeOK' /\ RunBounds'
  BY <1>14 DEF FreeRefused, TypeOK, RunBounds, Goto, disk, flags, life, NoMem, NoJob,
    Job, Pcs, TriggerPcs
<1>15. ASSUME NEW t \in Thread, ReadJob(t) PROVE TypeOK' /\ RunBounds'
  BY <1>15 DEF ReadJob, TypeOK, RunBounds, Goto, disk, flags, life, NoMem, NoJob,
    Job, Pcs, TriggerPcs
<1>16. ASSUME NEW t \in Thread, RecordRefused(t) PROVE TypeOK' /\ RunBounds'
  <2>1. rec' \in [Job -> RecStatus]
    <3>1. "refused" \in RecStatus
      BY DEF RecStatus
    <3>2. FinishRecord(arg[t], "refused")
      BY <1>16 DEF RecordRefused
    <3>3. QED
      BY <3>1, <3>2, WritesTyped
  <2>2. QED
    BY <1>16, <2>1 DEF RecordRefused, TypeOK, RunBounds, Goto, flags, life, NoJob, Pcs
<1>17. ASSUME NEW t \in Thread, StopProgress(t) PROVE TypeOK' /\ RunBounds'
  BY <1>17 DEF StopProgress, TypeOK, RunBounds, Goto, disk, flags, life, NoMem,
    NoJob, Job, Pcs, TriggerPcs, Progress
<1>18. ASSUME NEW t \in Thread, StopFlag(t) PROVE TypeOK' /\ RunBounds'
  BY <1>18 DEF StopFlag, TypeOK, RunBounds, Goto, disk, flags, life, NoMem, NoJob,
    Job, Pcs, TriggerPcs
<1>19. ASSUME NEW t \in Thread, ResetProgress(t) PROVE TypeOK' /\ RunBounds'
  BY <1>19 DEF ResetProgress, TypeOK, RunBounds, Goto, disk, flags, life, NoMem,
    NoJob, Job, Pcs, TriggerPcs, Progress
<1>20. ASSUME NEW t \in Thread, ResetRunning(t) PROVE TypeOK' /\ RunBounds'
  BY <1>20 DEF ResetRunning, TypeOK, RunBounds, Goto, disk, flags, life, NoMem,
    NoJob, Job, Pcs, TriggerPcs
<1>21. ASSUME NEW t \in Thread, ResetStop(t) PROVE TypeOK' /\ RunBounds'
  BY <1>21 DEF ResetStop, TypeOK, RunBounds, Goto, disk, flags, life, NoMem, NoJob,
    Job, Pcs, TriggerPcs
<1>22. ASSUME NEW t \in Thread, ResetJob(t) PROVE TypeOK' /\ RunBounds'
  BY <1>22 DEF ResetJob, TypeOK, RunBounds, Goto, disk, flags, life, NoMem, NoJob,
    Job, Pcs, TriggerPcs
<1>23. ASSUME NEW j \in Job, LoadCheckpoint(j) PROVE TypeOK' /\ RunBounds'
  <2>1. run' \in [Job -> RunRecord] /\ RunBounds'
    BY <1>23, RunTyped DEF RunStep
  <2>2. run[j] \in RunRecord /\ Bounded(run[j])
    BY DEF TypeOK, RunBounds
  <2>3. QED
    BY <1>23, <2>1, <2>2 DEF LoadCheckpoint, TypeOK, RunGoto, InPhase, disk, flags,
      life, Progress
<1>24. ASSUME NEW j \in Job, BeginRun(j) PROVE TypeOK' /\ RunBounds'
  <2>1. run' \in [Job -> RunRecord] /\ RunBounds'
    BY <1>24, RunTyped DEF RunStep
  <2>2. run[j] \in RunRecord /\ Bounded(run[j])
    BY DEF TypeOK, RunBounds
  <2>3. db' \in DbRow
    BY <1>24, <2>2, WritesTyped DEF BeginRun, RunRecord, DbStatus
  <2>4. QED
    BY <1>24, <2>1, <2>3 DEF BeginRun, TypeOK, RunGoto, InPhase, disk, flags, life,
      Progress
<1>25. ASSUME NEW j \in Job, StopSeen(j) PROVE TypeOK' /\ RunBounds'
  <2>1. run' \in [Job -> RunRecord] /\ RunBounds'
    BY <1>25, RunTyped DEF RunStep
  <2>2. run[j] \in RunRecord /\ Bounded(run[j])
    BY DEF TypeOK, RunBounds
  <2>3. QED
    BY <1>25, <2>1, <2>2 DEF StopSeen, TypeOK, RunGoto, InPhase, disk, flags, life,
      Progress
<1>26. ASSUME NEW j \in Job, FetchFails(j) PROVE TypeOK' /\ RunBounds'
  <2>1. run' \in [Job -> RunRecord] /\ RunBounds'
    BY <1>26, RunTyped DEF RunStep
  <2>2. run[j] \in RunRecord /\ Bounded(run[j])
    BY DEF TypeOK, RunBounds
  <2>3. QED
    BY <1>26, <2>1, <2>2 DEF FetchFails, TypeOK, RunGoto, InPhase, disk, flags, life,
      Progress
<1>27. ASSUME NEW j \in Job, FetchPage(j) PROVE TypeOK' /\ RunBounds'
  <2>1. run' \in [Job -> RunRecord] /\ RunBounds'
    BY <1>27, RunTyped DEF RunStep
  <2>2. run[j] \in RunRecord /\ Bounded(run[j])
    BY DEF TypeOK, RunBounds
  <2>3. QED
    BY <1>27, <2>1, <2>2 DEF FetchPage, TypeOK, RunGoto, InPhase, disk, flags, life,
      Progress
<1>28. ASSUME NEW j \in Job, RetryLater(j) PROVE TypeOK' /\ RunBounds'
  <2>1. run' \in [Job -> RunRecord] /\ RunBounds'
    BY <1>28, RunTyped DEF RunStep
  <2>2. run[j] \in RunRecord /\ Bounded(run[j])
    BY DEF TypeOK, RunBounds
  <2>3. db' \in DbRow
    BY <1>28, <2>2, WritesTyped DEF RetryLater, RunRecord, DbStatus
  <2>4. QED
    BY <1>28, <2>1, <2>3 DEF RetryLater, TypeOK, RunGoto, InPhase, disk, flags, life,
      Progress
<1>29. ASSUME NEW j \in Job, GiveUp(j) PROVE TypeOK' /\ RunBounds'
  <2>1. run' \in [Job -> RunRecord] /\ RunBounds'
    BY <1>29, RunTyped DEF RunStep
  <2>2. run[j] \in RunRecord /\ Bounded(run[j])
    BY DEF TypeOK, RunBounds
  <2>3. db' \in DbRow
    BY <1>29, <2>2, WritesTyped DEF GiveUp, RunRecord, DbStatus
  <2>4. QED
    BY <1>29, <2>1, <2>3 DEF GiveUp, TypeOK, RunGoto, InPhase, disk, flags, life,
      Progress
<1>30. ASSUME NEW j \in Job, StorePage(j) PROVE TypeOK' /\ RunBounds'
  <2>1. run' \in [Job -> RunRecord] /\ RunBounds'
    BY <1>30, RunTyped DEF RunStep
  <2>2. run[j] \in RunRecord /\ Bounded(run[j])
    BY DEF TypeOK, RunBounds
  <2>3. run[j].cursor + 1 \in 1..Pages
    BY <1>30, <2>2 DEF StorePage, InPhase, RunRecord, Bounded
  <2>4. stored' \subseteq 1..Pages /\ lost' \subseteq 1..Pages
    BY <1>30, <2>3 DEF StorePage, PageUpserted, PageMissing, TypeOK
  <2>5. QED
    BY <1>30, <2>1, <2>4 DEF StorePage, TypeOK, RunGoto, InPhase, disk, flags, life,
      Progress
<1>31. ASSUME NEW j \in Job, Remember(j) PROVE TypeOK' /\ RunBounds'
  <2>1. run' \in [Job -> RunRecord] /\ RunBounds'
    BY <1>31, RunTyped DEF RunStep
  <2>2. run[j] \in RunRecord /\ Bounded(run[j])
    BY DEF TypeOK, RunBounds
  <2>3. mem' \in NoMem..Pages
    BY <1>31, <2>2 DEF Remember, RunRecord, NoMem
  <2>4. QED
    BY <1>31, <2>1, <2>3 DEF Remember, TypeOK, RunGoto, InPhase, disk, flags, life,
      Progress
<1>32. ASSUME NEW j \in Job, SavePage(j) PROVE TypeOK' /\ RunBounds'
  <2>1. run' \in [Job -> RunRecord] /\ RunBounds'
    BY <1>32, RunTyped DEF RunStep
  <2>2. run[j] \in RunRecord /\ Bounded(run[j])
    BY DEF TypeOK, RunBounds
  <2>3. db' \in DbRow
    BY <1>32, <2>2, WritesTyped DEF SavePage, RunRecord, DbStatus
  <2>4. QED
    BY <1>32, <2>1, <2>3 DEF SavePage, TypeOK, RunGoto, InPhase, disk, flags, life,
      Progress
<1>33. ASSUME NEW j \in Job, EndDone(j) PROVE TypeOK' /\ RunBounds'
  <2>1. run' \in [Job -> RunRecord] /\ RunBounds'
    BY <1>33, RunTyped DEF RunStep
  <2>2. run[j] \in RunRecord /\ Bounded(run[j])
    BY DEF TypeOK, RunBounds
  <2>3. db' \in DbRow
    BY <1>33, <2>2, WritesTyped DEF EndDone, RunRecord, DbStatus
  <2>4. QED
    BY <1>33, <2>1, <2>3 DEF EndDone, TypeOK, RunGoto, InPhase, disk, flags, life,
      Progress
<1>34. ASSUME NEW j \in Job, EndStopped(j) PROVE TypeOK' /\ RunBounds'
  <2>1. run' \in [Job -> RunRecord] /\ RunBounds'
    BY <1>34, RunTyped DEF RunStep
  <2>2. run[j] \in RunRecord /\ Bounded(run[j])
    BY DEF TypeOK, RunBounds
  <2>3. QED
    BY <1>34, <2>1, <2>2 DEF EndStopped, TypeOK, RunGoto, InPhase, disk, flags, life,
      Progress
<1>35. ASSUME NEW j \in Job, ReadOwnJob(j) PROVE TypeOK' /\ RunBounds'
  <2>1. run' \in [Job -> RunRecord] /\ RunBounds'
    BY <1>35, RunTyped DEF RunStep
  <2>2. run[j] \in RunRecord /\ Bounded(run[j])
    BY DEF TypeOK, RunBounds
  <2>3. QED
    BY <1>35, <2>1, <2>2 DEF ReadOwnJob, TypeOK, RunGoto, InPhase, disk, flags, life,
      Progress
<1>36. ASSUME NEW j \in Job, WriteOutcome(j) PROVE TypeOK' /\ RunBounds'
  <2>1. run' \in [Job -> RunRecord] /\ RunBounds'
    BY <1>36, RunTyped DEF RunStep
  <2>2. run[j] \in RunRecord /\ Bounded(run[j])
    BY DEF TypeOK, RunBounds
  <2>3. rec' \in [Job -> RecStatus]
    <3>1. run[j].outcome \in RecStatus
      BY <2>2 DEF RunRecord, Outcomes, RecStatus
    <3>2. FinishRecord(run[j].job, run[j].outcome)
      BY <1>36 DEF WriteOutcome
    <3>3. QED
      BY <3>1, <3>2, WritesTyped
  <2>4. QED
    BY <1>36, <2>1, <2>3 DEF WriteOutcome, TypeOK, RunGoto, InPhase, disk, flags,
      life, Progress
<1>37. ASSUME NEW j \in Job, ReleaseRun(j) PROVE TypeOK' /\ RunBounds'
  <2>1. run' \in [Job -> RunRecord] /\ RunBounds'
    BY <1>37, RunTyped DEF RunStep
  <2>2. run[j] \in RunRecord /\ Bounded(run[j])
    BY DEF TypeOK, RunBounds
  <2>3. QED
    BY <1>37, <2>1, <2>2 DEF ReleaseRun, TypeOK, RunGoto, InPhase, disk, flags, life,
      Progress
<1>38. CASE Resume
  BY <1>38 DEF Resume, MainGoto, TypeOK, RunBounds, Goto, disk, flags, life, NoMem,
    NoJob, Job, Pcs, TriggerPcs
<1>39. CASE RequestStop
  BY <1>39 DEF RequestStop, MainGoto, TypeOK, RunBounds, Goto, disk, flags, life,
    NoMem, NoJob, Job, Pcs, TriggerPcs
<1>40. CASE RequestStopFlag
  BY <1>40 DEF RequestStopFlag, MainGoto, TypeOK, RunBounds, Goto, disk, flags, life,
    NoMem, NoJob, Job, Pcs, TriggerPcs
<1>41. CASE ClosePool
  BY <1>41 DEF ClosePool, MainGoto, TypeOK, RunBounds, Goto, disk, flags, life,
    NoMem, NoJob, Job, Pcs, TriggerPcs
<1>42. CASE WaitIdle
  BY <1>42 DEF WaitIdle, MainGoto, TypeOK, RunBounds, Goto, disk, flags, life, NoMem,
    NoJob, Job, Pcs, TriggerPcs
<1>43. CASE Exit
  BY <1>43, ForgetTyped DEF Exit
<1>44. CASE Crash
  BY <1>44, ForgetTyped DEF Crash
<1>45. CASE Restart
  <2>1. rec' \in [Job -> RecStatus]
    BY <1>45, WritesTyped DEF Restart, Write, RecStatus, TypeOK
  <2>2. pc' \in [Thread -> Pcs]
    BY <1>45 DEF Restart, TypeOK, Pcs
  <2>3. restarts' \in 0..MaxRestarts
    BY <1>45 DEF Restart, TypeOK
  <2>4. QED
    BY <1>45, <2>1, <2>2, <2>3 DEF Restart, MainGoto, TypeOK, RunBounds, flags
<1>46. CASE UNCHANGED vars
  BY <1>46 DEF vars, TypeOK, RunBounds, Goto, disk, flags, life, NoMem, NoJob, Job,
    Pcs, TriggerPcs
<1>. QED
  BY <1>1, <1>2, <1>3, <1>4, <1>5, <1>6, <1>7, <1>8, <1>9, <1>10, <1>11, <1>12,
    <1>13, <1>14, <1>15, <1>16, <1>17, <1>18, <1>19, <1>20, <1>21, <1>22, <1>23,
    <1>24, <1>25, <1>26, <1>27, <1>28, <1>29, <1>30, <1>31, <1>32, <1>33, <1>34,
    <1>35, <1>36, <1>37, <1>38, <1>39, <1>40, <1>41, <1>42, <1>43, <1>44, <1>45,
    <1>46 DEF Next, TriggerStep, OtherStep, RunStep, Shutdown

-----------------------------------------------------------------------------
(* Every page up to cursor c has been handled; the cursors the program     *)
(* holds, on disk, in memory and in each run. The argument for             *)
(* CheckpointCovered is that no step makes a cursor up: it copies one that *)
(* is already held, goes back to the empty one, or, in StorePage, moves    *)
(* one past the page it has just handled.                                  *)
Covered(c) == \A q \in 1..Pages : q <= c => q \in stored \cup lost
Cursors == {0, NoMem, db.cursor, mem} \cup {run[j].cursor : j \in Job}
CursorsCovered == \A c \in Cursors : Covered(c)

(* If every cursor was held before the step, the invariant is kept.        *)
LEMMA NoNewCursor ==
    ASSUME CursorsCovered, Cursors' \subseteq Cursors,
           stored \cup lost \subseteq stored' \cup lost'
    PROVE  CursorsCovered'
  BY DEF CursorsCovered, Covered

(* The cursors after a step that changes one run.                          *)
LEMMA CursorsOfRun ==
    ASSUME run \in [Job -> RunRecord], NEW j, NEW r, run' = [run EXCEPT ![j] = r],
           r.cursor \in Cursors, db'.cursor \in Cursors, mem' \in Cursors
    PROVE  Cursors' \subseteq Cursors
<1>1. ASSUME NEW i \in Job PROVE run'[i].cursor \in Cursors
  <2>1. run'[i] = IF i = j THEN r ELSE run[i]
    OBVIOUS
  <2>2. QED
    BY <2>1 DEF Cursors
<1>2. 0 \in Cursors /\ NoMem \in Cursors
  BY DEF Cursors
<1>3. QED
  BY <1>1, <1>2 DEF Cursors

(* The cursors after a step that changes no run.                           *)
LEMMA CursorsOfStores ==
    ASSUME UNCHANGED run, db'.cursor \in Cursors, mem' \in Cursors
    PROVE  Cursors' \subseteq Cursors
  BY DEF Cursors

(* A write to sync_state leaves a cursor that was held, or the empty one.  *)
LEMMA CursorsOfWrites ==
    ASSUME TypeOK
    PROVE  /\ \A c \in Cursors : \A s : SaveCheckpoint(c, s) => db'.cursor \in Cursors
           /\ \A s : UpdateStatus(s) => db'.cursor \in Cursors
           /\ ResetCheckpoint => db'.cursor \in Cursors
           /\ db.cursor \in Cursors /\ mem \in Cursors /\ 0 \in Cursors /\ NoMem \in Cursors
           /\ \A j \in Job : run[j].cursor \in Cursors
<1>1. /\ db.cursor \in Cursors /\ mem \in Cursors /\ 0 \in Cursors /\ NoMem \in Cursors
      /\ \A j \in Job : run[j].cursor \in Cursors
  BY DEF Cursors
<1>2. \A c \in Cursors : \A s : SaveCheckpoint(c, s) => db'.cursor \in Cursors
  BY <1>1 DEF SaveCheckpoint, Write
<1>3. \A s : UpdateStatus(s) => db'.cursor \in Cursors
  BY <1>1 DEF UpdateStatus, Write, TypeOK, DbRow
<1>4. ResetCheckpoint => db'.cursor \in Cursors
  <2>1. ResetCheckpoint => db' = db \/ db' = [cursor |-> 0, status |-> ""]
    BY DEF ResetCheckpoint, Write
  <2>2. [cursor |-> 0, status |-> ""].cursor = 0
    OBVIOUS
  <2>3. db.cursor \in Cursors /\ 0 \in Cursors
    BY <1>1
  <2>4. QED
    BY <2>1, <2>2, <2>3
<1>5. QED
  BY <1>1, <1>2, <1>3, <1>4

(* A process that ends keeps only the cursor on disk.                      *)
LEMMA ForgetCovered == TypeOK /\ CursorsCovered /\ Forget => CursorsCovered'
<1> SUFFICES ASSUME TypeOK, CursorsCovered, Forget PROVE CursorsCovered'
  OBVIOUS
<1>1. UNCHANGED <<db, stored, lost>> /\ mem' = NoMem
  BY DEF Forget, disk
<1>2. \A j \in Job : run'[j].cursor = 0
  BY DEF Forget, NoRun
<1>3. Cursors' \subseteq Cursors
  BY <1>1, <1>2 DEF Cursors
<1>4. QED
  BY <1>1, <1>3, NoNewCursor

(* Every step keeps the cursors covered: one case per action.              *)
LEMMA CoveredStep ==
    TypeOK /\ RunBounds /\ CursorsCovered /\ [Next]_vars => CursorsCovered'
<1> SUFFICES ASSUME TypeOK, RunBounds, CursorsCovered, [Next]_vars PROVE CursorsCovered'
  OBVIOUS
<1>0. run \in [Job -> RunRecord] /\ db.cursor \in Cursors /\ mem \in Cursors
  BY CursorsOfWrites DEF TypeOK
<1>1. ASSUME NEW t \in Thread, Trigger(t) PROVE CursorsCovered'
  BY <1>1, <1>0, CursorsOfStores, NoNewCursor DEF Trigger, disk
<1>2. ASSUME NEW t \in Thread, TriggerFull(t) PROVE CursorsCovered'
  BY <1>2, <1>0, CursorsOfStores, NoNewCursor DEF TriggerFull, disk
<1>3. ASSUME NEW t \in Thread, StopOzon(t) PROVE CursorsCovered'
  <2>1. UNCHANGED <<run, stored, lost>>
    BY <1>3 DEF StopOzon, disk
  <2>2. db'.cursor \in Cursors /\ mem' \in Cursors
    BY <1>3, CursorsOfWrites DEF StopOzon, disk
  <2>3. QED
    BY <2>1, <2>2, CursorsOfStores, NoNewCursor
<1>4. ASSUME NEW t \in Thread, Reset(t) PROVE CursorsCovered'
  BY <1>4, <1>0, CursorsOfStores, NoNewCursor DEF Reset, disk
<1>5. ASSUME NEW t \in Thread, WipeDb(t) PROVE CursorsCovered'
  <2>1. UNCHANGED <<run, stored, lost>>
    BY <1>5 DEF WipeDb, disk
  <2>2. db'.cursor \in Cursors /\ mem' \in Cursors
    BY <1>5, CursorsOfWrites DEF WipeDb, disk
  <2>3. QED
    BY <2>1, <2>2, CursorsOfStores, NoNewCursor
<1>6. ASSUME NEW t \in Thread, WipeMem(t) PROVE CursorsCovered'
  <2>1. UNCHANGED <<run, stored, lost>>
    BY <1>6 DEF WipeMem, disk
  <2>2. db'.cursor \in Cursors /\ mem' \in Cursors
    BY <1>6, CursorsOfWrites DEF WipeMem, disk
  <2>3. QED
    BY <2>1, <2>2, CursorsOfStores, NoNewCursor
<1>7. ASSUME NEW t \in Thread, CheckShutdown(t) PROVE CursorsCovered'
  BY <1>7, <1>0, CursorsOfStores, NoNewCursor DEF CheckShutdown, disk
<1>8. ASSUME NEW t \in Thread, ClaimRun(t) PROVE CursorsCovered'
  BY <1>8, <1>0, CursorsOfStores, NoNewCursor DEF ClaimRun, disk
<1>9. ASSUME NEW t \in Thread, ClearStop(t) PROVE CursorsCovered'
  BY <1>9, <1>0, CursorsOfStores, NoNewCursor DEF ClearStop, disk
<1>10. ASSUME NEW t \in Thread, SetJob(t) PROVE CursorsCovered'
  BY <1>10, <1>0, CursorsOfStores, NoNewCursor DEF SetJob, disk
<1>11. ASSUME NEW t \in Thread, AbandonOthers(t) PROVE CursorsCovered'
  BY <1>11, <1>0, CursorsOfStores, NoNewCursor DEF AbandonOthers, disk
<1>12. ASSUME NEW t \in Thread, InsertRecord(t) PROVE CursorsCovered'
  BY <1>12, <1>0, CursorsOfStores, NoNewCursor DEF InsertRecord, disk
<1>13. ASSUME NEW t \in Thread, Submit(t) PROVE CursorsCovered'
  <2>1. CASE UNCHANGED run
    BY <1>13, <2>1, <1>0, CursorsOfStores, NoNewCursor DEF Submit, disk
  <2>2. CASE run' = [run EXCEPT ![arg[t]] = [NoRun EXCEPT !.phase = "queued"]]
    <3>1. [NoRun EXCEPT !.phase = "queued"].cursor = 0
      BY DEF NoRun
    <3>2. UNCHANGED <<db, mem, stored, lost>>
      BY <1>13 DEF Submit, disk
    <3>3. QED
      BY <2>2, <3>1, <3>2, <1>0, CursorsOfWrites, CursorsOfRun, NoNewCursor
  <2>3. QED
    BY <1>13, <2>1, <2>2 DEF Submit
<1>14. ASSUME NEW t \in Thread, FreeRefused(t) PROVE CursorsCovered'
  BY <1>14, <1>0, CursorsOfStores, NoNewCursor DEF FreeRefused, disk
<1>15. ASSUME NEW t \in Thread, ReadJob(t) PROVE CursorsCovered'
  BY <1>15, <1>0, CursorsOfStores, NoNewCursor DEF ReadJob, disk
<1>16. ASSUME NEW t \in Thread, RecordRefused(t) PROVE CursorsCovered'
  BY <1>16, <1>0, CursorsOfStores, NoNewCursor DEF RecordRefused, disk
<1>17. ASSUME NEW t \in Thread, StopProgress(t) PROVE CursorsCovered'
  BY <1>17, <1>0, CursorsOfStores, NoNewCursor DEF StopProgress, disk
<1>18. ASSUME NEW t \in Thread, StopFlag(t) PROVE CursorsCovered'
  BY <1>18, <1>0, CursorsOfStores, NoNewCursor DEF StopFlag, disk
<1>19. ASSUME NEW t \in Thread, ResetProgress(t) PROVE CursorsCovered'
  BY <1>19, <1>0, CursorsOfStores, NoNewCursor DEF ResetProgress, disk
<1>20. ASSUME NEW t \in Thread, ResetRunning(t) PROVE CursorsCovered'
  BY <1>20, <1>0, CursorsOfStores, NoNewCursor DEF ResetRunning, disk
<1>21. ASSUME NEW t \in Thread, ResetStop(t) PROVE CursorsCovered'
  BY <1>21, <1>0, CursorsOfStores, NoNewCursor DEF ResetStop, disk
<1>22. ASSUME NEW t \in Thread, ResetJob(t) PROVE CursorsCovered'
  BY <1>22, <1>0, CursorsOfStores, NoNewCursor DEF ResetJob, disk
<1>23. ASSUME NEW j \in Job, LoadCheckpoint(j) PROVE CursorsCovered'
  <2>0. PICK c \in IF mem # NoMem THEN {mem} ELSE ReadCursor :
           run' = [run EXCEPT ![j].phase = "begin", ![j].cursor = c]
    BY <1>23 DEF LoadCheckpoint
  <2>1. c \in Cursors
    BY CursorsOfWrites DEF ReadCursor
  <2> DEFINE r == [run[j] EXCEPT !.phase = "begin", !.cursor = c]
  <2>2. r.cursor \in Cursors
    BY <1>0, <2>1 DEF RunRecord
  <2>3. run' = [run EXCEPT ![j] = r] /\ UNCHANGED <<stored, lost>>
    BY <1>23, <2>0 DEF LoadCheckpoint, disk
  <2>4. db'.cursor \in Cursors /\ mem' \in Cursors
    BY <1>23, CursorsOfWrites DEF LoadCheckpoint, disk
  <2>5. QED
    BY <1>0, <2>2, <2>3, <2>4, CursorsOfRun, NoNewCursor
<1>24. ASSUME NEW j \in Job, BeginRun(j) PROVE CursorsCovered'
  <2> DEFINE r == [run[j] EXCEPT !.phase = "loop"]
  <2>1. r.cursor \in Cursors
    BY <1>0, CursorsOfWrites DEF RunRecord
  <2>2. run' = [run EXCEPT ![j] = r] /\ UNCHANGED <<stored, lost>>
    BY <1>24 DEF BeginRun, RunGoto, disk
  <2>3. db'.cursor \in Cursors /\ mem' \in Cursors
    BY <1>24, CursorsOfWrites DEF BeginRun, disk
  <2>4. QED
    BY <1>0, <2>1, <2>2, <2>3, CursorsOfRun, NoNewCursor
<1>25. ASSUME NEW j \in Job, StopSeen(j) PROVE CursorsCovered'
  <2> DEFINE r == [run[j] EXCEPT !.phase = "end"]
  <2>1. r.cursor \in Cursors
    BY <1>0, CursorsOfWrites DEF RunRecord
  <2>2. run' = [run EXCEPT ![j] = r] /\ UNCHANGED <<stored, lost>>
    BY <1>25 DEF StopSeen, RunGoto, disk
  <2>3. db'.cursor \in Cursors /\ mem' \in Cursors
    BY <1>25, CursorsOfWrites DEF StopSeen, disk
  <2>4. QED
    BY <1>0, <2>1, <2>2, <2>3, CursorsOfRun, NoNewCursor
<1>26. ASSUME NEW j \in Job, FetchFails(j) PROVE CursorsCovered'
  <2> DEFINE r == [run[j] EXCEPT !.phase = "retry", !.fails = @ + 1]
  <2>1. r.cursor \in Cursors
    BY <1>0, CursorsOfWrites DEF RunRecord
  <2>2. run' = [run EXCEPT ![j] = r] /\ UNCHANGED <<stored, lost>>
    BY <1>26 DEF FetchFails, RunGoto, disk
  <2>3. db'.cursor \in Cursors /\ mem' \in Cursors
    BY <1>26, CursorsOfWrites DEF FetchFails, disk
  <2>4. QED
    BY <1>0, <2>1, <2>2, <2>3, CursorsOfRun, NoNewCursor
<1>27. ASSUME NEW j \in Job, FetchPage(j) PROVE CursorsCovered'
  <2>1. \A i \in Job : run'[i].cursor = run[i].cursor
    BY <1>27, <1>0 DEF FetchPage, RunRecord
  <2>2. Cursors' = Cursors /\ UNCHANGED <<stored, lost>>
    BY <1>27, <2>1 DEF FetchPage, Cursors, disk
  <2>3. QED
    BY <2>2, NoNewCursor
<1>28. ASSUME NEW j \in Job, RetryLater(j) PROVE CursorsCovered'
  <2> DEFINE r == [run[j] EXCEPT !.phase = IF run[j].fails >= MaxFailures THEN "giveup" ELSE "loop"]
  <2>1. r.cursor \in Cursors
    BY <1>0, CursorsOfWrites DEF RunRecord
  <2>2. run' = [run EXCEPT ![j] = r] /\ UNCHANGED <<stored, lost>>
    BY <1>28 DEF RetryLater, RunGoto, disk
  <2>3. db'.cursor \in Cursors /\ mem' \in Cursors
    BY <1>28, CursorsOfWrites DEF RetryLater, disk
  <2>4. QED
    BY <1>0, <2>1, <2>2, <2>3, CursorsOfRun, NoNewCursor
<1>29. ASSUME NEW j \in Job, GiveUp(j) PROVE CursorsCovered'
  <2> DEFINE r == [run[j] EXCEPT !.phase = "record", !.outcome = "network"]
  <2>1. r.cursor \in Cursors
    BY <1>0, CursorsOfWrites DEF RunRecord
  <2>2. run' = [run EXCEPT ![j] = r] /\ UNCHANGED <<stored, lost>>
    BY <1>29 DEF GiveUp, RunGoto, disk
  <2>3. db'.cursor \in Cursors /\ mem' \in Cursors
    BY <1>29, CursorsOfWrites DEF GiveUp, disk
  <2>4. QED
    BY <1>0, <2>1, <2>2, <2>3, CursorsOfRun, NoNewCursor
<1>30. ASSUME NEW j \in Job, StorePage(j) PROVE CursorsCovered'
  <2>1. run[j] \in RunRecord
    BY <1>0
  <2>2. PICK n \in Cursors : n = run[j].cursor
    BY CursorsOfWrites
  <2> DEFINE r == [run[j] EXCEPT !.phase = "mem", !.cursor = n + 1]
  <2>3. run' = [run EXCEPT ![j] = r] /\ r.cursor = n + 1
    BY <1>30, <2>1, <2>2 DEF StorePage, RunRecord
  <2>4. /\ n + 1 \in stored' \cup lost' /\ stored \cup lost \subseteq stored' \cup lost'
        /\ UNCHANGED <<db, mem>>
    BY <1>30, <2>2 DEF StorePage, PageUpserted, PageMissing
  <2>5. \A q \in 1..Pages : q <= n + 1 => q <= n \/ q = n + 1
    BY <2>1, <2>2 DEF RunRecord
  <2>6. Covered(n + 1)'
    BY <2>2, <2>4, <2>5 DEF CursorsCovered, Covered
  <2>7. Cursors' \subseteq Cursors \cup {n + 1}
    BY <2>3, <2>4, <1>0 DEF Cursors
  <2>8. \A c \in Cursors : Covered(c)'
    BY <2>4 DEF CursorsCovered, Covered
  <2>9. QED
    BY <2>6, <2>7, <2>8 DEF CursorsCovered
<1>31. ASSUME NEW j \in Job, Remember(j) PROVE CursorsCovered'
  <2> DEFINE r == [run[j] EXCEPT !.phase = "save"]
  <2>1. r.cursor \in Cursors
    BY <1>0, CursorsOfWrites DEF RunRecord
  <2>2. run' = [run EXCEPT ![j] = r] /\ UNCHANGED <<stored, lost>>
    BY <1>31 DEF Remember, RunGoto, disk
  <2>3. db'.cursor \in Cursors /\ mem' \in Cursors
    BY <1>31, CursorsOfWrites DEF Remember, disk
  <2>4. QED
    BY <1>0, <2>1, <2>2, <2>3, CursorsOfRun, NoNewCursor
<1>32. ASSUME NEW j \in Job, SavePage(j) PROVE CursorsCovered'
  <2> DEFINE r == [run[j] EXCEPT !.phase = IF run[j].more THEN "loop" ELSE "end", !.more = FALSE]
  <2>1. r.cursor \in Cursors
    BY <1>0, CursorsOfWrites DEF RunRecord
  <2>2. run' = [run EXCEPT ![j] = r] /\ UNCHANGED <<stored, lost>>
    BY <1>32 DEF SavePage, RunGoto, disk
  <2>3. db'.cursor \in Cursors /\ mem' \in Cursors
    BY <1>32, CursorsOfWrites DEF SavePage, disk
  <2>4. QED
    BY <1>0, <2>1, <2>2, <2>3, CursorsOfRun, NoNewCursor
<1>33. ASSUME NEW j \in Job, EndDone(j) PROVE CursorsCovered'
  <2> DEFINE r == [run[j] EXCEPT !.phase = "record", !.outcome = "done"]
  <2>1. r.cursor \in Cursors
    BY <1>0, CursorsOfWrites DEF RunRecord
  <2>2. run' = [run EXCEPT ![j] = r] /\ UNCHANGED <<stored, lost>>
    BY <1>33 DEF EndDone, RunGoto, disk
  <2>3. db'.cursor \in Cursors /\ mem' \in Cursors
    BY <1>33, CursorsOfWrites DEF EndDone, disk
  <2>4. QED
    BY <1>0, <2>1, <2>2, <2>3, CursorsOfRun, NoNewCursor
<1>34. ASSUME NEW j \in Job, EndStopped(j) PROVE CursorsCovered'
  <2> DEFINE r == [run[j] EXCEPT !.phase = "record", !.outcome = "stopped"]
  <2>1. r.cursor \in Cursors
    BY <1>0, CursorsOfWrites DEF RunRecord
  <2>2. run' = [run EXCEPT ![j] = r] /\ UNCHANGED <<stored, lost>>
    BY <1>34 DEF EndStopped, RunGoto, disk
  <2>3. db'.cursor \in Cursors /\ mem' \in Cursors
    BY <1>34, CursorsOfWrites DEF EndStopped, disk
  <2>4. QED
    BY <1>0, <2>1, <2>2, <2>3, CursorsOfRun, NoNewCursor
<1>35. ASSUME NEW j \in Job, ReadOwnJob(j) PROVE CursorsCovered'
  <2> DEFINE r == [run[j] EXCEPT !.phase = IF jobId = NoJob THEN "free" ELSE "write", !.job = jobId]
  <2>1. r.cursor \in Cursors
    BY <1>0, CursorsOfWrites DEF RunRecord
  <2>2. run' = [run EXCEPT ![j] = r] /\ UNCHANGED <<stored, lost>>
    BY <1>35 DEF ReadOwnJob, RunGoto, disk
  <2>3. db'.cursor \in Cursors /\ mem' \in Cursors
    BY <1>35, CursorsOfWrites DEF ReadOwnJob, disk
  <2>4. QED
    BY <1>0, <2>1, <2>2, <2>3, CursorsOfRun, NoNewCursor
<1>36. ASSUME NEW j \in Job, WriteOutcome(j) PROVE CursorsCovered'
  <2> DEFINE r == [run[j] EXCEPT !.phase = "free"]
  <2>1. r.cursor \in Cursors
    BY <1>0, CursorsOfWrites DEF RunRecord
  <2>2. run' = [run EXCEPT ![j] = r] /\ UNCHANGED <<stored, lost>>
    BY <1>36 DEF WriteOutcome, RunGoto, disk
  <2>3. db'.cursor \in Cursors /\ mem' \in Cursors
    BY <1>36, CursorsOfWrites DEF WriteOutcome, disk
  <2>4. QED
    BY <1>0, <2>1, <2>2, <2>3, CursorsOfRun, NoNewCursor
<1>37. ASSUME NEW j \in Job, ReleaseRun(j) PROVE CursorsCovered'
  <2> DEFINE r == NoRun
  <2>1. r.cursor \in Cursors
    BY CursorsOfWrites DEF NoRun
  <2>2. run' = [run EXCEPT ![j] = r] /\ UNCHANGED <<stored, lost>>
    BY <1>37 DEF ReleaseRun, RunGoto, disk
  <2>3. db'.cursor \in Cursors /\ mem' \in Cursors
    BY <1>37, CursorsOfWrites DEF ReleaseRun, disk
  <2>4. QED
    BY <1>0, <2>1, <2>2, <2>3, CursorsOfRun, NoNewCursor
<1>38. CASE Resume
  BY <1>38, <1>0, CursorsOfStores, NoNewCursor DEF Resume, disk
<1>39. CASE RequestStop
  BY <1>39, <1>0, CursorsOfStores, NoNewCursor DEF RequestStop, disk
<1>40. CASE RequestStopFlag
  BY <1>40, <1>0, CursorsOfStores, NoNewCursor DEF RequestStopFlag, disk
<1>41. CASE ClosePool
  BY <1>41, <1>0, CursorsOfStores, NoNewCursor DEF ClosePool, disk
<1>42. CASE WaitIdle
  BY <1>42, <1>0, CursorsOfStores, NoNewCursor DEF WaitIdle, disk
<1>43. CASE Exit
  BY <1>43, ForgetCovered DEF Exit
<1>44. CASE Crash
  BY <1>44, ForgetCovered DEF Crash
<1>45. CASE Restart
  BY <1>45, <1>0, CursorsOfStores, NoNewCursor DEF Restart, disk
<1>46. CASE UNCHANGED vars
  BY <1>46, <1>0, CursorsOfStores, NoNewCursor DEF vars, disk
<1>. QED
  BY <1>1, <1>2, <1>3, <1>4, <1>5, <1>6, <1>7, <1>8, <1>9, <1>10, <1>11, <1>12,
    <1>13, <1>14, <1>15, <1>16, <1>17, <1>18, <1>19, <1>20, <1>21, <1>22, <1>23,
    <1>24, <1>25, <1>26, <1>27, <1>28, <1>29, <1>30, <1>31, <1>32, <1>33, <1>34,
    <1>35, <1>36, <1>37, <1>38, <1>39, <1>40, <1>41, <1>42, <1>43, <1>44, <1>45,
    <1>46 DEF Next, TriggerStep, OtherStep, RunStep, Shutdown

(* The inductive invariant of this module.                                 *)
DataInv == TypeOK /\ RunBounds /\ CursorsCovered

(* DataInv holds in every reachable state of OzonSync.                     *)
THEOREM DataInvariant == SafeSpec => []DataInv
<1>1. Init => DataInv
  <2> SUFFICES ASSUME Init PROVE DataInv
    OBVIOUS
  <2> USE OzonAssumption
  <2>1. \A j \in Job : run[j] = NoRun
    BY DEF Init
  <2>2. run \in [Job -> RunRecord] /\ RunBounds
    BY <2>1, NoRunOK DEF Init, RunBounds
  <2>3. db \in DbRow
    <3>1. 0 \in 0..Pages /\ "absent" \in DbStatus
      BY DEF DbStatus
    <3>2. QED
      BY <3>1, Zenon DEF Init, DbRow
  <2>4. pc \in [Thread -> Pcs] /\ rec \in [Job -> RecStatus]
    BY DEF Init, Pcs, RecStatus
  <2>5. /\ mem \in NoMem..Pages /\ jobId \in 0..MaxJobs /\ progress \in Progress
        /\ arg \in [Thread -> 0..MaxJobs] /\ ids \in 0..MaxJobs /\ restarts \in 0..MaxRestarts
    <3>1. /\ -1 \in -1..Pages /\ 0 \in 0..MaxJobs /\ 0 \in 0..MaxRestarts
          /\ "" \in Progress
      BY DEF Progress
    <3>2. QED
      BY <3>1 DEF Init, NoMem, NoJob
  <2>6. TypeOK
    BY <2>2, <2>3, <2>4, <2>5 DEF Init, TypeOK
  <2>7. db.cursor = 0 /\ mem = NoMem /\ \A j \in Job : run[j].cursor = 0
    BY <2>1 DEF Init, NoRun
  <2>8. Cursors \subseteq {0, NoMem}
    BY <2>7 DEF Cursors
  <2>9. QED
    BY <2>2, <2>6, <2>8 DEF DataInv, CursorsCovered, Covered, NoMem
<1>2. DataInv /\ [Next]_vars => DataInv'
  BY TypeStep, CoveredStep DEF DataInv
<1>3. QED
  BY <1>1, <1>2, PTL DEF SafeSpec

(* The variables have their types; in particular a run never counts more   *)
(* than MAX_CONSECUTIVE_FAILURES failures in a row.                        *)
THEOREM TypeCorrect == SafeSpec => []TypeOK
  BY DataInvariant, PTL DEF DataInv

(* The checkpoint of run_ozon_sync, on disk or in memory, never runs ahead *)
(* of the pages it has handled, whatever is reset, wiped, refused, lost by *)
(* the database, crashed or restarted.                                     *)
THEOREM CheckpointIsCovered == SafeSpec => []CheckpointCovered
<1>1. DataInv => CheckpointCovered
  BY DEF DataInv, CursorsCovered, Covered, Cursors, CheckpointCovered
<1>2. QED
  BY <1>1, DataInvariant, PTL
=============================================================================

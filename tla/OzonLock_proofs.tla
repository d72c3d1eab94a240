-------------------------- MODULE OzonLock_proofs --------------------------
(***************************************************************************)
(* Proofs about mutual exclusion in the Ozon sync, and about what the      *)
(* records, the checkpoint and the shown progress say of it.  Except for   *)
(* NoGhost, they assume that POST /api/sync/reset is not used, because it  *)
(* clears ozon_running_ under a live run.                                  *)
(***************************************************************************)
EXTENDS OzonSync_proofs

(* Without resets no caller is inside the reset handler.                   *)
NoReset == \A t \in Thread :
             pc[t] \notin {"rst_progress", "rst_running", "rst_stop", "rst_job"}

(* ozon_running_ is set while a trigger or a run owns the service.         *)
Busy == /\ \A t \in Thread : Owner(t) => ozonRunning
        /\ \A j \in Job : Active(j) => ozonRunning

(* ozon_job_id_ is the job of the owner, from the moment it is set.        *)
OwnJob ==
    /\ \A t \in Thread : pc[t] \in {"abandon", "insert", "submit"} => jobId = arg[t]
    /\ \A j \in Job : Active(j) => jobId = j

(* The inductive strengthening of OneRun and FinishOwnRecord.              *)
LockInv == OneRun /\ Busy /\ NoReset /\ OwnJob /\ FinishOwnRecord

(* What a step of run_ozon_sync may change that the lock depends on.       *)
LEMMA RunFrame ==
    ASSUME TypeOK, NEW j \in Job, RunStep(j)
    PROVE  /\ \A i \in Job : i # j => run'[i] = run[i]
           /\ Active(j)
           /\ run'[j].phase = "none" => ReleaseRun(j)
           /\ run'[j].phase = "write" => run'[j].job = jobId
           /\ UNCHANGED <<pc, arg, jobId, ozonStop>>
           /\ ozonRunning' = ozonRunning \/ ReleaseRun(j)
<1>0. run \in [Job -> RunRecord] /\ run[j] \in RunRecord
  BY DEF TypeOK
<1>1. CASE LoadCheckpoint(j)
  <2>1. \A i \in Job : i # j => run'[i] = run[i]
    BY <1>1, <1>0 DEF LoadCheckpoint, RunGoto
  <2>2. run'[j].phase = "begin"
    BY <1>1, <1>0 DEF LoadCheckpoint, RunGoto, RunRecord
  <2>3. run[j].phase # "none" /\ UNCHANGED <<pc, arg, flags>>
    BY <1>1 DEF LoadCheckpoint, RunGoto, InPhase
  <2>4. QED
    BY <2>1, <2>2, <2>3 DEF Active, flags
<1>2. CASE BeginRun(j)
  <2>1. \A i \in Job : i # j => run'[i] = run[i]
    BY <1>2, <1>0 DEF BeginRun, RunGoto
  <2>2. run'[j].phase = "loop"
    BY <1>2, <1>0 DEF BeginRun, RunGoto, RunRecord
  <2>3. run[j].phase # "none" /\ UNCHANGED <<pc, arg, flags>>
    BY <1>2 DEF BeginRun, RunGoto, InPhase
  <2>4. QED
    BY <2>1, <2>2, <2>3 DEF Active, flags
<1>3. CASE StopSeen(j)
  <2>1. \A i \in Job : i # j => run'[i] = run[i]
    BY <1>3, <1>0 DEF StopSeen, RunGoto
  <2>2. run'[j].phase = "end"
    BY <1>3, <1>0 DEF StopSeen, RunGoto, RunRecord
  <2>3. run[j].phase # "none" /\ UNCHANGED <<pc, arg, flags>>
    BY <1>3 DEF StopSeen, RunGoto, InPhase
  <2>4. QED
    BY <2>1, <2>2, <2>3 DEF Active, flags
<1>4. CASE FetchFails(j)
  <2>1. \A i \in Job : i # j => run'[i] = run[i]
    BY <1>4, <1>0 DEF FetchFails, RunGoto
  <2>2. run'[j].phase = "retry"
    BY <1>4, <1>0 DEF FetchFails, RunGoto, RunRecord
  <2>3. run[j].phase # "none" /\ UNCHANGED <<pc, arg, flags>>
    BY <1>4 DEF FetchFails, RunGoto, InPhase
  <2>4. QED
    BY <2>1, <2>2, <2>3 DEF Active, flags
<1>5. CASE FetchPage(j)
  <2>1. \A i \in Job : i # j => run'[i] = run[i]
    BY <1>5, <1>0 DEF FetchPage, RunGoto
  <2>2. run'[j].phase \in {"end", "store"}
    BY <1>5, <1>0 DEF FetchPage, RunGoto, RunRecord
  <2>3. run[j].phase # "none" /\ UNCHANGED <<pc, arg, flags>>
    BY <1>5 DEF FetchPage, RunGoto, InPhase
  <2>4. QED
    BY <2>1, <2>2, <2>3 DEF Active, flags
<1>6. CASE RetryLater(j)
  <2>1. \A i \in Job : i # j => run'[i] = run[i]
    BY <1>6, <1>0 DEF RetryLater, RunGoto
  <2>2. run'[j].phase = IF run[j].fails >= MaxFailures THEN "giveup" ELSE "loop"
    BY <1>6, <1>0 DEF RetryLater, RunGoto, RunRecord
  <2>3. run[j].phase # "none" /\ UNCHANGED <<pc, arg, flags>>
    BY <1>6 DEF RetryLater, RunGoto, InPhase
  <2>4. QED
    BY <2>1, <2>2, <2>3 DEF Active, flags
<1>7. CASE GiveUp(j)
  <2>1. \A i \in Job : i # j => run'[i] = run[i]
    BY <1>7, <1>0 DEF GiveUp, RunGoto
  <2>2. run'[j].phase = "record"
    BY <1>7, <1>0 DEF GiveUp, RunGoto, RunRecord
  <2>3. run[j].phase # "none" /\ UNCHANGED <<pc, arg, flags>>
    BY <1>7 DEF GiveUp, RunGoto, InPhase
  <2>4. QED
    BY <2>1, <2>2, <2>3 DEF Active, flags
<1>8. CASE StorePage(j)
  <2>1. \A i \in Job : i # j => run'[i] = run[i]
    BY <1>8, <1>0 DEF StorePage, RunGoto
  <2>2. run'[j].phase = "mem"
    BY <1>8, <1>0 DEF StorePage, RunGoto, RunRecord
  <2>3. run[j].phase # "none" /\ UNCHANGED <<pc, arg, flags>>
    BY <1>8 DEF StorePage, RunGoto, InPhase
  <2>4. QED
    BY <2>1, <2>2, <2>3 DEF Active, flags
<1>9. CASE Remember(j)
  <2>1. \A i \in Job : i # j => run'[i] = run[i]
    BY <1>9, <1>0 DEF Remember, RunGoto
  <2>2. run'[j].phase = "save"
    BY <1>9, <1>0 DEF Remember, RunGoto, RunRecord
  <2>3. run[j].phase # "none" /\ UNCHANGED <<pc, arg, flags>>
    BY <1>9 DEF Remember, RunGoto, InPhase
  <2>4. QED
    BY <2>1, <2>2, <2>3 DEF Active, flags
<1>10. CASE SavePage(j)
  <2>1. \A i \in Job : i # j => run'[i] = run[i]
    BY <1>10, <1>0 DEF SavePage, RunGoto
  <2>2. run'[j].phase = IF run[j].more THEN "loop" ELSE "end"
    BY <1>10, <1>0 DEF SavePage, RunGoto, RunRecord
  <2>3. run[j].phase # "none" /\ UNCHANGED <<pc, arg, flags>>
    BY <1>10 DEF SavePage, RunGoto, InPhase
  <2>4. QED
    BY <2>1, <2>2, <2>3 DEF Active, flags
<1>11. CASE EndDone(j)
  <2>1. \A i \in Job : i # j => run'[i] = run[i]
    BY <1>11, <1>0 DEF EndDone, RunGoto
  <2>2. run'[j].phase = "record"
    BY <1>11, <1>0 DEF EndDone, RunGoto, RunRecord
  <2>3. run[j].phase # "none" /\ UNCHANGED <<pc, arg, flags>>
    BY <1>11 DEF EndDone, RunGoto, InPhase
  <2>4. QED
    BY <2>1, <2>2, <2>3 DEF Active, flags
<1>12. CASE EndStopped(j)
  <2>1. \A i \in Job : i # j => run'[i] = run[i]
    BY <1>12, <1>0 DEF EndStopped, RunGoto
  <2>2. run'[j].phase = "record"
    BY <1>12, <1>0 DEF EndStopped, RunGoto, RunRecord
  <2>3. run[j].phase # "none" /\ UNCHANGED <<pc, arg, flags>>
    BY <1>12 DEF EndStopped, RunGoto, InPhase
  <2>4. QED
    BY <2>1, <2>2, <2>3 DEF Active, flags
<1>13. CASE ReadOwnJob(j)
  <2>1. \A i \in Job : i # j => run'[i] = run[i]
    BY <1>13, <1>0 DEF ReadOwnJob, RunGoto
  <2>2. run'[j].phase = (IF jobId = NoJob THEN "free" ELSE "write") /\ run'[j].job = jobId
    BY <1>13, <1>0 DEF ReadOwnJob, RunGoto, RunRecord
  <2>3. run[j].phase # "none" /\ UNCHANGED <<pc, arg, flags>>
    BY <1>13 DEF ReadOwnJob, RunGoto, InPhase
  <2>4. QED
    BY <2>1, <2>2, <2>3 DEF Active, flags
<1>14. CASE WriteOutcome(j)
  <2>1. \A i \in Job : i # j => run'[i] = run[i]
    BY <1>14, <1>0 DEF WriteOutcome, RunGoto
  <2>2. run'[j].phase = "free"
    BY <1>14, <1>0 DEF WriteOutcome, RunGoto, RunRecord
  <2>3. run[j].phase # "none" /\ UNCHANGED <<pc, arg, flags>>
    BY <1>14 DEF WriteOutcome, RunGoto, InPhase
  <2>4. QED
    BY <2>1, <2>2, <2>3 DEF Active, flags
<1>15. CASE ReleaseRun(j)
  BY <1>15, <1>0 DEF ReleaseRun, Active, InPhase, NoRun, flags, disk
<1>. QED
  BY <1>1, <1>2, <1>3, <1>4, <1>5, <1>6, <1>7, <1>8, <1>9, <1>10, <1>11, <1>12,
    <1>13, <1>14, <1>15 DEF RunStep

(* LockInv is preserved by every step: one case per action of a thread or  *)
(* of main, two for the steps of a run.                                    *)
LEMMA LockStep ==
    ASSUME "reset" \notin Ops, TypeOK, LockInv, [Next]_vars
    PROVE  LockInv'
<1>0. /\ run \in [Job -> RunRecord] /\ pc \in [Thread -> Pcs]
      /\ arg \in [Thread -> 0..MaxJobs]
  BY DEF TypeOK
<1>1. ASSUME NEW t \in Thread, Trigger(t) PROVE LockInv'
  BY <1>1, <1>0 DEF Trigger, Goto, flags, disk, life, LockInv, OneRun, Busy, NoReset,
    OwnJob, FinishOwnRecord, Owner, Active, InPhase, TriggerPcs
<1>2. ASSUME NEW t \in Thread, TriggerFull(t) PROVE LockInv'
  BY <1>2, <1>0 DEF TriggerFull, Goto, flags, disk, life, LockInv, OneRun, Busy,
    NoReset, OwnJob, FinishOwnRecord, Owner, Active, InPhase, TriggerPcs
<1>3. ASSUME NEW t \in Thread, StopOzon(t) PROVE LockInv'
  BY <1>3, <1>0 DEF StopOzon, Goto, flags, disk, life, LockInv, OneRun, Busy,
    NoReset, OwnJob, FinishOwnRecord, Owner, Active, InPhase, TriggerPcs
<1>4. ASSUME NEW t \in Thread, Reset(t) PROVE LockInv'
  BY <1>4, <1>0 DEF Reset, Goto, flags, disk, life, LockInv, OneRun, Busy, NoReset,
    OwnJob, FinishOwnRecord, Owner, Active, InPhase, TriggerPcs
<1>5. ASSUME NEW t \in Thread, WipeDb(t) PROVE LockInv'
  BY <1>5, <1>0 DEF WipeDb, Goto, flags, disk, life, LockInv, OneRun, Busy, NoReset,
    OwnJob, FinishOwnRecord, Owner, Active, InPhase, TriggerPcs
<1>6. ASSUME NEW t \in Thread, WipeMem(t) PROVE LockInv'
  BY <1>6, <1>0 DEF WipeMem, Goto, flags, disk, life, LockInv, OneRun, Busy, NoReset,
    OwnJob, FinishOwnRecord, Owner, Active, InPhase, TriggerPcs
<1>7. ASSUME NEW t \in Thread, CheckShutdown(t) PROVE LockInv'
  BY <1>7, <1>0 DEF CheckShutdown, Goto, flags, disk, life, LockInv, OneRun, Busy,
    NoReset, OwnJob, FinishOwnRecord, Owner, Active, InPhase, TriggerPcs
<1>8. ASSUME NEW t \in Thread, ClaimRun(t) PROVE LockInv'
  BY <1>8, <1>0 DEF ClaimRun, Goto, flags, disk, life, LockInv, OneRun, Busy,
    NoReset, OwnJob, FinishOwnRecord, Owner, Active, InPhase, TriggerPcs
<1>9. ASSUME NEW t \in Thread, ClearStop(t) PROVE LockInv'
  BY <1>9, <1>0 DEF ClearStop, Goto, flags, disk, life, LockInv, OneRun, Busy,
    NoReset, OwnJob, FinishOwnRecord, Owner, Active, InPhase, TriggerPcs
<1>10. ASSUME NEW t \in Thread, SetJob(t) PROVE LockInv'
  BY <1>10, <1>0 DEF SetJob, Goto, flags, disk, life, LockInv, OneRun, Busy, NoReset,
    OwnJob, FinishOwnRecord, Owner, Active, InPhase, TriggerPcs
<1>11. ASSUME NEW t \in Thread, AbandonOthers(t) PROVE LockInv'
  BY <1>11, <1>0 DEF AbandonOthers, Goto, flags, disk, life, LockInv, OneRun, Busy,
    NoReset, OwnJob, FinishOwnRecord, Owner, Active, InPhase, TriggerPcs
<1>12. ASSUME NEW t \in Thread, InsertRecord(t) PROVE LockInv'
  BY <1>12, <1>0 DEF InsertRecord, Goto, flags, disk, life, LockInv, OneRun, Busy,
    NoReset, OwnJob, FinishOwnRecord, Owner, Active, InPhase, TriggerPcs
<1>13. ASSUME NEW t \in Thread, Submit(t) PROVE LockInv'
  <2>1. CASE UNCHANGED run /\ Goto(t, "submit", "free")
    BY <1>13, <1>0, <2>1 DEF Submit, Goto, flags, LockInv, OneRun, Busy, NoReset,
      OwnJob, FinishOwnRecord, Owner, Active, InPhase, TriggerPcs
  <2>2. CASE /\ run' = [run EXCEPT ![arg[t]] = [NoRun EXCEPT !.phase = "queued"]]
             /\ Goto(t, "submit", "idle") /\ arg' = [arg EXCEPT ![t] = NoJob]
    <3>1. \A i \in Job : ~Active(i) /\ run'[i] = IF i = arg[t] THEN [NoRun EXCEPT !.phase = "queued"] ELSE run[i]
      BY <1>0, <2>2 DEF LockInv, OneRun, Owner, TriggerPcs, Goto
    <3>2. \A i \in Job : Active(i)' => i = jobId
      BY <3>1, <2>2 DEF Active, LockInv, OwnJob, Goto
    <3>3. \A i \in Job : run'[i].phase # "write"
      BY <3>1 DEF Active, NoRun, LockInv, FinishOwnRecord, InPhase
    <3>4. /\ \A s \in Thread : pc'[s] = IF s = t THEN "idle" ELSE pc[s]
          /\ \A s \in Thread : s # t => arg'[s] = arg[s]
          /\ Owner(t)
      BY <1>0, <2>2 DEF Goto, Owner, TriggerPcs
    <3>5. UNCHANGED flags
      BY <1>13 DEF Submit
    <3>6. \A s \in Thread : ~Owner(s)'
      BY <3>4 DEF Owner, LockInv, OneRun, TriggerPcs
    <3>7. OneRun' /\ Busy'
      BY <3>2, <3>4, <3>5, <3>6 DEF OneRun, Busy, flags, LockInv
    <3>8. OwnJob' /\ NoReset' /\ FinishOwnRecord'
      BY <3>2, <3>3, <3>4, <3>5, <3>6 DEF OwnJob, NoReset, FinishOwnRecord, InPhase,
        flags, LockInv, Owner, TriggerPcs
    <3>9. QED
      BY <3>7, <3>8 DEF LockInv
  <2>3. QED
    BY <1>13, <2>1, <2>2 DEF Submit
<1>14. ASSUME NEW t \in Thread, FreeRefused(t) PROVE LockInv'
  BY <1>14, <1>0 DEF FreeRefused, Goto, flags, disk, life, LockInv, OneRun, Busy,
    NoReset, OwnJob, FinishOwnRecord, Owner, Active, InPhase, TriggerPcs
<1>15. ASSUME NEW t \in Thread, ReadJob(t) PROVE LockInv'
  BY <1>15, <1>0 DEF ReadJob, Goto, flags, disk, life, LockInv, OneRun, Busy,
    NoReset, OwnJob, FinishOwnRecord, Owner, Active, InPhase, TriggerPcs
<1>16. ASSUME NEW t \in Thread, RecordRefused(t) PROVE LockInv'
  BY <1>16, <1>0 DEF RecordRefused, Goto, flags, disk, life, LockInv, OneRun, Busy,
    NoReset, OwnJob, FinishOwnRecord, Owner, Active, InPhase, TriggerPcs
<1>17. ASSUME NEW t \in Thread, StopProgress(t) PROVE LockInv'
  BY <1>17, <1>0 DEF StopProgress, Goto, flags, disk, life, LockInv, OneRun, Busy,
    NoReset, OwnJob, FinishOwnRecord, Owner, Active, InPhase, TriggerPcs
<1>18. ASSUME NEW t \in Thread, StopFlag(t) PROVE LockInv'
  BY <1>18, <1>0 DEF StopFlag, Goto, flags, disk, life, LockInv, OneRun, Busy,
    NoReset, OwnJob, FinishOwnRecord, Owner, Active, InPhase, TriggerPcs
<1>19. ASSUME NEW t \in Thread, ResetProgress(t) PROVE LockInv'
  BY <1>19, <1>0 DEF ResetProgress, Goto, flags, disk, life, LockInv, OneRun, Busy,
    NoReset, OwnJob, FinishOwnRecord, Owner, Active, InPhase, TriggerPcs
<1>20. ASSUME NEW t \in Thread, ResetRunning(t) PROVE LockInv'
  BY <1>20, <1>0 DEF ResetRunning, Goto, flags, disk, life, LockInv, OneRun, Busy,
    NoReset, OwnJob, FinishOwnRecord, Owner, Active, InPhase, TriggerPcs
<1>21. ASSUME NEW t \in Thread, ResetStop(t) PROVE LockInv'
  BY <1>21, <1>0 DEF ResetStop, Goto, flags, disk, life, LockInv, OneRun, Busy,
    NoReset, OwnJob, FinishOwnRecord, Owner, Active, InPhase, TriggerPcs
<1>22. ASSUME NEW t \in Thread, ResetJob(t) PROVE LockInv'
  BY <1>22, <1>0 DEF ResetJob, Goto, flags, disk, life, LockInv, OneRun, Busy,
    NoReset, OwnJob, FinishOwnRecord, Owner, Active, InPhase, TriggerPcs
<1>23. ASSUME NEW j \in Job, RunStep(j), ~ReleaseRun(j) PROVE LockInv'
  <2>1. /\ \A i \in Job : i # j => run'[i] = run[i]
        /\ Active(j) /\ run'[j].phase # "none"
        /\ run'[j].phase = "write" => run'[j].job = jobId
        /\ UNCHANGED <<pc, arg, jobId, ozonRunning>>
    BY <1>23, RunFrame
  <2>2. \A i \in Job : run'[i].phase # "none" => Active(i)
    BY <2>1 DEF Active
  <2>3. OneRun' /\ Busy'
    BY <2>1, <2>2 DEF LockInv, OneRun, Busy, Owner, Active
  <2>4. OwnJob' /\ NoReset'
    BY <2>1, <2>2 DEF LockInv, OwnJob, NoReset, Active
  <2>5. FinishOwnRecord'
    <3>1. ASSUME NEW i \in Job, run'[i].phase = "write" PROVE run'[i].job = i
      <4>1. Active(i) /\ jobId = i
        BY <2>2, <3>1 DEF LockInv, OwnJob
      <4>2. QED
        BY <2>1, <3>1, <4>1 DEF LockInv, FinishOwnRecord, InPhase
    <3>2. QED
      BY <3>1 DEF FinishOwnRecord, InPhase
  <2>6. QED
    BY <2>3, <2>4, <2>5 DEF LockInv
<1>24. ASSUME NEW j \in Job, ReleaseRun(j) PROVE LockInv'
  <2>1. run' = [run EXCEPT ![j] = NoRun] /\ Active(j) /\ UNCHANGED <<pc, arg, jobId>>
    BY <1>24 DEF ReleaseRun, InPhase, Active
  <2>2. \A i \in Job : run'[i] = IF i = j THEN NoRun ELSE run[i]
    BY <2>1, <1>0
  <2>3. \A i \in Job : run'[i].phase = "none"
    BY <2>1, <2>2 DEF Active, LockInv, OneRun, NoRun
  <2>4. \A t \in Thread : ~Owner(t)
    BY <2>1 DEF LockInv, OneRun
  <2>5. QED
    BY <2>1, <2>3, <2>4 DEF LockInv, OneRun, Busy, NoReset, OwnJob, FinishOwnRecord,
      Owner, Active, InPhase, TriggerPcs
<1>25. CASE Resume
  BY <1>25, <1>0 DEF Resume, Goto, flags, disk, life, LockInv, OneRun, Busy, NoReset,
    OwnJob, FinishOwnRecord, Owner, Active, InPhase, TriggerPcs
<1>26. CASE RequestStop
  BY <1>26, <1>0 DEF RequestStop, Goto, flags, disk, life, LockInv, OneRun, Busy,
    NoReset, OwnJob, FinishOwnRecord, Owner, Active, InPhase, TriggerPcs
<1>27. CASE RequestStopFlag
  BY <1>27, <1>0 DEF RequestStopFlag, Goto, flags, disk, life, LockInv, OneRun, Busy,
    NoReset, OwnJob, FinishOwnRecord, Owner, Active, InPhase, TriggerPcs
<1>28. CASE ClosePool
  BY <1>28, <1>0 DEF ClosePool, Goto, flags, disk, life, LockInv, OneRun, Busy,
    NoReset, OwnJob, FinishOwnRecord, Owner, Active, InPhase, TriggerPcs
<1>29. CASE WaitIdle
  BY <1>29, <1>0 DEF WaitIdle, Goto, flags, disk, life, LockInv, OneRun, Busy,
    NoReset, OwnJob, FinishOwnRecord, Owner, Active, InPhase, TriggerPcs
<1>30. CASE Exit
  <2>1. /\ \A t \in Thread : pc'[t] = "idle"
        /\ \A j \in Job : run'[j].phase = "none"
    BY <1>30 DEF Exit, Forget, NoRun
  <2>2. QED
    BY <2>1 DEF LockInv, OneRun, Busy, NoReset, OwnJob, FinishOwnRecord, Owner,
      Active, InPhase, TriggerPcs
<1>31. CASE Crash
  <2>1. /\ \A t \in Thread : pc'[t] = "idle"
        /\ \A j \in Job : run'[j].phase = "none"
    BY <1>31 DEF Crash, Forget, NoRun
  <2>2. QED
    BY <2>1 DEF LockInv, OneRun, Busy, NoReset, OwnJob, FinishOwnRecord, Owner,
      Active, InPhase, TriggerPcs
<1>32. CASE Restart
  BY <1>32, <1>0 DEF Restart, Goto, flags, disk, life, LockInv, OneRun, Busy,
    NoReset, OwnJob, FinishOwnRecord, Owner, Active, InPhase, TriggerPcs
<1>33. CASE UNCHANGED vars
  BY <1>33 DEF vars, flags, LockInv, OneRun, Busy, NoReset, OwnJob, FinishOwnRecord,
    Owner, Active, InPhase, TriggerPcs
<1>. QED
  BY <1>1, <1>2, <1>3, <1>4, <1>5, <1>6, <1>7, <1>8, <1>9, <1>10, <1>11, <1>12,
    <1>13, <1>14, <1>15, <1>16, <1>17, <1>18, <1>19, <1>20, <1>21, <1>22, <1>23,
    <1>24, <1>25, <1>26, <1>27, <1>28, <1>29, <1>30, <1>31, <1>32, <1>33 DEF Next,
    TriggerStep, OtherStep, Shutdown

(* LockInv holds in every reachable state when resets are not used.        *)
THEOREM LockInvariant ==
    ASSUME "reset" \notin Ops
    PROVE  SafeSpec => [](DataInv /\ LockInv)
<1>1. Init => LockInv
  <2> SUFFICES ASSUME Init PROVE LockInv
    OBVIOUS
  <2>1. /\ \A t \in Thread : pc[t] \in {"resume", "idle"}
        /\ \A j \in Job : run[j].phase = "none"
    BY DEF Init, NoRun
  <2>2. QED
    BY <2>1 DEF LockInv, OneRun, Busy, NoReset, OwnJob, FinishOwnRecord, Owner,
      Active, InPhase, TriggerPcs
<1>2. DataInv /\ LockInv /\ [Next]_vars => LockInv'
  BY LockStep DEF DataInv
<1>3. QED
  BY <1>1, <1>2, DataInvariant, PTL DEF SafeSpec

(* trigger_ozon_sync lets one run exist at a time (OneRun).                *)
THEOREM OneRunAtATime ==
    ASSUME "reset" \notin Ops
    PROVE  SafeSpec => []OneRun
  BY LockInvariant, PTL DEF LockInv

(* run_ozon_sync finishes the record of its own job (FinishOwnRecord),     *)
(* although it reads the job id from a variable all triggers share.        *)
THEOREM OwnRecordOnly ==
    ASSUME "reset" \notin Ops
    PROVE  SafeSpec => []FinishOwnRecord
  BY LockInvariant, PTL DEF LockInv

(* Nothing clears ozon_stop_ while a run is queued or in its loop          *)
(* (StopNotLost): the one statement that does belongs to a trigger, which  *)
(* would be a second owner.                                                *)
THEOREM StopIsKept ==
    ASSUME "reset" \notin Ops
    PROVE  SafeSpec => StopNotLost
<1> DEFINE Alive == \E j \in Job : run'[j].phase \in LoopPhases \cup {"queued", "begin"}
<1>1. ASSUME DataInv, LockInv, [Next]_vars PROVE [ozonStop /\ Alive => ozonStop']_vars
  <2> SUFFICES ASSUME ozonStop, Alive, Next, ~ozonStop' PROVE FALSE
    BY <1>1
  <2>1. PICK j \in Job : run'[j].phase \in LoopPhases \cup {"queued", "begin"}
    OBVIOUS
  <2>2. run'[j].phase # "none"
    BY <2>1 DEF LoopPhases
  <2>3. ASSUME NEW t \in Thread, ClearStop(t) PROVE FALSE
    BY <1>1, <2>2, <2>3 DEF LockInv, OneRun, Owner, Active, TriggerPcs, ClearStop, Goto
  <2>4. ASSUME NEW t \in Thread, ResetStop(t) PROVE FALSE
    BY <1>1, <2>4 DEF LockInv, NoReset, ResetStop, Goto
  <2>5. ASSUME Forget PROVE FALSE
    BY <2>2, <2>5 DEF Forget, NoRun
  <2>6. ASSUME NEW i \in Job, RunStep(i) PROVE FALSE
    BY <1>1, <2>6, RunFrame DEF DataInv
  <2>7. ASSUME NEW t \in Thread,
                 Trigger(t) \/ TriggerFull(t) \/ StopOzon(t) \/ Reset(t) \/ WipeDb(t) \/ WipeMem(t)
                   \/ CheckShutdown(t) \/ ClaimRun(t) \/ SetJob(t) \/ AbandonOthers(t)
                   \/ InsertRecord(t) \/ Submit(t) \/ FreeRefused(t) \/ ReadJob(t)
                   \/ RecordRefused(t) \/ StopProgress(t) \/ StopFlag(t) \/ ResetProgress(t)
                   \/ ResetRunning(t) \/ ResetJob(t)
          PROVE  FALSE
    BY <2>7 DEF Trigger, TriggerFull, StopOzon, Reset, WipeDb, WipeMem,
      CheckShutdown, ClaimRun,
      SetJob, AbandonOthers, InsertRecord, Submit, FreeRefused, ReadJob, RecordRefused,
      StopProgress, StopFlag, ResetProgress, ResetRunning, ResetJob, flags
  <2>8. ASSUME Resume \/ RequestStop \/ RequestStopFlag \/ ClosePool \/ WaitIdle \/ Restart PROVE FALSE
    BY <2>8 DEF Resume, RequestStop, RequestStopFlag, ClosePool, WaitIdle, Restart,
      flags
  <2>. QED
    BY <2>3, <2>4, <2>5, <2>6, <2>7, <2>8 DEF Next, TriggerStep, OtherStep, Shutdown,
      Exit, Crash
<1>2. QED
  BY <1>1, LockInvariant, PTL DEF StopNotLost, SafeSpec

(* No record is running when a trigger is about to insert its own.         *)
RecordInv ==
    /\ OneRunningRecord
    /\ \A t \in Thread : pc[t] = "insert" => \A j \in Job : rec[j] # "running"

(* A step that opens no record keeps RecordInv.                            *)
LEMMA RecordFrame ==
    ASSUME RecordInv,
           \A j \in Job : rec'[j] = "running" => rec[j] = "running",
           \A t \in Thread : pc'[t] = "insert" => pc[t] = "insert"
    PROVE  RecordInv'
  BY DEF RecordInv, OneRunningRecord

(* Every step keeps RecordInv when the database works.                     *)
LEMMA RecordStep ==
    ASSUME "reset" \notin Ops, ~DbFaults, TypeOK, LockInv, RecordInv, [Next]_vars
    PROVE  RecordInv'
<1>0. /\ rec \in [Job -> RecStatus] /\ pc \in [Thread -> Pcs]
  BY DEF TypeOK
<1>1. ASSUME NEW t \in Thread, AbandonOthers(t) PROVE RecordInv'
  <2>1. \A j \in Job : rec'[j] # "running"
    BY <1>1 DEF AbandonOthers, CloseRunning
  <2>2. QED
    BY <2>1 DEF RecordInv, OneRunningRecord
<1>2. ASSUME NEW t \in Thread, InsertRecord(t) PROVE RecordInv'
  <2>1. \A j \in Job : rec[j] # "running"
    BY <1>2 DEF InsertRecord, Goto, RecordInv
  <2>2. \A j \in Job : rec'[j] = "running" => j = arg[t]
    BY <1>0, <1>2, <2>1 DEF InsertRecord, Write
  <2>3. \A s \in Thread : pc'[s] # "insert"
    BY <1>0, <1>2 DEF InsertRecord, Goto, LockInv, OneRun, Owner, TriggerPcs
  <2>4. QED
    BY <2>2, <2>3 DEF RecordInv, OneRunningRecord
<1>3. ASSUME NEW t \in Thread, RecordRefused(t) PROVE RecordInv'
  <2>1. \A j \in Job : rec'[j] = "running" => rec[j] = "running"
    BY <1>0, <1>3 DEF RecordRefused, FinishRecord, Write
  <2>2. \A s \in Thread : pc'[s] = "insert" => pc[s] = "insert"
    BY <1>0, <1>3 DEF RecordRefused, Goto
  <2>3. QED
    BY <2>1, <2>2, RecordFrame
<1>4. ASSUME NEW j \in Job, WriteOutcome(j) PROVE RecordInv'
  <2>1. run[j].outcome # "running"
    BY DEF TypeOK, RunRecord, Outcomes
  <2>2. \A i \in Job : rec'[i] = "running" => rec[i] = "running"
    BY <1>0, <1>4, <2>1 DEF WriteOutcome, FinishRecord, Write
  <2>3. UNCHANGED pc
    BY <1>4 DEF WriteOutcome
  <2>4. QED
    BY <2>2, <2>3, RecordFrame
<1>5. CASE Restart
  <2>1. \A j \in Job : rec'[j] # "running"
    BY <1>5 DEF Restart, CloseRunning, Write
  <2>2. QED
    BY <2>1 DEF RecordInv, OneRunningRecord
<1>6. ASSUME NEW t \in Thread,
             TriggerStep(t) \/ OtherStep(t) \/ Trigger(t) \/ TriggerFull(t) \/ StopOzon(t) \/ Reset(t),
             ~AbandonOthers(t), ~InsertRecord(t), ~RecordRefused(t)
      PROVE  RecordInv'
  <2>1. UNCHANGED rec
    BY <1>6 DEF Trigger, TriggerFull, StopOzon, Reset, WipeDb, WipeMem,
      CheckShutdown, ClaimRun,
      ClearStop, SetJob, Submit, FreeRefused, ReadJob, StopProgress, StopFlag, ResetProgress,
      ResetRunning, ResetStop, ResetJob, TriggerStep, OtherStep, disk
  <2>2. \A s \in Thread : pc'[s] = "insert" => pc[s] = "insert"
    BY <1>0, <1>6 DEF Trigger, TriggerFull, StopOzon, Reset, WipeDb, WipeMem,
      CheckShutdown,
      ClaimRun, ClearStop, SetJob, Submit, FreeRefused, ReadJob, StopProgress, StopFlag,
      ResetProgress, ResetRunning, ResetStop, ResetJob, TriggerStep, OtherStep, Goto
  <2>3. QED
    BY <2>1, <2>2, RecordFrame
<1>7. ASSUME NEW j \in Job, RunStep(j), ~WriteOutcome(j) PROVE RecordInv'
  <2>1. UNCHANGED <<rec, pc>>
    BY <1>7 DEF RunStep, LoadCheckpoint, BeginRun, StopSeen, FetchFails, FetchPage,
      RetryLater,
      GiveUp, StorePage, Remember, SavePage, EndDone, EndStopped, ReadOwnJob, ReleaseRun, disk
  <2>2. QED
    BY <2>1, RecordFrame
<1>8. CASE Resume \/ RequestStop \/ Shutdown \/ Crash
  <2>1. UNCHANGED rec
    BY <1>8 DEF Resume, RequestStop, Shutdown, RequestStopFlag, ClosePool, WaitIdle,
      Exit, Crash,
      Forget, disk
  <2>2. \A s \in Thread : pc'[s] = "insert" => pc[s] = "insert"
    BY <1>0, <1>8 DEF Resume, RequestStop, Shutdown, RequestStopFlag, ClosePool,
      WaitIdle, Exit,
      Crash, Forget, Goto
  <2>3. QED
    BY <2>1, <2>2, RecordFrame
<1>9. CASE UNCHANGED vars
  BY <1>9, RecordFrame DEF vars, disk
<1>. QED
  BY <1>1, <1>2, <1>3, <1>4, <1>5, <1>6, <1>7, <1>8, <1>9 DEF Next

(* sync_runs shows at most one running Ozon job (OneRunningRecord) when    *)
(* resets are not used and the database does not fail.                     *)
THEOREM OneRecordRunning ==
    ASSUME "reset" \notin Ops, ~DbFaults
    PROVE  SafeSpec => []OneRunningRecord
<1>1. Init => RecordInv
  BY DEF Init, RecordInv, OneRunningRecord
<1>2. DataInv /\ LockInv /\ RecordInv /\ [Next]_vars => RecordInv'
  BY RecordStep DEF DataInv
<1>3. RecordInv => OneRunningRecord
  BY DEF RecordInv
<1>4. QED
  BY <1>1, <1>2, <1>3, LockInvariant, PTL DEF SafeSpec

(* A sync is shown as running while one is in its loop: no run leaves the  *)
(* loop without showing how it ended.                                      *)
Shown == progress \in {"running", "retry"}
GhostInv == Shown => \E j \in Job : run[j].phase \in LoopPhases

(* A step of a run that shows it as running is a step in its loop.         *)
LEMMA RunShown ==
    ASSUME TypeOK, GhostInv, NEW j \in Job, RunStep(j)
    PROVE  GhostInv'
<1>0. run \in [Job -> RunRecord]
  BY DEF TypeOK
<1>1. ASSUME run'[j].phase \in LoopPhases PROVE GhostInv'
  BY <1>1 DEF GhostInv
<1>2. ASSUME ~Shown' PROVE GhostInv'
  BY <1>2 DEF GhostInv
<1>3. ASSUME run[j].phase \notin LoopPhases, UNCHANGED progress PROVE GhostInv'
  <2> SUFFICES ASSUME Shown' PROVE \E i \in Job : run'[i].phase \in LoopPhases
    BY DEF GhostInv
  <2>1. PICK i \in Job : run[i].phase \in LoopPhases
    BY <1>3 DEF GhostInv, Shown
  <2>2. run'[i] = run[i]
    BY <1>3, <2>1, RunFrame
  <2>3. QED
    BY <2>1, <2>2
<1>4. CASE BeginRun(j) \/ StopSeen(j) \/ FetchFails(j) \/ StorePage(j) \/ Remember(j)
  <2>1. run'[j].phase \in {"loop", "end", "retry", "mem", "save"}
    BY <1>0, <1>4 DEF BeginRun, StopSeen, FetchFails, StorePage, Remember, RunGoto, RunRecord
  <2>2. QED
    BY <1>1, <2>1 DEF LoopPhases
<1>5. CASE FetchPage(j)
  <2>1. run'[j].phase \in {"end", "store"}
    BY <1>0, <1>5 DEF FetchPage, RunRecord
  <2>2. QED
    BY <1>1, <2>1 DEF LoopPhases
<1>6. CASE RetryLater(j) \/ SavePage(j)
  <2>1. run'[j].phase \in {"giveup", "loop", "end"}
    BY <1>0, <1>6 DEF RetryLater, SavePage, RunGoto, RunRecord
  <2>2. QED
    BY <1>1, <2>1 DEF LoopPhases
<1>7. CASE GiveUp(j) \/ EndDone(j) \/ EndStopped(j)
  <2>1. progress' \in {"failed", "done", "stopped"}
    BY <1>7 DEF GiveUp, EndDone, EndStopped
  <2>2. QED
    BY <1>2, <2>1 DEF Shown
<1>8. CASE LoadCheckpoint(j) \/ ReadOwnJob(j) \/ WriteOutcome(j) \/ ReleaseRun(j)
  <2>1. run[j].phase \in {"queued", "record", "write", "free"} /\ UNCHANGED progress
    BY <1>8 DEF LoadCheckpoint, ReadOwnJob, WriteOutcome, ReleaseRun, RunGoto, InPhase
  <2>2. QED
    BY <1>3, <2>1 DEF LoopPhases
<1>9. QED
  BY <1>4, <1>5, <1>6, <1>7, <1>8 DEF RunStep

(* The job of a trigger that owns the service has no run yet, even if      *)
(* resets let several triggers own it at once.                             *)
FreshInv ==
    /\ \A j \in Job : Active(j) => j =< ids
    /\ \A t \in Thread : Owner(t) => arg[t] =< ids /\ \A j \in Job : Active(j) => j # arg[t]
    /\ \A s, t \in Thread : Owner(s) /\ Owner(t) /\ s # t => arg[s] # arg[t]

LEMMA FreshFrame ==
    ASSUME FreshInv, UNCHANGED <<arg, ids>>,
           \A j \in Job : run'[j].phase # "none" => Active(j),
           \A t \in Thread : Owner(t)' => Owner(t)
    PROVE  FreshInv'
  BY DEF FreshInv, Active

LEMMA FreshStep ==
    ASSUME TypeOK, FreshInv, [Next]_vars
    PROVE  FreshInv'
<1>0. /\ run \in [Job -> RunRecord] /\ pc \in [Thread -> Pcs]
      /\ arg \in [Thread -> 0..MaxJobs] /\ ids \in 0..MaxJobs /\ MaxJobs \in Nat
  BY OzonAssumption DEF TypeOK
<1>1. ASSUME UNCHANGED <<run, arg, ids>>, \A t \in Thread : Owner(t)' => Owner(t) PROVE FreshInv'
  BY <1>1, FreshFrame DEF Active
<1>2. ASSUME NEW t \in Thread, ClaimRun(t) PROVE FreshInv'
  <2>1. CASE ozonRunning
    <3>1. UNCHANGED <<run, arg, ids>> /\ Goto(t, "cas", "idle")
      BY <1>2, <2>1 DEF ClaimRun
    <3>2. \A s \in Thread : Owner(s)' => Owner(s)
      BY <1>0, <3>1 DEF Goto, Owner, TriggerPcs
    <3>3. QED
      BY <1>1, <3>1, <3>2
  <2>2. CASE ~ozonRunning
    <3>1. /\ ids' = ids + 1 /\ arg' = [arg EXCEPT ![t] = ids + 1]
          /\ UNCHANGED run /\ Goto(t, "cas", "clear_stop")
      BY <1>2, <2>2 DEF ClaimRun
    <3>2. \A s \in Thread : s # t => arg'[s] = arg[s] /\ (Owner(s)' => Owner(s))
      BY <1>0, <3>1 DEF Goto, Owner
    <3>3. arg'[t] = ids + 1
      BY <1>0, <3>1
    <3>4. \A s \in Thread : arg[s] \in Int
      BY <1>0
    <3>5. \A j \in Job : Active(j)' => j =< ids
      BY <3>1 DEF FreshInv, Active
    <3>6. \A s \in Thread : s # t /\ Owner(s)' => arg'[s] =< ids /\ arg'[s] # ids + 1
      BY <1>0, <3>2, <3>4 DEF FreshInv
    <3>7. \A s \in Thread, j \in Job : Owner(s)' /\ Active(j)' => j # arg'[s]
      <4> SUFFICES ASSUME NEW s \in Thread, NEW j \in Job, Owner(s)', Active(j)' PROVE j # arg'[s]
        OBVIOUS
      <4>1. CASE s = t
        BY <1>0, <3>3, <3>5, <4>1 DEF Job
      <4>2. CASE s # t
        BY <3>1, <3>2, <4>2 DEF FreshInv, Active
      <4>3. QED
        BY <4>1, <4>2
    <3>8. \A s \in Thread : Owner(s)' => arg'[s] =< ids'
      BY <1>0, <3>1, <3>3, <3>4, <3>2, <3>6
    <3>9. \A r, s \in Thread : Owner(r)' /\ Owner(s)' /\ r # s => arg'[r] # arg'[s]
      BY <3>2, <3>3, <3>6 DEF FreshInv
    <3>10. \A j \in Job : Active(j)' => j =< ids'
      BY <1>0, <3>1, <3>5 DEF Job
    <3>11. QED
      BY <3>7, <3>8, <3>9, <3>10 DEF FreshInv
  <2>3. QED
    BY <2>1, <2>2
<1>3. ASSUME NEW t \in Thread, Submit(t) PROVE FreshInv'
  <2>1. UNCHANGED ids /\ Owner(t) /\ \A s \in Thread : s # t => arg'[s] = arg[s] /\ pc'[s] = pc[s]
    BY <1>0, <1>3 DEF Submit, Goto, life, Owner, TriggerPcs
  <2>2. CASE UNCHANGED <<run, arg>>
    <3>1. \A s \in Thread : Owner(s)' => Owner(s)
      BY <2>1 DEF Owner
    <3>2. QED
      BY <1>1, <2>1, <2>2, <3>1
  <2>3. CASE run' = [run EXCEPT ![arg[t]] = [NoRun EXCEPT !.phase = "queued"]]
                    /\ Goto(t, "submit", "idle")
    <3>1. \A s \in Thread : Owner(s)' => s # t /\ Owner(s) /\ arg'[s] = arg[s]
      BY <1>0, <2>1, <2>3 DEF Goto, Owner, TriggerPcs
    <3>2. \A j \in Job : Active(j)' => Active(j) \/ j = arg[t]
      BY <1>0, <2>3 DEF Active
    <3>3. QED
      BY <2>1, <3>1, <3>2 DEF FreshInv
  <2>4. QED
    BY <1>3, <2>2, <2>3 DEF Submit
<1>4. ASSUME NEW t \in Thread, ReadJob(t) \/ RecordRefused(t) PROVE FreshInv'
  <2>1. UNCHANGED <<run, ids>> /\ \A s \in Thread : s # t => arg'[s] = arg[s] /\ pc'[s] = pc[s]
    BY <1>0, <1>4 DEF ReadJob, RecordRefused, Goto, life
  <2>2. ~Owner(t)'
    BY <1>0, <1>4 DEF ReadJob, RecordRefused, Goto, Owner, TriggerPcs
  <2>3. \A s \in Thread : Owner(s)' => s # t /\ Owner(s) /\ arg'[s] = arg[s]
    BY <2>1, <2>2 DEF Owner
  <2>4. QED
    BY <2>1, <2>3 DEF FreshInv, Active
<1>5. ASSUME NEW t \in Thread,
             Trigger(t) \/ TriggerFull(t) \/ StopOzon(t) \/ Reset(t) \/ WipeDb(t) \/ WipeMem(t)
               \/ CheckShutdown(t) \/ ClearStop(t) \/ SetJob(t) \/ AbandonOthers(t)
               \/ InsertRecord(t) \/ FreeRefused(t) \/ OtherStep(t)
      PROVE  FreshInv'
  <2>1. UNCHANGED <<run, arg, ids>>
    BY <1>5 DEF Trigger, TriggerFull, StopOzon, Reset, WipeDb, WipeMem, CheckShutdown, ClearStop,
      SetJob, AbandonOthers, InsertRecord, FreeRefused, OtherStep, StopProgress, StopFlag,
      ResetProgress, ResetRunning, ResetStop, ResetJob, life
  <2>2. /\ \A s \in Thread : s # t => pc'[s] = pc[s]
        /\ Owner(t)' => Owner(t)
    BY <1>0, <1>5 DEF Trigger, TriggerFull, StopOzon, Reset, WipeDb, WipeMem, CheckShutdown,
      ClearStop, SetJob, AbandonOthers, InsertRecord, FreeRefused, OtherStep, StopProgress,
      StopFlag, ResetProgress, ResetRunning, ResetStop, ResetJob, Goto, Owner, TriggerPcs
  <2>3. \A s \in Thread : Owner(s)' => Owner(s)
    BY <2>2 DEF Owner
  <2>4. QED
    BY <1>1, <2>1, <2>3
<1>6. ASSUME NEW j \in Job, RunStep(j) PROVE FreshInv'
  <2>1. UNCHANGED <<pc, arg>> /\ \A i \in Job : run'[i].phase # "none" => Active(i)
    BY <1>6, RunFrame DEF Active
  <2>2. UNCHANGED ids
    BY <1>6 DEF RunStep, LoadCheckpoint, BeginRun, StopSeen, FetchFails, FetchPage, RetryLater,
      GiveUp, StorePage, Remember, SavePage, EndDone, EndStopped, ReadOwnJob, WriteOutcome,
      ReleaseRun, life
  <2>3. QED
    BY <2>1, <2>2, FreshFrame DEF Owner
<1>7. CASE Resume \/ Restart
  <2>1. UNCHANGED <<run, arg, ids>>
    BY <1>7 DEF Resume, Restart, life
  <2>2. \A s \in Thread : Owner(s)' => Owner(s)
    BY <1>0, <1>7 DEF Resume, Restart, Goto, Owner, TriggerPcs
  <2>3. QED
    BY <1>1, <2>1, <2>2
<1>8. CASE RequestStop \/ RequestStopFlag \/ ClosePool \/ WaitIdle \/ UNCHANGED vars
  <2>1. UNCHANGED <<run, arg, ids, pc>>
    BY <1>8 DEF RequestStop, RequestStopFlag, ClosePool, WaitIdle, vars, life
  <2>2. QED
    BY <1>1, <2>1 DEF Owner
<1>9. CASE Forget
  <2>1. /\ \A t \in Thread : pc'[t] = "idle"
        /\ \A j \in Job : run'[j].phase = "none"
    BY <1>9 DEF Forget, NoRun
  <2>2. QED
    BY <2>1 DEF FreshInv, Owner, Active, TriggerPcs
<1>10. QED
  BY <1>2, <1>3, <1>4, <1>5, <1>6, <1>7, <1>8, <1>9 DEF Next, TriggerStep, Shutdown, Exit, Crash

(* The other steps show a sync as running only if it was, and end none.    *)
LEMMA GhostStep ==
    ASSUME TypeOK, FreshInv, GhostInv, [Next]_vars
    PROVE  GhostInv'
<1>0. run \in [Job -> RunRecord]
  BY DEF TypeOK
<1>1. ASSUME UNCHANGED <<run, progress>> PROVE GhostInv'
  BY <1>1 DEF GhostInv, Shown
<1>2. ASSUME ~Shown' PROVE GhostInv'
  BY <1>2 DEF GhostInv
<1>3. ASSUME NEW t \in Thread, StopProgress(t) \/ ResetProgress(t) PROVE GhostInv'
  <2>1. progress' \in {"stopping", ""}
    BY <1>3 DEF StopProgress, ResetProgress
  <2>2. QED
    BY <1>2, <2>1 DEF Shown
<1>4. ASSUME NEW t \in Thread, Submit(t) PROVE GhostInv'
  <2> SUFFICES ASSUME Shown' PROVE \E i \in Job : run'[i].phase \in LoopPhases
    BY DEF GhostInv
  <2>1. CASE UNCHANGED run
    BY <1>4, <2>1 DEF Submit, GhostInv, Shown
  <2>2. CASE run' = [run EXCEPT ![arg[t]] = [NoRun EXCEPT !.phase = "queued"]]
                    /\ UNCHANGED progress
    <3>1. PICK i \in Job : run[i].phase \in LoopPhases
      BY <2>2 DEF GhostInv, Shown
    <3>2. i # arg[t]
      BY <1>4, <3>1 DEF FreshInv, Active, Submit, Goto, Owner, TriggerPcs, LoopPhases
    <3>3. QED
      BY <1>0, <2>2, <3>1, <3>2
  <2>3. QED
    BY <1>4, <2>1, <2>2 DEF Submit
<1>5. ASSUME NEW t \in Thread,
             Trigger(t) \/ TriggerFull(t) \/ StopOzon(t) \/ Reset(t) \/ WipeDb(t) \/ WipeMem(t)
               \/ CheckShutdown(t) \/ ClaimRun(t) \/ ClearStop(t) \/ SetJob(t)
               \/ AbandonOthers(t) \/ InsertRecord(t) \/ FreeRefused(t) \/ ReadJob(t)
               \/ RecordRefused(t) \/ StopFlag(t) \/ ResetRunning(t) \/ ResetStop(t) \/ ResetJob(t)
      PROVE  GhostInv'
  BY <1>1, <1>5 DEF Trigger, TriggerFull, StopOzon, Reset, WipeDb, WipeMem, CheckShutdown, ClaimRun,
    ClearStop, SetJob, AbandonOthers, InsertRecord, FreeRefused, ReadJob, RecordRefused, StopFlag,
    ResetRunning, ResetStop, ResetJob
<1>6. CASE Resume \/ Restart \/ RequestStop \/ RequestStopFlag \/ ClosePool \/ WaitIdle
             \/ UNCHANGED vars
  BY <1>1, <1>6 DEF Resume, Restart, RequestStop, RequestStopFlag, ClosePool, WaitIdle, vars
<1>7. CASE Forget
  BY <1>2, <1>7 DEF Forget, Shown
<1>8. QED
  BY <1>3, <1>4, <1>5, <1>6, <1>7, RunShown DEF Next, TriggerStep, OtherStep, Shutdown, Exit, Crash

(* GET /ozon/progress shows no sync that no run is working on              *)
(* (NoGhostProgress), resets and lost writes included.                     *)
THEOREM NoGhost == SafeSpec => []NoGhostProgress
<1>1. Init => FreshInv /\ GhostInv
  <2> SUFFICES ASSUME Init PROVE FreshInv /\ GhostInv
    OBVIOUS
  <2>1. /\ \A t \in Thread : pc[t] \in {"resume", "idle"}
        /\ \A j \in Job : run[j].phase = "none"
        /\ progress = ""
    BY DEF Init, NoRun
  <2>2. QED
    BY <2>1 DEF FreshInv, GhostInv, Shown, Owner, Active, TriggerPcs
<1>2. DataInv /\ FreshInv /\ GhostInv /\ [Next]_vars => FreshInv' /\ GhostInv'
  BY FreshStep, GhostStep DEF DataInv
<1>3. GhostInv => NoGhostProgress
  BY DEF GhostInv, NoGhostProgress, Shown, Active, LoopPhases
<1>4. QED
  BY <1>1, <1>2, <1>3, DataInvariant, PTL DEF SafeSpec

(* While a run is in its loop the checkpoint does not say that it is over. *)
ResumeInv == \A j \in Job : run[j].phase \in LoopPhases => db.status \notin {"done", "stopped"}

LEMMA ResumeFrame ==
    ASSUME ResumeInv,
           \A j \in Job : run'[j].phase \in LoopPhases => run[j].phase \in LoopPhases,
           db'.status \in {db.status, "", "running", "retry", "failed", "stopping"}
    PROVE  ResumeInv'
  BY DEF ResumeInv

LEMMA ResumeStep ==
    ASSUME ~DbFaults, TypeOK, LockInv, ResumeInv, [Next]_vars
    PROVE  ResumeInv'
<1>0. run \in [Job -> RunRecord] /\ db \in DbRow
  BY DEF TypeOK
<1>1. ASSUME UNCHANGED <<run, db>> PROVE ResumeInv'
  BY <1>1 DEF ResumeInv
<1>2. ASSUME NEW j \in Job, BeginRun(j) \/ RetryLater(j) \/ GiveUp(j) \/ SavePage(j) PROVE ResumeInv'
  <2>1. db'.status \in {"running", "retry", "failed"}
    BY <1>2 DEF BeginRun, RetryLater, GiveUp, SavePage, SaveCheckpoint, Write
  <2>2. QED
    BY <2>1 DEF ResumeInv
<1>3. ASSUME NEW j \in Job, EndDone(j) PROVE ResumeInv'
  <2>1. RunStep(j) /\ run'[j].phase = "record"
    BY <1>0, <1>3 DEF RunStep, EndDone, RunRecord
  <2>2. \A i \in Job : i # j => run'[i] = run[i] /\ ~Active(i)
    BY <2>1, RunFrame DEF LockInv, OneRun
  <2>3. \A i \in Job : run'[i].phase \notin LoopPhases
    BY <2>1, <2>2 DEF Active, LoopPhases
  <2>4. QED
    BY <2>3 DEF ResumeInv
<1>4. ASSUME NEW j \in Job,
             StopSeen(j) \/ FetchFails(j) \/ FetchPage(j) \/ StorePage(j) \/ Remember(j)
      PROVE  ResumeInv'
  <2>1. RunStep(j) /\ UNCHANGED db /\ run[j].phase \in LoopPhases
    BY <1>4 DEF RunStep, StopSeen, FetchFails, FetchPage, StorePage, Remember, RunGoto, InPhase,
      LoopPhases, disk
  <2>2. \A i \in Job : i # j => run'[i] = run[i]
    BY <2>1, RunFrame
  <2>3. QED
    BY <2>1, <2>2, ResumeFrame
<1>5. ASSUME NEW j \in Job,
             LoadCheckpoint(j) \/ EndStopped(j) \/ ReadOwnJob(j) \/ WriteOutcome(j) \/ ReleaseRun(j)
      PROVE  ResumeInv'
  <2>1. RunStep(j) /\ UNCHANGED db
    BY <1>5 DEF RunStep, LoadCheckpoint, EndStopped, ReadOwnJob, WriteOutcome, ReleaseRun, disk
  <2>2. run'[j].phase \in {"begin", "record", "free", "write", "none"}
    BY <1>0, <1>5 DEF LoadCheckpoint, EndStopped, ReadOwnJob, WriteOutcome, ReleaseRun, RunGoto,
      RunRecord, NoRun
  <2>3. \A i \in Job : i # j => run'[i] = run[i]
    BY <2>1, RunFrame
  <2>4. QED
    BY <2>1, <2>2, <2>3, ResumeFrame DEF LoopPhases
<1>6. ASSUME NEW t \in Thread, WipeDb(t) \/ StopOzon(t) PROVE ResumeInv'
  <2>1. UNCHANGED run
    BY <1>6 DEF WipeDb, StopOzon
  <2>2. db'.status \in {db.status, "", "stopping"}
    <3>1. CASE WipeDb(t)
      <4>1. CASE db.status = "absent"
        BY <3>1, <4>1 DEF WipeDb, ResetCheckpoint, Write
      <4>2. CASE db.status # "absent"
        <5>1. db' = [cursor |-> 0, status |-> ""]
          BY <3>1, <4>2, Zenon DEF WipeDb, ResetCheckpoint, Write
        <5>2. QED
          BY <5>1
      <4>3. QED
        BY <4>1, <4>2
    <3>2. CASE StopOzon(t)
      BY <1>0, <3>2 DEF StopOzon, UpdateStatus, Write, DbRow
    <3>3. QED
      BY <1>6, <3>1, <3>2
  <2>3. QED
    BY <2>1, <2>2, ResumeFrame
<1>7. ASSUME NEW t \in Thread, Submit(t) PROVE ResumeInv'
  <2>1. UNCHANGED db
    BY <1>7 DEF Submit, disk
  <2>2. \A j \in Job : run'[j].phase \in LoopPhases => run[j].phase \in LoopPhases
    BY <1>0, <1>7 DEF Submit, NoRun, LoopPhases
  <2>3. QED
    BY <2>1, <2>2, ResumeFrame
<1>8. ASSUME NEW t \in Thread,
             Trigger(t) \/ TriggerFull(t) \/ Reset(t) \/ WipeMem(t) \/ OtherStep(t)
               \/ CheckShutdown(t) \/ ClaimRun(t) \/ ClearStop(t) \/ SetJob(t)
               \/ AbandonOthers(t) \/ InsertRecord(t) \/ FreeRefused(t) \/ ReadJob(t)
               \/ RecordRefused(t)
      PROVE  ResumeInv'
  BY <1>1, <1>8 DEF Trigger, TriggerFull, Reset, WipeMem, CheckShutdown, ClaimRun,
    ClearStop, SetJob, AbandonOthers, InsertRecord, FreeRefused, ReadJob, RecordRefused,
    OtherStep, StopProgress, StopFlag, ResetProgress, ResetRunning, ResetStop, ResetJob, disk
<1>9. CASE Resume \/ Restart \/ RequestStop \/ RequestStopFlag \/ ClosePool \/ WaitIdle
             \/ UNCHANGED vars
  BY <1>1, <1>9 DEF Resume, Restart, RequestStop, RequestStopFlag, ClosePool, WaitIdle, vars, disk
<1>10. CASE Forget
  BY <1>10 DEF Forget, ResumeInv, NoRun, LoopPhases
<1>11. QED
  BY <1>2, <1>3, <1>4, <1>5, <1>6, <1>7, <1>8, <1>9, <1>10 DEF Next, RunStep, TriggerStep,
    Shutdown, Exit, Crash

(* A run that has stored a page and is cut off by a crash is found by      *)
(* resume_on_start (CrashedRunIsResumable), when resets are not used and   *)
(* the database does not fail.                                             *)
THEOREM CrashIsResumed ==
    ASSUME "reset" \notin Ops, ~DbFaults
    PROVE  SafeSpec => []CrashedRunIsResumable
<1>1. Init => ResumeInv
  <2> SUFFICES ASSUME Init PROVE ResumeInv
    OBVIOUS
  <2>1. \A j \in Job : run[j].phase = "none"
    BY DEF Init, NoRun
  <2>2. QED
    BY <2>1 DEF ResumeInv, LoopPhases
<1>2. DataInv /\ LockInv /\ ResumeInv /\ [Next]_vars => ResumeInv'
  BY ResumeStep DEF DataInv
<1>3. ResumeInv => CrashedRunIsResumable
  BY DEF ResumeInv, CrashedRunIsResumable, HasUnfinished, InPhase, LoopPhases
<1>4. QED
  BY <1>1, <1>2, <1>3, LockInvariant, PTL DEF SafeSpec

(* A record that is running is in somebody's hands: its trigger, its run,  *)
(* a refused trigger that is about to fail it, or a later trigger that     *)
(* will close it.                                                          *)
InTrigger(j) == \E t \in Thread : pc[t] \in {"submit", "free"} /\ arg[t] = j
InRun(j) == Active(j) /\ run[j].phase # "free"
WillBeAbandoned == \E t \in Thread : pc[t] \in {"clear_stop", "set_job", "abandon"}
WillBeRefused(j) ==
    \E t \in Thread : \/ pc[t] = "read_job" /\ jobId = j
                      \/ pc[t] = "fail" /\ arg[t] = j
Held(j) == InTrigger(j) \/ InRun(j) \/ WillBeAbandoned \/ WillBeRefused(j)

OrphanInv ==
    /\ mainPc # "down" => \A j \in Job : rec[j] = "running" => Held(j)
    /\ \A t \in Thread : pc[t] = "free" => jobId = arg[t]

(* What a step of one thread leaves alone.                                 *)
LEMMA HeldFrame ==
    ASSUME OrphanInv, UNCHANGED <<run, jobId>>, mainPc # "down" \/ UNCHANGED mainPc,
           NEW t \in Thread, \A s \in Thread : s # t => pc'[s] = pc[s] /\ arg'[s] = arg[s],
           \A j \in Job : rec'[j] = "running" => rec[j] = "running",
           pc[t] \in {"submit", "free"} => pc'[t] \in {"submit", "free"} /\ arg'[t] = arg[t],
           pc[t] \in {"clear_stop", "set_job", "abandon"} =>
               pc'[t] \in {"clear_stop", "set_job", "abandon"},
           pc[t] \notin {"read_job", "fail"},
           pc'[t] = "free" => pc[t] = "submit" /\ arg'[t] = jobId
    PROVE  OrphanInv'
<1>1. ASSUME NEW j \in Job, Held(j) PROVE Held(j)'
  BY <1>1 DEF Held, InTrigger, InRun, WillBeAbandoned, WillBeRefused, Active
<1>2. QED
  BY <1>1 DEF OrphanInv

LEMMA OrphanRun ==
    ASSUME ~DbFaults, TypeOK, LockInv, OrphanInv, NEW i \in Job, RunStep(i)
    PROVE  OrphanInv'
<1>0. run \in [Job -> RunRecord] /\ rec \in [Job -> RecStatus]
  BY DEF TypeOK
<1>1. /\ \A j \in Job : j # i => run'[j] = run[j]
      /\ Active(i)
      /\ UNCHANGED <<pc, arg, jobId>>
  BY RunFrame
<1>2. UNCHANGED mainPc
  BY DEF RunStep, LoadCheckpoint, BeginRun, StopSeen, FetchFails, FetchPage, RetryLater, GiveUp,
    StorePage, Remember, SavePage, EndDone, EndStopped, ReadOwnJob, WriteOutcome, ReleaseRun, life
<1>3. ASSUME NEW j \in Job, Held(j), j # i \/ run[i].phase = "free" \/ InRun(i)' PROVE Held(j)'
  BY <1>1, <1>3 DEF Held, InTrigger, InRun, WillBeAbandoned, WillBeRefused, Active
<1>4. ASSUME UNCHANGED rec, run[i].phase = "free" \/ InRun(i)' PROVE OrphanInv'
  BY <1>1, <1>2, <1>3, <1>4 DEF OrphanInv
<1>5. CASE WriteOutcome(i)
  <2>1. run[i].job = i /\ run[i].outcome # "running"
    BY <1>0, <1>5 DEF LockInv, FinishOwnRecord, WriteOutcome, RunGoto, RunRecord, Outcomes
  <2>2. rec'[i] # "running"
    BY <1>0, <1>5, <2>1 DEF WriteOutcome, FinishRecord, Write
  <2>3. \A j \in Job : j # i => rec'[j] = rec[j]
    BY <1>0, <1>5, <2>1 DEF WriteOutcome, FinishRecord, Write
  <2>4. QED
    BY <1>1, <1>2, <1>3, <2>2, <2>3 DEF OrphanInv
<1>6. CASE ReadOwnJob(i)
  <2>1. jobId = i /\ jobId # NoJob
    BY <1>1 DEF LockInv, OwnJob, Job, NoJob
  <2>2. run'[i].phase = "write" /\ UNCHANGED rec
    BY <1>0, <1>6, <2>1 DEF ReadOwnJob, RunRecord, disk
  <2>3. QED
    BY <1>4, <2>2 DEF InRun, Active
<1>7. CASE ReleaseRun(i)
  BY <1>4, <1>7 DEF ReleaseRun, InPhase, disk
<1>8. CASE LoadCheckpoint(i) \/ BeginRun(i) \/ StopSeen(i) \/ FetchFails(i) \/ StorePage(i)
             \/ Remember(i)
  <2>1. run'[i].phase \in {"begin", "loop", "end", "retry", "mem", "save"} /\ UNCHANGED rec
    BY <1>0, <1>8 DEF LoadCheckpoint, BeginRun, StopSeen, FetchFails, StorePage, Remember, RunGoto,
      RunRecord, disk
  <2>2. QED
    BY <1>4, <2>1 DEF InRun, Active
<1>9. CASE FetchPage(i)
  <2>1. run'[i].phase \in {"end", "store"} /\ UNCHANGED rec
    BY <1>0, <1>9 DEF FetchPage, RunRecord, disk
  <2>2. QED
    BY <1>4, <2>1 DEF InRun, Active
<1>10. CASE RetryLater(i) \/ SavePage(i) \/ GiveUp(i) \/ EndDone(i) \/ EndStopped(i)
  <2>1. run'[i].phase \in {"giveup", "loop", "end", "record"} /\ UNCHANGED rec
    BY <1>0, <1>10 DEF RetryLater, SavePage, GiveUp, EndDone, EndStopped, RunGoto, RunRecord, disk
  <2>2. QED
    BY <1>4, <2>1 DEF InRun, Active
<1>11. QED
  BY <1>5, <1>6, <1>7, <1>8, <1>9, <1>10 DEF RunStep

LEMMA OrphanStep ==
    ASSUME "reset" \notin Ops, ~DbFaults, TypeOK, LockInv, RecordInv, OrphanInv, [Next]_vars
    PROVE  OrphanInv'
<1>0. /\ run \in [Job -> RunRecord] /\ pc \in [Thread -> Pcs]
      /\ arg \in [Thread -> 0..MaxJobs] /\ rec \in [Job -> RecStatus]
  BY DEF TypeOK
<1>1. ASSUME NEW t \in Thread,
             Trigger(t) \/ TriggerFull(t) \/ StopOzon(t) \/ WipeDb(t) \/ WipeMem(t)
               \/ CheckShutdown(t) \/ ClaimRun(t) \/ ClearStop(t) \/ StopProgress(t) \/ StopFlag(t)
      PROVE  OrphanInv'
  <2>1. UNCHANGED <<run, jobId, mainPc, rec>>
    BY <1>1 DEF Trigger, TriggerFull, StopOzon, WipeDb, WipeMem, CheckShutdown, ClaimRun, ClearStop,
      StopProgress, StopFlag, disk, flags, life
  <2>2. \A s \in Thread : s # t => pc'[s] = pc[s] /\ arg'[s] = arg[s]
    BY <1>0, <1>1 DEF Trigger, TriggerFull, StopOzon, WipeDb, WipeMem, CheckShutdown, ClaimRun,
      ClearStop, StopProgress, StopFlag, Goto
  <2>3. /\ pc[t] \notin {"submit", "free", "read_job", "fail"} /\ pc'[t] # "free"
        /\ pc[t] \in {"clear_stop", "set_job", "abandon"} => pc'[t] = "set_job"
    BY <1>0, <1>1 DEF Trigger, TriggerFull, StopOzon, WipeDb, WipeMem, CheckShutdown, ClaimRun,
      ClearStop, StopProgress, StopFlag, Goto
  <2>4. QED
    BY <2>1, <2>2, <2>3, HeldFrame
<1>2. ASSUME NEW t \in Thread, SetJob(t) PROVE OrphanInv'
  <2>1. pc'[t] = "abandon" /\ Owner(t)
    BY <1>0, <1>2 DEF SetJob, Goto, Owner, TriggerPcs
  <2>2. \A s \in Thread : pc'[s] # "free"
    BY <1>0, <1>2, <2>1 DEF SetJob, Goto, LockInv, OneRun, Owner, TriggerPcs
  <2>3. QED
    BY <2>1, <2>2 DEF OrphanInv, Held, WillBeAbandoned
<1>3. ASSUME NEW t \in Thread, AbandonOthers(t) PROVE OrphanInv'
  <2>1. \A j \in Job : rec'[j] # "running"
    BY <1>3 DEF AbandonOthers, CloseRunning
  <2>2. UNCHANGED <<jobId, arg>> /\ \A s \in Thread : pc'[s] = "free" => pc[s] = "free"
    BY <1>0, <1>3 DEF AbandonOthers, Goto, flags
  <2>3. QED
    BY <2>1, <2>2 DEF OrphanInv
<1>4. ASSUME NEW t \in Thread, InsertRecord(t) PROVE OrphanInv'
  <2>1. \A j \in Job : rec[j] # "running"
    BY <1>4 DEF InsertRecord, Goto, RecordInv
  <2>2. \A j \in Job : rec'[j] = "running" => j = arg[t]
    BY <1>0, <1>4, <2>1 DEF InsertRecord, Write
  <2>3. UNCHANGED <<jobId, arg>> /\ pc'[t] = "submit"
    BY <1>0, <1>4 DEF InsertRecord, Goto, flags
  <2>4. \A s \in Thread : pc'[s] = "free" => pc[s] = "free"
    BY <1>0, <1>4 DEF InsertRecord, Goto
  <2>5. QED
    BY <2>2, <2>3, <2>4 DEF OrphanInv, Held, InTrigger
<1>5. ASSUME NEW t \in Thread, Submit(t) PROVE OrphanInv'
  <2>1. /\ UNCHANGED <<rec, jobId, mainPc>> /\ Owner(t)
        /\ pc[t] = "submit" /\ jobId = arg[t]
        /\ \A s \in Thread : s # t => pc'[s] = pc[s] /\ pc[s] # "free"
    BY <1>0, <1>5 DEF Submit, Goto, disk, flags, life, Owner, TriggerPcs, LockInv, OneRun, OwnJob
  <2>2. CASE UNCHANGED <<run, arg>> /\ pc'[t] = "free"
    <3>1. ASSUME NEW j \in Job, Held(j) PROVE Held(j)'
      BY <2>1, <2>2, <3>1 DEF Held, InTrigger, InRun, WillBeAbandoned, WillBeRefused, Active
    <3>2. QED
      BY <2>1, <2>2, <3>1 DEF OrphanInv
  <2>3. CASE /\ run' = [run EXCEPT ![arg[t]] = [NoRun EXCEPT !.phase = "queued"]]
             /\ arg' = [arg EXCEPT ![t] = NoJob] /\ pc'[t] = "idle"
    <3>1. \A s \in Thread : s # t => arg'[s] = arg[s]
      BY <1>0, <2>3
    <3>2. arg[t] \in Job => run'[arg[t]].phase = "queued"
      BY <1>0, <2>3 DEF NoRun
    <3>3. \A j \in Job : ~Active(j)
      BY <2>1 DEF LockInv, OneRun
    <3>4. ASSUME NEW j \in Job, Held(j) PROVE Held(j)'
      <4>1. CASE j = arg[t]
        BY <3>2, <4>1 DEF Held, InRun, Active
      <4>2. CASE j # arg[t]
        BY <2>1, <3>1, <3>3, <3>4, <4>2 DEF Held, InTrigger, InRun, WillBeAbandoned, WillBeRefused
      <4>3. QED
        BY <4>1, <4>2
    <3>5. QED
      BY <2>1, <2>3, <3>4 DEF OrphanInv
  <2>4. QED
    BY <1>0, <1>5, <2>2, <2>3 DEF Submit, Goto
<1>6. ASSUME NEW t \in Thread, FreeRefused(t) PROVE OrphanInv'
  <2>1. /\ UNCHANGED <<run, rec, jobId, mainPc, arg>>
        /\ pc[t] = "free" /\ jobId = arg[t] /\ pc'[t] = "read_job"
        /\ \A s \in Thread : s # t => pc'[s] = pc[s]
    BY <1>0, <1>6 DEF FreeRefused, Goto, disk, life, OrphanInv
  <2>2. ASSUME NEW j \in Job, Held(j) PROVE Held(j)'
    <3>1. CASE j = arg[t]
      BY <2>1, <3>1 DEF Held, WillBeRefused
    <3>2. CASE j # arg[t]
      BY <2>1, <2>2, <3>2 DEF Held, InTrigger, InRun, WillBeAbandoned, WillBeRefused, Active
    <3>3. QED
      BY <3>1, <3>2
  <2>3. QED
    BY <2>1, <2>2 DEF OrphanInv
<1>7. ASSUME NEW t \in Thread, ReadJob(t) PROVE OrphanInv'
  <2>1. /\ UNCHANGED <<run, rec, jobId, mainPc>>
        /\ pc[t] = "read_job" /\ arg'[t] = jobId
        /\ pc'[t] = IF jobId = NoJob THEN "idle" ELSE "fail"
        /\ \A s \in Thread : s # t => pc'[s] = pc[s] /\ arg'[s] = arg[s]
    BY <1>0, <1>7 DEF ReadJob, Goto, disk, flags, life
  <2>2. ASSUME NEW j \in Job, Held(j) PROVE Held(j)'
    <3>1. CASE j = jobId
      <4>1. jobId # NoJob
        BY <3>1 DEF Job, NoJob
      <4>2. QED
        BY <2>1, <3>1, <4>1 DEF Held, WillBeRefused
    <3>2. CASE j # jobId
      BY <2>1, <2>2, <3>2 DEF Held, InTrigger, InRun, WillBeAbandoned, WillBeRefused, Active
    <3>3. QED
      BY <3>1, <3>2
  <2>3. QED
    BY <2>1, <2>2 DEF OrphanInv
<1>8. ASSUME NEW t \in Thread, RecordRefused(t) PROVE OrphanInv'
  <2>1. /\ UNCHANGED <<run, jobId, mainPc>>
        /\ pc[t] = "fail" /\ pc'[t] = "idle"
        /\ \A s \in Thread : s # t => pc'[s] = pc[s] /\ arg'[s] = arg[s]
    BY <1>0, <1>8 DEF RecordRefused, Goto, flags, life
  <2>2. \A j \in Job : rec'[j] = "running" => rec[j] = "running" /\ j # arg[t]
    BY <1>0, <1>8 DEF RecordRefused, FinishRecord, Write
  <2>3. ASSUME NEW j \in Job, Held(j), j # arg[t] PROVE Held(j)'
    BY <2>1, <2>3 DEF Held, InTrigger, InRun, WillBeAbandoned, WillBeRefused, Active
  <2>4. QED
    BY <2>1, <2>2, <2>3 DEF OrphanInv
<1>9. ASSUME NEW t \in Thread,
             Reset(t) \/ ResetProgress(t) \/ ResetRunning(t) \/ ResetStop(t) \/ ResetJob(t)
      PROVE  OrphanInv'
  BY <1>9 DEF Reset, ResetProgress, ResetRunning, ResetStop, ResetJob, Goto, LockInv, NoReset
<1>10. CASE Resume
  <2>1. /\ UNCHANGED <<run, jobId, mainPc, rec, arg>> /\ pc[Boot] = "resume"
        /\ pc'[Boot] \in {"check", "idle"} /\ \A s \in Thread : s # Boot => pc'[s] = pc[s]
    BY <1>0, <1>10 DEF Resume, Goto, disk, flags, life, Thread
  <2>2. QED
    BY <2>1, HeldFrame DEF Thread
<1>11. CASE RequestStop \/ RequestStopFlag \/ ClosePool \/ WaitIdle \/ UNCHANGED vars
  <2>1. UNCHANGED <<run, jobId, rec, arg, pc>> /\ (mainPc # "down" \/ UNCHANGED mainPc)
    BY <1>11 DEF RequestStop, RequestStopFlag, ClosePool, WaitIdle, MainGoto, vars, disk, flags, life
  <2>2. \A j \in Job : Held(j) => Held(j)'
    BY <2>1 DEF Held, InTrigger, InRun, WillBeAbandoned, WillBeRefused, Active
  <2>3. QED
    BY <2>1, <2>2 DEF OrphanInv
<1>12. CASE Forget
  BY <1>12 DEF Forget, OrphanInv
<1>13. CASE Restart
  <2>1. \A j \in Job : rec'[j] # "running"
    BY <1>13 DEF Restart, CloseRunning, Write
  <2>2. UNCHANGED <<jobId, arg>> /\ \A s \in Thread : pc'[s] = "free" => pc[s] = "free"
    BY <1>0, <1>13 DEF Restart, flags
  <2>3. QED
    BY <2>1, <2>2 DEF OrphanInv
<1>14. QED
  BY <1>1, <1>2, <1>3, <1>4, <1>5, <1>6, <1>7, <1>8, <1>9, <1>10, <1>11, <1>12, <1>13, OrphanRun
  DEF Next, TriggerStep, OtherStep, Shutdown, Exit, Crash

(* When every trigger and every run has finished no job is left 'running'  *)
(* in sync_runs (NoOrphanRecord), when resets are not used and the         *)
(* database does not fail.                                                 *)
THEOREM NoOrphan ==
    ASSUME "reset" \notin Ops, ~DbFaults
    PROVE  SafeSpec => []NoOrphanRecord
<1>1. Init => RecordInv /\ OrphanInv
  <2> SUFFICES ASSUME Init PROVE RecordInv /\ OrphanInv
    OBVIOUS
  <2>1. /\ \A j \in Job : rec[j] = "none"
        /\ \A t \in Thread : pc[t] \in {"resume", "idle"}
    BY DEF Init
  <2>2. QED
    BY <2>1 DEF RecordInv, OneRunningRecord, OrphanInv
<1>2. DataInv /\ LockInv /\ RecordInv /\ OrphanInv /\ [Next]_vars => RecordInv' /\ OrphanInv'
  BY RecordStep, OrphanStep DEF DataInv
<1>3. OrphanInv => NoOrphanRecord
  BY DEF OrphanInv, NoOrphanRecord, Quiet, Held, InTrigger, InRun, WillBeAbandoned, WillBeRefused,
    Owner, TriggerPcs
<1>4. QED
  BY <1>1, <1>2, <1>3, LockInvariant, PTL DEF SafeSpec
=============================================================================

------------------------------ MODULE OzonSync ------------------------------
(***************************************************************************)
(* The Ozon side of SyncService (src/sync_service.cpp): the HTTP and       *)
(* webhook threads that trigger, wipe, stop and reset a sync, the run that *)
(* a pool worker executes page by page, the checkpoint it keeps in memory  *)
(* and in sync_state, the job records in sync_runs, and the life of the    *)
(* process: shutdown, crash, restart and resume.                           *)
(*                                                                         *)
(* A step is one access to state that another thread can see: an atomic    *)
(* flag, a section under a mutex, a database transaction.  A checkpoint    *)
(* save and the progress message that follows it are one step.  Ozon pages *)
(* are 1..Pages and a cursor is the number of the last page seen; 0 is the *)
(* empty cursor.                                                           *)
(***************************************************************************)
EXTENDS Naturals, Integers, FiniteSets

CONSTANTS Caller,       \* HTTP and webhook threads
          Boot,         \* the main thread, when it resumes at startup
          Ops,          \* the operations callers perform
          Pages,        \* pages of the Ozon catalogue
          MaxFailures,  \* MAX_CONSECUTIVE_FAILURES
          Workers,      \* pool threads
          PoolRejects,  \* the pool may refuse a task because it is full
          PageLoss,     \* fetching or upserting the details of a page may fail
          DbFaults,     \* a database statement may fail (every such error is swallowed)
          MaxJobs,      \* bound: syncs started over a behaviour
          MaxRestarts   \* bound: restarts of the process

ASSUME OzonAssumption ==
    /\ Boot \notin Caller
    /\ Ops \subseteq {"trigger", "full", "stop", "reset"}
    /\ Pages \in Nat /\ MaxFailures \in Nat \ {0} /\ Workers \in Nat \ {0}
    /\ PoolRejects \in BOOLEAN /\ PageLoss \in BOOLEAN /\ DbFaults \in BOOLEAN
    /\ MaxJobs \in Nat /\ MaxRestarts \in Nat

Thread == Caller \cup {Boot}
Job == 1..MaxJobs
NoJob == 0
NoMem == -1

VARIABLES db,           \* the sync_state row of "ozon": cursor and last_status
          mem,          \* the cursor SyncStateStore holds, or NoMem
          rec,          \* the sync_runs row of each job
          stored,       \* pages whose products were upserted
          lost,         \* pages passed over after a failed fetch_info or upsert
          ozonRunning,  \* ozon_running_
          ozonStop,     \* ozon_stop_
          shuttingDown, \* shutting_down_
          jobId,        \* ozon_job_id_
          progress,     \* ozon_progress_.status
          poolOpen,     \* accepting_ of the worker pool
          pc, arg,      \* where each thread is, and the job it works for
          run,          \* the run submitted for each job
          mainPc,       \* where the main thread is
          ids,          \* job ids handed out so far
          restarts      \* restarts so far

disk == <<db, rec, stored, lost>>
flags == <<ozonRunning, ozonStop, shuttingDown, jobId>>
life == <<poolOpen, mainPc, ids, restarts>>
vars == <<disk, mem, flags, progress, pc, arg, run, life>>

DbStatus == {"absent", "", "running", "retry", "failed", "done", "stopping", "stopped"}
RecStatus == {"none", "running", "done", "superseded", "reset", "refused",
              "stopped", "network", "interrupted"}
Progress == {"", "running", "retry", "failed", "done", "stopping", "stopped"}
TriggerPcs == {"clear_stop", "set_job", "abandon", "insert", "submit", "free"}
Pcs == TriggerPcs \cup
       {"idle", "wipe_db", "wipe_mem", "check", "cas", "read_job", "fail", "resume",
        "stop_progress", "stop_flag", "rst_progress", "rst_running", "rst_stop", "rst_job"}
LoopPhases == {"loop", "retry", "giveup", "store", "mem", "save", "end"}
Phases == LoopPhases \cup {"none", "queued", "begin", "record", "write", "free"}
Outcomes == {"done", "stopped", "network"}

DbRow == [cursor : 0..Pages, status : DbStatus]
RunRecord == [phase : Phases, cursor : 0..Pages, more : BOOLEAN,
              fails : 0..MaxFailures, outcome : Outcomes, job : 0..MaxJobs]
NoRun == [phase |-> "none", cursor |-> 0, more |-> FALSE, fails |-> 0,
          outcome |-> "done", job |-> NoJob]

Active(j) == run[j].phase # "none"
Executing == {j \in Job : run[j].phase \notin {"none", "queued"}}
InPhase(j, p) == run[j].phase = p

Init ==
    /\ db = [cursor |-> 0, status |-> "absent"]
    /\ mem = NoMem
    /\ rec = [j \in Job |-> "none"]
    /\ stored = {} /\ lost = {}
    /\ ozonRunning = FALSE /\ ozonStop = FALSE /\ shuttingDown = FALSE
    /\ jobId = NoJob /\ progress = ""
    /\ poolOpen = TRUE
    /\ pc = [t \in Thread |-> IF t = Boot THEN "resume" ELSE "idle"]
    /\ arg = [t \in Thread |-> NoJob]
    /\ run = [j \in Job |-> NoRun]
    /\ mainPc = "up" /\ ids = 0 /\ restarts = 0

-----------------------------------------------------------------------------
(* The database.  DbRepository swallows the errors of its statements and   *)
(* SyncService those of SyncRunsRepository, so a write happens or it does  *)
(* not, and the caller goes on; a checkpoint that cannot be read is taken  *)
(* for an empty one.                                                       *)

Write(new, old) == IF DbFaults THEN {new, old} ELSE {new}

ReadCursor == IF DbFaults THEN {db.cursor, 0} ELSE {db.cursor}

SaveCheckpoint(cursor, status) ==
    db' \in Write([cursor |-> cursor, status |-> status], db)

\* UPDATE statements leave a missing row missing.
UpdateStatus(status) ==
    db' \in Write(IF db.status = "absent" THEN db ELSE [db EXCEPT !.status = status], db)

ResetCheckpoint ==
    db' \in Write(IF db.status = "absent" THEN db
                  ELSE [cursor |-> 0, status |-> ""], db)

\* abandon_running and mark_interrupted close every record still running.
CloseRunning(to) == [j \in Job |-> IF rec[j] = "running" THEN to ELSE rec[j]]

\* finish_done and finish_failed update the row by job_id, whatever its status.
FinishRecord(j, to) ==
    rec' \in Write(IF rec[j] = "none" THEN rec ELSE [rec EXCEPT ![j] = to], rec)

\* Mutant: a sync that is stopping counts as finished.
HasUnfinishedStrict == db.cursor # 0 /\ db.status \notin {"done", "stopped", "stopping"}

HasUnfinished == db.cursor # 0 /\ db.status \notin {"done", "stopped"}

-----------------------------------------------------------------------------
(* trigger_ozon_sync, trigger_ozon_full and resume_on_start.               *)

Goto(t, from, to) == pc[t] = from /\ pc' = [pc EXCEPT ![t] = to]

Trigger(t) ==
    /\ "trigger" \in Ops /\ t # Boot /\ mainPc # "down"
    /\ ~shuttingDown
    /\ Goto(t, "idle", "cas")
    /\ UNCHANGED <<disk, mem, flags, progress, arg, run, life>>

TriggerFull(t) ==
    /\ "full" \in Ops /\ t # Boot /\ mainPc # "down"
    /\ ~shuttingDown
    /\ Goto(t, "idle", "wipe_db")
    /\ UNCHANGED <<disk, mem, flags, progress, arg, run, life>>

WipeDb(t) ==
    /\ Goto(t, "wipe_db", "wipe_mem")
    /\ ResetCheckpoint
    /\ UNCHANGED <<rec, stored, lost, mem, flags, progress, arg, run, life>>

WipeMem(t) ==
    /\ Goto(t, "wipe_mem", "check")
    /\ mem' = NoMem
    /\ UNCHANGED <<disk, flags, progress, arg, run, life>>

\* resume_on_start, once per start of the process.
Resume ==
    /\ \/ Goto(Boot, "resume", IF HasUnfinished THEN "check" ELSE "idle")
       \/ DbFaults /\ Goto(Boot, "resume", "idle")
    /\ UNCHANGED <<disk, mem, flags, progress, arg, run, life>>

CheckShutdown(t) ==
    /\ Goto(t, "check", IF shuttingDown THEN "idle" ELSE "cas")
    /\ UNCHANGED <<disk, mem, flags, progress, arg, run, life>>

\* Mutant: the flag is set without being compared.
ClaimRunBlindly(t) ==
    /\ ids < MaxJobs
    /\ Goto(t, "cas", "clear_stop")
    /\ ozonRunning' = TRUE
    /\ ids' = ids + 1 /\ arg' = [arg EXCEPT ![t] = ids + 1]
    /\ UNCHANGED <<disk, mem, ozonStop, shuttingDown, jobId, progress, run,
                   poolOpen, mainPc, restarts>>

\* ozon_running_.compare_exchange_strong; the winner will need a job
\* id (the bound MaxJobs leaves a trigger that cannot have one where it is).
ClaimRun(t) ==
    /\ IF ozonRunning
       THEN Goto(t, "cas", "idle") /\ UNCHANGED <<ozonRunning, ids, arg>>
       ELSE /\ ids < MaxJobs
            /\ Goto(t, "cas", "clear_stop")
            /\ ozonRunning' = TRUE
            /\ ids' = ids + 1 /\ arg' = [arg EXCEPT ![t] = ids + 1]
    /\ UNCHANGED <<disk, mem, ozonStop, shuttingDown, jobId, progress, run,
                   poolOpen, mainPc, restarts>>

ClearStop(t) ==
    /\ Goto(t, "clear_stop", "set_job")
    /\ ozonStop' = FALSE
    /\ UNCHANGED <<disk, mem, ozonRunning, shuttingDown, jobId, progress, arg, run, life>>

SetJob(t) ==
    /\ Goto(t, "set_job", "abandon")
    /\ jobId' = arg[t]
    /\ UNCHANGED <<disk, mem, ozonRunning, ozonStop, shuttingDown, progress, arg, run, life>>

\* Mutant: the records of earlier jobs are left alone.
AbandonNothing(t) ==
    /\ Goto(t, "abandon", "insert")
    /\ UNCHANGED <<disk, mem, flags, progress, arg, run, life>>

\* When abandon_running throws, start is skipped.
AbandonOthers(t) ==
    /\ \/ Goto(t, "abandon", "insert") /\ rec' = CloseRunning("superseded")
       \/ DbFaults /\ Goto(t, "abandon", "submit") /\ UNCHANGED rec
    /\ UNCHANGED <<db, stored, lost, mem, flags, progress, arg, run, life>>

InsertRecord(t) ==
    /\ Goto(t, "insert", "submit")
    /\ rec' \in Write([rec EXCEPT ![arg[t]] = "running"], rec)
    /\ UNCHANGED <<db, stored, lost, mem, flags, progress, arg, run, life>>

Submit(t) ==
    /\ \/ /\ poolOpen
          /\ Goto(t, "submit", "idle")
          /\ run' = [run EXCEPT ![arg[t]] = [NoRun EXCEPT !.phase = "queued"]]
          /\ arg' = [arg EXCEPT ![t] = NoJob]
       \/ /\ PoolRejects \/ ~poolOpen
          /\ Goto(t, "submit", "free")
          /\ UNCHANGED <<run, arg>>
    /\ UNCHANGED <<disk, mem, flags, progress, life>>

\* Mutant: a refused trigger records no failure.
FreeRefusedSilently(t) ==
    /\ Goto(t, "free", "idle")
    /\ ozonRunning' = FALSE
    /\ UNCHANGED <<disk, mem, ozonStop, shuttingDown, jobId, progress, arg, run, life>>

\* Mutant: a refused trigger keeps the flag.
FreeRefusedNever(t) ==
    /\ Goto(t, "free", "read_job")
    /\ UNCHANGED <<disk, mem, flags, progress, arg, run, life>>

\* A refused trigger gives the flag back first and records the failure after.
FreeRefused(t) ==
    /\ Goto(t, "free", "read_job")
    /\ ozonRunning' = FALSE
    /\ UNCHANGED <<disk, mem, ozonStop, shuttingDown, jobId, progress, arg, run, life>>

ReadJob(t) ==
    /\ Goto(t, "read_job", IF jobId = NoJob THEN "idle" ELSE "fail")
    /\ arg' = [arg EXCEPT ![t] = jobId]
    /\ UNCHANGED <<disk, mem, flags, progress, run, life>>

RecordRefused(t) ==
    /\ Goto(t, "fail", "idle")
    /\ FinishRecord(arg[t], "refused")
    /\ arg' = [arg EXCEPT ![t] = NoJob]
    /\ UNCHANGED <<db, stored, lost, mem, flags, progress, run, life>>

TriggerStep(t) ==
    \/ WipeDb(t) \/ WipeMem(t) \/ CheckShutdown(t) \/ ClaimRun(t) \/ ClearStop(t)
    \/ SetJob(t) \/ AbandonOthers(t) \/ InsertRecord(t) \/ Submit(t)
    \/ FreeRefused(t) \/ ReadJob(t) \/ RecordRefused(t)

-----------------------------------------------------------------------------
(* stop_ozon: the status in the database, the progress, then the flag.     *)

StopOzon(t) ==
    /\ "stop" \in Ops /\ t # Boot /\ mainPc # "down"
    /\ Goto(t, "idle", "stop_progress")
    /\ UpdateStatus("stopping")
    /\ UNCHANGED <<rec, stored, lost, mem, flags, progress, arg, run, life>>

StopProgress(t) ==
    /\ Goto(t, "stop_progress", "stop_flag")
    /\ progress' = "stopping"
    /\ UNCHANGED <<disk, mem, flags, arg, run, life>>

StopFlag(t) ==
    /\ Goto(t, "stop_flag", "idle")
    /\ ozonStop' = TRUE
    /\ UNCHANGED <<disk, mem, ozonRunning, shuttingDown, jobId, progress, arg, run, life>>

(* POST /api/sync/reset, the part that concerns Ozon: abandon_running, then*)
(* reset_ozon_progress.  An error of the database ends the handler.        *)

Reset(t) ==
    /\ "reset" \in Ops /\ t # Boot /\ mainPc # "down"
    /\ Goto(t, "idle", "rst_progress")
    /\ rec' = CloseRunning("reset")
    /\ UNCHANGED <<db, stored, lost, mem, flags, progress, arg, run, life>>

ResetProgress(t) ==
    /\ Goto(t, "rst_progress", "rst_running")
    /\ progress' = ""
    /\ UNCHANGED <<disk, mem, flags, arg, run, life>>

ResetRunning(t) ==
    /\ Goto(t, "rst_running", "rst_stop")
    /\ ozonRunning' = FALSE
    /\ UNCHANGED <<disk, mem, ozonStop, shuttingDown, jobId, progress, arg, run, life>>

ResetStop(t) ==
    /\ Goto(t, "rst_stop", "rst_job")
    /\ ozonStop' = FALSE
    /\ UNCHANGED <<disk, mem, ozonRunning, shuttingDown, jobId, progress, arg, run, life>>

ResetJob(t) ==
    /\ Goto(t, "rst_job", "idle")
    /\ jobId' = NoJob
    /\ UNCHANGED <<disk, mem, ozonRunning, ozonStop, shuttingDown, progress, arg, run, life>>

OtherStep(t) == \/ StopProgress(t) \/ StopFlag(t)
                \/ ResetProgress(t) \/ ResetRunning(t) \/ ResetStop(t) \/ ResetJob(t)

-----------------------------------------------------------------------------
(* run_ozon_sync, executed by a pool worker for job j.                     *)

RunGoto(j, from, to) == InPhase(j, from) /\ run' = [run EXCEPT ![j].phase = to]

\* Mutant: the stop flag is cleared when the run begins.
LoadCheckpointFresh(j) ==
    /\ InPhase(j, "queued") /\ Cardinality(Executing) < Workers
    /\ \E c \in IF mem # NoMem THEN {mem} ELSE ReadCursor :
         run' = [run EXCEPT ![j].phase = "begin", ![j].cursor = c]
    /\ ozonStop' = FALSE
    /\ UNCHANGED <<disk, mem, ozonRunning, shuttingDown, jobId, progress, pc, arg, life>>

\* A worker takes the run and loads the checkpoint, from memory if it is there.
LoadCheckpoint(j) ==
    /\ InPhase(j, "queued") /\ Cardinality(Executing) < Workers
    /\ \E c \in IF mem # NoMem THEN {mem} ELSE ReadCursor :
         run' = [run EXCEPT ![j].phase = "begin", ![j].cursor = c]
    /\ UNCHANGED <<disk, mem, flags, progress, pc, arg, life>>

BeginRun(j) ==
    /\ RunGoto(j, "begin", "loop")
    /\ SaveCheckpoint(run[j].cursor, "running")
    /\ UNCHANGED <<rec, stored, lost, mem, flags, progress, pc, arg, life>>

\* The stop flag is looked at once per page; otherwise the next page is fetched.
\* An answer without usable items ends the run wherever it is.  There is more
\* when the page is full, which a page with an unusable item is not, and which
\* the last one may be.
StopSeen(j) ==
    /\ ozonStop /\ RunGoto(j, "loop", "end")
    /\ UNCHANGED <<disk, mem, flags, progress, pc, arg, life>>

FetchFails(j) ==
    /\ ~ozonStop /\ InPhase(j, "loop")
    /\ run' = [run EXCEPT ![j].phase = "retry", ![j].fails = @ + 1]
    /\ UNCHANGED <<disk, mem, flags, progress, pc, arg, life>>

\* Mutant: the cursor is remembered when the page arrives, before it is stored.
FetchPageRemembered(j) ==
    /\ ~ozonStop /\ InPhase(j, "loop") /\ run[j].cursor < Pages
    /\ run' = [run EXCEPT ![j].phase = "store", ![j].fails = 0]
    /\ mem' = run[j].cursor + 1
    /\ UNCHANGED <<disk, flags, progress, pc, arg, life>>

FetchPage(j) ==
    /\ ~ozonStop /\ InPhase(j, "loop")
    /\ \/ run' = [run EXCEPT ![j].phase = "end", ![j].fails = 0]
       \/ /\ run[j].cursor < Pages
          /\ \E more \in BOOLEAN :
               run' = [run EXCEPT ![j].phase = "store", ![j].fails = 0, ![j].more = more]
    /\ progress' \in {progress, "running"}
    /\ UNCHANGED <<disk, mem, flags, pc, arg, life>>

\* Mutant: one failure too many is allowed.
RetryOnceMore(j) ==
    /\ RunGoto(j, "retry", IF run[j].fails > MaxFailures THEN "giveup" ELSE "loop")
    /\ SaveCheckpoint(run[j].cursor, "retry")
    /\ progress' = "retry"
    /\ UNCHANGED <<rec, stored, lost, mem, flags, pc, arg, life>>

RetryLater(j) ==
    /\ RunGoto(j, "retry", IF run[j].fails >= MaxFailures THEN "giveup" ELSE "loop")
    /\ SaveCheckpoint(run[j].cursor, "retry")
    /\ progress' = "retry"
    /\ UNCHANGED <<rec, stored, lost, mem, flags, pc, arg, life>>

\* Mutant: the last failure is not shown.
GiveUpSilently(j) ==
    /\ InPhase(j, "giveup")
    /\ run' = [run EXCEPT ![j].phase = "record", ![j].outcome = "network"]
    /\ SaveCheckpoint(run[j].cursor, "failed")
    /\ UNCHANGED <<rec, stored, lost, mem, flags, progress, pc, arg, life>>

GiveUp(j) ==
    /\ InPhase(j, "giveup")
    /\ run' = [run EXCEPT ![j].phase = "record", ![j].outcome = "network"]
    /\ SaveCheckpoint(run[j].cursor, "failed")
    /\ progress' = "failed"
    /\ UNCHANGED <<rec, stored, lost, mem, flags, pc, arg, life>>

\* The products of a page are upserted in one transaction, if their details came.
PageUpserted(p) == stored' = stored \cup {p} /\ UNCHANGED lost
PageMissing(p) == PageLoss /\ lost' = lost \cup {p} /\ UNCHANGED stored

\* The details of the page are fetched and upserted; the result of neither is
\* looked at, and the cursor moves past the page in both cases.
StorePage(j) ==
    /\ InPhase(j, "store")
    /\ run' = [run EXCEPT ![j].phase = "mem", ![j].cursor = @ + 1]
    /\ PageUpserted(run[j].cursor + 1) \/ PageMissing(run[j].cursor + 1)
    /\ UNCHANGED <<db, rec, mem, flags, progress, pc, arg, life>>

Remember(j) ==
    /\ RunGoto(j, "mem", "save")
    /\ mem' = run[j].cursor
    /\ UNCHANGED <<disk, flags, progress, pc, arg, life>>

SavePage(j) ==
    /\ InPhase(j, "save")
    /\ run' = [run EXCEPT ![j].phase = IF run[j].more THEN "loop" ELSE "end",
                          ![j].more = FALSE]
    /\ SaveCheckpoint(run[j].cursor, "running")
    /\ progress' = "running"
    /\ UNCHANGED <<rec, stored, lost, mem, flags, pc, arg, life>>

EndDone(j) ==
    /\ InPhase(j, "end") /\ ~ozonStop
    /\ run' = [run EXCEPT ![j].phase = "record", ![j].outcome = "done"]
    /\ SaveCheckpoint(run[j].cursor, "done")
    /\ progress' = "done"
    /\ UNCHANGED <<rec, stored, lost, mem, flags, pc, arg, life>>

\* Mutant: a stopped run gives the flag back before its record is written.
EndStoppedEarly(j) ==
    /\ InPhase(j, "end") /\ ozonStop
    /\ run' = [run EXCEPT ![j].phase = "record", ![j].outcome = "stopped"]
    /\ progress' = "stopped" /\ ozonRunning' = FALSE
    /\ UNCHANGED <<disk, mem, ozonStop, shuttingDown, jobId, pc, arg, life>>

\* A stopped run leaves the checkpoint as it is.
EndStopped(j) ==
    /\ InPhase(j, "end") /\ ozonStop
    /\ run' = [run EXCEPT ![j].phase = "record", ![j].outcome = "stopped"]
    /\ progress' = "stopped"
    /\ UNCHANGED <<disk, mem, flags, pc, arg, life>>

\* ozon_job_finish_done and _failed read the shared ozon_job_id_ first.
ReadOwnJob(j) ==
    /\ InPhase(j, "record")
    /\ run' = [run EXCEPT ![j].phase = IF jobId = NoJob THEN "free" ELSE "write",
                          ![j].job = jobId]
    /\ UNCHANGED <<disk, mem, flags, progress, pc, arg, life>>

WriteOutcome(j) ==
    /\ RunGoto(j, "write", "free")
    /\ FinishRecord(run[j].job, run[j].outcome)
    /\ UNCHANGED <<db, stored, lost, mem, flags, progress, pc, arg, life>>

ReleaseRun(j) ==
    /\ InPhase(j, "free")
    /\ run' = [run EXCEPT ![j] = NoRun]
    /\ ozonRunning' = FALSE
    /\ UNCHANGED <<disk, mem, ozonStop, shuttingDown, jobId, progress, pc, arg, life>>

RunStep(j) ==
    \/ LoadCheckpoint(j) \/ BeginRun(j) \/ StopSeen(j) \/ FetchFails(j) \/ FetchPage(j)
    \/ RetryLater(j) \/ GiveUp(j) \/ StorePage(j) \/ Remember(j) \/ SavePage(j)
    \/ EndDone(j) \/ EndStopped(j) \/ ReadOwnJob(j) \/ WriteOutcome(j) \/ ReleaseRun(j)

-----------------------------------------------------------------------------
(* The process.                                                            *)

MainGoto(from, to) == mainPc = from /\ mainPc' = to

\* request_stop in two steps, then pool.stop_accepting.
RequestStop ==
    /\ MainGoto("up", "stopping") /\ pc[Boot] = "idle"
    /\ shuttingDown' = TRUE
    /\ UNCHANGED <<disk, mem, ozonRunning, ozonStop, jobId, progress, pc, arg, run,
                   poolOpen, ids, restarts>>

RequestStopFlag ==
    /\ MainGoto("stopping", "stopped")
    /\ ozonStop' = TRUE
    /\ UNCHANGED <<disk, mem, ozonRunning, shuttingDown, jobId, progress, pc, arg, run,
                   poolOpen, ids, restarts>>

ClosePool ==
    /\ MainGoto("stopped", "closed")
    /\ poolOpen' = FALSE
    /\ UNCHANGED <<disk, mem, flags, progress, pc, arg, run, ids, restarts>>

\* wait_idle: every run is over, or the timeout has passed.
WaitIdle ==
    /\ \/ MainGoto("closed", "drained") /\ \A j \in Job : ~Active(j)
       \/ MainGoto("closed", "timeout")
    /\ UNCHANGED <<disk, mem, flags, progress, pc, arg, run, poolOpen, ids, restarts>>

\* Everything that is not on disk is gone.
Forget ==
    /\ mainPc' = "down"
    /\ mem' = NoMem /\ jobId' = NoJob /\ progress' = ""
    /\ ozonRunning' = FALSE /\ ozonStop' = FALSE /\ shuttingDown' = FALSE
    /\ poolOpen' = TRUE
    /\ pc' = [t \in Thread |-> "idle"] /\ arg' = [t \in Thread |-> NoJob]
    /\ run' = [j \in Job |-> NoRun]
    /\ UNCHANGED <<disk, ids, restarts>>

\* main returns once the HTTP threads have been joined.
Exit == /\ mainPc \in {"drained", "timeout"}
        /\ \A t \in Thread : pc[t] = "idle"
        /\ Forget

Crash == mainPc # "down" /\ Forget

\* The start of main: mark_interrupted, then the server, then resume_on_start.
Restart ==
    /\ MainGoto("down", "up") /\ restarts < MaxRestarts
    /\ restarts' = restarts + 1
    /\ rec' \in Write(CloseRunning("interrupted"), rec)
    /\ pc' = [pc EXCEPT ![Boot] = "resume"]
    /\ UNCHANGED <<db, stored, lost, mem, flags, progress, arg, run, poolOpen, ids>>

Shutdown == RequestStopFlag \/ ClosePool \/ WaitIdle \/ Exit

-----------------------------------------------------------------------------
Next == \/ \E t \in Thread : \/ Trigger(t) \/ TriggerFull(t) \/ StopOzon(t) \/ Reset(t)
                             \/ TriggerStep(t) \/ OtherStep(t)
        \/ \E j \in Job : RunStep(j)
        \/ Resume \/ RequestStop \/ Shutdown \/ Crash \/ Restart

SafeSpec == Init /\ [][Next]_vars

(* A request handler that has begun is carried through, a pool worker goes *)
(* on with its run (every HTTP call has a timeout, every sleep ends), and  *)
(* main finishes a shutdown it has begun.  Requests, signals, crashes and  *)
(* restarts need not happen.                                               *)
Fairness == /\ \A t \in Thread : WF_vars(TriggerStep(t) \/ OtherStep(t))
            /\ \A j \in Job : WF_vars(RunStep(j))
            /\ WF_vars(Resume) /\ WF_vars(Shutdown)

Spec == SafeSpec /\ Fairness
-----------------------------------------------------------------------------
(* The types of the variables.                                             *)
TypeOK ==
    /\ db \in DbRow
    /\ mem \in NoMem..Pages
    /\ rec \in [Job -> RecStatus]
    /\ stored \subseteq 1..Pages /\ lost \subseteq 1..Pages
    /\ ozonRunning \in BOOLEAN /\ ozonStop \in BOOLEAN /\ shuttingDown \in BOOLEAN
    /\ jobId \in 0..MaxJobs
    /\ progress \in Progress
    /\ poolOpen \in BOOLEAN
    /\ pc \in [Thread -> Pcs] /\ arg \in [Thread -> 0..MaxJobs]
    /\ run \in [Job -> RunRecord]
    /\ mainPc \in {"up", "stopping", "stopped", "closed", "drained", "timeout", "down"}
    /\ ids \in 0..MaxJobs /\ restarts \in 0..MaxRestarts

(* ozon_running_ lets one run exist at a time: two triggers, or a trigger  *)
(* and a run queued, running or finishing, never own the service together. *)
Owner(t) == pc[t] \in TriggerPcs
OneRun ==
    /\ \A s, t \in Thread : Owner(s) /\ Owner(t) => s = t
    /\ \A i, j \in Job : Active(i) /\ Active(j) => i = j
    /\ \A t \in Thread, j \in Job : ~(Owner(t) /\ Active(j))

(* The saved cursor never runs ahead of the data: whatever was crashed,    *)
(* repeated or wiped, each page up to the cursor in sync_state or in       *)
(* memory has been stored, or was given up by a failed detail request.     *)
CheckpointCovered ==
    \A p \in 1..Pages : p <= db.cursor \/ p <= mem => p \in stored \cup lost

(* A stop that reaches a running sync is not lost: while a run is queued   *)
(* or in its loop nothing clears ozon_stop_.                               *)
StopNotLost ==
    [][ozonStop /\ (\E j \in Job : run'[j].phase \in LoopPhases \cup {"queued", "begin"})
         => ozonStop']_vars

(* The job id is shared by all syncs, yet a finishing run always reports   *)
(* under the id it was started with.                                       *)
FinishOwnRecord == \A j \in Job : InPhase(j, "write") => run[j].job = j

(* sync_runs shows at most one Ozon job as running.                        *)
OneRunningRecord ==
    \A i, j \in Job : rec[i] = "running" /\ rec[j] = "running" => i = j

(* Once every trigger and every run has finished, in service or after the  *)
(* drain of a shutdown, no job is left 'running' in sync_runs, whichever   *)
(* of them ended it (the run, a refused submit, or a later trigger).       *)
Quiet == /\ \A t \in Thread : ~Owner(t) /\ pc[t] \notin {"read_job", "fail"}
         /\ \A j \in Job : ~Active(j)
NoOrphanRecord == mainPc # "down" /\ Quiet => \A j \in Job : rec[j] # "running"

(* A crash in the middle of a run is found by resume_on_start whatever the *)
(* run, a stop or a wipe last wrote to sync_state; only a sync-full request*)
(* that blanked the cursor under the run leaves nothing to resume.         *)
CrashedRunIsResumable ==
    \A j \in Job : InPhase(j, "loop") /\ run[j].cursor > 0
                     => HasUnfinished \/ db.cursor = 0

(* GET /ozon/progress never shows a sync as running, or retrying, that no  *)
(* run is working on.                                                      *)
NoGhostProgress ==
    (\A j \in Job : ~Active(j)) => progress \notin {"running", "retry"}

(* A sync the user has stopped is over for resume_on_start: the statuses   *)
(* SyncCheckpoint documents, and has_unfinished_ozon_sync tests, include   *)
(* "stopped".                                                              *)
StoppedIsFinal ==
    \A j \in Job : InPhase(j, "free") /\ run[j].outcome = "stopped" /\ mainPc = "up"
                     => ~HasUnfinished

(* A sync whose checkpoint says "done" has stored every page it passed.    *)
DoneMeansStored ==
    db.status = "done" => \A p \in 1..db.cursor : p \in stored

(* The service never stays busy: the flag a trigger took is given back.    *)
FlagIsReleased == ozonRunning ~> ~ozonRunning
=============================================================================

--------------------------- MODULE InventoryPull ---------------------------
(***************************************************************************)
(* The 1C inventory pull of src/handlers.cpp: POST /api/1c/inventory-pulls *)
(* closes what an earlier pull left, opens a record in sync_runs and a     *)
(* checkpoint in inventory1c_checkpoints, and hands over to a detached     *)
(* thread that works through the stages catalog, ka2_pull and save.  A new *)
(* pull does not stop an old one: it takes a new generation, and a thread  *)
(* of an older generation is meant to fall silent.  POST /api/sync/reset   *)
(* closes everything, and a restart of the process (src/main.cpp) resumes  *)
(* a pull that it cut off by posting a new one.                            *)
(*                                                                         *)
(* A step is one access another thread can see: the generation counter,    *)
(* InventoryPullState under its mutex, one database transaction (the one   *)
(* that opens a checkpoint in two steps, see OpenCheckpoint).  Job ids,    *)
(* which the code takes from a microsecond clock, are 1, 2, 3 ...  The     *)
(* progress events within the catalogue stage, which repeat what its first *)
(* event shows, and the part of the reset that concerns Ozon (OzonSync)    *)
(* are left out; a failed statement is modelled for the checkpoint insert. *)
(***************************************************************************)
EXTENDS Naturals, FiniteSets

CONSTANTS HttpThreads,  \* threads that serve requests at the same time
          MaxPosts,     \* bound: pulls asked for by users
          MaxBreaks     \* bound: resets and ends of the process, together

ASSUME PullAssumption ==
    /\ HttpThreads \in Nat \ {0}
    /\ MaxPosts \in Nat /\ MaxBreaks \in Nat

Job == 1 .. (MaxPosts + MaxBreaks)
NoJob == 0

VARIABLES gen,       \* g_inventory_generation
          shown,     \* InventoryPullState: whose progress is shown, and its status
          task,      \* the handler of a job and then its detached thread
          rec,       \* the status of its sync_runs row
          cp,        \* its inventory1c_checkpoints row
          seen,      \* the open checkpoints its start transaction has seen
          resetPc,   \* where POST /api/sync/reset is
          mainPc,    \* where the main thread is
          found,     \* the checkpoint find_unfinished returned at this start
          cut,       \* history: a pull was alive when the process ended last
          ids, posts, breaks

tables == <<rec, cp>>
bounds == <<posts, breaks>>
process == <<mainPc, found, cut, ids, bounds>>
vars == <<gen, shown, task, tables, seen, resetPc, process>>

HandlerPoints == {"bump", "close_recs", "close_cps", "show_new", "insert_rec",
                  "open_cp", "insert_cp"}
ThreadPoints == {"check", "show", "work", "mark", "gate", "end_rec", "end_cp",
                 "show_thrown"}
Stages == {"start", "catalog", "ka2_pull", "save"}
\* What the thread is about to report; "thrown" is an exception it caught.
Reports == {"running", "done", "imported", "failed", "thrown"}
RowStatus == {"none", "running", "interrupted", "done", "failed"}

Task == [at : HandlerPoints \cup ThreadPoints \cup {"none", "ended"},
         stage : Stages, report : Reports, gen : Nat]
NoTask == [at |-> "none", stage |-> "start", report |-> "running", gen |-> 0]
NoShow == [job |-> NoJob, status |-> "none"]
NoCheckpoint == [status |-> "none", stage |-> "start"]

At(j, p) == task[j].at = p
InHandler == {j \in Job : task[j].at \in HandlerPoints}
Alive == {j \in Job : task[j].at \notin {"none", "ended"}}
Open(k) == cp[k].status \in {"running", "interrupted"}

\* A first start finds nothing to resume.
Init ==
    /\ gen = 0 /\ shown = NoShow
    /\ task = [j \in Job |-> NoTask]
    /\ rec = [j \in Job |-> "none"] /\ cp = [j \in Job |-> NoCheckpoint]
    /\ seen = [j \in Job |-> {}]
    /\ resetPc = "idle" /\ mainPc = "up"
    /\ found = NoJob /\ cut = FALSE
    /\ ids = 0 /\ posts = 0 /\ breaks = 0

-----------------------------------------------------------------------------
(* The two repositories.                                                   *)

\* Mutant: the UPDATE does not look at the status.
CloseAllRecords(to) == rec' = [k \in Job |-> IF rec[k] # "none" THEN to ELSE rec[k]]

\* sync_runs: abandon_running and mark_interrupted.
CloseRecords(to) == rec' = [k \in Job |-> IF rec[k] = "running" THEN to ELSE rec[k]]

\* inventory1c_checkpoints: abandon_running closes interrupted rows as well.
CloseCheckpoints ==
    cp' = [k \in Job |-> IF Open(k) THEN [cp[k] EXCEPT !.status = "failed"] ELSE cp[k]]

\* finish_done and finish_failed, by job id whatever the status of the row.
FinishRecord(j, to) == rec' = [rec EXCEPT ![j] = IF @ = "none" THEN @ ELSE to]

\* Mutant: the UPDATE does not look at the job.
FinishOpenCheckpoints(j, to) ==
    cp' = [k \in Job |-> IF k = j \/ Open(k) THEN [cp[k] EXCEPT !.status = to] ELSE cp[k]]

FinishCheckpoint(j, to) ==
    cp' = [cp EXCEPT ![j].status = IF @ = "none" THEN @ ELSE to]

\* Mutant: a stage is noted in a checkpoint that was closed, and reopens it.
UpdateReopening(j) ==
    cp' = [cp EXCEPT ![j] = IF @.status # "none"
                            THEN [status |-> "running", stage |-> task[j].stage] ELSE @]

UpdateCheckpoint(j) ==
    cp' = [cp EXCEPT ![j].stage = IF cp[j].status = "running" THEN task[j].stage ELSE @]

-----------------------------------------------------------------------------
(* POST /api/1c/inventory-pulls.                                           *)

Goto(j, from, to) == At(j, from) /\ task' = [task EXCEPT ![j].at = to]

\* A request takes an HTTP thread and a job id.
Receive ==
    /\ Cardinality(InHandler) + (IF resetPc = "idle" THEN 0 ELSE 1) < HttpThreads
    /\ ids' = ids + 1
    /\ task' = [task EXCEPT ![ids + 1].at = "bump"]
    /\ UNCHANGED <<gen, shown, tables, seen, resetPc>>

PostPull ==
    /\ mainPc # "down" /\ posts < MaxPosts
    /\ Receive
    /\ posts' = posts + 1
    /\ UNCHANGED <<mainPc, found, cut, breaks>>

Bump(j) ==
    /\ At(j, "bump")
    /\ gen' = gen + 1
    /\ task' = [task EXCEPT ![j].at = "close_recs", ![j].gen = gen + 1]
    /\ UNCHANGED <<shown, tables, seen, resetPc, process>>

AbandonRecords(j) ==
    /\ Goto(j, "close_recs", "close_cps")
    /\ CloseRecords("failed")
    /\ UNCHANGED <<gen, shown, cp, seen, resetPc, process>>

AbandonCheckpoints(j) ==
    /\ Goto(j, "close_cps", "show_new")
    /\ CloseCheckpoints
    /\ UNCHANGED <<gen, shown, rec, seen, resetPc, process>>

ShowNew(j) ==
    /\ Goto(j, "show_new", "insert_rec")
    /\ shown' = [job |-> j, status |-> "running"]
    /\ UNCHANGED <<gen, tables, seen, resetPc, process>>

InsertRecord(j) ==
    /\ Goto(j, "insert_rec", "open_cp")
    /\ rec' = [rec EXCEPT ![j] = "running"]
    /\ UNCHANGED <<gen, shown, cp, seen, resetPc, process>>

\* InventoryCheckpointRepository::start is one transaction: the UPDATE reaches
\* the rows that are open when it runs ...
OpenCheckpoint(j) ==
    /\ Goto(j, "open_cp", "insert_cp")
    /\ seen' = [seen EXCEPT ![j] = {k \in Job : Open(k)}]
    /\ UNCHANGED <<gen, shown, tables, resetPc, process>>

ThreadStart(j) ==
    /\ task' = [task EXCEPT ![j].at = "check", ![j].stage = "catalog", ![j].report = "running"]
    /\ seen' = [seen EXCEPT ![j] = {}]

\* ... and the INSERT meets the unique index over running rows: if another
\* start has committed since, the whole transaction fails, and the handler
\* goes on without a checkpoint.
InsertCheckpoint(j) ==
    /\ At(j, "insert_cp")
    /\ cp' = IF \E k \in Job \ seen[j] : cp[k].status = "running" THEN cp
             ELSE [k \in Job |->
                     IF k = j THEN [status |-> "running", stage |-> "start"]
                     ELSE IF k \in seen[j] /\ Open(k)
                     THEN [cp[k] EXCEPT !.status = "failed"] ELSE cp[k]]
    /\ ThreadStart(j)
    /\ UNCHANGED <<gen, shown, rec, resetPc, process>>

-----------------------------------------------------------------------------
(* The detached thread.  emit compares the generation (Check) and writes   *)
(* the shown progress afterwards (Show).                                   *)

Current(j) == task[j].gen = gen

\* Where the thread goes on after it has reported.
After(report) == CASE report = "running" -> "work"
                   [] report = "done" -> "mark"
                   [] OTHER -> "gate"

Check(j) ==
    /\ At(j, "check")
    /\ task' = [task EXCEPT ![j].at = IF Current(j) THEN "show" ELSE After(task[j].report)]
    /\ UNCHANGED <<gen, shown, tables, seen, resetPc, process>>

Show(j) ==
    /\ At(j, "show")
    /\ task' = [task EXCEPT ![j].at = After(task[j].report)]
    /\ shown' = [job |-> j, status |-> task[j].report]
    /\ UNCHANGED <<gen, tables, seen, resetPc, process>>

Report(j, stage, report) ==
    task' = [task EXCEPT ![j].at = "check", ![j].stage = stage, ![j].report = report]

Catch(j) == task' = [task EXCEPT ![j].at = "gate", ![j].report = "thrown"]

\* The pull of the catalogue, the pull from KA2 or the import, after the
\* stage was reported as running.  A component that is not set and an import
\* that is refused are reported as errors; the catalogue has no such way out.
Work(j) ==
    /\ At(j, "work")
    /\ \/ Report(j, task[j].stage, "done")
       \/ task[j].stage # "catalog" /\ Report(j, task[j].stage, "failed")
       \/ Catch(j)
    /\ UNCHANGED <<gen, shown, tables, seen, resetPc, process>>

\* Mutant: the snapshot is not saved.
NextStageUnsaved(stage) == IF stage = "catalog" THEN "ka2_pull" ELSE "done"

NextStage(stage) == IF stage = "catalog" THEN "ka2_pull" ELSE "save"

\* A completed stage is noted in the checkpoint, and the next one prepared:
\* the SKUs are read (there may be none) or the snapshot is built.
Mark(j) ==
    /\ At(j, "mark")
    /\ UpdateCheckpoint(j)
    /\ IF task[j].stage = "save" THEN Report(j, "save", "imported")
       ELSE \/ \E report \in {"running", "failed"} : Report(j, NextStage(task[j].stage), report)
            \/ Catch(j)
    /\ UNCHANGED <<gen, shown, rec, seen, resetPc, process>>

\* The thread returns; what it was about to report is forgotten.
End(j) ==
    task' = [task EXCEPT ![j] = [at |-> "ended", stage |-> "start", report |-> "running",
                                 gen |-> task[j].gen]]

\* Mutant: a pull that failed does not close its record.
GateOnSuccess(j) ==
    /\ At(j, "gate")
    /\ IF Current(j) /\ task[j].report # "failed" THEN Goto(j, "gate", "end_rec") ELSE End(j)
    /\ UNCHANGED <<gen, shown, tables, seen, resetPc, process>>

\* Only the newest generation closes its record.
Gate(j) ==
    /\ At(j, "gate")
    /\ IF Current(j) THEN Goto(j, "gate", "end_rec") ELSE End(j)
    /\ UNCHANGED <<gen, shown, tables, seen, resetPc, process>>

Outcome(j) == IF task[j].report = "imported" THEN "done" ELSE "failed"

EndRecord(j) ==
    /\ Goto(j, "end_rec", "end_cp")
    /\ FinishRecord(j, Outcome(j))
    /\ UNCHANGED <<gen, shown, cp, seen, resetPc, process>>

EndCheckpoint(j) ==
    /\ At(j, "end_cp")
    /\ IF task[j].report = "thrown" THEN Goto(j, "end_cp", "show_thrown") ELSE End(j)
    /\ FinishCheckpoint(j, Outcome(j))
    /\ UNCHANGED <<gen, shown, rec, seen, resetPc, process>>

\* The catch handlers show the error without a second look at the generation.
ShowThrown(j) ==
    /\ At(j, "show_thrown") /\ End(j)
    /\ shown' = [job |-> j, status |-> "failed"]
    /\ UNCHANGED <<gen, tables, seen, resetPc, process>>

-----------------------------------------------------------------------------
(* POST /api/sync/reset: the generation is bumped last.                    *)

Reset ==
    /\ mainPc # "down" /\ breaks < MaxBreaks /\ resetPc = "idle"
    /\ Cardinality(InHandler) < HttpThreads
    /\ CloseRecords("failed")
    /\ resetPc' = "close_cps" /\ breaks' = breaks + 1
    /\ UNCHANGED <<gen, shown, task, cp, seen, mainPc, found, cut, ids, posts>>

ResetCheckpoints ==
    /\ resetPc = "close_cps"
    /\ CloseCheckpoints
    /\ resetPc' = "clear"
    /\ UNCHANGED <<gen, shown, task, rec, seen, process>>

ResetShown ==
    /\ resetPc = "clear"
    /\ shown' = NoShow
    /\ resetPc' = "bump"
    /\ UNCHANGED <<gen, task, tables, seen, process>>

ResetGeneration ==
    /\ resetPc = "bump"
    /\ gen' = gen + 1
    /\ resetPc' = "idle"
    /\ UNCHANGED <<shown, task, tables, seen, process>>

-----------------------------------------------------------------------------
(* The process.  Neither a crash nor a shutdown waits for the detached     *)
(* threads, so both end them where they are.                               *)

ProcessEnds ==
    /\ mainPc # "down" /\ breaks < MaxBreaks
    /\ mainPc' = "down" /\ breaks' = breaks + 1
    /\ cut' = (Alive # {}) /\ found' = NoJob
    /\ gen' = 0 /\ shown' = NoShow /\ resetPc' = "idle"
    /\ task' = [j \in Job |-> NoTask] /\ seen' = [j \in Job |-> {}]
    /\ UNCHANGED <<tables, ids, posts>>

\* mark_interrupted of both repositories, before the server takes requests.
Restart ==
    /\ mainPc = "down" /\ mainPc' = "booting"
    /\ CloseRecords("interrupted")
    /\ cp' = [k \in Job |-> IF cp[k].status = "running"
                            THEN [cp[k] EXCEPT !.status = "interrupted"] ELSE cp[k]]
    /\ UNCHANGED <<gen, shown, task, seen, resetPc, found, cut, ids, bounds>>

\* find_unfinished: one of the rows cut off by the restart, never a running one.
Interrupted == {k \in Job : cp[k].status = "interrupted"}

\* The server already takes requests while main looks for interrupted pulls.
FindUnfinished ==
    /\ mainPc = "booting"
    /\ IF Interrupted # {}
       THEN mainPc' = "resuming" /\ found' \in Interrupted
       ELSE mainPc' = "up" /\ found' = NoJob
    /\ UNCHANGED <<gen, shown, task, tables, seen, resetPc, cut, ids, bounds>>

\* The resume thread posts a pull of its own, two seconds later.
ResumePost ==
    /\ mainPc = "resuming" /\ mainPc' = "up"
    /\ Receive
    /\ found' = NoJob
    /\ UNCHANGED <<cut, bounds>>

-----------------------------------------------------------------------------
Handle(j) ==
    \/ Bump(j) \/ AbandonRecords(j) \/ AbandonCheckpoints(j) \/ ShowNew(j)
    \/ InsertRecord(j) \/ OpenCheckpoint(j) \/ InsertCheckpoint(j)

Pull(j) ==
    \/ Check(j) \/ Show(j) \/ Work(j) \/ Mark(j)
    \/ Gate(j) \/ EndRecord(j) \/ EndCheckpoint(j) \/ ShowThrown(j)

Resetting == Reset \/ ResetCheckpoints \/ ResetShown \/ ResetGeneration

Life == ProcessEnds \/ Restart \/ FindUnfinished \/ ResumePost

Next == PostPull \/ Resetting \/ Life \/ \E j \in Job : Handle(j) \/ Pull(j)

Spec == Init /\ [][Next]_vars

-----------------------------------------------------------------------------
TypeOK ==
    /\ gen \in Nat
    /\ shown \in [job : Job \cup {NoJob}, status : Reports \cup {"none"}]
    /\ task \in [Job -> Task]
    /\ rec \in [Job -> RowStatus]
    /\ cp \in [Job -> [status : RowStatus, stage : Stages]]
    /\ seen \in [Job -> SUBSET Job]
    /\ resetPc \in {"idle", "close_cps", "clear", "bump"}
    /\ mainPc \in {"down", "booting", "resuming", "up"}
    /\ found \in Job \cup {NoJob} /\ cut \in BOOLEAN
    /\ ids \in 0 .. (MaxPosts + MaxBreaks)
    /\ posts \in 0..MaxPosts /\ breaks \in 0..MaxBreaks

\* At most one checkpoint is open, running or interrupted, however the starts
\* of two pulls, a reset and a restart interleave: the one find_unfinished
\* returns is the only candidate (inventory_checkpoint_repository.cpp:17-41).
OneOpenCheckpoint == \A j \in Job, k \in Job : Open(j) /\ Open(k) => j = k

\* Handlers that have closed the open checkpoints and not yet opened their own.
Between == {j \in Job : task[j].at \in {"show_new", "insert_rec", "open_cp", "insert_cp"}}

\* A pull of the newest generation can be resumed after a crash at any moment:
\* a checkpoint is running while it works, its own or, when its insert met the
\* unique index, that of the pull it raced with.  The exceptions are the
\* moments in which a start or a reset has closed the checkpoints.
LivePullIsResumable ==
    (\E j \in Job : task[j].at \in ThreadPoints \ {"show_thrown"} /\ Current(j)) =>
        \/ \E k \in Job : cp[k].status = "running"
        \/ Between # {} \/ resetPc \in {"clear", "bump"}

\* A crash between the two writes that end a pull never leaves a checkpoint
\* that says "done" beside a sync_runs row that does not: last-success would
\* lose a pull nobody repeats (handlers.cpp:1318-1338).
DoneIsRecorded == \A j \in Job : cp[j].status = "done" => rec[j] = "done"

\* Whichever of its many exits the newest pull took, its record does not stay
\* "running" (handlers.cpp:1137-1395): nothing would close it but the next pull.
NewestIsClosed == \A j \in Job : At(j, "ended") /\ Current(j) => rec[j] # "running"

\* "Drop the events of outdated threads" (handlers.cpp:948, 1014): what is
\* shown is never overwritten by a pull that is not of the newest generation.
SupersededIsSilent ==
    [][shown' # shown /\ shown'.job # NoJob => task[shown'.job].gen = gen]_vars

\* "The task was interrupted by a restart" (main.cpp:237-238): what is resumed at
\* startup was cut off, so something was alive when the process ended.
OnlyCutPullsResume == found # NoJob => cut

=============================================================================

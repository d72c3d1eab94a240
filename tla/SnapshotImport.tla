--------------------------- MODULE SnapshotImport ---------------------------
(***************************************************************************)
(* POST /api/inventory/ka2/save (src/handlers.cpp) and                     *)
(* InventoryRepository::import_snapshot (src/inventory_repository.cpp):    *)
(* a request selects the SKUs of the local catalogue, reads them from 1C,  *)
(* drops the warehouses that are not enabled and stores the snapshot in    *)
(* one transaction.  The thread of an inventory pull does the same at the  *)
(* end of its stages (see InventoryPull).                                  *)
(*                                                                         *)
(* A step is one statement of the transaction, or what the thread does     *)
(* between two of them.  The two DELETEs of the costs are one statement    *)
(* here.  A payload hash is the content it is computed from.               *)
(***************************************************************************)
EXTENDS OnecTables

CONSTANTS Pulls,        \* what a read of 1C may return, whole or with chunks lost
          Batches,      \* batch_id: one for each period that is asked for
          Warehouses,   \* the warehouses a user may enable
          MaxEdits      \* bound: edits of the table of enabled warehouses

VARIABLES at,       \* where an importer is
          want,     \* the SKUs it asks 1C for
          req,      \* its snapshot: the batch and the rows by table
          seen,     \* the rows its DELETE saw, while they are there
          todo,     \* the cost rows it has not written yet
          reply,    \* the answer to its last request
          quota,    \* bound: requests that may still come
          allowed,  \* allowed_warehouses with enabled = TRUE
          edits,
          latest,   \* history: the batch that was committed last
          late,     \* history: the importers whose DELETE started before the
          mixed     \* last commit; whether the last one to commit was such

history == <<latest, late, mixed>>
importer == <<at, want, req, seen, todo, reply, quota, history>>
filters == <<allowed, edits>>

CostTables == {"batch_cost", "supplier_cost"}
ContentTables == {"warehouses", "stocks"} \cup CostTables
NoRequest == [batch |-> "none", rows |-> [t \in ContentTables |-> {}]]
NothingSeen == [t \in CostTables |-> {}]
AfterDelete == {"deleting", "warehouses", "stocks", "costs", "commit"}
InTransaction == {"delete"} \cup AfterDelete
Places == {"idle", "pull", "check", "answer"} \cup InTransaction

ImportInit ==
    /\ at = [i \in Importers |-> "idle"] /\ want = [i \in Importers |-> {}]
    /\ req = [i \in Importers |-> NoRequest]
    /\ seen = [i \in Importers |-> NothingSeen] /\ todo = [i \in Importers |-> {}]
    /\ reply = [i \in Importers |-> "none"]
    /\ allowed = {} /\ edits = 0
    /\ latest = "none" /\ late = {} /\ mixed = FALSE

\* The costs of a snapshot, one statement each.
CostWrites(r) == {[batch_cost |-> {x}] : x \in r.rows.batch_cost}
                 \cup {[supplier_cost |-> {x}] : x \in r.rows.supplier_cost}

\* Whether a stored batch holds the content of a request (payload_hash).
BatchIsStored(r, stored) == stored # {}
SameContent(r, stored) == SnapshotRow(r) \in stored

Goto(i, p) == at' = [at EXCEPT ![i] = p]
Answer(i, a) == Goto(i, "idle") /\ reply' = [reply EXCEPT ![i] = a]
Keep(i) == UNCHANGED <<want, quota, history, filters>>

---------------------------------------------------------------------------
\* The handler: the SKUs of the catalogue, or those that a filter of the
\* request leaves (an identifier, an article, a limit); it answers at once
\* where that is none, and where the SELECT fails.
Ask(i) ==
    /\ at[i] = "idle" /\ quota > 0 /\ HasConnection
    /\ quota' = quota - 1
    /\ \/ \E keys \in SUBSET KeysOf(db["ref"]) \ {{}} :
            /\ Goto(i, "pull")
            /\ want' = [want EXCEPT ![i] = keys]
            /\ reply' = [reply EXCEPT ![i] = "none"]
       \/ \E a \in {"empty", "failed"} : Answer(i, a) /\ want' = [want EXCEPT ![i] = {}]
    /\ UNCHANGED <<tables, req, seen, todo, history, filters>>

\* Ka2Inventory::pull and pull_to_snapshot.  An exception of the first is the
\* answer.  An error reading the enabled warehouses is swallowed, and leaves a
\* filter that lets all of them pass.
Pull(i) ==
    /\ at[i] = "pull"
    /\ \/ /\ \E p \in Pulls, b \in Batches, filter \in {allowed, {}} :
               req' = [req EXCEPT ![i] =
                         [batch |-> b, rows |-> PullToSnapshot(PullOf(p, want[i]), filter)]]
          /\ Goto(i, "check") /\ UNCHANGED reply
       \/ Answer(i, "failed") /\ UNCHANGED req
    /\ want' = [want EXCEPT ![i] = {}]
    /\ UNCHANGED <<tables, seen, todo, quota, history, filters>>

\* The SELECT of the batch.  A snapshot without stocks and costs is refused,
\* and the connection may fail at any of its statements.
Stored(i) == {x \in Sees(i, "snapshots") : x.key = req[i].batch}
IsEmpty(rows) == rows.stocks = {} /\ rows.batch_cost = {} /\ rows.supplier_cost = {}

Check(i) ==
    /\ at[i] = "check"
    /\ \/ Answer(i, "failed") /\ UNCHANGED tables
       \/ /\ ~IsEmpty(req[i].rows) /\ HasConnection
          /\ IF Stored(i) = {}
             THEN Goto(i, "delete") /\ Acquire(i) /\ UNCHANGED <<db, ins, del, reply>>
             ELSE /\ Answer(i, IF SameContent(req[i], Stored(i)) THEN "duplicate" ELSE "failed")
                  /\ UNCHANGED tables
    /\ UNCHANGED <<req, seen, todo>> /\ Keep(i)

DeleteBatchCosts(i) ==
    /\ at[i] = "delete"
    /\ seen' = [seen EXCEPT ![i] = [NothingSeen EXCEPT !["batch_cost"] = Sees(i, "batch_cost")]]
    /\ Goto(i, "deleting")
    /\ late' = late \ {i}
    /\ UNCHANGED <<tables, want, req, todo, reply, quota, latest, mixed, filters>>

\* DELETE FROM pricing_cost_batch, pricing_cost_supplier: it starts ...
DeleteCosts(i) ==
    /\ at[i] = "delete"
    /\ seen' = [seen EXCEPT ![i] = [t \in CostTables |-> Sees(i, t)]]
    /\ Goto(i, "deleting")
    /\ late' = late \ {i}
    /\ UNCHANGED <<tables, want, req, todo, reply, quota, latest, mixed, filters>>

\* ... and ends, when no other transaction holds the rows it saw.
CostsDeleted(i) ==
    /\ at[i] = "deleting"
    /\ Delete(i, seen[i])
    /\ seen' = [seen EXCEPT ![i] = NothingSeen]
    /\ Goto(i, "warehouses")
    /\ UNCHANGED <<req, todo, reply>> /\ Keep(i)

UpsertWarehouses(i) ==
    /\ at[i] = "warehouses"
    /\ Upsert(i, [warehouses |-> req[i].rows.warehouses])
    /\ Goto(i, "stocks")
    /\ UNCHANGED <<req, seen, todo, reply>> /\ Keep(i)

\* The INSERT of the stocks, and what makes it fail: a SKU and a warehouse
\* that have a stock already, or a warehouse that is not in its table.
StocksWrite(i) == [stocks |-> StockRows(req[i])]
UnknownWarehouse(i) ==
    \E x \in StockRows(req[i]) : x.key[2] \notin KeysOf(Sees(i, "warehouses"))

InsertStocks(i) ==
    /\ at[i] = "stocks" /\ ~UnknownWarehouse(i)
    /\ Insert(i, StocksWrite(i))
    /\ Goto(i, "costs")
    /\ todo' = [todo EXCEPT ![i] = CostWrites(req[i])]
    /\ UNCHANGED <<req, seen, reply>> /\ Keep(i)

\* The costs are written one by one, in the order of a hash table.
PutCost(i) ==
    /\ at[i] = "costs"
    /\ \E w \in todo[i] : Upsert(i, w) /\ todo' = [todo EXCEPT ![i] = @ \ {w}]
    /\ UNCHANGED <<at, req, seen, reply>> /\ Keep(i)

\* Mutant: INSERT ... ON CONFLICT DO UPDATE.
UpsertSnapshot(i) ==
    /\ at[i] = "costs" /\ todo[i] = {}
    /\ Upsert(i, [snapshots |-> {SnapshotRow(req[i])}])
    /\ Goto(i, "commit")
    /\ UNCHANGED <<req, seen, todo, reply>> /\ Keep(i)

InsertSnapshot(i) ==
    /\ at[i] = "costs" /\ todo[i] = {}
    /\ Insert(i, [snapshots |-> {SnapshotRow(req[i])}])
    /\ Goto(i, "commit")
    /\ UNCHANGED <<req, seen, todo, reply>> /\ Keep(i)

\* The COMMIT takes effect ...
Committed(i) ==
    /\ at[i] = "commit"
    /\ Commit(i)
    /\ latest' = req[i].batch
    /\ mixed' = (i \in late)
    /\ seen' = [j \in Importers |-> [t \in CostTables |-> Survivors(i, t, seen[j][t])]]
    /\ late' = {j \in Importers \ {i} : at[j] \in AfterDelete}
    /\ UNCHANGED <<want, req, todo, quota, filters>>

\* ... and the program learns of it, or the connection breaks under it: then
\* commit() throws, and the answer is that of any other error.
CommitImport(i) == Committed(i) /\ Goto(i, "answer") /\ UNCHANGED reply
CommitInDoubt(i) == Committed(i) /\ Answer(i, "failed")

Imported(i) ==
    /\ at[i] = "answer"
    /\ Answer(i, "imported")
    /\ UNCHANGED <<tables, req, seen, todo>> /\ Keep(i)

\* Mutant: the error is caught inside the transaction, which is committed.
FailCommitted(i) ==
    /\ Commit(i)
    /\ Answer(i, "failed")
    /\ seen' = [seen EXCEPT ![i] = NothingSeen] /\ todo' = [todo EXCEPT ![i] = {}]
    /\ UNCHANGED req /\ Keep(i)

\* An exception: the transaction is undone and its text is the answer.
Fail(i) ==
    /\ Rollback(i)
    /\ Answer(i, "failed")
    /\ seen' = [seen EXCEPT ![i] = NothingSeen] /\ todo' = [todo EXCEPT ![i] = {}]
    /\ UNCHANGED req /\ Keep(i)

\* A constraint refuses what the transaction is about to write.
Refused(i) ==
    \/ at[i] = "stocks" /\ UnknownWarehouse(i)
    \/ at[i] = "stocks" /\ Free(i, StocksWrite(i)) /\ Clashes(i, StocksWrite(i))
    \/ /\ at[i] = "costs" /\ todo[i] = {}
       /\ Free(i, [snapshots |-> {SnapshotRow(req[i])}])
       /\ Clashes(i, [snapshots |-> {SnapshotRow(req[i])}])

ImportRefused(i) == Refused(i) /\ Fail(i)

\* Any statement may fail: the connection is lost, the transaction is the
\* one PostgreSQL ends to break a deadlock.
ImportFails(i) == at[i] \in InTransaction /\ Fail(i)

---------------------------------------------------------------------------
\* POST and DELETE /api/warehouses/allowed.
EditAllowed ==
    /\ edits < MaxEdits /\ edits' = edits + 1 /\ HasConnection
    /\ \E w \in Warehouses : allowed' \in {allowed \cup {w}, allowed \ {w}}
    /\ UNCHANGED <<tables, importer>>

ImportCrash ==
    /\ at' = [i \in Importers |-> "idle"]
    /\ reply' = [i \in Importers |-> IF at[i] = "idle" THEN reply[i] ELSE "lost"]
    /\ seen' = [i \in Importers |-> NothingSeen] /\ todo' = [i \in Importers |-> {}]
    /\ late' = {}
    /\ UNCHANGED <<want, req, quota, latest, mixed, filters>>
=============================================================================

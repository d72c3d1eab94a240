------------------------- MODULE OnecStorage_proofs -------------------------
(***************************************************************************)
(* Proofs about the imports of snapshots, for any threads, catalogues,     *)
(* reads of 1C and bounds.  StoreInv is the inductive invariant: what a    *)
(* session has written and not committed, place by place, and that no key  *)
(* of it is in the table or written by another session.                    *)
(***************************************************************************)
EXTENDS OnecStorage, FiniteSetTheorems, TLAPS

ImportTables == {"warehouses", "stocks", "batch_cost", "supplier_cost", "snapshots"}
KeptTables == {"warehouses", "stocks", "snapshots"}
FreshTables == {"stocks", "snapshots"}
Replies == {"none", "empty", "failed", "duplicate", "imported", "lost"}

(* The domains of the functions the state is made of.                      *)
TablesShape ==
    /\ DOMAIN db = Tables /\ leases \subseteq Sessions
    /\ DOMAIN ins = Sessions /\ \A s \in Sessions : DOMAIN ins[s] = Tables
    /\ DOMAIN del = Sessions /\ \A s \in Sessions : DOMAIN del[s] = Tables

ThreadsShape ==
    /\ at \in [Importers -> Places] /\ place \in [Pullers -> PullerPlaces]
    /\ reply \in [Importers -> Replies]
    /\ DOMAIN req = Importers /\ DOMAIN todo = Importers
    /\ \A i \in Importers : \A w \in todo[i] : DOMAIN w \subseteq CostTables
    /\ DOMAIN seen = Importers /\ \A i \in Importers : DOMAIN seen[i] = CostTables
    /\ DOMAIN sight = Pullers /\ \A p \in Pullers : DOMAIN sight[p] = CatalogTables

(* A session has written something only between its lease and its end.     *)
Idle(s) == \A t \in Tables : ins[s][t] = {} /\ del[s][t] = {}
Leases ==
    /\ \A s \in Sessions : s \in leases \/ Idle(s)
    /\ \A s \in Sessions : s \in leases <=> Working(s)
    /\ pcRunning => \E p \in SsePullers : place[p] \in {"queued"} \cup Pulling

(* A pull of the catalogue writes its own tables only.                     *)
PullerRows == \A p \in Pullers, t \in ImportTables : ins[p][t] = {} /\ del[p][t] = {}

(* What an importer has written, and that its warehouses are known.        *)
ImporterRows(i) ==
    /\ \A t \in KeptTables : del[i][t] = {}
    /\ ins[i]["stocks"] = IF at[i] \in {"costs", "commit"} THEN StockRows(req[i]) ELSE {}
    /\ ins[i]["snapshots"] = IF at[i] = "commit" THEN {SnapshotRow(req[i])} ELSE {}
    /\ at[i] \in {"costs", "commit"} =>
         \A r \in StockRows(req[i]) :
            r.key[2] \in KeysOf(db["warehouses"]) \cup KeysOf(ins[i]["warehouses"])

(* No key it has inserted is taken, or inserted by another importer.       *)
Fresh ==
    \A i \in Importers, t \in FreshTables :
        /\ KeysOf(ins[i][t]) \cap KeysOf(db[t]) = {}
        /\ \A j \in Importers \ {i} : KeysOf(ins[i][t]) \cap KeysOf(ins[j][t]) = {}

(* A request that is being served has not been answered, and one whose     *)
(* transaction is over is recorded.                                        *)
Unanswered ==
    \A i \in Importers :
        /\ at[i] # "idle" => reply[i] = "none"
        /\ at[i] = "answer" => SnapshotRow(req[i]) \in db["snapshots"]

(* The stocks are those of all the recorded snapshots, not of the last one  *)
(* only: nothing that a snapshot has recorded is taken away again.          *)
SnapshotWhole ==
    /\ \A x \in db["snapshots"] :
         StockRows([batch |-> x.key, rows |-> x.val]) \subseteq db["stocks"]
    /\ \A r \in db["stocks"] :
         /\ \E x \in db["snapshots"] :
              /\ x.key = r.val.batch
              /\ r \in StockRows([batch |-> x.key, rows |-> x.val])
         /\ r.key[2] \in KeysOf(db["warehouses"])

StoreInv ==
    /\ TablesShape /\ ThreadsShape /\ Leases /\ PullerRows
    /\ \A i \in Importers : ImporterRows(i)
    /\ Fresh /\ Unanswered /\ SnapshotWhole /\ AnswersTrue

-----------------------------------------------------------------------------
(* The operators on tables.                                                *)

LEMMA WriteEffect ==
    ASSUME TablesShape, NEW s \in Sessions, NEW w, Write(s, w)
    PROVE  /\ DOMAIN ins' = Sessions
           /\ \A u \in Sessions : DOMAIN ins'[u] = Tables
           /\ \A u \in Sessions \ {s} : ins'[u] = ins[u]
           /\ \A t \in Tables :
                ins'[s][t] = IF t \in DOMAIN w
                             THEN Without(ins[s][t], KeysOf(w[t])) \cup w[t] ELSE ins[s][t]
  BY DEF TablesShape, Write

LEMMA DeleteEffect ==
    ASSUME TablesShape, NEW s \in Sessions, NEW w, Delete(s, w)
    PROVE  /\ DOMAIN del' = Sessions
           /\ \A u \in Sessions : DOMAIN del'[u] = Tables
           /\ \A u \in Sessions \ {s} : del'[u] = del[u]
           /\ \A t \in Tables :
                del'[s][t] = IF t \in DOMAIN w THEN del[s][t] \cup w[t] ELSE del[s][t]
           /\ ins' = ins /\ db' = db /\ leases' = leases
  BY DEF TablesShape, Delete

LEMMA ForgetEffect ==
    ASSUME TablesShape, NEW s \in Sessions, Forget(s)
    PROVE  /\ DOMAIN ins' = Sessions /\ DOMAIN del' = Sessions
           /\ \A u \in Sessions : DOMAIN ins'[u] = Tables /\ DOMAIN del'[u] = Tables
           /\ \A u \in Sessions \ {s} : ins'[u] = ins[u] /\ del'[u] = del[u]
           /\ \A t \in Tables : ins'[s][t] = {} /\ del'[s][t] = {}
           /\ leases' = leases \ {s}
  BY DEF TablesShape, Forget, NoRows

(* The keys of a table as a session sees it.                               *)
LEMMA KeysSeen ==
    ASSUME NEW s, NEW t, del[s][t] = {}
    PROVE  KeysOf(Sees(s, t)) = KeysOf(db[t]) \cup KeysOf(ins[s][t])
  BY DEF KeysOf, Sees, Without

(* A commit of rows whose keys are free adds them, and nothing is lost.    *)
LEMMA SeesFresh ==
    ASSUME NEW s, NEW t, del[s][t] = {}, KeysOf(ins[s][t]) \cap KeysOf(db[t]) = {}
    PROVE  Sees(s, t) = db[t] \cup ins[s][t]
  BY DEF KeysOf, Sees, Without

LEMMA SessionFacts ==
    /\ Importers \subseteq Sessions /\ Pullers \subseteq Sessions
    /\ HttpPullers \subseteq Pullers /\ SsePullers \subseteq Pullers
    /\ Importers \cap Pullers = {}
    /\ ImportTables \subseteq Tables /\ CatalogTables \subseteq Tables
    /\ CatalogTables \cap ImportTables = {}
    /\ Tables = ImportTables \cup CatalogTables
  BY SessionAssumption DEF Sessions, Pullers, ImportTables, CatalogTables, Tables

-----------------------------------------------------------------------------
(* A step of one importer that commits nothing.                            *)
Alone(i) ==
    /\ \A u \in Sessions \ {i} : ins'[u] = ins[u] /\ del'[u] = del[u]
    /\ \A j \in Importers \ {i} : at'[j] = at[j] /\ req'[j] = req[j] /\ reply'[j] = reply[j]
    /\ \A u \in Sessions \ {i} : u \in leases' <=> u \in leases
    /\ place' = place /\ pcRunning' = pcRunning

(* What is left to show of such a step.                                    *)
OwnPart(i) ==
    /\ i \in leases' \/ \A t \in Tables : ins'[i][t] = {} /\ del'[i][t] = {}
    /\ i \in leases' <=> at'[i] \in InTransaction
    /\ \A t \in KeptTables : del'[i][t] = {}
    /\ ins'[i]["stocks"] = IF at'[i] \in {"costs", "commit"} THEN StockRows(req'[i]) ELSE {}
    /\ ins'[i]["snapshots"] = IF at'[i] = "commit" THEN {SnapshotRow(req'[i])} ELSE {}
    /\ at'[i] \in {"costs", "commit"} =>
         \A r \in StockRows(req'[i]) :
            r.key[2] \in KeysOf(db["warehouses"]) \cup KeysOf(ins'[i]["warehouses"])
    /\ \A t \in FreshTables :
         /\ KeysOf(ins'[i][t]) \cap KeysOf(db[t]) = {}
         /\ \A j \in Importers \ {i} : KeysOf(ins'[i][t]) \cap KeysOf(ins[j][t]) = {}
    /\ at'[i] # "idle" => reply'[i] = "none"
    /\ at'[i] = "answer" => SnapshotRow(req'[i]) \in db["snapshots"]
    /\ reply'[i] \in {"imported", "duplicate"} => SnapshotRow(req'[i]) \in db["snapshots"]

LEMMA Quiet ==
    ASSUME StoreInv, NEW i \in Importers, db' = db,
           TablesShape', ThreadsShape', Alone(i), OwnPart(i)
    PROVE  StoreInv'
<1> USE SessionFacts
<1>1. Leases'
  <2>1. \A s \in Sessions : (s \in leases \/ Idle(s))'
    BY DEF StoreInv, Leases, Idle, Alone, OwnPart
  <2>2. \A s \in Sessions : (s \in leases <=> Working(s))'
    BY DEF StoreInv, Leases, Working, Alone, OwnPart
  <2>3. QED
    BY <2>1, <2>2 DEF StoreInv, Leases, Alone
<1>2. PullerRows'
  BY DEF StoreInv, PullerRows, Alone
<1>3. \A j \in Importers : ImporterRows(j)'
  <2>1. SUFFICES ASSUME NEW j \in Importers PROVE ImporterRows(j)'
    OBVIOUS
  <2>2. CASE j = i
    BY <2>2 DEF ImporterRows, OwnPart
  <2>3. CASE j # i
    BY <2>3 DEF StoreInv, ImporterRows, Alone
  <2>4. QED
    BY <2>2, <2>3
<1>4. Fresh'
  <2>1. SUFFICES ASSUME NEW j \in Importers, NEW t \in FreshTables
                 PROVE  /\ KeysOf(ins'[j][t]) \cap KeysOf(db'[t]) = {}
                        /\ \A k \in Importers \ {j} :
                              KeysOf(ins'[j][t]) \cap KeysOf(ins'[k][t]) = {}
    BY DEF Fresh, KeysOf
  <2>2. CASE j = i
    BY <2>2 DEF StoreInv, Alone, OwnPart
  <2>3. CASE j # i
    <3>1. ins'[j] = ins[j] /\ KeysOf(ins[j][t]) \cap KeysOf(db[t]) = {}
      BY <2>3 DEF StoreInv, Fresh, Alone
    <3>2. KeysOf(ins'[j][t]) \cap KeysOf(ins'[i][t]) = {}
      BY <2>3, <3>1 DEF OwnPart
    <3>3. \A k \in Importers \ {i, j} : KeysOf(ins'[j][t]) \cap KeysOf(ins'[k][t]) = {}
      BY <2>3 DEF StoreInv, Fresh, Alone
    <3>4. QED
      BY <3>1, <3>2, <3>3
  <2>4. QED
    BY <2>2, <2>3
<1>5. Unanswered' /\ AnswersTrue'
  BY DEF StoreInv, Unanswered, AnswersTrue, Alone, OwnPart
<1>6. SnapshotWhole'
  BY DEF StoreInv, SnapshotWhole
<1>7. QED
  BY <1>1, <1>2, <1>3, <1>4, <1>5, <1>6 DEF StoreInv

-----------------------------------------------------------------------------
(* The steps of an importer, one lemma for each that commits nothing.      *)
Apart == UNCHANGED <<puller, onec, crew, crashes>>

(* Steps that leave the tables and the connections as they are.            *)
LEMMA NoTableStep ==
    ASSUME StoreInv, NEW i \in Importers, UNCHANGED tables, UNCHANGED puller,
           ThreadsShape',
           \A j \in Importers \ {i} : at'[j] = at[j] /\ req'[j] = req[j] /\ reply'[j] = reply[j],
           at[i] \notin {"costs", "commit"}, at'[i] \notin {"costs", "commit"},
           at[i] \in InTransaction <=> at'[i] \in InTransaction,
           at'[i] # "idle" => reply'[i] = "none", at'[i] # "answer",
           reply'[i] \in {"imported", "duplicate"} => SnapshotRow(req'[i]) \in db["snapshots"]
    PROVE  StoreInv'
<1> USE SessionFacts
<1>1. TablesShape'
  BY DEF StoreInv, TablesShape, tables
<1>2. Alone(i)
  BY DEF Alone, tables, puller
<1>3. OwnPart(i)
  <2>1. ins' = ins /\ del' = del /\ leases' = leases
    BY DEF tables
  <2>2. i \in leases <=> at[i] \in InTransaction
    BY DEF StoreInv, Leases, Working
  <2>3. i \in leases' \/ \A t \in Tables : ins'[i][t] = {} /\ del'[i][t] = {}
    BY <2>1 DEF StoreInv, Leases, Idle
  <2>4. /\ \A t \in KeptTables : del[i][t] = {}
        /\ ins[i]["stocks"] = {} /\ ins[i]["snapshots"] = {}
    BY DEF StoreInv, ImporterRows
  <2>5. \A t \in FreshTables : ins[i][t] = {}
    BY <2>4 DEF FreshTables
  <2>6. \A t \in FreshTables : KeysOf(ins'[i][t]) = {}
    BY <2>1, <2>5 DEF KeysOf
  <2>7. QED
    BY <2>1, <2>2, <2>3, <2>4, <2>6 DEF OwnPart
<1>4. QED
  BY <1>1, <1>2, <1>3, Quiet DEF tables

LEMMA AskStep ==
    ASSUME StoreInv, NEW i \in Importers, Ask(i), Apart PROVE StoreInv'
<1>1. ThreadsShape'
  BY DEF StoreInv, ThreadsShape, Ask, Answer, Goto, Places, InTransaction, AfterDelete, Replies,
         Apart, puller
<1>2. at[i] = "idle" /\ at'[i] \in {"idle", "pull"} /\ reply'[i] \in {"none", "empty", "failed"}
      /\ (at'[i] # "idle" => reply'[i] = "none")
  BY DEF StoreInv, ThreadsShape, Ask, Answer, Goto
<1>3. \A j \in Importers \ {i} : at'[j] = at[j] /\ req'[j] = req[j] /\ reply'[j] = reply[j]
  BY DEF StoreInv, ThreadsShape, Ask, Answer, Goto
<1>4. UNCHANGED tables /\ UNCHANGED puller
  BY DEF Ask, Apart
<1>5. QED
  BY <1>1, <1>2, <1>3, <1>4, NoTableStep DEF InTransaction, AfterDelete

LEMMA PullStepKeeps ==
    ASSUME StoreInv, NEW i \in Importers, Pull(i), Apart PROVE StoreInv'
<1>1. ThreadsShape'
  BY DEF StoreInv, ThreadsShape, Pull, Answer, Goto, Places, InTransaction, AfterDelete, Replies,
         Apart, puller
<1>2. /\ at[i] = "pull" /\ at'[i] \in {"check", "idle"} /\ reply'[i] \in {"none", "failed"}
      /\ at'[i] # "idle" => reply'[i] = "none"
  BY DEF StoreInv, ThreadsShape, Unanswered, Pull, Answer, Goto
<1>3. \A j \in Importers \ {i} : at'[j] = at[j] /\ req'[j] = req[j] /\ reply'[j] = reply[j]
  BY DEF StoreInv, ThreadsShape, Pull, Answer, Goto
<1>4. UNCHANGED tables /\ UNCHANGED puller
  BY DEF Pull, Apart
<1>5. QED
  BY <1>1, <1>2, <1>3, <1>4, NoTableStep DEF InTransaction, AfterDelete

LEMMA DeleteCostsStep ==
    ASSUME StoreInv, NEW i \in Importers, DeleteCosts(i), Apart PROVE StoreInv'
<1>1. ThreadsShape'
  BY DEF StoreInv, ThreadsShape, DeleteCosts, Goto, Places, InTransaction, AfterDelete, Apart, puller
<1>2. at[i] = "delete" /\ at'[i] = "deleting" /\ reply'[i] = "none"
  BY DEF StoreInv, ThreadsShape, Unanswered, DeleteCosts, Goto
<1>3. \A j \in Importers \ {i} : at'[j] = at[j] /\ req'[j] = req[j] /\ reply'[j] = reply[j]
  BY DEF StoreInv, ThreadsShape, DeleteCosts, Goto
<1>4. UNCHANGED tables /\ UNCHANGED puller
  BY DEF DeleteCosts, Apart
<1>5. QED
  BY <1>1, <1>2, <1>3, <1>4, NoTableStep DEF InTransaction, AfterDelete

(* The SELECT of the batch: an answer, or a lease and a transaction.       *)
LEMMA CheckStep ==
    ASSUME StoreInv, NEW i \in Importers, Check(i), Apart PROVE StoreInv'
<1> USE SessionFacts
<1>1. ThreadsShape'
  BY DEF StoreInv, ThreadsShape, Check, Answer, Goto, Places, InTransaction, AfterDelete, Replies,
         Apart, puller
<1>2. at[i] = "check" /\ reply[i] = "none" /\ req' = req
  BY DEF StoreInv, Unanswered, Check
<1>3. \A j \in Importers \ {i} : at'[j] = at[j] /\ req'[j] = req[j] /\ reply'[j] = reply[j]
  BY DEF StoreInv, ThreadsShape, Check, Answer, Goto
<1>4. Sees(i, "snapshots") = db["snapshots"]
  <2>1. ins[i]["snapshots"] = {} /\ del[i]["snapshots"] = {}
    BY <1>2 DEF StoreInv, ImporterRows, KeptTables
  <2>2. QED
    BY <2>1 DEF Sees, Without, KeysOf
<1>5. UNCHANGED puller
  BY DEF Apart
<1>6. CASE Acquire(i) /\ UNCHANGED <<db, ins, del, reply>> /\ at'[i] = "delete"
  <2>1. TablesShape'
    BY <1>6 DEF StoreInv, TablesShape, Acquire
  <2>2. Alone(i)
    BY <1>3, <1>6 DEF Alone, Acquire, Apart, puller
  <2>3. OwnPart(i)
    BY <1>2, <1>6 DEF OwnPart, StoreInv, ImporterRows, Fresh, Acquire, InTransaction
  <2>4. QED
    BY <1>1, <1>6, <2>1, <2>2, <2>3, Quiet
<1>7. CASE Acquire(i) /\ Goto(i, "delete") /\ UNCHANGED <<db, ins, del, reply>>
  BY <1>6, <1>7 DEF Goto, StoreInv, ThreadsShape
<1>8. CASE UNCHANGED tables /\ Answer(i, "failed")
  <2>1. at'[i] = "idle" /\ reply'[i] = "failed"
    BY <1>8 DEF Answer, Goto, StoreInv, ThreadsShape
  <2>2. QED
    BY <1>1, <1>2, <1>3, <1>5, <1>8, <2>1, NoTableStep DEF InTransaction, AfterDelete
<1>9. CASE UNCHANGED tables /\ Answer(i, "duplicate") /\ SameContent(req[i], Stored(i))
  <2>1. at'[i] = "idle" /\ reply'[i] = "duplicate"
    BY <1>9 DEF Answer, Goto, StoreInv, ThreadsShape
  <2>2. SnapshotRow(req'[i]) \in db["snapshots"]
    BY <1>2, <1>4, <1>9 DEF SameContent, Stored
  <2>3. QED
    BY <1>1, <1>2, <1>3, <1>5, <1>9, <2>1, <2>2, NoTableStep DEF InTransaction, AfterDelete
<1>10. \/ UNCHANGED tables /\ Answer(i, "failed")
       \/ Acquire(i) /\ Goto(i, "delete") /\ UNCHANGED <<db, ins, del, reply>>
       \/ UNCHANGED tables /\ Answer(i, "duplicate") /\ SameContent(req[i], Stored(i))
  <2>1. CASE Answer(i, "failed") /\ UNCHANGED tables
    BY <2>1
  <2>2. CASE ~IsEmpty(req[i].rows) /\ Stored(i) = {}
    BY <2>2 DEF Check
  <2>3. CASE ~IsEmpty(req[i].rows) /\ Stored(i) # {} /\ SameContent(req[i], Stored(i))
    BY <2>3 DEF Check
  <2>4. CASE ~IsEmpty(req[i].rows) /\ Stored(i) # {} /\ ~SameContent(req[i], Stored(i))
    BY <2>4 DEF Check
  <2>5. QED
    BY <2>1, <2>2, <2>3, <2>4 DEF Check
<1>11. QED
  BY <1>7, <1>8, <1>9, <1>10

(* Steps that write some tables but those of stocks and snapshots.         *)
LEMMA WorkStep ==
    ASSUME StoreInv, NEW i \in Importers, db' = db, UNCHANGED <<leases, puller, req, reply>>,
           TablesShape', ThreadsShape',
           \A u \in Sessions \ {i} : ins'[u] = ins[u] /\ del'[u] = del[u],
           \A j \in Importers \ {i} : at'[j] = at[j],
           at[i] \in InTransaction, at'[i] \in InTransaction,
           \A t \in KeptTables : del'[i][t] = {},
           \A t \in FreshTables : ins'[i][t] = ins[i][t],
           KeysOf(ins[i]["warehouses"]) \subseteq KeysOf(ins'[i]["warehouses"]),
           (at'[i] \in {"costs", "commit"}) = (at[i] \in {"costs", "commit"}),
           (at'[i] = "commit") = (at[i] = "commit")
    PROVE  StoreInv'
<1> USE SessionFacts
<1>1. Alone(i)
  BY DEF Alone, puller
<1>2. i \in leases /\ leases' = leases
  BY DEF StoreInv, Leases, Working
<1>3. reply'[i] = "none" /\ at[i] # "idle"
  BY DEF StoreInv, Unanswered, InTransaction, AfterDelete
<1>4. \A t \in FreshTables :
         /\ KeysOf(ins'[i][t]) = KeysOf(ins[i][t])
         /\ KeysOf(ins[i][t]) \cap KeysOf(db[t]) = {}
         /\ \A j \in Importers \ {i} : KeysOf(ins[i][t]) \cap KeysOf(ins[j][t]) = {}
  BY DEF StoreInv, Fresh
<1>5. ins'[i]["stocks"] = ins[i]["stocks"] /\ ins'[i]["snapshots"] = ins[i]["snapshots"]
  BY DEF FreshTables
<1>6. OwnPart(i)
  BY <1>2, <1>3, <1>4, <1>5 DEF StoreInv, ImporterRows, OwnPart, InTransaction, AfterDelete
<1>7. QED
  BY <1>1, <1>6, Quiet

LEMMA CostsDeletedStep ==
    ASSUME StoreInv, NEW i \in Importers, CostsDeleted(i), Apart PROVE StoreInv'
<1> USE SessionFacts
<1>1. ThreadsShape'
  BY DEF StoreInv, ThreadsShape, CostsDeleted, NothingSeen, Goto, Places, InTransaction, AfterDelete,
         Apart, puller
<1>2. at[i] = "deleting" /\ at'[i] = "warehouses" /\ UNCHANGED <<puller, req, reply>>
      /\ \A j \in Importers \ {i} : at'[j] = at[j]
  BY DEF StoreInv, ThreadsShape, CostsDeleted, Goto, Apart
<1>3. /\ DOMAIN del' = Sessions
      /\ \A u \in Sessions : DOMAIN del'[u] = Tables
      /\ \A u \in Sessions \ {i} : del'[u] = del[u]
      /\ \A t \in Tables : t \notin DOMAIN seen[i] => del'[i][t] = del[i][t]
      /\ ins' = ins /\ db' = db /\ leases' = leases
  BY DeleteEffect DEF StoreInv, CostsDeleted
<1>4. \A t \in KeptTables : del'[i][t] = {}
  <2>1. DOMAIN seen[i] = CostTables /\ \A t \in KeptTables : del[i][t] = {}
    BY DEF StoreInv, ThreadsShape, ImporterRows
  <2>2. \A t \in KeptTables : t \notin CostTables /\ t \in Tables
    BY DEF KeptTables, CostTables, Tables
  <2>3. QED
    BY <1>3, <2>1, <2>2
<1>5. TablesShape'
  BY <1>3 DEF StoreInv, TablesShape
<1>6. QED
  BY <1>1, <1>2, <1>3, <1>4, <1>5, WorkStep DEF InTransaction, AfterDelete

LEMMA UpsertWarehousesStep ==
    ASSUME StoreInv, NEW i \in Importers, UpsertWarehouses(i), Apart PROVE StoreInv'
<1> USE SessionFacts
<1> DEFINE w == [warehouses |-> req[i].rows.warehouses]
<1>1. ThreadsShape'
  BY DEF StoreInv, ThreadsShape, UpsertWarehouses, Goto, Places, InTransaction, AfterDelete,
         Apart, puller
<1>2. at[i] = "warehouses" /\ at'[i] = "stocks" /\ UNCHANGED <<puller, req, reply>>
      /\ \A j \in Importers \ {i} : at'[j] = at[j]
  BY DEF StoreInv, ThreadsShape, UpsertWarehouses, Goto, Apart
<1>3. Write(i, w) /\ UNCHANGED <<db, del, leases>>
  BY DEF UpsertWarehouses, Upsert
<1>w. DOMAIN w = {"warehouses"}
  OBVIOUS
<1> HIDE DEF w
<1>4. /\ DOMAIN ins' = Sessions
      /\ \A u \in Sessions : DOMAIN ins'[u] = Tables
      /\ \A u \in Sessions \ {i} : ins'[u] = ins[u]
      /\ \A t \in Tables : t \notin DOMAIN w => ins'[i][t] = ins[i][t]
      /\ ins'[i]["warehouses"] = Without(ins[i]["warehouses"], KeysOf(w["warehouses"]))
                                 \cup w["warehouses"]
  <2>1. "warehouses" \in Tables
    BY DEF Tables
  <2>2. TablesShape
    BY DEF StoreInv
  <2>3. QED
    BY <1>3, <1>w, <2>1, <2>2, WriteEffect
<1>5. \A t \in FreshTables : ins'[i][t] = ins[i][t]
  BY <1>4, <1>w DEF FreshTables, Tables
<1>6. KeysOf(ins[i]["warehouses"]) \subseteq KeysOf(ins'[i]["warehouses"])
  BY <1>4 DEF KeysOf, Without
<1>7. TablesShape'
  BY <1>3, <1>4 DEF StoreInv, TablesShape
<1>8. \A t \in KeptTables : del'[i][t] = {}
  BY <1>3 DEF StoreInv, ImporterRows
<1>9. /\ at[i] \in InTransaction /\ at'[i] \in InTransaction
      /\ (at'[i] \in {"costs", "commit"}) = (at[i] \in {"costs", "commit"})
      /\ (at'[i] = "commit") = (at[i] = "commit")
  BY <1>2 DEF InTransaction, AfterDelete
<1>10. db' = db /\ leases' = leases /\ del' = del
  BY <1>3
<1>11. QED
  BY <1>1, <1>2, <1>4, <1>5, <1>6, <1>7, <1>8, <1>9, <1>10, WorkStep

LEMMA PutCostStep ==
    ASSUME StoreInv, NEW i \in Importers, PutCost(i), Apart PROVE StoreInv'
<1> USE SessionFacts
<1>1. PICK w \in todo[i] : Upsert(i, w) /\ todo' = [todo EXCEPT ![i] = @ \ {w}]
  BY DEF PutCost
<1>2. ThreadsShape'
  BY <1>1 DEF StoreInv, ThreadsShape, PutCost, Apart, puller
<1>3. at[i] = "costs" /\ UNCHANGED <<at, puller, req, reply>>
  BY DEF PutCost, Apart
<1>4. Write(i, w) /\ UNCHANGED <<db, del, leases>>
  BY <1>1 DEF Upsert
<1>5. /\ DOMAIN ins' = Sessions
      /\ \A u \in Sessions : DOMAIN ins'[u] = Tables
      /\ \A u \in Sessions \ {i} : ins'[u] = ins[u]
      /\ \A t \in Tables : t \notin DOMAIN w => ins'[i][t] = ins[i][t]
  BY <1>4, WriteEffect DEF StoreInv
<1>6. DOMAIN w \subseteq CostTables
  BY <1>1 DEF StoreInv, ThreadsShape
<1>7. \A t \in KeptTables : ins'[i][t] = ins[i][t]
  BY <1>5, <1>6 DEF KeptTables, CostTables, Tables
<1>8. /\ \A t \in FreshTables : ins'[i][t] = ins[i][t]
      /\ ins'[i]["warehouses"] = ins[i]["warehouses"]
  BY <1>7 DEF FreshTables, KeptTables
<1>9. TablesShape'
  BY <1>4, <1>5 DEF StoreInv, TablesShape
<1>10. \A t \in KeptTables : del'[i][t] = {}
  BY <1>4 DEF StoreInv, ImporterRows
<1>11. KeysOf(ins[i]["warehouses"]) \subseteq KeysOf(ins'[i]["warehouses"])
  BY <1>8
<1>12. QED
  BY <1>2, <1>3, <1>4, <1>5, <1>8, <1>9, <1>10, <1>11, WorkStep DEF InTransaction, AfterDelete

(* The rows an INSERT adds to a table that the importer has not written to *)
(* yet: their keys are free.                                               *)
LEMMA InsertEffect ==
    ASSUME StoreInv, NEW i \in Importers, NEW w, NEW t \in FreshTables, DOMAIN w = {t},
           Insert(i, w), ins[i][t] = {}
    PROVE  /\ TablesShape' /\ UNCHANGED <<db, del, leases>>
           /\ \A u \in Sessions \ {i} : ins'[u] = ins[u]
           /\ \A x \in Tables \ {t} : ins'[i][x] = ins[i][x]
           /\ ins'[i][t] = w[t]
           /\ KeysOf(w[t]) \cap KeysOf(db[t]) = {}
           /\ \A j \in Importers \ {i} : KeysOf(w[t]) \cap KeysOf(ins[j][t]) = {}
<1> USE SessionFacts
<1>1. TablesShape /\ Write(i, w) /\ Free(i, w) /\ ~Clashes(i, w) /\ UNCHANGED <<db, del, leases>>
  BY DEF StoreInv, Insert
<1>2. t \in Tables /\ t \in KeptTables
  BY DEF FreshTables, Tables, KeptTables
<1>3. /\ DOMAIN ins' = Sessions
      /\ \A u \in Sessions : DOMAIN ins'[u] = Tables
      /\ \A u \in Sessions \ {i} : ins'[u] = ins[u]
      /\ \A x \in Tables : ins'[i][x] = IF x \in DOMAIN w
                             THEN Without(ins[i][x], KeysOf(w[x])) \cup w[x] ELSE ins[i][x]
  BY <1>1, WriteEffect
<1>4. ins'[i][t] = Without({}, KeysOf(w[t])) \cup w[t] /\ \A x \in Tables \ {t} : ins'[i][x] = ins[i][x]
  BY <1>2, <1>3
<1>5. ins'[i][t] = w[t]
  BY <1>4 DEF Without
<1>6. KeysOf(w[t]) \cap KeysOf(db[t]) = {}
  <2>1. del[i][t] = {}
    BY <1>2 DEF StoreInv, ImporterRows
  <2>2. KeysOf(w[t]) \cap KeysOf(Sees(i, t)) = {}
    BY <1>1 DEF Clashes
  <2>3. QED
    BY <2>1, <2>2, KeysSeen
<1>7. \A j \in Importers \ {i} : KeysOf(w[t]) \cap KeysOf(ins[j][t]) = {}
  BY <1>1 DEF Free, Held
<1>8. TablesShape'
  BY <1>1, <1>3 DEF TablesShape
<1>9. QED
  BY <1>1, <1>3, <1>4, <1>5, <1>6, <1>7, <1>8

LEMMA InsertStocksStep ==
    ASSUME StoreInv, NEW i \in Importers, InsertStocks(i), Apart PROVE StoreInv'
<1> USE SessionFacts
<1> DEFINE w == StocksWrite(i)
<1>1. ThreadsShape'
  BY DEF StoreInv, ThreadsShape, InsertStocks, CostWrites, CostTables, Goto, Places, InTransaction,
         AfterDelete, Apart, puller
<1>2. at[i] = "stocks" /\ at'[i] = "costs" /\ UNCHANGED <<puller, req, reply>>
      /\ \A j \in Importers \ {i} : at'[j] = at[j]
  BY DEF StoreInv, ThreadsShape, InsertStocks, Goto, Apart
<1>3. ins[i]["stocks"] = {} /\ ins[i]["snapshots"] = {}
  BY <1>2 DEF StoreInv, ImporterRows
<1>4. Insert(i, w) /\ ~UnknownWarehouse(i)
  BY DEF InsertStocks
<1>5. DOMAIN w = {"stocks"} /\ w["stocks"] = StockRows(req[i])
  BY DEF StocksWrite
<1> HIDE DEF w
<1>6. /\ TablesShape' /\ UNCHANGED <<db, del, leases>>
      /\ \A u \in Sessions \ {i} : ins'[u] = ins[u]
      /\ \A x \in Tables \ {"stocks"} : ins'[i][x] = ins[i][x]
      /\ ins'[i]["stocks"] = StockRows(req[i])
      /\ KeysOf(ins'[i]["stocks"]) \cap KeysOf(db["stocks"]) = {}
      /\ \A j \in Importers \ {i} : KeysOf(ins'[i]["stocks"]) \cap KeysOf(ins[j]["stocks"]) = {}
  <2>1. "stocks" \in FreshTables
    BY DEF FreshTables
  <2>2. QED
    BY <1>3, <1>4, <1>5, <2>1, InsertEffect
<1>7. ins'[i]["snapshots"] = {} /\ ins'[i]["warehouses"] = ins[i]["warehouses"]
  BY <1>3, <1>6 DEF Tables
<1>8. KeysOf(ins'[i]["snapshots"]) = {}
  BY <1>7 DEF KeysOf
<1>9. \A r \in StockRows(req[i]) :
         r.key[2] \in KeysOf(db["warehouses"]) \cup KeysOf(ins'[i]["warehouses"])
  <2>1. del[i]["warehouses"] = {}
    BY DEF StoreInv, ImporterRows, KeptTables
  <2>2. KeysOf(Sees(i, "warehouses")) = KeysOf(db["warehouses"]) \cup KeysOf(ins[i]["warehouses"])
    BY <2>1, KeysSeen
  <2>3. QED
    BY <1>4, <1>7, <2>2 DEF UnknownWarehouse
<1>10. Alone(i)
  BY <1>2, <1>6 DEF Alone, puller
<1>11. i \in leases' /\ reply'[i] = "none"
  BY <1>2, <1>6 DEF StoreInv, Leases, Working, Unanswered, InTransaction, AfterDelete
<1>12. \A t \in KeptTables : del'[i][t] = {}
  BY <1>6 DEF StoreInv, ImporterRows
<1>13. \A t \in FreshTables :
         /\ KeysOf(ins'[i][t]) \cap KeysOf(db[t]) = {}
         /\ \A j \in Importers \ {i} : KeysOf(ins'[i][t]) \cap KeysOf(ins[j][t]) = {}
  BY <1>6, <1>8 DEF FreshTables
<1>14. OwnPart(i)
  BY <1>2, <1>6, <1>7, <1>9, <1>11, <1>12, <1>13 DEF OwnPart, InTransaction, AfterDelete
<1>15. db' = db
  BY <1>6
<1>16. QED
  BY <1>1, <1>6, <1>10, <1>14, <1>15, Quiet

LEMMA InsertSnapshotStep ==
    ASSUME StoreInv, NEW i \in Importers, InsertSnapshot(i), Apart PROVE StoreInv'
<1> USE SessionFacts
<1> DEFINE w == [snapshots |-> {SnapshotRow(req[i])}]
<1>1. ThreadsShape'
  BY DEF StoreInv, ThreadsShape, InsertSnapshot, Goto, Places, InTransaction,
         AfterDelete, Apart, puller
<1>2. at[i] = "costs" /\ at'[i] = "commit" /\ UNCHANGED <<puller, req, reply>>
      /\ \A j \in Importers \ {i} : at'[j] = at[j]
  BY DEF StoreInv, ThreadsShape, InsertSnapshot, Goto, Apart
<1>3. ins[i]["stocks"] = StockRows(req[i]) /\ ins[i]["snapshots"] = {}
  BY <1>2 DEF StoreInv, ImporterRows
<1>4. Insert(i, w)
  BY DEF InsertSnapshot
<1>5. DOMAIN w = {"snapshots"} /\ w["snapshots"] = {SnapshotRow(req[i])}
  OBVIOUS
<1> HIDE DEF w
<1>6. /\ TablesShape' /\ UNCHANGED <<db, del, leases>>
      /\ \A u \in Sessions \ {i} : ins'[u] = ins[u]
      /\ \A x \in Tables \ {"snapshots"} : ins'[i][x] = ins[i][x]
      /\ ins'[i]["snapshots"] = {SnapshotRow(req[i])}
      /\ KeysOf(ins'[i]["snapshots"]) \cap KeysOf(db["snapshots"]) = {}
      /\ \A j \in Importers \ {i} :
            KeysOf(ins'[i]["snapshots"]) \cap KeysOf(ins[j]["snapshots"]) = {}
  <2>1. "snapshots" \in FreshTables
    BY DEF FreshTables
  <2>2. QED
    BY <1>3, <1>4, <1>5, <2>1, InsertEffect
<1>7. ins'[i]["stocks"] = ins[i]["stocks"] /\ ins'[i]["warehouses"] = ins[i]["warehouses"]
  BY <1>6 DEF Tables
<1>8. /\ KeysOf(ins'[i]["stocks"]) \cap KeysOf(db["stocks"]) = {}
      /\ \A j \in Importers \ {i} : KeysOf(ins'[i]["stocks"]) \cap KeysOf(ins[j]["stocks"]) = {}
  BY <1>7 DEF StoreInv, Fresh, FreshTables
<1>9. \A r \in StockRows(req[i]) :
         r.key[2] \in KeysOf(db["warehouses"]) \cup KeysOf(ins'[i]["warehouses"])
  BY <1>2, <1>7 DEF StoreInv, ImporterRows
<1>10. Alone(i)
  BY <1>2, <1>6 DEF Alone, puller
<1>11. i \in leases' /\ reply'[i] = "none"
  BY <1>2, <1>6 DEF StoreInv, Leases, Working, Unanswered, InTransaction, AfterDelete
<1>12. \A t \in KeptTables : del'[i][t] = {}
  BY <1>6 DEF StoreInv, ImporterRows
<1>13. \A t \in FreshTables :
         /\ KeysOf(ins'[i][t]) \cap KeysOf(db[t]) = {}
         /\ \A j \in Importers \ {i} : KeysOf(ins'[i][t]) \cap KeysOf(ins[j][t]) = {}
  BY <1>6, <1>8 DEF FreshTables
<1>14. OwnPart(i)
  BY <1>2, <1>3, <1>6, <1>7, <1>9, <1>11, <1>12, <1>13 DEF OwnPart, InTransaction, AfterDelete
<1>15. db' = db
  BY <1>6
<1>16. QED
  BY <1>1, <1>6, <1>10, <1>14, <1>15, Quiet

(* The transaction is undone, by a constraint or by an error.              *)
LEMMA FailStep ==
    ASSUME StoreInv, NEW i \in Importers, Fail(i), Apart PROVE StoreInv'
<1> USE SessionFacts
<1>1. ThreadsShape'
  BY DEF StoreInv, ThreadsShape, Fail, NothingSeen, Answer, Goto, Places, InTransaction,
         AfterDelete, Replies, Apart, puller
<1>2. at'[i] = "idle" /\ reply'[i] = "failed" /\ UNCHANGED <<puller, req>>
      /\ \A j \in Importers \ {i} : at'[j] = at[j] /\ reply'[j] = reply[j]
  BY DEF StoreInv, ThreadsShape, Fail, Answer, Goto, Apart
<1>3. Forget(i) /\ db' = db
  BY DEF Fail, Rollback
<1>4. /\ DOMAIN ins' = Sessions /\ DOMAIN del' = Sessions
      /\ \A u \in Sessions : DOMAIN ins'[u] = Tables /\ DOMAIN del'[u] = Tables
      /\ \A u \in Sessions \ {i} : ins'[u] = ins[u] /\ del'[u] = del[u]
      /\ \A t \in Tables : ins'[i][t] = {} /\ del'[i][t] = {}
      /\ leases' = leases \ {i}
  BY <1>3, ForgetEffect DEF StoreInv
<1>5. TablesShape'
  BY <1>3, <1>4 DEF StoreInv, TablesShape
<1>6. Alone(i)
  BY <1>2, <1>4 DEF Alone, puller
<1>7. /\ \A t \in KeptTables : del'[i][t] = {}
      /\ ins'[i]["stocks"] = {} /\ ins'[i]["snapshots"] = {}
      /\ \A t \in FreshTables : KeysOf(ins'[i][t]) = {}
  BY <1>4 DEF KeptTables, FreshTables, Tables, KeysOf
<1>8. OwnPart(i)
  BY <1>2, <1>4, <1>7 DEF OwnPart, InTransaction, AfterDelete
<1>9. QED
  BY <1>1, <1>3, <1>5, <1>6, <1>8, Quiet

-----------------------------------------------------------------------------
(* The commit: the rows of the snapshot and its record become visible at   *)
(* once.                                                                   *)
LEMMA SameRows ==
    ASSUME NEW r
    PROVE  /\ StockRows([batch |-> SnapshotRow(r).key, rows |-> SnapshotRow(r).val]) = StockRows(r)
           /\ SnapshotRow(r).key = r.batch
           /\ \A x \in StockRows(r) : x.val.batch = r.batch
  BY DEF StockRows, SnapshotRow, Row

LEMMA CommitEffect ==
    ASSUME StoreInv, NEW i \in Importers, Committed(i)
    PROVE  /\ \A t \in FreshTables : /\ db'[t] = db[t] \cup ins[i][t]
                                     /\ KeysOf(ins[i][t]) \cap KeysOf(db[t]) = {}
           /\ ins[i]["stocks"] = StockRows(req[i]) /\ ins[i]["snapshots"] = {SnapshotRow(req[i])}
<1> USE SessionFacts
<1>1. at[i] = "commit" /\ db' = [t \in Tables |-> Sees(i, t)]
  BY DEF Committed, Commit
<1>2. ins[i]["stocks"] = StockRows(req[i]) /\ ins[i]["snapshots"] = {SnapshotRow(req[i])}
  BY <1>1 DEF StoreInv, ImporterRows
<1>3. ASSUME NEW t \in FreshTables
      PROVE  db'[t] = db[t] \cup ins[i][t] /\ KeysOf(ins[i][t]) \cap KeysOf(db[t]) = {}
  <2>1. KeysOf(ins[i][t]) \cap KeysOf(db[t]) = {}
    BY DEF StoreInv, Fresh
  <2>2. t \in KeptTables /\ t \in Tables
    BY DEF FreshTables, KeptTables, Tables
  <2>3. del[i][t] = {} /\ db'[t] = Sees(i, t)
    BY <1>1, <2>2 DEF StoreInv, ImporterRows
  <2>4. QED
    BY <2>1, <2>3, SeesFresh
<1>4. QED
  BY <1>2, <1>3

LEMMA CommitStep ==
    ASSUME StoreInv, NEW i \in Importers, CommitImport(i) \/ CommitInDoubt(i), Apart
    PROVE  StoreInv'
<1> USE SessionFacts
<1>1. ThreadsShape'
  BY DEF StoreInv, ThreadsShape, CommitImport, CommitInDoubt, Committed, Answer, Goto, Places,
         InTransaction, AfterDelete, Replies, Apart, puller
<1>2. /\ at[i] = "commit" /\ UNCHANGED <<puller, req>>
      /\ \/ at'[i] = "answer" /\ reply'[i] = "none"
         \/ at'[i] = "idle" /\ reply'[i] = "failed"
      /\ \A j \in Importers \ {i} : at'[j] = at[j] /\ reply'[j] = reply[j]
  BY DEF StoreInv, ThreadsShape, Unanswered, CommitImport, CommitInDoubt, Committed, Answer, Goto,
         Apart
<1>3. Forget(i) /\ db' = [t \in Tables |-> Sees(i, t)]
  BY DEF CommitImport, CommitInDoubt, Committed, Commit
<1>4. /\ DOMAIN ins' = Sessions /\ DOMAIN del' = Sessions
      /\ \A u \in Sessions : DOMAIN ins'[u] = Tables /\ DOMAIN del'[u] = Tables
      /\ \A u \in Sessions \ {i} : ins'[u] = ins[u] /\ del'[u] = del[u]
      /\ \A t \in Tables : ins'[i][t] = {} /\ del'[i][t] = {}
      /\ leases' = leases \ {i}
  BY <1>3, ForgetEffect DEF StoreInv
<1>5. \A t \in KeptTables : t \in Tables /\ del[i][t] = {} /\ db'[t] = Sees(i, t)
  BY <1>3 DEF StoreInv, ImporterRows, KeptTables, Tables
<1>6. \A t \in KeptTables : KeysOf(db'[t]) = KeysOf(db[t]) \cup KeysOf(ins[i][t])
  BY <1>5, KeysSeen
<1>7. \A t \in FreshTables : db'[t] = db[t] \cup ins[i][t]
  BY CommitEffect DEF CommitImport, CommitInDoubt
<1>8. /\ db'["stocks"] = db["stocks"] \cup StockRows(req[i])
      /\ db'["snapshots"] = db["snapshots"] \cup {SnapshotRow(req[i])}
      /\ KeysOf(db["warehouses"]) \subseteq KeysOf(db'["warehouses"])
      /\ \A r \in StockRows(req[i]) : r.key[2] \in KeysOf(db'["warehouses"])
  <2>1. /\ ins[i]["stocks"] = StockRows(req[i]) /\ ins[i]["snapshots"] = {SnapshotRow(req[i])}
        /\ \A r \in StockRows(req[i]) :
              r.key[2] \in KeysOf(db["warehouses"]) \cup KeysOf(ins[i]["warehouses"])
    BY <1>2 DEF StoreInv, ImporterRows
  <2>2. KeysOf(db'["warehouses"]) = KeysOf(db["warehouses"]) \cup KeysOf(ins[i]["warehouses"])
    BY <1>6 DEF KeptTables
  <2>3. QED
    BY <1>7, <2>1, <2>2 DEF FreshTables
<1>9. TablesShape'
  BY <1>3, <1>4 DEF StoreInv, TablesShape
<1>10. Leases'
  <2>1. \A s \in Sessions : (s \in leases \/ Idle(s))'
    BY <1>4 DEF StoreInv, Leases, Idle
  <2>2. \A s \in Sessions : (s \in leases <=> Working(s))'
    BY <1>2, <1>4 DEF StoreInv, Leases, Working, puller, InTransaction, AfterDelete
  <2>3. QED
    BY <1>2, <2>1, <2>2 DEF StoreInv, Leases, puller
<1>11. PullerRows'
  BY <1>4 DEF StoreInv, PullerRows
<1>12. \A j \in Importers : ImporterRows(j)'
  <2>1. SUFFICES ASSUME NEW j \in Importers PROVE ImporterRows(j)'
    OBVIOUS
  <2>2. CASE j = i
    BY <1>2, <1>4, <2>2 DEF ImporterRows, KeptTables, Tables
  <2>3. CASE j # i
    <3>1. /\ at'[j] = at[j] /\ req' = req /\ ins'[j] = ins[j] /\ del'[j] = del[j]
          /\ KeysOf(db["warehouses"]) \subseteq KeysOf(db'["warehouses"])
      BY <1>2, <1>4, <1>8, <2>3
    <3>2. ImporterRows(j)
      BY DEF StoreInv
    <3>3. at'[j] \in {"costs", "commit"} =>
             \A r \in StockRows(req'[j]) :
                r.key[2] \in KeysOf(db'["warehouses"]) \cup KeysOf(ins'[j]["warehouses"])
      BY <3>1, <3>2 DEF ImporterRows
    <3>4. QED
      BY <3>1, <3>2, <3>3 DEF ImporterRows
  <2>4. QED
    BY <2>2, <2>3
<1>13. Fresh'
  <2>1. SUFFICES ASSUME NEW j \in Importers, NEW t \in FreshTables
                 PROVE  /\ KeysOf(ins'[j][t]) \cap KeysOf(db'[t]) = {}
                        /\ \A k \in Importers \ {j} :
                              KeysOf(ins'[j][t]) \cap KeysOf(ins'[k][t]) = {}
    BY DEF Fresh, KeysOf
  <2>2. t \in Tables /\ t \in KeptTables
    BY DEF FreshTables, KeptTables, Tables
  <2>3. KeysOf(ins'[i][t]) = {}
    BY <1>4, <2>2 DEF KeysOf
  <2>4. CASE j = i
    BY <2>3, <2>4
  <2>5. CASE j # i
    <3>1. /\ ins'[j] = ins[j] /\ KeysOf(ins[j][t]) \cap KeysOf(db[t]) = {}
          /\ KeysOf(ins[j][t]) \cap KeysOf(ins[i][t]) = {}
      BY <1>4, <2>5 DEF StoreInv, Fresh
    <3>2. KeysOf(ins'[j][t]) \cap KeysOf(db'[t]) = {}
      BY <1>6, <2>2, <3>1
    <3>3. \A k \in Importers \ {i, j} : KeysOf(ins'[j][t]) \cap KeysOf(ins'[k][t]) = {}
      BY <1>4, <2>5 DEF StoreInv, Fresh
    <3>4. QED
      BY <2>3, <3>1, <3>2, <3>3
  <2>6. QED
    BY <2>4, <2>5
<1>14. Unanswered'
  BY <1>2, <1>8 DEF StoreInv, Unanswered
<1>15. AnswersTrue'
  BY <1>2, <1>8 DEF StoreInv, AnswersTrue
<1>16. SnapshotWhole'
  <2>1. \A x \in db["snapshots"] \cup {SnapshotRow(req[i])} :
          StockRows([batch |-> x.key, rows |-> x.val]) \subseteq db'["stocks"]
    <3>1. ASSUME NEW x \in db["snapshots"]
          PROVE  StockRows([batch |-> x.key, rows |-> x.val]) \subseteq db["stocks"]
      BY DEF StoreInv, SnapshotWhole
    <3>2. StockRows([batch |-> SnapshotRow(req[i]).key, rows |-> SnapshotRow(req[i]).val])
            = StockRows(req[i])
      BY SameRows
    <3>3. db["stocks"] \subseteq db'["stocks"] /\ StockRows(req[i]) \subseteq db'["stocks"]
      BY <1>8
    <3>4. QED
      BY <3>1, <3>2, <3>3
  <2>2. \A r \in db["stocks"] \cup StockRows(req[i]) :
          \E x \in db'["snapshots"] :
             x.key = r.val.batch /\ r \in StockRows([batch |-> x.key, rows |-> x.val])
    <3>1. SUFFICES ASSUME NEW r \in db["stocks"] \cup StockRows(req[i])
                   PROVE  \E x \in db'["snapshots"] :
                            x.key = r.val.batch /\ r \in StockRows([batch |-> x.key, rows |-> x.val])
      OBVIOUS
    <3>2. CASE r \in db["stocks"]
      BY <1>8, <3>2 DEF StoreInv, SnapshotWhole
    <3>3. CASE r \in StockRows(req[i])
      <4>1. r \in StockRows([batch |-> SnapshotRow(req[i]).key, rows |-> SnapshotRow(req[i]).val])
            /\ SnapshotRow(req[i]).key = r.val.batch
        BY <3>3, SameRows
      <4>2. QED
        BY <1>8, <4>1
    <3>4. QED
      BY <3>2, <3>3
  <2>3. \A r \in db["stocks"] \cup StockRows(req[i]) : r.key[2] \in KeysOf(db'["warehouses"])
    BY <1>8 DEF StoreInv, SnapshotWhole
  <2>4. QED
    BY <1>8, <2>1, <2>2, <2>3 DEF SnapshotWhole
<1>17. QED
  BY <1>1, <1>9, <1>10, <1>11, <1>12, <1>13, <1>14, <1>15, <1>16 DEF StoreInv

(* The answer, once the transaction is over.                               *)
LEMMA ImportedStep ==
    ASSUME StoreInv, NEW i \in Importers, Imported(i), Apart PROVE StoreInv'
<1>1. ThreadsShape'
  BY DEF StoreInv, ThreadsShape, Imported, Answer, Goto, Places, InTransaction, AfterDelete,
         Replies, Apart, puller
<1>2. /\ at[i] = "answer" /\ at'[i] = "idle" /\ reply'[i] = "imported"
      /\ SnapshotRow(req'[i]) \in db["snapshots"]
  BY DEF StoreInv, ThreadsShape, Unanswered, Imported, Answer, Goto
<1>3. \A j \in Importers \ {i} : at'[j] = at[j] /\ req'[j] = req[j] /\ reply'[j] = reply[j]
  BY DEF StoreInv, ThreadsShape, Imported, Answer, Goto
<1>4. UNCHANGED tables /\ UNCHANGED puller
  BY DEF Imported, Apart
<1>5. QED
  BY <1>1, <1>2, <1>3, <1>4, NoTableStep DEF InTransaction, AfterDelete

-----------------------------------------------------------------------------
(* The steps of the pullers.                                               *)
Alike == UNCHANGED <<importer, filters, crew, crashes>>

(* What a step of a puller leaves alone, and what it does to its lease.    *)
PullerFrame(p) ==
    /\ \A u \in Sessions \ {p} : ins'[u] = ins[u] /\ del'[u] = del[u] /\ (u \in leases' <=> u \in leases)
    /\ \A t \in ImportTables : db'[t] = db[t] /\ ins'[p][t] = {} /\ del'[p][t] = {}
    /\ \A q \in Pullers \ {p} : place'[q] = place[q]
    /\ p \in leases' \/ \A t \in Tables : ins'[p][t] = {} /\ del'[p][t] = {}
    /\ p \in leases' <=> place'[p] \in Pulling
    /\ pcRunning' => \E q \in SsePullers : place'[q] \in {"queued"} \cup Pulling

LEMMA PullerKeeps ==
    ASSUME StoreInv, NEW p \in Pullers, Alike, TablesShape', ThreadsShape', PullerFrame(p)
    PROVE  StoreInv'
<1> USE SessionFacts
<1>1. UNCHANGED <<at, req, reply>>
  BY DEF Alike, importer
<1>2. Leases'
  <2>1. \A s \in Sessions : (s \in leases \/ Idle(s))'
    BY DEF StoreInv, Leases, Idle, PullerFrame
  <2>2. \A s \in Sessions : (s \in leases <=> Working(s))'
    <3>1. SUFFICES ASSUME NEW s \in Sessions PROVE (s \in leases <=> Working(s))'
      OBVIOUS
    <3>2. CASE s = p
      BY <3>2 DEF Working, PullerFrame
    <3>3. CASE s # p
      BY <1>1, <3>3 DEF StoreInv, Leases, Working, PullerFrame, Sessions
    <3>4. QED
      BY <3>2, <3>3
  <2>3. QED
    BY <2>1, <2>2 DEF Leases, PullerFrame
<1>3. PullerRows'
  BY DEF StoreInv, PullerRows, PullerFrame
<1>4. \A j \in Importers : ins'[j] = ins[j] /\ del'[j] = del[j]
  BY DEF PullerFrame
<1>5. /\ db'["warehouses"] = db["warehouses"] /\ db'["stocks"] = db["stocks"]
      /\ db'["snapshots"] = db["snapshots"]
  BY DEF PullerFrame, ImportTables
<1>6. \A j \in Importers : ImporterRows(j)'
  BY <1>1, <1>4, <1>5 DEF StoreInv, ImporterRows
<1>7. Fresh'
  BY <1>4, <1>5 DEF StoreInv, Fresh, FreshTables
<1>8. Unanswered' /\ AnswersTrue'
  BY <1>1, <1>5 DEF StoreInv, Unanswered, AnswersTrue
<1>9. SnapshotWhole'
  BY <1>5 DEF StoreInv, SnapshotWhole
<1>10. QED
  BY <1>2, <1>3, <1>6, <1>7, <1>8, <1>9 DEF StoreInv

(* The flag of the SSE variant stays true while its puller is not done.    *)
LEMMA FlagKept ==
    ASSUME StoreInv, NEW p \in Pullers,
           \A q \in Pullers \ {p} : place'[q] = place[q],
           \/ pcRunning' = pcRunning /\ place'[p] \in {"queued"} \cup Pulling
           \/ pcRunning' = pcRunning /\ place[p] \notin {"queued"} \cup Pulling
           \/ pcRunning' = (IF p \in SsePullers THEN FALSE ELSE pcRunning)
    PROVE  pcRunning' => \E q \in SsePullers : place'[q] \in {"queued"} \cup Pulling
<1> USE SessionFacts
<1>1. SUFFICES ASSUME pcRunning' PROVE \E q \in SsePullers : place'[q] \in {"queued"} \cup Pulling
  OBVIOUS
<1>2. pcRunning
  BY <1>1
<1>3. PICK q \in SsePullers : place[q] \in {"queued"} \cup Pulling
  BY <1>2 DEF StoreInv, Leases
<1>4. CASE q = p
  BY <1>1, <1>3, <1>4
<1>5. CASE q # p
  BY <1>3, <1>5
<1>6. QED
  BY <1>4, <1>5

(* A step of a puller that leaves the tables alone.                        *)
LEMMA PullerTurns ==
    ASSUME StoreInv, NEW p \in Pullers, Alike, UNCHANGED <<db, ins, del>>, ThreadsShape',
           leases' \subseteq Sessions,
           \A u \in Sessions \ {p} : u \in leases' <=> u \in leases,
           p \in leases => p \in leases', p \in leases' <=> place'[p] \in Pulling,
           \A q \in Pullers \ {p} : place'[q] = place[q],
           pcRunning' => \E q \in SsePullers : place'[q] \in {"queued"} \cup Pulling
    PROVE  StoreInv'
<1> USE SessionFacts
<1>1. TablesShape'
  BY DEF StoreInv, TablesShape
<1>2. p \in leases' \/ \A t \in Tables : ins'[p][t] = {} /\ del'[p][t] = {}
  BY DEF StoreInv, Leases, Idle
<1>3. \A t \in ImportTables : db'[t] = db[t] /\ ins'[p][t] = {} /\ del'[p][t] = {}
  BY DEF StoreInv, PullerRows
<1>4. PullerFrame(p)
  BY <1>2, <1>3 DEF PullerFrame
<1>5. QED
  BY <1>1, <1>4, PullerKeeps

LEMMA PullerStarts ==
    ASSUME StoreInv, NEW p \in Pullers, Alike, StartHttp(p) \/ TriggerProductCatalog(p)
    PROVE  StoreInv'
<1> USE SessionFacts
<1>1. ThreadsShape'
  BY DEF StoreInv, ThreadsShape, StartHttp, TriggerProductCatalog, Move, PullerPlaces, Pulling,
         Alike, importer
<1>2. /\ place[p] = "idle" /\ place'[p] \in {"queued", "refused"} /\ UNCHANGED tables
      /\ \A q \in Pullers \ {p} : place'[q] = place[q]
  BY DEF StoreInv, ThreadsShape, StartHttp, TriggerProductCatalog, Move
<1>3. p \notin leases
  BY <1>2 DEF StoreInv, Leases, Working, Pulling
<1>4. pcRunning' => \E q \in SsePullers : place'[q] \in {"queued"} \cup Pulling
  <2>1. CASE pcRunning' = pcRunning
    BY <1>2, <2>1, FlagKept DEF Pulling
  <2>2. CASE p \in SsePullers /\ place'[p] = "queued"
    BY <2>2
  <2>3. pcRunning' = pcRunning \/ (p \in SsePullers /\ place'[p] = "queued")
    <3>1. CASE StartHttp(p)
      BY <3>1 DEF StartHttp
    <3>2. CASE TriggerProductCatalog(p)
      BY <3>2 DEF TriggerProductCatalog, Move, StoreInv, ThreadsShape
    <3>3. QED
      BY <3>1, <3>2
  <2>4. QED
    BY <2>1, <2>2, <2>3
<1>5. /\ UNCHANGED <<db, ins, del, leases>> /\ leases' \subseteq Sessions
      /\ p \notin leases' /\ place'[p] \notin Pulling
  BY <1>2, <1>3 DEF tables, StoreInv, TablesShape, Pulling
<1>6. QED
  BY <1>1, <1>2, <1>4, <1>5, PullerTurns

LEMMA BeginPullStep ==
    ASSUME StoreInv, NEW p \in Pullers, Alike, BeginPull(p) PROVE StoreInv'
<1> USE SessionFacts
<1>1. ThreadsShape'
  BY DEF StoreInv, ThreadsShape, BeginPull, Move, PullerPlaces, Pulling, Alike, importer
<1>2. /\ place[p] = "queued" /\ place'[p] = "reading" /\ UNCHANGED <<db, ins, del, pcRunning>>
      /\ leases' = leases \cup {p} /\ \A q \in Pullers \ {p} : place'[q] = place[q]
  BY DEF StoreInv, ThreadsShape, BeginPull, Acquire, Move
<1>3. pcRunning' => \E q \in SsePullers : place'[q] \in {"queued"} \cup Pulling
  BY <1>2, FlagKept DEF Pulling
<1>4. leases' \subseteq Sessions
  BY <1>2 DEF StoreInv, TablesShape
<1>5. p \in leases' /\ place'[p] \in Pulling
  BY <1>2 DEF Pulling
<1>6. QED
  BY <1>1, <1>2, <1>3, <1>4, <1>5, PullerTurns

LEMMA ReadingSteps ==
    ASSUME StoreInv, NEW p \in Pullers, Alike, ReadPage(p) \/ DeleteProducts(p) PROVE StoreInv'
<1> USE SessionFacts
<1>1. ThreadsShape'
  BY DEF StoreInv, ThreadsShape, ReadPage, DeleteProducts, Move, PullerPlaces, Pulling, Alike, importer
<1>2. /\ place[p] \in Pulling /\ place'[p] \in Pulling /\ UNCHANGED <<db, ins, del, leases, pcRunning>>
      /\ \A q \in Pullers \ {p} : place'[q] = place[q]
  <2>1. CASE ReadPage(p)
    BY <2>1 DEF StoreInv, ThreadsShape, ReadPage, Move, Pulling, tables
  <2>2. CASE DeleteProducts(p)
    BY <2>2 DEF StoreInv, ThreadsShape, DeleteProducts, Move, Pulling, tables
  <2>3. QED
    BY <2>1, <2>2
<1>3. pcRunning' => \E q \in SsePullers : place'[q] \in {"queued"} \cup Pulling
  BY <1>2, FlagKept
<1>4. p \in leases /\ leases' \subseteq Sessions
  BY <1>2 DEF StoreInv, TablesShape, Leases, Working
<1>5. QED
  BY <1>1, <1>2, <1>3, <1>4, PullerTurns

LEMMA ProductsDeletedStep ==
    ASSUME StoreInv, NEW p \in Pullers, Alike, ProductsDeleted(p) PROVE StoreInv'
<1> USE SessionFacts
<1>1. ThreadsShape'
  BY DEF StoreInv, ThreadsShape, ProductsDeleted, NoSight, Move, PullerPlaces, Pulling, Alike, importer
<1>2. /\ place[p] \in Pulling /\ place'[p] \in Pulling /\ UNCHANGED pcRunning
      /\ \A q \in Pullers \ {p} : place'[q] = place[q]
  BY DEF StoreInv, ThreadsShape, ProductsDeleted, Move, Pulling
<1>3. /\ DOMAIN del' = Sessions
      /\ \A u \in Sessions : DOMAIN del'[u] = Tables
      /\ \A u \in Sessions \ {p} : del'[u] = del[u]
      /\ \A t \in Tables : t \notin DOMAIN sight[p] => del'[p][t] = del[p][t]
      /\ ins' = ins /\ db' = db /\ leases' = leases
  BY DeleteEffect DEF StoreInv, ProductsDeleted
<1>4. \A t \in ImportTables : db'[t] = db[t] /\ ins'[p][t] = {} /\ del'[p][t] = {}
  <2>1. DOMAIN sight[p] = CatalogTables
    BY DEF StoreInv, ThreadsShape
  <2>2. QED
    BY <1>3, <2>1 DEF StoreInv, PullerRows
<1>5. pcRunning' => \E q \in SsePullers : place'[q] \in {"queued"} \cup Pulling
  BY <1>2, FlagKept
<1>6. p \in leases
  BY <1>2 DEF StoreInv, Leases, Working
<1>7. PullerFrame(p)
  BY <1>2, <1>3, <1>4, <1>5, <1>6 DEF PullerFrame
<1>8. TablesShape'
  BY <1>3 DEF StoreInv, TablesShape
<1>9. QED
  BY <1>1, <1>7, <1>8, PullerKeeps

(* The rows of a catalogue go to its tables only.                          *)
LEMMA RecordsShape == \A rows : DOMAIN Normalize(rows) = CatalogTables
  BY DEF Normalize, CatalogTables

LEMMA CopyProductsStep ==
    ASSUME StoreInv, NEW p \in Pullers, Alike, CopyProducts(p) PROVE StoreInv'
<1> USE SessionFacts
<1>1. ThreadsShape'
  BY DEF StoreInv, ThreadsShape, CopyProducts, Move, PullerPlaces, Pulling, Alike, importer
<1>2. /\ place[p] \in Pulling /\ place'[p] \in Pulling /\ UNCHANGED pcRunning
      /\ \A q \in Pullers \ {p} : place'[q] = place[q]
  BY DEF StoreInv, ThreadsShape, CopyProducts, Move, Pulling
<1>3. Write(p, Records(p)) /\ UNCHANGED <<db, del, leases>>
  BY DEF CopyProducts, Insert
<1>4. DOMAIN Records(p) = CatalogTables
  BY RecordsShape DEF Records
<1>5. /\ DOMAIN ins' = Sessions
      /\ \A u \in Sessions : DOMAIN ins'[u] = Tables
      /\ \A u \in Sessions \ {p} : ins'[u] = ins[u]
      /\ \A t \in Tables : t \notin DOMAIN Records(p) => ins'[p][t] = ins[p][t]
  BY <1>3, WriteEffect DEF StoreInv
<1>6. \A t \in ImportTables : db'[t] = db[t] /\ ins'[p][t] = {} /\ del'[p][t] = {}
  BY <1>3, <1>4, <1>5 DEF StoreInv, PullerRows
<1>7. pcRunning' => \E q \in SsePullers : place'[q] \in {"queued"} \cup Pulling
  BY <1>2, FlagKept
<1>8. p \in leases /\ leases' = leases /\ del' = del
  BY <1>2, <1>3 DEF StoreInv, Leases, Working
<1>9. PullerFrame(p)
  BY <1>2, <1>5, <1>6, <1>7, <1>8 DEF PullerFrame
<1>10. TablesShape'
  BY <1>3, <1>5 DEF StoreInv, TablesShape
<1>11. QED
  BY <1>1, <1>9, <1>10, PullerKeeps

(* The end of a pull, whatever it leaves in the tables of the catalogue.   *)
LEMMA EndStep ==
    ASSUME StoreInv, NEW p \in Pullers, Alike, Forget(p), NEW x \in {"done", "failed"},
           EndPull(p, x), DOMAIN db' = Tables,
           DOMAIN sight' = Pullers /\ \A q \in Pullers : DOMAIN sight'[q] = CatalogTables,
           \A t \in ImportTables : db'[t] = db[t]
    PROVE  StoreInv'
<1> USE SessionFacts
<1>1. ThreadsShape'
  BY DEF StoreInv, ThreadsShape, EndPull, Move, PullerPlaces, Pulling, Alike, importer
<1>2. /\ place'[p] = x /\ \A q \in Pullers \ {p} : place'[q] = place[q]
      /\ pcRunning' = (IF p \in SsePullers THEN FALSE ELSE pcRunning)
  BY DEF StoreInv, ThreadsShape, EndPull, Move
<1>3. /\ DOMAIN ins' = Sessions /\ DOMAIN del' = Sessions
      /\ \A u \in Sessions : DOMAIN ins'[u] = Tables /\ DOMAIN del'[u] = Tables
      /\ \A u \in Sessions \ {p} : ins'[u] = ins[u] /\ del'[u] = del[u]
      /\ \A t \in Tables : ins'[p][t] = {} /\ del'[p][t] = {}
      /\ leases' = leases \ {p}
  BY ForgetEffect DEF StoreInv
<1>4. pcRunning' => \E q \in SsePullers : place'[q] \in {"queued"} \cup Pulling
  BY <1>2, FlagKept
<1>5. place'[p] \notin Pulling
  BY <1>2 DEF Pulling
<1>6. PullerFrame(p)
  BY <1>2, <1>3, <1>4, <1>5 DEF PullerFrame
<1>7. TablesShape'
  BY <1>3 DEF StoreInv, TablesShape
<1>8. QED
  BY <1>1, <1>6, <1>7, PullerKeeps

LEMMA PullerEnds ==
    ASSUME StoreInv, NEW p \in Pullers, Alike,
           ReadTooMuch(p) \/ PullRefused(p) \/ PullBreaks(p) \/ CommitPull(p)
    PROVE  StoreInv'
<1> USE SessionFacts
<1>1. CASE ReadTooMuch(p) \/ PullRefused(p) \/ PullBreaks(p)
  <2>1. Forget(p) /\ EndPull(p, "failed") /\ db' = db
    BY <1>1 DEF ReadTooMuch, PullRefused, PullBreaks, PullFails, Rollback
  <2>2. DOMAIN db' = Tables
    BY <2>1 DEF StoreInv, TablesShape
  <2>3. DOMAIN sight' = Pullers /\ \A q \in Pullers : DOMAIN sight'[q] = CatalogTables
    BY <1>1 DEF StoreInv, ThreadsShape, ReadTooMuch, PullRefused, PullBreaks, PullFails, NoSight
  <2>4. QED
    BY <2>1, <2>2, <2>3, EndStep
<1>2. CASE CommitPull(p)
  <2>1. Forget(p) /\ (\E x \in {"done", "failed"} : EndPull(p, x)) /\ db' = [t \in Tables |-> Sees(p, t)]
    BY <1>2 DEF CommitPull, Commit
  <2>2. \A t \in ImportTables : db'[t] = db[t]
    <3>1. SUFFICES ASSUME NEW t \in ImportTables PROVE db'[t] = db[t]
      OBVIOUS
    <3>2. ins[p][t] = {} /\ del[p][t] = {}
      BY DEF StoreInv, PullerRows
    <3>3. Sees(p, t) = db[t]
      BY <3>2 DEF Sees, Without, KeysOf
    <3>4. QED
      BY <2>1, <3>3
  <2>3. DOMAIN sight' = Pullers /\ \A q \in Pullers : DOMAIN sight'[q] = CatalogTables
    BY <1>2 DEF CommitPull
  <2>4. QED
    BY <2>1, <2>2, <2>3, EndStep
<1>3. QED
  BY <1>1, <1>2

-----------------------------------------------------------------------------
(* Steps that touch no thread and no table, and the death of the process.  *)
LEMMA Aside ==
    ASSUME StoreInv, UNCHANGED <<tables, importer, puller>> PROVE StoreInv'
<1>1. UNCHANGED <<db, ins, del, leases, at, req, seen, todo, reply, place, sight, pcRunning>>
  BY DEF tables, importer, puller
<1>2. TablesShape' /\ ThreadsShape'
  BY <1>1 DEF StoreInv, TablesShape, ThreadsShape
<1>3. Leases' /\ PullerRows'
  <2>1. \A s \in Sessions : Working(s)' <=> Working(s)
    BY <1>1 DEF Working
  <2>2. \A s \in Sessions : Idle(s)' <=> Idle(s)
    BY <1>1 DEF Idle
  <2>3. QED
    BY <1>1, <2>1, <2>2 DEF StoreInv, Leases, PullerRows
<1>4. \A i \in Importers : ImporterRows(i)'
  BY <1>1 DEF StoreInv, ImporterRows
<1>5. Fresh' /\ Unanswered' /\ AnswersTrue'
  BY <1>1 DEF StoreInv, Fresh, Unanswered, AnswersTrue
<1>6. SnapshotWhole'
  BY <1>1 DEF StoreInv, SnapshotWhole
<1>7. QED
  BY <1>2, <1>3, <1>4, <1>5, <1>6 DEF StoreInv

(* Nothing is written, held or under way: what is left is what was         *)
(* committed.                                                              *)
LEMMA AtRest ==
    ASSUME TablesShape', ThreadsShape',
           \A s \in Sessions, t \in Tables : ins'[s][t] = {} /\ del'[s][t] = {},
           leases' = {}, ~pcRunning',
           \A i \in Importers : at'[i] = "idle",
           \A p \in Pullers : place'[p] \notin Pulling,
           SnapshotWhole', AnswersTrue'
    PROVE  StoreInv'
<1> USE SessionFacts
<1>1. Leases'
  <2>1. \A s \in Sessions : ~Working(s)'
    BY DEF Working, InTransaction, AfterDelete, Sessions
  <2>2. \A s \in Sessions : Idle(s)'
    BY DEF Idle
  <2>3. QED
    BY <2>1, <2>2 DEF Leases
<1>2. PullerRows'
  BY DEF PullerRows
<1>3. \A i \in Importers : ImporterRows(i)'
  BY DEF ImporterRows, KeptTables, Tables
<1>4. \A i \in Importers, t \in FreshTables : KeysOf(ins'[i][t]) = {}
  BY DEF FreshTables, Tables, KeysOf
<1>5. Fresh'
  BY <1>4 DEF Fresh
<1>6. Unanswered'
  BY DEF Unanswered
<1>7. QED
  BY <1>1, <1>2, <1>3, <1>5, <1>6 DEF StoreInv

LEMMA CrashStep == ASSUME StoreInv, Crash PROVE StoreInv'
<1> USE SessionFacts
<1>1. UNCHANGED <<db, req>>
  BY DEF Crash, DbCrash, ImportCrash
<1>2. TablesShape'
  BY DEF StoreInv, TablesShape, Crash, DbCrash, NoRows
<1>3. ThreadsShape'
  BY DEF StoreInv, ThreadsShape, Crash, ImportCrash, CatalogCrash, NothingSeen, NoSight, Places,
         PullerPlaces, Replies
<1>4. \A s \in Sessions, t \in Tables : ins'[s][t] = {} /\ del'[s][t] = {}
  BY DEF Crash, DbCrash, NoRows
<1>5. leases' = {} /\ ~pcRunning' /\ \A i \in Importers : at'[i] = "idle"
  BY DEF Crash, DbCrash, ImportCrash, CatalogCrash
<1>6. \A p \in Pullers : place'[p] \notin Pulling
  BY DEF Crash, CatalogCrash, Pulling
<1>7. SnapshotWhole'
  BY <1>1 DEF StoreInv, SnapshotWhole
<1>8. AnswersTrue'
  BY <1>1 DEF StoreInv, AnswersTrue, Crash, ImportCrash
<1>9. QED
  BY <1>2, <1>3, <1>4, <1>5, <1>6, <1>7, <1>8, AtRest

LEMMA InitStore == Init => StoreInv
<1> USE SessionFacts
<1> SUFFICES ASSUME Init PROVE StoreInv
  OBVIOUS
<1>1. PICK c \in FirstKeys : db = [t \in Tables |-> IF t \in CatalogTables THEN c[t] ELSE {}]
  BY DEF Init
<1>2. DOMAIN db = Tables /\ \A t \in ImportTables : db[t] = {}
  BY <1>1
<1>3. TablesShape
  BY <1>2 DEF TablesShape, Init, DbInit, NoRows
<1>4. ThreadsShape
  BY DEF ThreadsShape, Init, ImportInit, CatalogInit, NothingSeen, NoSight, Places, PullerPlaces,
         Replies
<1>5. Leases
  <2>1. \A s \in Sessions : ~Working(s)
    BY DEF Working, InTransaction, AfterDelete, Pulling, Sessions, Init, ImportInit, CatalogInit
  <2>2. \A s \in Sessions : Idle(s)
    BY DEF Idle, Init, DbInit, NoRows
  <2>3. leases = {} /\ ~pcRunning
    BY DEF Init, DbInit, CatalogInit
  <2>4. QED
    BY <2>1, <2>2, <2>3 DEF Leases
<1>6. PullerRows
  BY DEF PullerRows, Init, DbInit, NoRows
<1>7. \A i \in Importers : ImporterRows(i)
  BY DEF ImporterRows, KeptTables, Tables, Init, DbInit, NoRows, ImportInit
<1>8. \A i \in Importers, t \in FreshTables : KeysOf(ins[i][t]) = {}
  BY DEF FreshTables, Tables, KeysOf, Init, DbInit, NoRows
<1>9. Fresh
  BY <1>8 DEF Fresh
<1>10. Unanswered /\ AnswersTrue
  BY DEF Unanswered, AnswersTrue, Init, ImportInit
<1>11. SnapshotWhole
  BY <1>2 DEF SnapshotWhole, ImportTables
<1>12. QED
  BY <1>3, <1>4, <1>5, <1>6, <1>7, <1>9, <1>10, <1>11 DEF StoreInv

-----------------------------------------------------------------------------
LEMMA ImporterStepKeeps ==
    ASSUME StoreInv, NEW i \in Importers, ImporterMoves(i), Apart PROVE StoreInv'
<1>1. CASE Ask(i)
  BY <1>1, AskStep
<1>2. CASE Pull(i)
  BY <1>2, PullStepKeeps
<1>3. CASE Check(i)
  BY <1>3, CheckStep
<1>4. CASE DeleteCosts(i)
  BY <1>4, DeleteCostsStep
<1>5. CASE CostsDeleted(i)
  BY <1>5, CostsDeletedStep
<1>6. CASE UpsertWarehouses(i)
  BY <1>6, UpsertWarehousesStep
<1>7. CASE InsertStocks(i)
  BY <1>7, InsertStocksStep
<1>8. CASE PutCost(i)
  BY <1>8, PutCostStep
<1>9. CASE InsertSnapshot(i)
  BY <1>9, InsertSnapshotStep
<1>10. CASE CommitImport(i) \/ CommitInDoubt(i)
  BY <1>10, CommitStep
<1>11. CASE ImportRefused(i) \/ ImportFails(i)
  BY <1>11, FailStep DEF ImportRefused, ImportFails
<1>12. CASE Imported(i)
  BY <1>12, ImportedStep
<1>13. QED
  BY <1>1, <1>2, <1>3, <1>4, <1>5, <1>6, <1>7, <1>8, <1>9, <1>10, <1>11, <1>12
     DEF ImporterMoves, ImportStep

LEMMA PullerStepKeeps ==
    ASSUME StoreInv, NEW p \in Pullers, PullerMoves(p), Alike PROVE StoreInv'
  BY PullerStarts, BeginPullStep, ReadingSteps, ProductsDeletedStep, CopyProductsStep, PullerEnds
     DEF PullerMoves, PullStep

(* StoreInv is inductive.                                                  *)
LEMMA StoreStep == StoreInv /\ [Next]_vars => StoreInv'
<1> SUFFICES ASSUME StoreInv, [Next]_vars PROVE StoreInv'
  OBVIOUS
<1>1. CASE \E i \in crew \cap Importers : ImporterMoves(i) /\ UNCHANGED <<puller, onec, crew, crashes>>
  BY <1>1, ImporterStepKeeps DEF Apart
<1>2. CASE \E p \in crew \cap Pullers : PullerMoves(p) /\ UNCHANGED <<importer, filters, crew, crashes>>
  BY <1>2, PullerStepKeeps DEF Alike
<1>3. CASE EditAllowed /\ UNCHANGED <<puller, onec, crew, crashes>>
  BY <1>3, Aside DEF EditAllowed
<1>4. CASE OnecChanges /\ UNCHANGED <<importer, filters, crew, crashes>>
  BY <1>4, Aside DEF OnecChanges
<1>5. CASE Crash
  BY <1>5, CrashStep
<1>6. CASE UNCHANGED vars
  BY <1>6, Aside DEF vars
<1>7. QED
  BY <1>1, <1>2, <1>3, <1>4, <1>5, <1>6 DEF Next

LEMMA StoreAlways == Spec => []StoreInv
  BY InitStore, StoreStep, PTL DEF Spec

(* The snapshot committed last is whole, and every stock is of the record  *)
(* it names and in a known warehouse, however imports of any number        *)
(* overlap and fail: import_snapshot writes the stocks and the record in   *)
(* one transaction, and takes a batch that is on record for an error.      *)
THEOREM StocksStayRecorded == Spec => []StocksAreRecorded
<1>1. StoreInv => StocksAreRecorded
  BY DEF StoreInv, SnapshotWhole, StocksAreRecorded, StocksOf
<1>2. QED
  BY <1>1, StoreAlways, PTL

(* `imported' and `duplicate' are answered only for a content that is      *)
(* recorded, and stays so.                                                 *)
THEOREM AnswersAreTrue == Spec => []AnswersTrue
<1>1. StoreInv => AnswersTrue
  BY DEF StoreInv
<1>2. QED
  BY <1>1, StoreAlways, PTL

(* A thread outside a transaction has no connection and no uncommitted     *)
(* row, and pc_running_ is true only while a puller is at work.            *)
THEOREM NoLeaseIsLeaked == Spec => []NothingIsLeaked
<1>1. StoreInv => NothingIsLeaked
  <2> SUFFICES ASSUME StoreInv PROVE NothingIsLeaked
    OBVIOUS
  <2>1. \A s \in Sessions : s \in leases \/ \A t \in Tables : Held(s, t) = {}
    BY DEF StoreInv, Leases, Idle, Held, KeysOf
  <2>2. \A s \in leases : Working(s)
    BY DEF StoreInv, TablesShape, Leases
  <2>3. QED
    BY <2>1, <2>2 DEF StoreInv, Leases, NothingIsLeaked
<1>2. QED
  BY <1>1, StoreAlways, PTL

-----------------------------------------------------------------------------
(* The counters and the flag.                                              *)
Counters ==
    /\ quota \in Nat /\ edits \in 0 .. MaxEdits
    /\ allowed \subseteq Warehouses
    /\ pcRunning \in BOOLEAN
    /\ changes \in 0 .. MaxChanges /\ crashes \in 0 .. MaxCrashes
    /\ crew \subseteq Sessions

LEMMA InitCounters == Init => Counters
<1> SUFFICES ASSUME Init PROVE Counters
  OBVIOUS
<1>1. PICK c \in Crews : crew = c.threads /\ quota = c.requests
  BY DEF Init
<1>2. crew \subseteq Sessions /\ quota \in Nat
  BY <1>1, StorageAssumption
<1>3. edits = 0 /\ allowed = {} /\ changes = 0 /\ crashes = 0
  BY DEF Init, ImportInit, CatalogInit
<1>4. edits \in 0 .. MaxEdits /\ changes \in 0 .. MaxChanges /\ crashes \in 0 .. MaxCrashes
  BY <1>3, StorageAssumption
<1>5. pcRunning \in BOOLEAN
  BY DEF Init, CatalogInit
<1>6. QED
  BY <1>2, <1>3, <1>4, <1>5 DEF Counters

LEMMA CountersStep == Counters /\ [Next]_vars => Counters'
<1> SUFFICES ASSUME Counters, [Next]_vars PROVE Counters'
  OBVIOUS
<1> USE StorageAssumption
<1>1. ASSUME NEW i \in Importers, ImporterMoves(i), Apart PROVE Counters'
  <2>1. UNCHANGED <<filters, puller, onec, crew, crashes>>
    BY <1>1 DEF Apart, ImporterMoves, ImportStep, Ask, Pull, Check, DeleteCosts, CostsDeleted,
            UpsertWarehouses, InsertStocks, PutCost, InsertSnapshot, CommitImport,
            CommitInDoubt, Committed, Imported, ImportRefused,
            ImportFails, Fail, Keep, filters
  <2>2. quota' \in Nat
    <3>1. CASE Ask(i)
      BY <3>1 DEF Ask, Counters
    <3>2. CASE ~Ask(i)
      BY <1>1, <3>2 DEF Counters, ImporterMoves, ImportStep, Pull, Check, DeleteCosts, CostsDeleted,
              UpsertWarehouses, InsertStocks, PutCost, InsertSnapshot, CommitImport,
            CommitInDoubt, Committed, Imported, ImportRefused,
              ImportFails, Fail, Keep
    <3>3. QED
      BY <3>1, <3>2
  <2>3. QED
    BY <2>1, <2>2 DEF Counters, filters, puller, onec
<1>2. ASSUME NEW p \in Pullers, PullerMoves(p), Alike PROVE Counters'
  <2>1. UNCHANGED <<quota, filters, changes, crew, crashes>>
    BY <1>2 DEF Alike, importer, PullerMoves, PullStep, StartHttp, TriggerProductCatalog, BeginPull,
            ReadPage, ReadTooMuch, DeleteProducts, ProductsDeleted, CopyProducts, CommitPull,
            PullRefused, PullBreaks, PullFails, onec
  <2>2. pcRunning' = pcRunning \/ pcRunning' \in BOOLEAN
    BY <1>2 DEF PullerMoves, PullStep, StartHttp, TriggerProductCatalog, BeginPull,
            ReadPage, ReadTooMuch, DeleteProducts, ProductsDeleted, CopyProducts, CommitPull,
            PullRefused, PullBreaks, PullFails, EndPull
  <2>3. QED
    BY <2>1, <2>2 DEF Counters, filters
<1>3. CASE EditAllowed /\ UNCHANGED <<puller, onec, crew, crashes>>
  BY <1>3 DEF EditAllowed, Counters, importer, puller, onec
<1>4. CASE OnecChanges /\ UNCHANGED <<importer, filters, crew, crashes>>
  BY <1>4 DEF OnecChanges, Counters, importer, filters, puller
<1>5. CASE Crash
  <2>1. UNCHANGED <<quota, edits, allowed, changes, crew>>
    BY <1>5 DEF Crash, ImportCrash, CatalogCrash, filters, onec
  <2>2. crashes' \in 0 .. MaxCrashes
    BY <1>5 DEF Crash, Counters
  <2>3. pcRunning' \in BOOLEAN
    BY <1>5 DEF Crash, CatalogCrash
  <2>4. QED
    BY <2>1, <2>2, <2>3 DEF Counters
<1>6. CASE UNCHANGED vars
  BY <1>6 DEF vars, Counters, importer, filters, puller, onec
<1>7. QED
  BY <1>1, <1>2, <1>3, <1>4, <1>5, <1>6 DEF Next, Apart, Alike

-----------------------------------------------------------------------------
(* The rows: every set of rows is a table, and so is what a statement      *)
(* makes of it.                                                            *)
TablesTyped ==
    /\ \A t \in Tables : IsTable(db[t])
    /\ \A s \in Sessions, t \in Tables : IsTable(ins[s][t]) /\ IsTable(del[s][t])

ThreadsTyped ==
    /\ \A i \in Importers :
         /\ req[i].batch \in Batches \cup {"none"} /\ AreTables(req[i].rows, ContentTables)
         /\ AreTables(seen[i], CostTables)
         /\ \A w \in todo[i] : \E t \in CostTables : AreTables(w, {t})
    /\ \A p \in Pullers : AreTables(sight[p], CatalogTables)

LEMMA OneRow == \A k, v : IsTable({Row(k, v)})
  BY DEF IsTable, Row

LEMMA RowsTyped == ASSUME NEW T, \A r \in T : \E k, v : r = Row(k, v) PROVE IsTable(T)
  BY DEF IsTable, Row

LEMMA PartTyped ==
    /\ \A S, T : IsTable(S) /\ T \subseteq S => IsTable(T)
    /\ \A S, T : IsTable(S) /\ IsTable(T) => IsTable(S \cup T)
    /\ \A S, keys : IsTable(S) => IsTable(Without(S, keys))
  BY DEF IsTable, Without

LEMMA StatementTyped ==
    ASSUME TablesShape, TablesTyped, NEW s \in Sessions, NEW w,
           \A t \in DOMAIN w : IsTable(w[t]),
           Insert(s, w) \/ Upsert(s, w) \/ Delete(s, w)
    PROVE  TablesTyped'
<1>1. CASE Insert(s, w) \/ Upsert(s, w)
  <2>1. Write(s, w) /\ db' = db /\ del' = del
    BY <1>1 DEF Insert, Upsert
  <2>2. \A t \in Tables : IsTable(ins'[s][t])
    <3>1. TAKE t \in Tables
    <3>2. IsTable(ins[s][t])
      BY DEF TablesTyped
    <3>3. CASE t \in DOMAIN w
      <4>1. IsTable(Without(ins[s][t], KeysOf(w[t]))) /\ IsTable(w[t])
        BY <3>2, <3>3, PartTyped
      <4>2. ins'[s][t] = Without(ins[s][t], KeysOf(w[t])) \cup w[t]
        BY <2>1, <3>3, WriteEffect
      <4>3. QED
        BY <4>1, <4>2, PartTyped
    <3>4. CASE t \notin DOMAIN w
      BY <2>1, <3>2, <3>4, WriteEffect
    <3>5. QED
      BY <3>3, <3>4
  <2>3. \A u \in Sessions \ {s} : ins'[u] = ins[u]
    BY <2>1, WriteEffect
  <2>4. QED
    BY <2>1, <2>2, <2>3 DEF TablesTyped
<1>2. CASE Delete(s, w)
  <2>1. \A t \in Tables : IsTable(del'[s][t])
    <3>1. TAKE t \in Tables
    <3>2. IsTable(del[s][t])
      BY DEF TablesTyped
    <3>3. del'[s][t] = IF t \in DOMAIN w THEN del[s][t] \cup w[t] ELSE del[s][t]
      BY <1>2, DeleteEffect
    <3>4. QED
      BY <3>2, <3>3, PartTyped
  <2>2. ins' = ins /\ db' = db /\ \A u \in Sessions \ {s} : del'[u] = del[u]
    BY <1>2, DeleteEffect
  <2>3. QED
    BY <2>1, <2>2 DEF TablesTyped
<1>3. QED
  BY <1>1, <1>2

LEMMA EndTyped ==
    ASSUME TablesShape, TablesTyped, NEW s \in Sessions, Commit(s) \/ Rollback(s)
    PROVE  TablesTyped'
<1>1. Forget(s)
  BY DEF Commit, Rollback
<1>2. /\ \A u \in Sessions \ {s} : ins'[u] = ins[u] /\ del'[u] = del[u]
      /\ \A t \in Tables : ins'[s][t] = {} /\ del'[s][t] = {}
  BY <1>1, ForgetEffect
<1>3. \A u \in Sessions, t \in Tables : IsTable(ins'[u][t]) /\ IsTable(del'[u][t])
  BY <1>2 DEF TablesTyped, IsTable
<1>4. \A t \in Tables : IsTable(Sees(s, t))
  BY DEF TablesTyped, IsTable, Sees, Without
<1>5. \A t \in Tables : IsTable(db'[t])
  BY <1>4 DEF Commit, Rollback, TablesTyped
<1>6. QED
  BY <1>3, <1>5 DEF TablesTyped

LEMMA SurvivorsTyped ==
    ASSUME TablesTyped, NEW s \in Sessions, NEW t \in Tables, NEW rows, IsTable(rows)
    PROVE  IsTable(Survivors(s, t, rows))
  BY DEF TablesTyped, IsTable, Survivors, Without

(* What the statements write.                                              *)
LEMMA ContentTyped == \A pull, filter : AreTables(PullToSnapshot(pull, filter), ContentTables)
<1> TAKE pull, filter
<1>1. DOMAIN PullToSnapshot(pull, filter) = ContentTables
  BY DEF PullToSnapshot, ContentTables, CostTables
<1>2. IsTable(PullToSnapshot(pull, filter)["warehouses"])
  BY DEF PullToSnapshot, IsTable, Row
<1>3. IsTable(SnapshotStocks(pull, filter))
  <2>1. \A r \in SnapshotStocks(pull, filter) : \E k, v : r = Row(k, v)
    BY Zenon DEF SnapshotStocks
  <2>2. QED
    BY <2>1, RowsTyped
<1>4. IsTable(BatchCosts(pull)) /\ IsTable(SupplierCosts(pull))
  BY DEF BatchCosts, SupplierCosts, IsTable, Row
<1>5. /\ PullToSnapshot(pull, filter)["stocks"] = SnapshotStocks(pull, filter)
      /\ PullToSnapshot(pull, filter)["batch_cost"] = BatchCosts(pull)
      /\ PullToSnapshot(pull, filter)["supplier_cost"] = SupplierCosts(pull)
  BY DEF PullToSnapshot
<1>6. QED
  BY <1>1, <1>2, <1>3, <1>4, <1>5 DEF AreTables, ContentTables, CostTables

LEMMA CostWritesTyped ==
    ASSUME NEW r, AreTables(r.rows, ContentTables)
    PROVE  \A w \in CostWrites(r) : \E t \in CostTables : AreTables(w, {t})
<1>1. IsTable(r.rows.batch_cost) /\ IsTable(r.rows.supplier_cost)
  BY DEF AreTables, ContentTables, CostTables
<1>2. ASSUME NEW x \in r.rows.batch_cost PROVE AreTables([batch_cost |-> {x}], {"batch_cost"})
  BY <1>1 DEF AreTables, IsTable
<1>3. ASSUME NEW x \in r.rows.supplier_cost
      PROVE  AreTables([supplier_cost |-> {x}], {"supplier_cost"})
  BY <1>1 DEF AreTables, IsTable
<1>4. QED
  BY <1>2, <1>3 DEF CostWrites, CostTables

LEMMA RecordsTyped == \A rows : AreTables(Normalize(rows), CatalogTables)
<1> TAKE rows
<1>1. IsTable(Normalize(rows)["ref"])
  <2>1. \A r \in Normalize(rows)["ref"] : \E k, v : r = Row(k, v)
    BY DEF Normalize
  <2>2. QED
    BY <2>1, RowsTyped
<1>2. IsTable(Normalize(rows)["code"])
  <2>1. \A r \in Normalize(rows)["code"] : \E k, v : r = Row(k, v)
    BY DEF Normalize
  <2>2. QED
    BY <2>1, RowsTyped
<1>3. QED
  BY <1>1, <1>2, RecordsShape DEF AreTables, CatalogTables

(* The connections: one more is leased where one is free.                  *)
LeasesFit == leases \subseteq Sessions /\ Cardinality(leases) <= PoolSize

LEMMA LeasesKept ==
    ASSUME LeasesFit, NEW s \in Sessions,
           leases' = leases \/ Acquire(s) \/ leases' = leases \ {s} \/ leases' = {}
    PROVE  LeasesFit'
<1>1. IsFiniteSet(leases) /\ Cardinality(leases) \in Nat
  BY SessionAssumption, FS_Subset, FS_CardinalityType DEF LeasesFit
<1>2. CASE leases' = leases
  BY <1>2 DEF LeasesFit
<1>3. CASE Acquire(s)
  <2>1. leases' = leases \cup {s} /\ Cardinality(leases) < PoolSize
    BY <1>3 DEF Acquire, HasConnection
  <2>2. Cardinality(leases') <= Cardinality(leases) + 1
    BY <1>1, <2>1, FS_AddElement
  <2>3. Cardinality(leases') \in Nat
    BY <1>1, <2>1, FS_AddElement
  <2>4. QED
    BY <1>1, <2>1, <2>2, <2>3, SessionAssumption DEF LeasesFit
<1>4. CASE leases' = leases \ {s}
  <2>1. leases' \in SUBSET leases
    BY <1>4
  <2>2. Cardinality(leases') <= Cardinality(leases) /\ IsFiniteSet(leases')
    BY <1>1, <2>1, FS_Subset
  <2>3. Cardinality(leases') \in Nat
    BY <2>2, FS_CardinalityType
  <2>4. QED
    BY <1>1, <2>1, <2>2, <2>3, SessionAssumption DEF LeasesFit
<1>5. CASE leases' = {}
  BY <1>5, FS_EmptySet, SessionAssumption DEF LeasesFit
<1>6. QED
  BY <1>2, <1>3, <1>4, <1>5

Typed == TablesTyped /\ ThreadsTyped /\ LeasesFit

LEMMA ImporterTables ==
    ASSUME StoreInv, Typed, NEW i \in Importers, ImporterMoves(i) PROVE TablesTyped'
<1> USE SessionFacts
<1>1. TablesShape /\ TablesTyped
  BY DEF StoreInv, Typed
<1>2. CASE Ask(i) \/ Pull(i) \/ Check(i) \/ DeleteCosts(i) \/ Imported(i)
  <2>1. UNCHANGED <<db, ins, del>>
    BY <1>2 DEF Ask, Pull, Check, DeleteCosts, Imported, tables
  <2>2. QED
    BY <1>1, <2>1 DEF TablesTyped
<1>3. CASE CostsDeleted(i)
  <2>1. Delete(i, seen[i]) /\ \A t \in DOMAIN seen[i] : IsTable(seen[i][t])
    BY <1>3 DEF CostsDeleted, Typed, ThreadsTyped, AreTables
  <2>2. QED
    BY <1>1, <2>1, StatementTyped
<1>4. CASE UpsertWarehouses(i)
  <2>1. Upsert(i, [warehouses |-> req[i].rows.warehouses]) /\ IsTable(req[i].rows.warehouses)
    BY <1>4 DEF UpsertWarehouses, Typed, ThreadsTyped, AreTables, ContentTables
  <2>2. QED
    BY <1>1, <2>1, StatementTyped
<1>5. CASE InsertStocks(i)
  <2>1. Insert(i, [stocks |-> StockRows(req[i])])
    BY <1>5 DEF InsertStocks, StocksWrite
  <2>2. IsTable(StockRows(req[i]))
    BY DEF StockRows, IsTable, Row
  <2>3. QED
    BY <1>1, <2>1, <2>2, StatementTyped
<1>6. CASE PutCost(i)
  <2>1. PICK w \in todo[i] : Upsert(i, w)
    BY <1>6 DEF PutCost
  <2>2. \A t \in DOMAIN w : IsTable(w[t])
    BY DEF Typed, ThreadsTyped, AreTables
  <2>3. QED
    BY <1>1, <2>1, <2>2, StatementTyped
<1>7. CASE InsertSnapshot(i)
  <2>1. Insert(i, [snapshots |-> {SnapshotRow(req[i])}])
    BY <1>7 DEF InsertSnapshot
  <2>2. IsTable({SnapshotRow(req[i])})
    BY OneRow DEF SnapshotRow
  <2>3. QED
    BY <1>1, <2>1, <2>2, StatementTyped
<1>8. CASE CommitImport(i) \/ CommitInDoubt(i) \/ ImportRefused(i) \/ ImportFails(i)
  <2>1. Commit(i) \/ Rollback(i)
    BY <1>8 DEF CommitImport, CommitInDoubt, Committed, ImportRefused, ImportFails, Fail
  <2>2. QED
    BY <1>1, <2>1, EndTyped
<1>9. QED
  BY <1>2, <1>3, <1>4, <1>5, <1>6, <1>7, <1>8 DEF ImporterMoves, ImportStep

LEMMA ImporterLeases ==
    ASSUME StoreInv, Typed, NEW i \in Importers, ImporterMoves(i) PROVE LeasesFit'
<1> USE SessionFacts
<1>1. CASE Ask(i) \/ Pull(i) \/ DeleteCosts(i) \/ Imported(i)
  BY <1>1, LeasesKept DEF Ask, Pull, DeleteCosts, Imported, tables, Typed
<1>2. CASE Check(i)
  BY <1>2, LeasesKept DEF Check, tables, Typed
<1>3. CASE CostsDeleted(i) \/ UpsertWarehouses(i) \/ InsertStocks(i) \/ PutCost(i) \/ InsertSnapshot(i)
  BY <1>3, LeasesKept DEF CostsDeleted, UpsertWarehouses, InsertStocks, PutCost, InsertSnapshot,
        Insert, Upsert, Delete, Typed
<1>4. CASE CommitImport(i) \/ CommitInDoubt(i) \/ ImportRefused(i) \/ ImportFails(i)
  BY <1>4, LeasesKept DEF CommitImport, CommitInDoubt, Committed, ImportRefused, ImportFails,
        Fail, Commit, Rollback, Forget, Typed
<1>5. QED
  BY <1>1, <1>2, <1>3, <1>4 DEF ImporterMoves, ImportStep

(* What a DELETE sees, and what a commit leaves of it.                     *)
LEMMA SeesTyped ==
    ASSUME TablesTyped, NEW s \in Sessions, NEW names, names \subseteq Tables
    PROVE  AreTables([t \in names |-> Sees(s, t)], names)
<1>1. \A t \in Tables : IsTable(Sees(s, t))
  BY DEF TablesTyped, IsTable, Sees, Without
<1>2. QED
  BY <1>1 DEF AreTables

LEMMA LeftTyped ==
    ASSUME TablesTyped, NEW s \in Sessions, NEW names, names \subseteq Tables,
           NEW f, AreTables(f, names)
    PROVE  AreTables([t \in names |-> Survivors(s, t, f[t])], names)
<1>1. \A t \in names : IsTable(Survivors(s, t, f[t]))
  BY SurvivorsTyped DEF AreTables
<1>2. QED
  BY <1>1 DEF AreTables

LEMMA NothingTyped ==
    AreTables(NothingSeen, CostTables) /\ AreTables(NoSight, CatalogTables)
  BY DEF AreTables, NothingSeen, NoSight, IsTable

LEMMA ImporterThreads ==
    ASSUME StoreInv, Typed, NEW i \in Importers, ImporterMoves(i), UNCHANGED puller
    PROVE  ThreadsTyped'
<1> USE SessionFacts
<1>1. /\ DOMAIN req = Importers /\ DOMAIN todo = Importers /\ DOMAIN seen = Importers
      /\ TablesTyped /\ ThreadsTyped
  BY DEF StoreInv, ThreadsShape, Typed
<1>2. \A p \in Pullers : AreTables(sight'[p], CatalogTables)
  BY <1>1 DEF puller, ThreadsTyped
<1>3. \A j \in Importers : req'[j].batch \in Batches \cup {"none"}
                            /\ AreTables(req'[j].rows, ContentTables)
  <2>1. CASE Pull(i)
    <3>1. CASE UNCHANGED req
      BY <1>1, <3>1 DEF ThreadsTyped
    <3>2. CASE ~ UNCHANGED req
      <4>1. PICK p \in Pulls, b \in Batches, filter \in {allowed, {}} :
               req' = [req EXCEPT ![i] =
                         [batch |-> b, rows |-> PullToSnapshot(PullOf(p, want[i]), filter)]]
        BY <2>1, <3>2 DEF Pull
      <4>2. AreTables(PullToSnapshot(PullOf(p, want[i]), filter), ContentTables)
        BY ContentTyped
      <4>3. req'[i].batch = b /\ AreTables(req'[i].rows, ContentTables)
        BY <1>1, <4>1, <4>2
      <4>4. \A j \in Importers \ {i} : req'[j] = req[j]
        BY <1>1, <4>1
      <4>5. QED
        BY <1>1, <4>3, <4>4 DEF ThreadsTyped
    <3>3. QED
      BY <3>1, <3>2
  <2>2. CASE ~Pull(i)
    <3>1. req' = req
      BY <2>2 DEF ImporterMoves, ImportStep, Ask, Check, DeleteCosts, CostsDeleted,
           UpsertWarehouses, InsertStocks, PutCost, InsertSnapshot, CommitImport, CommitInDoubt,
           Committed, Imported, ImportRefused, ImportFails, Fail
    <3>2. QED
      BY <1>1, <3>1 DEF ThreadsTyped
  <2>3. QED
    BY <2>1, <2>2
<1>4. \A j \in Importers : AreTables(seen'[j], CostTables)
  <2>1. CASE DeleteCosts(i)
    <3>1. AreTables([t \in CostTables |-> Sees(i, t)], CostTables)
      BY <1>1, SeesTyped DEF CostTables, Tables
    <3>2. seen' = [seen EXCEPT ![i] = [t \in CostTables |-> Sees(i, t)]]
      BY <2>1 DEF DeleteCosts
    <3>3. QED
      BY <1>1, <3>1, <3>2 DEF ThreadsTyped
  <2>2. CASE CommitImport(i) \/ CommitInDoubt(i)
    <3>1. \A j \in Importers : AreTables([t \in CostTables |-> Survivors(i, t, seen[j][t])], CostTables)
      BY <1>1, LeftTyped DEF ThreadsTyped, CostTables, Tables
    <3>2. seen' = [j \in Importers |-> [t \in CostTables |-> Survivors(i, t, seen[j][t])]]
      BY <2>2 DEF CommitImport, CommitInDoubt, Committed
    <3>3. QED
      BY <3>1, <3>2
  <2>3. CASE CostsDeleted(i) \/ ImportRefused(i) \/ ImportFails(i)
    <3>1. seen' = [seen EXCEPT ![i] = NothingSeen]
      BY <2>3 DEF CostsDeleted, ImportRefused, ImportFails, Fail
    <3>2. QED
      BY <1>1, <3>1, NothingTyped DEF ThreadsTyped
  <2>4. CASE \/ Ask(i) \/ Pull(i) \/ Check(i) \/ UpsertWarehouses(i) \/ InsertStocks(i)
             \/ PutCost(i) \/ InsertSnapshot(i) \/ Imported(i)
    <3>1. seen' = seen
      BY <2>4 DEF Ask, Pull, Check, UpsertWarehouses, InsertStocks, PutCost, InsertSnapshot, Imported
    <3>2. QED
      BY <1>1, <3>1 DEF ThreadsTyped
  <2>5. QED
    BY <2>1, <2>2, <2>3, <2>4 DEF ImporterMoves, ImportStep
<1>5. \A j \in Importers : \A w \in todo'[j] : \E t \in CostTables : AreTables(w, {t})
  <2>1. CASE InsertStocks(i)
    <3>1. \A w \in CostWrites(req[i]) : \E t \in CostTables : AreTables(w, {t})
      BY <1>1, CostWritesTyped DEF ThreadsTyped
    <3>2. todo' = [todo EXCEPT ![i] = CostWrites(req[i])]
      BY <2>1 DEF InsertStocks
    <3>3. QED
      BY <1>1, <3>1, <3>2 DEF ThreadsTyped
  <2>2. CASE PutCost(i) \/ ImportRefused(i) \/ ImportFails(i)
    <3>1. \A j \in Importers : todo'[j] \subseteq todo[j]
      BY <1>1, <2>2 DEF PutCost, ImportRefused, ImportFails, Fail
    <3>2. QED
      BY <1>1, <3>1 DEF ThreadsTyped
  <2>3. CASE \/ Ask(i) \/ Pull(i) \/ Check(i) \/ DeleteCosts(i) \/ CostsDeleted(i)
             \/ UpsertWarehouses(i) \/ InsertSnapshot(i) \/ CommitImport(i) \/ CommitInDoubt(i)
             \/ Imported(i)
    <3>1. todo' = todo
      BY <2>3 DEF Ask, Pull, Check, DeleteCosts, CostsDeleted, UpsertWarehouses, InsertSnapshot,
           CommitImport, CommitInDoubt, Committed, Imported
    <3>2. QED
      BY <1>1, <3>1 DEF ThreadsTyped
  <2>4. QED
    BY <2>1, <2>2, <2>3 DEF ImporterMoves, ImportStep
<1>6. QED
  BY <1>2, <1>3, <1>4, <1>5 DEF ThreadsTyped

LEMMA PullerTyped ==
    ASSUME StoreInv, Typed, NEW p \in Pullers, PullerMoves(p), Alike PROVE Typed'
<1> USE SessionFacts
<1>1. /\ TablesShape /\ TablesTyped /\ ThreadsTyped /\ LeasesFit
      /\ DOMAIN sight = Pullers /\ \A q \in Pullers : AreTables(sight[q], CatalogTables)
  BY DEF StoreInv, ThreadsShape, Typed, ThreadsTyped
<1>2. TablesTyped'
  <2>1. CASE \/ StartHttp(p) \/ TriggerProductCatalog(p) \/ BeginPull(p) \/ ReadPage(p)
             \/ DeleteProducts(p)
    <3>1. UNCHANGED <<db, ins, del>>
      BY <2>1 DEF StartHttp, TriggerProductCatalog, BeginPull, ReadPage, DeleteProducts, tables
    <3>2. QED
      BY <1>1, <3>1 DEF TablesTyped
  <2>2. CASE ProductsDeleted(p)
    <3>1. Delete(p, sight[p]) /\ \A t \in DOMAIN sight[p] : IsTable(sight[p][t])
      BY <1>1, <2>2 DEF ProductsDeleted, AreTables
    <3>2. QED
      BY <1>1, <3>1, StatementTyped
  <2>3. CASE CopyProducts(p)
    <3>1. Insert(p, Records(p))
      BY <2>3 DEF CopyProducts
    <3>2. AreTables(Records(p), CatalogTables)
      BY RecordsTyped DEF Records
    <3>3. \A t \in DOMAIN Records(p) : IsTable(Records(p)[t])
      BY <3>2 DEF AreTables
    <3>4. QED
      BY <1>1, <3>1, <3>3, StatementTyped
  <2>4. CASE ReadTooMuch(p) \/ CommitPull(p) \/ PullRefused(p) \/ PullBreaks(p)
    <3>1. Commit(p) \/ Rollback(p)
      BY <2>4 DEF ReadTooMuch, CommitPull, PullRefused, PullBreaks, PullFails
    <3>2. QED
      BY <1>1, <3>1, EndTyped
  <2>5. QED
    BY <2>1, <2>2, <2>3, <2>4 DEF PullerMoves, PullStep
<1>3. \A q \in Pullers : AreTables(sight'[q], CatalogTables)
  <2>1. CASE DeleteProducts(p)
    <3>1. AreTables([t \in CatalogTables |-> Sees(p, t)], CatalogTables)
      BY <1>1, SeesTyped DEF CatalogTables, Tables
    <3>2. sight' = [sight EXCEPT ![p] = [t \in CatalogTables |-> Sees(p, t)]]
      BY <2>1 DEF DeleteProducts
    <3>3. QED
      BY <1>1, <3>1, <3>2
  <2>2. CASE CommitPull(p)
    <3>1. \A q \in Pullers :
             AreTables([t \in CatalogTables |-> Survivors(p, t, sight[q][t])], CatalogTables)
      BY <1>1, LeftTyped DEF CatalogTables, Tables
    <3>2. sight' = [q \in Pullers |-> [t \in CatalogTables |-> Survivors(p, t, sight[q][t])]]
      BY <2>2 DEF CommitPull
    <3>3. QED
      BY <3>1, <3>2
  <2>3. CASE ProductsDeleted(p) \/ PullRefused(p) \/ PullBreaks(p)
    <3>1. sight' = [sight EXCEPT ![p] = NoSight]
      BY <2>3 DEF ProductsDeleted, PullRefused, PullBreaks, PullFails
    <3>2. QED
      BY <1>1, <3>1, NothingTyped
  <2>4. CASE \/ StartHttp(p) \/ TriggerProductCatalog(p) \/ BeginPull(p) \/ ReadPage(p)
             \/ ReadTooMuch(p) \/ CopyProducts(p)
    <3>1. sight' = sight
      BY <2>4 DEF StartHttp, TriggerProductCatalog, BeginPull, ReadPage, ReadTooMuch, CopyProducts
    <3>2. QED
      BY <1>1, <3>1
  <2>5. QED
    BY <2>1, <2>2, <2>3, <2>4 DEF PullerMoves, PullStep
<1>4. LeasesFit'
  <2>1. CASE \/ StartHttp(p) \/ TriggerProductCatalog(p) \/ BeginPull(p) \/ ReadPage(p)
             \/ DeleteProducts(p)
    BY <1>1, <2>1, LeasesKept
       DEF StartHttp, TriggerProductCatalog, BeginPull, ReadPage, DeleteProducts, tables
  <2>2. CASE ProductsDeleted(p) \/ CopyProducts(p)
    BY <1>1, <2>2, LeasesKept DEF ProductsDeleted, CopyProducts, Insert, Delete
  <2>3. CASE ReadTooMuch(p) \/ CommitPull(p) \/ PullRefused(p) \/ PullBreaks(p)
    BY <1>1, <2>3, LeasesKept
       DEF ReadTooMuch, CommitPull, PullRefused, PullBreaks, PullFails, Commit, Rollback, Forget
  <2>4. QED
    BY <2>1, <2>2, <2>3 DEF PullerMoves, PullStep
<1>5. UNCHANGED <<req, seen, todo>>
  BY DEF Alike, importer
<1>6. ThreadsTyped'
  BY <1>1, <1>3, <1>5 DEF ThreadsTyped
<1>7. QED
  BY <1>2, <1>4, <1>6 DEF Typed

LEMMA InitTyped == Init => Typed
<1> SUFFICES ASSUME Init PROVE Typed
  OBVIOUS
<1>1. PICK c \in FirstKeys : db = [t \in Tables |-> IF t \in CatalogTables THEN c[t] ELSE {}]
  BY DEF Init
<1>2. \A t \in Tables : IsTable(db[t])
  <2>1. TAKE t \in Tables
  <2>2. CASE t \in CatalogTables
    BY <1>1, <2>2, StorageAssumption
  <2>3. CASE t \notin CatalogTables
    BY <1>1, <2>3 DEF IsTable
  <2>4. QED
    BY <2>2, <2>3
<1>3. TablesTyped
  BY <1>2 DEF TablesTyped, Init, DbInit, NoRows, IsTable
<1>4. ThreadsTyped
  <2>1. /\ \A i \in Importers : req[i] = NoRequest /\ seen[i] = NothingSeen /\ todo[i] = {}
        /\ \A p \in Pullers : sight[p] = NoSight
    BY DEF Init, ImportInit, CatalogInit
  <2>2. NoRequest.batch = "none" /\ AreTables(NoRequest.rows, ContentTables)
    BY DEF NoRequest, AreTables, IsTable
  <2>3. QED
    BY <2>1, <2>2, NothingTyped DEF ThreadsTyped
<1>5. LeasesFit
  BY FS_EmptySet, SessionAssumption DEF LeasesFit, Init, DbInit
<1>6. QED
  BY <1>3, <1>4, <1>5 DEF Typed

LEMMA TypedStep == StoreInv /\ Typed /\ [Next]_vars => Typed'
<1> SUFFICES ASSUME StoreInv, Typed, [Next]_vars PROVE Typed'
  OBVIOUS
<1> USE SessionFacts
<1>1. ASSUME NEW i \in Importers, ImporterMoves(i), Apart PROVE Typed'
  BY <1>1, ImporterTables, ImporterLeases, ImporterThreads DEF Typed, Apart
<1>2. ASSUME NEW p \in Pullers, PullerMoves(p), Alike PROVE Typed'
  BY <1>2, PullerTyped
<1>3. ASSUME UNCHANGED <<tables, req, seen, todo, sight>> PROVE Typed'
  BY <1>3 DEF Typed, TablesTyped, ThreadsTyped, LeasesFit, tables
<1>4. CASE EditAllowed /\ UNCHANGED <<puller, onec, crew, crashes>>
  BY <1>3, <1>4 DEF EditAllowed, importer, puller
<1>5. CASE OnecChanges /\ UNCHANGED <<importer, filters, crew, crashes>>
  BY <1>3, <1>5 DEF OnecChanges, importer, puller
<1>6. CASE Crash
  <2>1. TablesTyped'
    BY <1>6 DEF Crash, DbCrash, NoRows, Typed, TablesTyped, IsTable
  <2>2. /\ req' = req /\ \A i \in Importers : seen'[i] = NothingSeen /\ todo'[i] = {}
        /\ \A p \in Pullers : sight'[p] = NoSight
    BY <1>6 DEF Crash, ImportCrash, CatalogCrash
  <2>3. ThreadsTyped'
    BY <2>2, NothingTyped DEF Typed, ThreadsTyped
  <2>4. LeasesFit'
    BY <1>6, FS_EmptySet, SessionAssumption DEF LeasesFit, Crash, DbCrash
  <2>5. QED
    BY <2>1, <2>3, <2>4 DEF Typed
<1>7. CASE UNCHANGED vars
  BY <1>3, <1>7 DEF vars, importer, puller
<1>8. QED
  BY <1>1, <1>2, <1>4, <1>5, <1>6, <1>7 DEF Next, Apart, Alike

(* Every variable keeps its type.                                          *)
THEOREM StorageTypeCorrect == Spec => []TypeOK
<1>1. StoreInv /\ Counters /\ Typed => TypeOK
  <2>1. StoreInv /\ TablesTyped => /\ AreTables(db, Tables)
                                  /\ \A s \in Sessions : AreTables(ins[s], Tables)
                                                         /\ AreTables(del[s], Tables)
    BY DEF StoreInv, TablesShape, TablesTyped, AreTables
  <2>2. QED
    BY <2>1 DEF StoreInv, ThreadsShape, Replies, Counters, Typed, ThreadsTyped, LeasesFit, TypeOK
<1>2. Spec => []Counters
  BY InitCounters, CountersStep, PTL DEF Spec
<1>3. Spec => []Typed
  BY InitTyped, TypedStep, StoreAlways, PTL DEF Spec
<1>4. QED
  BY <1>1, <1>2, <1>3, StoreAlways, PTL

-----------------------------------------------------------------------------
(* The catalogue.  A puller that has deleted has deleted every row there   *)
(* is, or none, as one that committed after its DELETE had started has     *)
(* taken them all; in that case the unique keys refuse what it inserts.    *)
Nothing(f) == \A t \in CatalogTables : f[t] = {}
Everything(f) == \A t \in CatalogTables : f[t] = db[t]
Replaced == {"copy", "commit"}

Written(p) ==
    /\ place[p] \notin Replaced => Nothing(del[p])
    /\ place[p] # "commit" => Nothing(ins[p])
    /\ place[p] = "commit" => \A t \in CatalogTables : ins[p][t] = Records(p)[t]

AllOrNothing(p) ==
    /\ place[p] = "deleting" => Everything(sight[p]) \/ Nothing(sight[p])
    /\ place[p] \in Replaced => Everything(del[p]) \/ Nothing(del[p])
    /\ place[p] = "commit" /\ Nothing(del[p]) =>
         \A t \in CatalogTables : KeysOf(ins[p][t]) \cap KeysOf(db[t]) = {}

Exclusive(p, q) ==
    \A t \in CatalogTables : /\ KeysOf(ins[p][t]) \cap KeysOf(ins[q][t]) = {}
                             /\ del[p][t] \cap del[q][t] = {}

CatalogInv ==
    /\ \A i \in Importers : Nothing(ins[i]) /\ Nothing(del[i])
    /\ DOMAIN got = Pullers
    /\ \A p \in Pullers : Written(p)
    /\ \A p, q \in Pullers : p # q => Exclusive(p, q)
    /\ Strangers \/ (Current \in published /\ \A p \in Pullers : AllOrNothing(p))

(* A step of one puller that commits nothing.                              *)
LEMMA CatalogQuiet ==
    ASSUME CatalogInv, NEW p \in Pullers, UNCHANGED <<db, published>>, DOMAIN got' = Pullers,
           \A u \in Sessions \ {p} : ins'[u] = ins[u] /\ del'[u] = del[u],
           \A q \in Pullers \ {p} : place'[q] = place[q] /\ sight'[q] = sight[q] /\ got'[q] = got[q],
           Written(p)', \A q \in Pullers \ {p} : Exclusive(p, q)',
           Strangers \/ AllOrNothing(p)'
    PROVE  CatalogInv'
<1> USE SessionFacts
<1>1. \A i \in Importers : (Nothing(ins[i]) /\ Nothing(del[i]))'
  BY DEF CatalogInv, Nothing
<1>2. \A q \in Pullers \ {p} : Written(q)'
  <2>1. SUFFICES ASSUME NEW q \in Pullers \ {p} PROVE Written(q)'
    OBVIOUS
  <2>2. /\ ins'[q] = ins[q] /\ del'[q] = del[q] /\ place'[q] = place[q] /\ got'[q] = got[q]
        /\ Written(q)
    BY DEF CatalogInv
  <2>3. Records(q)' = Records(q)
    BY <2>2 DEF Records
  <2>4. QED
    BY <2>2, <2>3 DEF Written, Nothing
<1>3. \A q, r \in Pullers : q # r => Exclusive(q, r)'
  <2>1. SUFFICES ASSUME NEW q \in Pullers, NEW r \in Pullers, q # r PROVE Exclusive(q, r)'
    OBVIOUS
  <2>2. CASE q = p
    BY <2>1, <2>2
  <2>3. CASE r = p
    BY <2>1, <2>3 DEF Exclusive
  <2>4. CASE q # p /\ r # p
    BY <2>1, <2>4 DEF CatalogInv, Exclusive
  <2>5. QED
    BY <2>2, <2>3, <2>4
<1>4. Strangers' <=> Strangers
  BY DEF Strangers
<1>5. Current' = Current
  BY DEF Current
<1>6. ASSUME ~Strangers, NEW q \in Pullers \ {p} PROVE AllOrNothing(q)'
  <2>1. /\ ins'[q] = ins[q] /\ del'[q] = del[q] /\ place'[q] = place[q] /\ sight'[q] = sight[q]
        /\ AllOrNothing(q)
    BY <1>6 DEF CatalogInv
  <2>2. QED
    BY <2>1 DEF AllOrNothing, Everything, Nothing
<1>7. QED
  BY <1>1, <1>2, <1>3, <1>4, <1>5, <1>6 DEF CatalogInv

(* A step that no puller takes part in.                                    *)
LEMMA CatalogAside ==
    ASSUME CatalogInv, UNCHANGED <<place, sight, got, published>>,
           \A t \in CatalogTables : db'[t] = db[t],
           \A p \in Pullers : ins'[p] = ins[p] /\ del'[p] = del[p],
           \A i \in Importers : (Nothing(ins[i]) /\ Nothing(del[i]))'
    PROVE  CatalogInv'
<1>1. \A p \in Pullers : Written(p)'
  <2>1. SUFFICES ASSUME NEW p \in Pullers PROVE Written(p)'
    OBVIOUS
  <2>2. Records(p)' = Records(p) /\ Written(p)
    BY DEF Records, CatalogInv
  <2>3. QED
    BY <2>2 DEF Written, Nothing
<1>2. \A p, q \in Pullers : p # q => Exclusive(p, q)'
  BY DEF CatalogInv, Exclusive
<1>3. Strangers' <=> Strangers
  BY DEF Strangers
<1>4. Current' = Current
  BY DEF Current
<1>5. ASSUME ~Strangers, NEW p \in Pullers PROVE AllOrNothing(p)'
  BY <1>5 DEF CatalogInv, AllOrNothing, Everything, Nothing
<1>6. QED
  BY <1>1, <1>2, <1>3, <1>4, <1>5 DEF CatalogInv

(* An importer leaves the tables of the catalogue alone.                   *)
LEMMA CatalogWrite ==
    ASSUME StoreInv, CatalogInv, NEW i \in Importers, NEW w, Write(i, w), UNCHANGED <<db, del>>,
           \A t \in CatalogTables : t \notin DOMAIN w, UNCHANGED puller
    PROVE  CatalogInv'
<1> USE SessionFacts
<1>1. /\ \A u \in Sessions \ {i} : ins'[u] = ins[u]
      /\ \A t \in CatalogTables : ins'[i][t] = ins[i][t]
  BY WriteEffect DEF StoreInv
<1>2. \A j \in Importers : (Nothing(ins[j]) /\ Nothing(del[j]))'
  BY <1>1 DEF CatalogInv, Nothing
<1>3. QED
  BY <1>1, <1>2, CatalogAside DEF puller

LEMMA CatalogImporters ==
    ASSUME StoreInv, CatalogInv, NEW i \in Importers, ImporterMoves(i), UNCHANGED puller
    PROVE  CatalogInv'
<1> USE SessionFacts
<1>1. CASE UNCHANGED <<db, ins, del>>
  <2>1. \A j \in Importers : (Nothing(ins[j]) /\ Nothing(del[j]))'
    BY <1>1 DEF CatalogInv, Nothing
  <2>2. QED
    BY <1>1, <2>1, CatalogAside DEF puller
<1>2. CASE Ask(i) \/ Pull(i) \/ Check(i) \/ DeleteCosts(i) \/ Imported(i)
  BY <1>1, <1>2 DEF Ask, Pull, Check, DeleteCosts, Imported, Acquire, tables
<1>3. CASE CostsDeleted(i)
  <2>1. Delete(i, seen[i]) /\ DOMAIN seen[i] = CostTables
    BY <1>3 DEF CostsDeleted, StoreInv, ThreadsShape
  <2>2. /\ \A u \in Sessions \ {i} : del'[u] = del[u]
        /\ \A t \in CatalogTables : del'[i][t] = del[i][t]
        /\ UNCHANGED <<db, ins>>
    BY <2>1, DeleteEffect DEF StoreInv, CostTables, CatalogTables
  <2>3. \A j \in Importers : (Nothing(ins[j]) /\ Nothing(del[j]))'
    BY <2>2 DEF CatalogInv, Nothing
  <2>4. QED
    BY <2>2, <2>3, CatalogAside DEF puller
<1>4. CASE UpsertWarehouses(i)
  <2> DEFINE w == [warehouses |-> req[i].rows.warehouses]
  <2>1. Write(i, w) /\ UNCHANGED <<db, del>>
    BY <1>4 DEF UpsertWarehouses, Upsert
  <2>2. \A t \in CatalogTables : t \notin DOMAIN w
    BY DEF CatalogTables
  <2> HIDE DEF w
  <2>3. QED
    BY <2>1, <2>2, CatalogWrite
<1>5. CASE InsertStocks(i)
  <2>1. Write(i, StocksWrite(i)) /\ UNCHANGED <<db, del>>
    BY <1>5 DEF InsertStocks, Insert
  <2>2. \A t \in CatalogTables : t \notin DOMAIN StocksWrite(i)
    BY DEF CatalogTables, StocksWrite
  <2>3. QED
    BY <2>1, <2>2, CatalogWrite
<1>6. CASE PutCost(i)
  <2>1. PICK w \in todo[i] : Write(i, w) /\ UNCHANGED <<db, del>>
    BY <1>6 DEF PutCost, Upsert
  <2>2. \A t \in CatalogTables : t \notin DOMAIN w
    BY <2>1 DEF CatalogTables, CostTables, StoreInv, ThreadsShape
  <2>3. QED
    BY <2>1, <2>2, CatalogWrite
<1>7. CASE InsertSnapshot(i)
  <2> DEFINE w == [snapshots |-> {SnapshotRow(req[i])}]
  <2>1. Write(i, w) /\ UNCHANGED <<db, del>>
    BY <1>7 DEF InsertSnapshot, Insert
  <2>2. \A t \in CatalogTables : t \notin DOMAIN w
    BY DEF CatalogTables
  <2> HIDE DEF w
  <2>3. QED
    BY <2>1, <2>2, CatalogWrite
<1>8. CASE CommitImport(i) \/ CommitInDoubt(i) \/ ImportRefused(i) \/ ImportFails(i)
  <2>1. Forget(i) /\ (db' = db \/ db' = [t \in Tables |-> Sees(i, t)])
    BY <1>8 DEF CommitImport, CommitInDoubt, Committed, Commit, ImportRefused, ImportFails, Fail,
            Rollback
  <2>2. /\ \A u \in Sessions \ {i} : ins'[u] = ins[u] /\ del'[u] = del[u]
        /\ \A t \in Tables : ins'[i][t] = {} /\ del'[i][t] = {}
    BY <2>1, ForgetEffect DEF StoreInv
  <2>3. \A t \in CatalogTables : Sees(i, t) = db[t]
    BY DEF CatalogInv, Nothing, Sees, Without, KeysOf
  <2>4. \A t \in CatalogTables : db'[t] = db[t]
    BY <2>1, <2>3
  <2>5. \A j \in Importers : (Nothing(ins[j]) /\ Nothing(del[j]))'
    BY <2>2 DEF CatalogInv, Nothing
  <2>6. QED
    BY <2>2, <2>4, <2>5, CatalogAside DEF puller
<1>9. QED
  BY <1>2, <1>3, <1>4, <1>5, <1>6, <1>7, <1>8 DEF ImporterMoves, ImportStep

(* The steps of a puller that write nothing.                               *)
LEMMA CatalogTurns ==
    ASSUME StoreInv, CatalogInv, NEW p \in Pullers,
           \/ StartHttp(p) \/ TriggerProductCatalog(p) \/ BeginPull(p) \/ ReadPage(p)
           \/ DeleteProducts(p)
    PROVE  CatalogInv'
<1> USE SessionFacts
<1>1. UNCHANGED <<db, ins, del, published>>
  BY DEF StartHttp, TriggerProductCatalog, BeginPull, ReadPage, DeleteProducts, tables
<1>2. DOMAIN got' = Pullers
  BY DEF CatalogInv, StartHttp, TriggerProductCatalog, BeginPull, ReadPage, DeleteProducts
<1>3. \A q \in Pullers \ {p} : place'[q] = place[q] /\ got'[q] = got[q]
  BY DEF StoreInv, ThreadsShape, CatalogInv, StartHttp, TriggerProductCatalog, BeginPull, ReadPage,
         DeleteProducts, Move
<1>4. \A q \in Pullers \ {p} : sight'[q] = sight[q]
  BY DEF StoreInv, ThreadsShape, StartHttp, TriggerProductCatalog, BeginPull, ReadPage,
         DeleteProducts
<1>5. place[p] \notin Replaced /\ place'[p] \notin Replaced
  BY DEF StoreInv, ThreadsShape, StartHttp, TriggerProductCatalog, BeginPull, ReadPage,
         DeleteProducts, Move, Replaced
<1>6. Nothing(del[p]) /\ Nothing(ins[p])
  BY <1>5 DEF CatalogInv, Written, Replaced
<1>7. Written(p)'
  BY <1>1, <1>5, <1>6 DEF Written, Replaced, Nothing
<1>8. \A q \in Pullers \ {p} : Exclusive(p, q)'
  BY <1>1 DEF CatalogInv, Exclusive
<1>9. place'[p] = "deleting" => Everything(sight[p])'
  <2>1. CASE DeleteProducts(p)
    <3>1. sight'[p] = [t \in CatalogTables |-> Sees(p, t)]
      BY <2>1 DEF DeleteProducts, StoreInv, ThreadsShape
    <3>2. \A t \in CatalogTables : Sees(p, t) = db[t]
      BY <1>6 DEF Nothing, Sees, Without, KeysOf
    <3>3. QED
      BY <1>1, <3>1, <3>2 DEF Everything
  <2>2. CASE ~DeleteProducts(p)
    BY <2>2 DEF StoreInv, ThreadsShape, StartHttp, TriggerProductCatalog, BeginPull, ReadPage, Move
  <2>3. QED
    BY <2>1, <2>2
<1>10. AllOrNothing(p)'
  BY <1>5, <1>9 DEF AllOrNothing, Replaced
<1>11. QED
  BY <1>1, <1>2, <1>3, <1>4, <1>7, <1>8, <1>10, CatalogQuiet

(* The DELETE ends: it takes all the rows there are, or none is left of    *)
(* those it saw.                                                           *)
LEMMA CatalogDeleted ==
    ASSUME StoreInv, CatalogInv, NEW p \in Pullers, ProductsDeleted(p) PROVE CatalogInv'
<1> USE SessionFacts
<1>1. Delete(p, sight[p]) /\ DOMAIN sight[p] = CatalogTables
  BY DEF ProductsDeleted, StoreInv, ThreadsShape
<1>2. /\ \A u \in Sessions \ {p} : del'[u] = del[u]
      /\ \A t \in CatalogTables : del'[p][t] = del[p][t] \cup sight[p][t]
      /\ UNCHANGED <<db, ins, got, published>>
  BY <1>1, DeleteEffect DEF StoreInv, ProductsDeleted
<1>3. /\ place[p] = "deleting" /\ place'[p] = "copy"
      /\ \A q \in Pullers \ {p} : place'[q] = place[q] /\ sight'[q] = sight[q]
  BY DEF StoreInv, ThreadsShape, ProductsDeleted, Move
<1>4. Nothing(del[p]) /\ Nothing(ins[p])
  BY <1>3 DEF CatalogInv, Written, Replaced
<1>5. \A t \in CatalogTables : del'[p][t] = sight[p][t]
  BY <1>2, <1>4 DEF Nothing
<1>6. Written(p)'
  BY <1>2, <1>3, <1>4 DEF Written, Replaced, Nothing
<1>7. \A q \in Pullers \ {p} : Exclusive(p, q)'
  <2>1. SUFFICES ASSUME NEW q \in Pullers \ {p}, NEW t \in CatalogTables
                 PROVE  del'[p][t] \cap del[q][t] = {}
    BY <1>2, <1>4 DEF CatalogInv, Exclusive
  <2>2. KeysOf(sight[p][t]) \cap Held(q, t) = {}
    BY <1>1 DEF Delete, Free
  <2>3. QED
    BY <1>5, <2>2 DEF Held, KeysOf
<1>8. Strangers \/ AllOrNothing(p)'
  <2>1. ASSUME ~Strangers PROVE Everything(sight[p]) \/ Nothing(sight[p])
    BY <1>3, <2>1 DEF CatalogInv, AllOrNothing
  <2>2. ASSUME ~Strangers PROVE Everything(del[p])' \/ Nothing(del[p])'
    BY <1>2, <1>5, <2>1, <2>2 DEF Everything, Nothing
  <2>3. QED
    BY <1>3, <2>2 DEF AllOrNothing, Replaced
<1>9. QED
  BY <1>2, <1>3, <1>6, <1>7, <1>8, CatalogQuiet DEF CatalogInv

(* The COPY: none of its keys is there, or inserted by another puller.     *)
LEMMA CatalogCopied ==
    ASSUME StoreInv, CatalogInv, NEW p \in Pullers, CopyProducts(p) PROVE CatalogInv'
<1> USE SessionFacts
<1>1. /\ Free(p, Records(p)) /\ ~Clashes(p, Records(p)) /\ Write(p, Records(p))
      /\ UNCHANGED <<db, del, got, sight, published>>
  BY DEF CopyProducts, Insert
<1>2. DOMAIN Records(p) = CatalogTables
  BY RecordsShape DEF Records
<1>3. /\ place[p] = "copy" /\ place'[p] = "commit"
      /\ \A q \in Pullers \ {p} : place'[q] = place[q]
  BY DEF StoreInv, ThreadsShape, CopyProducts, Move
<1>4. Nothing(ins[p])
  BY <1>3 DEF CatalogInv, Written
<1>5. /\ \A u \in Sessions \ {p} : ins'[u] = ins[u]
      /\ \A t \in CatalogTables :
           ins'[p][t] = Without(ins[p][t], KeysOf(Records(p)[t])) \cup Records(p)[t]
  BY <1>1, <1>2, WriteEffect DEF StoreInv
<1>6. \A t \in CatalogTables : ins'[p][t] = Records(p)[t]
  BY <1>4, <1>5 DEF Nothing, Without
<1>7. Records(p)' = Records(p)
  BY <1>1 DEF Records
<1>8. Written(p)'
  BY <1>3, <1>6, <1>7 DEF Written, Replaced
<1>9. \A q \in Pullers \ {p} : Exclusive(p, q)'
  <2>1. SUFFICES ASSUME NEW q \in Pullers \ {p}, NEW t \in CatalogTables
                 PROVE  KeysOf(ins'[p][t]) \cap KeysOf(ins[q][t]) = {}
    BY <1>1, <1>5 DEF CatalogInv, Exclusive
  <2>2. KeysOf(Records(p)[t]) \cap Held(q, t) = {}
    BY <1>1, <1>2 DEF Free
  <2>3. QED
    BY <1>6, <2>2 DEF Held
<1>10. ASSUME Nothing(del[p]), NEW t \in CatalogTables
       PROVE  KeysOf(ins'[p][t]) \cap KeysOf(db[t]) = {}
  <2>1. Sees(p, t) = db[t]
    BY <1>4, <1>10 DEF Nothing, Sees, Without, KeysOf
  <2>2. KeysOf(Records(p)[t]) \cap KeysOf(Sees(p, t)) = {}
    BY <1>1, <1>2 DEF Clashes
  <2>3. QED
    BY <1>6, <2>1, <2>2
<1>11. Strangers \/ AllOrNothing(p)'
  <2>1. ASSUME ~Strangers PROVE Everything(del[p]) \/ Nothing(del[p])
    BY <1>3, <2>1 DEF CatalogInv, AllOrNothing, Replaced
  <2>2. (Everything(del[p])' <=> Everything(del[p])) /\ (Nothing(del[p])' <=> Nothing(del[p]))
    BY <1>1 DEF Everything, Nothing
  <2>3. Nothing(del[p]) => \A t \in CatalogTables : KeysOf(ins'[p][t]) \cap KeysOf(db'[t]) = {}
    BY <1>1, <1>10
  <2>4. KeysOf(ins[p])' = KeysOf(ins'[p])
    BY DEF KeysOf
  <2>5. QED
    BY <1>3, <2>1, <2>2, <2>3 DEF AllOrNothing, KeysOf
<1>12. QED
  BY <1>1, <1>3, <1>5, <1>8, <1>9, <1>11, CatalogQuiet DEF CatalogInv

LEMMA CatalogUndone ==
    ASSUME StoreInv, CatalogInv, NEW p \in Pullers,
           ReadTooMuch(p) \/ PullRefused(p) \/ PullBreaks(p)
    PROVE  CatalogInv'
<1> USE SessionFacts
<1>1. Forget(p) /\ UNCHANGED <<db, published>> /\ EndPull(p, "failed")
  BY DEF ReadTooMuch, PullRefused, PullBreaks, PullFails, Rollback
<1>2. /\ \A u \in Sessions \ {p} : ins'[u] = ins[u] /\ del'[u] = del[u]
      /\ \A t \in Tables : ins'[p][t] = {} /\ del'[p][t] = {}
  BY <1>1, ForgetEffect DEF StoreInv
<1>3. place'[p] = "failed" /\ \A q \in Pullers \ {p} : place'[q] = place[q]
  BY <1>1 DEF StoreInv, ThreadsShape, EndPull, Move
<1>4. DOMAIN got' = Pullers /\ \A q \in Pullers \ {p} : got'[q] = got[q] /\ sight'[q] = sight[q]
  BY DEF CatalogInv, StoreInv, ThreadsShape, ReadTooMuch, PullRefused, PullBreaks, PullFails
<1>5. Nothing(ins[p])' /\ Nothing(del[p])'
  BY <1>2 DEF Nothing
<1>6. Written(p)' /\ AllOrNothing(p)'
  BY <1>3, <1>5 DEF Written, AllOrNothing, Replaced
<1>7. \A q \in Pullers \ {p} : Exclusive(p, q)'
  BY <1>2 DEF Exclusive, KeysOf
<1>8. QED
  BY <1>1, <1>2, <1>3, <1>4, <1>6, <1>7, CatalogQuiet

LEMMA RecordsAreTables ==
    \A rows : Normalize(rows) = [t \in CatalogTables |-> Normalize(rows)[t]]
  BY DEF Normalize, CatalogTables

(* The commit.  The rows it publishes take the place of those that were    *)
(* there, or stand beside them: then one of the two readings is empty, or  *)
(* they are strangers.                                                     *)
LEMMA CatalogCommitted ==
    ASSUME StoreInv, CatalogInv, NEW p \in Pullers, CommitPull(p) PROVE CatalogInv'
<1> USE SessionFacts
<1>1. /\ Forget(p) /\ db' = [t \in Tables |-> Sees(p, t)] /\ got' = got
      /\ EndPull(p, "done") \/ EndPull(p, "failed")
      /\ sight' = [q \in Pullers |-> [t \in CatalogTables |-> Survivors(p, t, sight[q][t])]]
      /\ published' = published \cup {Records(p)}
  BY DEF CommitPull, Commit
<1>2. /\ place[p] = "commit" /\ place'[p] \in {"done", "failed"}
      /\ \A q \in Pullers \ {p} : place'[q] = place[q]
  BY <1>1 DEF StoreInv, ThreadsShape, EndPull, Move, CommitPull
<1>3. /\ \A u \in Sessions \ {p} : ins'[u] = ins[u] /\ del'[u] = del[u]
      /\ \A t \in Tables : ins'[p][t] = {} /\ del'[p][t] = {}
  BY <1>1, ForgetEffect DEF StoreInv
<1>4. Nothing(ins[p])' /\ Nothing(del[p])'
  BY <1>3 DEF Nothing
<1>5. \A i \in Importers : (Nothing(ins[i]) /\ Nothing(del[i]))'
  BY <1>3 DEF CatalogInv, Nothing
<1>6. \A q \in Pullers : Written(q)'
  <2>1. SUFFICES ASSUME NEW q \in Pullers PROVE Written(q)'
    OBVIOUS
  <2>2. CASE q = p
    BY <1>2, <1>4, <2>2 DEF Written, Replaced
  <2>3. CASE q # p
    <3>1. /\ ins'[q] = ins[q] /\ del'[q] = del[q] /\ place'[q] = place[q]
          /\ Written(q)
      BY <1>2, <1>3, <2>3 DEF CatalogInv
    <3>2. Records(q)' = Records(q)
      BY <1>1 DEF Records
    <3>3. QED
      BY <3>1, <3>2 DEF Written, Nothing
  <2>4. QED
    BY <2>2, <2>3
<1>7. \A q, r \in Pullers : q # r => Exclusive(q, r)'
  <2>1. SUFFICES ASSUME NEW q \in Pullers, NEW r \in Pullers, q # r PROVE Exclusive(q, r)'
    OBVIOUS
  <2>2. CASE q # p /\ r # p
    BY <1>3, <2>1, <2>2 DEF CatalogInv, Exclusive
  <2>3. CASE q = p \/ r = p
    BY <1>3, <2>3 DEF Exclusive, KeysOf
  <2>4. QED
    BY <2>2, <2>3
<1>8. Strangers => Strangers'
  BY <1>1 DEF Strangers
<1>9. \A t \in CatalogTables : ins[p][t] = Records(p)[t]
  BY <1>2 DEF CatalogInv, Written
<1>10. Records(p) = [t \in CatalogTables |-> Records(p)[t]]
  BY RecordsAreTables DEF Records
<1>11. \A t \in CatalogTables : db'[t] = Sees(p, t)
  BY <1>1
<1>12. AllOrNothing(p)'
  BY <1>2 DEF AllOrNothing, Replaced
<1>13. ASSUME ~Strangers, Everything(del[p])
       PROVE  Current' \in published' /\ \A q \in Pullers : AllOrNothing(q)'
  <2>1. \A t \in CatalogTables : db'[t] = ins[p][t]
    <3>1. SUFFICES ASSUME NEW t \in CatalogTables PROVE Sees(p, t) = ins[p][t]
      BY <1>11
    <3>2. del[p][t] = db[t]
      BY <1>13 DEF Everything
    <3>3. QED
      BY <3>2 DEF Sees, Without
  <2>2. Current' = Records(p)
    BY <1>9, <1>10, <2>1 DEF Current
  <2>3. ASSUME NEW q \in Pullers, q # p PROVE AllOrNothing(q)'
    <3>1. AllOrNothing(q) /\ Exclusive(p, q)
      BY <1>13, <2>3 DEF CatalogInv
    <3>2. /\ ins'[q] = ins[q] /\ del'[q] = del[q] /\ place'[q] = place[q]
      BY <1>2, <1>3, <2>3
    <3>3. place[q] = "deleting" => Nothing(sight[q])'
      <4>1. SUFFICES ASSUME place[q] = "deleting", NEW t \in CatalogTables PROVE sight'[q][t] = {}
        BY DEF Nothing
      <4>2. sight[q][t] \subseteq del[p][t]
        BY <1>13, <3>1, <4>1 DEF AllOrNothing, Everything, Nothing
      <4>3. sight'[q][t] = Survivors(p, t, sight[q][t])
        BY <1>1
      <4>4. QED
        BY <4>2, <4>3 DEF Survivors, Without, KeysOf
    <3>4. place[q] \in Replaced => Nothing(del[q])
      BY <1>13, <3>1 DEF AllOrNothing, Everything, Nothing, Exclusive
    <3>5. \A t \in CatalogTables : KeysOf(ins'[q][t]) \cap KeysOf(db'[t]) = {}
      BY <2>1, <3>1, <3>2 DEF Exclusive
    <3>6. Nothing(del[q])' <=> Nothing(del[q])
      BY <3>2 DEF Nothing
    <3>7. QED
      BY <3>2, <3>3, <3>4, <3>5, <3>6 DEF AllOrNothing, KeysOf
  <2>4. QED
    BY <1>1, <1>12, <2>2, <2>3
<1>14. ASSUME ~Strangers, Nothing(del[p]), Nothing(ins[p])
       PROVE  Current' \in published' /\ \A q \in Pullers : AllOrNothing(q)'
  <2>1. \A t \in CatalogTables : db'[t] = db[t]
    <3>1. SUFFICES ASSUME NEW t \in CatalogTables PROVE Sees(p, t) = db[t]
      BY <1>11
    <3>2. del[p][t] = {} /\ ins[p][t] = {}
      BY <1>14 DEF Nothing
    <3>3. QED
      BY <3>2 DEF Sees, Without, KeysOf
  <2>2. Current' = Current
    BY <2>1 DEF Current
  <2>3. ASSUME NEW q \in Pullers, q # p PROVE AllOrNothing(q)'
    <3>1. AllOrNothing(q)
      BY <1>14 DEF CatalogInv
    <3>2. /\ ins'[q] = ins[q] /\ del'[q] = del[q] /\ place'[q] = place[q]
      BY <1>2, <1>3, <2>3
    <3>3. \A t \in CatalogTables : sight'[q][t] = sight[q][t]
      <4>1. SUFFICES ASSUME NEW t \in CatalogTables PROVE Survivors(p, t, sight[q][t]) = sight[q][t]
        BY <1>1
      <4>2. del[p][t] = {} /\ ins[p][t] = {}
        BY <1>14 DEF Nothing
      <4>3. QED
        BY <4>2 DEF Survivors, Without, KeysOf
    <3>4. /\ Everything(sight[q])' <=> Everything(sight[q])
          /\ Nothing(sight[q])' <=> Nothing(sight[q])
          /\ Everything(del[q])' <=> Everything(del[q])
          /\ Nothing(del[q])' <=> Nothing(del[q])
      BY <2>1, <3>2, <3>3 DEF Everything, Nothing
    <3>5. QED
      BY <2>1, <3>1, <3>2, <3>4 DEF AllOrNothing, KeysOf
  <2>4. QED
    BY <1>1, <1>12, <1>14, <2>2, <2>3 DEF CatalogInv
<1>15. ASSUME ~Strangers, Nothing(del[p]), ~Nothing(ins[p]), ~Everything(del[p])
       PROVE  Strangers'
  <2>1. Current \in published' /\ Records(p) \in published'
    BY <1>1, <1>15 DEF CatalogInv
  <2>2. \A t \in CatalogTables : Current[t] = db[t]
    BY DEF Current
  <2>3. ~IsEmptyReading(Current)
    BY <1>15, <2>2 DEF IsEmptyReading, Nothing, Everything
  <2>4. ~IsEmptyReading(Records(p))
    BY <1>9, <1>15 DEF IsEmptyReading, Nothing
  <2>5. AllOrNothing(p)
    BY <1>15 DEF CatalogInv
  <2>6. \A t \in CatalogTables : KeysOf(ins[p][t]) \cap KeysOf(db[t]) = {}
    BY <1>2, <1>15, <2>5 DEF AllOrNothing
  <2>7. Disjoint(Current, Records(p))
    BY <1>9, <2>2, <2>6 DEF Disjoint
  <2>8. QED
    BY <2>1, <2>3, <2>4, <2>7 DEF Strangers
<1>16. Strangers' \/ (Current' \in published' /\ \A q \in Pullers : AllOrNothing(q)')
  <2>1. ASSUME ~Strangers PROVE Everything(del[p]) \/ Nothing(del[p])
    BY <1>2, <2>1 DEF CatalogInv, AllOrNothing, Replaced
  <2>2. QED
    BY <1>8, <1>13, <1>14, <1>15, <2>1
<1>17. DOMAIN got' = Pullers
  BY <1>1 DEF CatalogInv
<1>18. QED
  BY <1>5, <1>6, <1>7, <1>16, <1>17 DEF CatalogInv

LEMMA CatalogCrashed == ASSUME StoreInv, CatalogInv, Crash PROVE CatalogInv'
<1> USE SessionFacts
<1>1. UNCHANGED <<db, published>> /\ DOMAIN got' = Pullers
  BY DEF Crash, DbCrash, CatalogCrash
<1>2. \A s \in Sessions : (Nothing(ins[s]) /\ Nothing(del[s]))'
  BY DEF Crash, DbCrash, NoRows, Nothing
<1>3. \A p \in Pullers : place'[p] \notin Replaced /\ place'[p] # "deleting" /\ place'[p] # "commit"
  BY DEF Crash, CatalogCrash, Replaced, Pulling
<1>4. \A p \in Pullers : Written(p)' /\ AllOrNothing(p)'
  BY <1>2, <1>3 DEF Written, AllOrNothing
<1>5. \A p, q \in Pullers : p # q => Exclusive(p, q)'
  BY <1>2 DEF Exclusive, Nothing, KeysOf
<1>6. (Strangers' <=> Strangers) /\ Current' = Current
  BY <1>1 DEF Strangers, Current
<1>7. QED
  BY <1>1, <1>2, <1>4, <1>5, <1>6 DEF CatalogInv

LEMMA InitCatalog == Init => CatalogInv
<1> USE SessionFacts
<1> SUFFICES ASSUME Init PROVE CatalogInv
  OBVIOUS
<1>1. \A s \in Sessions : Nothing(ins[s]) /\ Nothing(del[s])
  BY DEF Init, DbInit, NoRows, Nothing
<1>2. /\ \A p \in Pullers : place[p] = "idle"
      /\ DOMAIN got = Pullers /\ published = {Current}
  BY DEF Init, CatalogInit, Current
<1>3. \A p \in Pullers : Written(p) /\ AllOrNothing(p)
  BY <1>1, <1>2 DEF Written, AllOrNothing, Replaced
<1>4. \A p, q \in Pullers : p # q => Exclusive(p, q)
  BY <1>1 DEF Exclusive, Nothing, KeysOf
<1>5. QED
  BY <1>1, <1>2, <1>3, <1>4 DEF CatalogInv

LEMMA CatalogStep == StoreInv /\ CatalogInv /\ [Next]_vars => CatalogInv'
<1> USE SessionFacts
<1> SUFFICES ASSUME StoreInv, CatalogInv, [Next]_vars PROVE CatalogInv'
  OBVIOUS
<1>1. ASSUME NEW p \in Pullers, PullerMoves(p) PROVE CatalogInv'
  BY <1>1, CatalogTurns, CatalogDeleted, CatalogCopied, CatalogCommitted, CatalogUndone
     DEF PullerMoves, PullStep
<1>2. ASSUME UNCHANGED <<tables, place, sight, got, published>> PROVE CatalogInv'
  <2>1. UNCHANGED <<db, ins, del, place, sight, got, published>>
    BY <1>2 DEF tables
  <2>2. \A i \in Importers : (Nothing(ins[i]) /\ Nothing(del[i]))'
    BY <2>1 DEF CatalogInv, Nothing
  <2>3. QED
    BY <2>1, <2>2, CatalogAside
<1>3. CASE \E i \in crew \cap Importers : ImporterMoves(i) /\ UNCHANGED <<puller, onec, crew, crashes>>
  BY <1>3, CatalogImporters
<1>4. CASE \E p \in crew \cap Pullers : PullerMoves(p) /\ UNCHANGED <<importer, filters, crew, crashes>>
  BY <1>1, <1>4
<1>5. CASE EditAllowed /\ UNCHANGED <<puller, onec, crew, crashes>>
  BY <1>2, <1>5 DEF EditAllowed, puller
<1>6. CASE OnecChanges
  BY <1>2, <1>6 DEF OnecChanges, puller
<1>7. CASE Crash
  BY <1>7, CatalogCrashed
<1>8. CASE UNCHANGED vars
  BY <1>2, <1>8 DEF vars, puller
<1>9. QED
  BY <1>3, <1>4, <1>5, <1>6, <1>7, <1>8 DEF Next

(* The catalogue is one reading of 1C that was committed whole, for any    *)
(* number of pulls at once and whatever breaks, unless two readings have   *)
(* been committed that share no identifier and no code: the DELETE and the *)
(* COPY of a pull are one transaction under two unique keys.               *)
THEOREM CatalogueStaysOneReading == Spec => []CatalogueIsOneReading
<1>1. CatalogInv => CatalogueIsOneReading
  BY DEF CatalogInv, CatalogueIsOneReading
<1>2. Spec => []CatalogInv
  BY StoreAlways, InitCatalog, CatalogStep, PTL DEF Spec
<1>3. QED
  BY <1>1, <1>2, PTL

-----------------------------------------------------------------------------
(* The imports implement SnapshotLedger: each step of an importer is one   *)
(* of its client, or none that a client can tell.                          *)

(* A pull of the catalogue leaves the tables of the imports as they are.   *)
LEMMA PullerSpares ==
    ASSUME StoreInv, NEW p \in Pullers, PullerMoves(p) PROVE \A t \in ImportTables : db'[t] = db[t]
<1> USE SessionFacts
<1>1. CASE CommitPull(p)
  <2>1. db' = [t \in Tables |-> Sees(p, t)]
    BY <1>1 DEF CommitPull, Commit
  <2>2. SUFFICES ASSUME NEW t \in ImportTables PROVE db'[t] = db[t]
    OBVIOUS
  <2>3. ins[p][t] = {} /\ del[p][t] = {}
    BY DEF StoreInv, PullerRows
  <2>4. Sees(p, t) = db[t]
    BY <2>3 DEF Sees, Without, KeysOf
  <2>5. QED
    BY <2>1, <2>4
<1>2. CASE ~CommitPull(p)
  BY <1>2 DEF PullerMoves, PullStep, StartHttp, TriggerProductCatalog, BeginPull, ReadPage,
          ReadTooMuch, DeleteProducts, ProductsDeleted, CopyProducts, PullRefused, PullBreaks,
          PullFails, Rollback, Insert, Delete, tables
<1>3. QED
  BY <1>1, <1>2

(* What the clients of a step without its importer see.                    *)
LEMMA OneClient ==
    ASSUME NEW i \in Importers,
           \A j \in Importers \ {i} : at'[j] = at[j] /\ req'[j] = req[j] /\ reply'[j] = reply[j]
    PROVE  /\ Requests' = [Requests EXCEPT ![i] = Asking(i)']
           /\ Answers' = [Answers EXCEPT ![i] = Progress(i)']
           /\ Requests[i] = Asking(i) /\ Answers[i] = Progress(i)
<1>1. \A j \in Importers \ {i} : Asking(j)' = Asking(j)
  BY DEF Asking
<1>2. \A j \in Importers \ {i} : Progress(j)' = Progress(j)
  BY DEF Progress
<1>3. Requests' = [Requests EXCEPT ![i] = Asking(i)']
  BY <1>1 DEF Requests
<1>4. Answers' = [Answers EXCEPT ![i] = Progress(i)']
  BY <1>2 DEF Answers
<1>5. QED
  BY <1>3, <1>4 DEF Requests, Answers

(* A step in which nothing moves that a client can tell.                   *)
LEMMA NothingToTell ==
    ASSUME NEW i \in Importers,
           \A j \in Importers \ {i} : at'[j] = at[j] /\ req'[j] = req[j] /\ reply'[j] = reply[j],
           db'["snapshots"] = db["snapshots"], db'["stocks"] = db["stocks"],
           at[i] \in InTransaction \cup {"check"}, at'[i] \in InTransaction \cup {"check"},
           req'[i] = req[i]
    PROVE  UNCHANGED Ledger!lvars
<1>1. Asking(i)' = Asking(i)
  BY DEF Asking
<1>2. Progress(i)' = Progress(i)
  BY DEF Progress, InTransaction, AfterDelete
<1>3. UNCHANGED <<Requests, Answers>>
  BY <1>1, <1>2, OneClient DEF Requests, Answers
<1>4. QED
  BY <1>3 DEF Ledger!lvars

(* The tables a step of an importer leaves alone, but for its commit.      *)
LEMMA OnlyCommitStores ==
    ASSUME NEW i \in Importers, ImporterMoves(i), ~CommitImport(i), ~CommitInDoubt(i)
    PROVE  db' = db
  BY DEF ImporterMoves, ImportStep, Ask, Pull, Check, DeleteCosts, CostsDeleted, UpsertWarehouses,
         InsertStocks, PutCost, InsertSnapshot, Imported, ImportRefused, ImportFails, Fail, Rollback,
         Insert, Upsert, Delete, Acquire, tables

(* Every step of an importer is about its own client.                      *)
LEMMA OwnClient ==
    ASSUME StoreInv, NEW i \in Importers, ImporterMoves(i)
    PROVE  \A j \in Importers \ {i} : at'[j] = at[j] /\ req'[j] = req[j] /\ reply'[j] = reply[j]
<1>1. CASE Ask(i) \/ Pull(i) \/ Check(i) \/ DeleteCosts(i)
  BY <1>1 DEF StoreInv, ThreadsShape, Ask, Pull, Check, DeleteCosts, Answer, Goto
<1>2. CASE CostsDeleted(i) \/ UpsertWarehouses(i) \/ InsertStocks(i)
  BY <1>2 DEF StoreInv, ThreadsShape, CostsDeleted, UpsertWarehouses, InsertStocks, Goto
<1>3. CASE PutCost(i) \/ InsertSnapshot(i)
  BY <1>3 DEF StoreInv, ThreadsShape, PutCost, InsertSnapshot, Goto
<1>4. CASE CommitImport(i) \/ CommitInDoubt(i) \/ Imported(i)
  BY <1>4 DEF StoreInv, ThreadsShape, CommitImport, CommitInDoubt, Committed, Imported, Answer, Goto
<1>5. CASE ImportRefused(i) \/ ImportFails(i)
  BY <1>5 DEF StoreInv, ThreadsShape, ImportRefused, ImportFails, Fail, Answer, Goto
<1>6. QED
  BY <1>1, <1>2, <1>3, <1>4, <1>5 DEF ImporterMoves, ImportStep

(* The steps up to the transaction.                                        *)
LEMMA EarlyClient ==
    ASSUME StoreInv, NEW i \in Importers, Ask(i) \/ Pull(i) \/ Check(i), ImporterMoves(i)
    PROVE  [Ledger!Next]_Ledger!lvars
<1>1. /\ Requests' = [Requests EXCEPT ![i] = Asking(i)']
      /\ Answers' = [Answers EXCEPT ![i] = Progress(i)']
      /\ Requests[i] = Asking(i) /\ Answers[i] = Progress(i)
  BY OwnClient, OneClient
<1>2. db' = db
  BY OnlyCommitStores DEF Ask, Pull, Check, Acquire, tables
<1>3. reply \in [Importers -> Replies] /\ at \in [Importers -> Places] /\ DOMAIN req = Importers
  BY DEF StoreInv, ThreadsShape
<1>4. CASE Ask(i)
  <2>1. at[i] = "idle" /\ Asking(i) = {} /\ Progress(i) = reply[i] /\ Asking(i)' = {}
        /\ reply[i] \in Replies
    BY <1>3, <1>4 DEF Ask, Answer, Goto, Asking, Progress, InTransaction, AfterDelete
  <2>2. ~Ledger!Open(i)
    BY <1>1, <2>1 DEF Ledger!Open, Replies
  <2>3. CASE at'[i] = "idle" /\ reply'[i] \in {"empty", "failed"}
    <3>1. Progress(i)' \in {"empty", "failed"}
      BY <2>3 DEF Progress
    <3>2. Ledger!Decline(i)
      BY <1>1, <1>2, <2>1, <2>2, <3>1 DEF Ledger!Decline, Ledger!Reply, Ledger!Become
    <3>3. QED
      BY <3>2 DEF Ledger!Next
  <2>4. CASE at'[i] = "pull"
    <3>1. Progress(i)' = "waiting" /\ Requests' = Requests
      BY <1>1, <2>1, <2>4 DEF Progress, Requests
    <3>2. Ledger!Ask(i)
      BY <1>1, <1>2, <2>2, <3>1 DEF Ledger!Ask, Ledger!Become
    <3>3. QED
      BY <3>2 DEF Ledger!Next
  <2>5. QED
    BY <1>3, <1>4, <2>3, <2>4 DEF Ask, Answer, Goto
<1>5. CASE Pull(i)
  <2>1. at[i] = "pull" /\ Asking(i) = {} /\ Progress(i) = "waiting"
    BY <1>5 DEF Pull, Asking, Progress, InTransaction, AfterDelete
  <2>2. CASE at'[i] = "check"
    <3>1. Asking(i)' = {req'[i]} /\ Progress(i)' = "waiting"
      BY <2>2 DEF Asking, Progress, InTransaction, AfterDelete
    <3>2. Answers' = Answers
      BY <1>1, <2>1, <3>1 DEF Answers
    <3>3. Requests'[i] = {req'[i]}
      BY <1>1, <3>1 DEF Requests
    <3>4. Ledger!Send(i)
      BY <1>1, <1>2, <2>1, <3>1, <3>2, <3>3 DEF Ledger!Send
    <3>5. QED
      BY <3>4 DEF Ledger!Next
  <2>3. CASE at'[i] = "idle" /\ reply'[i] = "failed"
    <3>1. Asking(i)' = {} /\ Progress(i)' = "failed"
      BY <2>3 DEF Asking, Progress, InTransaction, AfterDelete
    <3>2. Ledger!Refuse(i)
      BY <1>1, <1>2, <2>1, <3>1 DEF Ledger!Refuse, Ledger!Reply, Ledger!Become
    <3>3. QED
      BY <3>2 DEF Ledger!Next
  <2>4. QED
    BY <1>3, <1>5, <2>2, <2>3 DEF Pull, Answer, Goto
<1>6. CASE Check(i)
  <2>1. at[i] = "check" /\ req' = req
    BY <1>6 DEF Check
  <2>2. Asking(i) = {req[i]} /\ Progress(i) = "waiting"
    BY <2>1 DEF Asking, Progress
  <2>3. CASE at'[i] = "idle" /\ reply'[i] = "failed"
    <3>1. Asking(i)' = {} /\ Progress(i)' = "failed"
      BY <2>3 DEF Asking, Progress, InTransaction, AfterDelete
    <3>2. Ledger!Refuse(i)
      BY <1>1, <1>2, <2>2, <3>1 DEF Ledger!Refuse, Ledger!Reply, Ledger!Become
    <3>3. QED
      BY <3>2 DEF Ledger!Next
  <2>4. CASE at'[i] = "idle" /\ reply'[i] = "duplicate" /\ SameContent(req[i], Stored(i))
    <3>1. Asking(i)' = {} /\ Progress(i)' = "duplicate"
      BY <2>4 DEF Asking, Progress, InTransaction, AfterDelete
    <3>2. ins[i]["snapshots"] = {} /\ del[i]["snapshots"] = {}
      BY <2>1 DEF StoreInv, ImporterRows, KeptTables
    <3>3. SnapshotRow(req[i]) \in db["snapshots"]
      BY <2>4, <3>2 DEF SameContent, Stored, Sees, Without
    <3>4. Ledger!SnapshotRow(req[i]) = SnapshotRow(req[i])
      BY DEF Ledger!SnapshotRow, SnapshotRow, Ledger!Row, Row
    <3>5. Ledger!Repeat(i)
      BY <1>1, <1>2, <2>2, <3>1, <3>3, <3>4 DEF Ledger!Repeat, Ledger!Reply, Ledger!Become
    <3>6. QED
      BY <3>5 DEF Ledger!Next
  <2>5. CASE at'[i] = "delete"
    BY <1>2, <2>1, <2>5, OwnClient, NothingToTell DEF InTransaction
  <2>6. \/ at'[i] = "idle" /\ reply'[i] = "failed"
        \/ at'[i] = "idle" /\ reply'[i] = "duplicate" /\ SameContent(req[i], Stored(i))
        \/ at'[i] = "delete"
    BY <1>3, <1>6 DEF Check, Answer, Goto
  <2>7. QED
    BY <2>3, <2>4, <2>5, <2>6
<1>7. QED
  BY <1>4, <1>5, <1>6

(* The transaction: its statements are not to be told, and its end is a    *)
(* record or a refusal.                                                    *)
LEMMA WorkingClient ==
    ASSUME StoreInv, NEW i \in Importers, ImporterMoves(i),
           DeleteCosts(i) \/ CostsDeleted(i) \/ UpsertWarehouses(i) \/ InsertStocks(i)
           \/ PutCost(i) \/ InsertSnapshot(i)
    PROVE  [Ledger!Next]_Ledger!lvars
<1>1. at[i] \in {"delete", "deleting", "warehouses", "stocks", "costs"} /\ req' = req
  BY DEF DeleteCosts, CostsDeleted, UpsertWarehouses, InsertStocks, PutCost, InsertSnapshot, Keep
<1>2. at'[i] \in AfterDelete
  BY DEF StoreInv, ThreadsShape, AfterDelete, DeleteCosts, CostsDeleted, UpsertWarehouses,
         InsertStocks, PutCost, InsertSnapshot, Goto
<1>3. db' = db
  BY DEF DeleteCosts, CostsDeleted, UpsertWarehouses, InsertStocks, PutCost, InsertSnapshot, Insert,
         Upsert, Delete, tables
<1>4. at[i] \in InTransaction \cup {"check"} /\ at'[i] \in InTransaction \cup {"check"}
  BY <1>1, <1>2 DEF InTransaction, AfterDelete
<1>5. QED
  BY <1>1, <1>3, <1>4, OwnClient, NothingToTell

LEMMA CommitClient ==
    ASSUME StoreInv, NEW i \in Importers, ImporterMoves(i), CommitImport(i) \/ CommitInDoubt(i)
    PROVE  Ledger!Record(i)
<1>1. /\ Requests' = [Requests EXCEPT ![i] = Asking(i)']
      /\ Answers' = [Answers EXCEPT ![i] = Progress(i)']
      /\ Requests[i] = Asking(i) /\ Answers[i] = Progress(i)
  BY OwnClient, OneClient
<1>2. at[i] = "commit" /\ req' = req /\ Committed(i)
  BY DEF CommitImport, CommitInDoubt, Committed
<1>3. Asking(i) = {req[i]} /\ Progress(i) = "waiting"
  BY <1>2 DEF Asking, Progress, InTransaction, AfterDelete
<1>4. /\ \A t \in FreshTables : /\ db'[t] = db[t] \cup ins[i][t]
                                 /\ KeysOf(ins[i][t]) \cap KeysOf(db[t]) = {}
      /\ ins[i]["stocks"] = StockRows(req[i]) /\ ins[i]["snapshots"] = {SnapshotRow(req[i])}
  BY <1>2, CommitEffect
<1>5. /\ db'["snapshots"] = db["snapshots"] \cup {SnapshotRow(req[i])}
      /\ db'["stocks"] = db["stocks"] \cup StockRows(req[i])
      /\ KeysOf(StockRows(req[i])) \cap KeysOf(db["stocks"]) = {}
  BY <1>4 DEF FreshTables
<1>6. req[i].batch \notin KeysOf(db["snapshots"])
  <2>1. KeysOf({SnapshotRow(req[i])}) \cap KeysOf(db["snapshots"]) = {}
    BY <1>4 DEF FreshTables
  <2>2. SnapshotRow(req[i]).key = req[i].batch
    BY SameRows
  <2>3. req[i].batch \in KeysOf({SnapshotRow(req[i])})
    BY <2>2 DEF KeysOf
  <2>4. QED
    BY <2>1, <2>3
<1>7. \/ Ledger!Become(i, "recorded") /\ UNCHANGED Requests
      \/ Ledger!Reply(i, "failed")
  <2>1. CASE at'[i] = "answer"
    <3>1. Asking(i)' = Asking(i) /\ Progress(i)' = "recorded"
      BY <1>2, <1>3, <2>1 DEF Asking, Progress
    <3>2. Requests' = Requests
      BY <1>1, <3>1 DEF Requests
    <3>3. QED
      BY <1>1, <3>1, <3>2 DEF Ledger!Become
  <2>2. CASE at'[i] = "idle" /\ reply'[i] = "failed"
    <3>1. Asking(i)' = {} /\ Progress(i)' = "failed"
      BY <2>2 DEF Asking, Progress, InTransaction, AfterDelete
    <3>2. QED
      BY <1>1, <3>1 DEF Ledger!Reply, Ledger!Become
  <2>3. at'[i] = "answer" \/ (at'[i] = "idle" /\ reply'[i] = "failed")
    BY DEF StoreInv, ThreadsShape, CommitImport, CommitInDoubt, Answer, Goto
  <2>4. QED
    BY <2>1, <2>2, <2>3
<1>8. /\ Ledger!SnapshotRow(req[i]) = SnapshotRow(req[i])
      /\ Ledger!StockRows(req[i]) = StockRows(req[i])
      /\ \A rows : Ledger!KeysOf(rows) = KeysOf(rows)
  BY DEF Ledger!SnapshotRow, Ledger!StockRows, Ledger!KeysOf, SnapshotRow, StockRows, KeysOf,
         Ledger!Row, Row
<1>9. QED
  BY <1>1, <1>3, <1>5, <1>6, <1>7, <1>8 DEF Ledger!Record

LEMMA EndingClient ==
    ASSUME StoreInv, NEW i \in Importers, ImporterMoves(i),
           Imported(i) \/ ImportRefused(i) \/ ImportFails(i)
    PROVE  Ledger!Imported(i) \/ Ledger!Refuse(i)
<1>1. /\ Requests' = [Requests EXCEPT ![i] = Asking(i)']
      /\ Answers' = [Answers EXCEPT ![i] = Progress(i)']
      /\ Requests[i] = Asking(i) /\ Answers[i] = Progress(i)
  BY OwnClient, OneClient
<1>2. db' = db
  BY DEF Imported, ImportRefused, ImportFails, Fail, Rollback, tables
<1>3. CASE Imported(i)
  <2>1. at[i] = "answer" /\ at'[i] = "idle" /\ reply'[i] = "imported"
    BY <1>3 DEF StoreInv, ThreadsShape, Imported, Answer, Goto
  <2>2. Progress(i) = "recorded" /\ Asking(i)' = {} /\ Progress(i)' = "imported"
    BY <2>1 DEF Asking, Progress, InTransaction, AfterDelete
  <2>3. QED
    BY <1>1, <1>2, <2>2 DEF Ledger!Imported, Ledger!Reply, Ledger!Become
<1>4. CASE ImportRefused(i) \/ ImportFails(i)
  <2>1. at[i] \in InTransaction /\ at'[i] = "idle" /\ reply'[i] = "failed"
    BY <1>4 DEF StoreInv, ThreadsShape, ImportRefused, Refused, ImportFails, Fail, Answer, Goto,
            InTransaction, AfterDelete
  <2>2. /\ Asking(i) = {req[i]} /\ Progress(i) = "waiting"
        /\ Asking(i)' = {} /\ Progress(i)' = "failed"
    BY <2>1 DEF Asking, Progress, InTransaction, AfterDelete
  <2>3. QED
    BY <1>1, <1>2, <2>2 DEF Ledger!Refuse, Ledger!Reply, Ledger!Become
<1>5. QED
  BY <1>3, <1>4

(* The death of the process: who was waiting gets no answer.               *)
LEMMA DeadClients == ASSUME StoreInv, Crash PROVE Ledger!Die
<1>1. /\ db' = db /\ \A i \in Importers : at'[i] = "idle"
      /\ reply' = [i \in Importers |-> IF at[i] = "idle" THEN reply[i] ELSE "lost"]
  BY DEF Crash, DbCrash, ImportCrash
<1>2. \A i \in Importers : Ledger!Open(i) <=> at[i] # "idle"
  <2>1. SUFFICES ASSUME NEW i \in Importers PROVE Ledger!Open(i) <=> at[i] # "idle"
    OBVIOUS
  <2>2. Answers[i] = Progress(i) /\ reply[i] \in Replies
    BY DEF Answers, StoreInv, ThreadsShape
  <2>3. QED
    BY <2>2 DEF Ledger!Open, Progress, Replies
<1>3. \A i \in Importers : Asking(i)' = {} /\ Progress(i)' = reply'[i]
  BY <1>1 DEF Asking, Progress, InTransaction, AfterDelete
<1>4. Requests' = [i \in Importers |-> {}]
  BY <1>3 DEF Requests
<1>5. \A i \in Importers : Progress(i)' = IF Ledger!Open(i) THEN "lost" ELSE Answers[i]
  BY <1>1, <1>2, <1>3 DEF Answers, Progress
<1>6. Answers' = [i \in Importers |-> IF Ledger!Open(i) THEN "lost" ELSE Answers[i]]
  BY <1>5 DEF Answers
<1>7. QED
  BY <1>1, <1>4, <1>6 DEF Ledger!Die

(* A step of no importer.                                                  *)
LEMMA OtherClients ==
    ASSUME UNCHANGED importer, db'["snapshots"] = db["snapshots"], db'["stocks"] = db["stocks"]
    PROVE  UNCHANGED Ledger!lvars
<1>1. UNCHANGED <<at, req, reply>>
  BY DEF importer
<1>2. \A i \in Importers : Asking(i)' = Asking(i) /\ Progress(i)' = Progress(i)
  BY <1>1 DEF Asking, Progress
<1>3. UNCHANGED <<Requests, Answers>>
  BY <1>2 DEF Requests, Answers
<1>4. QED
  BY <1>3 DEF Ledger!lvars

LEMMA LedgerStep == StoreInv /\ [Next]_vars => [Ledger!Next]_Ledger!lvars
<1> SUFFICES ASSUME StoreInv, [Next]_vars PROVE [Ledger!Next]_Ledger!lvars
  OBVIOUS
<1>1. ASSUME NEW i \in Importers, ImporterMoves(i) PROVE [Ledger!Next]_Ledger!lvars
  <2>1. CASE Ask(i) \/ Pull(i) \/ Check(i)
    BY <1>1, <2>1, EarlyClient
  <2>2. CASE DeleteCosts(i) \/ CostsDeleted(i) \/ UpsertWarehouses(i) \/ InsertStocks(i)
             \/ PutCost(i) \/ InsertSnapshot(i)
    BY <1>1, <2>2, WorkingClient
  <2>3. CASE CommitImport(i) \/ CommitInDoubt(i)
    BY <1>1, <2>3, CommitClient DEF Ledger!Next
  <2>4. CASE Imported(i) \/ ImportRefused(i) \/ ImportFails(i)
    BY <1>1, <2>4, EndingClient DEF Ledger!Next
  <2>5. QED
    BY <1>1, <2>1, <2>2, <2>3, <2>4 DEF ImporterMoves, ImportStep
<1>2. ASSUME NEW p \in Pullers, PullerMoves(p), UNCHANGED importer
      PROVE  [Ledger!Next]_Ledger!lvars
  BY <1>2, PullerSpares, OtherClients DEF ImportTables
<1>3. CASE \E i \in crew \cap Importers : ImporterMoves(i) /\ UNCHANGED <<puller, onec, crew, crashes>>
  BY <1>1, <1>3
<1>4. CASE \E p \in crew \cap Pullers : PullerMoves(p) /\ UNCHANGED <<importer, filters, crew, crashes>>
  BY <1>2, <1>4
<1>5. CASE EditAllowed
  BY <1>5, OtherClients DEF EditAllowed, tables
<1>6. CASE OnecChanges /\ UNCHANGED <<importer, filters, crew, crashes>>
  BY <1>6, OtherClients DEF OnecChanges, tables
<1>7. CASE Crash
  BY <1>7, DeadClients DEF Ledger!Next
<1>8. CASE UNCHANGED vars
  BY <1>8, OtherClients DEF vars, tables
<1>9. QED
  BY <1>3, <1>4, <1>5, <1>6, <1>7, <1>8 DEF Next

LEMMA InitLedger == Init => Ledger!Init
<1> SUFFICES ASSUME Init PROVE Ledger!Init
  OBVIOUS
<1>1. db["snapshots"] = {} /\ db["stocks"] = {}
  BY DEF Init, Tables, CatalogTables
<1>2. \A i \in Importers : at[i] = "idle" /\ reply[i] = "none"
  BY DEF Init, ImportInit
<1>3. \A i \in Importers : Asking(i) = {} /\ Progress(i) = "none"
  BY <1>2 DEF Asking, Progress, InTransaction, AfterDelete
<1>4. QED
  BY <1>1, <1>3 DEF Ledger!Init, Requests, Answers

(* The imports are what SnapshotLedger promises their clients, for any     *)
(* number of them at once, whatever fails, and whether or not a COMMIT is  *)
(* heard of: import_snapshot takes effect in one step, and nothing it has  *)
(* recorded is lost or changed by a later one.                             *)
THEOREM ImportsKeepTheLedger == Spec => LedgerIsKept
<1>1. Spec => Ledger!Spec
  BY StoreAlways, InitLedger, LedgerStep, PTL DEF Spec, Ledger!Spec
<1>2. QED
  BY <1>1 DEF LedgerIsKept
=============================================================================

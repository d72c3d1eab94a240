-------------------------- MODULE OnecCosts_proofs --------------------------
(***************************************************************************)
(* The tables of costs hold those of the snapshot that was committed last. *)
(* CostInv says what is left to do of an import, and that an importer      *)
(* whose DELETE is not older than the last commit deletes every row.       *)
(***************************************************************************)
EXTENDS OnecStorage_proofs

Replacing == {"warehouses", "stocks", "costs", "commit"}
Putting == {"costs", "commit"}

(* The rows of costs an importer writes: one for a SKU.                    *)
UniqueCosts(i) ==
    \A t \in CostTables : \A x, y \in req[i].rows[t] : x.key = y.key => x = y

(* Each of them is written, or among those that wait.                      *)
Waits(i, t, x) == \E w \in todo[i] : DOMAIN w = {t} /\ w[t] = {x}
WrittenOrWaiting(i) ==
    \A t \in CostTables : \A x \in req[i].rows[t] : x \in ins[i][t] \/ Waits(i, t, x)
OnlyTheirs(i) ==
    /\ \A t \in CostTables : ins[i][t] \subseteq req[i].rows[t]
    /\ \A w \in todo[i] :
         \E t \in CostTables : \E x \in req[i].rows[t] : DOMAIN w = {t} /\ w[t] = {x}

CostPart(i) ==
    /\ at[i] \notin {"idle", "pull"} => UniqueCosts(i)
    /\ at[i] \notin Replacing => \A t \in CostTables : del[i][t] = {}
    /\ at[i] \notin Putting => \A t \in CostTables : ins[i][t] = {}
    /\ at[i] \in Putting => WrittenOrWaiting(i) /\ OnlyTheirs(i)
    /\ at[i] = "commit" => todo[i] = {}

(* The DELETE of this importer takes all there is.                         *)
Abreast(i) ==
    /\ at[i] = "deleting" => \A t \in CostTables : seen[i][t] = db[t]
    /\ at[i] \in Replacing => \A t \in CostTables : del[i][t] = db[t]

CostInv ==
    /\ \A i \in Importers : CostPart(i)
    /\ \A i \in Importers \ late : Abreast(i)
    /\ CostsOfTheLatest

LEMMA CostTablesAreTables == CostTables \subseteq Tables /\ CostTables \subseteq ImportTables
  BY DEF CostTables, Tables, ImportTables

(* The costs of a snapshot have one row for a SKU.                         *)
LEMMA OneCostPerSku ==
    ASSUME NEW pull, NEW filter, NEW t \in CostTables,
           NEW x \in PullToSnapshot(pull, filter)[t], NEW y \in PullToSnapshot(pull, filter)[t],
           x.key = y.key
    PROVE  x = y
<1>1. CASE t = "batch_cost"
  BY <1>1 DEF PullToSnapshot, BatchCosts, Row
<1>2. CASE t = "supplier_cost"
  BY <1>2 DEF PullToSnapshot, SupplierCosts, Row
<1>3. QED
  BY <1>1, <1>2 DEF CostTables

(* A step of an importer that commits nothing: the others are as before.   *)
LEMMA CostQuiet ==
    ASSUME CostInv, NEW i \in Importers, UNCHANGED <<db, latest, mixed>>,
           late \ {i} \subseteq late', i \in late' \/ Abreast(i)',
           \A j \in Importers \ {i} : /\ ins'[j] = ins[j] /\ del'[j] = del[j] /\ at'[j] = at[j]
                                      /\ req'[j] = req[j] /\ seen'[j] = seen[j]
                                      /\ todo'[j] = todo[j],
           CostPart(i)'
    PROVE  CostInv'
<1>1. \A j \in Importers : CostPart(j)'
  <2>1. SUFFICES ASSUME NEW j \in Importers, j # i PROVE CostPart(j)'
    OBVIOUS
  <2>2. /\ ins'[j] = ins[j] /\ del'[j] = del[j] /\ at'[j] = at[j]
        /\ req'[j] = req[j] /\ todo'[j] = todo[j] /\ CostPart(j)
    BY <2>1 DEF CostInv
  <2>3. /\ UniqueCosts(j)' <=> UniqueCosts(j)
        /\ OnlyTheirs(j)' <=> OnlyTheirs(j)
    BY <2>2 DEF UniqueCosts, OnlyTheirs
  <2>4. WrittenOrWaiting(j)' <=> WrittenOrWaiting(j)
    BY <2>2 DEF WrittenOrWaiting, Waits
  <2>5. QED
    BY <2>2, <2>3, <2>4 DEF CostPart
<1>2. \A j \in Importers \ late' : Abreast(j)'
  <2>1. SUFFICES ASSUME NEW j \in Importers \ late', j # i PROVE Abreast(j)'
    OBVIOUS
  <2>2. j \notin late
    BY <2>1
  <2>3. QED
    BY <2>1, <2>2 DEF CostInv, Abreast
<1>3. CostsOfTheLatest'
  BY DEF CostInv, CostsOfTheLatest
<1>4. QED
  BY <1>1, <1>2, <1>3 DEF CostInv

-----------------------------------------------------------------------------
(* The steps before the DELETE: nothing is written yet.                    *)
LEMMA EarlySteps ==
    ASSUME StoreInv, CostInv, NEW i \in Importers, Ask(i) \/ Pull(i) \/ Check(i) PROVE CostInv'
<1> USE SessionFacts
<1>1. UNCHANGED <<db, ins, del, seen, todo, latest, mixed, late>>
  BY DEF Ask, Pull, Check, Keep, Acquire, tables, history
<1>2. \A j \in Importers \ {i} : at'[j] = at[j] /\ req'[j] = req[j]
  BY DEF StoreInv, ThreadsShape, Ask, Pull, Check, Answer, Goto
<1>3. at[i] \in {"idle", "pull", "check"} /\ at'[i] \in {"idle", "pull", "check", "delete"}
  BY DEF StoreInv, ThreadsShape, Ask, Pull, Check, Answer, Goto
<1>4. at'[i] \notin Replacing /\ at'[i] \notin Putting /\ at'[i] # "deleting" /\ at'[i] # "commit"
  BY <1>3 DEF Replacing, Putting
<1>5. \A t \in CostTables : ins'[i][t] = {} /\ del'[i][t] = {}
  BY <1>1, <1>3 DEF CostInv, CostPart, Replacing, Putting
<1>6. at'[i] \notin {"idle", "pull"} => UniqueCosts(i)'
  <2>1. CASE Ask(i)
    BY <2>1 DEF StoreInv, ThreadsShape, Ask, Answer, Goto
  <2>2. CASE Pull(i)
    <3> SUFFICES ASSUME at'[i] # "idle" PROVE UniqueCosts(i)'
      OBVIOUS
    <3>0. ~Answer(i, "failed")
      BY DEF StoreInv, ThreadsShape, Answer, Goto
    <3>1. PICK p \in Pulls, b \in Batches, filter \in {allowed, {}} :
            req' = [req EXCEPT ![i] =
                      [batch |-> b, rows |-> PullToSnapshot(PullOf(p, want[i]), filter)]]
      BY <2>2, <3>0 DEF Pull
    <3>2. req'[i].rows = PullToSnapshot(PullOf(p, want[i]), filter)
      BY <3>1 DEF StoreInv, ThreadsShape
    <3>3. QED
      BY <3>2, OneCostPerSku DEF UniqueCosts
  <2>3. CASE Check(i)
    <3>1. at[i] = "check" /\ req' = req
      BY <2>3 DEF Check
    <3>2. QED
      BY <3>1 DEF CostInv, CostPart, UniqueCosts
  <2>4. QED
    BY <2>1, <2>2, <2>3
<1>7. CostPart(i)'
  BY <1>4, <1>5, <1>6 DEF CostPart
<1>8. Abreast(i)'
  BY <1>4 DEF Abreast
<1>9. QED
  BY <1>1, <1>2, <1>7, <1>8, CostQuiet

(* The DELETE starts: what it sees is what is committed.                   *)
LEMMA DeleteBegins ==
    ASSUME StoreInv, CostInv, NEW i \in Importers, DeleteCosts(i) PROVE CostInv'
<1>1. UNCHANGED <<db, ins, del, req, todo, latest, mixed>> /\ late' = late \ {i}
  BY DEF DeleteCosts, tables
<1>2. \A j \in Importers \ {i} : at'[j] = at[j] /\ seen'[j] = seen[j]
  BY DEF StoreInv, ThreadsShape, DeleteCosts, Goto
<1>3. at[i] = "delete" /\ at'[i] = "deleting" /\ seen'[i] = [t \in CostTables |-> Sees(i, t)]
  BY DEF StoreInv, ThreadsShape, DeleteCosts, Goto
<1>4. \A t \in CostTables : ins[i][t] = {} /\ del[i][t] = {}
  BY <1>3 DEF CostInv, CostPart, Replacing, Putting
<1>5. \A t \in CostTables : seen'[i][t] = db[t]
  BY <1>3, <1>4 DEF Sees, Without, KeysOf
<1>6. Abreast(i)'
  BY <1>1, <1>3, <1>5 DEF Abreast, Replacing
<1>7. UniqueCosts(i)'
  BY <1>1, <1>3 DEF CostInv, CostPart, UniqueCosts
<1>8. CostPart(i)'
  BY <1>1, <1>3, <1>4, <1>7 DEF CostPart, Replacing, Putting
<1>9. QED
  BY <1>1, <1>2, <1>6, <1>8, CostQuiet

(* The DELETE ends: it has taken the rows it saw, if they are still there. *)
LEMMA DeleteEnds ==
    ASSUME StoreInv, CostInv, NEW i \in Importers, CostsDeleted(i) PROVE CostInv'
<1> USE SessionFacts, CostTablesAreTables
<1>1. UNCHANGED <<db, ins, req, todo, latest, mixed, late>>
  BY DEF CostsDeleted, Delete, Keep, history
<1>2. \A j \in Importers \ {i} : at'[j] = at[j] /\ seen'[j] = seen[j]
  BY DEF StoreInv, ThreadsShape, CostsDeleted, Goto
<1>3. at[i] = "deleting" /\ at'[i] = "warehouses"
  BY DEF StoreInv, ThreadsShape, CostsDeleted, Goto
<1>4. /\ \A u \in Sessions \ {i} : del'[u] = del[u]
      /\ \A t \in Tables : del'[i][t] = IF t \in DOMAIN seen[i] THEN del[i][t] \cup seen[i][t]
                                        ELSE del[i][t]
  BY DeleteEffect DEF StoreInv, CostsDeleted
<1>5. \A t \in CostTables : ins[i][t] = {} /\ del[i][t] = {}
  BY <1>3 DEF CostInv, CostPart, Replacing, Putting
<1>6. \A t \in CostTables : del'[i][t] = seen[i][t]
  <2>1. DOMAIN seen[i] = CostTables
    BY DEF StoreInv, ThreadsShape
  <2>2. QED
    BY <1>4, <1>5, <2>1
<1>7. i \notin late => Abreast(i)'
  <2>1. ASSUME i \notin late PROVE \A t \in CostTables : seen[i][t] = db[t]
    BY <1>3, <2>1 DEF CostInv, Abreast
  <2>2. ASSUME i \notin late PROVE \A t \in CostTables : del'[i][t] = db'[t]
    BY <1>1, <1>6, <2>1, <2>2
  <2>3. QED
    BY <1>3, <2>2 DEF Abreast
<1>8. UniqueCosts(i)'
  BY <1>1, <1>3 DEF CostInv, CostPart, UniqueCosts
<1>9. CostPart(i)'
  BY <1>1, <1>3, <1>5, <1>8 DEF CostPart, Replacing, Putting
<1>10. QED
  BY <1>1, <1>2, <1>4, <1>7, <1>9, CostQuiet

(* The steps after it, until the commit: an importer that deleted          *)
(* everything still has.                                                   *)
LEMMA PutQuiet ==
    ASSUME StoreInv, CostInv, NEW i \in Importers, at[i] \in Replacing, at'[i] \in Replacing,
           UNCHANGED <<db, del, req, seen, latest, mixed, late>>,
           \A j \in Importers \ {i} : ins'[j] = ins[j] /\ at'[j] = at[j] /\ todo'[j] = todo[j],
           at'[i] \notin Putting => \A t \in CostTables : ins'[i][t] = {},
           at'[i] \in Putting => (WrittenOrWaiting(i) /\ OnlyTheirs(i))',
           at'[i] = "commit" => todo'[i] = {}
    PROVE  CostInv'
<1>1. UniqueCosts(i)'
  BY DEF CostInv, CostPart, UniqueCosts, Replacing
<1>2. at'[i] \notin {"idle", "pull"}
  BY DEF Replacing
<1>3. CostPart(i)'
  BY <1>1, <1>2 DEF CostPart
<1>4. i \in late' \/ Abreast(i)'
  BY DEF CostInv, Abreast, Replacing
<1>5. QED
  BY <1>3, <1>4, CostQuiet

LEMMA WarehousesPut ==
    ASSUME StoreInv, CostInv, NEW i \in Importers, UpsertWarehouses(i) PROVE CostInv'
<1> USE SessionFacts, CostTablesAreTables
<1> DEFINE w == [warehouses |-> req[i].rows.warehouses]
<1>1. UNCHANGED <<db, del, req, seen, todo, latest, mixed, late>> /\ Write(i, w)
  BY DEF UpsertWarehouses, Upsert, Keep, history
<1>2. \A j \in Importers \ {i} : at'[j] = at[j]
  BY DEF StoreInv, ThreadsShape, UpsertWarehouses, Goto
<1>3. at[i] = "warehouses" /\ at'[i] = "stocks"
  BY DEF StoreInv, ThreadsShape, UpsertWarehouses, Goto
<1>4. DOMAIN w = {"warehouses"}
  OBVIOUS
<1> HIDE DEF w
<1>5. /\ \A u \in Sessions \ {i} : ins'[u] = ins[u]
      /\ \A t \in Tables : t \notin DOMAIN w => ins'[i][t] = ins[i][t]
  BY <1>1, WriteEffect DEF StoreInv
<1>6. \A t \in CostTables : ins'[i][t] = {}
  BY <1>3, <1>4, <1>5 DEF CostInv, CostPart, Putting, CostTables
<1>7. at[i] \in Replacing /\ at'[i] \in Replacing /\ at'[i] \notin Putting /\ at'[i] # "commit"
  BY <1>3 DEF Replacing, Putting
<1>8. \A j \in Importers \ {i} : ins'[j] = ins[j] /\ at'[j] = at[j] /\ todo'[j] = todo[j]
  BY <1>1, <1>2, <1>5
<1>9. QED
  BY <1>1, <1>6, <1>7, <1>8, PutQuiet

(* What is to be written is queued when the stocks are in.                 *)
LEMMA CostIsQueued ==
    \A r : \A t \in CostTables : \A x \in r.rows[t] :
       \E v \in CostWrites(r) : DOMAIN v = {t} /\ v[t] = {x}
<1>1. SUFFICES ASSUME NEW r, NEW t \in CostTables, NEW x \in r.rows[t]
               PROVE  \E v \in CostWrites(r) : DOMAIN v = {t} /\ v[t] = {x}
  OBVIOUS
<1>2. CASE t = "batch_cost"
  <2>1. [batch_cost |-> {x}] \in CostWrites(r)
    BY <1>1, <1>2 DEF CostWrites
  <2>2. QED
    BY <1>2, <2>1
<1>3. CASE t = "supplier_cost"
  <2>1. [supplier_cost |-> {x}] \in CostWrites(r)
    BY <1>1, <1>3 DEF CostWrites
  <2>2. QED
    BY <1>3, <2>1
<1>4. QED
  BY <1>2, <1>3 DEF CostTables

LEMMA QueuedIsCost ==
    \A r : \A v \in CostWrites(r) :
       \E t \in CostTables : \E x \in r.rows[t] : DOMAIN v = {t} /\ v[t] = {x}
<1>1. SUFFICES ASSUME NEW r, NEW v \in CostWrites(r)
               PROVE  \E t \in CostTables : \E x \in r.rows[t] : DOMAIN v = {t} /\ v[t] = {x}
  OBVIOUS
<1>2. CASE \E x \in r.rows.batch_cost : v = [batch_cost |-> {x}]
  BY <1>2 DEF CostTables
<1>3. CASE \E x \in r.rows.supplier_cost : v = [supplier_cost |-> {x}]
  BY <1>3 DEF CostTables
<1>4. QED
  BY <1>1, <1>2, <1>3 DEF CostWrites

LEMMA StocksPut ==
    ASSUME StoreInv, CostInv, NEW i \in Importers, InsertStocks(i) PROVE CostInv'
<1> USE SessionFacts, CostTablesAreTables
<1> DEFINE w == StocksWrite(i)
<1>1. UNCHANGED <<db, del, req, seen, latest, mixed, late>> /\ Write(i, w)
  BY DEF InsertStocks, Insert, Keep, history
<1>2. /\ \A j \in Importers \ {i} : at'[j] = at[j] /\ todo'[j] = todo[j]
      /\ at[i] = "stocks" /\ at'[i] = "costs" /\ todo'[i] = CostWrites(req[i])
  BY DEF StoreInv, ThreadsShape, InsertStocks, Goto
<1>3. DOMAIN w = {"stocks"}
  BY DEF StocksWrite
<1> HIDE DEF w
<1>4. /\ \A u \in Sessions \ {i} : ins'[u] = ins[u]
      /\ \A t \in Tables : t \notin DOMAIN w => ins'[i][t] = ins[i][t]
  BY <1>1, WriteEffect DEF StoreInv
<1>5. \A t \in CostTables : ins'[i][t] = {}
  BY <1>2, <1>3, <1>4 DEF CostInv, CostPart, Putting, CostTables
<1>6. WrittenOrWaiting(i)'
  <2>1. req' = req /\ todo'[i] = CostWrites(req[i])
    BY <1>1, <1>2
  <2>2. SUFFICES ASSUME NEW t \in CostTables, NEW x \in req'[i].rows[t]
                 PROVE  x \in ins'[i][t] \/ \E v \in todo'[i] : DOMAIN v = {t} /\ v[t] = {x}
    BY DEF WrittenOrWaiting, Waits
  <2>3. x \in req[i].rows[t]
    BY <2>1
  <2>4. PICK v \in CostWrites(req[i]) : DOMAIN v = {t} /\ v[t] = {x}
    <3>1. \A u \in CostTables : \A y \in req[i].rows[u] :
            \E v \in CostWrites(req[i]) : DOMAIN v = {u} /\ v[u] = {y}
      BY CostIsQueued, Zenon
    <3>2. QED
      BY <2>3, <3>1, Zenon
  <2>5. v \in todo'[i]
    BY <2>1
  <2>6. QED
    BY <2>4, <2>5
<1>7. OnlyTheirs(i)'
  <2>1. \A v \in CostWrites(req[i]) :
          \E t \in CostTables : \E x \in req[i].rows[t] : DOMAIN v = {t} /\ v[t] = {x}
    BY QueuedIsCost, Zenon
  <2>2. req' = req /\ todo'[i] = CostWrites(req[i])
    BY <1>1, <1>2
  <2>3. \A v \in todo'[i] :
          \E t \in CostTables : \E x \in req'[i].rows[t] : DOMAIN v = {t} /\ v[t] = {x}
    BY <2>1, <2>2, Zenon
  <2>4. QED
    BY <1>5, <2>3 DEF OnlyTheirs
<1>8. at[i] \in Replacing /\ at'[i] \in Replacing /\ at'[i] # "commit" /\ at'[i] \in Putting
  BY <1>2 DEF Replacing, Putting
<1>9. \A j \in Importers \ {i} : ins'[j] = ins[j] /\ at'[j] = at[j] /\ todo'[j] = todo[j]
  BY <1>2, <1>4
<1>10. QED
  BY <1>1, <1>6, <1>7, <1>8, <1>9, PutQuiet

(* A row of costs is written: of its SKU there is no other.                *)
LEMMA CostPut ==
    ASSUME StoreInv, CostInv, NEW i \in Importers, PutCost(i) PROVE CostInv'
<1> USE SessionFacts, CostTablesAreTables
<1>1. UNCHANGED <<db, del, at, req, seen, latest, mixed, late>>
  BY DEF PutCost, Upsert, Keep, history
<1>2. PICK w \in todo[i] : Write(i, w) /\ todo' = [todo EXCEPT ![i] = @ \ {w}]
  BY DEF PutCost, Upsert
<1>3. at[i] = "costs" /\ todo'[i] = todo[i] \ {w}
      /\ \A j \in Importers \ {i} : todo'[j] = todo[j]
  BY <1>2 DEF StoreInv, ThreadsShape, PutCost
<1>4. UniqueCosts(i) /\ WrittenOrWaiting(i) /\ OnlyTheirs(i)
  BY <1>3 DEF CostInv, CostPart, Putting
<1>5. PICK t0 \in CostTables : \E x \in req[i].rows[t0] : DOMAIN w = {t0} /\ w[t0] = {x}
  BY <1>4 DEF OnlyTheirs
<1>6. PICK x0 \in req[i].rows[t0] : DOMAIN w = {t0} /\ w[t0] = {x0}
  BY <1>5
<1>7. /\ \A u \in Sessions \ {i} : ins'[u] = ins[u]
      /\ \A t \in Tables : ins'[i][t] = IF t \in DOMAIN w
                             THEN Without(ins[i][t], KeysOf(w[t])) \cup w[t] ELSE ins[i][t]
  BY <1>2, WriteEffect DEF StoreInv
<1>8. \A t \in CostTables \ {t0} : ins'[i][t] = ins[i][t]
  BY <1>6, <1>7
<1>9. ins'[i][t0] = {x \in ins[i][t0] : x.key # x0.key} \cup {x0}
  <2>1. ins'[i][t0] = Without(ins[i][t0], KeysOf({x0})) \cup {x0}
    BY <1>6, <1>7
  <2>2. KeysOf({x0}) = {x0.key}
    BY DEF KeysOf
  <2>3. QED
    BY <2>1, <2>2 DEF Without
<1>10. ins[i][t0] \subseteq req[i].rows[t0]
  BY <1>4 DEF OnlyTheirs
<1>11. ins'[i][t0] = ins[i][t0] \cup {x0}
  BY <1>4, <1>9, <1>10 DEF UniqueCosts
<1>12. OnlyTheirs(i)'
  <2>1. \A t \in CostTables : ins'[i][t] \subseteq req'[i].rows[t]
    BY <1>1, <1>4, <1>8, <1>10, <1>11 DEF OnlyTheirs
  <2>2. \A v \in todo'[i] :
          \E t \in CostTables : \E x \in req'[i].rows[t] : DOMAIN v = {t} /\ v[t] = {x}
    BY <1>1, <1>3, <1>4 DEF OnlyTheirs
  <2>3. QED
    BY <2>1, <2>2 DEF OnlyTheirs
<1>13. WrittenOrWaiting(i)'
  <2>1. SUFFICES ASSUME NEW t \in CostTables, NEW x \in req'[i].rows[t]
                 PROVE  x \in ins'[i][t] \/ \E v \in todo'[i] : DOMAIN v = {t} /\ v[t] = {x}
    BY DEF WrittenOrWaiting, Waits
  <2>2. x \in req[i].rows[t]
    BY <1>1
  <2>3. CASE x \in ins[i][t]
    BY <1>8, <1>11, <2>3
  <2>4. CASE \E v \in todo[i] : DOMAIN v = {t} /\ v[t] = {x}
    <3>1. PICK v \in todo[i] : DOMAIN v = {t} /\ v[t] = {x}
      BY <2>4
    <3>2. CASE v = w
      <4>1. t = t0 /\ x = x0
        BY <1>6, <3>1, <3>2
      <4>2. QED
        BY <1>11, <4>1
    <3>3. CASE v # w
      BY <1>3, <3>1, <3>3
    <3>4. QED
      BY <3>2, <3>3
  <2>5. x \in ins[i][t] \/ \E v \in todo[i] : DOMAIN v = {t} /\ v[t] = {x}
    BY <1>4, <2>2 DEF WrittenOrWaiting, Waits
  <2>6. QED
    BY <2>3, <2>4, <2>5
<1>14. at[i] \in Replacing /\ at'[i] \in Replacing /\ at'[i] # "commit" /\ at'[i] \in Putting
  BY <1>1, <1>3 DEF Replacing, Putting
<1>15. \A j \in Importers \ {i} : ins'[j] = ins[j] /\ at'[j] = at[j] /\ todo'[j] = todo[j]
  BY <1>1, <1>3, <1>7
<1>16. QED
  BY <1>1, <1>12, <1>13, <1>14, <1>15, PutQuiet

LEMMA SnapshotPut ==
    ASSUME StoreInv, CostInv, NEW i \in Importers, InsertSnapshot(i) PROVE CostInv'
<1> USE SessionFacts, CostTablesAreTables
<1> DEFINE w == [snapshots |-> {SnapshotRow(req[i])}]
<1>1. UNCHANGED <<db, del, req, seen, todo, latest, mixed, late>> /\ Write(i, w)
  BY DEF InsertSnapshot, Insert, Keep, history
<1>2. /\ \A j \in Importers \ {i} : at'[j] = at[j]
      /\ at[i] = "costs" /\ at'[i] = "commit" /\ todo[i] = {}
  BY DEF StoreInv, ThreadsShape, InsertSnapshot, Goto
<1>3. DOMAIN w = {"snapshots"}
  OBVIOUS
<1> HIDE DEF w
<1>4. /\ \A u \in Sessions \ {i} : ins'[u] = ins[u]
      /\ \A t \in Tables : t \notin DOMAIN w => ins'[i][t] = ins[i][t]
  BY <1>1, WriteEffect DEF StoreInv
<1>5. \A t \in CostTables : ins'[i][t] = ins[i][t]
  BY <1>3, <1>4 DEF CostTables
<1>6. WrittenOrWaiting(i) /\ OnlyTheirs(i)
  BY <1>2 DEF CostInv, CostPart, Putting
<1>7. WrittenOrWaiting(i)'
  BY <1>1, <1>5, <1>6 DEF WrittenOrWaiting, Waits
<1>8. OnlyTheirs(i)'
  BY <1>1, <1>5, <1>6 DEF OnlyTheirs
<1>9. at[i] \in Replacing /\ at'[i] \in Replacing /\ at'[i] \in Putting /\ todo'[i] = {}
  BY <1>1, <1>2 DEF Replacing, Putting
<1>10. \A j \in Importers \ {i} : ins'[j] = ins[j] /\ at'[j] = at[j] /\ todo'[j] = todo[j]
  BY <1>1, <1>2, <1>4
<1>11. QED
  BY <1>1, <1>7, <1>8, <1>9, <1>10, PutQuiet

LEMMA Undone ==
    ASSUME StoreInv, CostInv, NEW i \in Importers, Fail(i) PROVE CostInv'
<1> USE SessionFacts, CostTablesAreTables
<1>1. UNCHANGED <<db, req, latest, mixed, late>> /\ Forget(i)
  BY DEF Fail, Rollback, Keep, history
<1>2. /\ \A j \in Importers \ {i} : at'[j] = at[j] /\ seen'[j] = seen[j] /\ todo'[j] = todo[j]
      /\ at'[i] = "idle"
  BY DEF StoreInv, ThreadsShape, Fail, Answer, Goto
<1>3. /\ \A u \in Sessions \ {i} : ins'[u] = ins[u] /\ del'[u] = del[u]
      /\ \A t \in Tables : ins'[i][t] = {} /\ del'[i][t] = {}
  BY <1>1, ForgetEffect DEF StoreInv
<1>4. CostPart(i)' /\ Abreast(i)'
  BY <1>2, <1>3 DEF CostPart, Abreast, Replacing, Putting
<1>5. QED
  BY <1>1, <1>2, <1>3, <1>4, CostQuiet

(* The answer: the rows are no longer of this importer.                    *)
LEMMA CostsAnswered ==
    ASSUME StoreInv, CostInv, NEW i \in Importers, Imported(i) PROVE CostInv'
<1> USE SessionFacts
<1>1. UNCHANGED <<db, ins, del, req, seen, todo, latest, mixed, late>>
  BY DEF Imported, Keep, tables, history
<1>2. /\ \A j \in Importers \ {i} : at'[j] = at[j]
      /\ at[i] = "answer" /\ at'[i] = "idle"
  BY DEF StoreInv, ThreadsShape, Imported, Answer, Goto
<1>3. CostPart(i)'
  BY <1>1, <1>2 DEF CostInv, CostPart, Replacing, Putting
<1>4. Abreast(i)'
  BY <1>2 DEF Abreast, Replacing
<1>5. QED
  BY <1>1, <1>2, <1>3, <1>4, CostQuiet

(* The commit: what the importer wrote is what there is, if it deleted     *)
(* everything; those that have begun to delete are late from now on.       *)
LEMMA CostsCommitted ==
    ASSUME StoreInv, CostInv, NEW i \in Importers, CommitImport(i) \/ CommitInDoubt(i)
    PROVE  CostInv'
<1> USE SessionFacts, CostTablesAreTables
<1>1. /\ UNCHANGED <<req, todo>> /\ Forget(i) /\ db' = [t \in Tables |-> Sees(i, t)]
      /\ latest' = req[i].batch /\ mixed' = (i \in late)
      /\ late' = {j \in Importers \ {i} : at[j] \in AfterDelete}
  BY DEF CommitImport, CommitInDoubt, Committed, Commit
<1>2. /\ \A j \in Importers \ {i} : at'[j] = at[j]
      /\ at[i] = "commit" /\ at'[i] \in {"answer", "idle"}
  BY DEF StoreInv, ThreadsShape, CommitImport, CommitInDoubt, Committed, Answer, Goto
<1>3. /\ \A u \in Sessions \ {i} : ins'[u] = ins[u] /\ del'[u] = del[u]
      /\ \A t \in Tables : ins'[i][t] = {} /\ del'[i][t] = {}
  BY <1>1, ForgetEffect DEF StoreInv
<1>4. \A j \in Importers : CostPart(j)'
  <2>1. SUFFICES ASSUME NEW j \in Importers PROVE CostPart(j)'
    OBVIOUS
  <2>2. CASE j = i
    <3>1. UniqueCosts(i)'
      BY <1>1, <1>2 DEF CostInv, CostPart, UniqueCosts
    <3>2. QED
      BY <1>2, <1>3, <2>2, <3>1 DEF CostPart, Replacing, Putting
  <2>3. CASE j # i
    <3>1. /\ ins'[j] = ins[j] /\ del'[j] = del[j] /\ at'[j] = at[j]
          /\ req'[j] = req[j] /\ todo'[j] = todo[j] /\ CostPart(j)
      BY <1>1, <1>2, <1>3, <2>3 DEF CostInv
    <3>2. /\ UniqueCosts(j)' <=> UniqueCosts(j)
          /\ OnlyTheirs(j)' <=> OnlyTheirs(j)
      BY <3>1 DEF UniqueCosts, OnlyTheirs
    <3>3. WrittenOrWaiting(j)' <=> WrittenOrWaiting(j)
      BY <3>1 DEF WrittenOrWaiting, Waits
    <3>4. QED
      BY <3>1, <3>2, <3>3 DEF CostPart
  <2>4. QED
    BY <2>2, <2>3
<1>5. \A j \in Importers \ late' : Abreast(j)'
  BY <1>1, <1>2 DEF Abreast, AfterDelete, Replacing
<1>6. CostsOfTheLatest'
  <2>1. SUFFICES ASSUME i \notin late, NEW x \in db'["snapshots"], x.key = req[i].batch,
                        NEW t \in CostTables
                 PROVE  db'[t] = x.val[t]
    BY <1>1 DEF CostsOfTheLatest
  <2>2. ins[i]["snapshots"] = {SnapshotRow(req[i])} /\ del[i]["snapshots"] = {}
    BY <1>2 DEF StoreInv, ImporterRows, KeptTables
  <2>3. db'["snapshots"] = Without(db["snapshots"], {req[i].batch}) \cup {SnapshotRow(req[i])}
    <3>1. KeysOf({SnapshotRow(req[i])}) = {req[i].batch}
      BY DEF KeysOf, SnapshotRow, Row
    <3>2. db'["snapshots"] = Sees(i, "snapshots")
      BY <1>1 DEF Tables
    <3>3. QED
      BY <2>2, <3>1, <3>2 DEF Sees
  <2>4. x = SnapshotRow(req[i])
    BY <2>1, <2>3 DEF Without
  <2>5. x.val = req[i].rows
    BY <2>4 DEF SnapshotRow, Row
  <2>6. del[i][t] = db[t]
    BY <1>2, <2>1 DEF CostInv, Abreast, Replacing
  <2>7. db'[t] = ins[i][t]
    BY <1>1, <2>6 DEF Sees, Without
  <2>8. WrittenOrWaiting(i) /\ OnlyTheirs(i) /\ todo[i] = {}
    BY <1>2 DEF CostInv, CostPart, Putting
  <2>9. ins[i][t] = req[i].rows[t]
    <3>1. ins[i][t] \subseteq req[i].rows[t]
      BY <2>1, <2>8 DEF OnlyTheirs
    <3>2. \A y \in req[i].rows[t] : y \in ins[i][t]
      BY <2>1, <2>8 DEF WrittenOrWaiting, Waits
    <3>3. QED
      BY <3>1, <3>2
  <2>10. QED
    BY <2>5, <2>7, <2>9
<1>7. QED
  BY <1>4, <1>5, <1>6 DEF CostInv

-----------------------------------------------------------------------------
(* The others: a puller has no rows of costs, and a dead process has none. *)
LEMMA CostAside ==
    ASSUME CostInv, UNCHANGED importer,
           \A t \in CostTables : db'[t] = db[t], db'["snapshots"] = db["snapshots"],
           \A i \in Importers : ins'[i] = ins[i] /\ del'[i] = del[i]
    PROVE  CostInv'
<1>1. UNCHANGED <<at, req, seen, todo, latest, late, mixed>>
  BY DEF importer, history
<1>2. \A j \in Importers : CostPart(j)'
  <2>1. SUFFICES ASSUME NEW j \in Importers PROVE CostPart(j)'
    OBVIOUS
  <2>2. CostPart(j) /\ ins'[j] = ins[j] /\ del'[j] = del[j]
    BY DEF CostInv
  <2>3. /\ UniqueCosts(j)' <=> UniqueCosts(j)
        /\ OnlyTheirs(j)' <=> OnlyTheirs(j)
        /\ WrittenOrWaiting(j)' <=> WrittenOrWaiting(j)
    BY <1>1, <2>2 DEF UniqueCosts, OnlyTheirs, WrittenOrWaiting, Waits
  <2>4. QED
    BY <1>1, <2>2, <2>3 DEF CostPart
<1>3. \A j \in Importers \ late' : Abreast(j)'
  BY <1>1 DEF CostInv, Abreast
<1>4. CostsOfTheLatest'
  BY <1>1 DEF CostInv, CostsOfTheLatest
<1>5. QED
  BY <1>2, <1>3, <1>4 DEF CostInv

LEMMA CostPullers ==
    ASSUME StoreInv, CostInv, NEW p \in Pullers, PullerMoves(p), Alike PROVE CostInv'
<1> USE SessionFacts, CostTablesAreTables
<1>1. \A t \in ImportTables : db'[t] = db[t]
  BY PullerSpares
<1>2. \A u \in Sessions \ {p} : ins'[u] = ins[u]
  <2>1. CASE CopyProducts(p)
    BY <2>1, WriteEffect DEF StoreInv, CopyProducts, Insert
  <2>2. CASE ReadTooMuch(p) \/ CommitPull(p) \/ PullRefused(p) \/ PullBreaks(p)
    BY <2>2, ForgetEffect DEF StoreInv, ReadTooMuch, CommitPull, Commit, PullRefused, PullBreaks,
            PullFails, Rollback
  <2>3. CASE StartHttp(p) \/ TriggerProductCatalog(p) \/ BeginPull(p) \/ ReadPage(p)
             \/ DeleteProducts(p) \/ ProductsDeleted(p)
    BY <2>3 DEF StartHttp, TriggerProductCatalog, BeginPull, ReadPage, DeleteProducts,
            ProductsDeleted, Delete, tables
  <2>4. QED
    BY <2>1, <2>2, <2>3 DEF PullerMoves, PullStep
<1>3. \A u \in Sessions \ {p} : del'[u] = del[u]
  <2>1. CASE ProductsDeleted(p)
    BY <2>1, DeleteEffect DEF StoreInv, ProductsDeleted
  <2>2. CASE ReadTooMuch(p) \/ CommitPull(p) \/ PullRefused(p) \/ PullBreaks(p)
    BY <2>2, ForgetEffect DEF StoreInv, ReadTooMuch, CommitPull, Commit, PullRefused, PullBreaks,
            PullFails, Rollback
  <2>3. CASE StartHttp(p) \/ TriggerProductCatalog(p) \/ BeginPull(p) \/ ReadPage(p)
             \/ DeleteProducts(p) \/ CopyProducts(p)
    BY <2>3 DEF StartHttp, TriggerProductCatalog, BeginPull, ReadPage, DeleteProducts,
            CopyProducts, Insert, tables
  <2>4. QED
    BY <2>1, <2>2, <2>3 DEF PullerMoves, PullStep
<1>4. \A i \in Importers : ins'[i] = ins[i] /\ del'[i] = del[i]
  BY <1>2, <1>3
<1>5. /\ \A t \in CostTables : db'[t] = db[t]
      /\ db'["snapshots"] = db["snapshots"] /\ UNCHANGED importer
  BY <1>1 DEF ImportTables, Alike
<1>6. QED
  BY <1>4, <1>5, CostAside

LEMMA CostCrash == ASSUME StoreInv, CostInv, Crash PROVE CostInv'
<1> USE SessionFacts, CostTablesAreTables
<1>1. UNCHANGED <<db, req, latest, mixed>> /\ \A i \in Importers : at'[i] = "idle"
  BY DEF Crash, DbCrash, ImportCrash
<1>2. \A i \in Importers, t \in CostTables : ins'[i][t] = {} /\ del'[i][t] = {}
  BY DEF Crash, DbCrash, NoRows
<1>3. \A i \in Importers : CostPart(i)' /\ Abreast(i)'
  BY <1>1, <1>2 DEF CostPart, Abreast, Replacing, Putting
<1>4. CostsOfTheLatest'
  BY <1>1 DEF CostInv, CostsOfTheLatest
<1>5. QED
  BY <1>3, <1>4 DEF CostInv

LEMMA InitCosts == Init => CostInv
<1> USE SessionFacts, CostTablesAreTables
<1> SUFFICES ASSUME Init PROVE CostInv
  OBVIOUS
<1>1. \A i \in Importers : at[i] = "idle"
  BY DEF Init, ImportInit
<1>2. \A i \in Importers, t \in CostTables : ins[i][t] = {} /\ del[i][t] = {}
  BY DEF Init, DbInit, NoRows
<1>3. \A i \in Importers : CostPart(i) /\ Abreast(i)
  BY <1>1, <1>2 DEF CostPart, Abreast, Replacing, Putting
<1>4. db["snapshots"] = {}
  BY DEF Init, Tables, CatalogTables
<1>5. QED
  BY <1>3, <1>4 DEF CostInv, CostsOfTheLatest

LEMMA CostStep == StoreInv /\ CostInv /\ [Next]_vars => CostInv'
<1> SUFFICES ASSUME StoreInv, CostInv, [Next]_vars PROVE CostInv'
  OBVIOUS
<1>1. ASSUME NEW i \in Importers, ImporterMoves(i) PROVE CostInv'
  <2>1. CASE Ask(i) \/ Pull(i) \/ Check(i)
    BY <2>1, EarlySteps
  <2>2. CASE DeleteCosts(i)
    BY <2>2, DeleteBegins
  <2>3. CASE CostsDeleted(i)
    BY <2>3, DeleteEnds
  <2>4. CASE UpsertWarehouses(i)
    BY <2>4, WarehousesPut
  <2>5. CASE InsertStocks(i)
    BY <2>5, StocksPut
  <2>6. CASE PutCost(i)
    BY <2>6, CostPut
  <2>7. CASE InsertSnapshot(i)
    BY <2>7, SnapshotPut
  <2>8. CASE CommitImport(i) \/ CommitInDoubt(i)
    BY <2>8, CostsCommitted
  <2>9. CASE ImportRefused(i) \/ ImportFails(i)
    BY <2>9, Undone DEF ImportRefused, ImportFails
  <2>10. CASE Imported(i)
    BY <2>10, CostsAnswered
  <2>11. QED
    BY <1>1, <2>1, <2>2, <2>3, <2>4, <2>5, <2>6, <2>7, <2>8, <2>9, <2>10 DEF ImporterMoves, ImportStep
<1>2. ASSUME UNCHANGED <<tables, importer>> PROVE CostInv'
  BY <1>2, CostAside DEF tables
<1>3. CASE \E i \in crew \cap Importers : ImporterMoves(i) /\ UNCHANGED <<puller, onec, crew, crashes>>
  BY <1>1, <1>3
<1>4. CASE \E p \in crew \cap Pullers : PullerMoves(p) /\ UNCHANGED <<importer, filters, crew, crashes>>
  BY <1>4, CostPullers DEF Alike
<1>5. CASE EditAllowed
  BY <1>2, <1>5 DEF EditAllowed
<1>6. CASE OnecChanges /\ UNCHANGED <<importer, filters, crew, crashes>>
  BY <1>2, <1>6 DEF OnecChanges
<1>7. CASE Crash
  BY <1>7, CostCrash
<1>8. CASE UNCHANGED vars
  BY <1>2, <1>8 DEF vars
<1>9. QED
  BY <1>3, <1>4, <1>5, <1>6, <1>7, <1>8 DEF Next

(* The costs in the tables are those of the snapshot committed last,       *)
(* whenever its DELETE was not older than the commit before it: for any    *)
(* number of imports, whatever fails and dies between their statements.    *)
THEOREM CostsAreOfTheLatest == Spec => []CostsOfTheLatest
<1>1. CostInv => CostsOfTheLatest
  BY DEF CostInv
<1>2. Spec => []CostInv
  BY StoreAlways, InitCosts, CostStep, PTL DEF Spec
<1>3. QED
  BY <1>1, <1>2, PTL
=============================================================================

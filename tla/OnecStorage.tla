---------------------------- MODULE OnecStorage ----------------------------
(***************************************************************************)
(* The imports of snapshots and the pulls of the catalogue, over the       *)
(* tables and the connections they share.  `crew' is the set of threads    *)
(* that a behaviour is about: a bound, so that not all of them meet.       *)
(***************************************************************************)
EXTENDS SnapshotImport, ProductCatalog

CONSTANTS Crews,      \* bound: the threads that meet, and the requests there are
          FirstKeys,  \* the catalogues the tables may hold at the start
          MaxCrashes  \* bound: deaths of the process

ASSUME StorageAssumption ==
    /\ \A c \in Crews : c.threads \subseteq Sessions /\ c.requests \in Nat
    /\ \A c \in FirstKeys : \A t \in CatalogTables : IsTable(c[t])
    /\ MaxEdits \in Nat /\ MaxChanges \in Nat /\ MaxCrashes \in Nat

VARIABLES crew, crashes

vars == <<tables, importer, filters, puller, onec, crew, crashes>>

Init ==
    /\ \E c \in FirstKeys : db = [t \in Tables |-> IF t \in CatalogTables THEN c[t] ELSE {}]
    /\ DbInit /\ ImportInit /\ CatalogInit
    /\ \E c \in Crews : crew = c.threads /\ quota = c.requests
    /\ crashes = 0

---------------------------------------------------------------------------
ImportStep(i) == Pull(i) \/ Check(i) \/ DeleteCosts(i) \/ CostsDeleted(i) \/ UpsertWarehouses(i)
                 \/ InsertStocks(i) \/ PutCost(i) \/ InsertSnapshot(i) \/ CommitImport(i)
                 \/ CommitInDoubt(i) \/ Imported(i) \/ ImportRefused(i)

PullStep(p) == BeginPull(p) \/ ReadPage(p) \/ ReadTooMuch(p) \/ DeleteProducts(p)
               \/ ProductsDeleted(p) \/ CopyProducts(p) \/ CommitPull(p) \/ PullRefused(p)

ImporterMoves(i) == Ask(i) \/ ImportStep(i) \/ ImportFails(i)
PullerMoves(p) == StartHttp(p) \/ TriggerProductCatalog(p) \/ PullStep(p) \/ PullBreaks(p)

\* The process dies and is started again.
Crash ==
    /\ crashes < MaxCrashes /\ crashes' = crashes + 1
    /\ DbCrash /\ ImportCrash /\ CatalogCrash
    /\ UNCHANGED crew

Next ==
    \/ \E i \in crew \cap Importers : ImporterMoves(i) /\ UNCHANGED <<puller, onec, crew, crashes>>
    \/ \E p \in crew \cap Pullers : PullerMoves(p) /\ UNCHANGED <<importer, filters, crew, crashes>>
    \/ /\ crew \cap Importers # {} /\ EditAllowed
       /\ UNCHANGED <<puller, onec, crew, crashes>>
    \/ /\ crew \cap Pullers # {} /\ OnecChanges
       /\ UNCHANGED <<importer, filters, crew, crashes>>
    \/ Crash

Spec == Init /\ [][Next]_vars

---------------------------------------------------------------------------
TypeOK ==
    /\ AreTables(db, Tables)
    /\ \A s \in Sessions : AreTables(ins[s], Tables) /\ AreTables(del[s], Tables)
    /\ leases \subseteq Sessions /\ Cardinality(leases) <= PoolSize
    /\ \A i \in Importers :
         /\ req[i].batch \in Batches \cup {"none"} /\ AreTables(req[i].rows, ContentTables)
         /\ AreTables(seen[i], CostTables)
         /\ \A w \in todo[i] : \E t \in CostTables : AreTables(w, {t})
    /\ \A p \in Pullers : AreTables(sight[p], CatalogTables)
    /\ at \in [Importers -> Places]
    /\ reply \in [Importers -> {"none", "empty", "failed", "duplicate", "imported", "lost"}]
    /\ quota \in Nat /\ edits \in 0 .. MaxEdits
    /\ allowed \subseteq Warehouses
    /\ place \in [Pullers -> PullerPlaces]
    /\ pcRunning \in BOOLEAN
    /\ changes \in 0 .. MaxChanges /\ crashes \in 0 .. MaxCrashes
    /\ crew \subseteq Sessions

\* The snapshot that was committed last has all its stocks in the table, and
\* every stock there comes from the record of the snapshot that it names, in
\* a warehouse the table of warehouses has: whatever two imports of one batch,
\* or of one SKU, do to each other, none leaves a stock nobody measured.
StocksOf(x) == StockRows([batch |-> x.key, rows |-> x.val])
StocksAreRecorded ==
    /\ \A x \in db["snapshots"] : x.key = latest => StocksOf(x) \subseteq db["stocks"]
    /\ \A r \in db["stocks"] :
         /\ \E x \in db["snapshots"] : x.key = r.val.batch /\ r \in StocksOf(x)
         /\ r.key[2] \in KeysOf(db["warehouses"])

\* The table holds the latest stocks (sql/002_inventory.sql): of a SKU that
\* the snapshot committed last has a stock of, it has the stocks of that
\* snapshot and no older ones.
StocksAreTheLatest ==
    \A x \in db["snapshots"], old \in db["stocks"] :
        (x.key = latest /\ \E new \in StocksOf(x) : new.key[1] = old.key[1])
            => old \in StocksOf(x)

\* What a client is told is so: `imported' and `duplicate' mean that the
\* very content it sent is recorded under its batch.
AnswersTrue ==
    \A i \in Importers : reply[i] \in {"imported", "duplicate"}
                           => SnapshotRow(req[i]) \in db["snapshots"]

\* The costs are those of the snapshot that was committed last, unless that
\* one had begun to delete the costs when another one was committed.
CostsOfTheLatest ==
    mixed \/ \A x \in db["snapshots"] :
               x.key = latest => \A t \in CostTables : db[t] = x.val[t]

\* The catalogue is one that a puller read and committed, or the first one,
\* and never a half of one or two of them.  What tells two readings at once
\* apart is the unique keys, so any two of them must share a product: two that
\* have neither an identifier nor a code in common could both be committed.
Current == [t \in CatalogTables |-> db[t]]
Disjoint(a, b) == \A t \in CatalogTables : KeysOf(a[t]) \cap KeysOf(b[t]) = {}
IsEmptyReading(a) == \A t \in CatalogTables : a[t] = {}
Strangers == \E a, b \in published : ~IsEmptyReading(a) /\ ~IsEmptyReading(b) /\ Disjoint(a, b)
CatalogueIsOneReading == Strangers \/ Current \in published

\* A thread that is not in a transaction holds no connection, no row and no
\* flag, whatever way the transaction ended.
Working(s) == IF s \in Importers THEN at[s] \in InTransaction ELSE place[s] \in Pulling
NothingIsLeaked ==
    /\ \A s \in Sessions : s \in leases \/ \A t \in Tables : Held(s, t) = {}
    /\ \A s \in leases : Working(s)
    /\ pcRunning => \E p \in SsePullers : place[p] \in {"queued"} \cup Pulling

\* What the client of an importer sees of it: the snapshot it has asked to be
\* recorded, and its answer or how far the request is.
Asking(i) == IF at[i] \in {"check", "answer"} \cup InTransaction THEN {req[i]} ELSE {}
Progress(i) == CASE at[i] = "idle" -> reply[i]
                 [] at[i] = "answer" -> "recorded"
                 [] OTHER -> "waiting"

Requests == [i \in Importers |-> Asking(i)]
Answers == [i \in Importers |-> Progress(i)]

Ledger == INSTANCE SnapshotLedger WITH
            Clients <- Importers, ledger <- db["snapshots"], stocks <- db["stocks"],
            sent <- Requests, answer <- Answers

\* The imports implement the ledger that their clients rely on: an import takes
\* effect in one step, that of its COMMIT, whatever its transaction looks like
\* and whoever learns of its end, and what it has recorded stays.
LedgerIsKept == Ledger!Spec
=============================================================================

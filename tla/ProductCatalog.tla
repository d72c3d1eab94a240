--------------------------- MODULE ProductCatalog ---------------------------
(***************************************************************************)
(* The pull of the product catalogue from 1C                               *)
(* (src/onec_product_catalog.cpp): the pages are read with the connection  *)
(* already leased and the transaction open, the rows are normalised, and   *)
(* the table is replaced in that transaction.  Two callers run it:         *)
(*   - POST /api/onec/product-catalog/pull (src/handlers.cpp) starts a     *)
(*     thread for every request; an inventory pull begins with the same    *)
(*     code.  A catalogue longer than the limit is an error there;         *)
(*   - SyncService::trigger_product_catalog_pull, which no route calls     *)
(*     yet, lets one run at a time (pc_running_), and reads no further     *)
(*     than the limit.                                                     *)
(*                                                                         *)
(* A puller pulls once.  The UPDATEs that follow the insert join a SKU,    *)
(* which is the identifier of a product in 1C, with the article of a       *)
(* product, which is not one: they find no row and are left out.           *)
(***************************************************************************)
EXTENDS OnecTables, Sequences
LOCAL INSTANCE SequencesExt

CONSTANTS Catalogues,   \* what the catalogue of 1C may be: sequences of rows
          FirstCatalogue, \* what it is at the start
          PageSize,     \* rows of a page
          MaxRows,      \* kMaxRows, PullOptions::max_rows
          MaxChanges    \* bound: changes of the catalogue in 1C

ASSUME CatalogAssumption == PageSize \in Nat \ {0} /\ MaxRows \in Nat \ {0}

VARIABLES place,       \* where a puller is
          got,         \* the rows it has read
          sight,       \* the rows its DELETE saw, while they are there
          pcRunning,   \* pc_running_
          catalogue,   \* the catalogue in 1C
          changes,
          published    \* history: the catalogues that were committed

puller == <<place, got, sight, pcRunning, published>>
onec == <<catalogue, changes>>

CatalogTables == {"ref", "code"}
Pulling == {"reading", "delete", "deleting", "copy", "commit"}
PullerPlaces == {"idle", "queued", "done", "failed", "refused"} \cup Pulling

NoSight == [t \in CatalogTables |-> {}]
CatalogInit ==
    /\ place = [p \in Pullers |-> "idle"] /\ got = [p \in Pullers |-> <<>>]
    /\ sight = [p \in Pullers |-> NoSight] /\ pcRunning = FALSE
    /\ catalogue = FirstCatalogue /\ changes = 0
    /\ published = {[t \in CatalogTables |-> db[t]]}

\* A row is [code, ref, kind]; a folder or a row marked for deletion is not
\* kept, a row without a code or with an identifier that is no UUID is
\* dropped when the rows are normalised.
Kept(rows) == SelectSeq(rows, LAMBDA r : r.kind # "folder")

\* normalize_onec_product_catalog: the last row of an identifier counts, and
\* a code that any row gives to two identifiers is ambiguous.
Normalize(rows) ==
    LET valid == SelectSeq(rows, LAMBDA r : r.kind = "product")
        LastOf(ref) == SelectLastInSeq(valid, LAMBDA r : r.ref = ref)
        lasts == {valid[LastOf(ref)] : ref \in {r.ref : r \in ToSet(valid)}}
        Ambiguous(code) == Cardinality({r.ref : r \in {x \in ToSet(valid) : x.code = code}}) > 1
        records == {r \in lasts : ~Ambiguous(r.code)}
    IN  [ref |-> {Row(r.ref, r.code) : r \in records},
         code |-> {Row(r.code, r.ref) : r \in records}]

Records(p) == Normalize(Kept(got[p]))

Move(p, x) == place' = [place EXCEPT ![p] = x]

---------------------------------------------------------------------------
\* The handler: any number of threads.
StartHttp(p) ==
    /\ p \in HttpPullers /\ place[p] = "idle"
    /\ Move(p, "queued")
    /\ UNCHANGED <<tables, got, sight, pcRunning, published, onec>>

\* trigger_product_catalog_pull: one at a time, on a worker of the pool.  It
\* is refused while one runs, at a shutdown, and by a pool that is full.
TriggerProductCatalog(p) ==
    /\ p \in SsePullers /\ place[p] = "idle"
    /\ \/ ~pcRunning /\ pcRunning' = TRUE /\ Move(p, "queued")
       \/ UNCHANGED pcRunning /\ Move(p, "refused")
    /\ UNCHANGED <<tables, got, sight, published, onec>>

\* The lease, and the transaction with it.
BeginPull(p) ==
    /\ place[p] = "queued"
    /\ Acquire(p)
    /\ Move(p, "reading")
    /\ UNCHANGED <<db, ins, del, got, sight, pcRunning, published, onec>>

EndPullUnguarded(p, x) ==
    /\ Move(p, x)
    /\ pcRunning' = IF p \in SsePullers /\ x = "done" THEN FALSE ELSE pcRunning

\* The end of a pull: the guard of the SSE variant clears its flag.
EndPull(p, x) ==
    /\ Move(p, x)
    /\ pcRunning' = IF p \in SsePullers THEN FALSE ELSE pcRunning

\* One page of the catalogue as it is now; a short one is the last.
NextPage(p) ==
    LET offset == Len(got[p])
        end == IF Len(catalogue) < offset + PageSize THEN Len(catalogue) ELSE offset + PageSize
    IN  SubSeq(catalogue, offset + 1, end)

\* read_all_rows, of the handler, takes a catalogue that reaches the limit
\* for an error.
TooLong(p) == p \in HttpPullers /\ Len(got[p]) + PageSize >= MaxRows /\ Len(NextPage(p)) = PageSize

ReadTooMuch(p) ==
    /\ place[p] = "reading" /\ TooLong(p)
    /\ got' = [got EXCEPT ![p] = @ \o NextPage(p)]
    /\ Rollback(p) /\ EndPull(p, "failed")
    /\ UNCHANGED <<sight, published, onec>>

\* The other reader goes on with what it has.
ReadPage(p) ==
    /\ place[p] = "reading" /\ ~TooLong(p)
    /\ got' = [got EXCEPT ![p] = @ \o NextPage(p)]
    /\ Move(p, IF Len(NextPage(p)) < PageSize \/ Len(got'[p]) >= MaxRows THEN "delete"
               ELSE "reading")
    /\ UNCHANGED <<tables, sight, pcRunning, published, onec>>

DeleteProducts(p) ==
    /\ place[p] = "delete"
    /\ sight' = [sight EXCEPT ![p] = [t \in CatalogTables |-> Sees(p, t)]]
    /\ Move(p, "deleting")
    /\ UNCHANGED <<tables, got, pcRunning, published, onec>>

ProductsDeleted(p) ==
    /\ place[p] = "deleting"
    /\ Delete(p, sight[p])
    /\ sight' = [sight EXCEPT ![p] = NoSight]
    /\ Move(p, "copy")
    /\ UNCHANGED <<got, pcRunning, published, onec>>

UpsertProducts(p) ==
    /\ place[p] = "copy"
    /\ Upsert(p, Records(p))
    /\ Move(p, "commit")
    /\ UNCHANGED <<got, sight, pcRunning, published, onec>>

CopyProducts(p) ==
    /\ place[p] = "copy"
    /\ Insert(p, Records(p))
    /\ Move(p, "commit")
    /\ UNCHANGED <<got, sight, pcRunning, published, onec>>

\* The COMMIT; the connection may break under it, after it took effect.
CommitPull(p) ==
    /\ place[p] = "commit"
    /\ Commit(p)
    /\ EndPull(p, "done") \/ EndPull(p, "failed")
    /\ sight' = [q \in Pullers |-> [t \in CatalogTables |-> Survivors(p, t, sight[q][t])]]
    /\ published' = published \cup {Records(p)}
    /\ UNCHANGED <<got, onec>>

\* An exception: a page that cannot be had, a code or an identifier that
\* another transaction inserted, an error of the database.
CatalogRefused(p) == place[p] = "copy" /\ Free(p, Records(p)) /\ Clashes(p, Records(p))

PullFails(p) ==
    /\ Rollback(p)
    /\ EndPull(p, "failed")
    /\ sight' = [sight EXCEPT ![p] = NoSight]
    /\ UNCHANGED <<got, published, onec>>

PullRefused(p) == CatalogRefused(p) /\ PullFails(p)
PullBreaks(p) == place[p] \in Pulling /\ PullFails(p)

---------------------------------------------------------------------------
\* The goods of 1C are edited while a pull turns its pages.
OnecChanges ==
    /\ changes < MaxChanges /\ changes' = changes + 1
    /\ catalogue' \in Catalogues \ {catalogue}
    /\ UNCHANGED <<tables, puller>>

CatalogCrash ==
    /\ place' = [p \in Pullers |-> IF place[p] \in {"queued"} \cup Pulling
                                   THEN "failed" ELSE place[p]]
    /\ got' = [p \in Pullers |-> <<>>]
    /\ sight' = [p \in Pullers |-> NoSight]
    /\ pcRunning' = FALSE
    /\ UNCHANGED <<published, onec>>
=============================================================================

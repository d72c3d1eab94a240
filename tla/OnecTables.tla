----------------------------- MODULE OnecTables -----------------------------
(***************************************************************************)
(* The tables the 1C side of the program writes, the connections of        *)
(* db::ConnectionPool (include/db_pool.hpp), and the part of PostgreSQL    *)
(* the repositories rely on: transactions under READ COMMITTED, where a    *)
(* statement sees what is committed when it starts and what its own        *)
(* transaction wrote, waits for the transactions that hold a key it        *)
(* writes, and fails where a unique key is taken.                          *)
(*                                                                         *)
(* The database is not part of the repository: its operators are modelled  *)
(* from how src/ uses it.  A table is a set of rows of a unique key and a  *)
(* value.  inventory1c_products has two unique keys: it is two tables      *)
(* here, `ref' and `code', written together.                               *)
(***************************************************************************)
EXTENDS Snapshot

CONSTANTS Importers,    \* threads that import a snapshot
          HttpPullers,  \* threads POST /api/onec/product-catalog/pull starts
          SsePullers,   \* threads that ask SyncService for the catalogue
          PoolSize      \* connections of the pool

Pullers == HttpPullers \cup SsePullers
Sessions == Importers \cup Pullers
Tables == {"warehouses", "stocks", "batch_cost", "supplier_cost", "snapshots", "ref", "code"}

ASSUME SessionAssumption ==
    /\ IsFiniteSet(Sessions) /\ Importers \cap Pullers = {}
    /\ HttpPullers \cap SsePullers = {}
    /\ PoolSize \in Nat \ {0}

VARIABLES db,     \* the committed rows of every table
          ins,    \* the rows a session has written and not committed
          del,    \* the rows a session has deleted and not committed
          leases  \* the sessions that hold a connection

tables == <<db, ins, del, leases>>

NoRows == [t \in Tables |-> {}]

DbInit ==
    /\ ins = [s \in Sessions |-> NoRows]
    /\ del = [s \in Sessions |-> NoRows]
    /\ leases = {}

---------------------------------------------------------------------------
(* Statements.  What a statement writes is a function from some tables to  *)
(* sets of rows.                                                           *)

Without(rows, keys) == {r \in rows : r.key \notin keys}

\* The keys a session holds until it commits or rolls back.
Held(s, t) == KeysOf(ins[s][t]) \cup KeysOf(del[s][t])

\* No other session holds a key of these rows.
Free(s, w) == \A t \in DOMAIN w, u \in Sessions \ {s} : KeysOf(w[t]) \cap Held(u, t) = {}

Sees(s, t) == Without(db[t] \ del[s][t], KeysOf(ins[s][t])) \cup ins[s][t]

Clashes(s, w) == \E t \in DOMAIN w : KeysOf(w[t]) \cap KeysOf(Sees(s, t)) # {}

Write(s, w) ==
    ins' = [ins EXCEPT ![s] =
              [t \in Tables |-> IF t \in DOMAIN w
                                THEN Without(ins[s][t], KeysOf(w[t])) \cup w[t]
                                ELSE ins[s][t]]]

\* INSERT: a key that is taken is an error, which the caller rolls back.
Insert(s, w) ==
    /\ Free(s, w) /\ ~Clashes(s, w)
    /\ Write(s, w)
    /\ UNCHANGED <<db, del, leases>>

\* INSERT ... ON CONFLICT DO UPDATE
Upsert(s, w) ==
    /\ Free(s, w)
    /\ Write(s, w)
    /\ UNCHANGED <<db, del, leases>>

\* DELETE: `w' are the rows the statement saw when it started and that are
\* still there.  It waits until nobody holds one of them.
Delete(s, w) ==
    /\ Free(s, w)
    /\ del' = [del EXCEPT ![s] =
                 [t \in Tables |-> IF t \in DOMAIN w THEN del[s][t] \cup w[t] ELSE del[s][t]]]
    /\ UNCHANGED <<db, ins, leases>>

\* What the commit of another session leaves of these rows: one that it has
\* deleted is gone, even if it has inserted an equal one; one that it has
\* updated is there in its new version.
Survivors(s, t, rows) ==
    LET kept == rows \ del[s][t]
    IN  Without(kept, KeysOf(ins[s][t])) \cup {r \in ins[s][t] : r.key \in KeysOf(kept)}

\* A lease of the pool, and the transaction that lives as long.
HasConnection == Cardinality(leases) < PoolSize
\* Mutant: a wakeup is taken for a connection.
AcquireAnyway(s) == leases' = leases \cup {s}
Acquire(s) == HasConnection /\ leases' = leases \cup {s}

Forget(s) ==
    /\ ins' = [ins EXCEPT ![s] = NoRows]
    /\ del' = [del EXCEPT ![s] = NoRows]
    /\ leases' = leases \ {s}

Commit(s) == Forget(s) /\ db' = [t \in Tables |-> Sees(s, t)]
Rollback(s) == Forget(s) /\ UNCHANGED db

\* The process dies: PostgreSQL rolls every open transaction back.
DbCrash ==
    /\ ins' = [s \in Sessions |-> NoRows]
    /\ del' = [s \in Sessions |-> NoRows]
    /\ leases' = {} /\ UNCHANGED db
=============================================================================

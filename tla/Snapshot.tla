------------------------------ MODULE Snapshot ------------------------------
(***************************************************************************)
(* What is computed between a read of 1C and the import of it: the filter  *)
(* on warehouses and the sums of pull_to_snapshot (src/handlers.cpp) and   *)
(* the content that identifies a snapshot (canonical_json of               *)
(* src/inventory_repository.cpp).  No state is kept here.                  *)
(*                                                                         *)
(* A pull is what Ka2Inventory::pull returns, a record of sets of rows:    *)
(*   warehouses  identifiers                                               *)
(*   stocks      [sku, characteristic, warehouse, quantity]                *)
(*   analytics   [ref, sku]                                                *)
(*   costs       [analytic, batch, quantity, cost]                         *)
(*   suppliers   [sku, partner, price]                                     *)
(* Quantities are whole numbers of 1/Unit of a piece.  The names of the    *)
(* goods and of the warehouses, and the times, are left out.               *)
(***************************************************************************)
EXTENDS Naturals, FiniteSets
LOCAL INSTANCE FiniteSetsExt

CONSTANT Unit   \* parts a piece of goods is counted in (a double, in the code)
ASSUME UnitAssumption == Unit \in Nat \ {0}

\* The table rows of this project: a unique key and a value.
Row(k, v) == [key |-> k, val |-> v]
KeysOf(rows) == {r.key : r \in rows}
IsTable(rows) == \A r \in rows : r = Row(r.key, r.val)
AreTables(f, names) == DOMAIN f = names /\ \A t \in names : IsTable(f[t])

\* No warehouse enabled means that all of them are (is_allowed).
IsAllowed(filter, w) == filter = {} \/ w \in filter

\* Every row is cut down to whole pieces before it is added.
Pieces(rows) == MapThenSumSet(LAMBDA s : s.quantity \div Unit, rows)

SnapshotStocks(pull, filter) ==
    LET kept == {s \in pull.stocks : IsAllowed(filter, s.warehouse)}
        At(k) == {s \in kept : <<s.sku, s.warehouse>> = k}
    IN  {Row(k, Pieces(At(k))) : k \in {<<s.sku, s.warehouse>> : s \in kept}}

\* The cost rows of a SKU, found through the analytic keys it is known by.
CostRows(pull, sku) ==
    {c \in pull.costs : [ref |-> c.analytic, sku |-> sku] \in pull.analytics}

CostedSkus(pull) == {a.sku : a \in {x \in pull.analytics :
                                      \E c \in pull.costs : c.analytic = x.ref}}

\* The average of a SKU over its batches, where both totals are positive.
CostOf(pull, sku) == MapThenSumSet(LAMBDA c : c.cost, CostRows(pull, sku))
QuantityOf(pull, sku) == MapThenSumSet(LAMBDA c : c.quantity, CostRows(pull, sku))
AverageCost(pull, sku) == (CostOf(pull, sku) * Unit) \div QuantityOf(pull, sku)

BatchCosts(pull) ==
    {Row(s, AverageCost(pull, s)) :
        s \in {x \in CostedSkus(pull) : CostOf(pull, x) > 0 /\ QuantityOf(pull, x) > 0}}

\* The lowest price of a supplier, of the SKUs that have a row of costs only.
PricesOf(pull, sku) == {p.price : p \in {x \in pull.suppliers : x.sku = sku /\ x.price > 0}}
LowestPrice(pull, sku) == Min(PricesOf(pull, sku))

SupplierCosts(pull) ==
    {Row(s, LowestPrice(pull, s)) : s \in {x \in CostedSkus(pull) : PricesOf(pull, x) # {}}}

\* The rows of a snapshot, by the table they go to.
PullToSnapshot(pull, filter) ==
    [warehouses    |-> {Row(w, w) : w \in {x \in pull.warehouses : IsAllowed(filter, x)}},
     stocks        |-> SnapshotStocks(pull, filter),
     batch_cost    |-> BatchCosts(pull),
     supplier_cost |-> SupplierCosts(pull)]

\* The part of a pull that a request for some SKUs reads.
PullOf(pull, keys) ==
    LET known == {a \in pull.analytics : a.sku \in keys}
    IN  [warehouses |-> pull.warehouses,
         stocks     |-> {s \in pull.stocks : s.sku \in keys},
         analytics  |-> known,
         costs      |-> {c \in pull.costs : \E a \in known : a.ref = c.analytic},
         suppliers  |-> {p \in pull.suppliers : p.sku \in keys}]

\* What a snapshot, a batch and its rows by table, writes: the rows of its
\* stocks name its batch; the record of it stands for its whole content.
StockRows(r) == {Row(x.key, [available |-> x.val, batch |-> r.batch]) : x \in r.rows.stocks}
SnapshotRow(r) == Row(r.batch, r.rows)
=============================================================================

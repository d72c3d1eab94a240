------------------------------ MODULE Preview ------------------------------
(***************************************************************************)
(* build_preview of src/inventory_preview.cpp: what a user is shown of a   *)
(* snapshot before it is saved.  The bound on the costs listed, the names  *)
(* offers give to the goods, and the wording are left out.                 *)
(***************************************************************************)
EXTENDS Snapshot

StockSkus(rows) == {k[1] : k \in KeysOf(rows.stocks)}
CostSkus(rows) == KeysOf(rows.batch_cost) \cup KeysOf(rows.supplier_cost)

WarehouseCount(rows) ==
    Cardinality({k[2] : k \in KeysOf(rows.stocks)} \cup KeysOf(rows.warehouses))

\* The average of the batches comes before the price of a supplier.
SelectUnitCost(rows, sku) ==
    LET cost == {x \in rows.batch_cost : x.key = sku}
        price == {x \in rows.supplier_cost : x.key = sku}
    IN  IF cost # {} THEN CHOOSE x \in cost : TRUE ELSE CHOOSE x \in price : TRUE

\* The differences between the SKUs that have stocks and those that have costs.
Warnings(rows) ==
    LET stocked == StockSkus(rows)
        costed == CostSkus(rows)
        Warn(what, who) == IF who = {} THEN {} ELSE {[what |-> what, count |-> Cardinality(who)]}
    IN  (IF stocked = {} /\ costed = {} THEN {[what |-> "empty", count |-> 0]} ELSE {})
        \cup Warn("no_cost", stocked \ costed)
        \cup Warn("no_stock", costed \ stocked)

BuildPreview(rows) ==
    [stock_rows      |-> Cardinality(rows.stocks),
     cost_rows       |-> Cardinality(CostSkus(rows)),
     sku_count       |-> Cardinality(StockSkus(rows) \cup CostSkus(rows)),
     warehouse_count |-> WarehouseCount(rows),
     costs           |-> {SelectUnitCost(rows, sku) : sku \in CostSkus(rows)},
     warnings        |-> Warnings(rows)]
=============================================================================

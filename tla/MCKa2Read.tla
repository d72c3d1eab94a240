----------------------------- MODULE MCKa2Read -----------------------------
(* The instance of Ka2Read: see the .cfg file for the bounds.              *)
EXTENDS Ka2Read, TLC

MCRequests == {<<>>, <<"A">>, <<"A", "B", "C">>}

Entry(k, v) == [key |-> k, val |-> v, good |-> TRUE]
Useless(k, v) == [key |-> k, val |-> v, good |-> FALSE]
Analytic(ref, sku) == Entry(sku, [ref |-> ref, sku |-> sku])
Cost(ref, q, c) == Entry(ref, [analytic |-> ref, batch |-> 1, quantity |-> q, cost |-> c])
Stock(s, w, q) == Entry(s, [sku |-> s, characteristic |-> 1, warehouse |-> w, quantity |-> q])
Price(s, p) == [sku |-> s, partner |-> 1, price |-> p]

\* Three pages of a flat read have two rows; A and B have three stocks, one
\* more than a page of a balance; C has no price.
MCBook ==
    [warehouses |-> <<Useless("all", "folder"), Entry("all", "w1"), Entry("all", "w2")>>,
     analytics |-> <<Analytic("a", "A"), Analytic("b1", "B"), Analytic("b2", "B"),
                     Analytic("c", "C")>>,
     costs |-> <<Cost("a", 2, 10), Cost("b1", 1, 3), Cost("b2", 1, 5), Cost("c", 2, 8)>>,
     stocks |-> <<Stock("A", "w1", 3), Stock("A", "w2", 3), Stock("B", "w1", 2),
                  Stock("C", "w2", 4)>>,
     suppliers |-> <<Useless("A", Price("A", 0)), Entry("A", Price("A", 7)),
                     Entry("B", Price("B", 5))>>]
MCBooks == {MCBook, [MCBook EXCEPT !.analytics = <<>>]}

MCNewcomers == [analytics |-> Analytic("n", "B"), suppliers |-> Entry("B", Price("B", 9))]
=============================================================================

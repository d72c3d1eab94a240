--------------------------- MODULE MCOnecStorage ---------------------------
(* The instance of OnecStorage: see the .cfg file for the bounds.          *)
EXTENDS OnecStorage, TLC

CONSTANTS i1, i2, h1, h2, s1, s2

\* One importer, two of them, or one and a puller; three pullers or two.
Crew(who, n) == [threads |-> who, requests |-> n]
MCCrews == {Crew({i1}, 3), Crew({i1, i2}, 2), Crew({i1, h1}, 1),
            Crew({h1, h2, s1}, 0), Crew({s1, s2}, 0)}

Product(c, r) == [code |-> c, ref |-> r, kind |-> "product"]
Folder(c, r) == [code |-> c, ref |-> r, kind |-> "folder"]

\* The goods A and B; A after its code went to another one as well, with a
\* folder; more than the limit.
TwoGoods == <<Product("1", "A"), Product("2", "B")>>
MCCatalogues ==
    {TwoGoods,
     <<Product("1", "A"), Product("2", "B"), Product("2", "C")>>,
     <<Product("1", "A"), Folder("9", "F"), Product("3", "B"), Product("4", "C")>>}

MCFirstKeys == {Normalize(<<>>), Normalize(TwoGoods)}

Stock(s, c, w, q) == [sku |-> s, characteristic |-> c, warehouse |-> w, quantity |-> q]
Whole == [warehouses |-> {"w1", "w2"},
          stocks |-> {Stock("A", 1, "w1", 3), Stock("A", 2, "w1", 3), Stock("B", 1, "w2", 4)},
          analytics |-> {[ref |-> "a", sku |-> "A"], [ref |-> "b", sku |-> "B"]},
          costs |-> {[analytic |-> "a", batch |-> 1, quantity |-> 2, cost |-> 10],
                     [analytic |-> "b", batch |-> 1, quantity |-> 0, cost |-> 7]},
          suppliers |-> {[sku |-> "B", partner |-> 1, price |-> 5]}]

\* The whole of it; a chunk of stocks lost; the costs, without stocks and
\* dearer; a stock in a warehouse that was not read.
MCPulls ==
    {Whole,
     [Whole EXCEPT !.stocks = {}, !.costs = {[analytic |-> "a", batch |-> 1, quantity |-> 2, cost |-> 20],
                               [analytic |-> "b", batch |-> 1, quantity |-> 2, cost |-> 9]}],
     [Whole EXCEPT !.warehouses = {"w1"}]}

\* The goods A, before and after they went from one warehouse to another.
MCMoves == {Whole, [Whole EXCEPT !.stocks = {Stock("A", 1, "w2", 3)}]}
MCAlone == {Crew({i1}, 2)}
=============================================================================

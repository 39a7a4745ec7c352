----------------------- MODULE MCCatalogTransactions -----------------------
(***************************************************************************)
(* Two runs of one product with two versions, a product of another source  *)
(* and a data set, whose rows are neighbours in every index.               *)
(***************************************************************************)
EXTENDS CatalogTransactions

CONSTANTS d1, d2, d3, g1, v1, v2

MCTx == {d1, d2, d3, g1}
MCDevice == {d1, d2, d3}
MCProduct == 1..3
MCProductOf == [t \in MCTx |-> CASE t = d3 -> 2 [] t = g1 -> 3 [] OTHER -> 1]
MCVersion == {v1, v2}
MCVersionOf == [t \in MCTx |-> IF t = d2 THEN v2 ELSE v1]
=============================================================================

---------------------------- MODULE MCPriceLedger -----------------------------
(* Instances of PriceLedger for TLC: one listing, fed by a device mall or by *)
(* a data set that quotes two regions.                                       *)
EXTENDS PriceLedger

CONSTANTS phone, cabbage, cn, bj, sh

NationalOnly == [l \in Listing |-> {cn}]
EveryRegion == [l \in Listing |-> Region]
=============================================================================

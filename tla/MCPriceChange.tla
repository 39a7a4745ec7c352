---------------------------- MODULE MCPriceChange ----------------------------
(* Amounts for TLC: 100 and 150 differ by more than 30 %, in both directions, *)
(* and 120 is near both.                                                      *)
EXTENDS PriceChange

CONSTANTS black, white, gb256

Amounts == {100, 120, 150}
=============================================================================

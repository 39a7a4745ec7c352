------------------------------ MODULE LatestPrice ------------------------------
(***************************************************************************)
(* What v2_price_current promises the reader of a device price: for every  *)
(* listing a register that is empty until the first trusted quote and then *)
(* only takes quotes of strictly later times.  A change of specification   *)
(* is a later quote like any other; nothing empties the register again.    *)
(***************************************************************************)
EXTENDS Integers

CONSTANTS
  Key,          \* listings
  Fingerprint,  \* specifications a quote may be for
  MaxTime,      \* observation times are 1..MaxTime
  None          \* the specification of an empty register

VARIABLE latest \* [Key -> quote]

Quote == [revision : Fingerprint, time : 1 .. MaxTime, id : Nat \ {0}]
NoQuote == [revision |-> None, time |-> 0, id |-> 0]

Init == latest = [k \in Key |-> NoQuote]

Post(k) ==
  /\ latest'[k] \in Quote
  /\ latest'[k].time > latest[k].time
  /\ latest' = [latest EXCEPT ![k] = latest'[k]]

Next == \E k \in Key : Post(k)

Spec == Init /\ [][Next]_latest
=============================================================================

-------------------------- MODULE MCRowPreparation --------------------------
(***************************************************************************)
(* Bounds of the run of RowPreparation and SourceCollection: every candidate *)
(* over small amounts alone on a page, pages of up to two rows with typical  *)
(* candidates, and a site of four variants that changes up to twice.         *)
(***************************************************************************)
EXTENDS SourceCollection

CONSTANTS national, province, corps, unknown, l1, l2, l3, l4, l5, red, blue, green, small, large

MCListing == {l1, l2, l3, l4, l5}
MCMapped == {l1, l2, l3}
MCRegion == {national, province, corps, unknown}

\* One market quoted in two regions, the others in one.
MCMarketOf == [v \in MCListing |-> IF v = l2 THEN l1 ELSE v]
MCQuotedIn == [v \in MCListing |-> IF v \in {l2, l4} THEN corps ELSE province]

Cand(region, price, original, type, basis, availability, fee, promo, unitPrice, unit, rejection, own) ==
  [region |-> region, price |-> price, original |-> original, type |-> type, basis |-> basis,
   availability |-> availability, fee |-> fee, promo |-> promo, unitPrice |-> unitPrice,
   unit |-> unit, rejection |-> rejection, own |-> own]

ARow(l, inScope, nature, official, identity, quantity, candidates) ==
  [listing |-> l, inScope |-> inScope, nature |-> nature, official |-> official,
   identity |-> identity, quantity |-> quantity, candidates |-> candidates]

APage(of, region, rows) == [kind |-> of, region |-> region, rows |-> rows]

\* Every candidate, with a price of 2, below or above the original one, and
\* a quantity of 3, which does not divide it, or of 9, for which the unit price
\* rounds to zero.
UnitPrices == {<<None, None>>, <<2, "proven">>, <<1, "proven">>, <<2, "other">>}
AllCandidates ==
  {Cand(r, p, o, t, b, a, f, m, u[1], u[2], None, None) :
     r \in {None, unknown}, p \in {None, 2}, o \in {None, 1},
     t \in {"DIRECT_UNCONDITIONAL", "PUBLISHED_VALUE", "AVAILABILITY_ONLY", "COUPON"},
     b \in {"PACKAGE_TOTAL", "UNIT_QUOTED", "UNKNOWN"},
     a \in {"ON_SALE", "OFF_SHELF"}, f \in {"ITEM_ONLY", "NOT_APPLICABLE", "INSEPARABLE"},
     m \in BOOLEAN, u \in UnitPrices}

SinglePages ==
  {APage("dataset", None, <<ARow(l1, TRUE, n, TRUE, "ACCEPTED", q, <<[c EXCEPT !.region = IF @ = None THEN national ELSE @]>>)>>) :
     c \in AllCandidates, n \in {"RETAIL_OFFER", "MARKET_AVERAGE", "UNKNOWN"}, q \in {None, 3, 9}}

\* A trusted price, one with a condition, one refused by its source, one with
\* evidence of its own, an absence.
Plain(r) == Cand(r, 2, None, "DIRECT_UNCONDITIONAL", "PACKAGE_TOTAL", "ON_SALE", "ITEM_ONLY", FALSE, None, None, None, None)
Typical ==
  {Plain(None), Plain(unknown), [Plain(None) EXCEPT !.type = "COUPON"], [Plain(None) EXCEPT !.rejection = "SOURCE"],
   [Plain(None) EXCEPT !.own = 1],
   Cand(national, None, None, "AVAILABILITY_ONLY", "UNKNOWN", "OFF_SHELF", "NOT_APPLICABLE", FALSE, None, None, None, None)}

Single == {<<c>> : c \in Typical}
Double == {<<c, d>> : c \in Typical, d \in Typical}

TypicalRows(l, lists) ==
  {ARow(l, TRUE, "RETAIL_OFFER", TRUE, i, 1, c) : i \in {"ACCEPTED", "REVIEW_REQUIRED"}, c \in lists}
    \cup {ARow(l, s, "RETAIL_OFFER", ~ s, "ACCEPTED", 1, <<Plain(None)>>) : s \in BOOLEAN}

MultiPages ==
  {APage(k, r, <<x, y>>) : k \in {"product", "dataset"}, r \in {national, None},
                           x \in TypicalRows(l1, Single \cup Double),
                           y \in TypicalRows(l2, Single) \cup {ARow(l1, TRUE, "RETAIL_OFFER", TRUE, "ACCEPTED", 1, <<Plain(None)>>)}}

MCPages == SinglePages \cup MultiPages

\* Two sizes of red, a blue and a green one without, and one without any option.
MCSpec ==
  [v \in MCListing |->
     CASE v = l1 -> <<red, small>> [] v = l2 -> <<red, large>>
       [] v = l3 -> <<blue, None>> [] v = l4 -> <<None, None>>
       [] v = l5 -> <<green, None>>]

All(p) == [v \in {l1, l2, l3} |-> p]

\* Everything, at another price, fewer or more SKUs, one not sold, one silent.
MCPublished ==
  {All(1), [All(1) EXCEPT ![l2] = 2], [v \in {l1, l2} |-> 1], [v \in {l2} |-> 1],
   [v \in {l4} |-> 1], [v \in {l1, l2, l3, l5} |-> 1],
   [All(1) EXCEPT ![l1] = None], [All(1) EXCEPT ![l1] = Silent]}
=============================================================================

------------------------------ MODULE PriceChange ------------------------------
(***************************************************************************)
(* The confirmation of a large price change of one device product:         *)
(* _process_unit and price_change_requires_confirmation.                   *)
(*                                                                         *)
(* The page of the product is compared with the newest trusted price of    *)
(* every listing and specification it shows.  If one of them moved by more *)
(* than the threshold the whole page is set aside and fetched once more;   *)
(* only a later, complete page that says the same of every listing is      *)
(* stored as trusted, else the whole second page is held for review.       *)
(*                                                                         *)
(* The dates of pages matter only through what they are later than, so a   *)
(* page comes with the listings it is news for, and no clock is needed.    *)
(***************************************************************************)
EXTENDS Integers

CONSTANTS
  Listing,           \* SKUs of the product
  Specification,     \* specifications (identity fingerprints) a page may show
  Price,             \* amounts
  ThresholdPercent,  \* price_change_threshold
  None               \* no amount: the row only says "off shelf"

ASSUME PriceAssumption ==
  /\ Price \subseteq Nat \ {0}
  /\ None \notin Price
  /\ ThresholdPercent \in Nat

VARIABLES
  shop,    \* [Listing -> row]: what the mall really says, unknown to the code
  quoted,  \* [Listing -> [Specification -> newest trusted amount, or None]]
  first    \* the page that waits for its confirmation, or NoPage

vars == <<shop, quoted, first>>

\* A trusted row has an amount or is off shelf; nothing reads an amount that
\* the price policy rejected.
TrustedRow == [spec : Specification, price : Price \cup {None}, trusted : {TRUE}]
RejectedRow == [spec : Specification, price : {None}, trusted : {FALSE}]

\* Pages show some listings of the product.
Pages ==
  UNION {[shown -> TrustedRow \cup RejectedRow] : shown \in (SUBSET Listing) \ {{}}}
NoPage == [l \in {} |-> None]

Complete(page) == \A l \in DOMAIN page : page[l].trusted

Priced(page) == {l \in DOMAIN page : page[l].trusted /\ page[l].price # None}

Distance(p, q) == IF p > q THEN p - q ELSE q - p

Large(old, new) == Distance(old, new) * 100 > old * ThresholdPercent

-----------------------------------------------------------------------------
\* price_change_requires_confirmation, for a page that is later than the newest
\* trusted price of the listings in newer.  A specification without a trusted
\* price has nothing to compare with, an earlier page is history.
NeedsConfirmation(page, newer) ==
  \E l \in Priced(page) \cap newer :
    /\ quoted[l][page[l].spec] # None
    /\ Large(quoted[l][page[l].spec], page[l].price)

\* The newest trusted amounts once the page is stored.
Adopted(page, newer) ==
  [l \in Listing |-> [s \in Specification |->
     IF /\ l \in Priced(page) /\ page[l].spec = s
        /\ l \in newer \/ quoted[l][s] = None
     THEN page[l].price ELSE quoted[l][s]]]

\* The first page of a run raises no question: its trusted rows are stored.
StorePage(page, newer) ==
  /\ first = NoPage
  /\ ~ NeedsConfirmation(page, newer)
  /\ quoted' = Adopted(page, newer)
  /\ UNCHANGED <<shop, first>>

\* It raises one: its evidence is recorded as pending and none of it trusted.
AskAgainOfAnyChange(page, newer) ==
  /\ first = NoPage
  /\ \E l \in Priced(page) \cap newer : quoted[l][page[l].spec] \notin {None, page[l].price}
  /\ first' = page
  /\ UNCHANGED <<shop, quoted>>
AskAgain(page, newer) ==
  /\ first = NoPage
  /\ NeedsConfirmation(page, newer)
  /\ first' = page
  /\ UNCHANGED <<shop, quoted>>

\* price_signature of two complete pages: every listing, specification, amount
\* and status.
SamePrices(page) ==
  /\ Priced(page) = Priced(first)
  /\ \A l \in Priced(page) : \E m \in Priced(first) : page[l].price = first[m].price
SameSignature(page) == page = first

Confirms(page) == Complete(page) /\ Complete(first) /\ SameSignature(page)

\* The second page, fetched later than the first one, confirms it.
StoreConfirmedIfSmall(page, newer) ==
  /\ first # NoPage
  /\ Confirms(page) /\ ~ NeedsConfirmation(page, newer)
  /\ quoted' = Adopted(page, newer)
  /\ first' = NoPage
  /\ UNCHANGED shop
StoreConfirmed(page, newer) ==
  /\ first # NoPage
  /\ Confirms(page)
  /\ quoted' = Adopted(page, newer)
  /\ first' = NoPage
  /\ UNCHANGED shop

\* The second page is not later, not complete or differs, also in what is left
\* out here (require_product_review); or it cannot be fetched, parsed or stored,
\* or the process dies.
GiveUp ==
  /\ first # NoPage
  /\ first' = NoPage
  /\ UNCHANGED <<shop, quoted>>

\* The mall changes its offer at any time.
ShopChanges(offer) ==
  /\ shop' = offer
  /\ UNCHANGED <<quoted, first>>

-----------------------------------------------------------------------------
Init ==
  /\ shop \in [Listing -> TrustedRow]
  /\ quoted = [l \in Listing |-> [s \in Specification |-> None]]
  /\ first = NoPage

Next ==
  \/ \E page \in Pages, newer \in SUBSET Listing :
       StorePage(page, newer) \/ AskAgain(page, newer) \/ StoreConfirmed(page, newer)
  \/ GiveUp
  \/ \E offer \in [Listing -> TrustedRow] : ShopChanges(offer)

Spec == Init /\ [][Next]_vars

(***************************************************************************)
(* Runs are repeated, and again and again one of them is served the real   *)
(* page at a later time than all before, in the first fetch and, when that *)
(* is still the offer, in the second.  Requests have timeouts, so a        *)
(* confirmation ends.                                                      *)
(***************************************************************************)
Fairness ==
  /\ SF_vars(StorePage(shop, Listing) \/ AskAgain(shop, Listing))
  /\ SF_vars(StoreConfirmed(shop, Listing))
  /\ WF_vars(GiveUp \/ StoreConfirmed(first, Listing))

FairSpec == Spec /\ Fairness

-----------------------------------------------------------------------------
(* Properties.                                                             *)

\* Types of the variables; a page that waits for its confirmation still moves
\* some trusted amount by more than the threshold.
TypeOK ==
  /\ shop \in [Listing -> TrustedRow]
  /\ quoted \in [Listing -> [Specification -> Price \cup {None}]]
  /\ first \in Pages \cup {NoPage}
  /\ first # NoPage => NeedsConfirmation(first, Listing)

\* "Only a confirmed second point is trusted": a step in which some trusted
\* amount moves by more than the threshold stores nothing, for any listing of
\* the product, that an earlier page of the same run had not shown as well.
LargeChangeIsSeenTwice ==
  [][(\E l \in Listing, s \in Specification :
        quoted[l][s] # None /\ Large(quoted[l][s], quoted'[l][s]))
     => \A l \in Listing, s \in Specification :
          quoted'[l][s] # quoted[l][s] =>
            l \in Priced(first) /\ first[l] = [spec |-> s, price |-> quoted'[l][s],
                                                trusted |-> TRUE]]_vars

\* The guard does not hold back the truth: when the offer stays as it is and no
\* wrong page is waiting, its amounts are the trusted ones again and again,
\* however far they are from the old ones.
StablePriceIsAdopted ==
  <>[][FALSE]_shop /\ <>[](first \in {NoPage, shop}) =>
    []<>(\A l \in Priced(shop) : quoted[l][shop[l].spec] = shop[l].price)
=============================================================================

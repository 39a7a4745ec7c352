--------------------------- MODULE PriceChangeProofs ---------------------------
(* Theorems about PriceChange, for every product, amounts and threshold.      *)
EXTENDS PriceChange, TLAPS

\* The trusted amounts stay amounts, whatever page is stored.
LEMMA AdoptedType ==
  ASSUME TypeOK, NEW page \in Pages, NEW newer \in SUBSET Listing
  PROVE  Adopted(page, newer) \in [Listing -> [Specification -> Price \cup {None}]]
<1>1. ASSUME NEW l \in Priced(page)
      PROVE  page[l].price \in Price
  BY DEF Priced, Pages, TrustedRow, RejectedRow
<1>. QED
  BY <1>1 DEF Adopted, TypeOK

\* Rows of pages, and the amounts on them, are what the code may compare.
LEMMA PricedRow ==
  ASSUME NEW page \in Pages, NEW l \in Priced(page)
  PROVE  /\ l \in Listing
         /\ page[l] = [spec |-> page[l].spec, price |-> page[l].price, trusted |-> TRUE]
         /\ page[l].price \in Price
BY DEF Priced, Pages, TrustedRow, RejectedRow

\* The threshold is not exceeded by an amount that stays the same.
LEMMA SameIsNotLarge ==
  ASSUME PriceAssumption, NEW p \in Price
  PROVE  ~ Large(p, p)
BY DEF Large, Distance, PriceAssumption

\* A page can only be more urgent when it is news for more listings.
LEMMA NeedIsMonotone ==
  ASSUME NEW page \in Pages, NEW newer \in SUBSET Listing, NeedsConfirmation(page, newer)
  PROVE  NeedsConfirmation(page, Listing)
BY PricedRow DEF NeedsConfirmation

\* Every reachable state is well-formed, and a page that waits for its
\* confirmation still moves some trusted amount by more than the threshold.
THEOREM PriceTypeCorrect == Spec => []TypeOK
<1>1. Init => TypeOK
  BY DEF Init, TypeOK
<1>2. TypeOK /\ [Next]_vars => TypeOK'
  <2>. SUFFICES ASSUME TypeOK, [Next]_vars PROVE TypeOK'
    OBVIOUS
  <2>1. ASSUME NEW page \in Pages, NEW newer \in SUBSET Listing, StorePage(page, newer)
        PROVE  TypeOK'
    BY <2>1, AdoptedType DEF StorePage, TypeOK
  <2>2. ASSUME NEW page \in Pages, NEW newer \in SUBSET Listing, AskAgain(page, newer)
        PROVE  TypeOK'
    <3>1. NeedsConfirmation(page, Listing)
      BY <2>2, NeedIsMonotone DEF AskAgain
    <3>2. NeedsConfirmation(first, Listing)'
      BY <3>1, <2>2 DEF AskAgain, NeedsConfirmation, Priced
    <3>. QED
      BY <2>2, <3>2 DEF AskAgain, TypeOK
  <2>3. ASSUME NEW page \in Pages, NEW newer \in SUBSET Listing, StoreConfirmed(page, newer)
        PROVE  TypeOK'
    BY <2>3, AdoptedType DEF StoreConfirmed, TypeOK
  <2>4. CASE GiveUp
    BY <2>4 DEF GiveUp, TypeOK
  <2>5. ASSUME NEW offer \in [Listing -> TrustedRow], ShopChanges(offer)
        PROVE  TypeOK'
    BY <2>5 DEF ShopChanges, TypeOK, NeedsConfirmation
  <2>6. CASE UNCHANGED vars
    BY <2>6 DEF vars, TypeOK, NeedsConfirmation
  <2>. QED
    BY <2>1, <2>2, <2>3, <2>4, <2>5, <2>6 DEF Next
<1>. QED
  BY <1>1, <1>2, PTL DEF Spec

\* Only what the page shows is adopted.
LEMMA AdoptedFromPage ==
  ASSUME NEW page \in Pages, NEW newer \in SUBSET Listing,
         NEW l \in Listing, NEW s \in Specification,
         Adopted(page, newer)[l][s] # quoted[l][s]
  PROVE  /\ l \in Priced(page)
         /\ page[l].spec = s
         /\ page[l].price = Adopted(page, newer)[l][s]
         /\ l \in newer \/ quoted[l][s] = None
BY DEF Adopted

\* A page that needs no confirmation moves no trusted amount far.
LEMMA UnquestionedIsSmall ==
  ASSUME PriceAssumption, TypeOK, NEW page \in Pages, NEW newer \in SUBSET Listing,
         ~ NeedsConfirmation(page, newer),
         NEW l \in Listing, NEW s \in Specification, quoted[l][s] # None
  PROVE  ~ Large(quoted[l][s], Adopted(page, newer)[l][s])
<1>1. CASE Adopted(page, newer)[l][s] = quoted[l][s]
  <2>1. quoted[l][s] \in Price
    BY DEF TypeOK
  <2>. QED
    BY <1>1, <2>1, SameIsNotLarge
<1>2. CASE Adopted(page, newer)[l][s] # quoted[l][s]
  BY <1>2, AdoptedFromPage DEF NeedsConfirmation
<1>. QED
  BY <1>1, <1>2

\* No amount moves by more than the threshold unless two pages of one run show
\* it, and the page that confirms it adds nothing of its own.
THEOREM LargeChangesAreConfirmed == Spec => LargeChangeIsSeenTwice
<1>. USE PriceAssumption
<1>. DEFINE Moves == \E l \in Listing, s \in Specification :
                       quoted[l][s] # None /\ Large(quoted[l][s], quoted'[l][s])
            Shown == \A l \in Listing, s \in Specification :
                       quoted'[l][s] # quoted[l][s] =>
                         l \in Priced(first) /\ first[l] = [spec |-> s, price |-> quoted'[l][s],
                                                             trusted |-> TRUE]
<1>1. TypeOK /\ [Next]_vars => [Moves => Shown]_vars
  <2>. SUFFICES ASSUME TypeOK, Next PROVE Moves => Shown
    OBVIOUS
  <2>1. ASSUME quoted' = quoted PROVE Shown
    BY <2>1
  <2>2. ASSUME NEW page \in Pages, NEW newer \in SUBSET Listing, StorePage(page, newer)
        PROVE  ~ Moves
    BY <2>2, UnquestionedIsSmall DEF StorePage
  <2>3. ASSUME NEW page \in Pages, NEW newer \in SUBSET Listing, StoreConfirmed(page, newer)
        PROVE  Shown
    <3>1. first = page /\ first \in Pages /\ quoted' = Adopted(first, newer)
      BY <2>3 DEF StoreConfirmed, Confirms, SameSignature
    <3>2. ASSUME NEW l \in Listing, NEW s \in Specification, quoted'[l][s] # quoted[l][s]
          PROVE  l \in Priced(first) /\ first[l] = [spec |-> s, price |-> quoted'[l][s],
                                                     trusted |-> TRUE]
      BY <3>1, <3>2, AdoptedFromPage, PricedRow
    <3>. QED
      BY <3>2
  <2>. QED
    BY <2>1, <2>2, <2>3 DEF Next, AskAgain, GiveUp, ShopChanges
<1>2. Spec => []TypeOK
  BY PriceTypeCorrect
<1>. QED
  BY <1>1, <1>2, PTL DEF Spec, LargeChangeIsSeenTwice
=============================================================================

--------------------------- MODULE MCPublishedLedger ---------------------------
(* Instances of PublishedLedger for TLC: one listing, fed by a device mall or *)
(* by a data set that quotes one region.                                      *)
EXTENDS PublishedLedger, TLC

CONSTANTS phone, cabbage, cn, bj

NationalOnly == [l \in Listing |-> {cn}]
EveryRegion == [l \in Listing |-> Region]

\* Identities and contents are compared for equality only.
PublicationSymmetry ==
  {s @@ t : s \in Permutations(Fingerprint), t \in Permutations(Value)}
=============================================================================

--------------------------- MODULE MCUnitEvidence ---------------------------
(***************************************************************************)
(* Bounds of the runs of UnitEvidence: one job with its fetches, another   *)
(* task that uses the same host, and pages of every kind.                  *)
(***************************************************************************)
EXTENDS UnitEvidence

CONSTANTS job, visitor, mall

MCTask == {job, visitor}
MCJob == {job}
MCHost == {mall}

Page(static, price, whole) == [static |-> static, price |-> price, whole |-> whole]

ThreeBodies == {Page("SUCCEEDED", 1, TRUE), Page("SUCCEEDED", 2, TRUE), Page("RAISES", 0, TRUE)}
FourBodies == ThreeBodies \cup {Page("SUCCEEDED", 2, FALSE)}
=============================================================================

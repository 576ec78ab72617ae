--------------------------- MODULE MCCampaignPages ---------------------------
(***************************************************************************)
(* Small instances of CampaignPages.                                       *)
(***************************************************************************)
EXTENDS CampaignPages, TLC

CONSTANTS old, q1, q2

FirstTable == [i \in Ids |-> IF i = old THEN "active" ELSE None]

Symmetry == Permutations({q1, q2})
=============================================================================

-------------------------- MODULE MCCampaignService --------------------------
(***************************************************************************)
(* Small instances of CampaignService.  Three requests are enough for a    *)
(* campaign to be created and two more requests to race on it; two users   *)
(* for one user's requests to meet another's campaigns; two ids for a      *)
(* deleted campaign's id to be told from a new one.                        *)
(***************************************************************************)
EXTENDS CampaignService, TLC

CONSTANTS n1, n2, c1, c2

MCIds == {c1, c2}
MCNames == {n1, n2}
MCStatusTexts == {"paused", "archived", "bogus"}

\* One representative of each way a request can be treated: PATCH bodies
\* supply one column, creations use n1 and renamings n2 or a blank name.
Representative ==
  {in \in Inputs :
     /\ in.op = "create" => in.name # n2
     /\ in.op = "list" => in.status \in {Null, "paused"}
     /\ in.op = "update" =>
          <<in.name, in.status>> \in
            {<<n2, Null>>, <<Blank, Null>>, <<Null, "paused">>, <<Null, "bogus">>}}

\* Requests that reach the database, aimed at one id, and a body that does not
\* decode for those that are rejected before.
RacingTraffic ==
  {in \in Representative :
     in.op = "malformed" \/ (~Invalid(in) /\ in.name # Blank /\ in.id \in {c1, Null})}

Symmetry == Permutations(Requests) \cup Permutations(Users)
=============================================================================

---------------------------- MODULE MCApiGateway ----------------------------
(***************************************************************************)
(* Two requests compete for one connection while the process stops, is     *)
(* killed and starts again.  One user, an id for each creation: what       *)
(* distinguishes users is the business of MCCampaignService.               *)
(***************************************************************************)
EXTENDS ApiGateway, TLC

CONSTANTS n1, n2, c1, c2, u1

MCIds == {c1, c2}
MCNames == {n1, n2}
MCStatusTexts == {"paused"}

\* One request of each course through the handlers: rejected, answered after
\* one statement, or going on to the audit row.
OneOfEachCourse ==
  {Body("malformed", u1, Null, Null, Null), Body("create", u1, Null, n1, Null),
   Body("list", u1, Null, Null, Null), Body("get", u1, c1, Null, Null),
   Body("update", u1, c1, n2, Null), Body("delete", u1, c1, Null, Null)}
=============================================================================

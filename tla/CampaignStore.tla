---------------------------- MODULE CampaignStore ----------------------------
(***************************************************************************)
(* What the campaigns table promises to somebody who knows nothing of      *)
(* requests, SQL statements or the audit log: a campaign id is absent,     *)
(* then holds one row, then is gone for good, and while it holds a row the *)
(* row keeps its owner and stays within the schema.  CampaignService is    *)
(* shown to implement this specification.                                  *)
(***************************************************************************)
CONSTANTS
  Ids,      \* campaign ids
  Rows,     \* the rows the schema admits: records with a field owner
  Births,   \* the rows a campaign can start with
  Absent,   \* the id has never been issued
  Gone      \* the campaign was deleted

VARIABLE campaign

Init == campaign = [c \in Ids |-> Absent]

Create(c) == /\ campaign[c] = Absent
             /\ \E row \in Births : campaign' = [campaign EXCEPT ![c] = row]

Edit(c) == /\ campaign[c] \in Rows
           /\ \E row \in Rows :
                /\ row.owner = campaign[c].owner
                /\ campaign' = [campaign EXCEPT ![c] = row]

Remove(c) == /\ campaign[c] \in Rows
             /\ campaign' = [campaign EXCEPT ![c] = Gone]

Next == \E c \in Ids : Create(c) \/ Edit(c) \/ Remove(c)

Spec == Init /\ [][Next]_campaign
=============================================================================

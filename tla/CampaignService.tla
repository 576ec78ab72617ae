--------------------------- MODULE CampaignService ---------------------------
(***************************************************************************)
(* The campaign API of the backend: the HTTP handlers of main.go, the      *)
(* methods of campaign.Service they call and the campaigns and audit_logs  *)
(* tables behind them.                                                     *)
(*                                                                         *)
(* Every request is a goroutine of its own.  A service method is one       *)
(* autocommitted SQL statement followed, for all but reads and Delete, by  *)
(* a second statement that inserts the audit row, then the response.  The  *)
(* steps of different requests interleave.  Between them a client may      *)
(* disconnect or a database connection may drop (r.Context() is cancelled, *)
(* a statement returns an error although it may have committed), and the   *)
(* backend may crash and restart on the same database.                     *)
(***************************************************************************)
EXTENDS Integers, Sequences, FiniteSets

CONSTANTS
  Requests,    \* the requests clients ever send, each sent at most once
  Users,       \* authenticated callers: the subject of the bearer token
  Ids,         \* campaign UUIDs the database can generate
  Names,       \* contents of a name that is not blank; the other editable
               \* columns (description, max_results, budget) behave alike
  StatusTexts, \* contents of a "status" field, valid or not
  Blank,       \* a name that is empty once trimmed
  Null,        \* an absent field, or SQL NULL
  NoRow,       \* no row with this id in campaigns
  Traffic,     \* the inputs clients choose from: all of Inputs, or a bound
  MaxBroken    \* bound on the requests whose context or connection fails

StatusEnum == {"active", "paused", "completed", "archived"}

ASSUME ConstantsAssumption ==
  /\ Blank \notin Names
  /\ Null \notin Names \cup {Blank} \cup StatusTexts \cup Ids \cup StatusEnum
  /\ NoRow # Null
  /\ {NoRow, Null} \cap [owner : Users, name : Names \cup {Blank}, status : StatusEnum] = {}

Row == [owner : Users, name : Names \cup {Blank}, status : StatusEnum]

Returned == [id : Ids, row : Row]

Mutating == {"create", "update", "set_status", "delete"}
Ops == Mutating \cup {"get", "list"}

\* A body a client can send.  A request whose path id or JSON body cannot be
\* decoded carries the operation "malformed".
Body(op, user, id, name, status) ==
  [op |-> op, user |-> user, id |-> id, name |-> name, status |-> status]

Inputs ==
       {Body("malformed", u, Null, Null, Null) : u \in Users}
  \cup {Body("create", u, Null, n, Null) : u \in Users, n \in Names \cup {Blank}}
  \cup {Body("get", u, c, Null, Null) : u \in Users, c \in Ids}
  \cup {Body("list", u, Null, Null, s) : u \in Users, s \in StatusTexts \cup {Null}}
  \cup {Body("update", u, c, n, s) : u \in Users, c \in Ids,
          n \in Names \cup {Blank, Null}, s \in StatusTexts \cup {Null}}
  \cup {Body("set_status", u, c, Null, s) : u \in Users, c \in Ids, s \in StatusTexts}
  \cup {Body("delete", u, c, Null, Null) : u \in Users, c \in Ids}

ASSUME TrafficAssumption == Traffic \subseteq Inputs /\ MaxBroken \in Nat

VARIABLES
  table,    \* campaigns: the row of each id, or NoRow
  issued,   \* the ids uuid_generate_v4 has returned so far
  audit,    \* audit_logs; req identifies the row as its primary key does
  pc,       \* where the goroutine of a request is
  input,    \* the decoded request
  got,      \* the rows the service method returned
  code,     \* the HTTP status the handler decided on, 0 before
  broken,   \* the request's context or database connection has failed
  commits   \* history: the mutations that took effect, in commit order

vars == <<table, issued, audit, pc, input, got, code, broken, commits>>

\* The values the CHECK constraint on audit_logs.event_type lists.
EventTypes ==
  {"lead_created", "lead_updated", "lead_validated", "lead_enriched",
   "campaign_created", "campaign_updated", "campaign_paused",
   "profile_created", "profile_updated", "relationship_created",
   "relationship_deleted", "system_error", "system_migration", "manual_action"}

Codes == {0, 200, 201, 204, 400, 404, 500}
AuditRow == [req : Requests, id : Ids \cup {Null}, event : EventTypes,
             actor : Users, status : StatusEnum]

\* The schema's promise to every reader of the tables and the shape of the
\* handlers' state: a stored status is always one the CHECK constraint lists,
\* whatever texts clients send through POST, PATCH and PATCH .../status.
TypeOK ==
  /\ table \in [Ids -> Row \cup {NoRow}]
  /\ issued \in SUBSET Ids
  /\ audit \in SUBSET AuditRow
  /\ pc \in [Requests -> {"idle", "run", "audit", "reply", "done", "dead"}]
  /\ input \in [Requests -> Inputs \cup {Null}]
  /\ got \in [Requests -> SUBSET Returned]
  /\ code \in [Requests -> Codes]
  /\ broken \in [Requests -> BOOLEAN]
  /\ commits \in Seq([req : Requests, id : Ids])
-----------------------------------------------------------------------------
Init ==
  /\ table = [c \in Ids |-> NoRow]
  /\ issued = {}
  /\ audit = {}
  /\ pc = [r \in Requests |-> "idle"]
  /\ input = [r \in Requests |-> Null]
  /\ got = [r \in Requests |-> {}]
  /\ code = [r \in Requests |-> 0]
  /\ broken = [r \in Requests |-> FALSE]
  /\ commits = <<>>

\* A client sends a request; the router and the middleware pass it on.
Send(r) ==
  /\ pc[r] = "idle"
  /\ \E in \in Traffic : input' = [input EXCEPT ![r] = in]
  /\ pc' = [pc EXCEPT ![r] = "run"]
  /\ UNCHANGED <<table, issued, audit, got, code, broken, commits>>

Running(r, ops) == pc[r] = "run" /\ input[r].op \in ops

\* decodeBody and parseUUID, Create's name check and SetStatus's switch: what
\* is answered 400 before any statement is sent.
Invalid(in) ==
  \/ in.op = "malformed"
  \/ in.op = "create" /\ in.name = Blank
  \/ in.op = "set_status" /\ in.status \notin StatusEnum

\* A variant: AND user_id = $2 forgotten.
MatchesAnyOwner(in) == table[in.id] # NoRow

\* WHERE id = $1 AND user_id = $2
Matches(in) == table[in.id] # NoRow /\ table[in.id].owner = in.user

\* A variant: the schema without the CHECK constraint on campaigns.status.
CheckAllowsAnything(in) == TRUE

\* The CHECK constraint on campaigns.status, for the value COALESCE leaves.
CheckAllows(in) == in.status \in StatusEnum \cup {Null}


\* A variant: the arguments of COALESCE swapped.
CoalesceSwapped(new, old) == IF old = Null THEN new ELSE old

\* COALESCE($n, column): an absent field leaves the column alone.
Coalesce(new, old) == IF new = Null THEN old ELSE new

\* The row an UPDATE of Update or SetStatus leaves.
Updated(in, old) ==
  [old EXCEPT !.name = Coalesce(in.name, @), !.status = Coalesce(in.status, @)]

\* The handler goes on to write the response.
Respond(r, c) == /\ pc' = [pc EXCEPT ![r] = "reply"]
                 /\ code' = [code EXCEPT ![r] = c]

\* What a mutating method does once its statement has committed.  With a
\* working connection it goes on to logAudit (Delete: to the response).  With
\* a broken one it may see an error instead: it returns, the handler answers
\* 500, and no audit row is written.
AfterCommit(r, next, success, rows) ==
  \/ /\ pc' = [pc EXCEPT ![r] = next]
     /\ code' = [code EXCEPT ![r] = success]
     /\ got' = [got EXCEPT ![r] = rows]
  \/ /\ broken[r]
     /\ Respond(r, 500)
     /\ UNCHANGED got

Committed(r, c) == commits' = Append(commits, [req |-> r, id |-> c])

\* A variant: ids that are unique among the live rows only.
FreshAmongLive(c) == table[c] = NoRow

\* uuid_generate_v4: never a value it returned before.
Fresh(c) == c \notin issued
-----------------------------------------------------------------------------
RejectInvalid(r) ==
  /\ pc[r] = "run"
  /\ Invalid(input[r])
  /\ Respond(r, 400)
  /\ UNCHANGED <<table, issued, audit, input, got, broken, commits>>

\* Service.Create up to its INSERT.
Create(r) ==
  /\ Running(r, {"create"})
  /\ ~Invalid(input[r])
  /\ \E c \in Ids :
       LET row == [owner |-> input[r].user, name |-> input[r].name, status |-> "active"]
       IN /\ Fresh(c)
          /\ issued' = issued \cup {c}
          /\ table' = [table EXCEPT ![c] = row]
          /\ Committed(r, c)
          /\ AfterCommit(r, "audit", 201, {[id |-> c, row |-> row]})
  /\ UNCHANGED <<audit, input, broken>>

\* Service.GetByIDForUser and ListByUser: a single SELECT each.
Get(r) ==
  /\ Running(r, {"get"})
  /\ Matches(input[r])
  /\ got' = [got EXCEPT ![r] = {[id |-> input[r].id, row |-> table[input[r].id]]}]
  /\ Respond(r, 200)
  /\ UNCHANGED <<table, issued, audit, input, broken, commits>>

Selected(in) == {c \in Ids : /\ table[c] # NoRow
                             /\ table[c].owner = in.user
                             /\ in.status \in {Null, table[c].status}}

List(r) ==
  /\ Running(r, {"list"})
  /\ got' = [got EXCEPT ![r] = {[id |-> c, row |-> table[c]] : c \in Selected(input[r])}]
  /\ Respond(r, 200)
  /\ UNCHANGED <<table, issued, audit, input, broken, commits>>

\* Service.Update and Service.SetStatus differ in what they accept (Invalid)
\* and in the audit event; their statements and error paths are alike.
Update(r) ==
  /\ Running(r, {"update", "set_status"})
  /\ ~Invalid(input[r])
  /\ Matches(input[r])
  /\ CheckAllows(input[r])
  /\ LET c   == input[r].id
         row == Updated(input[r], table[c])
     IN /\ table' = [table EXCEPT ![c] = row]
        /\ Committed(r, c)
        /\ AfterCommit(r, "audit", 200, {[id |-> c, row |-> row]})
  /\ UNCHANGED <<issued, audit, input, broken>>

\* The UPDATE matches a row and the CHECK constraint refuses the new status.
UpdateViolatesCheck(r) ==
  /\ Running(r, {"update"})
  /\ Matches(input[r])
  /\ ~CheckAllows(input[r])
  /\ Respond(r, 500)
  /\ UNCHANGED <<table, issued, audit, input, got, broken, commits>>

\* A variant: ON DELETE CASCADE.
CascadeUnreferenced(rows, c) == {a \in rows : a.id # c}

\* ON DELETE SET NULL of audit_logs.campaign_id.
Unreferenced(rows, c) ==
  {IF a.id = c THEN [a EXCEPT !.id = Null] ELSE a : a \in rows}

Delete(r) ==
  /\ Running(r, {"delete"})
  /\ Matches(input[r])
  /\ table' = [table EXCEPT ![input[r].id] = NoRow]
  /\ audit' = Unreferenced(audit, input[r].id)
  /\ Committed(r, input[r].id)
  /\ AfterCommit(r, "reply", 204, {})
  /\ UNCHANGED <<issued, input, broken>>

\* A variant: Delete that does not look at RowsAffected().
MissIgnoredByDelete(op) == IF op = "delete" THEN 204 ELSE 404

\* No row matched: pgx.ErrNoRows, or RowsAffected() = 0 in Delete.
MissCode(op) == 404

NotFound(r) ==
  /\ Running(r, {"get", "update", "set_status", "delete"})
  /\ ~Invalid(input[r])
  /\ ~Matches(input[r])
  /\ Respond(r, MissCode(input[r].op))
  /\ UNCHANGED <<table, issued, audit, input, got, broken, commits>>

\* The statement fails before it takes effect: the context was cancelled while
\* waiting for a connection, or the connection was lost.
StatementFails(r) ==
  /\ Running(r, Ops)
  /\ broken[r]
  /\ ~Invalid(input[r])
  /\ Respond(r, 500)
  /\ UNCHANGED <<table, issued, audit, input, got, broken, commits>>

\* A variant: an event the CHECK on event_type does not list.
EventOfStatus(in) ==
  IF in.op = "create" THEN "campaign_created"
  ELSE IF in.op = "set_status" /\ in.status = "archived" THEN "campaign_archived"
  ELSE "campaign_updated"

Event(in) == IF in.op = "create" THEN "campaign_created"
             ELSE IF in.op = "set_status" /\ in.status = "paused"
             THEN "campaign_paused" ELSE "campaign_updated"

AuditRowOf(r, g) == [req |-> r, id |-> g.id, event |-> Event(input[r]),
                          actor |-> input[r].user, status |-> g.row.status]

\* A variant: audit_logs.campaign_id without its foreign key.
InsertableUnchecked(a) == a.event \in EventTypes

\* The foreign key on campaign_id (the campaign may have been deleted since the
\* mutation committed) and the CHECK on event_type.
Insertable(a) == table[a.id] # NoRow /\ a.event \in EventTypes

\* A variant: a method that waits until its audit row could be inserted.
LogAuditPropagates(r) ==
  /\ pc[r] = "audit"
  /\ \E g \in got[r] :
       LET a == AuditRowOf(r, g) IN Insertable(a) /\ audit' = audit \cup {a}
  /\ pc' = [pc EXCEPT ![r] = "reply"]
  /\ UNCHANGED <<table, issued, input, got, code, broken, commits>>

\* Service.logAudit: one INSERT whose error, whatever its cause, is swallowed.
LogAudit(r) ==
  /\ pc[r] = "audit"
  /\ \E g \in got[r] :
       LET a == AuditRowOf(r, g)
       IN \/ Insertable(a) /\ audit' = audit \cup {a}
          \/ (~Insertable(a) \/ broken[r]) /\ UNCHANGED audit
  /\ pc' = [pc EXCEPT ![r] = "reply"]
  /\ UNCHANGED <<table, issued, input, got, code, broken, commits>>

\* respond() writes the response and the handler returns.  Whether the response
\* reaches the client is not the handler's matter: see Written in ApiGateway.
Reply(r) ==
  /\ pc[r] = "reply"
  /\ pc' = [pc EXCEPT ![r] = "done"]
  /\ UNCHANGED <<table, issued, audit, input, got, code, broken, commits>>

\* The client disconnects or a database connection drops under the request.
Break(r) ==
  /\ pc[r] \in {"run", "audit"}
  /\ ~broken[r]
  /\ Cardinality({q \in Requests : broken[q]}) < MaxBroken
  /\ broken' = [broken EXCEPT ![r] = TRUE]
  /\ UNCHANGED <<table, issued, audit, pc, input, got, code, commits>>

\* The backend process dies: its requests are never answered, what Postgres
\* has committed stays, and a new process serves the requests sent later.
Crash ==
  /\ \E r \in Requests : pc[r] \in {"run", "audit", "reply"}
  /\ pc' = [r \in Requests |-> IF pc[r] \in {"run", "audit", "reply"}
                               THEN "dead" ELSE pc[r]]
  /\ UNCHANGED <<table, issued, audit, input, got, code, broken, commits>>

Serve(r) == \/ RejectInvalid(r) \/ Create(r) \/ Get(r) \/ List(r) \/ Update(r)
            \/ UpdateViolatesCheck(r) \/ Delete(r) \/ NotFound(r)
            \/ StatementFails(r) \/ LogAudit(r) \/ Reply(r)

Next == \/ \E r \in Requests : Send(r) \/ Serve(r) \/ Break(r)
        \/ Crash

Spec == Init /\ [][Next]_vars
-----------------------------------------------------------------------------
(* Properties *)

\* What a request supplies for the editable columns of the campaign it
\* creates or updates; Null where it leaves a column alone.
Supplies(r, f) ==
  IF input[r].op = "create" /\ f = "status" THEN "active" ELSE input[r][f]

\* Tenant isolation over any interleaving: all mutations that ever took effect
\* on a campaign were requested by one user, who owns the row while it exists,
\* and every row any handler returns belongs to its caller and, for a list,
\* has the status asked for.  (WHERE ... AND user_id = $n in every statement.)
Ownership ==
  /\ \A i, j \in 1..Len(commits) :
       commits[i].id = commits[j].id => input[commits[i].req].user = input[commits[j].req].user
  /\ \A i \in 1..Len(commits) :
       LET c == commits[i].id
       IN table[c] # NoRow => table[c].owner = input[commits[i].req].user
  /\ \A r \in Requests : \A g \in got[r] :
       /\ g.row.owner = input[r].user
       /\ input[r].op = "list" => input[r].status \in {Null, g.row.status}

\* No lost update: whatever other requests committed in between, a column of a
\* live campaign holds what the last committed request that supplied it said.
\* (COALESCE leaves alone the columns a PATCH does not name, in one statement.)
LastWriterWins ==
  \A c \in Ids : table[c] # NoRow =>
    \A f \in {"name", "status"} : \E i \in 1..Len(commits) :
      /\ commits[i].id = c
      /\ Supplies(commits[i].req, f) # Null
      /\ table[c][f] = Supplies(commits[i].req, f)
      /\ \A j \in i+1..Len(commits) :
           commits[j].id = c => Supplies(commits[j].req, f) = Null

\* The answer tells the truth about the effect: a mutation takes effect at most
\* once, a success of a mutating request means it did, 400 and 404 mean it did
\* not.  (500, and no answer after a crash, say nothing.)
AnswerIsHonest ==
  /\ \A i, j \in 1..Len(commits) : commits[i].req = commits[j].req => i = j
  /\ \A r \in Requests : pc[r] \in {"reply", "done"} =>
       LET applied == \E i \in 1..Len(commits) : commits[i].req = r
       IN /\ code[r] \in {400, 404} => ~applied
          /\ code[r] \in {200, 201, 204} => (applied <=> input[r].op \in Mutating)

\* No audit row is made up or dangling: it belongs to a mutation of its actor
\* that committed, and refers to that mutation's campaign exactly as long as
\* the campaign exists, whichever of a delete and a late insert came first.
AuditIsTruthful ==
  \A a \in audit : \E i \in 1..Len(commits) :
    LET c == commits[i].id
    IN /\ commits[i].req = a.req
       /\ a.actor = input[a.req].user
       /\ a.id = IF table[c] # NoRow THEN c ELSE Null
       /\ a.event = "campaign_created" <=> input[a.req].op = "create"
       /\ a.event = "campaign_paused" <=>
            input[a.req].op = "set_status" /\ a.status = "paused"

\* An acknowledged create or update of a campaign that still exists is in the
\* audit log, unless a fault hit its own request: nothing other requests do
\* can swallow the row.
AuditIsComplete ==
  \A i \in 1..Len(commits) :
    LET r == commits[i].req
    IN (/\ pc[r] \in {"reply", "done"}
        /\ code[r] \in {200, 201}
        /\ ~broken[r]
        /\ table[commits[i].id] # NoRow) => \E a \in audit : a.req = r

\* pkg/campaign/README.md:67, "logAudit inserts into audit_logs after each
\* successful mutation": whatever the service answered with success is in the
\* log, apart from inserts that failed.
EverySuccessIsAudited ==
  \A i \in 1..Len(commits) :
    LET r == commits[i].req
    IN pc[r] = "done" /\ code[r] \in {200, 201, 204} /\ ~broken[r]
       => \E a \in audit : a.req = r

\* An audit row is never rewritten or removed; the one thing that happens to
\* it is that its campaign reference becomes NULL.
AuditOnlyGrows ==
  [][\A a \in audit : a \in audit' \/ [a EXCEPT !.id = Null] \in audit']_vars

\* The tables as CampaignStore sees them.
StoreView == [c \in Ids |-> IF table[c] # NoRow THEN table[c]
                            ELSE IF c \in issued THEN Null ELSE NoRow]

Store == INSTANCE CampaignStore WITH
  Rows <- Row,
  Births <- [owner : Users, name : Names, status : {"active"}],
  Absent <- NoRow,
  Gone <- Null,
  campaign <- StoreView

\* Ids are never reused, a campaign starts active with a proper name, an edit
\* keeps the owner and the schema, and each step touches one campaign.
ImplementsStore == Store!Spec
=============================================================================

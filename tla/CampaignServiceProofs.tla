------------------------ MODULE CampaignServiceProofs ------------------------
(***************************************************************************)
(* What holds of CampaignService for any number of requests, users, ids,   *)
(* names and status texts, and of ApiGateway for any number of connections *)
(* besides: a step of the gateway is a step of CampaignService, or one     *)
(* that leaves the tables alone.                                           *)
(***************************************************************************)
EXTENDS ApiGateway, SequenceTheorems, FiniteSetTheorems, TLAPS

LEMMA InputsType ==
  ASSUME NEW in \in Inputs
  PROVE  /\ in.user \in Users
         /\ in.op \in Ops \cup {"malformed"}
         /\ in.op = "create" => in.name \in Names \cup {Blank}
         /\ in.op \in {"get", "update", "set_status", "delete"} => in.id \in Ids
         /\ in.name \in Names \cup {Blank, Null}
BY DEF Inputs, Body, Ops, Mutating

LEMMA UpdatedType ==
  ASSUME NEW in \in Inputs, NEW old \in Row, CheckAllows(in)
  PROVE  /\ Updated(in, old) \in Row
         /\ Updated(in, old).owner = old.owner
BY InputsType, ConstantsAssumption DEF Updated, Coalesce, CheckAllows, Row

-----------------------------------------------------------------------------
(* Type correctness.  A request past "idle" has a decoded input. *)

Started == \A r \in Requests : pc[r] # "idle" => input[r] \in Inputs

TypeInv == TypeOK /\ Started

LEMMA TypeInit == Init => TypeInv
BY EmptySeq DEF Init, TypeInv, TypeOK, Started, Codes

\* Appending to the history keeps it a history.
LEMMA CommittedType ==
  ASSUME TypeOK, NEW r \in Requests, NEW c \in Ids, Committed(r, c)
  PROVE  /\ commits' \in Seq([req : Requests, id : Ids])
         /\ Len(commits') = Len(commits) + 1
         /\ Len(commits) \in Nat
         /\ \A i \in 1..Len(commits) : commits'[i] = commits[i]
         /\ commits'[Len(commits) + 1] = [req |-> r, id |-> c]
BY DEF TypeOK, Committed

LEMMA HistoryType ==
  ASSUME TypeOK
  PROVE  /\ Len(commits) \in Nat
         /\ \A i \in 1..Len(commits) : commits[i] \in [req : Requests, id : Ids]
<1> commits \in Seq([req : Requests, id : Ids])
    BY DEF TypeOK
<1> QED
    BY ElementOfSeq, LenProperties

\* What follows a committed statement leaves the handler's state typed.
LEMMA AfterCommitType ==
  ASSUME TypeOK, NEW r \in Requests, NEW next \in {"audit", "reply"},
         NEW success \in Codes, NEW rows \in SUBSET Returned,
         AfterCommit(r, next, success, rows)
  PROVE  /\ pc' \in [Requests -> {"idle", "run", "audit", "reply", "done", "dead"}]
         /\ code' \in [Requests -> Codes]
         /\ got' \in [Requests -> SUBSET Returned]
         /\ \A q \in Requests : q # r => pc'[q] = pc[q]
BY DEF TypeOK, AfterCommit, Respond, Codes

LEMMA TypeNext == TypeInv /\ [Next]_vars => TypeInv'
<1> SUFFICES ASSUME TypeInv, [Next]_vars
             PROVE  TypeInv'
    OBVIOUS
<1> USE DEF TypeInv, TypeOK, Started, Running
<1>1. ASSUME NEW r \in Requests, Send(r) PROVE TypeInv'
    BY <1>1, TrafficAssumption DEF Send
<1>2. ASSUME NEW r \in Requests, RejectInvalid(r) PROVE TypeInv'
    BY <1>2 DEF RejectInvalid, Respond, Codes
<1>3. ASSUME NEW r \in Requests, Create(r) PROVE TypeInv'
    <2>1. PICK c \in Ids :
            LET row == [owner |-> input[r].user, name |-> input[r].name, status |-> "active"]
            IN /\ issued' = issued \cup {c}
               /\ table' = [table EXCEPT ![c] = row]
               /\ Committed(r, c)
               /\ AfterCommit(r, "audit", 201, {[id |-> c, row |-> row]})
        BY <1>3 DEF Create
    <2> DEFINE row == [owner |-> input[r].user, name |-> input[r].name, status |-> "active"]
    <2>2. input[r] \in Inputs /\ row \in Row
        BY <1>3, InputsType DEF Create, Row, StatusEnum
    <2>3. {[id |-> c, row |-> row]} \in SUBSET Returned
        BY <2>2 DEF Returned
    <2>4. 201 \in Codes
        BY DEF Codes
    <2> HIDE DEF row
    <2> QED
        BY <1>3, <2>1, <2>2, <2>3, <2>4, CommittedType, AfterCommitType DEF Create, row
<1>4. ASSUME NEW r \in Requests, Get(r) PROVE TypeInv'
    BY <1>4, InputsType DEF Get, Respond, Codes, Matches, Returned
<1>5. ASSUME NEW r \in Requests, List(r) PROVE TypeInv'
    BY <1>5 DEF List, Respond, Codes, Selected, Returned
<1>6. ASSUME NEW r \in Requests, Update(r) PROVE TypeInv'
    <2> DEFINE c == input[r].id
               row == Updated(input[r], table[c])
    <2>1. /\ input[r] \in Inputs
          /\ c \in Ids
          /\ row \in Row
        BY <1>6, InputsType, UpdatedType DEF Update, Matches
    <2>2. /\ table' = [table EXCEPT ![c] = row]
          /\ Committed(r, c)
          /\ AfterCommit(r, "audit", 200, {[id |-> c, row |-> row]})
        BY <1>6 DEF Update
    <2>3. {[id |-> c, row |-> row]} \in SUBSET Returned
        BY <2>1 DEF Returned
    <2>4. 200 \in Codes
        BY DEF Codes
    <2> HIDE DEF c, row
    <2> QED
        BY <1>6, <2>1, <2>2, <2>3, <2>4, CommittedType, AfterCommitType DEF Update
<1>7. ASSUME NEW r \in Requests, UpdateViolatesCheck(r) PROVE TypeInv'
    BY <1>7 DEF UpdateViolatesCheck, Respond, Codes
<1>8. ASSUME NEW r \in Requests, Delete(r) PROVE TypeInv'
    <2>1. input[r] \in Inputs /\ input[r].id \in Ids
        BY <1>8, InputsType DEF Delete
    <2>2. /\ Committed(r, input[r].id)
          /\ AfterCommit(r, "reply", 204, {})
          /\ audit' = Unreferenced(audit, input[r].id)
          /\ table' = [table EXCEPT ![input[r].id] = NoRow]
          /\ UNCHANGED <<issued, input, broken>>
        BY <1>8 DEF Delete
    <2>3. audit' \in SUBSET AuditRow
        BY <2>2 DEF Unreferenced, AuditRow
    <2>4. 204 \in Codes
        BY DEF Codes
    <2>5. /\ pc' \in [Requests -> {"idle", "run", "audit", "reply", "done", "dead"}]
          /\ code' \in [Requests -> Codes]
          /\ got' \in [Requests -> SUBSET Returned]
          /\ \A q \in Requests : q # r => pc'[q] = pc[q]
        BY <2>2, <2>4, AfterCommitType
    <2>6. commits' \in Seq([req : Requests, id : Ids])
        BY <2>1, <2>2, CommittedType
    <2> QED
        BY <2>1, <2>2, <2>3, <2>5, <2>6
<1>9. ASSUME NEW r \in Requests, NotFound(r) PROVE TypeInv'
    BY <1>9 DEF NotFound, MissCode, Respond, Codes
<1>10. ASSUME NEW r \in Requests, StatementFails(r) PROVE TypeInv'
    BY <1>10 DEF StatementFails, Respond, Codes
<1>11. ASSUME NEW r \in Requests, LogAudit(r) PROVE TypeInv'
    <2>1. input[r] \in Inputs
        BY <1>11 DEF LogAudit
    <2>2. ASSUME NEW g \in got[r], Insertable(AuditRowOf(r, g))
          PROVE  AuditRowOf(r, g) \in AuditRow
        BY <2>1, <2>2, InputsType DEF AuditRowOf, AuditRow, Insertable, Returned, Row
    <2>3. audit' \in SUBSET AuditRow
        BY <1>11, <2>2 DEF LogAudit
    <2> QED
        BY <1>11, <2>3 DEF LogAudit
<1>12. ASSUME NEW r \in Requests, Reply(r) PROVE TypeInv'
    BY <1>12 DEF Reply
<1>13. ASSUME NEW r \in Requests, Break(r) PROVE TypeInv'
    BY <1>13 DEF Break
<1>14. CASE Crash
    BY <1>14 DEF Crash
<1>15. CASE UNCHANGED vars
    BY <1>15 DEF vars
<1> QED
    BY <1>1, <1>2, <1>3, <1>4, <1>5, <1>6, <1>7, <1>8, <1>9, <1>10, <1>11,
       <1>12, <1>13, <1>14, <1>15 DEF Next, Serve

\* The schema's promise and the handlers' shape hold in every reachable state.
THEOREM TypeCorrect == Spec => []TypeOK
<1>1. TypeInv => TypeOK
    BY DEF TypeInv
<1> QED
    BY TypeInit, TypeNext, <1>1, PTL DEF Spec
-----------------------------------------------------------------------------
(* Tenant isolation.  Ownership is not inductive: that a new campaign does   *)
(* not inherit an old one's history needs that ids are not reused, and that  *)
(* a request's rows stay its own needs that its input is fixed once sent.    *)

Provenance ==
  /\ \A c \in Ids : table[c] # NoRow => c \in issued
  /\ \A i \in 1..Len(commits) : /\ commits[i].id \in issued
                                /\ pc[commits[i].req] # "idle"
  /\ \A r \in Requests : pc[r] = "idle" => got[r] = {}

OwnershipInv == TypeInv /\ Provenance /\ Ownership

LEMMA OwnershipInit == Init => OwnershipInv
<1> SUFFICES ASSUME Init PROVE OwnershipInv
    OBVIOUS
<1>1. TypeInv
    BY TypeInit
<1>2. 1..Len(commits) = {}
    BY EmptySeq DEF Init
<1> QED
    BY <1>1, <1>2 DEF Init, OwnershipInv, Provenance, Ownership

\* A step of r that commits on c a row of r's user keeps the invariant, when c
\* is new or r's user owns it.
LEMMA OwnershipCommit ==
  ASSUME OwnershipInv, TypeInv', NEW r \in Requests, NEW c \in Ids,
         NEW next \in {"audit", "reply"}, NEW success \in Codes,
         NEW rows \in SUBSET Returned,
         pc[r] = "run", input[r] \in Inputs, input[r].op # "list",
         UNCHANGED input,
         Committed(r, c),
         AfterCommit(r, next, success, rows),
         \A g \in rows : g.row.owner = input[r].user,
         \/ c \notin issued /\ issued' = issued \cup {c}
         \/ UNCHANGED issued /\ table[c] # NoRow /\ table[c].owner = input[r].user,
         \A d \in Ids \ {c} : table'[d] = table[d],
         table'[c] # NoRow => table'[c].owner = input[r].user
  PROVE  OwnershipInv'
<1> USE DEF OwnershipInv
<1>1. /\ \A i \in 1..Len(commits) : commits[i] \in [req : Requests, id : Ids]
      /\ Len(commits) \in Nat
    BY HistoryType DEF TypeInv
<1>2. /\ Len(commits') = Len(commits) + 1
      /\ \A i \in 1..Len(commits) : commits'[i] = commits[i]
      /\ commits'[Len(commits) + 1] = [req |-> r, id |-> c]
    BY CommittedType DEF TypeInv
<1>3. /\ \A q \in Requests : q # r => pc'[q] = pc[q] /\ got'[q] = got[q]
      /\ pc'[r] # "idle"
      /\ got'[r] \in {rows, got[r]}
    BY DEF AfterCommit, Respond, TypeInv, TypeOK
<1>4. Provenance'
    BY <1>1, <1>2, <1>3 DEF Provenance
<1>5. \A i \in 1..Len(commits) :
        commits[i].id = c => input[commits[i].req].user = input[r].user
    BY <1>1 DEF Provenance, Ownership
<1>6. ASSUME NEW i \in 1..Len(commits'), NEW j \in 1..Len(commits'),
             commits'[i].id = commits'[j].id
      PROVE  input[commits'[i].req].user = input[commits'[j].req].user
    <2>1. CASE i \in 1..Len(commits) /\ j \in 1..Len(commits)
        BY <1>2, <1>6, <2>1 DEF Ownership
    <2>2. CASE i = Len(commits) + 1 \/ j = Len(commits) + 1
        BY <1>1, <1>2, <1>5, <1>6, <2>2
    <2> QED
        BY <1>1, <1>2, <2>1, <2>2
<1>7. ASSUME NEW i \in 1..Len(commits'), table'[commits'[i].id] # NoRow
      PROVE  table'[commits'[i].id].owner = input[commits'[i].req].user
    <2>1. CASE i = Len(commits) + 1
        BY <1>2, <1>7, <2>1
    <2>2. CASE i \in 1..Len(commits)
        BY <1>1, <1>2, <1>5, <1>7, <2>2 DEF Ownership
    <2> QED
        BY <1>1, <1>2, <2>1, <2>2
<1>8. \A q \in Requests : \A g \in got'[q] :
         /\ g.row.owner = input[q].user
         /\ input[q].op = "list" => input[q].status \in {Null, g.row.status}
    BY <1>3 DEF Ownership
<1> QED
    BY <1>4, <1>6, <1>7, <1>8 DEF Ownership

LEMMA OwnershipNext == OwnershipInv /\ [Next]_vars => OwnershipInv'
<1> SUFFICES ASSUME OwnershipInv, [Next]_vars
             PROVE  OwnershipInv'
    OBVIOUS
<1>0. TypeInv /\ TypeInv'
    BY TypeNext DEF OwnershipInv
<1>a. /\ \A i \in 1..Len(commits) : commits[i] \in [req : Requests, id : Ids]
      /\ \A r \in Requests : pc[r] # "idle" => input[r] \in Inputs
    BY <1>0, HistoryType DEF TypeInv, Started
<1>1. ASSUME NEW r \in Requests, Send(r) PROVE OwnershipInv'
    <2>1. \A q \in Requests : q # r => pc'[q] = pc[q] /\ input'[q] = input[q]
        BY <1>0, <1>1 DEF Send, TypeInv, TypeOK
    <2>2. \A i \in 1..Len(commits) : commits[i].req \in Requests \ {r}
        BY <1>1, <1>a DEF OwnershipInv, Provenance, Send
    <2>3. UNCHANGED <<table, issued, got, commits>> /\ got[r] = {} /\ pc'[r] = "run"
        BY <1>0, <1>1 DEF Send, OwnershipInv, Provenance, TypeInv, TypeOK
    <2> QED
        BY <1>0, <2>1, <2>2, <2>3 DEF OwnershipInv, Provenance, Ownership
<1>2. ASSUME NEW r \in Requests, Create(r) PROVE OwnershipInv'
    <2> DEFINE row == [owner |-> input[r].user, name |-> input[r].name, status |-> "active"]
    <2>1. PICK c \in Ids : /\ c \notin issued
                           /\ issued' = issued \cup {c}
                           /\ table' = [table EXCEPT ![c] = row]
                           /\ Committed(r, c)
                           /\ AfterCommit(r, "audit", 201, {[id |-> c, row |-> row]})
        BY <1>2 DEF Create, Fresh
    <2>2. /\ pc[r] = "run" /\ input[r] \in Inputs /\ input[r].op = "create"
          /\ UNCHANGED input
        BY <1>2, <1>a DEF Create, Running
    <2>3. row \in Row /\ row.owner = input[r].user
        BY <2>2, InputsType DEF Row, StatusEnum
    <2>4. table'[c] = row /\ \A d \in Ids \ {c} : table'[d] = table[d]
        BY <1>0, <2>1 DEF TypeInv, TypeOK
    <2> HIDE DEF row
    <2>5. {[id |-> c, row |-> row]} \in SUBSET Returned
        BY <2>3 DEF Returned
    <2>6. 201 \in Codes
        BY DEF Codes
    <2> QED
        BY <1>0, <2>1, <2>2, <2>3, <2>4, <2>5, <2>6, OwnershipCommit
<1>3. ASSUME NEW r \in Requests, Update(r) PROVE OwnershipInv'
    <2> DEFINE c == input[r].id
               row == Updated(input[r], table[c])
    <2>1. /\ pc[r] = "run" /\ input[r] \in Inputs /\ input[r].op # "list"
          /\ UNCHANGED <<input, issued>>
          /\ c \in Ids
          /\ table[c] # NoRow /\ table[c].owner = input[r].user
          /\ CheckAllows(input[r])
        BY <1>3, <1>a, InputsType DEF Update, Running, Matches
    <2>2. row \in Row /\ row.owner = input[r].user
        BY <1>0, <2>1, UpdatedType DEF TypeInv, TypeOK
    <2>3. /\ table' = [table EXCEPT ![c] = row]
          /\ Committed(r, c)
          /\ AfterCommit(r, "audit", 200, {[id |-> c, row |-> row]})
        BY <1>3 DEF Update
    <2>4. table'[c] = row /\ \A d \in Ids \ {c} : table'[d] = table[d]
        BY <1>0, <2>1, <2>3 DEF TypeInv, TypeOK
    <2> HIDE DEF c, row
    <2>5. {[id |-> c, row |-> row]} \in SUBSET Returned
        BY <2>1, <2>2 DEF Returned
    <2>6. 200 \in Codes
        BY DEF Codes
    <2> QED
        BY <1>0, <2>1, <2>2, <2>3, <2>4, <2>5, <2>6, OwnershipCommit
<1>4. ASSUME NEW r \in Requests, Delete(r) PROVE OwnershipInv'
    <2> DEFINE c == input[r].id
    <2>1. /\ pc[r] = "run" /\ input[r] \in Inputs /\ input[r].op # "list"
          /\ UNCHANGED <<input, issued>>
          /\ c \in Ids
          /\ table[c] # NoRow /\ table[c].owner = input[r].user
          /\ Committed(r, c)
          /\ AfterCommit(r, "reply", 204, {})
          /\ table' = [table EXCEPT ![c] = NoRow]
        BY <1>4, <1>a, InputsType DEF Delete, Running, Matches
    <2>2. table'[c] = NoRow /\ \A d \in Ids \ {c} : table'[d] = table[d]
        BY <1>0, <2>1 DEF TypeInv, TypeOK
    <2>3. 204 \in Codes
        BY DEF Codes
    <2> HIDE DEF c
    <2> QED
        BY <1>0, <2>1, <2>2, <2>3, OwnershipCommit
<1>5. ASSUME NEW r \in Requests, Get(r) PROVE OwnershipInv'
    BY <1>0, <1>5 DEF Get, Respond, Running, Matches, OwnershipInv, Provenance, Ownership,
                      TypeInv, TypeOK
<1>6. ASSUME NEW r \in Requests, List(r) PROVE OwnershipInv'
    BY <1>0, <1>6 DEF List, Respond, Running, Selected, OwnershipInv, Provenance, Ownership,
                      TypeInv, TypeOK
<1>7. ASSUME UNCHANGED <<table, issued, input, got, commits>>,
             \A r \in Requests : pc[r] = "idle" <=> pc'[r] = "idle"
      PROVE  OwnershipInv'
    BY <1>0, <1>7, <1>a DEF OwnershipInv, Provenance, Ownership
<1>8. ASSUME NEW r \in Requests,
             \/ RejectInvalid(r) \/ UpdateViolatesCheck(r) \/ NotFound(r)
             \/ StatementFails(r) \/ LogAudit(r) \/ Reply(r) \/ Break(r)
      PROVE  OwnershipInv'
    BY <1>0, <1>7, <1>8
       DEF RejectInvalid, UpdateViolatesCheck, NotFound, StatementFails, LogAudit,
           Reply, Break, Running, Respond, TypeInv, TypeOK
<1>9. CASE Crash
    BY <1>0, <1>7, <1>9 DEF Crash, TypeInv, TypeOK
<1>10. CASE UNCHANGED vars
    BY <1>7, <1>10 DEF vars
<1> QED
    BY <1>1, <1>2, <1>3, <1>4, <1>5, <1>6, <1>8, <1>9, <1>10 DEF Next, Serve

\* However requests interleave, fail or die, nobody changes or reads a
\* campaign of somebody else.
THEOREM TenantIsolation == Spec => []Ownership
<1>1. OwnershipInv => Ownership
    BY DEF OwnershipInv
<1> QED
    BY OwnershipInit, OwnershipNext, <1>1, PTL DEF Spec
-----------------------------------------------------------------------------
(* The audit log. *)

RowsStay == \A a \in audit : a \in audit' \/ [a EXCEPT !.id = Null] \in audit'

LEMMA RowsKept == [Next]_vars => [RowsStay]_vars
<1>1. ASSUME NEW r \in Requests, Delete(r) PROVE RowsStay
    BY <1>1 DEF Delete, Unreferenced, RowsStay
<1>2. ASSUME NEW r \in Requests, LogAudit(r) PROVE RowsStay
    BY <1>2 DEF LogAudit, RowsStay
<1>3. ASSUME NEW r \in Requests,
             \/ Send(r) \/ RejectInvalid(r) \/ Create(r) \/ Get(r) \/ List(r) \/ Update(r)
             \/ UpdateViolatesCheck(r) \/ NotFound(r) \/ StatementFails(r)
             \/ Reply(r) \/ Break(r)
      PROVE  UNCHANGED audit
    BY <1>3 DEF Send, RejectInvalid, Create, Get, List, Update, UpdateViolatesCheck,
                NotFound, StatementFails, Reply, Break
<1> QED
    BY <1>1, <1>2, <1>3 DEF Next, Serve, Crash, vars, RowsStay

\* A step that inserts nothing and a step that only nulls references both keep
\* every row, up to its reference.
THEOREM AuditRowsAreKept == Spec => AuditOnlyGrows
BY RowsKept, PTL DEF Spec, AuditOnlyGrows, RowsStay

\* What a handler about to call logAudit knows: its mutation is in the history,
\* and the row it holds has the status it asked for.
Pending(r) ==
  \A g \in got[r] :
    /\ g.row.status \in StatusEnum
    /\ input[r].op = "set_status" => g.row.status = input[r].status
    /\ \E i \in 1..Len(commits) : commits[i] = [req |-> r, id |-> g.id]

AuditInv ==
  /\ OwnershipInv
  /\ \A r \in Requests : pc[r] = "audit" => Pending(r)
  /\ AuditIsTruthful

\* Truthfulness of one row.
Truthful(a) == \E i \in 1..Len(commits) :
  /\ commits[i].req = a.req
  /\ a.actor = input[a.req].user
  /\ a.id = IF table[commits[i].id] # NoRow THEN commits[i].id ELSE Null
  /\ a.event = "campaign_created" <=> input[a.req].op = "create"
  /\ a.event = "campaign_paused" <=>
       input[a.req].op = "set_status" /\ a.status = "paused"

LEMMA TruthfulAll == AuditIsTruthful <=> \A a \in audit : Truthful(a)
BY DEF AuditIsTruthful, Truthful

\* No commit of a campaign precedes its creation, so the steps that do not
\* touch the audit log neither delete nor revive a campaign it refers to.
LEMMA TruthfulKept ==
  ASSUME OwnershipInv, NEW a \in audit, Truthful(a),
         Len(commits') \in Nat, Len(commits') >= Len(commits),
         \A i \in 1..Len(commits) : commits'[i] = commits[i],
         input'[a.req] = input[a.req],
         \A c \in issued : table[c] # NoRow <=> table'[c] # NoRow
  PROVE  Truthful(a)'
<1>1. PICK i \in 1..Len(commits) :
        /\ commits[i].req = a.req
        /\ a.actor = input[a.req].user
        /\ a.id = IF table[commits[i].id] # NoRow THEN commits[i].id ELSE Null
        /\ a.event = "campaign_created" <=> input[a.req].op = "create"
        /\ a.event = "campaign_paused" <=>
             input[a.req].op = "set_status" /\ a.status = "paused"
    BY DEF Truthful
<1>2. commits[i].id \in issued
    BY DEF OwnershipInv, Provenance
<1>3. i \in 1..Len(commits') /\ commits'[i] = commits[i]
    BY HistoryType DEF OwnershipInv, TypeInv
<1> QED
    BY <1>1, <1>2, <1>3 DEF Truthful

LEMMA PendingKept ==
  ASSUME OwnershipInv, NEW r \in Requests, pc[r] = "audit", Pending(r),
         Len(commits') \in Nat, Len(commits') >= Len(commits),
         \A i \in 1..Len(commits) : commits'[i] = commits[i],
         input'[r] = input[r], got'[r] = got[r]
  PROVE  Pending(r)'
<1>1. Len(commits) \in Nat
    BY HistoryType DEF OwnershipInv, TypeInv
<1> QED
    BY <1>1 DEF Pending

\* A request that has an audit row, or is about to write one, was sent.
LEMMA AuthorsSent ==
  ASSUME OwnershipInv, NEW a \in audit, Truthful(a)
  PROVE  a.req \in Requests /\ pc[a.req] # "idle"
BY HistoryType DEF OwnershipInv, TypeInv, Provenance, Truthful

LEMMA AuditInit == Init => AuditInv
BY OwnershipInit DEF Init, AuditInv, AuditIsTruthful

LEMMA AuditNext == AuditInv /\ [Next]_vars => AuditInv'
<1> SUFFICES ASSUME AuditInv, [Next]_vars
             PROVE  AuditInv'
    OBVIOUS
<1>0. OwnershipInv /\ OwnershipInv'
    BY OwnershipNext DEF AuditInv
<1>a. TypeOK /\ TypeOK' /\ Len(commits) \in Nat
    BY <1>0, HistoryType DEF OwnershipInv, TypeInv
<1>b. \A a \in audit : Truthful(a)
    BY TruthfulAll DEF AuditInv
<1>c. \A r \in Requests : pc[r] = "audit" => Pending(r)
    BY DEF AuditInv
<1>1. ASSUME NEW r \in Requests, Send(r) PROVE AuditInv'
    <2>1. /\ UNCHANGED <<table, issued, audit, got, commits>>
          /\ pc[r] = "idle" /\ pc'[r] = "run"
          /\ \A q \in Requests : q # r => pc'[q] = pc[q] /\ input'[q] = input[q]
        BY <1>1, <1>a DEF Send, TypeOK
    <2>2. \A a \in audit : Truthful(a)'
        BY <1>0, <1>a, <1>b, <2>1, AuthorsSent, TruthfulKept
    <2>3. \A q \in Requests : pc'[q] = "audit" => Pending(q)'
        BY <1>0, <1>a, <1>c, <2>1, PendingKept
    <2> QED
        BY <1>0, <2>1, <2>2, <2>3 DEF AuditInv, AuditIsTruthful, Truthful
<1>2. ASSUME NEW r \in Requests, NEW c \in Ids, NEW row \in Row,
             pc[r] = "run", UNCHANGED <<audit, input>>,
             Committed(r, c),
             AfterCommit(r, "audit", 200, {[id |-> c, row |-> row]})
               \/ AfterCommit(r, "audit", 201, {[id |-> c, row |-> row]}),
             input[r].op = "set_status" => row.status = input[r].status,
             \A d \in issued : table[d] # NoRow <=> table'[d] # NoRow
      PROVE  AuditInv'
    <2>1. /\ Len(commits') = Len(commits) + 1
          /\ \A i \in 1..Len(commits) : commits'[i] = commits[i]
          /\ commits'[Len(commits) + 1] = [req |-> r, id |-> c]
        BY <1>2, <1>a, CommittedType
    <2>2. \A a \in audit : Truthful(a)'
        BY <1>0, <1>2, <1>a, <1>b, <2>1, TruthfulKept
    <2>3. ASSUME NEW q \in Requests, q # r, pc'[q] = "audit"
          PROVE  Pending(q)'
        <3>1. pc[q] = "audit" /\ got'[q] = got[q]
            BY <1>2, <1>a, <2>3 DEF AfterCommit, Respond, TypeOK
        <3> QED
            BY <1>0, <1>2, <1>a, <1>c, <2>1, <3>1, PendingKept
    <2>4. ASSUME pc'[r] = "audit" PROVE Pending(r)'
        <3>1. got'[r] = {[id |-> c, row |-> row]}
            BY <1>2, <1>a, <2>4 DEF AfterCommit, Respond, TypeOK
        <3>2. /\ Len(commits) + 1 \in 1..Len(commits')
              /\ row.status \in StatusEnum
            BY <1>2, <1>a, <2>1 DEF Row
        <3> QED
            BY <1>2, <2>1, <3>1, <3>2 DEF Pending
    <2> QED
        BY <1>0, <1>2, <2>2, <2>3, <2>4 DEF AuditInv, AuditIsTruthful, Truthful
<1>3. ASSUME NEW r \in Requests, Create(r) PROVE AuditInv'
    <2> DEFINE row == [owner |-> input[r].user, name |-> input[r].name, status |-> "active"]
    <2>1. PICK c \in Ids : /\ c \notin issued
                           /\ table' = [table EXCEPT ![c] = row]
                           /\ Committed(r, c)
                           /\ AfterCommit(r, "audit", 201, {[id |-> c, row |-> row]})
        BY <1>3 DEF Create, Fresh
    <2>2. /\ pc[r] = "run" /\ input[r] \in Inputs /\ input[r].op = "create"
          /\ UNCHANGED <<audit, input>>
        BY <1>0, <1>3 DEF Create, Running, OwnershipInv, TypeInv, Started
    <2>3. row \in Row
        BY <2>2, InputsType DEF Row, StatusEnum
    <2>4. \A d \in issued : table'[d] = table[d]
        BY <1>a, <2>1 DEF TypeOK
    <2> HIDE DEF row
    <2> QED
        BY <1>2, <2>1, <2>2, <2>3, <2>4
<1>4. ASSUME NEW r \in Requests, Update(r) PROVE AuditInv'
    <2> DEFINE c == input[r].id
               row == Updated(input[r], table[c])
    <2>1. /\ pc[r] = "run" /\ input[r] \in Inputs
          /\ UNCHANGED <<audit, input>>
          /\ c \in Ids /\ table[c] # NoRow /\ table[c] \in Row
          /\ CheckAllows(input[r])
          /\ ~Invalid(input[r])
        BY <1>0, <1>4, <1>a, InputsType
           DEF Update, Running, Matches, OwnershipInv, TypeInv, TypeOK, Started
    <2>2. row \in Row
        BY <2>1, UpdatedType
    <2>3. input[r].op = "set_status" => row.status = input[r].status
        BY <2>1, ConstantsAssumption DEF Updated, Coalesce, Invalid, Row
    <2>4. /\ table' = [table EXCEPT ![c] = row]
          /\ Committed(r, c)
          /\ AfterCommit(r, "audit", 200, {[id |-> c, row |-> row]})
        BY <1>4 DEF Update
    <2>5. row # NoRow
        BY <2>2, ConstantsAssumption DEF Row
    <2>6. \A d \in issued : table[d] # NoRow <=> table'[d] # NoRow
        BY <1>a, <2>1, <2>4, <2>5 DEF TypeOK
    <2> HIDE DEF c, row
    <2> QED
        BY <1>2, <2>1, <2>2, <2>3, <2>4, <2>6
<1>5. ASSUME NEW r \in Requests, Delete(r) PROVE AuditInv'
    <2> DEFINE c == input[r].id
    <2>1. /\ pc[r] = "run" /\ UNCHANGED input
          /\ c \in Ids
          /\ table' = [table EXCEPT ![c] = NoRow]
          /\ audit' = Unreferenced(audit, c)
          /\ Committed(r, c)
          /\ AfterCommit(r, "reply", 204, {})
        BY <1>0, <1>5, InputsType DEF Delete, Running, OwnershipInv, TypeInv, Started
    <2>2. /\ Len(commits') = Len(commits) + 1
          /\ \A i \in 1..Len(commits) : commits'[i] = commits[i]
        BY <1>a, <2>1, CommittedType
    <2> HIDE DEF c
    <2>3. ASSUME NEW b \in audit' PROVE Truthful(b)'
        <3>1. PICK a \in audit : b = IF a.id = c THEN [a EXCEPT !.id = Null] ELSE a
            BY <2>1 DEF Unreferenced
        <3>2. PICK i \in 1..Len(commits) :
                /\ commits[i].req = a.req
                /\ a.actor = input[a.req].user
                /\ a.id = IF table[commits[i].id] # NoRow THEN commits[i].id ELSE Null
                /\ a.event = "campaign_created" <=> input[a.req].op = "create"
                /\ a.event = "campaign_paused" <=>
                     input[a.req].op = "set_status" /\ a.status = "paused"
            BY <1>b DEF Truthful
        <3>3. /\ a \in AuditRow /\ commits[i].id \in Ids
              /\ i \in 1..Len(commits') /\ commits'[i] = commits[i]
            BY <1>a, <2>2, HistoryType DEF TypeOK
        <3>4. /\ b.req = a.req /\ b.actor = a.actor /\ b.event = a.event
              /\ b.status = a.status
              /\ b.id = IF a.id = c THEN Null ELSE a.id
            BY <3>1, <3>3 DEF AuditRow
        <3>5. b.id = IF table'[commits[i].id] # NoRow THEN commits[i].id ELSE Null
            BY <1>a, <2>1, <3>2, <3>3, <3>4, ConstantsAssumption DEF TypeOK
        <3> QED
            BY <2>1, <3>2, <3>3, <3>4, <3>5 DEF Truthful
    <2>4. ASSUME NEW q \in Requests, pc'[q] = "audit" PROVE Pending(q)'
        <3>1. q # r /\ pc[q] = "audit" /\ got'[q] = got[q]
            BY <1>a, <2>1, <2>4 DEF AfterCommit, Respond, TypeOK
        <3> QED
            BY <1>0, <1>a, <1>c, <2>1, <2>2, <3>1, PendingKept
    <2> QED
        BY <1>0, <2>3, <2>4 DEF AuditInv, AuditIsTruthful, Truthful
<1>6. ASSUME NEW r \in Requests, LogAudit(r) PROVE AuditInv'
    <2>1. /\ pc[r] = "audit" /\ Pending(r) /\ input[r] \in Inputs
          /\ UNCHANGED <<table, issued, input, got, commits>>
        BY <1>0, <1>6, <1>c DEF LogAudit, OwnershipInv, TypeInv, Started
    <2>2. ASSUME NEW g \in got[r], Insertable(AuditRowOf(r, g))
          PROVE  Truthful(AuditRowOf(r, g))
        <3>1. PICK i \in 1..Len(commits) : commits[i] = [req |-> r, id |-> g.id]
            BY <2>1 DEF Pending
        <3>2. table[g.id] # NoRow
            BY <2>2 DEF Insertable, AuditRowOf
        <3>3. Event(input[r]) = "campaign_created" <=> input[r].op = "create"
            BY DEF Event
        <3>4. Event(input[r]) = "campaign_paused" <=>
                input[r].op = "set_status" /\ g.row.status = "paused"
            BY <2>1 DEF Event, Pending
        <3> QED
            BY <3>1, <3>2, <3>3, <3>4 DEF Truthful, AuditRowOf
    <2>3. \A a \in audit' : Truthful(a)
        BY <1>6, <1>b, <2>2 DEF LogAudit
    <2>4. \A q \in Requests : pc'[q] = "audit" => pc[q] = "audit"
        BY <1>6, <1>a DEF LogAudit, TypeOK
    <2> QED
        BY <1>0, <1>c, <2>1, <2>3, <2>4 DEF AuditInv, AuditIsTruthful, Truthful, Pending
<1>7. ASSUME UNCHANGED <<table, audit, input, commits>>,
             \A q \in Requests : pc'[q] = "audit" => pc[q] = "audit" /\ got'[q] = got[q]
      PROVE  AuditInv'
    BY <1>0, <1>7, <1>c DEF AuditInv, AuditIsTruthful, Pending
<1>8. ASSUME NEW r \in Requests,
             \/ RejectInvalid(r) \/ Get(r) \/ List(r) \/ UpdateViolatesCheck(r)
             \/ NotFound(r) \/ StatementFails(r) \/ Reply(r) \/ Break(r)
      PROVE  AuditInv'
    BY <1>7, <1>8, <1>a
       DEF RejectInvalid, Get, List, UpdateViolatesCheck, NotFound, StatementFails,
           Reply, Break, Running, Respond, TypeOK
<1>9. CASE Crash
    BY <1>7, <1>9, <1>a DEF Crash, TypeOK
<1>10. CASE UNCHANGED vars
    BY <1>7, <1>10 DEF vars
<1> QED
    BY <1>1, <1>3, <1>4, <1>5, <1>6, <1>8, <1>9, <1>10 DEF Next, Serve

\* Whichever of a delete and a late audit insert comes first, the audit log
\* holds only rows of committed mutations, and no dangling reference.
THEOREM AuditTrailIsTruthful == Spec => []AuditIsTruthful
<1>1. AuditInv => AuditIsTruthful
    BY DEF AuditInv
<1> QED
    BY AuditInit, AuditNext, <1>1, PTL DEF Spec
-----------------------------------------------------------------------------
(* Refinement: an INSERT, UPDATE or DELETE is a Create, Edit or Remove of    *)
(* CampaignStore, every other step leaves the campaigns as they are.         *)

LEMMA StoreStutter == UNCHANGED <<table, issued>> => UNCHANGED StoreView
BY DEF StoreView

LEMMA StoreNext == OwnershipInv /\ OwnershipInv' /\ [Next]_vars => [Store!Next]_StoreView
<1> SUFFICES ASSUME OwnershipInv, OwnershipInv', [Next]_vars
             PROVE  Store!Next \/ UNCHANGED StoreView
    OBVIOUS
<1>0. TypeOK /\ Started /\ Provenance
    BY DEF OwnershipInv, TypeInv
<1>a. NoRow # Null /\ NoRow \notin Row /\ Null \notin Row
    BY ConstantsAssumption DEF Row
<1>1. ASSUME NEW r \in Requests, Create(r) PROVE Store!Next
    <2> DEFINE row == [owner |-> input[r].user, name |-> input[r].name, status |-> "active"]
    <2>1. PICK c \in Ids : /\ c \notin issued
                           /\ issued' = issued \cup {c}
                           /\ table' = [table EXCEPT ![c] = row]
        BY <1>1 DEF Create, Fresh
    <2>2. input[r] \in Inputs /\ input[r].op = "create" /\ input[r].name # Blank
        BY <1>0, <1>1 DEF Create, Running, Started, Invalid
    <2>3. row \in Row /\ row \in [owner : Users, name : Names, status : {"active"}]
        BY <2>2, InputsType DEF Row, StatusEnum
    <2> HIDE DEF row
    <2>4. StoreView[c] = NoRow
        BY <1>0, <2>1 DEF StoreView, Provenance
    <2>5. StoreView' = [StoreView EXCEPT ![c] = row]
        BY <1>0, <1>a, <2>1, <2>3 DEF StoreView, TypeOK
    <2> QED
        BY <2>3, <2>4, <2>5 DEF Store!Next, Store!Create
<1>2. ASSUME NEW r \in Requests, Update(r) PROVE Store!Next
    <2> DEFINE c == input[r].id
               row == Updated(input[r], table[c])
    <2>1. /\ c \in Ids /\ table[c] \in Row /\ table[c] # NoRow
          /\ row \in Row /\ row.owner = table[c].owner
          /\ table' = [table EXCEPT ![c] = row]
          /\ UNCHANGED issued
        BY <1>0, <1>2, InputsType, UpdatedType
           DEF Update, Running, Started, Matches, TypeOK
    <2> HIDE DEF c, row
    <2>2. StoreView[c] = table[c]
        BY <2>1 DEF StoreView
    <2>3. StoreView' = [StoreView EXCEPT ![c] = row]
        BY <1>0, <1>a, <2>1 DEF StoreView, TypeOK
    <2> QED
        BY <2>1, <2>2, <2>3 DEF Store!Next, Store!Edit
<1>3. ASSUME NEW r \in Requests, Delete(r) PROVE Store!Next
    <2> DEFINE c == input[r].id
    <2>1. /\ c \in Ids /\ table[c] \in Row /\ table[c] # NoRow
          /\ table' = [table EXCEPT ![c] = NoRow]
          /\ UNCHANGED issued
        BY <1>0, <1>3, InputsType DEF Delete, Running, Started, Matches, TypeOK
    <2> HIDE DEF c
    <2>2. StoreView[c] = table[c] /\ c \in issued
        BY <1>0, <2>1 DEF StoreView, Provenance
    <2>3. StoreView' = [StoreView EXCEPT ![c] = Null]
        BY <1>0, <1>a, <2>1, <2>2 DEF StoreView, TypeOK
    <2> QED
        BY <2>1, <2>2, <2>3 DEF Store!Next, Store!Remove
<1>4. ASSUME NEW r \in Requests,
             \/ Send(r) \/ RejectInvalid(r) \/ Get(r) \/ List(r)
             \/ UpdateViolatesCheck(r) \/ NotFound(r) \/ StatementFails(r)
             \/ LogAudit(r) \/ Reply(r) \/ Break(r)
      PROVE  UNCHANGED StoreView
    BY <1>4, StoreStutter
       DEF Send, RejectInvalid, Get, List, UpdateViolatesCheck, NotFound,
           StatementFails, LogAudit, Reply, Break
<1>5. CASE Crash
    BY <1>5, StoreStutter DEF Crash
<1>6. CASE UNCHANGED vars
    BY <1>6, StoreStutter DEF vars
<1> QED
    BY <1>1, <1>2, <1>3, <1>4, <1>5, <1>6 DEF Next, Serve

\* The tables behave as CampaignStore promises, whatever the requests do.
THEOREM ServiceImplementsStore == Spec => ImplementsStore
<1>1. Init => Store!Init
    BY DEF Init, Store!Init, StoreView
<1> QED
    BY OwnershipInit, OwnershipNext, StoreNext, <1>1, PTL
       DEF Spec, ImplementsStore, Store!Spec
-----------------------------------------------------------------------------
(* Honest answers.  That a request commits at most once, and that a success  *)
(* it reports is that of its own commit, follows from where its goroutine    *)
(* can be once it has committed, and from what it holds on its way to        *)
(* logAudit.                                                                 *)

Applied(r) == \E i \in 1..Len(commits) : commits[i].req = r

Honest(r) ==
  /\ code[r] \in {400, 404} => ~Applied(r)
  /\ code[r] \in {200, 201, 204} => (Applied(r) <=> input[r].op \in Mutating)

\* A request on its way to logAudit holds the row of its commit.
HoldsItsRow(r) ==
  /\ code[r] \in {200, 201} /\ input[r].op \in Mutating /\ Applied(r)
  /\ \E g \in Returned :
       /\ got[r] = {g}
       /\ \A i \in 1..Len(commits) : commits[i].req = r => commits[i].id = g.id

EffectInv ==
  /\ OwnershipInv
  /\ \A i \in 1..Len(commits) : pc[commits[i].req] \notin {"idle", "run"}
  /\ \A i, j \in 1..Len(commits) : commits[i].req = commits[j].req => i = j
  /\ \A r \in Requests : pc[r] = "audit" => HoldsItsRow(r)
  /\ \A r \in Requests : pc[r] \in {"reply", "done"} => Honest(r)

LEMMA EffectInit == Init => EffectInv
<1> SUFFICES ASSUME Init PROVE EffectInv
    OBVIOUS
<1>1. OwnershipInv
    BY OwnershipInit
<1>2. 1..Len(commits) = {}
    BY EmptySeq DEF Init
<1> QED
    BY <1>1, <1>2 DEF Init, EffectInv

\* What the others know is not disturbed by a step of r that commits.
LEMMA EffectCommit ==
  ASSUME EffectInv, OwnershipInv', NEW r \in Requests, NEW c \in Ids,
         NEW next \in {"audit", "reply"}, NEW success \in {200, 201, 204},
         NEW rows \in SUBSET Returned,
         pc[r] = "run", input[r].op \in Mutating, UNCHANGED input,
         Committed(r, c),
         AfterCommit(r, next, success, rows),
         next = "audit" => /\ success # 204
                           /\ \E g \in Returned : rows = {g} /\ g.id = c
  PROVE  EffectInv'
<1>1. /\ TypeOK /\ TypeOK'
      /\ \A i \in 1..Len(commits) : commits[i] \in [req : Requests, id : Ids]
      /\ Len(commits) \in Nat
    BY HistoryType DEF EffectInv, OwnershipInv, TypeInv
<1>2. /\ Len(commits') = Len(commits) + 1
      /\ \A i \in 1..Len(commits) : commits'[i] = commits[i]
      /\ commits'[Len(commits) + 1] = [req |-> r, id |-> c]
    BY <1>1, CommittedType
<1>3. \A i \in 1..Len(commits) : commits[i].req # r
    BY DEF EffectInv
<1>4. \A q \in Requests : q # r => /\ pc'[q] = pc[q] /\ code'[q] = code[q]
                                   /\ got'[q] = got[q]
    BY <1>1 DEF AfterCommit, Respond, TypeOK
<1>5. \/ pc'[r] = next /\ code'[r] = success /\ got'[r] = rows
      \/ pc'[r] = "reply" /\ code'[r] = 500
    BY <1>1 DEF AfterCommit, Respond, TypeOK
<1>6. \A i \in 1..Len(commits') :
        \/ i \in 1..Len(commits) /\ commits'[i] = commits[i]
        \/ i = Len(commits) + 1 /\ commits'[i] = [req |-> r, id |-> c]
    BY <1>1, <1>2
<1>7. /\ \A i \in 1..Len(commits) : i \in 1..Len(commits')
      /\ Len(commits) + 1 \in 1..Len(commits')
    BY <1>1, <1>2
<1>8. \A i \in 1..Len(commits') : pc'[commits'[i].req] \notin {"idle", "run"}
    BY <1>1, <1>3, <1>4, <1>5, <1>6 DEF EffectInv
<1>9. \A i, j \in 1..Len(commits') : commits'[i].req = commits'[j].req => i = j
    BY <1>3, <1>6 DEF EffectInv
<1>10. \A q \in Requests : q # r => (Applied(q)' <=> Applied(q))
    BY <1>2, <1>6, <1>7 DEF Applied
<1>11. Applied(r)'
    BY <1>2, <1>7 DEF Applied
<1>12. ASSUME NEW q \in Requests, pc'[q] = "audit" PROVE HoldsItsRow(q)'
    <2>1. CASE q = r
        <3>1. /\ code'[r] \in {200, 201} /\ got'[r] = rows
              /\ \E g \in Returned : rows = {g} /\ g.id = c
            BY <1>5, <1>12, <2>1
        <3>2. \A i \in 1..Len(commits') : commits'[i].req = r => commits'[i].id = c
            BY <1>3, <1>6
        <3> QED
            BY <1>11, <2>1, <3>1, <3>2 DEF HoldsItsRow
    <2>2. CASE q # r
        <3>1. HoldsItsRow(q)
            BY <1>4, <1>12, <2>2 DEF EffectInv
        <3>2. \A i \in 1..Len(commits') : commits'[i].req = q =>
                 i \in 1..Len(commits) /\ commits'[i] = commits[i]
            BY <1>6, <2>2
        <3> QED
            BY <1>4, <1>10, <2>2, <3>1, <3>2 DEF HoldsItsRow
    <2> QED
        BY <2>1, <2>2
<1>13. ASSUME NEW q \in Requests, pc'[q] \in {"reply", "done"} PROVE Honest(q)'
    <2>1. CASE q = r
        BY <1>5, <1>11, <2>1 DEF Honest
    <2>2. CASE q # r
        BY <1>4, <1>10, <1>13, <2>2 DEF Honest, EffectInv
    <2> QED
        BY <2>1, <2>2
<1> QED
    BY <1>8, <1>9, <1>12, <1>13 DEF EffectInv

\* The steps of r that send no mutating statement, or none that took effect.
LEMMA EffectQuiet ==
  ASSUME EffectInv, OwnershipInv', NEW r \in Requests,
         UNCHANGED commits,
         \A q \in Requests \ {r} : /\ pc'[q] = pc[q] /\ code'[q] = code[q]
                                   /\ got'[q] = got[q] /\ input'[q] = input[q],
         pc[r] # "idle" => input'[r] = input[r],
         \/ pc[r] = "idle" /\ pc'[r] = "run"
         \/ pc[r] = "run" /\ pc'[r] = "reply" /\ code'[r] \in {400, 404, 500}
         \/ pc[r] = "run" /\ pc'[r] = "reply" /\ input[r].op \notin Mutating
         \/ /\ \/ pc'[r] = pc[r]
               \/ pc[r] \in {"audit", "reply"} /\ pc'[r] \in {"reply", "done"}
            /\ code'[r] = code[r] /\ got'[r] = got[r]
  PROVE  EffectInv'
<1>1. \A i \in 1..Len(commits) : commits[i].req \in Requests
    BY HistoryType DEF EffectInv, OwnershipInv, TypeInv
<1>2. \A q \in Requests : Applied(q)' <=> Applied(q)
    BY DEF Applied
<1>3. Applied(r) => pc[r] \notin {"idle", "run"}
    BY DEF Applied, EffectInv
<1>4. \A i \in 1..Len(commits) : pc'[commits[i].req] \notin {"idle", "run"}
    BY <1>1, <1>3 DEF EffectInv, Applied
<1>5. ASSUME NEW q \in Requests, pc'[q] = "audit" PROVE HoldsItsRow(q)'
    BY <1>2, <1>5 DEF HoldsItsRow, EffectInv
<1>6. ASSUME NEW q \in Requests, pc'[q] \in {"reply", "done"} PROVE Honest(q)'
    <2>1. CASE q # r
        BY <1>2, <1>6, <2>1 DEF Honest, EffectInv
    <2>2. CASE q = r /\ pc[r] = "run"
        BY <1>2, <1>3, <1>6, <2>2 DEF Honest
    <2>3. CASE q = r /\ pc[r] # "run"
        <3>1. Honest(r) \/ HoldsItsRow(r)
            BY <1>6, <2>3 DEF EffectInv
        <3> QED
            BY <1>2, <1>6, <2>3, <3>1 DEF Honest, HoldsItsRow
    <2> QED
        BY <2>1, <2>2, <2>3
<1> QED
    BY <1>4, <1>5, <1>6 DEF EffectInv

LEMMA EffectNext == EffectInv /\ [Next]_vars => EffectInv'
<1> SUFFICES ASSUME EffectInv, [Next]_vars
             PROVE  EffectInv'
    OBVIOUS
<1>0. OwnershipInv /\ OwnershipInv' /\ TypeOK /\ TypeOK'
    BY OwnershipNext DEF EffectInv, OwnershipInv, TypeInv
<1>a. \A r \in Requests : pc[r] # "idle" => input[r] \in Inputs
    BY <1>0 DEF OwnershipInv, TypeInv, Started
<1>1. ASSUME NEW r \in Requests, Create(r) PROVE EffectInv'
    <2> DEFINE row == [owner |-> input[r].user, name |-> input[r].name, status |-> "active"]
    <2>1. PICK c \in Ids : /\ Committed(r, c)
                           /\ AfterCommit(r, "audit", 201, {[id |-> c, row |-> row]})
        BY <1>1 DEF Create
    <2>2. /\ pc[r] = "run" /\ input[r] \in Inputs /\ input[r].op = "create"
          /\ UNCHANGED input
        BY <1>1, <1>a DEF Create, Running
    <2>3. [id |-> c, row |-> row] \in Returned
        BY <2>2, InputsType DEF Row, StatusEnum, Returned
    <2> HIDE DEF row
    <2> QED
        BY <1>0, <2>1, <2>2, <2>3, EffectCommit DEF Mutating
<1>2. ASSUME NEW r \in Requests, Update(r) PROVE EffectInv'
    <2> DEFINE c == input[r].id
               row == Updated(input[r], table[c])
    <2>1. /\ pc[r] = "run" /\ input[r] \in Inputs /\ input[r].op \in Mutating
          /\ UNCHANGED input
          /\ c \in Ids /\ table[c] \in Row /\ CheckAllows(input[r])
        BY <1>0, <1>2, <1>a, InputsType DEF Update, Running, Matches, Mutating, TypeOK
    <2>2. /\ Committed(r, c)
          /\ AfterCommit(r, "audit", 200, {[id |-> c, row |-> row]})
        BY <1>2 DEF Update
    <2>3. [id |-> c, row |-> row] \in Returned
        BY <2>1, UpdatedType DEF Returned
    <2> HIDE DEF c, row
    <2> QED
        BY <1>0, <2>1, <2>2, <2>3, EffectCommit
<1>3. ASSUME NEW r \in Requests, Delete(r) PROVE EffectInv'
    <2>1. /\ pc[r] = "run" /\ input[r].id \in Ids /\ input[r].op \in Mutating
          /\ UNCHANGED input
          /\ Committed(r, input[r].id)
          /\ AfterCommit(r, "reply", 204, {})
        BY <1>3, <1>a, InputsType DEF Delete, Running, Mutating
    <2> QED
        BY <1>0, <2>1, EffectCommit
<1>4. ASSUME NEW r \in Requests, Send(r) PROVE EffectInv'
    BY <1>0, <1>4, EffectQuiet DEF Send, TypeOK
<1>5. ASSUME NEW r \in Requests,
             RejectInvalid(r) \/ UpdateViolatesCheck(r) \/ NotFound(r) \/ StatementFails(r)
      PROVE  EffectInv'
    BY <1>0, <1>5, EffectQuiet
       DEF RejectInvalid, UpdateViolatesCheck, NotFound, MissCode, StatementFails,
           Running, Respond, TypeOK
<1>6. ASSUME NEW r \in Requests, Get(r) \/ List(r) PROVE EffectInv'
    BY <1>0, <1>6, EffectQuiet DEF Get, List, Running, Respond, Mutating, TypeOK
<1>7. ASSUME NEW r \in Requests, LogAudit(r) \/ Reply(r) \/ Break(r) PROVE EffectInv'
    BY <1>0, <1>7, EffectQuiet DEF LogAudit, Reply, Break, TypeOK
<1>8. CASE Crash
    <2>1. /\ UNCHANGED <<input, got, code, commits>>
          /\ \A r \in Requests : \/ pc'[r] = pc[r]
                                 \/ pc[r] # "idle" /\ pc'[r] = "dead"
        BY <1>0, <1>8 DEF Crash, TypeOK
    <2>2. \A i \in 1..Len(commits) : commits[i].req \in Requests
        BY <1>0, HistoryType
    <2> QED
        BY <1>0, <2>1, <2>2 DEF EffectInv, HoldsItsRow, Honest, Applied
<1>9. CASE UNCHANGED vars
    BY <1>0, <1>9 DEF vars, EffectInv, HoldsItsRow, Honest, Applied
<1> QED
    BY <1>1, <1>2, <1>3, <1>4, <1>5, <1>6, <1>7, <1>8, <1>9 DEF Next, Serve

\* No answer misreports what its request did, and no request acts twice.
THEOREM AnswersAreHonest == Spec => []AnswerIsHonest
<1>1. EffectInv => AnswerIsHonest
    BY DEF EffectInv, AnswerIsHonest, Honest, Applied
<1> QED
    BY EffectInit, EffectNext, <1>1, PTL DEF Spec
-----------------------------------------------------------------------------
(* The trail is complete.  It takes ids that are not reused: the campaign of *)
(* an insert refused by the foreign key never exists again.                  *)

\* What AuditIsComplete says of one request.
Logged(r) ==
  /\ pc[r] \in {"reply", "done"}
  /\ code[r] \in {200, 201}
  /\ ~broken[r]
  /\ \E i \in 1..Len(commits) : commits[i].req = r /\ table[commits[i].id] # NoRow
  => \E a \in audit : a.req = r

\* The others' steps take no row out of the log and revive no campaign.
LEMMA LoggedKept ==
  ASSUME EffectInv, NEW r \in Requests, Logged(r),
         pc'[r] = pc[r], code'[r] = code[r], broken'[r] = broken[r],
         \A a \in audit : \E b \in audit' : b.req = a.req,
         \A i \in 1..Len(commits') : commits'[i].req = r =>
            i \in 1..Len(commits) /\ commits'[i] = commits[i],
         \A c \in issued : table'[c] # NoRow => table[c] # NoRow
  PROVE  Logged(r)'
BY DEF Logged, EffectInv, OwnershipInv, Provenance

\* A step of q that commits on c.
LEMMA LoggedCommit ==
  ASSUME EffectInv, TypeOK', NEW r \in Requests, Logged(r),
         NEW q \in Requests, NEW c \in Ids,
         NEW next \in {"audit", "reply"}, NEW success \in {200, 201, 204}, NEW rows,
         pc[q] = "run", Committed(q, c), AfterCommit(q, next, success, rows),
         next = "reply" => success = 204,
         UNCHANGED broken,
         \A a \in audit : \E b \in audit' : b.req = a.req,
         \A d \in issued : table'[d] # NoRow => table[d] # NoRow
  PROVE  Logged(r)'
<1>1. /\ TypeOK
      /\ Len(commits) \in Nat
    BY HistoryType DEF EffectInv, OwnershipInv, TypeInv
<1>2. /\ Len(commits') = Len(commits) + 1
      /\ \A i \in 1..Len(commits) : commits'[i] = commits[i]
      /\ commits'[Len(commits) + 1] = [req |-> q, id |-> c]
    BY <1>1, CommittedType
<1>3. CASE r = q
    BY <1>1, <1>3 DEF AfterCommit, Respond, TypeOK, Logged
<1>4. CASE r # q
    <2>1. pc'[r] = pc[r] /\ code'[r] = code[r] /\ broken'[r] = broken[r]
        BY <1>1, <1>4 DEF AfterCommit, Respond, TypeOK
    <2>2. \A i \in 1..Len(commits') : commits'[i].req = r =>
             i \in 1..Len(commits) /\ commits'[i] = commits[i]
        BY <1>1, <1>2, <1>4
    <2> QED
        BY <2>1, <2>2, LoggedKept
<1> QED
    BY <1>3, <1>4

LEMMA LoggedNext ==
  ASSUME EffectInv, [Next]_vars, NEW r \in Requests, Logged(r)
  PROVE  Logged(r)'
<1>0. OwnershipInv /\ TypeOK /\ TypeOK'
    BY OwnershipNext DEF EffectInv, OwnershipInv, TypeInv
<1>a. \A q \in Requests : pc[q] # "idle" => input[q] \in Inputs
    BY <1>0 DEF OwnershipInv, TypeInv, Started
<1>1. ASSUME NEW q \in Requests, Create(q) PROVE Logged(r)'
    <2> DEFINE row == [owner |-> input[q].user, name |-> input[q].name, status |-> "active"]
    <2>1. PICK c \in Ids : /\ c \notin issued
                           /\ table' = [table EXCEPT ![c] = row]
                           /\ Committed(q, c)
                           /\ AfterCommit(q, "audit", 201, {[id |-> c, row |-> row]})
        BY <1>1 DEF Create, Fresh
    <2>2. pc[q] = "run" /\ UNCHANGED <<audit, broken>>
        BY <1>1 DEF Create, Running
    <2>3. \A d \in issued : table'[d] = table[d]
        BY <1>0, <2>1 DEF TypeOK
    <2> HIDE DEF row
    <2> QED
        BY <1>0, <2>1, <2>2, <2>3, LoggedCommit
<1>2. ASSUME NEW q \in Requests, Update(q) PROVE Logged(r)'
    <2> DEFINE c == input[q].id
               row == Updated(input[q], table[c])
    <2>1. /\ pc[q] = "run" /\ UNCHANGED <<audit, broken>>
          /\ c \in Ids /\ table[c] # NoRow
          /\ table' = [table EXCEPT ![c] = row]
          /\ Committed(q, c)
          /\ AfterCommit(q, "audit", 200, {[id |-> c, row |-> row]})
        BY <1>2, <1>a, InputsType DEF Update, Running, Matches
    <2> HIDE DEF c, row
    <2>2. \A d \in issued : table'[d] # NoRow => table[d] # NoRow
        BY <1>0, <2>1 DEF TypeOK
    <2> QED
        BY <1>0, <2>1, <2>2, LoggedCommit
<1>3. ASSUME NEW q \in Requests, Delete(q) PROVE Logged(r)'
    <2>1. /\ pc[q] = "run" /\ UNCHANGED broken
          /\ input[q].id \in Ids
          /\ table' = [table EXCEPT ![input[q].id] = NoRow]
          /\ audit' = Unreferenced(audit, input[q].id)
          /\ Committed(q, input[q].id)
          /\ AfterCommit(q, "reply", 204, {})
        BY <1>3, <1>a, InputsType DEF Delete, Running
    <2>2. \A d \in issued : table'[d] # NoRow => table[d] # NoRow
        BY <1>0, <2>1 DEF TypeOK
    <2>3. ASSUME NEW a \in audit PROVE \E b \in audit' : b.req = a.req
        <3>1. a \in AuditRow
            BY <1>0 DEF TypeOK
        <3>2. [a EXCEPT !.id = Null].req = a.req
            BY <3>1 DEF AuditRow
        <3> QED
            BY <2>1, <3>2 DEF Unreferenced
    <2> QED
        BY <1>0, <2>1, <2>2, <2>3, LoggedCommit
<1>4. ASSUME NEW q \in Requests, LogAudit(q) PROVE Logged(r)'
    <2>1. /\ UNCHANGED <<table, issued, input, got, code, broken, commits>>
          /\ \A a \in audit : \E b \in audit' : b.req = a.req
        BY <1>4 DEF LogAudit
    <2>2. CASE q # r
        BY <1>0, <1>4, <2>1, <2>2, LoggedKept DEF LogAudit, TypeOK
    <2>3. CASE q = r
        <3>1. PICK g \in Returned :
                 /\ got[r] = {g}
                 /\ \A i \in 1..Len(commits) : commits[i].req = r => commits[i].id = g.id
            BY <1>4, <2>3 DEF LogAudit, EffectInv, HoldsItsRow
        <3>2. \/ \E a \in audit' : a.req = r
              \/ ~Insertable(AuditRowOf(r, g)) \/ broken[r]
            BY <1>4, <2>3, <3>1 DEF LogAudit, AuditRowOf
        <3>3. ~Insertable(AuditRowOf(r, g)) => table[g.id] = NoRow
            BY DEF Insertable, AuditRowOf, Event, EventTypes
        <3> QED
            BY <2>1, <3>1, <3>2, <3>3 DEF Logged
    <2> QED
        BY <2>2, <2>3
<1>5. ASSUME UNCHANGED <<table, audit, commits>>,
             \/ pc'[r] = pc[r] /\ code'[r] = code[r] /\ broken'[r] = broken[r]
             \/ pc[r] \in {"idle", "run"}
             \/ pc'[r] \in {"audit", "dead"} \/ broken'[r]
             \/ pc[r] = "reply" /\ code'[r] = code[r] /\ broken'[r] = broken[r]
      PROVE  Logged(r)'
    BY <1>5 DEF Logged, EffectInv
<1>6. ASSUME NEW q \in Requests,
             \/ Send(q) \/ RejectInvalid(q) \/ Get(q) \/ List(q) \/ UpdateViolatesCheck(q)
             \/ NotFound(q) \/ StatementFails(q) \/ Reply(q) \/ Break(q)
      PROVE  Logged(r)'
    <2>1. UNCHANGED <<table, audit, commits>>
        BY <1>6 DEF Send, RejectInvalid, Get, List, UpdateViolatesCheck, NotFound,
                    StatementFails, Reply, Break
    <2>2. CASE q # r
        BY <1>0, <1>5, <1>6, <2>1, <2>2
           DEF Send, RejectInvalid, Get, List, UpdateViolatesCheck, NotFound,
               StatementFails, Reply, Break, Respond, TypeOK
    <2>3. CASE q = r
        BY <1>0, <1>5, <1>6, <2>1, <2>3
           DEF Send, RejectInvalid, Get, List, UpdateViolatesCheck, NotFound,
               StatementFails, Reply, Break, Running, Respond, TypeOK
    <2> QED
        BY <2>2, <2>3
<1>7. CASE Crash
    BY <1>0, <1>5, <1>7 DEF Crash, TypeOK
<1>8. CASE UNCHANGED vars
    BY <1>5, <1>8 DEF vars
<1> QED
    BY <1>1, <1>2, <1>3, <1>4, <1>6, <1>7, <1>8 DEF Next, Serve

\* Whatever other requests do in between, an acknowledged mutation is in the
\* log as long as its campaign exists and no fault hit its own request.
THEOREM TrailIsComplete == Spec => []AuditIsComplete
<1> DEFINE Inv == EffectInv /\ \A r \in Requests : Logged(r)
<1>1. Init => Inv
    BY EffectInit DEF Init, Logged
<1>2. Inv /\ [Next]_vars => Inv'
    BY EffectNext, LoggedNext
<1>3. Inv => AuditIsComplete
    BY HistoryType DEF AuditIsComplete, Logged, EffectInv, OwnershipInv, TypeInv
<1> QED
    BY <1>1, <1>2, <1>3, PTL DEF Spec
-----------------------------------------------------------------------------
(* No lost update. *)

\* The last commit on c that supplied f is the one the row shows.
HasWriter(c, f) ==
  \E i \in 1..Len(commits) :
    /\ commits[i].id = c
    /\ Supplies(commits[i].req, f) # Null
    /\ table[c][f] = Supplies(commits[i].req, f)
    /\ \A j \in i+1..Len(commits) : commits[j].id = c => Supplies(commits[j].req, f) = Null

WriterInv ==
  /\ OwnershipInv
  /\ \A c \in Ids : table[c] # NoRow => \A f \in {"name", "status"} : HasWriter(c, f)

\* A step that commits nothing changes no row and no input of a request that
\* has committed.
LEMMA WriterQuiet ==
  ASSUME WriterInv, OwnershipInv', UNCHANGED <<table, commits>>,
         \A r \in Requests : pc[r] # "idle" => input'[r] = input[r]
  PROVE  WriterInv'
<1>1. /\ Len(commits) \in Nat
      /\ \A i \in 1..Len(commits) : commits[i].req \in Requests /\ pc[commits[i].req] # "idle"
    BY HistoryType DEF WriterInv, OwnershipInv, TypeInv, Provenance
<1>2. \A i \in 1..Len(commits), f \in {"name", "status"} :
         Supplies(commits[i].req, f)' = Supplies(commits[i].req, f)
    BY <1>1 DEF Supplies
<1>3. ASSUME NEW c \in Ids, NEW f \in {"name", "status"}, HasWriter(c, f)
      PROVE  HasWriter(c, f)'
    <2>1. PICK i \in 1..Len(commits) :
            /\ commits[i].id = c
            /\ Supplies(commits[i].req, f) # Null
            /\ table[c][f] = Supplies(commits[i].req, f)
            /\ \A j \in i+1..Len(commits) : commits[j].id = c => Supplies(commits[j].req, f) = Null
        BY <1>3 DEF HasWriter
    <2>2. \A j \in i+1..Len(commits) : j \in 1..Len(commits)
        BY <1>1
    <2> QED
        BY <1>2, <2>1, <2>2 DEF HasWriter
<1> QED
    BY <1>3 DEF WriterInv

\* A step of r that commits on c, unless it deletes the row, leaves in each
\* column what r supplied, or what was there.
LEMMA WriterCommit ==
  ASSUME WriterInv, OwnershipInv', NEW r \in Requests, NEW c \in Ids,
         Committed(r, c), UNCHANGED input,
         \A d \in Ids \ {c} : table'[d] = table[d],
         table'[c] # NoRow => \A f \in {"name", "status"} :
            \/ Supplies(r, f) # Null /\ table'[c][f] = Supplies(r, f)
            \/ Supplies(r, f) = Null /\ table[c] # NoRow /\ table'[c][f] = table[c][f]
  PROVE  WriterInv'
<1>1. /\ TypeOK
      /\ Len(commits) \in Nat
    BY HistoryType DEF WriterInv, OwnershipInv, TypeInv
<1>2. /\ Len(commits') = Len(commits) + 1
      /\ \A i \in 1..Len(commits) : commits'[i] = commits[i]
      /\ commits'[Len(commits) + 1] = [req |-> r, id |-> c]
    BY <1>1, CommittedType
<1>3. \A q, f : Supplies(q, f)' = Supplies(q, f)
    BY DEF Supplies
<1>4. ASSUME NEW d \in Ids, NEW f \in {"name", "status"}, HasWriter(d, f),
             table'[d][f] = table[d][f], d # c \/ Supplies(r, f) = Null
      PROVE  HasWriter(d, f)'
    <2>1. PICK i \in 1..Len(commits) :
            /\ commits[i].id = d
            /\ Supplies(commits[i].req, f) # Null
            /\ table[d][f] = Supplies(commits[i].req, f)
            /\ \A j \in i+1..Len(commits) : commits[j].id = d => Supplies(commits[j].req, f) = Null
        BY <1>4 DEF HasWriter
    <2>2. i \in 1..Len(commits') /\ commits'[i] = commits[i]
        BY <1>1, <1>2
    <2>3. ASSUME NEW j \in i+1..Len(commits'), commits'[j].id = d
          PROVE  (Supplies(commits[j].req, f) = Null)'
        <3>1. CASE j = Len(commits) + 1
            BY <1>2, <1>4, <2>3, <3>1 DEF Supplies
        <3>2. CASE j \in i+1..Len(commits)
            <4>1. commits'[j] = commits[j]
                BY <1>1, <1>2, <3>2
            <4> QED
                BY <2>1, <2>3, <3>2, <4>1 DEF Supplies
        <3> QED
            BY <1>1, <1>2, <3>1, <3>2
    <2>4. (/\ Supplies(commits[i].req, f) # Null
           /\ table[d][f] = Supplies(commits[i].req, f))'
        BY <1>4, <2>1, <2>2 DEF Supplies
    <2> QED
        BY <2>1, <2>2, <2>3, <2>4 DEF HasWriter
<1>5. ASSUME NEW f \in {"name", "status"}, Supplies(r, f) # Null, table'[c][f] = Supplies(r, f)
      PROVE  HasWriter(c, f)'
    <2>1. Len(commits) + 1 \in 1..Len(commits')
        BY <1>1, <1>2
    <2>2. (Len(commits) + 1) + 1..Len(commits') = {}
        BY <1>1, <1>2
    <2> QED
        BY <1>2, <1>3, <1>5, <2>1, <2>2 DEF HasWriter
<1>6. ASSUME NEW d \in Ids, table'[d] # NoRow, NEW f \in {"name", "status"}
      PROVE  HasWriter(d, f)'
    BY <1>4, <1>5, <1>6 DEF WriterInv
<1> QED
    BY <1>6 DEF WriterInv

LEMMA WriterNext == WriterInv /\ [Next]_vars => WriterInv'
<1> SUFFICES ASSUME WriterInv, [Next]_vars
             PROVE  WriterInv'
    OBVIOUS
<1>0. OwnershipInv /\ OwnershipInv' /\ TypeOK
    BY OwnershipNext DEF WriterInv, OwnershipInv, TypeInv
<1>a. \A r \in Requests : pc[r] # "idle" => input[r] \in Inputs
    BY <1>0 DEF OwnershipInv, TypeInv, Started
<1>1. ASSUME NEW r \in Requests, Create(r) PROVE WriterInv'
    <2> DEFINE row == [owner |-> input[r].user, name |-> input[r].name, status |-> "active"]
    <2>1. PICK c \in Ids : table' = [table EXCEPT ![c] = row] /\ Committed(r, c)
        BY <1>1 DEF Create
    <2>2. input[r] \in Inputs /\ input[r].op = "create" /\ UNCHANGED input
        BY <1>1, <1>a DEF Create, Running
    <2>3. /\ Supplies(r, "name") = row.name /\ row.name # Null
          /\ Supplies(r, "status") = row.status /\ row.status # Null
        BY <2>2, InputsType, ConstantsAssumption DEF Supplies, StatusEnum
    <2>4. table'[c] = row /\ \A d \in Ids \ {c} : table'[d] = table[d]
        BY <1>0, <2>1 DEF TypeOK
    <2> HIDE DEF row
    <2> QED
        BY <1>0, <2>1, <2>2, <2>3, <2>4, WriterCommit
<1>2. ASSUME NEW r \in Requests, Update(r) PROVE WriterInv'
    <2> DEFINE c == input[r].id
               row == Updated(input[r], table[c])
    <2>1. /\ input[r] \in Inputs /\ input[r].op # "create"
          /\ UNCHANGED input
          /\ c \in Ids /\ table[c] \in Row /\ table[c] # NoRow
          /\ table' = [table EXCEPT ![c] = row]
          /\ Committed(r, c)
        BY <1>0, <1>2, <1>a, InputsType DEF Update, Running, Matches, TypeOK
    <2>2. \A f \in {"name", "status"} :
            \/ Supplies(r, f) # Null /\ row[f] = Supplies(r, f)
            \/ Supplies(r, f) = Null /\ row[f] = table[c][f]
        BY <2>1 DEF Supplies, Updated, Coalesce, Row
    <2>3. table'[c] = row /\ \A d \in Ids \ {c} : table'[d] = table[d]
        BY <1>0, <2>1 DEF TypeOK
    <2> HIDE DEF c, row
    <2> QED
        BY <1>0, <2>1, <2>2, <2>3, WriterCommit
<1>3. ASSUME NEW r \in Requests, Delete(r) PROVE WriterInv'
    <2>1. /\ input[r].id \in Ids /\ UNCHANGED input
          /\ table' = [table EXCEPT ![input[r].id] = NoRow]
          /\ Committed(r, input[r].id)
        BY <1>3, <1>a, InputsType DEF Delete, Running
    <2> QED
        BY <1>0, <2>1, WriterCommit DEF TypeOK
<1>4. ASSUME NEW r \in Requests,
             \/ Send(r) \/ RejectInvalid(r) \/ Get(r) \/ List(r) \/ UpdateViolatesCheck(r)
             \/ NotFound(r) \/ StatementFails(r) \/ LogAudit(r) \/ Reply(r) \/ Break(r)
      PROVE  WriterInv'
    <2>1. UNCHANGED <<table, commits>>
        BY <1>4 DEF Send, RejectInvalid, Get, List, UpdateViolatesCheck, NotFound,
                    StatementFails, LogAudit, Reply, Break
    <2>2. \A q \in Requests : pc[q] # "idle" => input'[q] = input[q]
        BY <1>0, <1>4 DEF Send, RejectInvalid, Get, List, UpdateViolatesCheck, NotFound,
                    StatementFails, LogAudit, Reply, Break, TypeOK
    <2> QED
        BY <1>0, <2>1, <2>2, WriterQuiet
<1>5. CASE Crash
    BY <1>0, <1>5, WriterQuiet DEF Crash
<1>6. CASE UNCHANGED vars
    BY <1>0, <1>6, WriterQuiet DEF vars
<1> QED
    BY <1>1, <1>2, <1>3, <1>4, <1>5, <1>6 DEF Next, Serve

\* A column of a campaign holds what the last request that supplied it said.
THEOREM NoUpdateIsLost == Spec => []LastWriterWins
<1>1. Init => WriterInv
    BY OwnershipInit DEF Init, WriterInv
<1>2. WriterInv => LastWriterWins
    BY DEF WriterInv, HasWriter, LastWriterWins
<1> QED
    BY <1>1, WriterNext, <1>2, PTL DEF Spec

-----------------------------------------------------------------------------
(* The process around the service *)

\* A step of r's handler is a step of the service that moves no other request.
LEMMA ServeIsLocal ==
  ASSUME TypeOK, NEW r \in Requests, Serve(r)
  PROVE  /\ [Next]_vars
         /\ UNCHANGED <<input, broken>>
         /\ pc[r] \in {"run", "audit", "reply"}
         /\ pc'[r] \in {"audit", "reply", "done"}
         /\ pc'[r] = "done" <=> pc[r] = "reply"
         /\ \A q \in Requests \ {r} : pc'[q] = pc[q]
<1>1. [Next]_vars
    BY DEF Next
<1>2. CASE RejectInvalid(r) \/ UpdateViolatesCheck(r) \/ NotFound(r) \/ StatementFails(r)
    BY <1>1, <1>2 DEF RejectInvalid, UpdateViolatesCheck, NotFound, StatementFails,
                      Running, Respond, TypeOK
<1>3. CASE Get(r) \/ List(r) \/ LogAudit(r) \/ Reply(r)
    BY <1>1, <1>3 DEF Get, List, LogAudit, Reply, Running, Respond, TypeOK
<1>4. CASE Create(r) \/ Update(r) \/ Delete(r)
    BY <1>1, <1>4 DEF Create, Update, Delete, AfterCommit, Running, Respond, TypeOK
<1> QED
    BY <1>2, <1>3, <1>4 DEF Serve

-----------------------------------------------------------------------------
(* The process and its connections.  The deadline is the only way from       *)
(* draining to closing that leaves a request under way, and it excuses it.   *)

ProcessInv ==
  /\ EffectInv
  /\ GatewayTypeOK
  /\ IsFiniteSet(holding)
  /\ phase = "closing" => InFlight \subseteq excused
  /\ StopAnswersEverybody

LEMMA ProcessInit == GatewayInit => ProcessInv
BY EffectInit, FS_EmptySet, PoolAssumption
   DEF GatewayInit, Init, ProcessInv, GatewayTypeOK, InFlight, StopAnswersEverybody

\* What the service sees of a step of the process: one of its own, unless it
\* answers a request that got no connection.
LEMMA SeenByTheService ==
  ASSUME TypeOK, [GatewayNext]_gatewayVars
  PROVE  [Next]_vars \/ \E r \in Requests : GiveUp(r)
<1>1. ASSUME Gone PROVE [Next]_vars
    <2>1. CASE InFlight # {}
        BY <1>1, <2>1 DEF Gone, InFlight, Next, Crash
    <2>2. CASE InFlight = {}
        BY <1>1, <2>2 DEF Gone, vars, TypeOK
    <2> QED
        BY <2>1, <2>2
<1>2. ASSUME NEW r \in Requests, Receive(r) \/ Acquire(r) \/ Work(r) \/ Fault(r)
      PROVE  [Next]_vars
    BY <1>2, ServeIsLocal DEF Receive, Acquire, Work, Fault, Next
<1>3. CASE Signal \/ Drained \/ Deadline \/ Start
    BY <1>3 DEF Signal, Drained, Deadline, Start
<1>4. CASE Exit \/ Kill
    BY <1>1, <1>4 DEF Exit, Kill
<1>5. CASE UNCHANGED gatewayVars
    BY <1>5 DEF gatewayVars
<1> QED
    BY <1>2, <1>3, <1>4, <1>5 DEF GatewayNext

\* Such an answer is 500 to a request that has not run, or that of a mutation
\* whose audit row is given up.
LEMMA WithoutConnection ==
  ASSUME TypeOK, NEW r \in Requests, GiveUp(r)
  PROVE  /\ UNCHANGED <<table, issued, audit, input, got, broken, commits>>
         /\ pc' = [pc EXCEPT ![r] = "reply"]
         /\ pc[r] \in {"run", "audit"}
         /\ pc[r] = "run" => code'[r] = 500
         /\ pc[r] = "audit" => code'[r] = code[r]
         /\ code' \in [Requests -> Codes]
         /\ \A q \in Requests \ {r} : code'[q] = code[q]
BY DEF GiveUp, Statement, TypeOK, Codes

LEMMA EffectOfGateway ==
  ASSUME EffectInv, [GatewayNext]_gatewayVars
  PROVE  EffectInv'
<1>0. OwnershipInv /\ TypeInv /\ TypeOK
    BY DEF EffectInv, OwnershipInv, TypeInv
<1>1. CASE [Next]_vars
    BY <1>1, EffectNext
<1>2. ASSUME NEW r \in Requests, GiveUp(r) PROVE EffectInv'
    <2>1. /\ UNCHANGED <<table, issued, audit, input, got, broken, commits>>
          /\ pc' = [pc EXCEPT ![r] = "reply"]
          /\ pc[r] \in {"run", "audit"}
          /\ pc[r] = "run" => code'[r] = 500
          /\ pc[r] = "audit" => code'[r] = code[r]
          /\ code' \in [Requests -> Codes]
          /\ \A q \in Requests \ {r} : code'[q] = code[q]
        BY <1>0, <1>2, WithoutConnection
    <2>2. TypeInv'
        BY <1>0, <2>1 DEF TypeInv, TypeOK, Started
    <2>3. OwnershipInv'
        BY <1>0, <2>1, <2>2, HistoryType DEF OwnershipInv, Provenance, Ownership, TypeInv, TypeOK
    <2> QED
        BY <1>0, <2>1, <2>3, EffectQuiet DEF TypeOK
<1> QED
    BY <1>0, <1>1, <1>2, SeenByTheService

LEMMA ProcessNext == ProcessInv /\ [GatewayNext]_gatewayVars => ProcessInv'
<1> SUFFICES ASSUME ProcessInv, [GatewayNext]_gatewayVars
             PROVE  ProcessInv'
    OBVIOUS
<1>0. EffectInv' /\ TypeOK
    BY EffectOfGateway DEF ProcessInv, EffectInv, OwnershipInv, TypeInv
<1> USE DEF ProcessInv, GatewayTypeOK, StopAnswersEverybody
<1>1. ASSUME NEW r \in Requests, Receive(r) PROVE ProcessInv'
    BY <1>0, <1>1 DEF Receive, Send, Statement, InFlight, TypeOK, outcome
<1>2. ASSUME NEW r \in Requests, Acquire(r) PROVE ProcessInv'
    <2>1. IsFiniteSet(holding') /\ Cardinality(holding') = Cardinality(holding) + 1
        BY <1>2, FS_AddElement DEF Acquire
    <2>2. Cardinality(holding') <= PoolSize
        BY <1>2, <2>1, FS_CardinalityType, PoolAssumption DEF Acquire, HasRoom
    <2>3. UNCHANGED <<pc, input, phase, answered, slow, excused>>
        BY <1>2 DEF Acquire, vars, outcome
    <2> QED
        BY <1>0, <1>2, <2>1, <2>2, <2>3 DEF Acquire, Statement, InFlight
<1>3. ASSUME NEW r \in Requests, Work(r) PROVE ProcessInv'
    <2>1. /\ UNCHANGED <<input, phase, excused>>
          /\ pc[r] \in {"run", "audit", "reply"}
          /\ pc'[r] \in {"audit", "reply", "done"}
          /\ pc'[r] = "done" => pc[r] = "reply"
          /\ \A q \in Requests \ {r} : pc'[q] = pc[q]
          /\ holding' = holding \ {r}
        BY <1>0, <1>3, ServeIsLocal DEF Work, Released
    <2>2. IsFiniteSet(holding') /\ Cardinality(holding') <= Cardinality(holding)
        BY <2>1, FS_Subset
    <2>3. Cardinality(holding') <= PoolSize
        BY <2>2, FS_CardinalityType, PoolAssumption
    <2>4. /\ answered \subseteq answered' /\ answered' \subseteq answered \cup {r}
          /\ slow \subseteq slow' /\ slow' \subseteq slow \cup {r}
          /\ pc[r] = "reply" => r \in answered' \cup slow'
          /\ pc[r] # "reply" => r \notin answered' \cup slow'
        BY <1>3, <2>1 DEF Work, Written
    <2>5. pc[r] = "reply" => pc'[r] = "done"
        BY <1>0, <1>3, ServeIsLocal DEF Work
    <2>6. GatewayTypeOK'
        BY <1>0, <2>1, <2>2, <2>3, <2>4, <2>5 DEF Statement, InFlight
    <2>7. StopAnswersEverybody'
        BY <1>0, <2>1, <2>4, <2>5
    <2> QED
        BY <1>0, <2>1, <2>2, <2>6, <2>7 DEF InFlight
<1>4. ASSUME NEW r \in Requests, GiveUp(r) PROVE ProcessInv'
    BY <1>0, <1>4 DEF GiveUp, Statement, InFlight, TypeOK, outcome
<1>5. ASSUME NEW r \in Requests, Fault(r) PROVE ProcessInv'
    BY <1>0, <1>5 DEF Fault, Break, Statement, InFlight, outcome
<1>6. CASE Signal \/ Drained \/ Deadline \/ Start
    BY <1>0, <1>6 DEF Signal, Drained, Deadline, Start, Quiet, Statement, InFlight, vars, outcome
<1>7. CASE Exit \/ Kill
    <2>1. /\ phase' = "exited" /\ holding' = {}
          /\ \A r \in Requests : pc'[r] = IF r \in InFlight THEN "dead" ELSE pc[r]
          /\ InFlight \subseteq excused'
          /\ excused \subseteq excused' /\ excused' \subseteq Requests
          /\ UNCHANGED <<answered, slow>>
        BY <1>7 DEF Exit, Kill, Gone, InFlight, outcome
    <2>2. Cardinality(holding') <= PoolSize /\ IsFiniteSet(holding')
        BY <2>1, FS_EmptySet, PoolAssumption
    <2> QED
        BY <1>0, <2>1, <2>2 DEF InFlight
<1>8. CASE UNCHANGED gatewayVars
    BY <1>0, <1>8 DEF gatewayVars, vars, Statement, InFlight, outcome
<1> QED
    BY <1>1, <1>2, <1>3, <1>4, <1>5, <1>6, <1>7, <1>8 DEF GatewayNext

\* The pool never lends more than it has, and no request outlives its process.
THEOREM GatewayTypeCorrect == GatewaySpec => []GatewayTypeOK
<1>1. ProcessInv => GatewayTypeOK
    BY DEF ProcessInv
<1> QED
    BY ProcessInit, ProcessNext, <1>1, PTL DEF GatewaySpec

\* A stop within its deadline takes no answer away: whoever gets none needed more
\* than the write timeout, was still under way at the deadline or was killed.
THEOREM StopIsGraceful == GatewaySpec => []StopAnswersEverybody
<1>1. ProcessInv => StopAnswersEverybody
    BY DEF ProcessInv
<1> QED
    BY ProcessInit, ProcessNext, <1>1, PTL DEF GatewaySpec
-----------------------------------------------------------------------------
(* The trail.  The pool is closed under a request only when the deadline has *)
(* excused it, so what swallows its audit row is one of the reasons          *)
(* CampaignService knows.                                                    *)

TrailInv == ProcessInv /\ \A r \in Requests \ excused : Logged(r)

LEMMA TrailNext == TrailInv /\ [GatewayNext]_gatewayVars => TrailInv'
<1> SUFFICES ASSUME TrailInv, [GatewayNext]_gatewayVars, NEW r \in Requests, r \notin excused'
             PROVE  Logged(r)'
    BY ProcessNext DEF TrailInv
<1>0. EffectInv /\ TypeOK
    BY DEF TrailInv, ProcessInv, EffectInv, OwnershipInv, TypeInv
<1>1. Logged(r)
    BY DEF TrailInv, GatewayNext, Receive, Acquire, Work, GiveUp, Fault, Signal, Drained,
           Deadline, Exit, Kill, Start, gatewayVars, outcome
<1>2. CASE [Next]_vars
    BY <1>0, <1>1, <1>2, LoggedNext
<1>3. ASSUME NEW q \in Requests, GiveUp(q) PROVE Logged(r)'
    <2>1. UNCHANGED <<table, issued, audit, broken, commits, phase, excused>>
        BY <1>3 DEF GiveUp, outcome
    <2>2. CASE q # r
        BY <1>0, <1>1, <1>3, <2>1, <2>2 DEF GiveUp, TypeOK, Logged
    <2>3. CASE q = r /\ pc[r] = "run"
        BY <1>0, <1>3, <2>3 DEF GiveUp, TypeOK, Logged
    <2>4. CASE q = r /\ pc[r] = "audit" /\ broken[r]
        BY <2>1, <2>4 DEF Logged
    <2>5. CASE q = r /\ pc[r] = "audit" /\ ~PoolIsOpen
        BY <2>1, <2>5 DEF TrailInv, ProcessInv, GatewayTypeOK, PoolIsOpen, InFlight
    <2> QED
        BY <1>3, <2>2, <2>3, <2>4, <2>5 DEF GiveUp, Statement
<1>4. ASSUME Gone PROVE Logged(r)'
    BY <1>0, <1>1, <1>4 DEF Gone, Logged, InFlight
<1>5. ASSUME NEW q \in Requests, Receive(q) \/ Acquire(q) \/ Work(q) \/ Fault(q)
      PROVE  Logged(r)'
    BY <1>0, <1>2, <1>5, ServeIsLocal DEF Receive, Acquire, Work, Fault, Next
<1>6. CASE Signal \/ Drained \/ Deadline \/ Start
    BY <1>2, <1>6 DEF Signal, Drained, Deadline, Start
<1>7. CASE Exit \/ Kill
    BY <1>4, <1>7 DEF Exit, Kill
<1>8. CASE UNCHANGED gatewayVars
    BY <1>2, <1>8 DEF gatewayVars
<1> QED
    BY <1>3, <1>5, <1>6, <1>7, <1>8 DEF GatewayNext

\* A stop within its deadline loses no row of the trail.
THEOREM StopLosesNoAuditRow == GatewaySpec => []StopKeepsTheTrail
<1>1. GatewayInit => TrailInv
    BY ProcessInit DEF TrailInv, GatewayInit, Init, Logged
<1>2. TrailInv => StopKeepsTheTrail
    BY HistoryType DEF TrailInv, ProcessInv, EffectInv, OwnershipInv, TypeInv,
                       StopKeepsTheTrail, Logged
<1> QED
    BY <1>1, TrailNext, <1>2, PTL DEF GatewaySpec
-----------------------------------------------------------------------------
(* The service inside the process.  A pool that runs dry or is closed, a     *)
(* stop and a kill add one step to those of the service: the answer to a     *)
(* request that gets no connection.  It touches no row and no history, so    *)
(* what the service promises on its own it promises inside the process.      *)

ServiceInv == EffectInv /\ AuditInv /\ WriterInv

LEMMA ServiceInit == GatewayInit => ServiceInv
BY EffectInit, AuditInit, OwnershipInit DEF GatewayInit, Init, ServiceInv, WriterInv

LEMMA ServiceOfGateway == ServiceInv /\ [GatewayNext]_gatewayVars => ServiceInv'
<1> SUFFICES ASSUME ServiceInv, [GatewayNext]_gatewayVars
             PROVE  ServiceInv'
    OBVIOUS
<1>0. EffectInv /\ EffectInv' /\ OwnershipInv /\ OwnershipInv' /\ TypeOK
    BY EffectOfGateway DEF ServiceInv, EffectInv, OwnershipInv, TypeInv
<1>1. CASE [Next]_vars
    BY <1>0, <1>1, AuditNext, WriterNext DEF ServiceInv
<1>2. ASSUME NEW r \in Requests, GiveUp(r) PROVE ServiceInv'
    <2>1. /\ UNCHANGED <<table, issued, audit, input, got, broken, commits>>
          /\ pc' = [pc EXCEPT ![r] = "reply"]
        BY <1>0, <1>2, WithoutConnection
    <2>2. ASSUME NEW q \in Requests, pc'[q] = "audit" PROVE Pending(q)'
        <3>1. pc[q] = "audit"
            BY <1>0, <2>1, <2>2 DEF TypeOK
        <3> QED
            BY <2>1, <3>1 DEF Pending, ServiceInv, AuditInv
    <2>3. AuditIsTruthful'
        BY <2>1 DEF AuditIsTruthful, ServiceInv, AuditInv
    <2>4. WriterInv'
        BY <1>0, <2>1, WriterQuiet DEF ServiceInv
    <2> QED
        BY <1>0, <2>2, <2>3, <2>4 DEF ServiceInv, AuditInv
<1> QED
    BY <1>0, <1>1, <1>2, SeenByTheService

\* Tenant isolation, honest answers, the truth of the trail and the absence of
\* lost updates survive a pool at its limit, a stop at any moment and a kill.
THEOREM GatewayKeepsTheService ==
  GatewaySpec => [](Ownership /\ AnswerIsHonest /\ AuditIsTruthful /\ LastWriterWins)
<1>1. ServiceInv => Ownership /\ AnswerIsHonest /\ AuditIsTruthful /\ LastWriterWins
    BY DEF ServiceInv, EffectInv, OwnershipInv, AuditInv, WriterInv, HasWriter,
           LastWriterWins, AnswerIsHonest, Honest, Applied
<1> QED
    BY ServiceInit, ServiceOfGateway, <1>1, PTL DEF GatewaySpec

\* Whatever becomes of the process, the campaigns behave as CampaignStore
\* promises: a restart revives no campaign and issues no id again.
THEOREM GatewayImplementsStore == GatewaySpec => ImplementsStore
<1>1. GatewayInit => Store!Init
    BY DEF GatewayInit, Init, Store!Init, StoreView
<1>2. ServiceInv /\ ServiceInv' /\ [GatewayNext]_gatewayVars => [Store!Next]_StoreView
    <2> SUFFICES ASSUME ServiceInv, ServiceInv', [GatewayNext]_gatewayVars
                 PROVE  [Store!Next]_StoreView
        OBVIOUS
    <2>0. OwnershipInv /\ OwnershipInv' /\ TypeOK
        BY DEF ServiceInv, EffectInv, OwnershipInv, TypeInv
    <2>1. CASE [Next]_vars
        BY <2>0, <2>1, StoreNext
    <2>2. ASSUME NEW r \in Requests, GiveUp(r) PROVE UNCHANGED StoreView
        BY <2>0, <2>2, WithoutConnection, StoreStutter
    <2> QED
        BY <2>0, <2>1, <2>2, SeenByTheService
<1> QED
    BY ServiceInit, ServiceOfGateway, <1>1, <1>2, PTL
       DEF GatewaySpec, ImplementsStore, Store!Spec

\* No stop and no kill rewrites or removes a row of the trail.
THEOREM GatewayKeepsAuditRows == GatewaySpec => AuditOnlyGrows
<1>1. ServiceInv /\ [GatewayNext]_gatewayVars => [RowsStay]_vars
    <2> SUFFICES ASSUME ServiceInv, [GatewayNext]_gatewayVars PROVE [RowsStay]_vars
        OBVIOUS
    <2>0. TypeOK
        BY DEF ServiceInv, EffectInv, OwnershipInv, TypeInv
    <2>1. ASSUME NEW r \in Requests, GiveUp(r) PROVE RowsStay
        BY <2>1 DEF GiveUp, RowsStay
    <2> QED
        BY <2>0, <2>1, RowsKept, SeenByTheService
<1> QED
    BY ServiceInit, ServiceOfGateway, <1>1, PTL DEF GatewaySpec, AuditOnlyGrows, RowsStay
=============================================================================

-------------------------- MODULE UserServiceProofs --------------------------
(***************************************************************************)
(* What holds of UserService for any number of requests and accounts, any  *)
(* texts and any expiry.                                                   *)
(***************************************************************************)
EXTENDS UserService, SequenceTheorems, TLAPS

LEMMA InputsType ==
  ASSUME NEW in \in Inputs
  PROVE  /\ in.op \in {"register", "login", "change", "protected"}
         /\ in.op = "register" => /\ in.email \in Emails
                                  /\ in.password \in Passwords
                                  /\ in.role \in RoleTexts
         /\ in.op = "change" => in.id \in Ids /\ in.next \in Passwords
         /\ in.op = "protected" => in.bearer \in Requests \cup {Forged}
BY DEF Inputs

-----------------------------------------------------------------------------
(* Type correctness.  A password is written into a row that was read some    *)
(* steps before, so it matters that accounts never disappear.                *)

Places ==
  \A r \in Requests :
    /\ pc[r] # "idle" => input[r] \in Inputs
    /\ pc[r] \in {"touch", "sign"} => input[r].op = "login"
    /\ pc[r] = "write" => input[r].op = "change"
    /\ pc[r] \in {"touch", "sign", "write"} => found[r] # Null /\ found[r].id \in Held(users)
    /\ pc[r] # "idle" /\ input[r].op = "protected" /\ input[r].bearer # Forged =>
         token[input[r].bearer] # Null

TypeInv == TypeOK /\ Places

LEMMA TypeInit == Init => TypeInv
BY UsersAssumption, EmptySeq DEF Init, TypeInv, TypeOK, Places, Results

LEMMA WritesType ==
  ASSUME TypeOK, NEW r \in Requests, NEW c \in Ids,
         writes' = Append(writes, [req |-> r, id |-> c])
  PROVE  writes' \in Seq([req : Requests, id : Ids])
BY DEF TypeOK

LEMMA ObservedType ==
  ASSUME TypeOK, users' \in Tables, Observed
  PROVE  /\ window' \in [Requests -> SUBSET Tables]
         /\ \A r \in Requests : window[r] \subseteq window'[r]
         /\ \A r \in Requests : pc[r] \notin {"idle", "done"} => users' \in window'[r]
         /\ \A r \in Requests : pc[r] \in {"idle", "done"} => window'[r] = window[r]
BY DEF TypeOK, Observed

LEMMA ReturnsType ==
  ASSUME TypeOK, NEW r \in Requests, NEW res \in Results, Returns(r, res)
  PROVE  /\ pc' \in [Requests -> {"idle", "run", "touch", "sign", "write", "done"}]
         /\ result' \in [Requests -> Results]
         /\ pc'[r] = "done" /\ result'[r] = res
         /\ \A q \in Requests : q # r => pc'[q] = pc[q] /\ result'[q] = result[q]
BY DEF TypeOK, Returns

LEMMA AfterCommitType ==
  ASSUME TypeOK, NEW r \in Requests, AfterCommit(r)
  PROVE  \E res \in Results : Returns(r, res)
BY DEF AfterCommit, Results

\* A request that ends keeps its place, if no account and no token is lost.
LEMMA ReturnsPlaces ==
  ASSUME TypeInv, NEW r \in Requests, NEW res \in Results, pc[r] # "idle", Returns(r, res),
         UNCHANGED <<input, found>>,
         Held(users) \subseteq Held(users'),
         \A l \in Requests : token[l] # Null => token'[l] # Null
  PROVE  Places'
<1>1. /\ pc'[r] = "done"
      /\ \A q \in Requests : q # r => pc'[q] = pc[q]
    BY ReturnsType DEF TypeInv
<1> SUFFICES ASSUME NEW q \in Requests, pc'[q] # "idle"
             PROVE  /\ input[q] \in Inputs
                    /\ pc'[q] \in {"touch", "sign"} => input[q].op = "login"
                    /\ pc'[q] = "write" => input[q].op = "change"
                    /\ pc'[q] \in {"touch", "sign", "write"} =>
                         found[q] # Null /\ found[q].id \in Held(users')
                    /\ input[q].op = "protected" /\ input[q].bearer # Forged =>
                         token'[input[q].bearer] # Null
    BY DEF Places
<1>2. pc[q] # "idle" /\ (pc'[q] \in {"touch", "sign", "write"} => pc'[q] = pc[q])
    BY <1>1
<1>3. /\ input[q] \in Inputs
      /\ pc[q] \in {"touch", "sign"} => input[q].op = "login"
      /\ pc[q] = "write" => input[q].op = "change"
      /\ pc[q] \in {"touch", "sign", "write"} => found[q] # Null /\ found[q].id \in Held(users)
      /\ input[q].op = "protected" /\ input[q].bearer # Forged =>
           token[input[q].bearer] # Null
    BY <1>2 DEF TypeInv, Places
<1>4. input[q].op = "protected" /\ input[q].bearer # Forged => input[q].bearer \in Requests
    BY <1>3, InputsType
<1> QED
    BY <1>2, <1>3, <1>4

LEMMA FailsType ==
  ASSUME TypeInv, NEW r \in Requests, NEW res \in Results, pc[r] # "idle", Fails(r, res)
  PROVE  TypeInv'
<1>1. Returns(r, res) /\ UNCHANGED <<users, lastLogin, clock, input, found, token, caller,
                                     broken, window, writes, checked>>
    BY DEF Fails, history
<1>2. /\ pc' \in [Requests -> {"idle", "run", "touch", "sign", "write", "done"}]
      /\ result' \in [Requests -> Results]
      /\ pc'[r] = "done"
      /\ \A q \in Requests : q # r => pc'[q] = pc[q]
    BY <1>1, ReturnsType DEF TypeInv
<1>3. TypeOK'
    BY <1>1, <1>2 DEF TypeInv, TypeOK
<1>4. Places'
    BY <1>1, ReturnsPlaces DEF Held
<1> QED
    BY <1>3, <1>4 DEF TypeInv

\* The UPDATE statements: what they write is a row, and no account is lost.
LEMMA ChangeKeepsRow ==
  ASSUME TypeInv, NEW r \in Requests, ChangeWrites(r)
  PROVE  users' \in Tables /\ Held(users') = Held(users)
<1> DEFINE c == found[r].id
<1>1. /\ c \in Held(users) /\ c \in Ids /\ users[c] \in Row
      /\ input[r] \in Inputs /\ input[r].op = "change"
    BY DEF ChangeWrites, TypeInv, Places, Held, TypeOK, Tables
<1>2. users' = [users EXCEPT ![c].password_hash = Digest[input[r].next]]
    BY DEF ChangeWrites
<1> DEFINE row == [users[c] EXCEPT !.password_hash = Digest[input[r].next]]
<1>3. row \in Row
    BY <1>1, InputsType DEF Row, Digests
<1>4. users' = [users EXCEPT ![c] = row]
    BY <1>2
<1> HIDE DEF c, row
<1> QED
    BY <1>1, <1>3, <1>4, UsersAssumption DEF Tables, Held, TypeInv, TypeOK

LEMMA AdministerKeepsRow ==
  ASSUME TypeInv, NEW c \in Ids, Administer(c)
  PROVE  users' \in Tables /\ Held(users') = Held(users)
<1>1. PICK o \in Operations :
        users' = [users EXCEPT ![c].role = o.role, ![c].is_active = o.is_active]
    BY DEF Administer
<1> DEFINE row == [users[c] EXCEPT !.role = o.role, !.is_active = o.is_active]
<1>2. users[c] \in Row
    BY DEF Administer, TypeInv, TypeOK, Tables
<1>3. row \in Row
    BY <1>2, UserTrafficAssumption DEF Row
<1>4. users' = [users EXCEPT ![c] = row]
    BY <1>1 DEF TypeInv, TypeOK, Tables
<1> HIDE DEF row
<1> QED
    BY <1>2, <1>3, <1>4, UsersAssumption DEF Tables, Held, TypeInv, TypeOK

LEMMA TypeNext == TypeInv /\ [Next]_vars => TypeInv'
<1> SUFFICES ASSUME TypeInv, [Next]_vars
             PROVE  TypeInv'
    OBVIOUS
<1> USE DEF TypeInv
<1>1. ASSUME NEW r \in Requests, Send(r) PROVE TypeInv'
    <2>1. PICK in \in Inputs : input' = [input EXCEPT ![r] = in]
        BY <1>1, UserTrafficAssumption DEF Send
    <2>2. TypeOK'
        BY <1>1, <2>1 DEF Send, TypeOK
    <2>3. Places'
        BY <1>1, <2>1 DEF Send, TypeOK, Places, Held
    <2> QED
        BY <2>2, <2>3
<1>2. ASSUME NEW r \in Requests, Register(r) PROVE TypeInv'
    <2>1. PICK c \in Ids \ Held(users) :
            /\ users' = [users EXCEPT ![c] =
                 [email |-> input[r].email, password_hash |-> Digest[input[r].password],
                  role |-> IF input[r].role = Null THEN "user" ELSE input[r].role,
                  is_active |-> TRUE]]
            /\ writes' = Append(writes, [req |-> r, id |-> c])
        BY <1>2 DEF Register
    <2>2. /\ input[r] \in Inputs /\ input[r].op = "register"
          /\ input[r].role \in Roles \cup {Null}
          /\ Observed
          /\ AfterCommit(r)
          /\ UNCHANGED <<lastLogin, clock, input, found, token, caller, broken, checked>>
        BY <1>2 DEF Register, At, Places, Insertable
    <2>3. users' \in Tables
        BY <2>1, <2>2, InputsType DEF TypeOK, Tables, Row, Roles, Digests
    <2>4. Held(users) \subseteq Held(users')
        BY <2>1 DEF Held, TypeOK, Tables
    <2>5. PICK res \in Results : Returns(r, res)
        BY <2>2, AfterCommitType
    <2>8. pc[r] # "idle"
        BY <1>2 DEF Register, At
    <2>6. TypeOK'
        BY <2>1, <2>2, <2>3, <2>5, WritesType, ObservedType, ReturnsType DEF TypeOK
    <2>7. Places'
        BY <2>2, <2>4, <2>5, <2>8, ReturnsPlaces
    <2> QED
        BY <2>6, <2>7
<1>3. ASSUME NEW r \in Requests, RegisterFails(r) PROVE TypeInv'
    BY <1>3, FailsType DEF RegisterFails, At, Results
<1>4. ASSUME NEW r \in Requests, Authenticate(r) PROVE TypeInv'
    <2>1. PICK c \in Held(users) : found' = [found EXCEPT ![r] = [id |-> c, row |-> users[c]]]
        BY <1>4 DEF Authenticate, Matching
    <2>2. c \in Ids /\ users[c] \in Row
        BY DEF Held, TypeOK, Tables
    <2>3. [id |-> c, row |-> users[c]] \in Found
        BY <2>2 DEF Found
    <2>4. TypeOK'
        BY <1>4, <2>1, <2>3 DEF Authenticate, TypeOK, history
    <2>5. Places'
        BY <1>4, <2>1, <2>3, UsersAssumption DEF Authenticate, At, Places, TypeOK, history, Held
    <2> QED
        BY <2>4, <2>5
<1>5. ASSUME NEW r \in Requests, AuthenticateRefuses(r) PROVE TypeInv'
    BY <1>5, FailsType DEF AuthenticateRefuses, At, Results
<1>6. ASSUME NEW r \in Requests, TouchLastLogin(r) PROVE TypeInv'
    BY <1>6 DEF TouchLastLogin, TypeOK, Places, history, Held
<1>7. ASSUME NEW r \in Requests, SignToken(r) PROVE TypeInv'
    <2>1. found[r] \in Found
        BY <1>7 DEF SignToken, Places, TypeOK
    <2>2. Claims(found[r]) \in Token
        BY <2>1, UsersAssumption DEF Claims, Token, TypeOK, Found, Row
    <2>3. Returns(r, "ok") /\ "ok" \in Results
        BY <1>7 DEF SignToken, Results
    <2>6. \A l \in Requests : token[l] # Null => token'[l] # Null
        BY <1>7, <2>2, UsersAssumption DEF SignToken, TypeOK
    <2>4. TypeOK'
        BY <1>7, <2>2, <2>3, ReturnsType DEF SignToken, TypeOK, history
    <2>5. Places'
        BY <1>7, <2>2, <2>3, <2>6, ReturnsPlaces DEF SignToken, Held, history
    <2> QED
        BY <2>4, <2>5
<1>8. ASSUME NEW r \in Requests, ChangeReads(r) PROVE TypeInv'
    <2> DEFINE c == input[r].id
    <2>1. /\ c \in Held(users) /\ c \in Ids /\ users[c] \in Row
          /\ found' = [found EXCEPT ![r] = [id |-> c, row |-> users[c]]]
        BY <1>8 DEF ChangeReads, Held, TypeOK, Tables
    <2>2. [id |-> c, row |-> users[c]] \in Found
        BY <2>1 DEF Found
    <2>3. TypeOK'
        BY <1>8, <2>1, <2>2 DEF ChangeReads, TypeOK, history
    <2>4. Places'
        BY <1>8, <2>1, <2>2, UsersAssumption DEF ChangeReads, At, Places, TypeOK, history, Held
    <2> QED
        BY <2>3, <2>4
<1>9. ASSUME NEW r \in Requests, ChangeRefused(r) PROVE TypeInv'
    BY <1>9, FailsType DEF ChangeRefused, At, Results
<1>10. ASSUME NEW r \in Requests, ChangeWrites(r) PROVE TypeInv'
    <2>1. found[r].id \in Ids /\ users' \in Tables /\ Held(users) \subseteq Held(users')
        BY <1>10, ChangeKeepsRow DEF ChangeWrites, Places, Held
    <2>2. /\ writes' = Append(writes, [req |-> r, id |-> found[r].id])
          /\ Observed
          /\ AfterCommit(r)
          /\ UNCHANGED <<lastLogin, clock, input, found, token, caller, broken, checked>>
        BY <1>10 DEF ChangeWrites
    <2>3. PICK res \in Results : Returns(r, res)
        BY <2>2, AfterCommitType
    <2>4. TypeOK'
        BY <2>1, <2>2, <2>3, WritesType, ObservedType, ReturnsType DEF TypeOK
    <2>5. Places'
        BY <1>10, <2>1, <2>2, <2>3, ReturnsPlaces DEF ChangeWrites
    <2> QED
        BY <2>4, <2>5
<1>11. ASSUME NEW r \in Requests, ChangeFails(r) PROVE TypeInv'
    BY <1>11, FailsType DEF ChangeFails, Results
<1>12. ASSUME NEW r \in Requests, Admit(r) PROVE TypeInv'
    <2>1. /\ input[r] \in Inputs /\ input[r].op = "protected" /\ input[r].bearer # Forged
          /\ Returns(r, "ok") /\ "ok" \in Results
        BY <1>12 DEF Admit, At, Admits, Places, Results
    <2>2. input[r].bearer \in Requests
        BY <2>1, InputsType
    <2>3. token[input[r].bearer] \in Token
        BY <1>12, <2>1, <2>2 DEF Admit, At, Places, TypeOK
    <2>4. caller' \in [Requests -> Identity \cup {Null}] /\ checked' \in [Requests -> 0..MaxClock]
        BY <1>12, <2>3 DEF Admit, TypeOK, Token, Identity
    <2>5. TypeOK'
        BY <1>12, <2>1, <2>4, ReturnsType DEF Admit, TypeOK
    <2>6. Places'
        BY <1>12, <2>1, ReturnsPlaces DEF Admit, At, Held
    <2> QED
        BY <2>5, <2>6
<1>13. ASSUME NEW r \in Requests, Forbid(r) PROVE TypeInv'
    BY <1>13, FailsType DEF Forbid, At, Results
<1>14. ASSUME NEW c \in Ids, Administer(c) PROVE TypeInv'
    <2>1. users' \in Tables /\ Held(users) \subseteq Held(users')
        BY <1>14, AdministerKeepsRow
    <2>2. /\ Observed
          /\ UNCHANGED <<lastLogin, clock, pc, input, found, result, token, caller, broken,
                         writes, checked>>
        BY <1>14 DEF Administer
    <2> QED
        BY <2>1, <2>2, ObservedType DEF TypeOK, Places
<1>15. ASSUME NEW r \in Requests, Break(r) PROVE TypeInv'
    BY <1>15 DEF Break, TypeOK, Places, history, Held
<1>16. CASE Tick
    BY <1>16, UsersAssumption DEF Tick, TypeOK, Places, history, Held
<1>17. CASE UNCHANGED vars
    BY <1>17 DEF vars, history, TypeOK, Places, Held
<1> QED
    BY <1>1, <1>2, <1>3, <1>4, <1>5, <1>6, <1>7, <1>8, <1>9, <1>10, <1>11, <1>12,
       <1>13, <1>14, <1>15, <1>16, <1>17 DEF Next, Serve

\* The table keeps its schema, and a goroutine its shape, for any number of
\* requests, accounts and texts.
THEOREM UsersTypeCorrect == Spec => []TypeOK
<1>1. Spec => []TypeInv
    BY TypeInit, TypeNext, PTL DEF Spec
<1> QED
    BY <1>1, PTL DEF TypeInv
-----------------------------------------------------------------------------
(* One account per email.  Only a registration adds a row or sets an email.  *)

LEMMA EmailsKept ==
  ASSUME OneAccountPerEmail, Held(users') = Held(users),
         \A c \in Held(users) : users'[c].email = users[c].email
  PROVE  OneAccountPerEmail'
BY DEF OneAccountPerEmail

LEMMA EmailsNext ==
  ASSUME TypeInv, OneAccountPerEmail, [Next]_vars
  PROVE  OneAccountPerEmail'
<1>1. CASE UNCHANGED users
    BY <1>1, EmailsKept
<1>2. ASSUME NEW r \in Requests, Register(r) PROVE OneAccountPerEmail'
    <2>1. PICK c \in Ids \ Held(users) :
            users' = [users EXCEPT ![c] =
              [email |-> input[r].email, password_hash |-> Digest[input[r].password],
               role |-> IF input[r].role = Null THEN "user" ELSE input[r].role,
               is_active |-> TRUE]]
        BY <1>2 DEF Register
    <2>2. /\ users'[c].email = input[r].email
          /\ \A d \in Ids : d # c => users'[d] = users[d]
        BY <2>1 DEF TypeInv, TypeOK, Tables
    <2>3. \A d \in Held(users) : Fold[users[d].email] # Fold[input[r].email]
        BY <1>2 DEF Register, Insertable, SameEmail
    <2>4. Held(users') \subseteq Held(users) \cup {c}
        BY <2>2 DEF Held
    <2> QED
        BY <2>1, <2>2, <2>3, <2>4 DEF OneAccountPerEmail
<1>3. ASSUME NEW r \in Requests, ChangeWrites(r) PROVE OneAccountPerEmail'
    <2> DEFINE c == found[r].id
    <2>1. c \in Held(users) /\ c \in Ids /\ users[c] \in Row
        BY <1>3 DEF ChangeWrites, TypeInv, Places, Held, TypeOK, Tables
    <2>2. /\ users'[c].email = users[c].email
          /\ \A d \in Ids : d # c => users'[d] = users[d]
        BY <1>3, <2>1 DEF ChangeWrites, TypeInv, TypeOK, Tables, Row
    <2>3. Held(users') = Held(users)
        BY <1>3, ChangeKeepsRow
    <2> QED
        BY <2>2, <2>3, EmailsKept DEF Held
<1>4. ASSUME NEW c \in Ids, Administer(c) PROVE OneAccountPerEmail'
    <2>1. users[c] \in Row /\ c \in Held(users)
        BY <1>4 DEF Administer, TypeInv, TypeOK, Tables, Held
    <2>2. /\ users'[c].email = users[c].email
          /\ \A d \in Ids : d # c => users'[d] = users[d]
        BY <1>4, <2>1 DEF Administer, TypeInv, TypeOK, Tables, Row
    <2>3. Held(users') = Held(users)
        BY <1>4, AdministerKeepsRow
    <2> QED
        BY <2>2, <2>3, EmailsKept DEF Held
<1> QED
    BY <1>1, <1>2, <1>3, <1>4
    DEF Next, Serve, Send, RegisterFails, Authenticate, AuthenticateRefuses, TouchLastLogin,
        SignToken, ChangeReads, ChangeRefused, ChangeFails, Fails, Admit, Forbid, Break, Tick,
        vars

\* Registrations that overlap never give an email, in any case, two accounts.
THEOREM EmailsAreUnique == Spec => []OneAccountPerEmail
<1>1. Init => OneAccountPerEmail
    BY UsersAssumption DEF Init, OneAccountPerEmail
<1>2. Spec => []TypeInv
    BY TypeInit, TypeNext, PTL DEF Spec
<1> QED
    BY <1>1, <1>2, EmailsNext, PTL DEF Spec
-----------------------------------------------------------------------------
(* A login is atomic.  While a request runs its window holds the current     *)
(* table; a login that read its account has the table it read there, and     *)
(* keeps it when it ends.                                                    *)

Opened(tables, in, c, role) == \E t \in tables : Admitting(t, in, c, role)
Refused(tables, in) == \E t \in tables : ~\E c \in Ids, role \in Roles : Admitting(t, in, c, role)

Explained(r) ==
  /\ pc[r] \notin {"idle", "done"} => users \in window[r]
  /\ pc[r] \in {"touch", "sign"} =>
       Opened(window[r], input[r], found[r].id, found[r].row.role)
  /\ pc[r] = "done" /\ input[r].op = "login" =>
       /\ result[r] = "ok" => Opened(window[r], input[r], token[r].uid, token[r].role)
       /\ result[r] # "ok" /\ ~broken[r] => Refused(window[r], input[r])

LoginInv == \A r \in Requests : Explained(r)

LEMMA WindowsGrow ==
  ASSUME NEW W, NEW V, W \subseteq V, NEW in
  PROVE  /\ \A c, role : Opened(W, in, c, role) => Opened(V, in, c, role)
         /\ Refused(W, in) => Refused(V, in)
BY DEF Opened, Refused

\* A step that leaves r alone leaves its explanation.
LEMMA OthersExplained ==
  ASSUME NEW r \in Requests, Explained(r),
         pc'[r] = pc[r], input'[r] = input[r], found'[r] = found[r],
         result'[r] = result[r], token'[r] = token[r],
         pc[r] = "done" => broken'[r] = broken[r],
         window[r] \subseteq window'[r],
         pc[r] \notin {"idle", "done"} => users' \in window'[r]
  PROVE  Explained(r)'
BY WindowsGrow DEF Explained

\* A refusal while r runs without a fault: the table of this moment explains it.
LEMMA RefusalExplained ==
  ASSUME OneAccountPerEmail, NEW r \in Requests, AuthenticateRefuses(r), ~broken[r]
  PROVE  ~\E c \in Ids, role \in Roles : Admitting(users, input[r], c, role)
<1> SUFFICES ASSUME NEW c \in Ids, NEW role \in Roles, Admitting(users, input[r], c, role)
             PROVE  FALSE
    OBVIOUS
<1>1. c \in Matching(users, input[r].email) /\ c \in Held(users)
    BY DEF Admitting, Matching, Held, SameEmail
<1>2. PICK d \in Matching(users, input[r].email) :
        ~users[d].is_active \/ ~Compares(users[d], input[r].password)
    BY <1>1 DEF AuthenticateRefuses
<1>3. d \in Held(users) /\ Fold[users[c].email] = Fold[users[d].email]
    BY <1>1, <1>2 DEF Matching, SameEmail
<1>4. c = d
    BY <1>1, <1>3 DEF OneAccountPerEmail
<1> QED
    BY <1>2, <1>4 DEF Admitting, Compares

\* Fails(r, res) outside a login needs no explanation.
LEMMA ReturnsExplained ==
  ASSUME TypeInv, LoginInv, NEW r \in Requests, NEW res \in Results, Returns(r, res),
         UNCHANGED <<input, found, token, broken>>,
         input[r].op = "login" =>
           /\ res = "ok" => Opened(window'[r], input[r], token[r].uid, token[r].role)
           /\ res # "ok" /\ ~broken[r] => Refused(window'[r], input[r]),
         \A q \in Requests : window[q] \subseteq window'[q],
         \A q \in Requests : pc[q] \notin {"idle", "done"} => users' \in window'[q]
  PROVE  LoginInv'
<1>1. /\ pc'[r] = "done" /\ result'[r] = res
      /\ \A q \in Requests : q # r => pc'[q] = pc[q] /\ result'[q] = result[q]
    BY ReturnsType DEF TypeInv
<1>2. Explained(r)'
    BY <1>1 DEF Explained
<1>3. ASSUME NEW q \in Requests, q # r PROVE Explained(q)'
    BY <1>1, <1>3, OthersExplained DEF LoginInv
<1> QED
    BY <1>2, <1>3 DEF LoginInv

LEMMA FailsExplained ==
  ASSUME TypeInv, LoginInv, NEW r \in Requests, NEW res \in Results, Fails(r, res),
         input[r].op = "login" => res # "ok" /\ (broken[r] \/ Refused(window[r], input[r]))
  PROVE  LoginInv'
<1>1. \A q \in Requests : pc[q] \notin {"idle", "done"} => users \in window[q]
    BY DEF LoginInv, Explained
<1>2. Returns(r, res) /\ UNCHANGED <<users, input, found, token, broken, window>>
    BY DEF Fails, history
<1> QED
    BY <1>1, <1>2, ReturnsExplained

\* An unfinished request that moves on to place.
LEMMA MovesExplained ==
  ASSUME TypeInv, LoginInv, NEW r \in Requests,
         NEW place \in {"touch", "sign", "write"},
         pc[r] \notin {"idle", "done"}, pc' = [pc EXCEPT ![r] = place],
         UNCHANGED <<users, input, result, token, broken, window>>,
         \A q \in Requests : q # r => found'[q] = found[q],
         place # "write" => Opened(window[r], input[r], found'[r].id, found'[r].row.role)
  PROVE  LoginInv'
<1>1. pc'[r] = place /\ \A q \in Requests : q # r => pc'[q] = pc[q]
    BY DEF TypeInv, TypeOK
<1>2. Explained(r)'
    BY <1>1 DEF Explained, LoginInv
<1>3. ASSUME NEW q \in Requests, q # r PROVE Explained(q)'
    <2>1. Explained(q) /\ pc'[q] = pc[q] /\ found'[q] = found[q]
        BY <1>1, <1>3 DEF LoginInv
    <2>2. pc[q] \notin {"idle", "done"} => users' \in window'[q]
        BY <2>1 DEF Explained
    <2> QED
        BY <2>1, <2>2, OthersExplained
<1> QED
    BY <1>2, <1>3 DEF LoginInv

LEMMA LoginNext ==
  ASSUME TypeInv, OneAccountPerEmail, LoginInv, [Next]_vars
  PROVE  LoginInv'
<1>0. \A q \in Requests : pc[q] \notin {"idle", "done"} => users \in window[q]
    BY DEF LoginInv, Explained
<1>1. ASSUME NEW r \in Requests, Send(r) PROVE LoginInv'
    <2>1. /\ pc'[r] = "run" /\ window'[r] = {users}
          /\ \A q \in Requests : q # r => /\ pc'[q] = pc[q] /\ input'[q] = input[q]
                                         /\ window'[q] = window[q]
          /\ UNCHANGED <<users, found, result, token, broken>>
        BY <1>1 DEF Send, TypeInv, TypeOK
    <2>2. Explained(r)'
        BY <2>1 DEF Explained
    <2>3. ASSUME NEW q \in Requests, q # r PROVE Explained(q)'
        BY <1>0, <2>1, <2>3, OthersExplained DEF LoginInv
    <2> QED
        BY <2>2, <2>3 DEF LoginInv
<1>2. ASSUME NEW r \in Requests, Register(r) \/ ChangeWrites(r) PROVE LoginInv'
    <2>1. /\ AfterCommit(r) /\ Observed
          /\ UNCHANGED <<input, found, token, broken>>
          /\ input[r].op # "login"
        BY <1>2 DEF Register, ChangeWrites, At, TypeInv, Places
    <2>2. users' \in Tables
        BY TypeNext DEF TypeInv, TypeOK
    <2>3. PICK res \in Results : Returns(r, res)
        BY <2>1, AfterCommitType DEF TypeInv
    <2> QED
        BY <2>1, <2>2, <2>3, ObservedType, ReturnsExplained DEF TypeInv
<1>3. ASSUME NEW r \in Requests, \/ RegisterFails(r) \/ ChangeRefused(r) \/ ChangeFails(r)
                                \/ Forbid(r)
      PROVE  LoginInv'
    <2>1. input[r].op # "login"
        BY <1>3 DEF RegisterFails, ChangeRefused, ChangeFails, Forbid, At, TypeInv, Places
    <2>2. PICK res \in Results : Fails(r, res)
        BY <1>3 DEF RegisterFails, ChangeRefused, ChangeFails, Forbid, Results
    <2> QED
        BY <2>1, <2>2, FailsExplained
<1>4. ASSUME NEW r \in Requests, Authenticate(r) PROVE LoginInv'
    <2>1. PICK c \in Matching(users, input[r].email) :
            /\ users[c].is_active
            /\ Compares(users[c], input[r].password)
            /\ found' = [found EXCEPT ![r] = [id |-> c, row |-> users[c]]]
        BY <1>4 DEF Authenticate
    <2>2. /\ found'[r] = [id |-> c, row |-> users[c]]
          /\ \A q \in Requests : q # r => found'[q] = found[q]
        BY <2>1 DEF TypeInv, TypeOK
    <2>3. Admitting(users, input[r], c, users[c].role)
        BY <2>1 DEF Matching, Held, SameEmail, Admitting, Compares
    <2>4. users \in window[r] /\ pc[r] \notin {"idle", "done"}
        BY <1>0, <1>4 DEF Authenticate, At
    <2>5. Opened(window[r], input[r], found'[r].id, found'[r].row.role)
        BY <2>2, <2>3, <2>4 DEF Opened
    <2> QED
        BY <1>4, <2>2, <2>4, <2>5, MovesExplained DEF Authenticate, history
<1>5. ASSUME NEW r \in Requests, AuthenticateRefuses(r) PROVE LoginInv'
    <2>1. PICK res \in Results : res # "ok" /\ Fails(r, res)
        BY <1>5 DEF AuthenticateRefuses, Results
    <2>2. users \in window[r]
        BY <1>0, <1>5 DEF AuthenticateRefuses, At
    <2>3. broken[r] \/ Refused(window[r], input[r])
        BY <1>5, <2>2, RefusalExplained DEF Refused, TypeInv, TypeOK
    <2> QED
        BY <2>1, <2>3, FailsExplained
<1>6. ASSUME NEW r \in Requests, TouchLastLogin(r) PROVE LoginInv'
    <2>1. Opened(window[r], input[r], found[r].id, found[r].row.role)
        BY <1>6 DEF TouchLastLogin, LoginInv, Explained
    <2> QED
        BY <1>6, <2>1, MovesExplained DEF TouchLastLogin, history
<1>7. ASSUME NEW r \in Requests, SignToken(r) PROVE LoginInv'
    <2>1. Opened(window[r], input[r], found[r].id, found[r].row.role)
        BY <1>7 DEF SignToken, LoginInv, Explained
    <2>2. /\ token'[r] = Claims(found[r])
          /\ \A q \in Requests : q # r => token'[q] = token[q]
          /\ Returns(r, "ok") /\ "ok" \in Results
          /\ UNCHANGED <<users, input, found, broken, window>>
        BY <1>7 DEF SignToken, TypeInv, TypeOK, history, Results
    <2>3. /\ pc'[r] = "done" /\ result'[r] = "ok"
          /\ \A q \in Requests : q # r => pc'[q] = pc[q] /\ result'[q] = result[q]
        BY <2>2, ReturnsType DEF TypeInv
    <2>4. Explained(r)'
        BY <2>1, <2>2, <2>3 DEF Explained, Claims
    <2>5. ASSUME NEW q \in Requests, q # r PROVE Explained(q)'
        BY <1>0, <2>2, <2>3, <2>5, OthersExplained DEF LoginInv
    <2> QED
        BY <2>4, <2>5 DEF LoginInv
<1>8. ASSUME NEW r \in Requests, ChangeReads(r) PROVE LoginInv'
    <2>1. /\ pc[r] \notin {"idle", "done"} /\ pc' = [pc EXCEPT ![r] = "write"]
          /\ \A q \in Requests : q # r => found'[q] = found[q]
          /\ UNCHANGED <<users, input, result, token, broken, window>>
        BY <1>8 DEF ChangeReads, At, TypeInv, TypeOK, history
    <2> QED
        BY <2>1, MovesExplained
<1>9. ASSUME NEW r \in Requests, Admit(r) PROVE LoginInv'
    <2>1. /\ Returns(r, "ok") /\ "ok" \in Results /\ input[r].op # "login"
          /\ UNCHANGED <<users, input, found, token, broken, window>>
        BY <1>9 DEF Admit, At, Results
    <2> QED
        BY <1>0, <2>1, ReturnsExplained
<1>10. ASSUME NEW c \in Ids, Administer(c) PROVE LoginInv'
    <2>1. Observed /\ UNCHANGED <<pc, input, found, result, token, broken>>
        BY <1>10 DEF Administer
    <2>2. users' \in Tables
        BY TypeNext DEF TypeInv, TypeOK
    <2> QED
        BY <2>1, <2>2, ObservedType, OthersExplained DEF LoginInv, TypeInv
<1>11. ASSUME NEW r \in Requests, Break(r) PROVE LoginInv'
    <2>1. /\ pc[r] # "done" /\ \A q \in Requests : q # r => broken'[q] = broken[q]
          /\ UNCHANGED <<users, pc, input, found, result, token, window>>
        BY <1>11 DEF Break, TypeInv, TypeOK, history
    <2> QED
        BY <1>0, <2>1, OthersExplained DEF LoginInv
<1>12. CASE Tick \/ UNCHANGED vars
    <2>1. UNCHANGED <<users, pc, input, found, result, token, broken, window>>
        BY <1>12 DEF Tick, vars, history
    <2> QED
        BY <1>0, <2>1, OthersExplained DEF LoginInv
<1> QED
    BY <1>1, <1>2, <1>3, <1>4, <1>5, <1>6, <1>7, <1>8, <1>9, <1>10, <1>11, <1>12
    DEF Next, Serve

LEMMA LoginSafe == Spec => [](TypeInv /\ OneAccountPerEmail /\ LoginInv)
<1>1. Init => OneAccountPerEmail
    BY UsersAssumption DEF Init, OneAccountPerEmail
<1>2. Init => LoginInv
    BY DEF Init, LoginInv, Explained
<1> QED
    BY <1>1, <1>2, TypeInit, TypeNext, EmailsNext, LoginNext, PTL DEF Spec

\* A login is answered as if it had been one step, at a moment while it ran.
THEOREM LoginsAreAtomic == Spec => []LoginIsAtomic
<1>1. LoginInv => LoginIsAtomic
    BY DEF LoginInv, Explained, Opened, Refused, LoginIsAtomic
<1> QED
    BY <1>1, LoginSafe, PTL
-----------------------------------------------------------------------------
(* Handlers run as earned.  A request that has ended changes no more, so     *)
(* what a login showed when it ended, and a bearer when it was admitted,     *)
(* stays true.                                                               *)

LEMMA OnlySignTokenSigns ==
  ASSUME TypeInv, [Next]_vars, NEW l \in Requests, token'[l] # token[l]
  PROVE  SignToken(l)
<1>1. ASSUME NEW r \in Requests, SignToken(r), r # l PROVE FALSE
    BY <1>1 DEF SignToken, TypeInv, TypeOK
<1> QED
    BY <1>1 DEF Next, Serve, Send, Register, RegisterFails, Authenticate, AuthenticateRefuses,
       TouchLastLogin, ChangeReads, ChangeRefused, ChangeWrites, ChangeFails, Fails, Admit,
       Forbid, Administer, Break, Tick, vars

LEMMA OnlyAdmitNames ==
  ASSUME TypeInv, [Next]_vars, NEW r \in Requests, caller'[r] # caller[r]
  PROVE  Admit(r)
<1>1. ASSUME NEW q \in Requests, Admit(q), q # r PROVE FALSE
    BY <1>1 DEF Admit, TypeInv, TypeOK
<1> QED
    BY <1>1 DEF Next, Serve, Send, Register, RegisterFails, Authenticate, AuthenticateRefuses,
       TouchLastLogin, SignToken, ChangeReads, ChangeRefused, ChangeWrites, ChangeFails, Fails,
       Forbid, Administer, Break, Tick, vars

LEMMA EndedIsFrozen ==
  ASSUME TypeInv, [Next]_vars, NEW l \in Requests, pc[l] = "done"
  PROVE  /\ pc'[l] = "done" /\ input'[l] = input[l] /\ result'[l] = result[l]
         /\ token'[l] = token[l] /\ caller'[l] = caller[l]
         /\ window'[l] = window[l] /\ checked'[l] = checked[l]
<1>1. /\ token'[l] = token[l] /\ caller'[l] = caller[l]
    BY OnlySignTokenSigns, OnlyAdmitNames DEF SignToken, Admit, At
<1>2. ASSUME NEW r \in Requests, NEW res, pc[r] # "done", Returns(r, res)
      PROVE  pc'[l] = "done" /\ result'[l] = result[l]
    BY <1>2 DEF Returns, TypeInv, TypeOK
<1>3. ASSUME Observed
      PROVE  window'[l] = window[l]
    BY <1>3 DEF Observed
<1>4. ASSUME NEW r \in Requests, Send(r)
      PROVE  /\ pc'[l] = "done" /\ input'[l] = input[l] /\ result'[l] = result[l]
             /\ window'[l] = window[l] /\ checked'[l] = checked[l]
    <2>1. r # l
        BY <1>4 DEF Send
    <2> QED
        BY <1>4, <2>1 DEF Send, TypeInv, TypeOK
<1>5. ASSUME NEW r \in Requests, Register(r) \/ ChangeWrites(r)
      PROVE  /\ pc'[l] = "done" /\ input'[l] = input[l] /\ result'[l] = result[l]
             /\ window'[l] = window[l] /\ checked'[l] = checked[l]
    BY <1>2, <1>3, <1>5 DEF Register, ChangeWrites, At, AfterCommit
<1>6. ASSUME NEW r \in Requests,
             RegisterFails(r) \/ AuthenticateRefuses(r) \/ ChangeRefused(r) \/ ChangeFails(r)
               \/ Forbid(r) \/ SignToken(r)
      PROVE  /\ pc'[l] = "done" /\ input'[l] = input[l] /\ result'[l] = result[l]
             /\ window'[l] = window[l] /\ checked'[l] = checked[l]
    BY <1>2, <1>6 DEF RegisterFails, AuthenticateRefuses, ChangeRefused, ChangeFails, Forbid,
       SignToken, Fails, At, history
<1>7. ASSUME NEW r \in Requests, Authenticate(r) \/ TouchLastLogin(r) \/ ChangeReads(r)
      PROVE  /\ pc'[l] = "done" /\ input'[l] = input[l] /\ result'[l] = result[l]
             /\ window'[l] = window[l] /\ checked'[l] = checked[l]
    BY <1>7 DEF Authenticate, TouchLastLogin, ChangeReads, At, history, TypeInv, TypeOK
<1>8. ASSUME NEW r \in Requests, Admit(r)
      PROVE  /\ pc'[l] = "done" /\ input'[l] = input[l] /\ result'[l] = result[l]
             /\ window'[l] = window[l] /\ checked'[l] = checked[l]
    <2>1. r # l
        BY <1>8 DEF Admit, At
    <2> QED
        BY <1>2, <1>8, <2>1 DEF Admit, At, TypeInv, TypeOK
<1>9. ASSUME NEW c \in Ids, Administer(c)
      PROVE  /\ pc'[l] = "done" /\ input'[l] = input[l] /\ result'[l] = result[l]
             /\ window'[l] = window[l] /\ checked'[l] = checked[l]
    BY <1>3, <1>9 DEF Administer
<1>10. ASSUME (\E r \in Requests : Break(r)) \/ Tick \/ UNCHANGED vars
       PROVE  /\ pc'[l] = "done" /\ input'[l] = input[l] /\ result'[l] = result[l]
              /\ window'[l] = window[l] /\ checked'[l] = checked[l]
    BY <1>10 DEF Break, Tick, vars, history
<1> QED
    BY <1>1, <1>4, <1>5, <1>6, <1>7, <1>8, <1>9, <1>10 DEF Next, Serve

Signed(l) ==
  token[l] # Null =>
    /\ pc[l] = "done" /\ result[l] = "ok" /\ input[l].op = "login"
    /\ token[l].exp = token[l].iat + Expiry

Earned(r) ==
  caller[r] # Null =>
    LET l == input[r].bearer
    IN /\ pc[r] = "done" /\ l \in Requests /\ l # Forged
       /\ pc[l] = "done" /\ result[l] = "ok"
       /\ checked[r] < token[l].iat + Expiry
       /\ Opened(window[l], input[l], caller[r].uid, caller[r].role)
       /\ input[r].need = Null \/ Rank(caller[r].role) >= Rank(input[r].need)

EarnedInv == \A r \in Requests : Signed(r) /\ Earned(r)

LEMMA EarnedNext ==
  ASSUME TypeInv, LoginInv, EarnedInv, [Next]_vars
  PROVE  EarnedInv'
<1>1. ASSUME NEW l \in Requests PROVE Signed(l)'
    <2>1. CASE token'[l] = token[l]
        BY <2>1, EndedIsFrozen DEF EarnedInv, Signed
    <2>2. CASE token'[l] # token[l]
        <3>1. SignToken(l)
            BY <2>2, OnlySignTokenSigns
        <3>2. /\ token'[l] = Claims(found[l]) /\ input' = input
              /\ Returns(l, "ok") /\ "ok" \in Results
            BY <3>1 DEF SignToken, TypeInv, TypeOK, Results
        <3> QED
            BY <3>1, <3>2, ReturnsType DEF Signed, Claims, SignToken, TypeInv, Places
    <2> QED
        BY <2>1, <2>2
<1>2. ASSUME NEW r \in Requests PROVE Earned(r)'
    <2>1. CASE caller'[r] = caller[r] /\ caller[r] # Null
        <3>1. Earned(r) /\ pc[r] = "done"
            BY <2>1 DEF EarnedInv, Earned
        <3> DEFINE l == input[r].bearer
        <3>2. l \in Requests /\ pc[l] = "done" /\ input'[r].bearer = l
            BY <2>1, <3>1, EndedIsFrozen DEF Earned
        <3>3. /\ pc'[l] = "done" /\ input'[l] = input[l] /\ result'[l] = result[l]
              /\ token'[l] = token[l] /\ window'[l] = window[l]
            BY <3>2, EndedIsFrozen
        <3>4. /\ pc'[r] = "done" /\ input'[r] = input[r] /\ checked'[r] = checked[r]
            BY <3>1, EndedIsFrozen
        <3> QED
            BY <2>1, <3>1, <3>2, <3>3, <3>4 DEF Earned
    <2>2. CASE caller'[r] # caller[r]
        <3> DEFINE l == input[r].bearer
        <3>1. Admit(r)
            BY <2>2, OnlyAdmitNames
        <3>2. /\ l \in Requests /\ l # Forged /\ token[l] # Null /\ pc[r] # "done"
              /\ clock < token[l].exp
              /\ RoleAtLeast(token[l].role, input[r].need)
            BY <3>1, InputsType DEF Admit, At, Admits, Valid, TypeInv, Places
        <3>3. /\ caller'[r] = [uid |-> token[l].uid, role |-> token[l].role]
              /\ checked'[r] = clock
              /\ Returns(r, "ok") /\ "ok" \in Results
              /\ UNCHANGED <<input, token, window>>
            BY <3>1 DEF Admit, TypeInv, TypeOK, Results
        <3>4. /\ pc[l] = "done" /\ result[l] = "ok" /\ token[l].exp = token[l].iat + Expiry
              /\ Opened(window[l], input[l], token[l].uid, token[l].role)
            BY <3>2 DEF EarnedInv, Signed, LoginInv, Explained
        <3>5. pc'[r] = "done" /\ pc'[l] = "done" /\ result'[l] = "ok"
            BY <3>2, <3>3, <3>4, ReturnsType, EndedIsFrozen DEF TypeInv
        <3>6. input[r].need = Null \/ Rank(token[l].role) >= Rank(input[r].need)
            BY <3>2 DEF RoleAtLeast
        <3>7. checked'[r] < token'[l].iat + Expiry
            BY <3>2, <3>3, <3>4
        <3> QED
            BY <3>2, <3>3, <3>4, <3>5, <3>6, <3>7 DEF Earned
    <2> QED
        BY <2>1, <2>2 DEF Earned
<1> QED
    BY <1>1, <1>2 DEF EarnedInv

\* Every identity a handler ran under was earned by a login, with that role,
\* less than Expiry before it was checked.
THEOREM IdentitiesAreEarned == Spec => []HandlersRunAsEarned
<1>1. Init => EarnedInv
    BY DEF Init, EarnedInv, Signed, Earned
<1>2. EarnedInv => HandlersRunAsEarned
    BY DEF EarnedInv, Earned, Opened, HandlersRunAsEarned
<1>3. Spec => []EarnedInv
    BY <1>1, EarnedNext, LoginSafe, PTL DEF Spec
<1> QED
    BY <1>2, <1>3, PTL
-----------------------------------------------------------------------------
(* Passwords have owners.  A change compares and writes in two steps, so     *)
(* what it knew must be carried from the one to the other; once written, the *)
(* request has ended and its history stays as it is.                         *)

Known(r, c) == \E t \in window[r] : t[c] # NoRow /\ t[c].password_hash = Digest[input[r].current]

Text(in) == IF in.op = "register" THEN in.password ELSE in.next

Owed(i) ==
  LET r == writes[i].req
  IN /\ pc[r] = "done"
     /\ \/ input[r].op = "register"
        \/ input[r].op = "change" /\ input[r].id = writes[i].id /\ Known(r, writes[i].id)

\* The last write of account c is the i-th.
SetBy(c, i) == /\ writes[i].id = c
               /\ \A j \in i + 1..Len(writes) : writes[j].id # c
               /\ users[c].password_hash = Digest[Text(input[writes[i].req])]

Owned(c) == \/ /\ c \in Held(Registered) /\ \A i \in 1..Len(writes) : writes[i].id # c
               /\ users[c].password_hash = Registered[c].password_hash
            \/ \E i \in 1..Len(writes) : SetBy(c, i)

Compared == \A r \in Requests : pc[r] = "write" =>
              input[r].id = found[r].id /\ Known(r, found[r].id)

OwnersInv == /\ \A i \in 1..Len(writes) : Owed(i)
             /\ \A c \in Held(users) : Owned(c)
             /\ Compared

LEMMA WritesAre ==
  ASSUME TypeInv
  PROVE  /\ Len(writes) \in Nat
         /\ \A i \in 1..Len(writes) : writes[i].req \in Requests /\ writes[i].id \in Ids
<1>1. writes \in Seq([req : Requests, id : Ids])
    BY DEF TypeInv, TypeOK
<1>2. \A i \in 1..Len(writes) : writes[i] \in [req : Requests, id : Ids]
    BY <1>1, ElementOfSeq
<1> QED
    BY <1>1, <1>2, LenProperties

LEMMA InputsStay ==
  ASSUME TypeInv, [Next]_vars, NEW r \in Requests, pc[r] # "idle"
  PROVE  input'[r] = input[r] /\ \A t \in window[r] : t \in window'[r]
<1>1. ASSUME NEW q \in Requests, Send(q)
      PROVE  input'[r] = input[r] /\ \A t \in window[r] : t \in window'[r]
    BY <1>1 DEF Send, TypeInv, TypeOK
<1>2. ASSUME Observed, UNCHANGED input
      PROVE  input'[r] = input[r] /\ \A t \in window[r] : t \in window'[r]
    BY <1>2 DEF Observed
<1>3. ASSUME UNCHANGED <<input, window>>
      PROVE  input'[r] = input[r] /\ \A t \in window[r] : t \in window'[r]
    BY <1>3
<1>4. \/ \E q \in Requests : Send(q)
      \/ Observed /\ UNCHANGED input
      \/ UNCHANGED <<input, window>>
    BY DEF Next, Serve, Register, RegisterFails, Authenticate, AuthenticateRefuses,
       TouchLastLogin, SignToken, ChangeReads, ChangeRefused, ChangeWrites, ChangeFails, Fails,
       Admit, Forbid, Administer, Break, Tick, vars, history
<1> QED
    BY <1>1, <1>2, <1>3, <1>4

LEMMA OnlyChangeReadsCompares ==
  ASSUME TypeInv, [Next]_vars, NEW r \in Requests, pc'[r] = "write", ~ChangeReads(r)
  PROVE  pc[r] = "write" /\ found'[r] = found[r]
<1>1. ASSUME NEW q \in Requests, NEW res, Returns(q, res)
      PROVE  pc[r] = "write"
    BY <1>1 DEF Returns, TypeInv, TypeOK
<1>2. ASSUME NEW q \in Requests, Send(q) PROVE pc[r] = "write" /\ found' = found
    BY <1>2 DEF Send, TypeInv, TypeOK
<1>3. ASSUME NEW q \in Requests, Register(q) \/ ChangeWrites(q)
      PROVE  pc[r] = "write" /\ found' = found
    BY <1>1, <1>3 DEF Register, ChangeWrites, AfterCommit
<1>4. ASSUME NEW q \in Requests,
             RegisterFails(q) \/ AuthenticateRefuses(q) \/ ChangeRefused(q) \/ ChangeFails(q)
               \/ Forbid(q) \/ SignToken(q) \/ Admit(q)
      PROVE  pc[r] = "write" /\ found' = found
    BY <1>1, <1>4 DEF RegisterFails, AuthenticateRefuses, ChangeRefused, ChangeFails, Forbid,
       SignToken, Admit, Fails
<1>5. ASSUME NEW q \in Requests, Authenticate(q) \/ TouchLastLogin(q) \/ ChangeReads(q)
      PROVE  pc[r] = "write" /\ found'[r] = found[r]
    BY <1>5 DEF Authenticate, TouchLastLogin, ChangeReads, TypeInv, TypeOK
<1> QED
    BY <1>2, <1>3, <1>4, <1>5 DEF Next, Serve, Administer, Break, Tick, vars

LEMMA ComparedNext ==
  ASSUME TypeInv, LoginInv, OwnersInv, [Next]_vars
  PROVE  Compared'
<1> SUFFICES ASSUME NEW r \in Requests, pc'[r] = "write"
             PROVE  /\ input'[r].id = found'[r].id
                    /\ \E t \in window'[r] : /\ t[found'[r].id] # NoRow
                                             /\ t[found'[r].id].password_hash = Digest[input'[r].current]
    BY DEF Compared, Known
<1>1. CASE ChangeReads(r)
    <2> DEFINE c == input[r].id
    <2>1. /\ c \in Held(users) /\ Compares(users[c], input[r].current)
          /\ found' = [found EXCEPT ![r] = [id |-> c, row |-> users[c]]]
          /\ UNCHANGED <<input, window>> /\ pc[r] = "run"
        BY <1>1 DEF ChangeReads, At, history
    <2>2. found'[r].id = c
        BY <2>1 DEF TypeInv, TypeOK
    <2>3. users \in window[r]
        BY <2>1 DEF LoginInv, Explained
    <2> QED
        BY <2>1, <2>2, <2>3 DEF Held, Compares
<1>2. CASE ~ChangeReads(r)
    <2>1. pc[r] = "write" /\ pc[r] # "idle" /\ found'[r] = found[r]
        BY <1>2, OnlyChangeReadsCompares
    <2>2. input'[r] = input[r] /\ \A t \in window[r] : t \in window'[r]
        BY <2>1, InputsStay
    <2> QED
        BY <2>1, <2>2 DEF OwnersInv, Compared, Known
<1> QED
    BY <1>1, <1>2

\* A step that writes no password.
LEMMA OwnersKept ==
  ASSUME TypeInv, LoginInv, OwnersInv, [Next]_vars, UNCHANGED writes,
         Held(users') = Held(users),
         \A c \in Held(users) : users'[c].password_hash = users[c].password_hash
  PROVE  OwnersInv'
<1>1. ASSUME NEW i \in 1..Len(writes)
      PROVE  Owed(i)' /\ input'[writes[i].req] = input[writes[i].req]
    <2>1. writes[i].req \in Requests /\ Owed(i)
        BY WritesAre DEF OwnersInv
    <2> DEFINE r == writes[i].req
    <2>2. pc'[r] = "done" /\ input'[r] = input[r] /\ window'[r] = window[r]
        BY <2>1, EndedIsFrozen DEF Owed
    <2> QED
        BY <2>1, <2>2 DEF Owed, Known
<1>2. ASSUME NEW c \in Held(users) PROVE Owned(c)'
    <2>1. Owned(c)
        BY DEF OwnersInv
    <2> QED
        BY <1>1, <2>1 DEF Owned, SetBy
<1>3. Compared'
    BY ComparedNext
<1> QED
    BY <1>1, <1>2, <1>3 DEF OwnersInv

\* A step that writes the password of account c.
LEMMA OwnersWritten ==
  ASSUME TypeInv, LoginInv, OwnersInv, [Next]_vars, NEW r \in Requests, NEW c \in Ids,
         pc[r] # "done", pc'[r] = "done", UNCHANGED input,
         writes' = Append(writes, [req |-> r, id |-> c]),
         Held(users') \subseteq Held(users) \cup {c},
         \A d \in Held(users) \ {c} : users'[d] = users[d],
         users'[c].password_hash = Digest[Text(input[r])],
         \/ input[r].op = "register"
         \/ /\ input[r].op = "change" /\ input[r].id = c
            /\ \E t \in window'[r] : t[c] # NoRow /\ t[c].password_hash = Digest[input[r].current]
  PROVE  OwnersInv'
<1>n. PICK n \in Nat : n = Len(writes)
    BY WritesAre
<1>1. /\ Len(writes') = n + 1
      /\ writes'[n + 1].req = r /\ writes'[n + 1].id = c
      /\ \A i \in 1..n : writes'[i] = writes[i]
    <2>1. writes \in Seq([req : Requests, id : Ids])
        BY DEF TypeInv, TypeOK
    <2>2. [req |-> r, id |-> c] \in [req : Requests, id : Ids]
        OBVIOUS
    <2>3. /\ Len(writes') = n + 1 /\ writes'[n + 1] = [req |-> r, id |-> c]
          /\ \A i \in 1..n : writes'[i] = writes[i]
        BY <1>n, <2>1, <2>2, AppendProperties, LenProperties
    <2> QED
        BY <2>3
<1>2. ASSUME NEW i \in 1..n PROVE Owed(i)'
    <2>1. writes[i].req \in Requests /\ Owed(i)
        BY <1>n, WritesAre DEF OwnersInv
    <2> DEFINE q == writes[i].req
    <2>2. pc'[q] = "done" /\ input'[q] = input[q] /\ window'[q] = window[q]
        BY <2>1, EndedIsFrozen DEF Owed
    <2>3. writes'[i] = writes[i]
        BY <1>1
    <2> QED
        BY <2>1, <2>2, <2>3 DEF Owed, Known
<1>3. Owed(n + 1)'
    BY <1>1 DEF Owed, Known
<1>4. \A i \in 1..Len(writes') : Owed(i)'
    <2>1. \A i \in 1..Len(writes') : i \in 1..n \/ i = n + 1
        BY <1>1
    <2> QED
        BY <1>2, <1>3, <2>1
<1>5. ASSUME NEW d \in Held(users') PROVE Owned(d)'
    <2>1. CASE d = c
        <3>1. n + 1 \in 1..Len(writes') /\ \A j \in n + 1 + 1..Len(writes') : writes'[j].id # c
            BY <1>1
        <3>2. SetBy(c, n + 1)'
            BY <1>1, <3>1 DEF SetBy
        <3> QED
            BY <2>1, <3>1, <3>2 DEF Owned
    <2>2. CASE d # c
        <3>1. Owned(d) /\ users'[d] = users[d]
            BY <2>2 DEF OwnersInv
        <3>2. \A j \in 1..n + 1 : writes'[j].id = d => j \in 1..n /\ writes[j].id = d
            BY <1>1, <2>2
        <3>3. CASE \E i \in 1..n : SetBy(d, i)
            <4>1. PICK i \in 1..n : SetBy(d, i)
                BY <3>3
            <4>2. ASSUME NEW j \in i + 1..n + 1, writes'[j].id = d PROVE FALSE
                <5>1. j \in 1..n + 1 /\ j \in i + 1..n + 1
                    BY <4>1
                <5>2. j \in 1..n /\ writes[j].id = d
                    BY <3>2, <4>2, <5>1
                <5>3. j \in i + 1..n
                    BY <5>1, <5>2
                <5> QED
                    BY <1>n, <4>1, <5>2, <5>3 DEF SetBy
            <4>3. i \in 1..Len(writes') /\ writes'[i] = writes[i]
                BY <1>1
            <4> QED
                BY <1>1, <3>1, <4>1, <4>2, <4>3 DEF Owned, SetBy
        <3>4. CASE ~\E i \in 1..n : SetBy(d, i)
            <4>1. /\ d \in Held(Registered) /\ \A i \in 1..n : writes[i].id # d
                  /\ users[d].password_hash = Registered[d].password_hash
                BY <1>n, <3>1, <3>4 DEF Owned
            <4>2. \A i \in 1..Len(writes') : writes'[i].id # d
                BY <1>1, <3>2, <4>1
            <4> QED
                BY <3>1, <4>1, <4>2 DEF Owned
        <3> QED
            BY <3>3, <3>4
    <2> QED
        BY <2>1, <2>2
<1>6. Compared'
    BY ComparedNext
<1> QED
    BY <1>4, <1>5, <1>6 DEF OwnersInv

LEMMA OwnersNext ==
  ASSUME TypeInv, LoginInv, OwnersInv, [Next]_vars
  PROVE  OwnersInv'
<1>1. ASSUME NEW r \in Requests, Register(r) PROVE OwnersInv'
    <2>1. PICK c \in Ids \ Held(users) :
            /\ users' = [users EXCEPT ![c] =
                 [email |-> input[r].email, password_hash |-> Digest[input[r].password],
                  role |-> IF input[r].role = Null THEN "user" ELSE input[r].role,
                  is_active |-> TRUE]]
            /\ writes' = Append(writes, [req |-> r, id |-> c])
        BY <1>1 DEF Register
    <2>2. /\ users'[c].password_hash = Digest[input[r].password]
          /\ \A d \in Ids : d # c => users'[d] = users[d]
        BY <2>1 DEF TypeInv, TypeOK, Tables
    <2>3. /\ input[r].op = "register" /\ pc[r] # "done" /\ UNCHANGED input /\ AfterCommit(r)
        BY <1>1 DEF Register, At
    <2>4. pc'[r] = "done"
        BY <2>3, AfterCommitType, ReturnsType DEF TypeInv
    <2> QED
        BY <2>1, <2>2, <2>3, <2>4, OwnersWritten DEF Held, Text
<1>2. ASSUME NEW r \in Requests, ChangeWrites(r) PROVE OwnersInv'
    <2> DEFINE c == found[r].id
    <2>1. /\ pc[r] = "write" /\ c \in Held(users) /\ c \in Ids
          /\ input[r].op = "change" /\ input[r].id = c /\ Known(r, c)
          /\ pc[r] # "idle" /\ pc[r] # "done"
        BY <1>2 DEF ChangeWrites, TypeInv, Places, OwnersInv, Compared, Held
    <2>2. /\ users' = [users EXCEPT ![c].password_hash = Digest[input[r].next]]
          /\ writes' = Append(writes, [req |-> r, id |-> c])
          /\ AfterCommit(r) /\ UNCHANGED input
        BY <1>2 DEF ChangeWrites
    <2>3. Held(users') = Held(users)
        BY <1>2, ChangeKeepsRow
    <2>4. users[c] \in Row
        BY <2>1 DEF Held, TypeInv, TypeOK, Tables
    <2>5. /\ users'[c].password_hash = Digest[input[r].next]
          /\ \A d \in Ids : d # c => users'[d] = users[d]
        BY <2>1, <2>2, <2>4 DEF TypeInv, TypeOK, Tables, Row
    <2>6. pc'[r] = "done"
        BY <2>2, AfterCommitType, ReturnsType DEF TypeInv
    <2>7. \E t \in window'[r] : t[c] # NoRow /\ t[c].password_hash = Digest[input[r].current]
        BY <2>1, InputsStay DEF Known
    <2> QED
        BY <2>1, <2>2, <2>3, <2>5, <2>6, <2>7, OwnersWritten DEF Held, Text
<1>3. ASSUME NEW c \in Ids, Administer(c) PROVE OwnersInv'
    <2>1. PICK o \in Operations :
            users' = [users EXCEPT ![c].role = o.role, ![c].is_active = o.is_active]
        BY <1>3 DEF Administer
    <2>2. users[c] \in Row
        BY <1>3 DEF Administer, TypeInv, TypeOK, Tables
    <2>3. \A d \in Ids : d # c => users'[d] = users[d]
        BY <2>1 DEF TypeInv, TypeOK, Tables
    <2>4. users'[c].password_hash = users[c].password_hash
        BY <2>1, <2>2 DEF TypeInv, TypeOK, Tables, Row
    <2>5. Held(users') = Held(users) /\ UNCHANGED writes
        BY <1>3, AdministerKeepsRow DEF Administer
    <2> QED
        BY <2>3, <2>4, <2>5, OwnersKept DEF Held
<1>4. CASE UNCHANGED <<users, writes>>
    BY <1>4, OwnersKept
<1> QED
    BY <1>1, <1>2, <1>3, <1>4 DEF Next, Serve, Send, RegisterFails, Authenticate,
       AuthenticateRefuses, TouchLastLogin, SignToken, ChangeReads, ChangeRefused, ChangeFails,
       Fails, Admit, Forbid, Break, Tick, vars, history

\* The password of an account is the one it began with, or the last written:
\* at its registration, or by somebody who knew one the account had meanwhile.
THEOREM PasswordsAreOwned == Spec => []PasswordsHaveOwners
<1>1. Init => OwnersInv
    BY UsersAssumption, EmptySeq DEF Init, OwnersInv, Owned, Compared
<1>2. OwnersInv => PasswordsHaveOwners
    BY DEF OwnersInv, Owed, Owned, SetBy, Text, Known, PasswordsHaveOwners
<1> QED
    BY <1>1, <1>2, OwnersNext, LoginSafe, PTL DEF Spec
=============================================================================

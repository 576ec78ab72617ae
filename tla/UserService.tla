----------------------------- MODULE UserService -----------------------------
(***************************************************************************)
(* Accounts, sign-in and tokens: users.Service with its handlers, and the  *)
(* auth middleware in front of every campaign route.                       *)
(*                                                                         *)
(* A request is a goroutine.  Registration is one INSERT; a login reads    *)
(* the account, records the login and signs a token with the clock of that *)
(* moment; a password change reads, compares and writes in separate steps. *)
(* Nothing is locked in between: other requests, an operator's UPDATE of   *)
(* is_active or role, and time may come between any two steps.             *)
(***************************************************************************)
EXTENDS Integers, Sequences, FiniteSets

CONSTANTS
  Requests,    \* each is sent at most once
  Ids,         \* user UUIDs
  Emails,      \* texts of an email column
  Fold,        \* what CITEXT compares: a text with its case folded
  Passwords,   \* texts of a password
  Digest,      \* what bcrypt's hash tells apart of a text, its first 72 bytes
  Unhashable,  \* the longer texts: GenerateFromPassword refuses them
  Registered,  \* the accounts there are at the start
  Expiry,      \* JWT_EXPIRY_HOURS, in ticks of the clock
  MaxClock,    \* bound on the clock
  MaxBroken,   \* bound on the requests whose context or connection fails
  Traffic,     \* the inputs clients choose from: all of Inputs, or a bound
  Operations,  \* the roles and is_active values an operator sets
  Forged,      \* a bearer that no login returned, or none at all
  Null, NoRow

Roles == {"viewer", "user", "admin"}

\* The role a client can ask for when it registers: absent, valid or not.
RoleTexts == Roles \cup {Null, "owner"}

Digests == {Digest[p] : p \in Passwords}
Row == [email : Emails, password_hash : Digests, role : Roles, is_active : BOOLEAN]
Tables == [Ids -> Row \cup {NoRow}]
Found == [id : Ids, row : Row]
Token == [uid : Ids, role : Roles, iat : Nat, exp : Nat]
Identity == [uid : Ids, role : Roles]
Held(t) == {c \in Ids : t[c] # NoRow}

\* A variant: email VARCHAR UNIQUE.
SameText(a, b) == a = b

\* Equality on CITEXT.
SameEmail(a, b) == Fold[a] = Fold[b]

ASSUME UsersAssumption ==
  /\ DOMAIN Fold = Emails /\ DOMAIN Digest = Passwords
  /\ Unhashable \subseteq Passwords
  /\ NoRow \notin Row /\ Null \notin Roles \cup Found \cup Token \cup Identity
  /\ Registered \in Tables
  /\ \A c, d \in Held(Registered) :
       Fold[Registered[c].email] = Fold[Registered[d].email] => c = d
  /\ Forged \notin Requests
  /\ Expiry \in Nat /\ MaxClock \in Nat /\ MaxBroken \in Nat

\* What a client can send: POST /auth/register and /auth/login, a call of
\* UpdatePassword, and a request to a protected route with the token a login
\* returned, which may need a role (RequireRole) or none.
Inputs ==
       [op : {"register"}, email : Emails, password : Passwords, role : RoleTexts]
  \cup [op : {"login"}, email : Emails, password : Passwords]
  \cup [op : {"change"}, id : Ids, current : Passwords, next : Passwords]
  \cup [op : {"protected"}, bearer : Requests \cup {Forged}, need : Roles \cup {Null}]

ASSUME UserTrafficAssumption ==
  /\ Traffic \subseteq Inputs /\ Null \notin Inputs
  /\ Operations \subseteq [role : Roles, is_active : BOOLEAN]

VARIABLES
  users,      \* the table
  lastLogin,  \* the accounts whose last_login_at is not NULL
  clock,
  pc,         \* where the goroutine of a request is
  input,
  found,      \* the id and row a login or a change has read
  result,     \* what the method or the middleware returned
  token,      \* the token a login returned
  caller,     \* the identity the middleware put into the context
  broken,     \* the context or connection of the request has failed
  window,     \* history: the tables there have been while a request ran
  writes,     \* history: the password_hash writes, in commit order
  checked     \* history: when the middleware validated the token

history == <<window, writes, checked>>
vars == <<users, lastLogin, clock, pc, input, found, result, token, caller, broken, history>>

Results == {"none", "ok", "ErrInvalidCredentials", "ErrInactiveAccount", "ErrNotFound",
            "forbidden", "error"}

\* The schema's promise for the table, and the shape of the goroutines' state.
TypeOK ==
  /\ users \in Tables
  /\ lastLogin \in SUBSET Ids
  /\ clock \in 0..MaxClock
  /\ pc \in [Requests -> {"idle", "run", "touch", "sign", "write", "done"}]
  /\ input \in [Requests -> Inputs \cup {Null}]
  /\ found \in [Requests -> Found \cup {Null}]
  /\ result \in [Requests -> Results]
  /\ token \in [Requests -> Token \cup {Null}]
  /\ caller \in [Requests -> Identity \cup {Null}]
  /\ broken \in [Requests -> BOOLEAN]
  /\ window \in [Requests -> SUBSET Tables]
  /\ writes \in Seq([req : Requests, id : Ids])
  /\ checked \in [Requests -> 0..MaxClock]
-----------------------------------------------------------------------------
Init ==
  /\ users = Registered
  /\ lastLogin = {}
  /\ clock = 0
  /\ pc = [r \in Requests |-> "idle"]
  /\ input = [r \in Requests |-> Null]
  /\ found = [r \in Requests |-> Null]
  /\ result = [r \in Requests |-> "none"]
  /\ token = [r \in Requests |-> Null]
  /\ caller = [r \in Requests |-> Null]
  /\ broken = [r \in Requests |-> FALSE]
  /\ window = [r \in Requests |-> {}]
  /\ writes = <<>>
  /\ checked = [r \in Requests |-> 0]

\* A client presents a token only once a login has returned it.
Send(r) ==
  /\ pc[r] = "idle"
  /\ \E in \in Traffic :
       /\ in.op = "protected" => in.bearer \in {Forged} \cup {l \in Requests : token[l] # Null}
       /\ input' = [input EXCEPT ![r] = in]
  /\ pc' = [pc EXCEPT ![r] = "run"]
  /\ window' = [window EXCEPT ![r] = {users}]
  /\ UNCHANGED <<users, lastLogin, clock, found, result, token, caller, broken, writes, checked>>

At(r, place, op) == pc[r] = place /\ input[r].op = op

Returns(r, res) == /\ pc' = [pc EXCEPT ![r] = "done"]
                   /\ result' = [result EXCEPT ![r] = res]

\* The history of a step that changes the table.
Observed == window' = [r \in Requests |-> IF pc[r] \in {"idle", "done"} THEN window[r]
                                          ELSE window[r] \cup {users'}]

\* The result of a statement that has committed: a broken connection may
\* report an error for it.
AfterCommit(r) == \/ Returns(r, "ok")
                  \/ broken[r] /\ Returns(r, "error")

\* A statement of r fails without effect, or bcrypt refuses the password.
Fails(r, res) == /\ Returns(r, res)
                 /\ UNCHANGED <<users, lastLogin, clock, input, found, token, caller,
                                broken, history>>
-----------------------------------------------------------------------------
(* Create *)

\* A variant: the schema without the CHECK constraint on role.
InsertableAnyRole(in) == \A c \in Held(users) : ~SameEmail(users[c].email, in.email)

\* The CHECK constraint on role and the UNIQUE constraint on email.
Insertable(in) == /\ in.role \in Roles \cup {Null}
                  /\ \A c \in Held(users) : ~SameEmail(users[c].email, in.email)

Register(r) ==
  /\ At(r, "run", "register")
  /\ input[r].password \notin Unhashable
  /\ Insertable(input[r])
  /\ \E c \in Ids \ Held(users) :
       /\ users' = [users EXCEPT ![c] =
            [email |-> input[r].email, password_hash |-> Digest[input[r].password],
             role |-> IF input[r].role = Null THEN "user" ELSE input[r].role,
             is_active |-> TRUE]]
       /\ writes' = Append(writes, [req |-> r, id |-> c])
  /\ Observed
  /\ AfterCommit(r)
  /\ UNCHANGED <<lastLogin, clock, input, found, token, caller, broken, checked>>

\* bcrypt refuses the password, or the INSERT fails: a constraint, a connection.
RegisterFails(r) ==
  /\ At(r, "run", "register")
  /\ input[r].password \in Unhashable \/ ~Insertable(input[r]) \/ broken[r]
  /\ Fails(r, "error")
-----------------------------------------------------------------------------
(* Authenticate *)

\* GetByEmail.
Matching(t, email) == {c \in Held(t) : SameEmail(t[c].email, email)}

\* A variant: the arguments of the comparison taken from the wrong row.
ComparesAny(row, password) == row.password_hash \in Digests

\* What CompareHashAndPassword tells.
Compares(row, password) == row.password_hash = Digest[password]

\* GetByEmail found the account and its row passes the checks.
Authenticate(r) ==
  /\ At(r, "run", "login")
  /\ \E c \in Matching(users, input[r].email) :
       /\ users[c].is_active
       /\ Compares(users[c], input[r].password)
       /\ found' = [found EXCEPT ![r] = [id |-> c, row |-> users[c]]]
  /\ pc' = [pc EXCEPT ![r] = "touch"]
  /\ UNCHANGED <<users, lastLogin, clock, input, result, token, caller, broken, history>>

AuthenticateRefuses(r) ==
  /\ At(r, "run", "login")
  /\ \/ /\ Matching(users, input[r].email) = {} \/ broken[r]
        /\ Fails(r, "ErrInvalidCredentials")
     \/ \E c \in Matching(users, input[r].email) :
          \/ ~users[c].is_active /\ Fails(r, "ErrInactiveAccount")
          \/ /\ users[c].is_active /\ ~Compares(users[c], input[r].password)
             /\ Fails(r, "ErrInvalidCredentials")

\* UPDATE users SET last_login_at = NOW(): its error is ignored.
TouchLastLogin(r) ==
  /\ pc[r] = "touch"
  /\ \/ lastLogin' = lastLogin \cup {found[r].id}
     \/ broken[r] /\ UNCHANGED lastLogin
  /\ pc' = [pc EXCEPT ![r] = "sign"]
  /\ UNCHANGED <<users, clock, input, found, result, token, caller, broken, history>>

\* The claims of signToken.
Claims(f) == [uid |-> f.id, role |-> f.row.role, iat |-> clock, exp |-> clock + Expiry]

SignToken(r) ==
  /\ pc[r] = "sign"
  /\ token' = [token EXCEPT ![r] = Claims(found[r])]
  /\ Returns(r, "ok")
  /\ UNCHANGED <<users, lastLogin, clock, input, found, caller, broken, history>>
-----------------------------------------------------------------------------
(* UpdatePassword *)

ChangeReads(r) ==
  LET c == input[r].id
  IN /\ At(r, "run", "change")
     /\ c \in Held(users)
     /\ Compares(users[c], input[r].current)
     /\ input[r].next \notin Unhashable
     /\ found' = [found EXCEPT ![r] = [id |-> c, row |-> users[c]]]
     /\ pc' = [pc EXCEPT ![r] = "write"]
     /\ UNCHANGED <<users, lastLogin, clock, input, result, token, caller, broken, history>>

ChangeRefused(r) ==
  LET c == input[r].id
  IN /\ At(r, "run", "change")
     /\ \/ c \notin Held(users) /\ Fails(r, "ErrNotFound")
        \/ /\ c \in Held(users) /\ ~Compares(users[c], input[r].current)
           /\ Fails(r, "ErrInvalidCredentials")
        \/ /\ c \in Held(users) /\ Compares(users[c], input[r].current)
           /\ input[r].next \in Unhashable
           /\ Fails(r, "error")
        \/ broken[r] /\ Fails(r, "error")

ChangeWrites(r) ==
  /\ pc[r] = "write"
  /\ users' = [users EXCEPT ![found[r].id].password_hash = Digest[input[r].next]]
  /\ writes' = Append(writes, [req |-> r, id |-> found[r].id])
  /\ Observed
  /\ AfterCommit(r)
  /\ UNCHANGED <<lastLogin, clock, input, found, token, caller, broken, checked>>

ChangeFails(r) == pc[r] = "write" /\ broken[r] /\ Fails(r, "error")
-----------------------------------------------------------------------------
(* Middleware and RequireRole *)

\* A variant: a parser that does not validate the claims.
ValidIgnoringExpiry(t) == TRUE

\* ParseWithClaims: signed by this service, and not expired.
Valid(t) == clock < t.exp

Rank(role) == CASE role = "viewer" -> 1 [] role = "user" -> 2 [] role = "admin" -> 3

RoleAtLeast(have, need) == need # Null => Rank(have) >= Rank(need)

Admits(in) == /\ in.bearer # Forged
              /\ Valid(token[in.bearer])
              /\ RoleAtLeast(token[in.bearer].role, in.need)

\* The request reaches its handler, under the identity in the claims.
Admit(r) ==
  /\ At(r, "run", "protected")
  /\ Admits(input[r])
  /\ caller' = [caller EXCEPT ![r] = [uid |-> token[input[r].bearer].uid,
                                      role |-> token[input[r].bearer].role]]
  /\ checked' = [checked EXCEPT ![r] = clock]
  /\ Returns(r, "ok")
  /\ UNCHANGED <<users, lastLogin, clock, input, found, token, broken, window, writes>>

Forbid(r) ==
  /\ At(r, "run", "protected")
  /\ ~Admits(input[r])
  /\ Fails(r, "forbidden")
-----------------------------------------------------------------------------
(* The environment *)

\* An operator changes an account in the database.
Administer(c) ==
  /\ users[c] # NoRow
  /\ \E o \in Operations :
       users' = [users EXCEPT ![c].role = o.role, ![c].is_active = o.is_active]
  /\ Observed
  /\ UNCHANGED <<lastLogin, clock, pc, input, found, result, token, caller, broken,
                 writes, checked>>

Break(r) ==
  /\ pc[r] \notin {"idle", "done"}
  /\ input[r].op # "protected"
  /\ ~broken[r]
  /\ Cardinality({q \in Requests : broken[q]}) < MaxBroken
  /\ broken' = [broken EXCEPT ![r] = TRUE]
  /\ UNCHANGED <<users, lastLogin, clock, pc, input, found, result, token, caller, history>>

Tick ==
  /\ clock < MaxClock
  /\ clock' = clock + 1
  /\ UNCHANGED <<users, lastLogin, pc, input, found, result, token, caller, broken, history>>

Serve(r) == \/ Register(r) \/ RegisterFails(r)
            \/ Authenticate(r) \/ AuthenticateRefuses(r) \/ TouchLastLogin(r) \/ SignToken(r)
            \/ ChangeReads(r) \/ ChangeRefused(r) \/ ChangeWrites(r) \/ ChangeFails(r)
            \/ Admit(r) \/ Forbid(r)

Next == \/ \E r \in Requests : Send(r) \/ Serve(r) \/ Break(r)
        \/ \E c \in Ids : Administer(c)
        \/ Tick

Spec == Init /\ [][Next]_vars
-----------------------------------------------------------------------------
(* Properties *)

\* Registrations that overlap never leave two accounts a sign-in could match:
\* an email, in any case, belongs to at most one account.
OneAccountPerEmail ==
  \A c, d \in Held(users) : Fold[users[c].email] = Fold[users[d].email] => c = d

\* A table that would admit a login with input in, as account c with role role.
Admitting(t, in, c, role) ==
  /\ t[c] # NoRow
  /\ Fold[t[c].email] = Fold[in.email]
  /\ t[c].is_active
  /\ t[c].password_hash = Digest[in.password]
  /\ t[c].role = role

\* A login is answered as if it had been one step at some moment while it ran,
\* whatever registrations, password changes and deactivations overlap it: a
\* token names an account, and the role, that the password opened at such a
\* moment; a refusal without a fault means there was a moment it opened none.
LoginIsAtomic ==
  \A r \in Requests : pc[r] = "done" /\ input[r].op = "login" =>
    /\ result[r] = "ok" =>
         \E t \in window[r] : Admitting(t, input[r], token[r].uid, token[r].role)
    /\ result[r] # "ok" /\ ~broken[r] =>
         \E t \in window[r] : ~\E c \in Ids, role \in Roles : Admitting(t, input[r], c, role)

\* Who set the password of an account: nobody since the start, or the last
\* write, which was its registration or a change by somebody who knew a
\* password the account had while the change ran.
PasswordsHaveOwners ==
  /\ \A i \in 1..Len(writes) :
       LET r == writes[i].req
       IN \/ input[r].op = "register"
          \/ /\ input[r].op = "change" /\ input[r].id = writes[i].id
             /\ \E t \in window[r] :
                  /\ t[writes[i].id] # NoRow
                  /\ t[writes[i].id].password_hash = Digest[input[r].current]
  /\ \A c \in Held(users) :
       \/ /\ c \in Held(Registered) /\ \A i \in 1..Len(writes) : writes[i].id # c
          /\ users[c].password_hash = Registered[c].password_hash
       \/ \E i \in 1..Len(writes) :
            /\ writes[i].id = c
            /\ \A j \in i + 1..Len(writes) : writes[j].id # c
            /\ users[c].password_hash =
                 Digest[IF input[writes[i].req].op = "register"
                        THEN input[writes[i].req].password ELSE input[writes[i].req].next]

\* The identity a handler runs under was earned: a login returned the token,
\* less than Expiry before it was checked, for an account that its password
\* opened with that role, and the role is enough for the route.  So whoever is
\* deactivated or demoted acts on for less than Expiry after the last login
\* that overlapped the change.
HandlersRunAsEarned ==
  \A r \in Requests : caller[r] # Null =>
    LET l == input[r].bearer
    IN /\ l # Forged
       /\ result[l] = "ok"
       /\ checked[r] < token[l].iat + Expiry
       /\ \E t \in window[l] : Admitting(t, input[l], caller[r].uid, caller[r].role)
       /\ input[r].need = Null \/ Rank(caller[r].role) >= Rank(input[r].need)
=============================================================================

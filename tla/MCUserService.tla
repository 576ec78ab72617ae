---------------------------- MODULE MCUserService ----------------------------
(***************************************************************************)
(* Small instances of UserService.  One account exists; three requests let *)
(* a login meet a password change and the use of its token, or two         *)
(* registrations of one email meet a login.  The address a is also written *)
(* A; the password long is too long for bcrypt and begins like q.          *)
(***************************************************************************)
EXTENDS UserService, TLC

CONSTANTS c1, c2, a, A, b, p, q, long, r1, r2, r3

MCIds == {c1, c2}
MCEmails == {a, A, b}
MCFold == (a :> "a") @@ (A :> "a") @@ (b :> "b")
MCPasswords == {p, q, long}
MCDigest == (p :> "p") @@ (q :> "q") @@ (long :> "q")
MCUnhashable == {long}
MCRegistered ==
  (c1 :> [email |-> a, password_hash |-> "p", role |-> "user", is_active |-> TRUE])
  @@ (c2 :> NoRow)

\* One representative of each way a request can be treated.
Representative ==
  {in \in Inputs :
     /\ in.op = "register" => <<in.email, in.password, in.role>> \in
          {<<A, p, Null>>, <<b, p, Null>>, <<b, p, "owner">>}
     /\ in.op = "login" => <<in.email, in.password>> \in {<<A, p>>, <<A, long>>, <<b, p>>}
     /\ in.op = "change" => <<in.id, in.current, in.next>> \in
          {<<c1, p, q>>, <<c1, p, long>>, <<c2, p, q>>}
     /\ in.op = "protected" => /\ in.need # "viewer"
                               /\ in.bearer = Forged <=> in.need = Null}

MCOperations == {[role |-> "viewer", is_active |-> FALSE]}

Symmetry == Permutations(Requests)
=============================================================================

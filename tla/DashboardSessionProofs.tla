----------------------- MODULE DashboardSessionProofs -----------------------
(***************************************************************************)
(* What holds of DashboardSession for any accounts, views, requests,       *)
(* sign-ins, expiring tokens and changes of the cookie.                    *)
(***************************************************************************)
EXTENDS DashboardSession, SequenceTheorems, TLAPS

(* The requests.  A query waits for a request exactly if the request has a   *)
(* view; an answer that is kept has what it brings.                          *)
Sent == {x \in Call : /\ x.live => x.kind = "fetch" /\ x.view \in Views
                      /\ x.view # None => x.live
                      /\ x.answer = "failed" => x.live
                      /\ x.kind = "fetch" /\ x.answer = "ok" => x.live
                      /\ x.kind \in {"fetch", "mutate"} /\ x.answer = "ok" => x.data \in Data
                      /\ x.kind = "login" => x.data \in Data
                      /\ x.kind = "login" /\ x.answer = "ok" => x.token \in Tokens
                      /\ x.kind = "idle" => x.answer = "none"}

\* They carry tokens that have been signed, and no view is fetched twice.
WellFormed(calls, n) ==
  /\ calls \in [Calls -> Sent]
  /\ \A c \in Calls : calls[c].token # None => calls[c].token \in 1..n
  /\ \A c, d \in Calls : calls[c].live /\ calls[d].live /\ calls[c].view = calls[d].view => c = d

LEMMA Constants == /\ MaxTokens \in Nat /\ MaxCommits \in Nat
                   /\ None \notin Accounts /\ None \notin Views /\ None \notin Nat
                   /\ None \notin Cached
                   /\ Tokens \subseteq Nat /\ None \notin Tokens
                   /\ List \in Views
BY DashboardAssumption DEF Tokens

LEMMA IdleSent == /\ Idle \in Sent /\ Idle.kind = "idle" /\ Idle.live = FALSE /\ Idle.view = None
                  /\ Idle.token = None /\ Idle.answer = "none"
BY DEF Idle, Sent, Call

IsFetch(x, v, t) == /\ x \in Sent /\ x.kind = "fetch" /\ x.live = TRUE /\ x.answer = "none"
                    /\ x.view = v /\ x.token = t

LEMMA FetchSent ==
  ASSUME NEW v \in Views, NEW t, t # None => t \in Tokens
  PROVE  IsFetch(Fetch(v, t), v, t)
<1> DEFINE x == Fetch(v, t)
<1>1. x \in Call /\ x.kind = "fetch" /\ x.view = v /\ x.token = t /\ x.live = TRUE /\ x.answer = "none"
    BY DEF Fetch, Idle, Call
<1> HIDE DEF x
<1>2. IsFetch(x, v, t)
    BY <1>1 DEF Sent, IsFetch
<1> QED
    BY <1>2 DEF x

LEMMA AgainSent ==
  ASSUME NEW x, NEW v, NEW t, IsFetch(x, v, t)
  PROVE  IsFetch([x EXCEPT !.again = TRUE], v, t)
<1> DEFINE y == [x EXCEPT !.again = TRUE]
<1>1. /\ y \in Call /\ y.kind = "fetch" /\ y.view = v /\ y.token = t
      /\ y.live = TRUE /\ y.answer = "none"
    BY DEF Sent, Call, IsFetch
<1> HIDE DEF y
<1>2. IsFetch(y, v, t)
    BY <1>1 DEF Sent, IsFetch
<1> QED
    BY <1>2 DEF y

LEMMA DroppedSent ==
  ASSUME NEW x \in Sent
  PROVE  /\ Dropped(x) \in Sent /\ Dropped(x).live = FALSE
         /\ Dropped(x).token \in {x.token, None}
         /\ Dropped(x).kind \in {x.kind, "idle"}
         /\ x.kind # "fetch" => Dropped(x) = x
<1>1. x \in Call
    BY DEF Sent
<1>2. CASE x.kind # "fetch"
    BY <1>1, <1>2 DEF Dropped, Sent
<1>3. CASE x.kind = "fetch" /\ x.answer \in {"ok", "failed"}
    BY <1>3, IdleSent DEF Dropped
<1>4. CASE x.kind = "fetch" /\ x.answer \notin {"ok", "failed"}
    <2> DEFINE y == [x EXCEPT !.live = FALSE, !.view = None, !.again = FALSE]
    <2>1. Dropped(x) = y
        BY <1>4 DEF Dropped
    <2>2. /\ y \in Call /\ y.live = FALSE /\ y.view = None /\ y.token = x.token
          /\ y.kind = "fetch" /\ y.answer = x.answer
        BY <1>1, <1>4 DEF Call
    <2> HIDE DEF y
    <2>3. y \in Sent
        BY <1>4, <2>2 DEF Sent
    <2> QED
        BY <1>4, <2>1, <2>2, <2>3
<1> QED
    BY <1>2, <1>3, <1>4

LEMMA DropWell ==
  ASSUME NEW calls, NEW n \in Nat, WellFormed(calls, n)
  PROVE  /\ WellFormed([c \in Calls |-> Dropped(calls[c])], n)
         /\ \A c \in Calls : ~[d \in Calls |-> Dropped(calls[d])][c].live
BY DroppedSent DEF WellFormed

LEMMA MoreTokens ==
  ASSUME NEW calls, NEW n \in Nat, WellFormed(calls, n)
  PROVE  WellFormed(calls, n + 1)
BY DEF WellFormed
-----------------------------------------------------------------------------
(* Shapes.  The cookie is a token that has been signed, and on the dashboard *)
(* the router has a page of it to go back to.                                *)

ShapeInv ==
  /\ holder \in Seq(Accounts) /\ Len(holder) <= MaxTokens
  /\ version \in [Accounts -> 0..MaxCommits]
  /\ cookie # None => cookie \in 1..Len(holder)
  /\ stored \in Accounts \cup {None}
  /\ page \in {"auth", "dashboard"}
  /\ back \in BOOLEAN
  /\ page = "dashboard" => back = TRUE
  /\ mounted \in SUBSET Views
  /\ user \in Accounts \cup {None}
  /\ cache \in [Views -> Cached \cup {None}]
  /\ WellFormed(call, Len(holder))
  /\ acked \in [Accounts -> 0..MaxCommits]
  /\ early \in SUBSET Calls /\ missed \in SUBSET Views
  /\ sessions \in SUBSET Accounts
  /\ disturbed \in 0..MaxLapses

LEMMA ShapeFacts ==
  ASSUME ShapeInv
  PROVE  /\ WellFormed(call, Len(holder))
         /\ Len(holder) \in Nat /\ 1..Len(holder) \subseteq Tokens
         /\ cookie \in Tokens \cup {None}
         /\ \A c \in Calls : call[c] \in Sent /\ call[c] \in Call
         /\ \A c \in Calls : call[c].token # None => call[c].token \in 1..Len(holder)
         /\ \A i \in 1..Len(holder) : holder[i] \in Accounts
<1>1. Len(holder) \in Nat /\ \A i \in 1..Len(holder) : holder[i] \in Accounts
    BY LenProperties, ElementOfSeq DEF ShapeInv
<1>2. 1..Len(holder) \subseteq Tokens
    BY <1>1, Constants DEF ShapeInv, Tokens
<1> QED
    BY <1>1, <1>2 DEF ShapeInv, WellFormed, Sent

\* A token is signed: those there were keep their accounts.
LEMMA HolderGrows ==
  ASSUME ShapeInv, NEW a \in Accounts, Len(holder) < MaxTokens, holder' = Append(holder, a)
  PROVE  /\ holder' \in Seq(Accounts) /\ Len(holder') = Len(holder) + 1
         /\ Len(holder') <= MaxTokens /\ Len(holder') \in Tokens
         /\ \A i \in 1..Len(holder) : i \in 1..Len(holder') /\ holder'[i] = holder[i]
         /\ Len(holder') \in 1..Len(holder') /\ holder'[Len(holder')] = a
         /\ WellFormed(call, Len(holder'))
<1>1. /\ holder' \in Seq(Accounts) /\ Len(holder') = Len(holder) + 1
      /\ \A i \in 1..Len(holder) : holder'[i] = holder[i]
      /\ holder'[Len(holder) + 1] = a
    BY AppendProperties DEF ShapeInv
<1>2. WellFormed(call, Len(holder'))
    BY <1>1, ShapeFacts, MoreTokens DEF ShapeInv
<1> QED
    BY <1>1, <1>2, ShapeFacts, Constants DEF Tokens

\* Views may be loading only if a request is live for them.
LEMMA LoadingMeans ==
  ASSUME ShapeInv, NEW v \in Views
  PROVE  Loading(v) <=> \E c \in Calls : call[c].live /\ call[c].view = v
BY ShapeFacts DEF Loading, Sent

\* A request takes the place of another.
LEMMA Putting ==
  ASSUME ShapeInv, NEW c \in Calls, NEW x \in Sent,
         x.token # None => x.token \in 1..Len(holder),
         x.live => \A d \in Calls \ {c} : call[d].live => call[d].view # x.view,
         call' = [call EXCEPT ![c] = x]
  PROVE  /\ WellFormed(call', Len(holder))
         /\ call'[c] = x
         /\ \A d \in Calls \ {c} : call'[d] = call[d]
<1>1. WellFormed(call, Len(holder)) /\ Len(holder) \in Nat
    BY ShapeFacts
<1> QED
    BY <1>1 DEF WellFormed

\* A request is given up, or ends.
LEMMA Ending ==
  ASSUME ShapeInv, NEW c \in Calls, call' = [call EXCEPT ![c] = Idle]
  PROVE  /\ WellFormed(call', Len(holder))
         /\ call'[c] = Idle
         /\ \A d \in Calls \ {c} : call'[d] = call[d]
BY IdleSent, Putting

\* A request is sent that no query waits for.
LEMMA Sending ==
  ASSUME ShapeInv, NEW c \in Calls, NEW x \in Sent, x.live = FALSE,
         x.token # None => x.token \in 1..Len(holder), call' = [call EXCEPT ![c] = x]
  PROVE  /\ WellFormed(call', Len(holder))
         /\ call'[c] = x
         /\ \A d \in Calls \ {c} : call'[d] = call[d]
BY Putting

\* A query is fetched.
LEMMA Fetching ==
  ASSUME ShapeInv, NEW c \in Calls, NEW x, NEW v \in Views, NEW t, IsFetch(x, v, t),
         t # None => t \in 1..Len(holder),
         \A d \in Calls \ {c} : ~(call[d].live /\ call[d].view = v),
         call' = [call EXCEPT ![c] = x]
  PROVE  /\ WellFormed(call', Len(holder))
         /\ IsFetch(call'[c], v, t)
         /\ \A d \in Calls \ {c} : call'[d] = call[d]
<1>1. /\ x \in Sent /\ (x.token # None => x.token \in 1..Len(holder))
      /\ (x.live => \A d \in Calls \ {c} : call[d].live => call[d].view # x.view)
    BY DEF IsFetch
<1>2. WellFormed(call', Len(holder)) /\ call'[c] = x
      /\ \A d \in Calls \ {c} : call'[d] = call[d]
    BY ONLY <1>1, Putting, ShapeInv, c \in Calls, call' = [call EXCEPT ![c] = x]
<1> QED
    BY <1>2

LEMMA Opening ==
  ASSUME ShapeInv, NEW c \in Calls, NEW v \in Views, NEW t,
         t # None => t \in 1..Len(holder),
         Opens(c, v, t)
  PROVE  /\ page' = "dashboard" /\ back' = TRUE /\ mounted' = {v}
         /\ WellFormed(call', Len(holder))
         /\ \A d \in Calls \ {c} : call'[d] = call[d]
         /\ call'[c] = Idle \/ IsFetch(call'[c], v, t)
<1>1. CASE ~Loading(v) /\ call' = [call EXCEPT ![c] = Fetch(v, t)]
    <2>1. \A d \in Calls \ {c} : ~(call[d].live /\ call[d].view = v)
        BY <1>1, LoadingMeans
    <2> DEFINE x == Fetch(v, t)
    <2>2. IsFetch(x, v, t) /\ call' = [call EXCEPT ![c] = x]
        BY <1>1, ShapeFacts, FetchSent
    <2> HIDE DEF x
    <2>3. WellFormed(call', Len(holder)) /\ IsFetch(call'[c], v, t)
          /\ \A d \in Calls \ {c} : call'[d] = call[d]
        BY <2>1, <2>2, Fetching
    <2> QED
        BY <2>3 DEF Opens
<1>2. CASE call' = [call EXCEPT ![c] = Idle]
    BY <1>2, Ending DEF Opens
<1> QED
    BY <1>1, <1>2 DEF Opens

\* A request is answered: nothing but its answer, its token and its data change.
LEMMA Answering ==
  ASSUME ShapeInv, NEW c \in Calls, NEW answer \in {"ok", "refused", "failed"},
         NEW data \in Data \cup {None},
         call[c].kind \in {"fetch", "mutate"},
         answer = "ok" => data \in Data,
         answer = "failed" \/ (answer = "ok" /\ call[c].kind = "fetch") => call[c].live,
         call' = Answered(c, answer, data)
  PROVE  /\ WellFormed(call', Len(holder))
         /\ \A d \in Calls \ {c} : call'[d] = call[d]
         /\ call'[c].kind = call[c].kind /\ call'[c].live = call[c].live
         /\ call'[c].view = call[c].view /\ call'[c].token = None
         /\ call'[c].answer = answer /\ call'[c].data = data
<1> DEFINE x == [call[c] EXCEPT !.answer = answer, !.token = None, !.data = data]
<1>1. call' = [call EXCEPT ![c] = x]
    BY DEF Answered, ShapeInv, WellFormed
<1>2. /\ x \in Call /\ x.kind = call[c].kind /\ x.live = call[c].live /\ x.view = call[c].view
      /\ x.token = None /\ x.answer = answer /\ x.data = data
    BY ShapeFacts DEF Call
<1> HIDE DEF x
<1>3. x \in Sent
    BY <1>2, ShapeFacts DEF Sent
<1>4. x.live => \A d \in Calls \ {c} : call[d].live => call[d].view # x.view
    BY <1>2, ShapeFacts DEF WellFormed
<1>5. WellFormed(call', Len(holder)) /\ call'[c] = x
      /\ \A d \in Calls \ {c} : call'[d] = call[d]
    BY <1>1, <1>2, <1>3, <1>4, Putting
<1> QED
    BY <1>2, <1>5

LEMMA RequestsSent ==
  /\ \A t \in Tokens \cup {None} :
       LET x == [Idle EXCEPT !.kind = "mutate", !.token = t]
       IN x \in Sent /\ x.live = FALSE /\ x.token = t /\ x.kind = "mutate" /\ x.answer = "none"
  /\ \A d \in Data :
       LET x == [Idle EXCEPT !.kind = "login", !.data = d]
       IN /\ x \in Sent /\ x.live = FALSE /\ x.token = None /\ x.kind = "login"
          /\ x.answer = "none" /\ x.data = d
  /\ LET x == [Idle EXCEPT !.kind = "register"]
     IN x \in Sent /\ x.live = FALSE /\ x.token = None /\ x.kind = "register" /\ x.answer = "none"
<1>1. ASSUME NEW t \in Tokens \cup {None}
      PROVE  LET x == [Idle EXCEPT !.kind = "mutate", !.token = t]
             IN x \in Sent /\ x.live = FALSE /\ x.token = t /\ x.kind = "mutate" /\ x.answer = "none"
    <2> DEFINE x == [Idle EXCEPT !.kind = "mutate", !.token = t]
    <2>1. /\ x \in Call /\ x.live = FALSE /\ x.token = t /\ x.kind = "mutate" /\ x.answer = "none"
          /\ x.view = None
        BY DEF Idle, Call
    <2> HIDE DEF x
    <2>2. x \in Sent
        BY <2>1 DEF Sent
    <2> QED
        BY <2>1, <2>2 DEF x
<1>2. ASSUME NEW d \in Data
      PROVE  LET x == [Idle EXCEPT !.kind = "login", !.data = d]
             IN /\ x \in Sent /\ x.live = FALSE /\ x.token = None /\ x.kind = "login"
                /\ x.answer = "none" /\ x.data = d
    <2> DEFINE x == [Idle EXCEPT !.kind = "login", !.data = d]
    <2>1. /\ x \in Call /\ x.live = FALSE /\ x.token = None /\ x.kind = "login" /\ x.answer = "none"
          /\ x.view = None /\ x.data = d
        BY DEF Idle, Call
    <2> HIDE DEF x
    <2>2. x \in Sent
        BY <2>1 DEF Sent
    <2> QED
        BY <2>1, <2>2 DEF x
<1>3. LET x == [Idle EXCEPT !.kind = "register"]
      IN x \in Sent /\ x.live = FALSE /\ x.token = None /\ x.kind = "register" /\ x.answer = "none"
    <2> DEFINE x == [Idle EXCEPT !.kind = "register"]
    <2>1. /\ x \in Call /\ x.live = FALSE /\ x.token = None /\ x.kind = "register" /\ x.answer = "none"
          /\ x.view = None
        BY DEF Idle, Call
    <2> HIDE DEF x
    <2>2. x \in Sent
        BY <2>1 DEF Sent
    <2> QED
        BY <2>1, <2>2 DEF x
<1> QED
    BY <1>1, <1>2, <1>3

\* The cache is cleared: no query waits for a request any more.
LEMMA Clearing ==
  ASSUME ShapeInv, NEW calls, WellFormed(calls, Len(holder)), Cleared(calls)
  PROVE  /\ WellFormed(call', Len(holder))
         /\ \A c \in Calls : ~call'[c].live /\ call'[c] = Dropped(calls[c])
         /\ \A v \in Views : cache'[v] = None
         /\ cache' \in [Views -> Cached \cup {None}]
         /\ user' = None /\ early' = {} /\ missed' = {} /\ sessions' = {} /\ disturbed' = 0
<1>1. /\ WellFormed([c \in Calls |-> Dropped(calls[c])], Len(holder))
      /\ \A c \in Calls : ~[d \in Calls |-> Dropped(calls[d])][c].live
    BY ShapeFacts, DropWell
<1>2. call' = [c \in Calls |-> Dropped(calls[c])]
    BY DEF Cleared
<1>3. \A c \in Calls : call'[c] = Dropped(calls[c])
    BY <1>2
<1>4. \A c \in Calls : ~call'[c].live
    BY <1>1, <1>2
<1> QED
    BY <1>1, <1>2, <1>3, <1>4 DEF Cleared

LEMMA SigningOut ==
  ASSUME ShapeInv, NEW calls, WellFormed(calls, Len(holder)), SignedOut(calls)
  PROVE  ShapeInv'
<1>1. /\ WellFormed(call', Len(holder)) /\ cache' \in [Views -> Cached \cup {None}]
      /\ user' = None /\ early' = {} /\ missed' = {} /\ sessions' = {} /\ disturbed' = 0
    BY Clearing DEF SignedOut
<1> QED
    BY <1>1, DashboardAssumption DEF SignedOut, OpensAuth, ShapeInv, backend

\* An error marks what is cached.
LEMMA Failing ==
  ASSUME ShapeInv, NEW v \in Views \cup {None}, Fails(v)
  PROVE  /\ cache' \in [Views -> Cached \cup {None}]
         /\ \A w \in Views : cache[w] = None <=> cache'[w] = None
         /\ \A w \in Views : cache[w] # None =>
              cache'[w].data = cache[w].data /\ (~cache'[w].invalid => ~cache[w].invalid)
         /\ v # None /\ cache[v] # None => cache'[v].invalid
         /\ missed' = missed \ {v}
<1>1. CASE v # None /\ cache[v] # None
    <2> DEFINE y == [cache[v] EXCEPT !.invalid = TRUE]
    <2>1. cache' = [cache EXCEPT ![v] = y]
        BY <1>1 DEF Fails, ShapeInv
    <2>2. y \in Cached /\ y.data = cache[v].data /\ y.invalid = TRUE
        BY <1>1 DEF ShapeInv, Cached
    <2>3. None \notin Cached
        BY Constants
    <2> HIDE DEF y
    <2> QED
        BY <1>1, <2>1, <2>2, <2>3 DEF Fails, ShapeInv
<1>2. CASE ~(v # None /\ cache[v] # None)
    BY <1>2 DEF Fails, ShapeInv
<1> QED
    BY <1>1, <1>2
-----------------------------------------------------------------------------
LEMMA ShapeInit == Init => ShapeInv
<1> SUFFICES ASSUME Init
             PROVE  ShapeInv
    OBVIOUS
<1>1. holder \in Seq(Accounts) /\ Len(holder) = 0
    BY EmptySeq DEF Init
<1>2. WellFormed(call, Len(holder))
    BY <1>1, IdleSent DEF Init, WellFormed
<1>3. /\ version \in [Accounts -> 0..MaxCommits] /\ acked \in [Accounts -> 0..MaxCommits]
      /\ disturbed \in 0..MaxLapses
    BY DashboardAssumption DEF Init
<1>4. cache \in [Views -> Cached \cup {None}]
    BY DEF Init
<1>5. MaxTokens >= 0
    BY Constants
<1> QED
    BY <1>1, <1>2, <1>3, <1>4, <1>5 DEF Init, ShapeInv

LEMMA ShapeActs == ShapeInv /\ (\E c \in Calls : Acts(c)) => ShapeInv'
<1> SUFFICES ASSUME ShapeInv, NEW c \in Calls, Acts(c)
             PROVE  ShapeInv'
    OBVIOUS
<1>1. ASSUME NEW v \in Views, OpenView(c, v)
      PROVE  ShapeInv'
    <2>1. CASE cookie = None
        BY <1>1, <2>1 DEF OpenView, OpensAuth, ShapeInv, backend, browser, history
    <2>2. CASE cookie # None
        <3>1. Opens(c, v, cookie)
            BY <1>1, <2>2 DEF OpenView
        <3>2. /\ page' = "dashboard" /\ back' = TRUE /\ mounted' = {v}
              /\ WellFormed(call', Len(holder))
            BY <2>2, <3>1, Opening DEF ShapeInv
        <3> QED
            BY <1>1, <3>2 DEF OpenView, ShapeInv, backend, browser, history
    <2> QED
        BY <2>1, <2>2
<1>2. ASSUME NEW v \in Views, Browse(c, v)
      PROVE  ShapeInv'
    <2>1. Opens(c, v, None)
        BY <1>2 DEF Browse
    <2>2. /\ page' = "dashboard" /\ back' = TRUE /\ mounted' = {v}
          /\ WellFormed(call', Len(holder))
        BY <2>1, Opening
    <2> QED
        BY <1>2, <2>2 DEF Browse, ShapeInv, backend, browser, history
<1>3. ASSUME NEW v \in Views, Refresh(c, v)
      PROVE  ShapeInv'
    <2> DEFINE x == Fetch(v, cookie)
    <2>1. IsFetch(x, v, cookie) /\ call' = [call EXCEPT ![c] = x]
        BY <1>3, ShapeFacts, FetchSent DEF Refresh
    <2> HIDE DEF x
    <2>2. \A d \in Calls \ {c} : ~(call[d].live /\ call[d].view = v)
        BY <1>3, LoadingMeans DEF Refresh
    <2>3. WellFormed(call', Len(holder))
        BY <2>1, <2>2, Fetching DEF ShapeInv
    <2> QED
        BY <1>3, <2>3 DEF Refresh, ShapeInv, backend, browser, history
<1>4. ASSUME Mutate(c)
      PROVE  ShapeInv'
    <2> DEFINE x == [Idle EXCEPT !.kind = "mutate", !.token = cookie]
    <2>1. /\ x \in Sent /\ x.live = FALSE /\ x.token = cookie
          /\ call' = [call EXCEPT ![c] = x]
        BY <1>4, ShapeFacts, RequestsSent DEF Mutate
    <2> HIDE DEF x
    <2>2. WellFormed(call', Len(holder))
        BY <2>1, Sending DEF ShapeInv
    <2> QED
        BY <1>4, <2>2 DEF Mutate, ShapeInv, backend, browser, history
<1>5. ASSUME NEW a \in Accounts, SignIn(c, a)
      PROVE  ShapeInv'
    <2> DEFINE data == [owner |-> a, version |-> 0]
               x == [Idle EXCEPT !.kind = "login", !.data = data]
    <2>1. data \in Data
        BY Constants DEF Data
    <2>2. call' = [call EXCEPT ![c] = x]
        BY <1>5 DEF SignIn
    <2> HIDE DEF data
    <2>3. x \in Sent /\ x.live = FALSE /\ x.token = None
        BY <2>1, RequestsSent
    <2> HIDE DEF x
    <2>4. WellFormed(call', Len(holder))
        BY <2>2, <2>3, Sending
    <2> QED
        BY <1>5, <2>4 DEF SignIn, ShapeInv, backend, browser, history
<1>6. ASSUME SignUp(c)
      PROVE  ShapeInv'
    <2> DEFINE x == [Idle EXCEPT !.kind = "register"]
    <2>1. x \in Sent /\ x.live = FALSE /\ x.token = None /\ call' = [call EXCEPT ![c] = x]
        BY <1>6, RequestsSent DEF SignUp
    <2> HIDE DEF x
    <2>2. WellFormed(call', Len(holder))
        BY <2>1, Sending
    <2> QED
        BY <1>6, <2>2 DEF SignUp, ShapeInv, backend, browser, history
<1>7. ASSUME Reload(c)
      PROVE  ShapeInv'
    <2>1. /\ \A d \in Calls : call'[d] \in {Idle, call'[c]} /\ call' \in [Calls -> Sent]
          /\ call'[c].token # None => call'[c].token \in 1..Len(holder)
          /\ \A d \in Calls \ {c} : call'[d] = Idle
          /\ page' \in {"auth", "dashboard"} /\ back' \in BOOLEAN
          /\ page' = "dashboard" => back' = TRUE
          /\ mounted' \in SUBSET Views
        <3>1. CASE cookie = None
            BY <1>7, <3>1, IdleSent DEF Reload
        <3>2. CASE cookie # None
            <4>1. PICK v \in Views :
                      /\ page' = "dashboard" /\ back' = TRUE /\ mounted' = {v}
                      /\ call' = [d \in Calls |-> IF d = c THEN Fetch(v, cookie) ELSE Idle]
                BY <1>7, <3>2 DEF Reload
            <4> DEFINE x == Fetch(v, cookie)
            <4>2. IsFetch(x, v, cookie)
                BY ShapeFacts, FetchSent
            <4>3. call' = [d \in Calls |-> IF d = c THEN x ELSE Idle]
                BY <4>1
            <4> HIDE DEF x
            <4>4. call'[c] = x /\ \A d \in Calls \ {c} : call'[d] = Idle
                BY <4>3
            <4>5. x \in Sent /\ (x.token # None => x.token \in 1..Len(holder))
                BY <3>2, <4>2 DEF IsFetch, ShapeInv
            <4> QED
                BY <4>1, <4>3, <4>4, <4>5, IdleSent
        <3> QED
            BY <3>1, <3>2
    <2>2. WellFormed(call', Len(holder))
        BY <2>1, IdleSent DEF WellFormed
    <2> QED
        BY <1>7, <2>1, <2>2, DashboardAssumption DEF Reload, ShapeInv, backend, browser
<1> QED
    BY <1>1, <1>2, <1>3, <1>4, <1>5, <1>6, <1>7 DEF Acts

\* A login is answered with the token of the account it asked for.
LEMMA LoggingIn ==
  ASSUME ShapeInv, NEW c \in Calls, ServeLogin(c)
  PROVE  /\ call[c].data.owner \in Accounts /\ call[c].data \in Data
         /\ holder' = Append(holder, call[c].data.owner)
         /\ WellFormed(call', Len(holder'))
         /\ \A d \in Calls \ {c} : call'[d] = call[d]
         /\ call'[c].kind = "login" /\ call'[c].live = FALSE /\ call'[c].answer = "ok"
         /\ call'[c].token = Len(holder') /\ call'[c].data = call[c].data
<1> DEFINE n == Len(holder')
           x == [call[c] EXCEPT !.answer = "ok", !.token = n]
<1>1. /\ call[c].kind = "login" /\ call[c].data \in Data /\ call[c] \in Call
      /\ call[c].live = FALSE /\ call[c].view = None
    BY ShapeFacts DEF ServeLogin, Sent, Call
<1>2. call[c].data.owner \in Accounts /\ Len(holder) < MaxTokens
      /\ holder' = Append(holder, call[c].data.owner)
    BY <1>1 DEF ServeLogin, Data
<1>3. n = Len(holder) + 1 /\ n \in 1..n /\ n \in Tokens /\ n \in Nat /\ WellFormed(call, n)
    BY <1>2, HolderGrows, ShapeFacts
<1>4. call' = [call EXCEPT ![c] = x]
    BY <1>3 DEF ServeLogin, ShapeInv, WellFormed
<1> HIDE DEF n
<1>5. /\ x \in Call /\ x.kind = "login" /\ x.live = FALSE /\ x.view = None /\ x.answer = "ok"
      /\ x.token = n /\ x.data = call[c].data
    BY <1>1, <1>3 DEF Call
<1> HIDE DEF x
<1>6. x \in Sent
    BY <1>1, <1>3, <1>5 DEF Sent
<1>7. WellFormed(call', n) /\ call'[c] = x /\ \A d \in Calls \ {c} : call'[d] = call[d]
    BY <1>3, <1>4, <1>5, <1>6 DEF WellFormed
<1> QED
    BY <1>1, <1>2, <1>5, <1>7 DEF n

\* A query fails for good, or waits for its second attempt.
LEMMA Losing ==
  ASSUME ShapeInv, NEW c \in Calls, Lose(c)
  PROVE  /\ WellFormed(call', Len(holder))
         /\ \A d \in Calls \ {c} : call'[d] = call[d]
         /\ \/ /\ call'[c].kind = call[c].kind /\ call'[c].view = call[c].view
               /\ call'[c].token = None /\ call'[c].answer = "failed"
               /\ call[c].live
               /\ UNCHANGED <<cache, missed>>
            \/ call'[c] = Idle /\ Fails(call[c].view)
<1>1. CASE Retries(c) /\ call' = Answered(c, "failed", None) /\ UNCHANGED <<cache, missed>>
    <2>1. call[c].live /\ call[c].kind = "fetch"
        BY <1>1, ShapeFacts DEF Retries, Sent
    <2> QED
        BY <1>1, <2>1, Answering
<1>2. CASE call' = [call EXCEPT ![c] = Idle] /\ Fails(call[c].view)
    BY <1>2, Ending
<1> QED
    BY <1>1, <1>2 DEF Lose

LEMMA ShapeAnswer == ShapeInv /\ (\E c \in Calls : Answer(c)) => ShapeInv'
<1> SUFFICES ASSUME ShapeInv, NEW c \in Calls, Answer(c)
             PROVE  ShapeInv'
    OBVIOUS
<1>1. ASSUME ServeFetch(c)
      PROVE  ShapeInv'
    <2>1. CASE call[c].live
        <3> DEFINE a == holder[call[c].token]
                   data == [owner |-> a, version |-> version[a]]
        <3>1. a \in Accounts
            BY <1>1, ShapeFacts DEF ServeFetch
        <3>2. data \in Data /\ call' = Answered(c, "ok", data) /\ call[c].kind = "fetch"
            BY <1>1, <2>1, <3>1 DEF ServeFetch, Data, ShapeInv
        <3> HIDE DEF data
        <3>3. WellFormed(call', Len(holder))
            BY <2>1, <3>2, Answering
        <3> QED
            BY <1>1, <3>3 DEF ServeFetch, ShapeInv, backend, browser, history
    <2>2. CASE ~call[c].live
        <3>1. WellFormed(call', Len(holder))
            BY <1>1, <2>2, Ending DEF ServeFetch
        <3> QED
            BY <1>1, <3>1 DEF ServeFetch, ShapeInv, backend, browser, history
    <2> QED
        BY <2>1, <2>2
<1>2. ASSUME ServeMutation(c)
      PROVE  ShapeInv'
    <2> DEFINE a == holder[call[c].token]
               data == [owner |-> a, version |-> version[a] + 1]
    <2>1. a \in Accounts
        BY <1>2, ShapeFacts DEF ServeMutation
    <2>2. version[a] \in 0..MaxCommits /\ version[a] < MaxCommits
        BY <1>2, <2>1 DEF ServeMutation, ShapeInv
    <2>3. version[a] + 1 \in 0..MaxCommits
        BY <2>2, Constants
    <2>4. data \in Data /\ call' = Answered(c, "ok", data) /\ call[c].kind = "mutate"
        BY <1>2, <2>1, <2>3 DEF ServeMutation, Data
    <2>5. version' = [version EXCEPT ![a] = version[a] + 1]
        BY <1>2 DEF ServeMutation
    <2> HIDE DEF data, a
    <2>6. WellFormed(call', Len(holder))
        BY <2>4, Answering
    <2>7. version' \in [Accounts -> 0..MaxCommits]
        BY <2>1, <2>3, <2>5 DEF ShapeInv
    <2> QED
        BY <1>2, <2>6, <2>7 DEF ServeMutation, ShapeInv, browser, history
<1>3. ASSUME Refuse(c)
      PROVE  ShapeInv'
    <2>1. WellFormed(call', Len(holder))
        BY <1>3, Answering DEF Refuse
    <2> QED
        BY <1>3, <2>1 DEF Refuse, ShapeInv, backend, browser, history
<1>4. ASSUME ServeLogin(c)
      PROVE  ShapeInv'
    <2>1. /\ WellFormed(call', Len(holder')) /\ call[c].data.owner \in Accounts
          /\ holder' = Append(holder, call[c].data.owner)
        BY <1>4, LoggingIn
    <2>2. /\ holder' \in Seq(Accounts) /\ Len(holder') <= MaxTokens
          /\ \A i \in 1..Len(holder) : i \in 1..Len(holder')
        BY <1>4, <2>1, HolderGrows DEF ServeLogin
    <2> QED
        BY <1>4, <2>1, <2>2 DEF ServeLogin, ShapeInv, browser, history
<1>5. ASSUME ServeRegister(c)
      PROVE  ShapeInv'
    <2> DEFINE x == [call[c] EXCEPT !.answer = "ok"]
    <2>1. call[c].kind = "register" /\ call[c] \in Call /\ call[c].live = FALSE /\ call[c].view = None
        BY <1>5, ShapeFacts DEF ServeRegister, Sent, Call
    <2>2. call' = [call EXCEPT ![c] = x]
        BY <1>5 DEF ServeRegister, ShapeInv, WellFormed
    <2>3. /\ x \in Call /\ x.kind = "register" /\ x.live = FALSE /\ x.view = None /\ x.answer = "ok"
          /\ x.token = call[c].token
        BY <2>1 DEF Call
    <2> HIDE DEF x
    <2>4. x \in Sent
        BY <2>3 DEF Sent
    <2>5. WellFormed(call', Len(holder))
        BY <2>2, <2>3, <2>4, ShapeFacts, Sending
    <2> QED
        BY <1>5, <2>5 DEF ServeRegister, ShapeInv, backend, browser, history
<1>6. ASSUME Lose(c)
      PROVE  ShapeInv'
    <2>1. WellFormed(call', Len(holder)) /\ (UNCHANGED <<cache, missed>> \/ Fails(call[c].view))
        BY <1>6, Losing
    <2>2. call[c].view \in Views \cup {None}
        BY ShapeFacts DEF Call
    <2>3. cache' \in [Views -> Cached \cup {None}] /\ missed' \in SUBSET Views
        BY <2>1, <2>2, Failing DEF ShapeInv
    <2> QED
        BY <1>6, <2>1, <2>3 DEF Lose, ShapeInv, backend, browser
<1> QED
    BY <1>1, <1>2, <1>3, <1>4, <1>5, <1>6 DEF Answer

\* The queries an invalidation fetches again leave their requests.
LEMMA Invalidating ==
  ASSUME ShapeInv, NEW c \in Calls, MutationSucceeds(c)
  PROVE  /\ WellFormed(call', Len(holder))
         /\ call'[c] = Idle \/ \E v \in Views : IsFetch(call'[c], v, cookie)
         /\ \A d \in Calls \ {c} : call'[d] \in {call[d], Dropped(call[d])}
         /\ cache' \in [Views -> Cached \cup {None}]
         /\ \A v \in Views : cache[v] = None <=> cache'[v] = None
         /\ \A v \in Views : cache[v] # None => cache'[v].data = cache[v].data /\ cache'[v].invalid
<1>1. Refetched \subseteq Views
    BY DEF Refetched, ShapeInv
<1>2. PICK x : /\ x = Idle \/ \E v \in Refetched : IsFetch(x, v, cookie)
               /\ call' = [d \in Calls |->
                    IF d = c THEN x
                    ELSE IF call[d].view \in Refetched THEN Dropped(call[d]) ELSE call[d]]
    <2> DEFINE v == CHOOSE v \in Refetched : TRUE
               x == IF Refetched = {} THEN Idle ELSE Fetch(v, cookie)
    <2>1. call' = [d \in Calls |->
                    IF d = c THEN x
                    ELSE IF call[d].view \in Refetched THEN Dropped(call[d]) ELSE call[d]]
        BY DEF MutationSucceeds
    <2>2. Refetched # {} => v \in Refetched
        BY DEF Refetched
    <2> HIDE DEF v
    <2>3. Refetched # {} => IsFetch(Fetch(v, cookie), v, cookie)
        BY <1>1, <2>2, ShapeFacts, FetchSent
    <2>4. x = Idle \/ \E w \in Refetched : IsFetch(x, w, cookie)
        BY <2>2, <2>3
    <2> HIDE DEF x
    <2> QED
        BY <2>1, <2>4
<1>3. /\ call'[c] = x
      /\ \A d \in Calls \ {c} :
           call'[d] = IF call[d].view \in Refetched THEN Dropped(call[d]) ELSE call[d]
    BY <1>2
<1>4. x \in Sent /\ (x.token # None => x.token \in 1..Len(holder))
    BY <1>2, IdleSent DEF IsFetch, ShapeInv
<1>5. call' \in [Calls -> Sent]
    BY <1>2, <1>4, ShapeFacts, DroppedSent
<1>6. ASSUME NEW d \in Calls \ {c}
      PROVE  /\ call'[d].token # None => call'[d].token \in 1..Len(holder)
             /\ call'[d].live => call'[d] = call[d] /\ call[d].view \notin Refetched
    <2> DEFINE y == Dropped(call[d])
    <2>1. y.live = FALSE /\ y.token \in {call[d].token, None}
        BY ShapeFacts, DroppedSent
    <2>2. \/ call'[d] = y /\ call[d].view \in Refetched
          \/ call'[d] = call[d] /\ call[d].view \notin Refetched
        BY <1>3
    <2>3. call[d].token # None => call[d].token \in 1..Len(holder)
        BY ShapeFacts
    <2> HIDE DEF y
    <2> QED
        BY <2>1, <2>2, <2>3
<1>7. \A d \in Calls : call'[d].token # None => call'[d].token \in 1..Len(holder)
    BY <1>3, <1>4, <1>6
<1>8. x.live => x.view \in Refetched
    BY <1>2, IdleSent DEF IsFetch
<1>9. \A d, e \in Calls : call'[d].live /\ call'[e].live /\ call'[d].view = call'[e].view => d = e
    BY <1>3, <1>6, <1>8, ShapeFacts DEF WellFormed
<1>10. WellFormed(call', Len(holder))
    BY <1>5, <1>7, <1>9 DEF WellFormed
<1>11. ASSUME NEW v \in Views
       PROVE  /\ cache'[v] \in Cached \cup {None}
              /\ cache[v] = None <=> cache'[v] = None
              /\ cache[v] # None => cache'[v].data = cache[v].data /\ cache'[v].invalid
    <2>1. CASE cache[v] = None
        BY <2>1 DEF MutationSucceeds
    <2>2. CASE cache[v] # None
        <3> DEFINE y == [cache[v] EXCEPT !.invalid = TRUE]
        <3>1. cache'[v] = y
            BY <2>2 DEF MutationSucceeds
        <3>2. y \in Cached /\ y.data = cache[v].data /\ y.invalid = TRUE
            BY <2>2 DEF ShapeInv, Cached
        <3> HIDE DEF y
        <3> QED
            BY <2>2, <3>1, <3>2, Constants
    <2> QED
        BY <2>1, <2>2
<1>12. cache' \in [Views -> Cached \cup {None}]
    <2>1. cache' = [v \in Views |-> cache'[v]]
        BY DEF MutationSucceeds
    <2> QED
        BY <1>11, <2>1
<1> QED
    BY <1>1, <1>2, <1>3, <1>10, <1>11, <1>12

\* The sign-in of this tab, with the token it was answered.
LEMMA SigningIn ==
  ASSUME ShapeInv, NEW c \in Calls, SignedIn(c)
  PROVE  /\ cookie' \in 1..Len(holder) /\ cookie' = call[c].token
         /\ call[c].data \in Data /\ call[c].data.owner \in Accounts
         /\ page' = "dashboard" /\ back' = TRUE /\ mounted' = {List}
         /\ WellFormed(call', Len(holder))
         /\ \A d \in Calls \ {c} : call'[d] = call[d]
         /\ call'[c] = Idle \/ IsFetch(call'[c], List, cookie')
<1>1. /\ call[c].data \in Data /\ call[c].data.owner \in Accounts
      /\ call[c].token \in 1..Len(holder)
    BY ShapeFacts, Constants DEF SignedIn, Sent, Data
<1>2. PICK t : t = call[c].token
    OBVIOUS
<1>3. Opens(c, List, t) /\ t \in 1..Len(holder) /\ cookie' = t
    BY <1>1, <1>2 DEF SignedIn
<1>4. /\ page' = "dashboard" /\ back' = TRUE /\ mounted' = {List}
      /\ WellFormed(call', Len(holder))
      /\ \A d \in Calls \ {c} : call'[d] = call[d]
      /\ call'[c] = Idle \/ IsFetch(call'[c], List, t)
    BY <1>3, Constants, Opening
<1> QED
    BY <1>1, <1>2, <1>3, <1>4

LEMMA Disturbing ==
  ASSUME ShapeInv, Disturbs
  PROVE  disturbed' \in 0..MaxLapses /\ disturbed' # 0
BY DashboardAssumption DEF Disturbs, ShapeInv

LEMMA ShapeDeliver == ShapeInv /\ (\E c \in Calls : Deliver(c)) => ShapeInv'
<1> SUFFICES ASSUME ShapeInv, NEW c \in Calls, Deliver(c)
             PROVE  ShapeInv'
    OBVIOUS
<1>1. ASSUME FetchSucceeds(c)
      PROVE  ShapeInv'
    <2>1. call[c].view \in Views /\ call[c].data \in Data
        BY <1>1, ShapeFacts DEF FetchSucceeds, Sent
    <2>2. WellFormed(call', Len(holder))
        BY <1>1, Ending DEF FetchSucceeds
    <2>3. cache' \in [Views -> Cached \cup {None}]
        BY <1>1, <2>1 DEF FetchSucceeds, ShapeInv, Cached
    <2>4. missed' \in SUBSET Views /\ early' \in SUBSET Calls
        BY <1>1, <2>1 DEF FetchSucceeds, ShapeInv
    <2> QED
        BY <1>1, <2>2, <2>3, <2>4 DEF FetchSucceeds, ShapeInv, backend, browser
<1>2. ASSUME Retry(c)
      PROVE  ShapeInv'
    <2>1. PICK v \in Views : v = call[c].view
        BY <1>2, ShapeFacts DEF Retry, Retries, Sent
    <2> DEFINE x == Fetch(v, cookie)
               y == [x EXCEPT !.again = TRUE]
    <2>2. IsFetch(x, v, cookie)
        BY ShapeFacts, FetchSent
    <2>3. call' = [call EXCEPT ![c] = y]
        BY <1>2, <2>1 DEF Retry
    <2> HIDE DEF x
    <2>4. IsFetch(y, v, cookie)
        BY <2>2, AgainSent
    <2> HIDE DEF y
    <2>5. \A d \in Calls \ {c} : ~(call[d].live /\ call[d].view = v)
        BY <1>2, <2>1, ShapeFacts DEF Retry, Retries, WellFormed
    <2>6. WellFormed(call', Len(holder))
        BY <2>3, <2>4, <2>5, Fetching DEF ShapeInv
    <2> QED
        BY <1>2, <2>6 DEF Retry, ShapeInv, backend, browser
<1>3. ASSUME GiveUp(c)
      PROVE  ShapeInv'
    <2>1. WellFormed(call', Len(holder)) /\ call[c].view \in Views \cup {None}
        BY <1>3, Ending, ShapeFacts DEF GiveUp, Call
    <2>2. cache' \in [Views -> Cached \cup {None}] /\ missed' \in SUBSET Views
        BY <1>3, <2>1, Failing DEF GiveUp, ShapeInv
    <2> QED
        BY <1>3, <2>1, <2>2 DEF GiveUp, ShapeInv, backend, browser
<1>4. ASSUME Forbidden(c)
      PROVE  ShapeInv'
    <2> DEFINE calls == [call EXCEPT ![c] = Idle]
    <2>1. WellFormed(calls, Len(holder)) /\ SignedOut(calls)
        BY <1>4, IdleSent, ShapeFacts DEF Forbidden, WellFormed
    <2> HIDE DEF calls
    <2> QED
        BY <2>1, SigningOut
<1>5. ASSUME MutationSucceeds(c)
      PROVE  ShapeInv'
    <2>1. WellFormed(call', Len(holder)) /\ cache' \in [Views -> Cached \cup {None}]
        BY <1>5, Invalidating
    <2>2. call[c].data \in Data
        BY <1>5, ShapeFacts DEF MutationSucceeds, Sent
    <2>3. acked' \in [Accounts -> 0..MaxCommits]
        BY <1>5, <2>2 DEF MutationSucceeds, ShapeInv, Data
    <2>4. early' \in SUBSET Calls /\ missed' \in SUBSET Views
        BY <1>5 DEF MutationSucceeds
    <2> QED
        BY <1>5, <2>1, <2>3, <2>4 DEF MutationSucceeds, ShapeInv, backend, browser
<1>6. ASSUME SignedIn(c)
      PROVE  ShapeInv'
    <2>1. /\ cookie' \in 1..Len(holder) /\ call[c].data.owner \in Accounts
          /\ page' = "dashboard" /\ back' = TRUE /\ mounted' = {List}
          /\ WellFormed(call', Len(holder))
        BY <1>6, SigningIn
    <2> QED
        BY <1>6, <2>1, Constants DEF SignedIn, ShapeInv, backend
<1>7. ASSUME Registered(c)
      PROVE  ShapeInv'
    <2>1. CASE OpensAuth /\ call' = [call EXCEPT ![c] = Idle]
        <3>1. WellFormed(call', Len(holder))
            BY <2>1, Ending
        <3> QED
            BY <1>7, <2>1, <3>1 DEF Registered, OpensAuth, ShapeInv, backend, browser, history
    <2>2. CASE cookie # None /\ Opens(c, List, cookie)
        <3>1. /\ page' = "dashboard" /\ back' = TRUE /\ mounted' = {List}
              /\ WellFormed(call', Len(holder))
            BY <2>2, Constants, Opening DEF ShapeInv
        <3> QED
            BY <1>7, <3>1, Constants DEF Registered, ShapeInv, backend, browser, history
    <2> QED
        BY <1>7, <2>1, <2>2 DEF Registered
<1> QED
    BY <1>1, <1>2, <1>3, <1>4, <1>5, <1>6, <1>7 DEF Deliver

LEMMA ShapeNext == ShapeInv /\ [Next]_vars => ShapeInv'
<1> SUFFICES ASSUME ShapeInv, [Next]_vars
             PROVE  ShapeInv'
    OBVIOUS
<1>1. ASSUME Logout
      PROVE  ShapeInv'
    BY <1>1, ShapeFacts, SigningOut DEF Logout
<1>2. ASSUME NEW v \in Views, Collect(v)
      PROVE  ShapeInv'
    BY <1>2 DEF Collect, ShapeInv, backend, browser
<1>3. ASSUME NEW a \in Accounts, OtherTabSignsIn(a)
      PROVE  ShapeInv'
    <2>1. /\ holder' \in Seq(Accounts) /\ Len(holder') = Len(holder) + 1 /\ Len(holder') <= MaxTokens
          /\ Len(holder') \in 1..Len(holder') /\ WellFormed(call, Len(holder'))
        BY <1>3, HolderGrows DEF OtherTabSignsIn
    <2>2. disturbed' \in 0..MaxLapses
        BY <1>3, Disturbing DEF OtherTabSignsIn
    <2> QED
        BY <1>3, <2>1, <2>2 DEF OtherTabSignsIn, ShapeInv
<1>4. ASSUME Lapse \/ OtherTabSignsOut
      PROVE  ShapeInv'
    <2>1. disturbed' \in 0..MaxLapses
        BY <1>4, Disturbing DEF Lapse, OtherTabSignsOut
    <2> QED
        BY <1>4, <2>1 DEF Lapse, OtherTabSignsOut, ShapeInv, backend
<1>5. ASSUME UNCHANGED vars
      PROVE  ShapeInv'
    BY <1>5 DEF vars, ShapeInv, backend, browser, history
<1> QED
    BY <1>1, <1>2, <1>3, <1>4, <1>5, ShapeActs, ShapeAnswer, ShapeDeliver DEF Next

\* The tab keeps its shapes, and no view has two fetches under way, whatever
\* the user, other tabs and the network do (useCampaigns.ts, useAuth.ts).
THEOREM SessionTypeCorrect == Spec => []TypeOK
<1>1. ShapeInv => TypeOK
    BY ShapeFacts, Constants DEF ShapeInv, TypeOK, WellFormed
<1> QED
    BY <1>1, ShapeInit, ShapeNext, PTL DEF Spec
-----------------------------------------------------------------------------
(* Sessions.  An answer that a query still waits for was asked for by an     *)
(* account that signed in since the cache was cleared: a clear leaves no     *)
(* query waiting.                                                            *)

Fits(x, h, accounts) ==
  /\ x.live /\ x.answer = "none" /\ x.token # None => h[x.token] \in accounts
  /\ x.live /\ x.answer = "ok" => x.data.owner \in accounts

Signs(x, h) == x.kind = "login" /\ x.answer = "ok" => h[x.token] = x.data.owner

SessionInv ==
  /\ ShapeInv
  /\ cookie # None => stored = holder[cookie] /\ holder[cookie] \in sessions
  /\ disturbed = 0 /\ (back \/ cookie # None) =>
       user = IF cookie = None THEN None ELSE holder[cookie]
  /\ disturbed = 0 /\ cookie = None => sessions = {}
  /\ \A v \in Views : cache[v] # None => cache[v].data.owner \in sessions
  /\ \A c \in Calls : Fits(call[c], holder, sessions)
  /\ \A c \in Calls : Signs(call[c], holder)

LEMMA IdleFits == ASSUME NEW h, NEW as PROVE Fits(Idle, h, as) /\ Signs(Idle, h)
BY IdleSent DEF Fits, Signs

LEMMA FetchFits ==
  ASSUME NEW x, NEW v, NEW t, NEW h, NEW as, IsFetch(x, v, t), t = None \/ h[t] \in as
  PROVE  Fits(x, h, as) /\ Signs(x, h)
BY DEF IsFetch, Fits, Signs

LEMMA DroppedFits ==
  ASSUME NEW x \in Sent, NEW h, NEW as, Signs(x, h)
  PROVE  Fits(Dropped(x), h, as) /\ Signs(Dropped(x), h)
<1>1. Dropped(x).live = FALSE /\ (x.kind # "fetch" => Dropped(x) = x)
      /\ Dropped(x).kind \in {x.kind, "idle"}
    BY DroppedSent
<1> QED
    BY <1>1 DEF Fits, Signs

\* More sign-ins leave what fits fitting.
LEMMA MoreFits ==
  ASSUME NEW x, NEW h, NEW as, NEW bs, Fits(x, h, as), as \subseteq bs
  PROVE  Fits(x, h, bs)
BY DEF Fits

\* One request changes, and the session does not.
LEMMA SessionStays ==
  ASSUME SessionInv, ShapeInv', NEW c \in Calls,
         UNCHANGED <<holder, browser, user, sessions, disturbed>>,
         back' => back \/ cookie # None,
         \A v \in Views : cache'[v] # None => cache'[v].data.owner \in sessions,
         \A d \in Calls \ {c} : call'[d] = call[d],
         Fits(call'[c], holder, sessions),
         Signs(call'[c], holder)
  PROVE  SessionInv'
<1>1. \A d \in Calls : Fits(call'[d], holder, sessions)
    BY DEF SessionInv
<1>2. \A d \in Calls : Signs(call'[d], holder)
    BY DEF SessionInv
<1> QED
    BY <1>1, <1>2 DEF SessionInv, browser

\* The tab leaves its session.
LEMMA SessionEnds ==
  ASSUME SessionInv, ShapeInv', NEW calls, WellFormed(calls, Len(holder)), SignedOut(calls),
         \A c \in Calls : Signs(calls[c], holder)
  PROVE  SessionInv'
<1>1. /\ \A c \in Calls : call'[c] = Dropped(calls[c])
      /\ \A v \in Views : cache'[v] = None
      /\ user' = None /\ sessions' = {}
    BY Clearing DEF SignedOut, SessionInv
<1>2. \A c \in Calls : Fits(call'[c], holder, {}) /\ Signs(call'[c], holder)
    BY <1>1, DroppedFits DEF WellFormed
<1>3. cookie' = None /\ holder' = holder
    BY DEF SignedOut, backend
<1> QED
    BY <1>1, <1>2, <1>3 DEF SessionInv

LEMMA SessionActs == SessionInv /\ ShapeInv' /\ (\E c \in Calls : Acts(c)) => SessionInv'
<1> SUFFICES ASSUME SessionInv, ShapeInv', NEW c \in Calls, Acts(c)
             PROVE  SessionInv'
    OBVIOUS
<1> USE IdleFits
<1>0. ShapeInv /\ (cookie = None \/ holder[cookie] \in sessions)
    BY DEF SessionInv
<1>1. ASSUME NEW v \in Views, OpenView(c, v)
      PROVE  SessionInv'
    <2>1. CASE cookie = None
        <3>1. UNCHANGED <<holder, browser, user, sessions, disturbed, back, cache, call>>
            BY <1>1, <2>1 DEF OpenView, OpensAuth, backend, history
        <3> QED
            BY <3>1 DEF SessionInv, browser
    <2>2. CASE cookie # None
        <3>1. Opens(c, v, cookie)
            BY <1>1, <2>2 DEF OpenView
        <3>2. \A d \in Calls \ {c} : call'[d] = call[d]
            BY <1>0, <3>1, Opening DEF ShapeInv
        <3>3. call'[c] = Idle \/ IsFetch(call'[c], v, cookie)
            BY <1>0, <3>1, Opening DEF ShapeInv
        <3>4. Fits(call'[c], holder, sessions) /\ Signs(call'[c], holder)
            BY <1>0, <3>3, FetchFits
        <3>5. UNCHANGED <<holder, browser, user, sessions, disturbed, cache>>
            BY <1>1 DEF OpenView, backend, history
        <3> QED
            BY <2>2, <3>2, <3>4, <3>5, SessionStays DEF SessionInv
    <2> QED
        BY <2>1, <2>2
<1>2. ASSUME NEW v \in Views, Browse(c, v)
      PROVE  SessionInv'
    <2>1. Opens(c, v, None)
        BY <1>2 DEF Browse
    <2>2. \A d \in Calls \ {c} : call'[d] = call[d]
        BY <1>0, <2>1, Opening
    <2>3. call'[c] = Idle \/ IsFetch(call'[c], v, None)
        BY <1>0, <2>1, Opening
    <2>4. Fits(call'[c], holder, sessions) /\ Signs(call'[c], holder)
        BY <2>3, FetchFits
    <2>5. UNCHANGED <<holder, browser, user, sessions, disturbed, cache>> /\ back
        BY <1>2 DEF Browse, backend, history
    <2> QED
        BY <2>2, <2>4, <2>5, SessionStays DEF SessionInv
<1>3. ASSUME NEW v \in Views, Refresh(c, v)
      PROVE  SessionInv'
    <2> DEFINE x == Fetch(v, cookie)
    <2>1. IsFetch(x, v, cookie) /\ call' = [call EXCEPT ![c] = x]
        BY <1>0, <1>3, ShapeFacts, FetchSent DEF Refresh
    <2> HIDE DEF x
    <2>2. call'[c] = x /\ \A d \in Calls \ {c} : call'[d] = call[d]
        BY <1>0, <2>1 DEF ShapeInv, WellFormed
    <2>3. Fits(call'[c], holder, sessions) /\ Signs(call'[c], holder)
        BY <1>0, <2>1, <2>2, FetchFits
    <2>4. UNCHANGED <<holder, browser, user, sessions, disturbed, back, cache>>
        BY <1>3 DEF Refresh, backend, history
    <2> QED
        BY <2>2, <2>3, <2>4, SessionStays DEF SessionInv
<1>4. ASSUME NEW x \in Sent, x.live = FALSE, x.answer = "none", call' = [call EXCEPT ![c] = x],
             UNCHANGED <<backend, browser, page, back, mounted, user, cache, history>>
      PROVE  SessionInv'
    <2>1. call'[c] = x /\ \A d \in Calls \ {c} : call'[d] = call[d]
        BY <1>0, <1>4 DEF ShapeInv, WellFormed
    <2>2. Fits(call'[c], holder, sessions) /\ Signs(call'[c], holder)
        BY <1>4, <2>1 DEF Fits, Signs
    <2>3. UNCHANGED <<holder, browser, user, sessions, disturbed, back, cache>>
        BY <1>4 DEF backend, history
    <2> QED
        BY <2>1, <2>2, <2>3, SessionStays DEF SessionInv
<1>5. ASSUME Mutate(c)
      PROVE  SessionInv'
    <2> DEFINE x == [Idle EXCEPT !.kind = "mutate", !.token = cookie]
    <2>1. x \in Sent /\ x.live = FALSE /\ x.answer = "none" /\ call' = [call EXCEPT ![c] = x]
        BY <1>0, <1>5, ShapeFacts, RequestsSent DEF Mutate
    <2> HIDE DEF x
    <2> QED
        BY <1>4, <1>5, <2>1 DEF Mutate
<1>6. ASSUME NEW a \in Accounts, SignIn(c, a)
      PROVE  SessionInv'
    <2> DEFINE data == [owner |-> a, version |-> 0]
               x == [Idle EXCEPT !.kind = "login", !.data = data]
    <2>1. data \in Data
        BY Constants DEF Data
    <2>2. call' = [call EXCEPT ![c] = x]
        BY <1>6 DEF SignIn
    <2> HIDE DEF data
    <2>3. x \in Sent /\ x.live = FALSE /\ x.answer = "none"
        BY <2>1, RequestsSent
    <2> HIDE DEF x
    <2> QED
        BY <1>4, <1>6, <2>2, <2>3 DEF SignIn
<1>7. ASSUME SignUp(c)
      PROVE  SessionInv'
    <2> DEFINE x == [Idle EXCEPT !.kind = "register"]
    <2>1. x \in Sent /\ x.live = FALSE /\ x.answer = "none" /\ call' = [call EXCEPT ![c] = x]
        BY <1>7, RequestsSent DEF SignUp
    <2> HIDE DEF x
    <2> QED
        BY <1>4, <1>7, <2>1 DEF SignUp
<1>8. ASSUME Reload(c)
      PROVE  SessionInv'
    <2>0. sessions' = IF cookie = None THEN {} ELSE {holder[cookie]}
        BY <1>8 DEF Reload
    <2>1. \A d \in Calls : Fits(call'[d], holder, sessions') /\ Signs(call'[d], holder)
        <3>1. CASE cookie = None
            BY <1>8, <3>1 DEF Reload
        <3>2. CASE cookie # None
            <4>1. PICK v \in Views :
                      call' = [d \in Calls |-> IF d = c THEN Fetch(v, cookie) ELSE Idle]
                BY <1>8, <3>2 DEF Reload
            <4> DEFINE x == Fetch(v, cookie)
            <4>2. IsFetch(x, v, cookie)
                BY <1>0, ShapeFacts, FetchSent
            <4>3. \A d \in Calls : call'[d] = IF d = c THEN x ELSE Idle
                BY <4>1
            <4> HIDE DEF x
            <4>4. Fits(x, holder, sessions') /\ Signs(x, holder)
                BY <2>0, <4>2, FetchFits
            <4> QED
                BY <4>3, <4>4
        <3> QED
            BY <3>1, <3>2
    <2>2. /\ UNCHANGED <<holder, cookie, stored>> /\ user' = stored
          /\ cookie = None => back' = FALSE
          /\ \A v \in Views : cache'[v] = None
        BY <1>8 DEF Reload, backend, browser
    <2> QED
        BY <2>0, <2>1, <2>2 DEF SessionInv
<1> QED
    BY <1>1, <1>2, <1>3, <1>5, <1>6, <1>7, <1>8 DEF Acts

\* A token is signed: who held one before still does.
LEMMA OlderTokens ==
  ASSUME SessionInv, NEW a \in Accounts, Len(holder) < MaxTokens, holder' = Append(holder, a)
  PROVE  /\ cookie # None => holder'[cookie] = holder[cookie]
         /\ \A c \in Calls : Signs(call[c], holder')
         /\ \A c \in Calls : Fits(call[c], holder', sessions)
<1>1. \A i \in 1..Len(holder) : holder'[i] = holder[i]
    BY HolderGrows DEF SessionInv
<1>2. cookie # None => cookie \in 1..Len(holder)
    BY DEF SessionInv, ShapeInv
<1>3. ASSUME NEW c \in Calls
      PROVE  /\ Signs(call[c], holder')
             /\ Fits(call[c], holder', sessions)
    <2>1. call[c].token # None => call[c].token \in 1..Len(holder)
        BY ShapeFacts DEF SessionInv
    <2>2. call[c].kind = "login" /\ call[c].answer = "ok" => call[c].token # None
        BY ShapeFacts, Constants DEF SessionInv, Sent
    <2>3. Signs(call[c], holder')
        BY <1>1, <2>1, <2>2 DEF SessionInv, Signs
    <2>4. Fits(call[c], holder, sessions)
        BY DEF SessionInv
    <2>5. Fits(call[c], holder', sessions)
        BY <1>1, <2>1, <2>4 DEF Fits
    <2> QED
        BY <2>3, <2>5
<1> QED
    BY <1>1, <1>2, <1>3

LEMMA SessionAnswer == SessionInv /\ ShapeInv' /\ (\E c \in Calls : Answer(c)) => SessionInv'
<1> SUFFICES ASSUME SessionInv, ShapeInv', NEW c \in Calls, Answer(c)
             PROVE  SessionInv'
    OBVIOUS
<1> USE IdleFits
<1>0. ShapeInv /\ Fits(call[c], holder, sessions) /\ Signs(call[c], holder)
    BY DEF SessionInv
<1>1. ASSUME ServeFetch(c)
      PROVE  SessionInv'
    <2>1. UNCHANGED <<holder, browser, user, sessions, disturbed, back, cache>>
        BY <1>1 DEF ServeFetch, backend, history
    <2>2. CASE call[c].live
        <3> DEFINE a == holder[call[c].token]
                   data == [owner |-> a, version |-> version[a]]
        <3>1. a \in Accounts
            BY <1>0, <1>1, ShapeFacts DEF ServeFetch
        <3>2. /\ data \in Data /\ call' = Answered(c, "ok", data) /\ call[c].kind = "fetch"
              /\ data.owner = a
            BY <1>0, <1>1, <2>2, <3>1 DEF ServeFetch, Data, ShapeInv
        <3>3. a \in sessions
            BY <1>0, <1>1, <2>2 DEF ServeFetch, Fits
        <3> HIDE DEF data, a
        <3>4. /\ \A d \in Calls \ {c} : call'[d] = call[d]
              /\ call'[c].kind = "fetch" /\ call'[c].answer = "ok" /\ call'[c].data = data
            BY <1>0, <2>2, <3>2, Answering
        <3>5. Fits(call'[c], holder, sessions)
            BY <3>2, <3>3, <3>4 DEF Fits
        <3>6. Signs(call'[c], holder)
            BY <3>4 DEF Signs
        <3> QED
            BY <2>1, <3>4, <3>5, <3>6, SessionStays DEF SessionInv
    <2>3. CASE ~call[c].live
        <3>1. call'[c] = Idle /\ \A d \in Calls \ {c} : call'[d] = call[d]
            BY <1>0, <1>1, <2>3, Ending DEF ServeFetch
        <3>2. Fits(call'[c], holder, sessions) /\ Signs(call'[c], holder)
            BY <3>1
        <3> QED
            BY <2>1, <3>1, <3>2, SessionStays DEF SessionInv
    <2> QED
        BY <2>2, <2>3
<1>2. ASSUME ServeMutation(c)
      PROVE  SessionInv'
    <2> DEFINE a == holder[call[c].token]
               data == [owner |-> a, version |-> version[a] + 1]
    <2>1. call' = Answered(c, "ok", data)
        BY <1>2 DEF ServeMutation
    <2>2. call[c].kind = "mutate" /\ call[c].live = FALSE
        BY <1>0, <1>2, ShapeFacts DEF ServeMutation, Sent, Call
    <2> HIDE DEF data
    <2>3. call' = [call EXCEPT ![c] = [call[c] EXCEPT !.answer = "ok", !.token = None, !.data = data]]
        BY <1>0, <2>1 DEF Answered, ShapeInv, WellFormed
    <2>4. /\ \A d \in Calls \ {c} : call'[d] = call[d]
          /\ call'[c] = [call[c] EXCEPT !.answer = "ok", !.token = None, !.data = data]
        BY <1>0, <2>3 DEF ShapeInv, WellFormed
    <2>5. call'[c].kind = "mutate" /\ call'[c].live = FALSE
        BY <1>0, <2>2, <2>4, ShapeFacts DEF Call
    <2>6. Fits(call'[c], holder, sessions) /\ Signs(call'[c], holder)
        BY <2>5 DEF Fits, Signs
    <2>7. UNCHANGED <<holder, browser, user, sessions, disturbed, back, cache>>
        BY <1>2 DEF ServeMutation, history
    <2> QED
        BY <2>4, <2>6, <2>7, SessionStays DEF SessionInv
<1>3. ASSUME Refuse(c)
      PROVE  SessionInv'
    <2>1. /\ \A d \in Calls \ {c} : call'[d] = call[d]
          /\ call'[c].kind = call[c].kind /\ call'[c].answer = "refused"
        BY <1>0, <1>3, Answering DEF Refuse
    <2>2. Fits(call'[c], holder, sessions) /\ Signs(call'[c], holder)
        BY <2>1 DEF Fits, Signs
    <2>3. UNCHANGED <<holder, browser, user, sessions, disturbed, back, cache>>
        BY <1>3 DEF Refuse, backend, history
    <2> QED
        BY <2>1, <2>2, <2>3, SessionStays DEF SessionInv
<1>4. ASSUME ServeLogin(c)
      PROVE  SessionInv'
    <2> DEFINE a == call[c].data.owner
    <2>1. /\ a \in Accounts /\ holder' = Append(holder, a) /\ Len(holder) < MaxTokens
          /\ \A d \in Calls \ {c} : call'[d] = call[d]
          /\ call'[c].kind = "login" /\ call'[c].live = FALSE /\ call'[c].answer = "ok"
          /\ call'[c].token = Len(holder') /\ call'[c].data = call[c].data
        BY <1>0, <1>4, LoggingIn DEF ServeLogin
    <2>2. holder'[Len(holder')] = a
        BY <1>0, <2>1, HolderGrows
    <2>3. Signs(call'[c], holder') /\ Fits(call'[c], holder', sessions)
        BY <2>1, <2>2 DEF Signs, Fits
    <2> HIDE DEF a
    <2>4. /\ cookie # None => holder'[cookie] = holder[cookie]
          /\ \A d \in Calls : Signs(call[d], holder')
          /\ \A d \in Calls : Fits(call[d], holder', sessions)
        BY <2>1, OlderTokens
    <2>5. /\ \A d \in Calls : Signs(call'[d], holder')
          /\ \A d \in Calls : Fits(call'[d], holder', sessions)
        BY <2>1, <2>3, <2>4
    <2>6. UNCHANGED <<cookie, stored, user, sessions, disturbed, back, cache>>
        BY <1>4 DEF ServeLogin, browser, history
    <2> QED
        BY <2>4, <2>5, <2>6 DEF SessionInv
<1>5. ASSUME ServeRegister(c)
      PROVE  SessionInv'
    <2> DEFINE x == [call[c] EXCEPT !.answer = "ok"]
    <2>1. call[c].kind = "register" /\ call[c] \in Call /\ call[c].live = FALSE
        BY <1>0, <1>5, ShapeFacts DEF ServeRegister, Sent, Call
    <2>2. call' = [call EXCEPT ![c] = x]
        BY <1>0, <1>5 DEF ServeRegister, ShapeInv, WellFormed
    <2>3. x.kind = "register" /\ x.live = FALSE
        BY <2>1 DEF Call
    <2> HIDE DEF x
    <2>4. call'[c] = x /\ \A d \in Calls \ {c} : call'[d] = call[d]
        BY <1>0, <2>2 DEF ShapeInv, WellFormed
    <2>5. Fits(call'[c], holder, sessions) /\ Signs(call'[c], holder)
        BY <2>3, <2>4 DEF Fits, Signs
    <2>6. UNCHANGED <<holder, browser, user, sessions, disturbed, back, cache>>
        BY <1>5 DEF ServeRegister, backend, history
    <2> QED
        BY <2>4, <2>5, <2>6, SessionStays DEF SessionInv
<1>6. ASSUME Lose(c)
      PROVE  SessionInv'
    <2>1. \A d \in Calls \ {c} : call'[d] = call[d]
        BY <1>0, <1>6, Losing
    <2>2. \/ call'[c].kind = call[c].kind /\ call'[c].answer = "failed" /\ UNCHANGED cache
          \/ call'[c] = Idle /\ Fails(call[c].view)
        BY <1>0, <1>6, Losing
    <2>3. Fits(call'[c], holder, sessions) /\ Signs(call'[c], holder)
        BY <2>2 DEF Fits, Signs
    <2>4. call[c].view \in Views \cup {None}
        BY <1>0, ShapeFacts DEF Call
    <2>5. \A v \in Views : cache'[v] # None => cache[v] # None /\ cache'[v].data = cache[v].data
        BY <1>0, <2>2, <2>4, Failing
    <2>6. UNCHANGED <<holder, browser, user, sessions, disturbed, back>>
        BY <1>6 DEF Lose, backend
    <2> QED
        BY <2>1, <2>3, <2>5, <2>6, SessionStays DEF SessionInv
<1> QED
    BY <1>1, <1>2, <1>3, <1>4, <1>5, <1>6 DEF Answer

LEMMA SessionDeliver == SessionInv /\ ShapeInv' /\ (\E c \in Calls : Deliver(c)) => SessionInv'
<1> SUFFICES ASSUME SessionInv, ShapeInv', NEW c \in Calls, Deliver(c)
             PROVE  SessionInv'
    OBVIOUS
<1> USE IdleFits
<1>0. /\ ShapeInv /\ (cookie = None \/ holder[cookie] \in sessions)
      /\ Fits(call[c], holder, sessions) /\ Signs(call[c], holder)
    BY DEF SessionInv
<1>1. ASSUME FetchSucceeds(c)
      PROVE  SessionInv'
    <2>1. call[c].view \in Views /\ call[c].live
        BY <1>0, <1>1, ShapeFacts DEF FetchSucceeds, Sent
    <2>2. call'[c] = Idle /\ \A d \in Calls \ {c} : call'[d] = call[d]
        BY <1>0, <1>1, Ending DEF FetchSucceeds
    <2>3. call[c].data.owner \in sessions
        BY <1>0, <1>1, <2>1 DEF FetchSucceeds, Fits
    <2>4. \A v \in Views : cache'[v] # None => cache'[v].data.owner \in sessions
        BY <1>0, <1>1, <2>1, <2>3 DEF FetchSucceeds, ShapeInv, SessionInv
    <2>5. Fits(call'[c], holder, sessions) /\ Signs(call'[c], holder)
        BY <2>2
    <2>6. UNCHANGED <<holder, browser, user, sessions, disturbed, back>>
        BY <1>1 DEF FetchSucceeds, backend
    <2> QED
        BY <2>2, <2>4, <2>5, <2>6, SessionStays
<1>2. ASSUME Retry(c)
      PROVE  SessionInv'
    <2>1. PICK v \in Views : v = call[c].view
        BY <1>0, <1>2, ShapeFacts DEF Retry, Retries, Sent
    <2> DEFINE x == Fetch(v, cookie)
               y == [x EXCEPT !.again = TRUE]
    <2>2. IsFetch(x, v, cookie)
        BY <1>0, ShapeFacts, FetchSent
    <2>3. call' = [call EXCEPT ![c] = y]
        BY <1>2, <2>1 DEF Retry
    <2> HIDE DEF x
    <2>4. IsFetch(y, v, cookie)
        BY <2>2, AgainSent
    <2> HIDE DEF y
    <2>5. call'[c] = y /\ \A d \in Calls \ {c} : call'[d] = call[d]
        BY <1>0, <2>3 DEF ShapeInv, WellFormed
    <2>6. Fits(call'[c], holder, sessions) /\ Signs(call'[c], holder)
        BY <1>0, <2>4, <2>5, FetchFits
    <2>7. UNCHANGED <<holder, browser, user, sessions, disturbed, back, cache>>
        BY <1>2 DEF Retry, backend
    <2> QED
        BY <2>5, <2>6, <2>7, SessionStays DEF SessionInv
<1>3. ASSUME GiveUp(c)
      PROVE  SessionInv'
    <2>1. call'[c] = Idle /\ \A d \in Calls \ {c} : call'[d] = call[d]
        BY <1>0, <1>3, Ending DEF GiveUp
    <2>2. Fits(call'[c], holder, sessions) /\ Signs(call'[c], holder)
        BY <2>1
    <2>3. call[c].view \in Views \cup {None}
        BY <1>0, ShapeFacts DEF Call
    <2>4. \A v \in Views : cache'[v] # None => cache[v] # None /\ cache'[v].data = cache[v].data
        BY <1>0, <1>3, <2>3, Failing DEF GiveUp
    <2>5. UNCHANGED <<holder, browser, user, sessions, disturbed, back>>
        BY <1>3 DEF GiveUp, backend
    <2> QED
        BY <2>1, <2>2, <2>4, <2>5, SessionStays DEF SessionInv
<1>4. ASSUME Forbidden(c)
      PROVE  SessionInv'
    <2> DEFINE calls == [call EXCEPT ![c] = Idle]
    <2>1. WellFormed(calls, Len(holder)) /\ SignedOut(calls)
        BY <1>0, <1>4, IdleSent, ShapeFacts DEF Forbidden, WellFormed
    <2>2. \A d \in Calls : Signs(calls[d], holder)
        BY <1>0 DEF SessionInv, ShapeInv, WellFormed
    <2> HIDE DEF calls
    <2> QED
        BY <2>1, <2>2, SessionEnds
<1>5. ASSUME MutationSucceeds(c)
      PROVE  SessionInv'
    <2>1. /\ call'[c] = Idle \/ \E v \in Views : IsFetch(call'[c], v, cookie)
          /\ \A d \in Calls \ {c} : call'[d] \in {call[d], Dropped(call[d])}
        BY <1>0, <1>5, Invalidating
    <2>2. \A v \in Views : cache'[v] # None => cache[v] # None /\ cache'[v].data = cache[v].data
        BY <1>0, <1>5, Invalidating
    <2>3. Fits(call'[c], holder, sessions) /\ Signs(call'[c], holder)
        BY <1>0, <2>1, FetchFits
    <2>4. ASSUME NEW d \in Calls
          PROVE  Signs(call'[d], holder) /\ Fits(call'[d], holder, sessions)
        <3>1. call[d] \in Sent /\ Signs(call[d], holder)
              /\ Fits(call[d], holder, sessions)
            BY <1>0, ShapeFacts DEF SessionInv
        <3>2. Fits(Dropped(call[d]), holder, sessions) /\ Signs(Dropped(call[d]), holder)
            BY <3>1, DroppedFits
        <3> QED
            BY <2>1, <2>3, <3>1, <3>2
    <2>5. UNCHANGED <<holder, cookie, stored, user, sessions, disturbed, back>>
        BY <1>5 DEF MutationSucceeds, backend, browser
    <2> QED
        BY <2>2, <2>4, <2>5 DEF SessionInv
<1>6. ASSUME SignedIn(c)
      PROVE  SessionInv'
    <2> DEFINE a == call[c].data.owner
    <2>1. /\ cookie' \in 1..Len(holder) /\ cookie' = call[c].token
          /\ \A d \in Calls \ {c} : call'[d] = call[d]
        BY <1>0, <1>6, SigningIn
    <2>2. call'[c] = Idle \/ IsFetch(call'[c], List, cookie')
        BY <1>0, <1>6, SigningIn
    <2>3. /\ holder[cookie'] = a /\ stored' = a /\ user' = a
          /\ sessions' = sessions \cup {a} /\ sessions \subseteq sessions'
        BY <1>0, <1>6, <2>1 DEF SignedIn, Signs
    <2>4. holder' = holder /\ cache' = cache
        BY <1>6 DEF SignedIn, backend
    <2>5. Fits(call'[c], holder, sessions') /\ Signs(call'[c], holder)
        BY <2>2, <2>3, FetchFits
    <2>6. cookie' # None
        BY <2>1, Constants
    <2>7. \A d \in Calls : Signs(call'[d], holder)
        BY <2>1, <2>5 DEF SessionInv
    <2>8. \A d \in Calls : Fits(call'[d], holder, sessions')
        <3>1. ASSUME NEW d \in Calls \ {c}
              PROVE  Fits(call'[d], holder, sessions')
            <4>1. Fits(call[d], holder, sessions)
                BY DEF SessionInv
            <4> QED
                BY <2>1, <2>3, <4>1, MoreFits
        <3> QED
            BY <2>5, <3>1
    <2>9. \A v \in Views : cache'[v] # None => cache'[v].data.owner \in sessions'
        BY <2>3, <2>4 DEF SessionInv
    <2>10. stored' = holder[cookie'] /\ user' = holder[cookie'] /\ holder[cookie'] \in sessions'
        BY <2>3
    <2> HIDE DEF a
    <2> QED
        BY <2>4, <2>6, <2>7, <2>8, <2>9, <2>10 DEF SessionInv
<1>7. ASSUME Registered(c)
      PROVE  SessionInv'
    <2>1. UNCHANGED <<holder, browser, user, sessions, disturbed, cache>>
        BY <1>7 DEF Registered, backend, history
    <2>2. CASE OpensAuth /\ call' = [call EXCEPT ![c] = Idle]
        <3>1. call'[c] = Idle /\ \A d \in Calls \ {c} : call'[d] = call[d]
            BY <1>0, <2>2, Ending
        <3>2. Fits(call'[c], holder, sessions) /\ Signs(call'[c], holder)
            BY <3>1
        <3> QED
            BY <2>1, <2>2, <3>1, <3>2, SessionStays DEF SessionInv, OpensAuth
    <2>3. CASE cookie # None /\ Opens(c, List, cookie)
        <3>1. \A d \in Calls \ {c} : call'[d] = call[d]
            BY <1>0, <2>3, Constants, Opening DEF ShapeInv
        <3>2. call'[c] = Idle \/ IsFetch(call'[c], List, cookie)
            BY <1>0, <2>3, Constants, Opening DEF ShapeInv
        <3>3. Fits(call'[c], holder, sessions) /\ Signs(call'[c], holder)
            BY <1>0, <3>2, FetchFits
        <3> QED
            BY <2>1, <2>3, <3>1, <3>3, SessionStays DEF SessionInv
    <2> QED
        BY <1>7, <2>2, <2>3 DEF Registered
<1> QED
    BY <1>1, <1>2, <1>3, <1>4, <1>5, <1>6, <1>7 DEF Deliver

LEMMA SessionInit == Init => SessionInv
<1> SUFFICES ASSUME Init
             PROVE  SessionInv
    OBVIOUS
<1>1. \A c \in Calls : call[c] = Idle
    BY DEF Init
<1> QED
    BY <1>1, ShapeInit, IdleFits DEF Init, SessionInv

LEMMA SessionNext == SessionInv /\ [Next]_vars => SessionInv'
<1> SUFFICES ASSUME SessionInv, [Next]_vars
             PROVE  SessionInv'
    OBVIOUS
<1>0. ShapeInv /\ ShapeInv'
    BY ShapeNext DEF SessionInv
<1>1. ASSUME Logout
      PROVE  SessionInv'
    <2>1. \A c \in Calls : Signs(call[c], holder)
        BY DEF SessionInv
    <2> QED
        BY <1>0, <1>1, <2>1, ShapeFacts, SessionEnds DEF Logout
<1>2. ASSUME NEW v \in Views, Collect(v)
      PROVE  SessionInv'
    <2>1. UNCHANGED <<holder, cookie, stored, user, sessions, disturbed, back, call>>
        BY <1>2 DEF Collect, backend, browser
    <2>2. \A w \in Views : cache'[w] # None => cache[w] # None /\ cache'[w] = cache[w]
        BY <1>0, <1>2 DEF Collect, ShapeInv
    <2> QED
        BY <1>0, <2>1, <2>2 DEF SessionInv
<1>3. ASSUME NEW a \in Accounts, OtherTabSignsIn(a)
      PROVE  SessionInv'
    <2>1. /\ Len(holder') = Len(holder) + 1 /\ holder'[Len(holder')] = a
          /\ \A c \in Calls : Signs(call[c], holder')
        BY <1>0, <1>3, HolderGrows, OlderTokens DEF OtherTabSignsIn
    <2>2. /\ cookie' = Len(holder') /\ stored' = a /\ call' = call /\ cache' = cache
          /\ sessions' = sessions \cup {a} /\ disturbed' # 0
        BY <1>0, <1>3, <2>1, Disturbing DEF OtherTabSignsIn
    <2>3. sessions \subseteq sessions'
        BY <2>2
    <2>4. ASSUME NEW c \in Calls
          PROVE  Fits(call'[c], holder', sessions')
        <3>1. Fits(call[c], holder', sessions)
            BY <1>3, OlderTokens DEF OtherTabSignsIn
        <3> QED
            BY <2>2, <2>3, <3>1, MoreFits
    <2>5. \A v \in Views : cache'[v] # None => cache'[v].data.owner \in sessions'
        BY <2>2, <2>3 DEF SessionInv
    <2> QED
        BY <1>0, <2>1, <2>2, <2>4, <2>5 DEF SessionInv
<1>4. ASSUME Lapse \/ OtherTabSignsOut
      PROVE  SessionInv'
    <2>1. /\ cookie' = None /\ call' = call /\ holder' = holder /\ cache' = cache
          /\ sessions' = sessions /\ disturbed' # 0
        BY <1>0, <1>4, Disturbing DEF Lapse, OtherTabSignsOut, backend
    <2> QED
        BY <1>0, <2>1 DEF SessionInv
<1>5. ASSUME UNCHANGED vars
      PROVE  SessionInv'
    BY <1>0, <1>5 DEF vars, SessionInv, backend, browser, history
<1> QED
    BY <1>0, <1>1, <1>2, <1>3, <1>4, <1>5, SessionActs, SessionAnswer, SessionDeliver DEF Next

\* What the tab shows is never of a session that ended with a clear of its
\* cache, however late the answers of that session come and whoever changes the
\* cookie; while nobody does behind its back, the sidebar names the account that
\* is signed in, and without a session nothing is left to show (useAuth.ts:
\* useLogin, useLogout; Providers.tsx: ForbiddenInterceptor).
THEOREM TabIsOfItsAccount == Spec => []TabShowsItsAccount
<1>1. SessionInv => TabShowsItsAccount
    BY DEF SessionInv, ShapeInv, TabShowsItsAccount
<1> QED
    BY <1>1, SessionInit, SessionNext, PTL DEF Spec
-----------------------------------------------------------------------------
(* Own writes.  An answer that a query waits for is as new as what the tab   *)
(* was last told of, if it was not under way then.                           *)

\* A mutation's answer is no newer than the backend; a fetch's no older than
\* what the tab knows.
Recent(x, version_, acked_, isEarly) ==
  /\ x.kind = "mutate" /\ x.answer = "ok" => x.data.version <= version_[x.data.owner]
  /\ x.live /\ x.answer = "ok" /\ ~isEarly => x.data.version >= acked_[x.data.owner]

WritesInv ==
  /\ ShapeInv
  /\ \A a \in Accounts : acked[a] <= version[a]
  /\ \A c \in Calls : Recent(call[c], version, acked, c \in early)
  /\ FreshViewsShowOwnWrites

LEMMA IdleRecent == ASSUME NEW vs, NEW as, NEW e PROVE Recent(Idle, vs, as, e)
BY IdleSent DEF Recent

LEMMA FetchRecent ==
  ASSUME NEW x, NEW v, NEW t, IsFetch(x, v, t), NEW vs, NEW as, NEW e
  PROVE  Recent(x, vs, as, e)
BY DEF IsFetch, Recent

LEMMA DroppedRecent ==
  ASSUME NEW x \in Sent, NEW vs, NEW as, NEW e, Recent(x, vs, as, e), NEW f
  PROVE  Recent(Dropped(x), vs, as, f)
<1>1. Dropped(x).live = FALSE /\ (x.kind # "fetch" => Dropped(x) = x)
      /\ Dropped(x).kind \in {x.kind, "idle"}
    BY DroppedSent
<1> QED
    BY <1>1 DEF Recent

\* One request changes, and no view becomes fresh.
LEMMA WritesStay ==
  ASSUME WritesInv, ShapeInv', NEW c \in Calls, UNCHANGED <<version, acked>>,
         \A v \in Views \ missed' : cache'[v] # None /\ ~cache'[v].invalid =>
           v \notin missed /\ cache[v] # None /\ ~cache[v].invalid /\ cache'[v].data = cache[v].data,
         \A d \in Calls \ {c} : call'[d] = call[d] /\ (d \in early => d \in early'),
         Recent(call'[c], version, acked, c \in early')
  PROVE  WritesInv'
<1>1. ASSUME NEW d \in Calls
      PROVE  Recent(call'[d], version, acked, d \in early')
    <2>1. CASE d = c
        BY <2>1
    <2>2. CASE d # c
        <3>1. Recent(call[d], version, acked, d \in early)
            BY DEF WritesInv
        <3>2. call'[d] = call[d] /\ (d \in early => d \in early')
            BY <2>2
        <3> QED
            BY <3>1, <3>2 DEF Recent
    <2> QED
        BY <2>1, <2>2
<1>2. FreshViewsShowOwnWrites'
    BY DEF WritesInv, FreshViewsShowOwnWrites
<1> QED
    BY <1>1, <1>2 DEF WritesInv

\* Nothing is cached, and no query waits.
LEMMA WritesForgotten ==
  ASSUME WritesInv, ShapeInv', UNCHANGED <<version, acked>>,
         \A v \in Views : cache'[v] = None,
         \A c \in Calls : Recent(call'[c], version, acked, c \in early')
  PROVE  WritesInv'
BY DEF WritesInv, FreshViewsShowOwnWrites

\* The tab leaves its session.
LEMMA WritesEnd ==
  ASSUME WritesInv, ShapeInv', NEW calls, WellFormed(calls, Len(holder)), SignedOut(calls),
         \A c \in Calls : \E e : Recent(calls[c], version, acked, e)
  PROVE  WritesInv'
<1>1. /\ \A c \in Calls : call'[c] = Dropped(calls[c])
      /\ \A v \in Views : cache'[v] = None
    BY Clearing DEF SignedOut, WritesInv
<1>2. ASSUME NEW c \in Calls
      PROVE  Recent(call'[c], version, acked, c \in early')
    <2>1. PICK e : Recent(calls[c], version, acked, e)
        OBVIOUS
    <2>2. calls[c] \in Sent
        BY DEF WellFormed
    <2> QED
        BY <1>1, <2>1, <2>2, DroppedRecent
<1>3. UNCHANGED <<version, acked>>
    BY DEF SignedOut, backend
<1> QED
    BY <1>1, <1>2, <1>3, WritesForgotten

\* What the user does sends at most one request, which is not answered yet.
LEMMA Asking ==
  ASSUME ShapeInv, NEW c \in Calls, Acts(c), ~Reload(c)
  PROVE  /\ UNCHANGED <<version, acked, cache, early, missed>>
         /\ \A d \in Calls \ {c} : call'[d] = call[d]
         /\ call'[c].answer = "none"
<1> USE IdleSent
<1>1. ASSUME NEW v \in Views, OpenView(c, v) \/ Browse(c, v)
      PROVE  (\A d \in Calls \ {c} : call'[d] = call[d]) /\ call'[c].answer = "none"
    <2>1. CASE call' = call
        BY <1>1, <2>1 DEF OpenView, Browse
    <2>2. CASE \E t : (t # None => t \in 1..Len(holder)) /\ Opens(c, v, t)
        <3>1. PICK t : (t # None => t \in 1..Len(holder)) /\ Opens(c, v, t)
            BY <2>2
        <3>2. /\ \A d \in Calls \ {c} : call'[d] = call[d]
              /\ call'[c] = Idle \/ IsFetch(call'[c], v, t)
            BY <3>1, Opening
        <3> QED
            BY <3>2 DEF IsFetch
    <2>3. cookie # None => cookie \in 1..Len(holder)
        BY DEF ShapeInv
    <2>4. call' = call \/ Opens(c, v, cookie) \/ Opens(c, v, None)
        BY <1>1 DEF OpenView, Browse
    <2> QED
        BY <2>1, <2>2, <2>3, <2>4
<1>2. ASSUME NEW x, x.answer = "none", call' = [call EXCEPT ![c] = x]
      PROVE  (\A d \in Calls \ {c} : call'[d] = call[d]) /\ call'[c].answer = "none"
    BY <1>2 DEF ShapeInv, WellFormed
<1>3. ASSUME NEW v \in Views, Refresh(c, v)
      PROVE  (\A d \in Calls \ {c} : call'[d] = call[d]) /\ call'[c].answer = "none"
    <2> DEFINE x == Fetch(v, cookie)
    <2>1. IsFetch(x, v, cookie) /\ call' = [call EXCEPT ![c] = x]
        BY <1>3, ShapeFacts, FetchSent DEF Refresh
    <2> HIDE DEF x
    <2> QED
        BY <1>2, <2>1 DEF IsFetch
<1>4. ASSUME Mutate(c)
      PROVE  (\A d \in Calls \ {c} : call'[d] = call[d]) /\ call'[c].answer = "none"
    BY <1>2, <1>4 DEF Mutate, Idle
<1>5. ASSUME NEW a \in Accounts, SignIn(c, a)
      PROVE  (\A d \in Calls \ {c} : call'[d] = call[d]) /\ call'[c].answer = "none"
    BY <1>2, <1>5 DEF SignIn, Idle
<1>6. ASSUME SignUp(c)
      PROVE  (\A d \in Calls \ {c} : call'[d] = call[d]) /\ call'[c].answer = "none"
    BY <1>2, <1>6 DEF SignUp, Idle
<1>7. UNCHANGED <<version, acked, cache, early, missed>>
    BY DEF Acts, OpenView, Browse, Refresh, Mutate, SignIn, SignUp, backend, history
<1> QED
    BY <1>1, <1>3, <1>4, <1>5, <1>6, <1>7 DEF Acts

LEMMA WritesActs == WritesInv /\ ShapeInv' /\ (\E c \in Calls : Acts(c)) => WritesInv'
<1> SUFFICES ASSUME WritesInv, ShapeInv', NEW c \in Calls, Acts(c)
             PROVE  WritesInv'
    OBVIOUS
<1>0. ShapeInv
    BY DEF WritesInv
<1>1. CASE ~Reload(c)
    <2>1. /\ UNCHANGED <<version, acked, cache, early, missed>>
          /\ \A d \in Calls \ {c} : call'[d] = call[d]
          /\ call'[c].answer = "none"
        BY <1>0, <1>1, Asking
    <2>2. Recent(call'[c], version, acked, c \in early')
        BY <2>1 DEF Recent
    <2> QED
        BY <2>1, <2>2, WritesStay
<1>2. CASE Reload(c)
    <2>1. UNCHANGED <<version, acked>> /\ \A v \in Views : cache'[v] = None
        BY <1>2 DEF Reload, backend
    <2>2. ASSUME NEW d \in Calls
          PROVE  Recent(call'[d], version, acked, d \in early')
        <3>1. CASE call'[d] = Idle
            BY <3>1, IdleRecent
        <3>2. CASE cookie # None /\ d = c
            <4>1. PICK v \in Views :
                      call' = [e \in Calls |-> IF e = c THEN Fetch(v, cookie) ELSE Idle]
                BY <1>2, <3>2 DEF Reload
            <4> DEFINE x == Fetch(v, cookie)
            <4>2. IsFetch(x, v, cookie)
                BY <1>0, ShapeFacts, FetchSent
            <4>3. call'[c] = x
                BY <4>1
            <4> HIDE DEF x
            <4> QED
                BY <3>2, <4>2, <4>3, FetchRecent
        <3>3. cookie = None \/ d # c => call'[d] = Idle
            BY <1>2 DEF Reload
        <3> QED
            BY <3>1, <3>2, <3>3
    <2> QED
        BY <2>1, <2>2, WritesForgotten
<1> QED
    BY <1>1, <1>2

\* An error freshens nothing.
LEMMA FailingWrites ==
  ASSUME ShapeInv, NEW v \in Views \cup {None}, Fails(v)
  PROVE  \A w \in Views \ missed' : cache'[w] # None /\ ~cache'[w].invalid =>
           w \notin missed /\ cache[w] # None /\ ~cache[w].invalid /\ cache'[w].data = cache[w].data
<1> SUFFICES ASSUME NEW w \in Views, w \notin missed', cache'[w] # None, ~cache'[w].invalid
             PROVE  /\ w \notin missed /\ cache[w] # None /\ ~cache[w].invalid
                    /\ cache'[w].data = cache[w].data
    OBVIOUS
<1>1. cache[w] # None /\ cache'[w].data = cache[w].data /\ ~cache[w].invalid
    BY Failing
<1>2. w # v
    BY <1>1, Failing, Constants
<1>3. missed' = missed \ {v}
    BY Failing
<1> QED
    BY <1>1, <1>2, <1>3

LEMMA WritesAnswer == WritesInv /\ ShapeInv' /\ (\E c \in Calls : Answer(c)) => WritesInv'
<1> SUFFICES ASSUME WritesInv, ShapeInv', NEW c \in Calls, Answer(c)
             PROVE  WritesInv'
    OBVIOUS
<1>0. ShapeInv
    BY DEF WritesInv
<1>1. ASSUME ServeFetch(c)
      PROVE  WritesInv'
    <2>1. UNCHANGED <<version, acked, cache, early, missed>>
        BY <1>1 DEF ServeFetch, backend, history
    <2>2. CASE call[c].live
        <3> DEFINE a == holder[call[c].token]
                   data == [owner |-> a, version |-> version[a]]
        <3>1. a \in Accounts
            BY <1>0, <1>1, ShapeFacts DEF ServeFetch
        <3>2. /\ data \in Data /\ call' = Answered(c, "ok", data) /\ call[c].kind = "fetch"
              /\ data.version >= acked[data.owner]
            BY <1>0, <1>1, <2>2, <3>1 DEF ServeFetch, Data, ShapeInv, WritesInv
        <3> HIDE DEF data, a
        <3>3. /\ \A d \in Calls \ {c} : call'[d] = call[d]
              /\ call'[c].kind = "fetch" /\ call'[c].data = data
            BY <1>0, <2>2, <3>2, Answering
        <3>4. Recent(call'[c], version, acked, c \in early')
            BY <3>2, <3>3 DEF Recent
        <3> QED
            BY <2>1, <3>3, <3>4, WritesStay
    <2>3. CASE ~call[c].live
        <3>1. call'[c] = Idle /\ \A d \in Calls \ {c} : call'[d] = call[d]
            BY <1>0, <1>1, <2>3, Ending DEF ServeFetch
        <3>2. Recent(call'[c], version, acked, c \in early')
            BY <3>1, IdleRecent
        <3> QED
            BY <2>1, <3>1, <3>2, WritesStay
    <2> QED
        BY <2>2, <2>3
<1>2. ASSUME ServeMutation(c)
      PROVE  WritesInv'
    <2> DEFINE a == holder[call[c].token]
               data == [owner |-> a, version |-> version[a] + 1]
    <2>0. version \in [Accounts -> 0..MaxCommits] /\ version' \in [Accounts -> 0..MaxCommits]
        BY <1>0 DEF ShapeInv
    <2>1. a \in Accounts
        BY <1>0, <1>2, ShapeFacts DEF ServeMutation
    <2>2. version[a] \in 0..MaxCommits /\ version[a] < MaxCommits
        BY <1>2, <2>0, <2>1 DEF ServeMutation
    <2>3. version[a] + 1 \in 0..MaxCommits
        BY <2>2, Constants
    <2>4. /\ data \in Data /\ call' = Answered(c, "ok", data) /\ call[c].kind = "mutate"
          /\ data.owner = a /\ data.version = version[a] + 1
        BY <1>2, <2>1, <2>3 DEF ServeMutation, Data
    <2>5. version' = [version EXCEPT ![a] = version[a] + 1]
        BY <1>2 DEF ServeMutation
    <2> HIDE DEF data, a
    <2>6. /\ \A d \in Calls \ {c} : call'[d] = call[d]
          /\ call'[c].kind = "mutate" /\ call'[c].live = call[c].live /\ call'[c].data = data
        BY <1>0, <2>4, Answering
    <2>7. call[c].live => call[c].kind = "fetch"
        BY <1>0, ShapeFacts DEF Sent
    <2>8. version'[a] = version[a] + 1 /\ \A b \in Accounts : version'[b] >= version[b]
        BY <1>0, <2>1, <2>2, <2>5 DEF ShapeInv
    <2>9. UNCHANGED <<acked, cache, early, missed>>
        BY <1>2 DEF ServeMutation, history
    <2>10. \A b \in Accounts : acked[b] <= version'[b]
        <3>1. \A b \in Accounts : acked[b] \in Int /\ version[b] \in Int /\ version'[b] \in Int
            BY <1>0, <2>9 DEF ShapeInv
        <3> QED
            BY <2>8, <3>1 DEF WritesInv
    <2>11. ASSUME NEW d \in Calls
           PROVE  Recent(call'[d], version', acked, d \in early)
        <3>1. CASE d = c
            <4>1. data.version <= version'[data.owner]
                BY <2>2, <2>4, <2>8
            <4>2. call'[c].live = FALSE
                BY <1>0, <2>4, <2>6, <2>7, ShapeFacts DEF Call
            <4> QED
                BY <2>6, <3>1, <4>1, <4>2 DEF Recent
        <3>2. CASE d # c
            <4>1. Recent(call[d], version, acked, d \in early) /\ call'[d] = call[d]
                BY <2>6, <3>2 DEF WritesInv
            <4>2. ASSUME call[d].kind = "mutate", call[d].answer = "ok"
                  PROVE  call[d].data.version <= version'[call[d].data.owner]
                <5>1. call[d].data \in Data
                    BY <1>0, <4>2, ShapeFacts DEF Sent
                <5>2. PICK b \in Accounts : b = call[d].data.owner
                    BY <5>1 DEF Data
                <5>3. call[d].data.version \in Int /\ version[b] \in Int /\ version'[b] \in Int
                    BY <2>0, <5>1 DEF Data
                <5>4. call[d].data.version <= version[b]
                    BY <4>1, <4>2, <5>2 DEF Recent
                <5> QED
                    BY <2>8, <5>2, <5>3, <5>4
            <4> QED
                BY <4>1, <4>2 DEF Recent
        <3> QED
            BY <3>1, <3>2
    <2>12. FreshViewsShowOwnWrites'
        BY <2>9 DEF WritesInv, FreshViewsShowOwnWrites
    <2> QED
        BY <2>9, <2>10, <2>11, <2>12 DEF WritesInv
<1>3. ASSUME Refuse(c)
      PROVE  WritesInv'
    <2>1. /\ \A d \in Calls \ {c} : call'[d] = call[d]
          /\ call'[c].answer = "refused"
        BY <1>0, <1>3, Answering DEF Refuse
    <2>2. Recent(call'[c], version, acked, c \in early')
        BY <2>1 DEF Recent
    <2>3. UNCHANGED <<version, acked, cache, early, missed>>
        BY <1>3 DEF Refuse, backend, history
    <2> QED
        BY <2>1, <2>2, <2>3, WritesStay
<1>4. ASSUME ServeLogin(c)
      PROVE  WritesInv'
    <2>1. /\ \A d \in Calls \ {c} : call'[d] = call[d]
          /\ call'[c].kind = "login" /\ call'[c].live = FALSE
        BY <1>0, <1>4, LoggingIn
    <2>2. Recent(call'[c], version, acked, c \in early')
        BY <2>1 DEF Recent
    <2>3. UNCHANGED <<version, acked, cache, early, missed>>
        BY <1>4 DEF ServeLogin, history
    <2> QED
        BY <2>1, <2>2, <2>3, WritesStay
<1>5. ASSUME ServeRegister(c)
      PROVE  WritesInv'
    <2> DEFINE x == [call[c] EXCEPT !.answer = "ok"]
    <2>1. call[c].kind = "register" /\ call[c] \in Call /\ call[c].live = FALSE
        BY <1>0, <1>5, ShapeFacts DEF ServeRegister, Sent, Call
    <2>2. call' = [call EXCEPT ![c] = x]
        BY <1>0, <1>5 DEF ServeRegister, ShapeInv, WellFormed
    <2>3. x.kind = "register" /\ x.live = FALSE
        BY <2>1 DEF Call
    <2> HIDE DEF x
    <2>4. call'[c] = x /\ \A d \in Calls \ {c} : call'[d] = call[d]
        BY <1>0, <2>2 DEF ShapeInv, WellFormed
    <2>5. Recent(call'[c], version, acked, c \in early')
        BY <2>3, <2>4 DEF Recent
    <2>6. UNCHANGED <<version, acked, cache, early, missed>>
        BY <1>5 DEF ServeRegister, backend, history
    <2> QED
        BY <2>4, <2>5, <2>6, WritesStay
<1>6. ASSUME Lose(c)
      PROVE  WritesInv'
    <2>1. \A d \in Calls \ {c} : call'[d] = call[d] /\ (d \in early => d \in early')
        BY <1>0, <1>6, Losing DEF Lose
    <2>2. \/ /\ call'[c].kind = call[c].kind /\ call'[c].answer = "failed"
             /\ UNCHANGED <<cache, missed>>
          \/ call'[c] = Idle /\ Fails(call[c].view)
        BY <1>0, <1>6, Losing
    <2>3. Recent(call'[c], version, acked, c \in early')
        BY <2>2, IdleRecent DEF Recent
    <2>4. call[c].view \in Views \cup {None}
        BY <1>0, ShapeFacts DEF Call
    <2>5. \A v \in Views \ missed' : cache'[v] # None /\ ~cache'[v].invalid =>
            v \notin missed /\ cache[v] # None /\ ~cache[v].invalid /\ cache'[v].data = cache[v].data
        BY <1>0, <2>2, <2>4, FailingWrites
    <2>6. UNCHANGED <<version, acked>>
        BY <1>6 DEF Lose, backend
    <2> QED
        BY <2>1, <2>3, <2>5, <2>6, WritesStay
<1> QED
    BY <1>1, <1>2, <1>3, <1>4, <1>5, <1>6 DEF Answer

LEMMA WritesDeliver == WritesInv /\ ShapeInv' /\ (\E c \in Calls : Deliver(c)) => WritesInv'
<1> SUFFICES ASSUME WritesInv, ShapeInv', NEW c \in Calls, Deliver(c)
             PROVE  WritesInv'
    OBVIOUS
<1>0. ShapeInv /\ Recent(call[c], version, acked, c \in early)
    BY DEF WritesInv
<1>1. ASSUME FetchSucceeds(c)
      PROVE  WritesInv'
    <2>1. call[c].view \in Views /\ call[c].live
        BY <1>0, <1>1, ShapeFacts DEF FetchSucceeds, Sent
    <2>2. call'[c] = Idle /\ \A d \in Calls \ {c} : call'[d] = call[d]
        BY <1>0, <1>1, Ending DEF FetchSucceeds
    <2>3. ASSUME NEW d \in Calls
          PROVE  Recent(call'[d], version, acked, d \in early')
        <3>1. CASE d = c
            BY <2>2, <3>1, IdleRecent
        <3>2. CASE d # c
            <4>1. Recent(call[d], version, acked, d \in early) /\ call'[d] = call[d]
                BY <2>2, <3>2 DEF WritesInv
            <4>2. d \in early => d \in early'
                BY <1>1, <3>2 DEF FetchSucceeds
            <4> QED
                BY <4>1, <4>2 DEF Recent
        <3> QED
            BY <3>1, <3>2
    <2>4. UNCHANGED <<version, acked>>
        BY <1>1 DEF FetchSucceeds, backend
    <2>5. ASSUME NEW w \in Views, w \notin missed', cache'[w] # None, ~cache'[w].invalid
          PROVE  cache'[w].data.version >= acked[cache'[w].data.owner]
        <3>1. CASE w = call[c].view
            <4>1. cache'[w].data = call[c].data
                BY <1>0, <1>1, <2>1, <3>1 DEF FetchSucceeds, ShapeInv
            <4>2. c \notin early
                BY <1>1, <2>5, <3>1 DEF FetchSucceeds
            <4> QED
                BY <1>0, <1>1, <2>1, <4>1, <4>2 DEF FetchSucceeds, Recent
        <3>2. CASE w # call[c].view
            <4>1. cache'[w] = cache[w] /\ w \notin missed
                BY <1>0, <1>1, <2>5, <3>2 DEF FetchSucceeds, ShapeInv
            <4> QED
                BY <2>5, <4>1 DEF WritesInv, FreshViewsShowOwnWrites
        <3> QED
            BY <3>1, <3>2
    <2>6. FreshViewsShowOwnWrites'
        BY <2>4, <2>5 DEF FreshViewsShowOwnWrites
    <2> QED
        BY <2>3, <2>4, <2>6 DEF WritesInv
<1>2. ASSUME Retry(c)
      PROVE  WritesInv'
    <2>1. PICK v \in Views : v = call[c].view
        BY <1>0, <1>2, ShapeFacts DEF Retry, Retries, Sent
    <2> DEFINE x == Fetch(v, cookie)
               y == [x EXCEPT !.again = TRUE]
    <2>2. IsFetch(x, v, cookie)
        BY <1>0, ShapeFacts, FetchSent
    <2>3. call' = [call EXCEPT ![c] = y]
        BY <1>2, <2>1 DEF Retry
    <2> HIDE DEF x
    <2>4. IsFetch(y, v, cookie)
        BY <2>2, AgainSent
    <2> HIDE DEF y
    <2>5. call'[c] = y /\ \A d \in Calls \ {c} : call'[d] = call[d] /\ (d \in early => d \in early')
        BY <1>0, <1>2, <2>3 DEF Retry, ShapeInv, WellFormed
    <2>6. Recent(call'[c], version, acked, c \in early')
        BY <2>4, <2>5, FetchRecent
    <2>7. UNCHANGED <<version, acked, cache, missed>>
        BY <1>2 DEF Retry, backend
    <2> QED
        BY <2>5, <2>6, <2>7, WritesStay
<1>3. ASSUME GiveUp(c)
      PROVE  WritesInv'
    <2>1. call'[c] = Idle /\ \A d \in Calls \ {c} : call'[d] = call[d] /\ (d \in early => d \in early')
        BY <1>0, <1>3, Ending DEF GiveUp
    <2>2. Recent(call'[c], version, acked, c \in early')
        BY <2>1, IdleRecent
    <2>3. call[c].view \in Views \cup {None}
        BY <1>0, ShapeFacts DEF Call
    <2>4. \A v \in Views \ missed' : cache'[v] # None /\ ~cache'[v].invalid =>
            v \notin missed /\ cache[v] # None /\ ~cache[v].invalid /\ cache'[v].data = cache[v].data
        BY <1>0, <1>3, <2>3, FailingWrites DEF GiveUp
    <2>5. UNCHANGED <<version, acked>>
        BY <1>3 DEF GiveUp, backend
    <2> QED
        BY <2>1, <2>2, <2>4, <2>5, WritesStay
<1>4. ASSUME Forbidden(c)
      PROVE  WritesInv'
    <2> DEFINE calls == [call EXCEPT ![c] = Idle]
    <2>1. WellFormed(calls, Len(holder)) /\ SignedOut(calls)
        BY <1>0, <1>4, IdleSent, ShapeFacts DEF Forbidden, WellFormed
    <2>2. \A d \in Calls : Recent(calls[d], version, acked, d \in early)
        BY <1>0, IdleRecent DEF WritesInv, ShapeInv, WellFormed
    <2> HIDE DEF calls
    <2> QED
        BY <2>1, <2>2, WritesEnd
<1>5. ASSUME MutationSucceeds(c)
      PROVE  WritesInv'
    <2> DEFINE data == call[c].data
    <2>1. data \in Data /\ data.version <= version[data.owner] /\ data.owner \in Accounts
        BY <1>0, <1>5, ShapeFacts DEF MutationSucceeds, Sent, Recent, Data
    <2>2. UNCHANGED version
        BY <1>5 DEF MutationSucceeds, backend
    <2>3. acked' = [acked EXCEPT ![data.owner] =
                      IF acked[data.owner] < data.version THEN data.version ELSE acked[data.owner]]
        BY <1>5 DEF MutationSucceeds
    <2> HIDE DEF data
    <2>4. \A a \in Accounts : acked'[a] <= version[a]
        BY <1>0, <2>1, <2>3 DEF ShapeInv, WritesInv
    <2>5. /\ call'[c] = Idle \/ \E v \in Views : IsFetch(call'[c], v, cookie)
          /\ \A d \in Calls \ {c} : call'[d] \in {call[d], Dropped(call[d])}
        BY <1>0, <1>5, Invalidating
    <2>6. \A v \in Views : cache'[v] # None => cache'[v].invalid
        BY <1>0, <1>5, Invalidating
    <2>7. ASSUME NEW d \in Calls
          PROVE  Recent(call'[d], version, acked', d \in early')
        <3>1. CASE d = c
            BY <2>5, <3>1, IdleRecent, FetchRecent
        <3>2. CASE d # c
            <4>1. call[d] \in Sent /\ Recent(call[d], version, acked, d \in early)
                BY <1>0, ShapeFacts DEF WritesInv
            <4>2. call'[d].live => d \in early'
                <5>1. call'[d] = IF call[d].view \in Refetched THEN Dropped(call[d]) ELSE call[d]
                    BY <1>5, <3>2 DEF MutationSucceeds
                <5>2. Dropped(call[d]).live = FALSE
                    BY <4>1, DroppedSent
                <5>3. ASSUME call'[d].live
                      PROVE  call[d].live /\ call[d].view \notin Refetched
                    BY <5>1, <5>2, <5>3
                <5>4. call[d].view \in mounted /\ call[d].view \notin Refetched =>
                        cache[call[d].view] = None
                    BY DEF Refetched
                <5> QED
                    BY <1>5, <5>3, <5>4 DEF MutationSucceeds
            <4>3. call'[d].kind = "mutate" => call'[d] = call[d]
                <5>1. /\ Dropped(call[d]).kind \in {call[d].kind, "idle"}
                      /\ call[d].kind # "fetch" => Dropped(call[d]) = call[d]
                    BY <4>1, DroppedSent
                <5> QED
                    BY <2>5, <3>2, <5>1
            <4> QED
                BY <4>1, <4>2, <4>3 DEF Recent
        <3> QED
            BY <3>1, <3>2
    <2>8. FreshViewsShowOwnWrites'
        BY <2>6 DEF FreshViewsShowOwnWrites
    <2> QED
        BY <2>2, <2>4, <2>7, <2>8 DEF WritesInv
<1>6. ASSUME SignedIn(c)
      PROVE  WritesInv'
    <2>1. \A d \in Calls \ {c} : call'[d] = call[d]
        BY <1>0, <1>6, SigningIn
    <2>2. call'[c] = Idle \/ IsFetch(call'[c], List, cookie')
        BY <1>0, <1>6, SigningIn
    <2>3. Recent(call'[c], version, acked, c \in early')
        BY <2>2, IdleRecent, FetchRecent
    <2>4. UNCHANGED <<version, acked, cache, early, missed>>
        BY <1>6 DEF SignedIn, backend
    <2> QED
        BY <2>1, <2>3, <2>4, WritesStay
<1>7. ASSUME Registered(c)
      PROVE  WritesInv'
    <2>1. UNCHANGED <<version, acked, cache, early, missed>>
        BY <1>7 DEF Registered, backend, history
    <2>2. \A d \in Calls \ {c} : call'[d] = call[d]
        BY <1>0, <1>7, Constants, Ending, Opening DEF Registered, ShapeInv
    <2>3. call'[c] = Idle \/ IsFetch(call'[c], List, cookie)
        BY <1>0, <1>7, Constants, Ending, Opening DEF Registered, ShapeInv
    <2>4. Recent(call'[c], version, acked, c \in early')
        BY <2>3, IdleRecent, FetchRecent
    <2> QED
        BY <2>1, <2>2, <2>4, WritesStay
<1> QED
    BY <1>1, <1>2, <1>3, <1>4, <1>5, <1>6, <1>7 DEF Deliver

LEMMA WritesInit == Init => WritesInv
<1> SUFFICES ASSUME Init
             PROVE  WritesInv
    OBVIOUS
<1>1. /\ \A c \in Calls : call[c] = Idle
      /\ \A a \in Accounts : acked[a] = 0 /\ version[a] = 0
      /\ \A v \in Views : cache[v] = None
    BY DEF Init
<1> QED
    BY <1>1, ShapeInit, IdleRecent DEF WritesInv, FreshViewsShowOwnWrites

LEMMA WritesNext == WritesInv /\ [Next]_vars => WritesInv'
<1> SUFFICES ASSUME WritesInv, [Next]_vars
             PROVE  WritesInv'
    OBVIOUS
<1>0. ShapeInv /\ ShapeInv'
    BY ShapeNext DEF WritesInv
<1>1. ASSUME Logout
      PROVE  WritesInv'
    <2>1. \A c \in Calls : Recent(call[c], version, acked, c \in early)
        BY DEF WritesInv
    <2> QED
        BY <1>0, <1>1, <2>1, ShapeFacts, WritesEnd DEF Logout
<1>2. ASSUME NEW v \in Views, Collect(v)
      PROVE  WritesInv'
    <2>1. UNCHANGED <<version, acked, early, call>>
        BY <1>2 DEF Collect, backend
    <2>2. \A w \in Views \ missed' : cache'[w] # None => w \notin missed /\ cache'[w] = cache[w]
        BY <1>0, <1>2 DEF Collect, ShapeInv
    <2> QED
        BY <1>0, <2>1, <2>2 DEF WritesInv, FreshViewsShowOwnWrites
<1>3. ASSUME UNCHANGED <<version, cache, call, acked, early, missed>>
      PROVE  WritesInv'
    BY <1>0, <1>3 DEF WritesInv, FreshViewsShowOwnWrites
<1>4. ASSUME NEW a \in Accounts, OtherTabSignsIn(a)
      PROVE  WritesInv'
    BY <1>3, <1>4 DEF OtherTabSignsIn
<1>5. ASSUME Lapse \/ OtherTabSignsOut
      PROVE  WritesInv'
    BY <1>3, <1>5 DEF Lapse, OtherTabSignsOut, backend
<1>6. ASSUME UNCHANGED vars
      PROVE  WritesInv'
    BY <1>3, <1>6 DEF vars, backend, history
<1> QED
    BY <1>0, <1>1, <1>2, <1>4, <1>5, <1>6, WritesActs, WritesAnswer, WritesDeliver DEF Next

\* After a mutation is acknowledged no view shows older data as fresh, whatever
\* order the answers come in and whoever signs in between, except those whose
\* fetch was under way and is not cancelled (useCampaigns.ts: the onSuccess of
\* the mutations).
THEOREM OwnWritesAreSeen == Spec => []FreshViewsShowOwnWrites
<1>1. WritesInv => FreshViewsShowOwnWrites
    BY DEF WritesInv
<1> QED
    BY <1>1, WritesInit, WritesNext, PTL DEF Spec
=============================================================================

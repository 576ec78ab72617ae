-------------------------- MODULE DashboardSession --------------------------
(***************************************************************************)
(* One tab of the dashboard: the session cookie and the stored user it     *)
(* shares with other tabs, the React Query cache of its own, and the HTTP  *)
(* requests it has in flight to the backend.                               *)
(*                                                                         *)
(* The tab is single-threaded, but between a request and its answer        *)
(* anything can happen: the user opens another page or signs out, another  *)
(* tab changes the cookie, the cookie lapses, the token expires, answers   *)
(* overtake one another or never come.  A request carries the cookie of    *)
(* the moment it was sent, and an answer finds the cache of another.       *)
(***************************************************************************)
EXTENDS Integers, Sequences, FiniteSets

CONSTANTS
  Accounts,
  Views,       \* the query keys under CAMPAIGNS_KEY: lists by status, details
  List,        \* the key of the unfiltered list
  Calls,       \* bound on the HTTP requests in flight
  MaxTokens,   \* bound on the sign-ins
  MaxCommits,  \* bound on the mutations that succeed, until one account reaches it
  MaxLapses,   \* bound on the losses of the cookie between two clears of the cache
  Expires,     \* the tokens that expire
  None

Tokens == 1..MaxTokens

\* What the backend answers about the campaigns of an account: whose they are,
\* and how many of the account's mutations they show.
Data == [owner : Accounts, version : 0..MaxCommits]
Cached == [data : Data, invalid : BOOLEAN]

ASSUME DashboardAssumption ==
  /\ List \in Views
  /\ MaxTokens \in Nat /\ MaxCommits \in Nat /\ MaxLapses \in Nat \ {0} /\ Expires \subseteq 1..MaxTokens
  /\ None \notin Accounts \cup Views \cup Nat \cup Cached

\* An axios request; live: a query of the cache waits for it.
Call == [kind : {"idle", "fetch", "mutate", "login", "register"}, view : Views \cup {None},
         token : Tokens \cup {None}, again : BOOLEAN, live : BOOLEAN,
         answer : {"none", "ok", "refused", "failed"}, data : Data \cup {None}]

VARIABLES
  holder,    \* the account of each token the backend has signed
  version,   \* how many mutations of an account it has committed
  cookie,    \* the token in lgs_session
  stored,    \* the account in lgs_user
  page,      \* "auth" (login, signup) or "dashboard"
  back,      \* the Next router still has a page of the dashboard
  mounted,   \* the views on the screen
  user,      \* the account cached under AUTH_QUERY_KEY
  cache,     \* what is cached of each view
  call,      \* the requests in flight
  acked,     \* history: the newest version the tab was told of
  early,     \* history: the fetches under way at an acknowledged mutation which
             \* were for a view without data or off the screen
  missed,    \* history: the views whose fresh data came from such a fetch
  sessions,  \* history: the accounts signed in since the cache was last cleared
  disturbed  \* history: how often the cookie changed behind the tab's back: it
             \* lapsed, or another tab signed in or out

history == <<acked, early, missed, sessions, disturbed>>
backend == <<holder, version>>
browser == <<cookie, stored>>
vars == <<backend, browser, page, back, mounted, user, cache, call, history>>

Idle == [kind |-> "idle", view |-> None, token |-> None, again |-> FALSE,
         live |-> FALSE, answer |-> "none", data |-> None]

\* The shapes; and no view has two fetches under way.
TypeOK ==
  /\ holder \in Seq(Accounts) /\ Len(holder) <= MaxTokens
  /\ version \in [Accounts -> 0..MaxCommits]
  /\ cookie \in Tokens \cup {None}
  /\ stored \in Accounts \cup {None}
  /\ page \in {"auth", "dashboard"}
  /\ back \in BOOLEAN
  /\ mounted \in SUBSET Views
  /\ user \in Accounts \cup {None}
  /\ cache \in [Views -> Cached \cup {None}]
  /\ call \in [Calls -> Call]
  /\ \A c, d \in Calls : call[c].live /\ call[d].live /\ call[c].view = call[d].view => c = d
  /\ acked \in [Accounts -> 0..MaxCommits]
  /\ early \in SUBSET Calls /\ missed \in SUBSET Views
  /\ sessions \in SUBSET Accounts
  /\ disturbed \in 0..MaxLapses
-----------------------------------------------------------------------------
Init ==
  /\ holder = <<>>
  /\ version = [a \in Accounts |-> 0]
  /\ cookie = None /\ stored = None
  /\ page = "auth" /\ back = FALSE /\ mounted = {}
  /\ user = None
  /\ cache = [v \in Views |-> None]
  /\ call = [c \in Calls |-> Idle]
  /\ acked = [a \in Accounts |-> 0]
  /\ early = {} /\ missed = {}
  /\ sessions = {} /\ disturbed = 0

\* The request interceptor attaches the cookie of this moment.
Fetch(v, token) == [Idle EXCEPT !.kind = "fetch", !.view = v, !.token = token, !.live = TRUE]

\* A variant: a fetch is forgotten when its view leaves the screen.
LoadingOnScreen(v) ==
  v \in mounted /\ \E c \in Calls : call[c].kind = "fetch" /\ call[c].view = v /\ call[c].live

Loading(v) == \E c \in Calls : call[c].kind = "fetch" /\ call[c].view = v /\ call[c].live

\* A page with view v is rendered: the query is fetched when it has no data or
\* invalid data, may be when its data is a minute old, and joins a fetch that
\* is under way.
Opens(c, v, token) ==
  /\ page' = "dashboard" /\ back' = TRUE
  /\ mounted' = {v}
  /\ \/ ~Loading(v) /\ call' = [call EXCEPT ![c] = Fetch(v, token)]
     \/ /\ Loading(v) \/ (cache[v] # None /\ ~cache[v].invalid)
        /\ call' = [call EXCEPT ![c] = Idle]

\* A variant: removing the data only.
ClearedData(calls) == /\ cache' = [v \in Views |-> None]
                      /\ user' = None
                      /\ call' = calls
                      /\ early' = {} /\ missed' = {}
                      /\ sessions' = {} /\ disturbed' = 0

\* A fetch that nothing waits for any more: the request goes on.
Dropped(request) ==
  CASE request.kind # "fetch" -> request
    [] request.kind = "fetch" /\ request.answer \in {"ok", "failed"} -> Idle
    [] OTHER -> [request EXCEPT !.live = FALSE, !.view = None, !.again = FALSE]

\* queryClient.clear(): every query leaves the cache, those with a fetch under
\* way included; the requests themselves are not aborted.
Cleared(calls) == /\ cache' = [v \in Views |-> None]
                  /\ user' = None
                  /\ call' = [c \in Calls |-> Dropped(calls[c])]
                  /\ early' = {} /\ missed' = {}
                  /\ sessions' = {} /\ disturbed' = 0

OpensAuth == page' = "auth" /\ mounted' = {} /\ UNCHANGED back

\* Where logout and ForbiddenInterceptor end: no cookie, no stored user, an
\* empty cache and the login page.
SignedOut(calls) == /\ cookie' = None /\ stored' = None
                    /\ OpensAuth
                    /\ Cleared(calls)
                    /\ UNCHANGED <<backend, acked>>
-----------------------------------------------------------------------------
(* The user *)

\* A navigation, to page v of the dashboard or, with v = List, to login or
\* signup: middleware.ts decides by the cookie alone.
OpenView(c, v) ==
  /\ call[c] = Idle
  /\ IF cookie = None THEN OpensAuth /\ UNCHANGED call ELSE Opens(c, v, cookie)
  /\ UNCHANGED <<backend, browser, user, cache, history>>

\* The filter tabs, and Back to a page the router still has, without
\* middleware.ts: that matters where there is no cookie.
Browse(c, v) ==
  /\ call[c] = Idle /\ cookie = None
  /\ back
  /\ Opens(c, v, None)
  /\ UNCHANGED <<backend, browser, user, cache, history>>

\* The refresh buttons, and React Query when the network is back.
Refresh(c, v) ==
  /\ call[c] = Idle
  /\ v \in mounted /\ ~Loading(v)
  /\ call' = [call EXCEPT ![c] = Fetch(v, cookie)]
  /\ UNCHANGED <<backend, browser, page, back, mounted, user, cache, history>>

\* The create form is there at once; the other mutations need a row to act on.
Mutate(c) ==
  /\ call[c] = Idle
  /\ \E v \in mounted : v = List \/ cache[v] # None
  /\ call' = [call EXCEPT ![c] = [Idle EXCEPT !.kind = "mutate", !.token = cookie]]
  /\ UNCHANGED <<backend, browser, page, back, mounted, user, cache, history>>

\* The button waits for the answer, but a form left and opened again does not.
SignIn(c, a) ==
  /\ call[c] = Idle
  /\ page = "auth"
  /\ call' = [call EXCEPT ![c] =
       [Idle EXCEPT !.kind = "login", !.data = [owner |-> a, version |-> 0]]]
  /\ UNCHANGED <<backend, browser, page, back, mounted, user, cache, history>>

SignUp(c) ==
  /\ call[c] = Idle
  /\ page = "auth"
  /\ call' = [call EXCEPT ![c] = [Idle EXCEPT !.kind = "register"]]
  /\ UNCHANGED <<backend, browser, page, back, mounted, user, cache, history>>

Logout == page = "dashboard" /\ SignedOut(call)

\* A full page load: nothing of the tab's memory is left, no request is
\* waited for, and the user is read from storage.
Reload(c) ==
  /\ IF cookie = None
     THEN /\ page' = "auth" /\ back' = FALSE /\ mounted' = {}
          /\ call' = [d \in Calls |-> Idle]
     ELSE \E v \in Views :
            /\ page' = "dashboard" /\ back' = TRUE /\ mounted' = {v}
            /\ call' = [d \in Calls |-> IF d = c THEN Fetch(v, cookie) ELSE Idle]
  /\ cache' = [v \in Views |-> None]
  /\ user' = stored
  /\ early' = {} /\ missed' = {} /\ disturbed' = 0
  /\ sessions' = IF cookie = None THEN {} ELSE {holder[cookie]}
  /\ UNCHANGED <<backend, browser, acked>>
-----------------------------------------------------------------------------
(* The backend *)

\* The token of a request matters until it is answered.
Answered(c, answer, data) ==
  [call EXCEPT ![c].answer = answer, ![c].token = None, ![c].data = data]

\* An answer that no query waits for has no further effect.
ServeFetch(c) ==
  LET a == holder[call[c].token]
  IN /\ call[c].kind = "fetch" /\ call[c].answer = "none"
     /\ call[c].token # None
     /\ call' = IF call[c].live
                THEN Answered(c, "ok", [owner |-> a, version |-> version[a]])
                ELSE [call EXCEPT ![c] = Idle]
     /\ UNCHANGED <<backend, browser, page, back, mounted, user, cache, history>>

ServeMutation(c) ==
  LET a == holder[call[c].token]
  IN /\ call[c].kind = "mutate" /\ call[c].answer = "none"
     /\ call[c].token # None
     /\ \A b \in Accounts : version[b] < MaxCommits
     /\ version' = [version EXCEPT ![a] = @ + 1]
     /\ call' = Answered(c, "ok", [owner |-> a, version |-> version[a] + 1])
     /\ UNCHANGED <<holder, browser, page, back, mounted, user, cache, history>>

\* The auth middleware answers 403: no token, or one that has expired.  It
\* looks at the token before the handler looks at the database, so a request
\* may be served after another with the same token was refused.
Refuse(c) ==
  /\ call[c].kind \in {"fetch", "mutate"} /\ call[c].answer = "none"
  /\ call[c].token \in Expires \cup {None}
  /\ call' = Answered(c, "refused", None)
  /\ UNCHANGED <<backend, browser, page, back, mounted, user, cache, history>>

ServeLogin(c) ==
  /\ call[c].kind = "login" /\ call[c].answer = "none"
  /\ Len(holder) < MaxTokens
  /\ holder' = Append(holder, call[c].data.owner)
  /\ call' = [call EXCEPT ![c].answer = "ok", ![c].token = Len(holder) + 1]
  /\ UNCHANGED <<version, browser, page, back, mounted, user, cache, history>>

\* The answer is the account, without a token.
ServeRegister(c) ==
  /\ call[c].kind = "register" /\ call[c].answer = "none"
  /\ call' = [call EXCEPT ![c].answer = "ok"]
  /\ UNCHANGED <<backend, browser, page, back, mounted, user, cache, history>>

\* retry: 1, for a query somebody looks at.
Retries(c) == call[c].live /\ ~call[c].again /\ call[c].view \in mounted

\* The last attempt of a query failed: an error is shown, and what was cached
\* counts as invalid.
Fails(v) ==
  /\ cache' = IF v # None /\ cache[v] # None THEN [cache EXCEPT ![v].invalid = TRUE] ELSE cache
  /\ missed' = missed \ {v}

\* A timeout, a broken connection, a 4xx other than 403 or a 5xx: an error is
\* shown, or the query waits a second for its second attempt.
Lose(c) ==
  /\ call[c].kind # "idle" /\ call[c].answer # "failed"
  /\ IF Retries(c) THEN call' = Answered(c, "failed", None) /\ UNCHANGED <<cache, missed>>
     ELSE call' = [call EXCEPT ![c] = Idle] /\ Fails(call[c].view)
  /\ early' = early \ {c}
  /\ UNCHANGED <<backend, browser, page, back, mounted, user, acked, sessions, disturbed>>
-----------------------------------------------------------------------------
(* The answers *)

FetchSucceeds(c) ==
  /\ call[c].kind = "fetch" /\ call[c].answer = "ok"
  /\ cache' = [cache EXCEPT ![call[c].view] = [data |-> call[c].data, invalid |-> FALSE]]
  /\ missed' = IF c \in early THEN missed \cup {call[c].view} ELSE missed \ {call[c].view}
  /\ early' = early \ {c}
  /\ call' = [call EXCEPT ![c] = Idle]
  /\ UNCHANGED <<backend, browser, page, back, mounted, user, acked, sessions, disturbed>>

\* After a pause of a second the query is fetched with the cookie of then.
Retry(c) ==
  /\ call[c].kind = "fetch" /\ call[c].answer = "failed"
  /\ Retries(c)
  /\ call' = [call EXCEPT ![c] = [Fetch(call[c].view, cookie) EXCEPT !.again = TRUE]]
  /\ early' = early \ {c}
  /\ UNCHANGED <<backend, browser, page, back, mounted, user, cache, acked, missed, sessions, disturbed>>

\* The view has left the screen during the pause.
GiveUp(c) ==
  /\ call[c].answer = "failed" /\ ~Retries(c)
  /\ call' = [call EXCEPT ![c] = Idle]
  /\ Fails(call[c].view)
  /\ early' = early \ {c}
  /\ UNCHANGED <<backend, browser, page, back, mounted, user, acked, sessions, disturbed>>

\* ForbiddenInterceptor.
Forbidden(c) ==
  /\ call[c].answer = "refused"
  /\ SignedOut([call EXCEPT ![c] = Idle])

\* A variant: invalidateQueries with cancelRefetch: false.
RefetchedIfIdle == {v \in mounted : ~Loading(v)}

\* The views an invalidation fetches again: those on the screen.  A fetch
\* under way is cancelled if the query has data, and joined if it has none.
Refetched == {v \in mounted : Loading(v) => cache[v] # None}

\* onSuccess of every mutation: invalidateQueries(CAMPAIGNS_KEY).
MutationSucceeds(c) ==
  /\ call[c].kind = "mutate" /\ call[c].answer = "ok"
  /\ cache' = [v \in Views |-> IF cache[v] = None THEN None
                               ELSE [cache[v] EXCEPT !.invalid = TRUE]]
  /\ call' = [d \in Calls |->
       IF d = c THEN IF Refetched = {} THEN Idle
                     ELSE Fetch(CHOOSE v \in Refetched : TRUE, cookie)
       ELSE IF call[d].view \in Refetched THEN Dropped(call[d]) ELSE call[d]]
  /\ acked' = [acked EXCEPT ![call[c].data.owner] =
                 IF @ < call[c].data.version THEN call[c].data.version ELSE @]
  /\ early' = {d \in Calls :
       call[d].live /\ (call[d].view \in mounted => cache[call[d].view] = None)}
  /\ missed' = {}
  /\ UNCHANGED <<backend, browser, page, back, mounted, user, sessions, disturbed>>

Disturbs == disturbed' = IF disturbed < MaxLapses THEN disturbed + 1 ELSE disturbed

\* onSuccess of the login: the cookie, the stored and the cached user are set,
\* and the campaigns page opens.  The cache of the views is not touched.
SignedIn(c) ==
  /\ call[c].kind = "login" /\ call[c].answer = "ok"
  /\ cookie' = call[c].token
  /\ stored' = call[c].data.owner /\ user' = call[c].data.owner
  /\ Opens(c, List, call[c].token)
  /\ sessions' = sessions \cup {call[c].data.owner}
  /\ UNCHANGED <<backend, cache, acked, early, missed, disturbed>>

\* onSuccess of the registration: the login page opens, unless the router asks
\* middleware.ts for it and that finds a session by now.
Registered(c) ==
  /\ call[c].kind = "register" /\ call[c].answer = "ok"
  /\ \/ OpensAuth /\ call' = [call EXCEPT ![c] = Idle]
     \/ cookie # None /\ Opens(c, List, cookie)
  /\ UNCHANGED <<backend, browser, user, cache, history>>
-----------------------------------------------------------------------------
(* The environment *)

\* gcTime: a view off the screen for five minutes is dropped.
Collect(v) ==
  /\ v \notin mounted /\ ~Loading(v) /\ cache[v] # None
  /\ cache' = [cache EXCEPT ![v] = None]
  /\ missed' = missed \ {v}
  /\ UNCHANGED <<backend, browser, page, back, mounted, user, call, acked, early, sessions, disturbed>>

\* expires: 1
Lapse ==
  /\ cookie # None /\ disturbed < MaxLapses
  /\ cookie' = None
  /\ Disturbs
  /\ UNCHANGED <<backend, stored, page, back, mounted, user, cache, call,
                 acked, early, missed, sessions>>

\* The same two events in another tab.
OtherTabSignsIn(a) ==
  /\ cookie = None /\ Len(holder) < MaxTokens
  /\ holder' = Append(holder, a)
  /\ cookie' = Len(holder) + 1 /\ stored' = a
  /\ sessions' = sessions \cup {a}
  /\ Disturbs
  /\ UNCHANGED <<version, page, back, mounted, user, cache, call, acked, early, missed>>

OtherTabSignsOut ==
  /\ cookie # None /\ disturbed < MaxLapses
  /\ cookie' = None /\ stored' = None
  /\ Disturbs
  /\ UNCHANGED <<backend, page, back, mounted, user, cache, call,
                 acked, early, missed, sessions>>

Acts(c) == \/ \E v \in Views : OpenView(c, v) \/ Browse(c, v) \/ Refresh(c, v)
           \/ Mutate(c) \/ Reload(c) \/ SignUp(c)
           \/ \E a \in Accounts : SignIn(c, a)

Answer(c) == ServeFetch(c) \/ ServeMutation(c) \/ Refuse(c) \/ ServeLogin(c)
             \/ ServeRegister(c) \/ Lose(c)

Deliver(c) == \/ FetchSucceeds(c) \/ Retry(c) \/ GiveUp(c) \/ Forbidden(c)
              \/ MutationSucceeds(c) \/ SignedIn(c) \/ Registered(c)

Next == \/ Logout
        \/ \E c \in Calls : Acts(c) \/ Answer(c) \/ Deliver(c)
        \/ \E v \in Views : Collect(v)
        \/ \E a \in Accounts : OtherTabSignsIn(a)
        \/ Lapse \/ OtherTabSignsOut

Spec == Init /\ [][Next]_vars
-----------------------------------------------------------------------------
(* Properties *)

\* What the tab shows is of its session, whatever answers of earlier sessions
\* still arrive and wherever Back leads.  The storage agrees with the cookie even
\* across tabs.  A view is never of a session that ended with a clear of the
\* cache: its account signed in since.  Where that is more than one account,
\* because a session lapsed, another tab came in or two sign-ins of this tab
\* overlapped, the view may be of any of them.  And while the cookie has not
\* changed behind the tab's back, the sidebar names the account that is signed
\* in, and without a session there is nothing to show.
TabShowsItsAccount ==
  /\ cookie # None => stored = holder[cookie]
  /\ \A v \in Views : cache[v] # None => cache[v].data.owner \in sessions
  /\ disturbed = 0 =>
       /\ page = "dashboard" \/ cookie # None =>
            user = IF cookie = None THEN None ELSE holder[cookie]
       /\ cookie = None => \A v \in Views : cache[v] = None

\* After a mutation is acknowledged no view that counts as fresh lacks it,
\* except one whose data came from a fetch that was already under way at that
\* moment and was its first load, or for a view the user had left.
FreshViewsShowOwnWrites ==
  \A v \in Views \ missed : cache[v] # None /\ ~cache[v].invalid =>
    cache[v].data.version >= acked[cache[v].data.owner]
=============================================================================

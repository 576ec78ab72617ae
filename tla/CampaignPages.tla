---------------------------- MODULE CampaignPages ----------------------------
(***************************************************************************)
(* The campaign pages of one tab with a valid session: the list with its   *)
(* filters and action menu, the page of one campaign, the React Query      *)
(* cache behind them and the requests in flight.  The create form of the   *)
(* list is in CreateForm.                                                  *)
(*                                                                         *)
(* The pages decide what to offer by what is cached; the server carries    *)
(* out whatever it is asked.  Between the two, other tabs change the same  *)
(* campaigns, answers are late or lost, and the user is on another page    *)
(* when they come.                                                         *)
(***************************************************************************)
EXTENDS CampaignStatus, Integers, Sequences, FiniteSets

CONSTANTS
  Ids,         \* the campaigns
  First,       \* the table at the beginning
  Filters,     \* the status filters used
  Wanted,      \* the statuses asked for
  Calls,       \* bound on the HTTP requests in flight
  MaxCommits,  \* bound on the changes of the table
  None

Table == [Ids -> Statuses \cup {None}]

ASSUME PagesAssumption ==
  /\ First \in Table
  /\ Filters \subseteq Statuses /\ Wanted \subseteq Statuses
  /\ MaxCommits \in Nat
  /\ None \notin Statuses \cup Ids
  /\ Ids \cap (Statuses \cup {"all"}) = {}

Lists == {"all"} \cup Filters
Views == Lists \cup Ids        \* the query keys under CAMPAIGNS_KEY
Versions == 0..MaxCommits + 1  \* of the table; 0 where there is no data

\* After a failure an error is shown, and data that is still cached, stale by
\* then, is hidden behind it.
Entry == [data : Versions, state : {"fresh", "invalid", "hidden", "error"}]

Changes == {"status", "delete"}

\* An axios request.  live: its answer is waited for; here: by a component that
\* is still mounted.  seen: the version shown by the view a change was asked
\* for on, if that view counted as fresh and no other change of the campaign by
\* this tab has been under way since.
Call == [kind : {"idle", "fetch"} \cup Changes, view : Views \cup {None},
         id : Ids \cup {None}, status : Statuses \cup {None},
         live : BOOLEAN, again : BOOLEAN, here : BOOLEAN, seen : Versions,
         answer : {"none", "ok"}, data : Versions]

VARIABLES
  tables,   \* the table at the beginning and after every change
  view,     \* the view on the screen
  menu,     \* openMenu of CampaignTable
  cache,    \* the cached views
  call,     \* the requests in flight
  others,   \* history: the newest change of a campaign this tab was not told of
  acked,    \* history: the newest version the tab was told of
  early,    \* history: the fetches under way at an acknowledged change which
            \* were for a view without data or off the screen
  missed    \* history: the views whose fresh data came from such a fetch

history == <<others, acked, early, missed>>
vars == <<tables, view, menu, cache, call, history>>

Idle == [kind |-> "idle", view |-> None, id |-> None, status |-> None,
         live |-> FALSE, again |-> FALSE, here |-> FALSE, seen |-> 0,
         answer |-> "none", data |-> 0]

Blank == [data |-> 0, state |-> "invalid"]

Now == tables[Len(tables)]
-----------------------------------------------------------------------------
(* What the pages show *)

Fetches(c, v) == call[c].kind = "fetch" /\ call[c].view = v

Loading(v) == \E c \in Calls : Fetches(c, v)

HasData(entry) == entry.data # 0 \/ entry.state = "hidden"

\* The table, or the campaign, is there.
Rendered(entry) == entry.data # 0

Cached(v) == tables[cache[v].data]

\* The campaigns of the view on the screen.
Rows == IF ~Rendered(cache[view]) THEN {}
        ELSE {i \in Ids : /\ Cached(view)[i] # None
                          /\ view \in Statuses => Cached(view)[i] = view
                          /\ view \in Ids => i = view}

Offers(v, s) == IF v \in Ids THEN PageOffers(s) ELSE MenuOffers(s)

\* A button with a spinner takes no click.
Busy(kind) == \E c \in Calls : call[c].kind = kind /\ call[c].here /\ call[c].live
-----------------------------------------------------------------------------
Fetch(v) == [Idle EXCEPT !.kind = "fetch", !.view = v]

Init ==
  /\ tables = <<First>>
  /\ view = "all" /\ menu = None
  /\ cache = [v \in Views |-> Blank]
  /\ \E c \in Calls : call = [d \in Calls |-> IF d = c THEN Fetch("all") ELSE Idle]
  /\ others = [i \in Ids |-> 1] /\ acked = 1
  /\ early = {} /\ missed = {}

\* The shapes; and no view has two fetches under way.
TypeOK ==
  /\ tables \in Seq(Table) /\ Len(tables) \in 1..MaxCommits + 1
  /\ view \in Views /\ menu \in Ids \cup {None}
  /\ cache \in [Views -> Entry]
  /\ call \in [Calls -> Call]
  /\ \A v \in Views : Cardinality({c \in Calls : Fetches(c, v)}) <= 1
  /\ others \in [Ids -> Versions] /\ acked \in Versions
  /\ early \in SUBSET Calls /\ missed \in SUBSET Views

Unseen(request) == [request EXCEPT !.view = None, !.seen = 0]

\* The components of the page that is left are unmounted.
Away(calls) == [c \in Calls |-> [calls[c] EXCEPT !.here = FALSE]]

\* View v comes to the screen: it is fetched when it has no data or stale
\* data, may be when its data is a minute old, and joins a fetch under way.
Shows(c, v, calls) ==
  /\ view' = v
  /\ \/ ~Loading(v) /\ call' = [calls EXCEPT ![c] = Fetch(v)]
     \/ (Loading(v) \/ cache'[v].state = "fresh") /\ call' = calls

\* The table keeps its menu as long as it is mounted.
MenuStays ==
  menu' = IF {view, view'} \subseteq Lists /\ Rendered(cache'[view']) THEN menu ELSE None
-----------------------------------------------------------------------------
(* The user *)

\* The filter tabs.
SelectFilter(c, v) ==
  /\ call[c] = Idle
  /\ view \in Lists /\ v \in Lists \ {view}
  /\ UNCHANGED <<tables, cache, history>>
  /\ Shows(c, v, call)
  /\ MenuStays

\* The name of a campaign in the table, the links back to the list, and the
\* history of the browser.
OpenPage(c, v) ==
  /\ call[c] = Idle
  /\ v \in ({"all"} \cup Ids) \ {view} /\ {v, view} \cap Ids # {}
  /\ UNCHANGED <<tables, cache, history>>
  /\ Shows(c, v, Away(call))
  /\ menu' = None

\* A variant: the fetch under way is not cancelled.
RefetchBeside(c) == [call EXCEPT ![c] = Fetch(view)]

\* A new fetch of the view begins, and the answer of one under way will be
\* ignored.
Refetch(c) ==
  [d \in Calls |-> IF d = c THEN Fetch(view) ELSE IF Fetches(d, view) THEN Idle ELSE call[d]]

\* Refresh and React Query when the network is back, which leave a fetch under
\* way alone, and Try again, which does not.
Refresh(c) ==
  /\ call[c] = Idle
  /\ Loading(view) => view \in Lists /\ cache[view].state = "hidden"
  /\ call' = Refetch(c)
  /\ early' = {d \in early : ~Fetches(d, view)}
  /\ UNCHANGED <<tables, view, menu, cache, others, acked, missed>>

\* handleTrigger, and the backdrop of the menu.
ToggleMenu(i) ==
  /\ view \in Lists /\ i \in Rows
  /\ menu' = IF menu = i THEN None ELSE i
  /\ UNCHANGED <<tables, view, cache, call, history>>

\* The buttons for campaign i are on the screen.
AtHand(i) == i \in Rows /\ (view \in Lists => menu = i)

\* A change of campaign i is sent; those under way are no longer alone.
Asks(c, i, request) ==
  /\ call[c] = Idle
  /\ LET rivals == {d \in Calls : call[d].id = i /\ call[d].live}
         alone == rivals = {} /\ cache[view].state = "fresh" /\ view \notin missed
     IN call' = [d \in Calls |->
          IF d = c THEN [request EXCEPT !.id = i, !.live = TRUE, !.view = view,
                                        !.seen = IF alone THEN cache[view].data ELSE 0]
          ELSE IF d \in rivals THEN Unseen(call[d]) ELSE call[d]]
  /\ menu' = None
  /\ UNCHANGED <<tables, view, cache, history>>

ChangeStatus(c, i, s) ==
  /\ AtHand(i) /\ s \in Offers(view, Cached(view)[i])
  /\ Asks(c, i, [Idle EXCEPT !.kind = "status", !.status = s])

\* The page of a campaign asks for confirmation and waits for the answer, the
\* menu does neither.
Delete(c, i) ==
  /\ AtHand(i) /\ ~Busy("delete")
  /\ Asks(c, i, [Idle EXCEPT !.kind = "delete", !.here = view \in Ids])
-----------------------------------------------------------------------------
(* The server *)

\* retry: 1, for a view somebody looks at.
Retries(c) == ~call[c].again /\ call[c].view = view

\* A variant: what the view had stays on the screen.
FailedQuietly(entry) == IF HasData(entry) THEN entry ELSE [entry EXCEPT !.state = "error"]

\* The last attempt failed: what the view had is flagged as stale and hidden.
Failed(entry) == [data |-> 0, state |-> IF HasData(entry) THEN "hidden" ELSE "error"]

Unanswered(c, kinds) == call[c].kind \in kinds /\ call[c].answer = "none"

\* GET of a list, and of a campaign that is there.
ServeFetch(c) ==
  /\ Unanswered(c, {"fetch"})
  /\ call[c].view \in Ids => Now[call[c].view] # None
  /\ call' = [call EXCEPT ![c].answer = "ok", ![c].data = Len(tables)]
  /\ UNCHANGED <<tables, view, menu, cache, history>>

\* 404, a timeout, a broken connection or a 5xx.  The second before the second
\* attempt is part of that attempt.
LoseFetch(c) ==
  /\ call[c].kind = "fetch"
  /\ call' = [call EXCEPT ![c] = IF Retries(c) THEN [Fetch(view) EXCEPT !.again = TRUE]
                                 ELSE Idle]
  /\ cache' = IF Retries(c) THEN cache ELSE [cache EXCEPT ![call[c].view] = Failed(@)]
  /\ early' = early \ {c}
  /\ missed' = IF Retries(c) THEN missed ELSE missed \ {call[c].view}
  /\ UNCHANGED <<tables, view, others, acked>>
  /\ MenuStays

Changed(i, s) == /\ Len(tables) <= MaxCommits
                 /\ tables' = Append(tables, [Now EXCEPT ![i] = s])

\* PATCH and DELETE are carried out whatever the pages show by now, and whether
\* or not somebody still waits.
Carried(c, i) ==
  /\ call' = [call EXCEPT ![c] = IF @.live THEN [Unseen(@) EXCEPT !.answer = "ok", !.data = Len(tables) + 1]
                                 ELSE Idle]
  /\ others' = IF call[c].live THEN others ELSE [others EXCEPT ![i] = Len(tables) + 1]
  /\ UNCHANGED <<view, menu, cache, acked, early, missed>>

ServeStatus(c) ==
  /\ Unanswered(c, {"status"}) /\ Now[call[c].id] # None
  /\ Changed(call[c].id, call[c].status)
  /\ Carried(c, call[c].id)

ServeDelete(c) ==
  /\ Unanswered(c, {"delete"}) /\ Now[call[c].id] # None
  /\ Changed(call[c].id, None)
  /\ Carried(c, call[c].id)

\* 404 for a campaign that is gone, 500: a toast.
Refuse(c) ==
  /\ Unanswered(c, Changes)
  /\ call' = [call EXCEPT ![c] = Idle]
  /\ UNCHANGED <<tables, view, menu, cache, history>>

\* The same toast when no answer comes in time, but the request may still be
\* carried out, or has been.
Lose(c) ==
  /\ call[c].kind \in Changes /\ call[c].live
  /\ call' = [call EXCEPT ![c] = IF @.answer = "ok" THEN Idle
                                 ELSE [Unseen(@) EXCEPT !.live = FALSE, !.here = FALSE]]
  /\ others' = IF call[c].answer = "ok" /\ others[call[c].id] < call[c].data
               THEN [others EXCEPT ![call[c].id] = call[c].data] ELSE others
  /\ UNCHANGED <<tables, view, menu, cache, acked, early, missed>>

\* Another tab or device of the user.
ChangeElsewhere(i) ==
  /\ Now[i] # None
  /\ \E s \in (Wanted \cup {None}) \ {Now[i]} : Changed(i, s)
  /\ others' = [others EXCEPT ![i] = Len(tables) + 1]
  /\ UNCHANGED <<view, menu, cache, call, acked, early, missed>>
-----------------------------------------------------------------------------
(* The answers *)

FetchSucceeds(c) ==
  /\ call[c].kind = "fetch" /\ call[c].answer = "ok"
  /\ cache' = [cache EXCEPT ![call[c].view] = [data |-> call[c].data, state |-> "fresh"]]
  /\ missed' = IF c \in early THEN missed \cup {call[c].view} ELSE missed \ {call[c].view}
  /\ early' = early \ {c}
  /\ call' = [call EXCEPT ![c] = Idle]
  /\ UNCHANGED <<tables, view, others, acked>>
  /\ MenuStays

\* The view an invalidation fetches again, unless it is in its first load.
Refetched == {v \in {view} : Loading(v) => HasData(cache[v])}

\* A variant: the exact key, and the view on the screen.
InvalidatedHere == [v \in Views |-> IF v = view THEN [cache[v] EXCEPT !.state = "invalid"]
                                    ELSE cache[v]]

\* invalidateQueries(CAMPAIGNS_KEY): every view is stale.
Invalidated == [v \in Views |-> IF cache[v].state = "fresh"
                                THEN [cache[v] EXCEPT !.state = "invalid"] ELSE cache[v]]

Acknowledged(c) ==
  /\ call[c].kind \in Changes /\ call[c].answer = "ok"
  /\ cache' = Invalidated
  /\ acked' = IF acked < call[c].data THEN call[c].data ELSE acked
  /\ early' = {d \in Calls : call[d].kind = "fetch" /\ (Fetches(d, view) => ~HasData(cache[view]))}
  /\ missed' = {}
  /\ UNCHANGED <<tables, others>>

\* The requests after an invalidation for which slot c is free.
AfterInvalidation(c) == IF Refetched = {} THEN [call EXCEPT ![c] = Idle] ELSE Refetch(c)

\* onSuccess of the hooks.
ChangeSucceeds(c) ==
  /\ ~(call[c].kind = "delete" /\ call[c].here)
  /\ Acknowledged(c)
  /\ call' = AfterInvalidation(c)
  /\ UNCHANGED view
  /\ MenuStays

\* onSuccess of handleDelete: the page that was about the campaign fetches it
\* once more and goes back to the list.
DeleteLeaves(c, d) ==
  /\ call[c].kind = "delete" /\ call[c].here
  /\ c # d /\ call[d] = Idle
  /\ Acknowledged(c)
  /\ Shows(d, "all", Away(AfterInvalidation(c)))
  /\ UNCHANGED menu

Acts(c) == \/ \E v \in Views : SelectFilter(c, v) \/ OpenPage(c, v)
           \/ Refresh(c)
           \/ \E i \in Ids : Delete(c, i) \/ \E s \in Wanted : ChangeStatus(c, i, s)

Answer(c) == ServeFetch(c) \/ LoseFetch(c) \/ ServeStatus(c) \/ ServeDelete(c)
             \/ Refuse(c) \/ Lose(c)

Deliver(c) == FetchSucceeds(c) \/ ChangeSucceeds(c) \/ \E d \in Calls : DeleteLeaves(c, d)

Next == \/ \E c \in Calls : Acts(c) \/ Answer(c) \/ Deliver(c)
        \/ \E i \in Ids : ToggleMenu(i) \/ ChangeElsewhere(i)

Spec == Init /\ [][Next]_vars
-----------------------------------------------------------------------------
(* Properties *)

\* What is on the screen and not being fetched shows the tab's own
\* acknowledged changes, except where the data came from a fetch that was under
\* way at the acknowledgement and was a first load, or for a view the user had
\* left: a view that could not be refreshed shows the error instead.
ScreenShowsOwnWrites ==
  Rendered(cache[view]) /\ ~Loading(view) /\ view \notin missed => cache[view].data >= acked

\* A transition clicked on a view that counted as fresh, with no other change
\* of the campaign by this tab under way before it is carried out and none by
\* others that the view did not show, is one the buttons of that view offer
\* for the status the campaign has when the server carries it out.  It says
\* nothing of the lifecycle the repository documents, which has fewer
\* transitions than the buttons: see the comment of
\* MenuOffers in CampaignStatus.
TransitionsWereOffered ==
  [][\A c \in Calls :
       /\ call[c].kind = "status" /\ call[c].answer = "none" /\ call'[c].answer = "ok"
       /\ call[c].seen # 0 /\ others[call[c].id] <= call[c].seen
       => call[c].status \in Offers(call[c].view, Now[call[c].id])]_vars
=============================================================================

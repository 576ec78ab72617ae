------------------------- MODULE CampaignPagesProofs -------------------------
(***************************************************************************)
(* What holds of CampaignStatus, and of CampaignPages for any number of    *)
(* campaigns, filters, requests and changes.                               *)
(***************************************************************************)
EXTENDS CampaignPages, SequenceTheorems, FiniteSetTheorems, TLAPS

(* What the menu of the table offers (CampaignTable.tsx) is what the page of *)
(* the campaign offers ([id]/page.tsx) and two transitions more: to complete *)
(* any campaign that is not, and to activate an archived one.  Neither       *)
(* offers the status a campaign has.                                         *)
THEOREM OffersCompared ==
  ASSUME NEW s \in Statuses
  PROVE  /\ MenuOffers(s) = PageOffers(s)
                            \cup (IF s # "completed" THEN {"completed"} ELSE {})
                            \cup (IF s = "archived" THEN {"active"} ELSE {})
         /\ "completed" \notin PageOffers(s)
         /\ s = "archived" => PageOffers(s) = {}
         /\ s \notin MenuOffers(s)
BY DEF Statuses, PageOffers, MenuOffers

(* The pipeline and the buttons of the page tell the same story: a stage is  *)
(* shown as paused exactly when Resume is offered, as running exactly when   *)
(* Pause is, and all are complete exactly when the download is offered.      *)
THEOREM PipelineMatchesButtons ==
  ASSUME NEW s \in Statuses
  PROVE  /\ (\E k \in Stages : StageStatus(s, k) = "paused") <=> "active" \in PageOffers(s)
         /\ (\E k \in Stages : StageStatus(s, k) = "current") <=> "paused" \in PageOffers(s)
         /\ (\A k \in Stages : StageStatus(s, k) = "completed") <=> Downloadable(s)
<1>1. CurrentIdx(s) \in Stages
    BY DEF Statuses, CurrentIdx, Stages
<1>2. ASSUME NEW k \in Stages
      PROVE  /\ StageStatus(s, k) = "paused" <=> s = "paused" /\ k = 1
             /\ StageStatus(s, k) = "current" <=> s = "active" /\ k = 2
             /\ Downloadable(s) => StageStatus(s, k) = "completed"
             /\ ~Downloadable(s) /\ k = 6 => StageStatus(s, k) = "pending"
    BY DEF Statuses, StageStatus, CurrentIdx, Stages, Downloadable
<1>3. 1 \in Stages /\ 2 \in Stages /\ 6 \in Stages
    BY DEF Stages
<1>4. ("active" \in PageOffers(s) <=> s = "paused") /\ ("paused" \in PageOffers(s) <=> s = "active")
    BY DEF Statuses, PageOffers
<1> QED
    BY <1>2, <1>3, <1>4

-----------------------------------------------------------------------------
(* Shapes *)

\* A change names a campaign, a fetch a view; only changes are waited for.
Sent == {x \in Call : /\ x.kind \in Changes => x.id \in Ids
                      /\ x.kind \notin Changes => x.live = FALSE
                      /\ x.kind = "fetch" => x.view \in Views}

Shape ==
  /\ tables \in Seq(Table) /\ Len(tables) \in 1..MaxCommits + 1
  /\ view \in Views /\ menu \in Ids \cup {None}
  /\ cache \in [Views -> Entry]
  /\ call \in [Calls -> Sent]
  /\ others \in [Ids -> Versions] /\ acked \in Versions
  /\ early \in SUBSET Calls /\ missed \in SUBSET Views

LEMMA NewCalls ==
  /\ Idle \in Sent /\ Idle.kind = "idle"
  /\ \A v \in Views : /\ Fetch(v) \in Sent
                      /\ Fetch(v).kind = "fetch" /\ Fetch(v).view = v
                      /\ Fetch(v).answer = "none"
                      /\ [Fetch(v) EXCEPT !.again = TRUE] \in Sent
                      /\ [Fetch(v) EXCEPT !.again = TRUE].kind = "fetch"
                      /\ [Fetch(v) EXCEPT !.again = TRUE].view = v
                      /\ [Fetch(v) EXCEPT !.again = TRUE].answer = "none"
<1>1. 0 \in Versions
    BY PagesAssumption DEF Versions
<1>2. Idle \in Sent /\ Idle.kind = "idle"
    BY <1>1 DEF Idle, Call, Sent, Changes
<1>3. ASSUME NEW v \in Views
      PROVE  /\ Fetch(v) \in Call
             /\ Fetch(v).kind = "fetch" /\ Fetch(v).view = v
             /\ Fetch(v).answer = "none" /\ Fetch(v).live = FALSE
    BY <1>1 DEF Fetch, Idle, Call
<1>4. ASSUME NEW x \in Call
      PROVE  /\ [x EXCEPT !.again = TRUE] \in Call
             /\ [x EXCEPT !.again = TRUE].kind = x.kind /\ [x EXCEPT !.again = TRUE].view = x.view
             /\ [x EXCEPT !.again = TRUE].answer = x.answer /\ [x EXCEPT !.again = TRUE].live = x.live
    BY DEF Call
<1>5. ASSUME NEW v \in Views
      PROVE  /\ Fetch(v) \in Sent
             /\ Fetch(v).kind = "fetch" /\ Fetch(v).view = v
             /\ Fetch(v).answer = "none"
             /\ [Fetch(v) EXCEPT !.again = TRUE] \in Sent
             /\ [Fetch(v) EXCEPT !.again = TRUE].kind = "fetch"
             /\ [Fetch(v) EXCEPT !.again = TRUE].view = v
             /\ [Fetch(v) EXCEPT !.again = TRUE].answer = "none"
    <2>1. /\ Fetch(v) \in Call
          /\ Fetch(v).kind = "fetch" /\ Fetch(v).view = v
          /\ Fetch(v).answer = "none" /\ Fetch(v).live = FALSE
        BY <1>3
    <2> DEFINE x == [Fetch(v) EXCEPT !.again = TRUE]
    <2>2. x \in Call /\ x.kind = "fetch" /\ x.view = v /\ x.answer = "none" /\ x.live = FALSE
        BY <2>1, <1>4
    <2>3. Fetch(v) \in Sent
        BY <2>1 DEF Sent, Changes
    <2> HIDE DEF x
    <2>4. x \in Sent
        BY <2>2 DEF Sent, Changes
    <2> QED
        BY <2>1, <2>2, <2>3, <2>4 DEF x
<1> QED
    BY <1>2, <1>5

LEMMA Requests ==
  /\ \A s \in Statuses : /\ [Idle EXCEPT !.kind = "status", !.status = s] \in Call
                         /\ [Idle EXCEPT !.kind = "status", !.status = s].kind = "status"
  /\ \A b \in BOOLEAN : /\ [Idle EXCEPT !.kind = "delete", !.here = b] \in Call
                        /\ [Idle EXCEPT !.kind = "delete", !.here = b].kind = "delete"
  /\ {"status", "delete"} \subseteq Changes
<1>1. 0 \in Versions
    BY PagesAssumption DEF Versions
<1>2. ASSUME NEW s \in Statuses
      PROVE  /\ [Idle EXCEPT !.kind = "status", !.status = s] \in Call
             /\ [Idle EXCEPT !.kind = "status", !.status = s].kind = "status"
    BY <1>1 DEF Idle, Call, Changes
<1>3. ASSUME NEW b \in BOOLEAN
      PROVE  /\ [Idle EXCEPT !.kind = "delete", !.here = b] \in Call
             /\ [Idle EXCEPT !.kind = "delete", !.here = b].kind = "delete"
    BY <1>1 DEF Idle, Call, Changes
<1> QED
    BY <1>2, <1>3 DEF Changes

LEMMA UnseenCall ==
  ASSUME NEW x \in Sent, x.kind \in Changes
  PROVE  /\ Unseen(x) \in Sent
         /\ Unseen(x).kind = x.kind /\ Unseen(x).live = x.live /\ Unseen(x).here = x.here
         /\ Unseen(x).answer = x.answer /\ Unseen(x).data = x.data /\ Unseen(x).id = x.id
<1>1. 0 \in Versions
    BY PagesAssumption DEF Versions
<1>2. x \in Call /\ x.id \in Ids
    BY DEF Sent
<1>3. /\ Unseen(x).kind = x.kind /\ Unseen(x).live = x.live /\ Unseen(x).here = x.here
      /\ Unseen(x).answer = x.answer /\ Unseen(x).data = x.data /\ Unseen(x).id = x.id
    BY <1>2 DEF Unseen, Call
<1>4. Unseen(x) \in Call
    BY <1>1, <1>2 DEF Unseen, Call
<1> QED
    BY <1>2, <1>3, <1>4 DEF Sent, Changes

LEMMA Pages == /\ "all" \in Views /\ Lists \subseteq Views /\ Ids \subseteq Views
               /\ Versions \subseteq Nat /\ 0 \in Versions /\ 1 \in Versions
BY PagesAssumption DEF Views, Lists, Versions

LEMMA ChangedTables ==
  ASSUME Shape, NEW i \in Ids, NEW s \in Statuses \cup {None}, Changed(i, s)
  PROVE  /\ tables' \in Seq(Table) /\ Len(tables') = Len(tables) + 1
         /\ Len(tables') \in 1..MaxCommits + 1
         /\ Len(tables) + 1 \in Versions
<1>1. Now \in Table
    BY ElementOfSeq DEF Shape, Now
<1>2. [Now EXCEPT ![i] = s] \in Table
    BY <1>1 DEF Table
<1> QED
    BY <1>2, AppendProperties, PagesAssumption DEF Shape, Changed, Versions

LEMMA MenuType ==
  ASSUME Shape, MenuStays
  PROVE  menu' \in Ids \cup {None}
BY DEF Shape, MenuStays

LEMMA AwayType ==
  ASSUME NEW calls \in [Calls -> Sent]
  PROVE  /\ Away(calls) \in [Calls -> Sent]
         /\ \A c \in Calls : /\ Away(calls)[c].kind = calls[c].kind
                             /\ Away(calls)[c].view = calls[c].view
                             /\ Away(calls)[c].answer = calls[c].answer
                             /\ Away(calls)[c].data = calls[c].data
                             /\ Away(calls)[c].live = calls[c].live
                             /\ ~Away(calls)[c].here
BY DEF Away, Call, Sent

LEMMA RefetchType ==
  ASSUME Shape, NEW c \in Calls
  PROVE  /\ Refetch(c) \in [Calls -> Sent]
         /\ Refetch(c)[c] = Fetch(view)
         /\ \A d \in Calls \ {c} : Refetch(c)[d] = IF Fetches(d, view) THEN Idle ELSE call[d]
BY NewCalls DEF Refetch, Shape

LEMMA InvalidatedType ==
  ASSUME Shape
  PROVE  /\ Invalidated \in [Views -> Entry]
         /\ \A v \in Views : /\ Invalidated[v].state # "fresh"
                             /\ Invalidated[v].data = cache[v].data
                             /\ cache[v].state # "fresh" => Invalidated[v] = cache[v]
                             /\ cache[v].state = "fresh" => Invalidated[v].state = "invalid"
BY DEF Shape, Invalidated, Entry

LEMMA AfterInvalidationType ==
  ASSUME Shape, NEW c \in Calls
  PROVE  AfterInvalidation(c) \in [Calls -> Sent]
BY NewCalls, RefetchType DEF AfterInvalidation, Shape

LEMMA ShowsType ==
  ASSUME NEW c \in Calls, NEW v \in Views, NEW calls \in [Calls -> Sent], Shows(c, v, calls)
  PROVE  call' \in [Calls -> Sent] /\ view' = v
BY NewCalls DEF Shows

LEMMA ShapeInit == Init => Shape
<1> SUFFICES ASSUME Init PROVE Shape
    OBVIOUS
<1>1. tables \in Seq(Table) /\ Len(tables) = 1
    BY PagesAssumption DEF Init
<1>2. cache \in [Views -> Entry]
    BY Pages DEF Init, Blank, Entry
<1>3. call \in [Calls -> Sent]
    <2>1. PICK c \in Calls : call = [d \in Calls |-> IF d = c THEN Fetch("all") ELSE Idle]
        BY DEF Init
    <2> QED
        BY <2>1, Pages, NewCalls
<1>4. 1 \in 1..MaxCommits + 1
    BY PagesAssumption
<1> QED
    BY <1>1, <1>2, <1>3, <1>4, Pages DEF Init, Shape

LEMMA ShapeNext == Shape /\ [Next]_vars => Shape'
<1> SUFFICES ASSUME Shape, [Next]_vars
             PROVE  Shape'
    OBVIOUS
<1>1. ASSUME NEW c \in Calls, NEW v \in Views, SelectFilter(c, v) PROVE Shape'
    BY <1>1, ShowsType, MenuType DEF SelectFilter, Shape, history
<1>2. ASSUME NEW c \in Calls, NEW v \in Views, OpenPage(c, v) PROVE Shape'
    BY <1>2, ShowsType, AwayType DEF OpenPage, Shape, history
<1>3. ASSUME NEW c \in Calls, Refresh(c) PROVE Shape'
    BY <1>3, RefetchType DEF Refresh, Shape
<1>4. ASSUME NEW i \in Ids, ToggleMenu(i) PROVE Shape'
    BY <1>4 DEF ToggleMenu, Shape, history
<1>5. ASSUME NEW c \in Calls, NEW i \in Ids, NEW request \in Call, request.kind \in Changes,
             Asks(c, i, request)
      PROVE  Shape'
    <2>1. \A d \in Calls : call'[d] \in Sent
        <3>1. \A d \in Calls \ {c} : call'[d] = call[d] \/ (call[d].live /\ call'[d] = Unseen(call[d]))
            BY <1>5 DEF Asks
        <3>2. call'[c] \in Sent
            <4>1. \E n \in Versions :
                    call'[c] = [request EXCEPT !.id = i, !.live = TRUE, !.view = view, !.seen = n]
                BY <1>5, Pages DEF Asks, Shape, Entry
            <4> QED
                BY <1>5, <4>1 DEF Call, Sent, Shape
        <3>3. \A d \in Calls : call[d].live => call[d].kind \in Changes
            BY DEF Shape, Sent
        <3> QED
            BY <3>1, <3>2, <3>3, UnseenCall DEF Shape
    <2>2. call' \in [Calls -> Sent]
        BY <1>5, <2>1 DEF Asks
    <2> QED
        BY <1>5, <2>2 DEF Asks, Shape, history
<1>6. ASSUME NEW c \in Calls, NEW i \in Ids, NEW s \in Wanted, ChangeStatus(c, i, s)
      PROVE  Shape'
    BY <1>5, <1>6, Requests, PagesAssumption DEF ChangeStatus
<1>7. ASSUME NEW c \in Calls, NEW i \in Ids, Delete(c, i) PROVE Shape'
    <2> DEFINE onPage == view \in Ids
    <2>1. onPage \in BOOLEAN
        OBVIOUS
    <2>2. Asks(c, i, [Idle EXCEPT !.kind = "delete", !.here = onPage])
        BY <1>7 DEF Delete
    <2> HIDE DEF onPage
    <2> QED
        BY <1>5, <2>1, <2>2, Requests
<1>8. ASSUME NEW c \in Calls, ServeFetch(c) PROVE Shape'
    <2>1. Len(tables) \in Versions /\ call[c] \in Sent
        BY PagesAssumption DEF Shape, Versions
    <2>2. [call[c] EXCEPT !.answer = "ok", !.data = Len(tables)] \in Sent
        BY <2>1 DEF Sent, Call
    <2>3. call' = [call EXCEPT ![c] = [call[c] EXCEPT !.answer = "ok", !.data = Len(tables)]]
        BY <1>8, <2>1 DEF ServeFetch, Shape
    <2>4. call' \in [Calls -> Sent]
        BY <2>2, <2>3 DEF Shape
    <2> QED
        BY <1>8, <2>4 DEF ServeFetch, Shape, history
<1>9. ASSUME NEW c \in Calls, LoseFetch(c) PROVE Shape'
    <2>1. call' \in [Calls -> Sent]
        BY <1>9, NewCalls DEF LoseFetch, Shape
    <2>2. \A e \in Entry : Failed(e) \in Entry
        BY Pages DEF Failed, Entry
    <2>3. cache' \in [Views -> Entry]
        BY <1>9, <2>2 DEF LoseFetch, Shape
    <2>4. early' \in SUBSET Calls /\ missed' \in SUBSET Views
        BY <1>9 DEF LoseFetch, Shape
    <2> QED
        BY <1>9, <2>1, <2>3, <2>4, MenuType DEF LoseFetch, Shape
<1>10. ASSUME NEW c \in Calls, NEW i \in Ids, NEW s \in Statuses \cup {None},
              call[c].kind \in Changes, Changed(i, s), Carried(c, i)
       PROVE  Shape'
    <2>1. /\ tables' \in Seq(Table) /\ Len(tables') \in 1..MaxCommits + 1
          /\ Len(tables) + 1 \in Versions
        BY <1>10, ChangedTables
    <2>2. Unseen(call[c]) \in Sent
        BY <1>10, UnseenCall DEF Shape
    <2>3. [Unseen(call[c]) EXCEPT !.answer = "ok", !.data = Len(tables) + 1] \in Sent
        BY <2>1, <2>2 DEF Call, Sent
    <2>4. call' \in [Calls -> Sent]
        BY <1>10, <2>3, NewCalls DEF Carried, Shape
    <2>5. others' \in [Ids -> Versions]
        BY <1>10, <2>1 DEF Carried, Shape
    <2> QED
        BY <1>10, <2>1, <2>4, <2>5 DEF Carried, Shape
<1>11. ASSUME NEW c \in Calls, ServeStatus(c) \/ ServeDelete(c) PROVE Shape'
    <2>1. call[c].id \in Ids /\ call[c].status \in Statuses \cup {None}
        BY <1>11, PagesAssumption DEF ServeStatus, ServeDelete, Unanswered, Changes, Shape, Call, Sent
    <2> QED
        BY <1>10, <1>11, <2>1 DEF ServeStatus, ServeDelete, Unanswered, Changes
<1>12. ASSUME NEW c \in Calls, Refuse(c) PROVE Shape'
    BY <1>12, NewCalls DEF Refuse, Shape, history
<1>13. ASSUME NEW c \in Calls, Lose(c) PROVE Shape'
    <2>1. Unseen(call[c]) \in Sent
        BY <1>13, UnseenCall DEF Lose, Shape
    <2>2. [Unseen(call[c]) EXCEPT !.live = FALSE, !.here = FALSE] \in Sent
        BY <2>1 DEF Call, Sent
    <2>3. call' \in [Calls -> Sent]
        BY <1>13, <2>2, NewCalls DEF Lose, Shape
    <2>4. call[c].data \in Versions
        BY DEF Shape, Call, Sent
    <2>5. others' \in [Ids -> Versions]
        BY <1>13, <2>4 DEF Lose, Shape
    <2> QED
        BY <1>13, <2>3, <2>5 DEF Lose, Shape
<1>14. ASSUME NEW i \in Ids, ChangeElsewhere(i) PROVE Shape'
    <2>1. PICK s \in (Wanted \cup {None}) \ {Now[i]} : Changed(i, s)
        BY <1>14 DEF ChangeElsewhere
    <2>2. /\ tables' \in Seq(Table) /\ Len(tables') \in 1..MaxCommits + 1
          /\ Len(tables) + 1 \in Versions
        BY <2>1, ChangedTables, PagesAssumption
    <2>3. others' \in [Ids -> Versions]
        BY <1>14, <2>2 DEF ChangeElsewhere, Shape
    <2> QED
        BY <1>14, <2>2, <2>3 DEF ChangeElsewhere, Shape
<1>15. ASSUME NEW c \in Calls, FetchSucceeds(c) PROVE Shape'
    <2>1. call[c] \in Sent /\ call[c].data \in Versions
        BY DEF Shape, Call, Sent
    <2>2. [data |-> call[c].data, state |-> "fresh"] \in Entry
        BY <2>1 DEF Entry
    <2>3. call' \in [Calls -> Sent]
        BY <1>15, NewCalls DEF FetchSucceeds, Shape
    <2>4. cache' \in [Views -> Entry]
        BY <1>15, <2>2 DEF FetchSucceeds, Shape
    <2>5. early' \in SUBSET Calls
        BY <1>15 DEF FetchSucceeds, Shape
    <2> QED
        BY <1>15, <2>3, <2>4, <2>5, MenuType DEF FetchSucceeds, Shape
<1>16. ASSUME NEW c \in Calls, Acknowledged(c),
              view' \in Views, menu' \in Ids \cup {None}, call' \in [Calls -> Sent]
       PROVE  Shape'
    <2>1. call[c].data \in Versions
        BY DEF Shape, Call, Sent
    <2> QED
        BY <1>16, <2>1, InvalidatedType DEF Acknowledged, Shape
<1>17. ASSUME NEW c \in Calls, ChangeSucceeds(c) PROVE Shape'
    BY <1>16, <1>17, AfterInvalidationType, MenuType DEF ChangeSucceeds, Shape
<1>18. ASSUME NEW c \in Calls, NEW d \in Calls, DeleteLeaves(c, d) PROVE Shape'
    <2>1. Away(AfterInvalidation(c)) \in [Calls -> Sent]
        BY AfterInvalidationType, AwayType
    <2>2. call' \in [Calls -> Sent] /\ view' = "all"
        BY <1>18, <2>1, Pages, ShowsType DEF DeleteLeaves
    <2> QED
        BY <1>16, <1>18, <2>2, Pages DEF DeleteLeaves, Shape
<1>19. CASE UNCHANGED vars
    BY <1>19 DEF vars, history, Shape
<1> QED
    BY <1>1, <1>2, <1>3, <1>4, <1>6, <1>7, <1>8, <1>9, <1>11, <1>12, <1>13, <1>14,
       <1>15, <1>17, <1>18, <1>19 DEF Next, Acts, Answer, Deliver
-----------------------------------------------------------------------------
(* The screen *)

Single == \A c, d \in Calls : call[c].kind = "fetch" /\ Fetches(d, call[c].view) => c = d
Refetching == cache[view].state = "invalid" => Loading(view)
FreshIsNew == \A v \in Views \ missed : cache[v].state = "fresh" => cache[v].data >= acked
AnswersAreNew ==
  \A c \in Calls \ early : call[c].kind = "fetch" /\ call[c].answer = "ok" => call[c].data >= acked
InTime == /\ acked <= Len(tables)
          /\ \A c \in Calls : call[c].answer = "ok" => call[c].data <= Len(tables)
Shown == \A v \in Views : Rendered(cache[v]) => cache[v].state \in {"fresh", "invalid"}
HereOnPage == \A c \in Calls : call[c].kind = "delete" /\ call[c].here => view \in Ids

PagesInv == /\ Shape /\ Single /\ Refetching /\ FreshIsNew /\ AnswersAreNew
            /\ InTime /\ Shown /\ HereOnPage

LEMMA PagesInvInit == Init => PagesInv
<1> SUFFICES ASSUME Init PROVE PagesInv
    OBVIOUS
<1>1. Shape
    BY ShapeInit
<1>2. PICK c \in Calls : call = [d \in Calls |-> IF d = c THEN Fetch("all") ELSE Idle]
    BY DEF Init
<1>3. /\ call[c].kind = "fetch" /\ call[c].view = "all" /\ call[c].answer = "none"
      /\ \A d \in Calls \ {c} : call[d] = Idle
    BY <1>2, Pages, NewCalls
<1>4. call[c].here = FALSE /\ Idle.here = FALSE /\ Idle.answer = "none" /\ Idle.kind = "idle"
    BY <1>2 DEF Fetch, Idle
<1>5. Single /\ AnswersAreNew /\ HereOnPage
    BY <1>3, <1>4 DEF Single, Fetches, AnswersAreNew, HereOnPage
<1>6. Refetching
    BY <1>3 DEF Init, Refetching, Loading, Fetches
<1>7. FreshIsNew /\ Shown
    BY DEF Init, Blank, FreshIsNew, Shown, Rendered
<1>8. InTime
    BY <1>3, <1>4 DEF Init, InTime
<1> QED
    BY <1>1, <1>5, <1>6, <1>7, <1>8 DEF PagesInv

(* A step that leaves the fetches, the cache and the screen alone. *)
LEMMA Quiet ==
  ASSUME PagesInv, Shape', view' = view, cache' = cache, acked' = acked,
         early' = early, missed' = missed, Len(tables') >= Len(tables),
         \A d \in Calls : /\ call[d].kind = "fetch" => call'[d] = call[d]
                          /\ call'[d].kind = "fetch" => call'[d] = call[d]
                          /\ call'[d].answer = "ok" =>
                               \/ call[d].answer = "ok" /\ call'[d].data = call[d].data
                               \/ call'[d].data <= Len(tables')
                          /\ call'[d].kind = "delete" /\ call'[d].here => view \in Ids
  PROVE  PagesInv'
<1>1. Single' /\ Refetching'
    BY DEF PagesInv, Single, Refetching, Loading, Fetches
<1>2. FreshIsNew' /\ AnswersAreNew' /\ Shown' /\ HereOnPage'
    BY DEF PagesInv, FreshIsNew, AnswersAreNew, Shown, HereOnPage
<1>3. /\ Len(tables) \in Nat /\ Len(tables') \in Nat /\ acked \in Nat
      /\ \A d \in Calls : call[d].data \in Nat /\ call'[d].data \in Nat
    BY Pages, LenProperties DEF PagesInv, Shape, Sent, Call
<1>4. InTime'
    BY <1>3 DEF PagesInv, InTime
<1> QED
    BY <1>1, <1>2, <1>4 DEF PagesInv

LEMMA Types ==
  ASSUME Shape
  PROVE  /\ Len(tables) \in Nat /\ acked \in Nat
         /\ \A c \in Calls : call[c] \in Sent /\ call[c].data \in Nat
         /\ \A v \in Views : cache[v] \in Entry /\ cache[v].data \in Nat
BY Pages, LenProperties DEF Shape, Sent, Call, Entry

(* Another view comes to the screen, and a component leaves it. *)
LEMMA Turned ==
  ASSUME PagesInv, Shape', NEW c \in Calls, NEW v \in Views, NEW calls \in [Calls -> Sent],
         call[c] = Idle, Shows(c, v, calls),
         \A d \in Calls : /\ calls[d].kind = call[d].kind /\ calls[d].view = call[d].view
                          /\ calls[d].answer = call[d].answer /\ calls[d].data = call[d].data
                          /\ calls[d].kind = "delete" /\ calls[d].here => v \in Ids,
         UNCHANGED <<tables, cache, acked, early, missed>>
  PROVE  PagesInv'
<1>1. /\ \A d \in Calls \ {c} : call'[d] = calls[d]
      /\ \/ /\ ~Loading(v) /\ call'[c] = Fetch(v)
            /\ Fetch(v).kind = "fetch" /\ Fetch(v).view = v /\ Fetch(v).answer = "none"
         \/ (Loading(v) \/ cache[v].state = "fresh") /\ call'[c] = calls[c]
      /\ view' = v /\ call[c].kind = "idle" /\ "idle" # "fetch"
    BY NewCalls DEF Shows
<1>2. Single'
    BY <1>1 DEF PagesInv, Single, Loading, Fetches
<1>3. Refetching'
    BY <1>1 DEF Refetching, Loading, Fetches
<1>4. FreshIsNew' /\ Shown'
    BY DEF PagesInv, FreshIsNew, Shown
<1>5. AnswersAreNew' /\ InTime'
    BY <1>1 DEF PagesInv, AnswersAreNew, InTime
<1>6. HereOnPage'
    BY <1>1 DEF HereOnPage
<1> QED
    BY <1>2, <1>3, <1>4, <1>5, <1>6 DEF PagesInv

(* After an acknowledgement the view on the screen is being fetched, once, by  *)
(* a request that is not early only if it is new.                              *)
LEMMA Invalidating ==
  ASSUME PagesInv, NEW c \in Calls, Acknowledged(c)
  PROVE  LET calls == AfterInvalidation(c) IN
         /\ calls \in [Calls -> Sent]
         /\ \A d \in Calls \ {c} : /\ calls[d] = call[d] \/ calls[d] = Idle
                                   /\ ~Fetches(d, view) => calls[d] = call[d]
                                   /\ calls[d].kind = "fetch" => d \in early'
         /\ calls[c].kind = "fetch" => calls[c].view = view
         /\ calls[c].answer = "none" /\ calls[c].here = FALSE
         /\ calls[c].kind \in {"idle", "fetch"}
         /\ \A d, e \in Calls : calls[d].kind = "fetch" /\ calls[e].kind = "fetch"
                /\ calls[d].view = calls[e].view => d = e
         /\ \E d \in Calls : calls[d].kind = "fetch" /\ calls[d].view = view
<1> DEFINE calls == AfterInvalidation(c)
<1>1. /\ Idle.kind = "idle" /\ Idle.answer = "none" /\ Idle.here = FALSE
      /\ Fetch(view).kind = "fetch" /\ Fetch(view).view = view
      /\ Fetch(view).answer = "none" /\ Fetch(view).here = FALSE
    <2>1. Idle.kind = "idle" /\ Idle.answer = "none" /\ Idle.here = FALSE
        BY DEF Idle
    <2>2. Fetch(view).here = FALSE
        BY DEF Fetch, Idle
    <2> QED
        BY <2>1, <2>2, NewCalls DEF PagesInv, Shape
<1>2. call[c].kind # "fetch" /\ call[c].kind # "idle"
    BY DEF Acknowledged, Changes
<1>3. calls \in [Calls -> Sent]
    BY AfterInvalidationType DEF PagesInv
<1> DEFINE Goal ==
      /\ \A d \in Calls \ {c} : /\ calls[d] = call[d] \/ calls[d] = Idle
                                /\ ~Fetches(d, view) => calls[d] = call[d]
                                /\ calls[d].kind = "fetch" => d \in early'
      /\ calls[c] \in {Idle, Fetch(view)}
      /\ \A d, e \in Calls : calls[d].kind = "fetch" /\ calls[e].kind = "fetch"
             /\ calls[d].view = calls[e].view => d = e
      /\ \E d \in Calls : calls[d].kind = "fetch" /\ calls[d].view = view
<1>4. ASSUME Refetched = {} PROVE Goal
    <2>1. calls[c] = Idle /\ \A d \in Calls \ {c} : calls[d] = call[d]
        BY <1>4 DEF AfterInvalidation, PagesInv, Shape
    <2>2. Loading(view) /\ ~HasData(cache[view])
        BY <1>4 DEF Refetched
    <2>3. \A d \in Calls : call[d].kind = "fetch" => d \in early'
        BY <2>2 DEF Acknowledged
    <2>4. PICK d \in Calls \ {c} : Fetches(d, view)
        BY <1>2, <2>2 DEF Loading, Fetches
    <2>5. calls[d].kind = "fetch" /\ calls[d].view = view
        BY <2>1, <2>4 DEF Fetches
    <2> HIDE DEF calls
    <2>6. \A e \in Calls : calls[e].kind = "fetch" => calls[e] = call[e]
        BY <1>1, <2>1
    <2>7. \A e, f \in Calls : calls[e].kind = "fetch" /\ calls[f].kind = "fetch"
              /\ calls[e].view = calls[f].view => e = f
        BY <2>6 DEF PagesInv, Single, Fetches
    <2>8. \A e \in Calls \ {c} : /\ calls[e] = call[e] \/ calls[e] = Idle
                                 /\ ~Fetches(e, view) => calls[e] = call[e]
                                 /\ calls[e].kind = "fetch" => e \in early'
        BY <2>1, <2>3, <2>6
    <2>9. calls[c] \in {Idle, Fetch(view)} /\ \E e \in Calls : calls[e].kind = "fetch" /\ calls[e].view = view
        BY <2>1, <2>5
    <2> QED
        BY <2>7, <2>8, <2>9
<1>5. ASSUME Refetched # {} PROVE Goal
    <2>1. /\ calls[c] = Fetch(view)
          /\ \A d \in Calls \ {c} : calls[d] = IF Fetches(d, view) THEN Idle ELSE call[d]
        BY <1>5, RefetchType DEF AfterInvalidation, PagesInv
    <2>2. \A d \in Calls : call[d].kind = "fetch" /\ ~Fetches(d, view) => d \in early'
        BY DEF Acknowledged
    <2> HIDE DEF calls
    <2>3. \A e \in Calls \ {c} : calls[e].kind = "fetch" => calls[e] = call[e] /\ ~Fetches(e, view)
        BY <1>1, <2>1
    <2>4. \A e, f \in Calls : calls[e].kind = "fetch" /\ calls[f].kind = "fetch"
              /\ calls[e].view = calls[f].view => e = f
        BY <1>1, <2>1, <2>3 DEF PagesInv, Single, Fetches
    <2>5. \A e \in Calls \ {c} : calls[e].kind = "fetch" => e \in early'
        BY <2>2, <2>3
    <2>6. \A e \in Calls \ {c} : /\ calls[e] = call[e] \/ calls[e] = Idle
                                 /\ ~Fetches(e, view) => calls[e] = call[e]
                                 /\ calls[e].kind = "fetch" => e \in early'
        BY <2>1, <2>5
    <2>7. calls[c] \in {Idle, Fetch(view)} /\ \E e \in Calls : calls[e].kind = "fetch" /\ calls[e].view = view
        BY <1>1, <2>1
    <2> QED
        BY <2>4, <2>6, <2>7
<1> HIDE DEF calls
<1>6. Goal
    BY <1>4, <1>5
<1>7. /\ calls[c].kind = "fetch" => calls[c].view = view
      /\ calls[c].answer = "none" /\ calls[c].here = FALSE
      /\ calls[c].kind \in {"idle", "fetch"}
    BY <1>1, <1>6
<1> QED
    BY <1>3, <1>6, <1>7 DEF calls

(* What an acknowledgement does to the cache and to the histories. *)
LEMMA Acknowledging ==
  ASSUME PagesInv, Shape', NEW c \in Calls, Acknowledged(c),
         \A d \in Calls : /\ call'[d].kind = "fetch" => d \in early' \/ call'[d].answer = "none"
                          /\ call'[d].answer = "ok" => call[d].answer = "ok" /\ call'[d].data = call[d].data
  PROVE  FreshIsNew' /\ AnswersAreNew' /\ InTime' /\ Shown'
<1>1. cache' = Invalidated /\ UNCHANGED tables /\ acked' \in {acked, call[c].data} /\ call[c].answer = "ok"
    BY DEF Acknowledged
<1>2. FreshIsNew'
    BY <1>1, InvalidatedType DEF FreshIsNew, PagesInv
<1>3. AnswersAreNew'
    BY DEF AnswersAreNew
<1>4. InTime'
    BY <1>1 DEF InTime, PagesInv
<1>5. Shown'
    <2> SUFFICES ASSUME NEW v \in Views, Rendered(cache'[v])
                 PROVE  cache'[v].state \in {"fresh", "invalid"}
        BY DEF Shown
    <2> QED
        BY <1>1, InvalidatedType DEF PagesInv, Shown, Rendered
<1> QED
    BY <1>2, <1>3, <1>4, <1>5

LEMMA PagesInvNext == PagesInv /\ [Next]_vars => PagesInv'
<1> SUFFICES ASSUME PagesInv, [Next]_vars
             PROVE  PagesInv'
    OBVIOUS
<1>0. Shape /\ Shape'
    BY ShapeNext DEF PagesInv
<1>t. /\ Len(tables) \in Nat /\ acked \in Nat
      /\ \A c \in Calls : call[c] \in Sent /\ call[c].data \in Nat
      /\ \A v \in Views : cache[v] \in Entry /\ cache[v].data \in Nat
    BY <1>0, Types
<1>i. /\ Idle.kind = "idle" /\ Idle.answer = "none" /\ Idle.here = FALSE /\ Idle.live = FALSE
      /\ {"idle", "fetch"} \cap Changes = {}
    BY DEF Idle, Changes
<1>1. ASSUME NEW c \in Calls, NEW v \in Views, SelectFilter(c, v) PROVE PagesInv'
    <2>1. \A d \in Calls : ~(call[d].kind = "delete" /\ call[d].here)
        BY <1>1, PagesAssumption DEF SelectFilter, PagesInv, HereOnPage, Lists
    <2> QED
        BY <1>0, <1>1, <2>1, Turned DEF SelectFilter, history, Shape
<1>2. ASSUME NEW c \in Calls, NEW v \in Views, OpenPage(c, v) PROVE PagesInv'
    <2>1. /\ Away(call) \in [Calls -> Sent]
          /\ \A d \in Calls : /\ Away(call)[d].kind = call[d].kind
                              /\ Away(call)[d].view = call[d].view
                              /\ Away(call)[d].answer = call[d].answer
                              /\ Away(call)[d].data = call[d].data
                              /\ ~Away(call)[d].here
        BY <1>0, AwayType DEF Shape
    <2> QED
        BY <1>0, <1>2, <2>1, Turned DEF OpenPage, history
<1>3. ASSUME NEW c \in Calls, Refresh(c) PROVE PagesInv'
    <2>1. /\ call'[c] = Fetch(view) /\ Fetch(view).kind = "fetch" /\ Fetch(view).view = view
          /\ Fetch(view).answer = "none"
          /\ \A d \in Calls \ {c} : call'[d] = IF Fetches(d, view) THEN Idle ELSE call[d]
        <3>1. call' = Refetch(c) /\ view \in Views
            BY <1>0, <1>3 DEF Refresh, Shape
        <3> QED
            BY <1>0, <3>1, RefetchType, NewCalls
    <2>2. Single' /\ Refetching'
        BY <1>i, <1>3, <2>1 DEF Refresh, PagesInv, Single, Refetching, Loading, Fetches
    <2>3. FreshIsNew' /\ Shown'
        BY <1>3 DEF Refresh, PagesInv, FreshIsNew, Shown
    <2>4. AnswersAreNew' /\ InTime'
        BY <1>i, <1>3, <2>1 DEF Refresh, PagesInv, AnswersAreNew, InTime, Fetches
    <2>5. HereOnPage'
        BY <1>i, <1>3, <2>1 DEF Refresh, PagesInv, HereOnPage
    <2> QED
        BY <1>0, <2>2, <2>3, <2>4, <2>5 DEF PagesInv
<1>4. ASSUME NEW i \in Ids, ToggleMenu(i) PROVE PagesInv'
    BY <1>0, <1>4, <1>t, Quiet DEF ToggleMenu, history, PagesInv, HereOnPage
<1>5. ASSUME NEW c \in Calls, NEW i \in Ids, NEW request \in Call, request.kind \in Changes,
             request.answer = "none", request.kind = "delete" /\ request.here => view \in Ids,
             Asks(c, i, request)
      PROVE  PagesInv'
    <2>1. \A d \in Calls \ {c} : call'[d] = call[d] \/ (call[d].live /\ call'[d] = Unseen(call[d]))
        BY <1>5 DEF Asks
    <2>2. \E n \in Versions : call'[c] = [request EXCEPT !.id = i, !.live = TRUE, !.view = view, !.seen = n]
        BY <1>5, <1>0, Pages DEF Asks, Shape, Entry
    <2>3. /\ call'[c].kind = request.kind /\ call'[c].answer = request.answer
          /\ call'[c].here = request.here
        BY <2>2 DEF Call
    <2>4. \A d \in Calls : call[d].live => call[d].kind \in Changes
        BY <1>t DEF Sent
    <2>5. call[c].kind = "idle"
        BY <1>5, <1>i DEF Asks
    <2>6. ASSUME NEW d \in Calls
          PROVE  /\ call[d].kind = "fetch" => call'[d] = call[d]
                 /\ call'[d].kind = "fetch" => call'[d] = call[d]
                 /\ call'[d].answer = "ok" => call[d].answer = "ok" /\ call'[d].data = call[d].data
                 /\ call'[d].kind = "delete" /\ call'[d].here => view \in Ids
        <3>1. CASE d = c
            BY <1>5, <1>i, <2>3, <2>5, <3>1
        <3>2. CASE d # c /\ call'[d] = call[d]
            BY <3>2 DEF PagesInv, HereOnPage
        <3>3. CASE d # c /\ call[d].live /\ call'[d] = Unseen(call[d])
            BY <1>i, <1>t, <2>4, <3>3, UnseenCall DEF PagesInv, HereOnPage
        <3> QED
            BY <2>1, <3>1, <3>2, <3>3
    <2>7. UNCHANGED <<tables, view, cache, acked, early, missed>>
        BY <1>5 DEF Asks, history
    <2> QED
        BY <1>0, <1>t, <2>6, <2>7, Quiet
<1>6. ASSUME NEW c \in Calls, NEW i \in Ids, NEW s \in Wanted, ChangeStatus(c, i, s)
      PROVE  PagesInv'
    <2> DEFINE request == [Idle EXCEPT !.kind = "status", !.status = s]
    <2>1. request \in Call /\ request.kind = "status" /\ request.kind \in Changes
        BY Requests, PagesAssumption
    <2>2. request.answer = "none"
        BY DEF Idle
    <2>3. Asks(c, i, request)
        BY <1>6 DEF ChangeStatus
    <2> HIDE DEF request
    <2> QED
        BY <1>5, <2>1, <2>2, <2>3
<1>7. ASSUME NEW c \in Calls, NEW i \in Ids, Delete(c, i) PROVE PagesInv'
    <2> DEFINE onPage == view \in Ids
    <2>1. onPage \in BOOLEAN
        OBVIOUS
    <2>2. Asks(c, i, [Idle EXCEPT !.kind = "delete", !.here = onPage])
        BY <1>7 DEF Delete
    <2>3. onPage => view \in Ids
        OBVIOUS
    <2> HIDE DEF onPage
    <2> DEFINE request == [Idle EXCEPT !.kind = "delete", !.here = onPage]
    <2>4. request \in Call /\ request.kind = "delete" /\ request.kind \in Changes
        BY <2>1, Requests
    <2>5. request.answer = "none" /\ request.here = onPage
        BY DEF Idle
    <2>6. Asks(c, i, request)
        BY <2>2
    <2> HIDE DEF request
    <2> QED
        BY <1>5, <2>3, <2>4, <2>5, <2>6
<1>8. ASSUME NEW c \in Calls, ServeFetch(c) PROVE PagesInv'
    <2>1. /\ call'[c].kind = call[c].kind /\ call'[c].view = call[c].view
          /\ call'[c].here = call[c].here /\ call'[c].answer = "ok" /\ call'[c].data = Len(tables)
          /\ \A d \in Calls \ {c} : call'[d] = call[d]
        BY <1>0, <1>8, <1>t DEF ServeFetch, Shape, Sent, Call
    <2>2. UNCHANGED <<tables, view, cache, acked, early, missed>>
        BY <1>8 DEF ServeFetch, history
    <2>3. Single' /\ Refetching' /\ HereOnPage'
        BY <2>1, <2>2 DEF PagesInv, Single, Refetching, Loading, Fetches, HereOnPage
    <2>4. FreshIsNew' /\ Shown'
        BY <2>2 DEF PagesInv, FreshIsNew, Shown
    <2>5. AnswersAreNew' /\ InTime'
        BY <1>t, <2>1, <2>2 DEF PagesInv, AnswersAreNew, InTime
    <2> QED
        BY <1>0, <2>3, <2>4, <2>5 DEF PagesInv
<1>9. ASSUME NEW c \in Calls, LoseFetch(c) PROVE PagesInv'
    <2>1. /\ \A d \in Calls \ {c} : call'[d] = call[d]
          /\ call'[c].answer = "none" /\ ~(call'[c].kind = "delete")
          /\ call'[c].kind = "fetch" => Retries(c) /\ call'[c].view = view
          /\ Retries(c) => call'[c].kind = "fetch" /\ call[c].view = view
        BY <1>0, <1>9, <1>i, NewCalls DEF LoseFetch, Retries, Shape
    <2>2. /\ call[c].kind = "fetch" /\ call[c].view \in Views
          /\ UNCHANGED <<tables, view, acked>>
          /\ early' = early \ {c}
        BY <1>9, <1>t DEF LoseFetch, Sent
    <2>3. \/ cache' = cache /\ missed' = missed /\ Retries(c)
          \/ /\ ~Retries(c) /\ missed' = missed \ {call[c].view}
             /\ \A v \in Views \ {call[c].view} : cache'[v] = cache[v]
             /\ cache'[call[c].view].data = 0 /\ cache'[call[c].view].state \in {"hidden", "error"}
        BY <1>0, <1>9, <2>2 DEF LoseFetch, Failed, Shape
    <2>4. Single' /\ HereOnPage'
        BY <2>1, <2>2 DEF PagesInv, Single, HereOnPage, Fetches, Retries
    <2>5. Refetching'
        BY <1>0, <2>1, <2>2, <2>3 DEF PagesInv, Refetching, Loading, Fetches, Shape
    <2>6. FreshIsNew' /\ Shown'
        BY <2>2, <2>3 DEF PagesInv, FreshIsNew, Shown, Rendered
    <2>7. AnswersAreNew' /\ InTime'
        BY <2>1, <2>2 DEF PagesInv, AnswersAreNew, InTime
    <2> QED
        BY <1>0, <2>4, <2>5, <2>6, <2>7 DEF PagesInv
<1>10. ASSUME NEW c \in Calls, NEW i \in Ids, NEW s \in Statuses \cup {None},
              call[c].kind \in Changes, Changed(i, s), Carried(c, i)
       PROVE  PagesInv'
    <2>1. Len(tables') = Len(tables) + 1
        BY <1>0, <1>10, ChangedTables
    <2>2. \A d \in Calls \ {c} : call'[d] = call[d]
        BY <1>10 DEF Carried
    <2>3. \/ call'[c] = Idle
          \/ call'[c] = [Unseen(call[c]) EXCEPT !.answer = "ok", !.data = Len(tables) + 1]
        BY <1>0, <1>10 DEF Carried, Shape
    <2>4. Unseen(call[c]) \in Call /\ Unseen(call[c]).kind = call[c].kind
          /\ Unseen(call[c]).here = call[c].here
        BY <1>t, <1>10, UnseenCall DEF Sent
    <2>5. \/ call'[c] = Idle
          \/ /\ call'[c].kind = call[c].kind /\ call'[c].here = call[c].here
             /\ call'[c].answer = "ok" /\ call'[c].data = Len(tables) + 1
        BY <2>3, <2>4 DEF Call
    <2>6. ASSUME NEW d \in Calls
          PROVE  /\ call[d].kind = "fetch" => call'[d] = call[d]
                 /\ call'[d].kind = "fetch" => call'[d] = call[d]
                 /\ call'[d].answer = "ok" =>
                      \/ call[d].answer = "ok" /\ call'[d].data = call[d].data
                      \/ call'[d].data <= Len(tables')
                 /\ call'[d].kind = "delete" /\ call'[d].here => view \in Ids
        BY <1>i, <1>t, <1>10, <2>1, <2>2, <2>5 DEF PagesInv, HereOnPage
    <2> QED
        BY <1>0, <1>10, <1>t, <2>1, <2>6, Quiet DEF Carried
<1>11. ASSUME NEW c \in Calls, ServeStatus(c) \/ ServeDelete(c) PROVE PagesInv'
    <2>1. call[c].id \in Ids /\ call[c].status \in Statuses \cup {None}
        BY <1>11, <1>t DEF ServeStatus, ServeDelete, Unanswered, Changes, Call, Sent
    <2> QED
        BY <1>10, <1>11, <2>1 DEF ServeStatus, ServeDelete, Unanswered, Changes
<1>12. ASSUME NEW c \in Calls, Refuse(c) PROVE PagesInv'
    <2>1. call'[c] = Idle /\ \A d \in Calls \ {c} : call'[d] = call[d]
        BY <1>0, <1>12 DEF Refuse, Shape
    <2>2. ASSUME NEW d \in Calls
          PROVE  /\ call[d].kind = "fetch" => call'[d] = call[d]
                 /\ call'[d].kind = "fetch" => call'[d] = call[d]
                 /\ call'[d].answer = "ok" => call[d].answer = "ok" /\ call'[d].data = call[d].data
                 /\ call'[d].kind = "delete" /\ call'[d].here => view \in Ids
        BY <1>i, <1>12, <2>1 DEF Refuse, Unanswered, PagesInv, HereOnPage
    <2> QED
        BY <1>0, <1>12, <1>t, <2>2, Quiet DEF Refuse, history
<1>13. ASSUME NEW c \in Calls, Lose(c) PROVE PagesInv'
    <2>1. \/ call'[c] = Idle
          \/ call[c].answer # "ok" /\ call'[c] = [Unseen(call[c]) EXCEPT !.live = FALSE, !.here = FALSE]
        BY <1>0, <1>13 DEF Lose, Shape
    <2>2. /\ Unseen(call[c]) \in Call /\ Unseen(call[c]).kind = call[c].kind
          /\ Unseen(call[c]).answer = call[c].answer
        BY <1>t, <1>13, UnseenCall DEF Lose, Sent
    <2>3. \/ call'[c] = Idle
          \/ /\ call'[c].kind = call[c].kind /\ call'[c].here = FALSE
             /\ call'[c].answer # "ok"
        BY <2>1, <2>2 DEF Call
    <2>4. call[c].kind \in Changes /\ \A d \in Calls \ {c} : call'[d] = call[d]
        BY <1>13 DEF Lose
    <2>5. ASSUME NEW d \in Calls
          PROVE  /\ call[d].kind = "fetch" => call'[d] = call[d]
                 /\ call'[d].kind = "fetch" => call'[d] = call[d]
                 /\ call'[d].answer = "ok" => call[d].answer = "ok" /\ call'[d].data = call[d].data
                 /\ call'[d].kind = "delete" /\ call'[d].here => view \in Ids
        BY <1>i, <2>3, <2>4 DEF PagesInv, HereOnPage
    <2> QED
        BY <1>0, <1>13, <1>t, <2>5, Quiet DEF Lose
<1>14. ASSUME NEW i \in Ids, ChangeElsewhere(i) PROVE PagesInv'
    <2>1. PICK s \in (Wanted \cup {None}) \ {Now[i]} : Changed(i, s)
        BY <1>14 DEF ChangeElsewhere
    <2>2. Len(tables') = Len(tables) + 1
        BY <1>0, <2>1, ChangedTables, PagesAssumption
    <2> QED
        BY <1>0, <1>14, <1>t, <2>2, Quiet DEF ChangeElsewhere, PagesInv, HereOnPage
<1>15. ASSUME NEW c \in Calls, FetchSucceeds(c) PROVE PagesInv'
    <2>1. /\ call[c].kind = "fetch" /\ call[c].answer = "ok" /\ call[c].view \in Views
          /\ call'[c] = Idle /\ \A d \in Calls \ {c} : call'[d] = call[d]
          /\ UNCHANGED <<tables, view, acked>> /\ early' = early \ {c}
        BY <1>0, <1>15, <1>t DEF FetchSucceeds, Shape, Sent
    <2>2. /\ cache'[call[c].view] = [data |-> call[c].data, state |-> "fresh"]
          /\ \A v \in Views \ {call[c].view} : cache'[v] = cache[v]
        BY <1>0, <1>15, <2>1 DEF FetchSucceeds, Shape
    <2>3. IF c \in early THEN missed' = missed \cup {call[c].view} ELSE missed' = missed \ {call[c].view}
        BY <1>15 DEF FetchSucceeds
    <2>4. Single' /\ HereOnPage'
        BY <1>i, <2>1 DEF PagesInv, Single, HereOnPage, Fetches
    <2>5. Refetching'
        BY <1>0, <2>1, <2>2 DEF PagesInv, Refetching, Loading, Fetches, Shape
    <2>6. FreshIsNew' /\ Shown'
        BY <2>1, <2>2, <2>3 DEF PagesInv, FreshIsNew, AnswersAreNew, Shown, Rendered
    <2>7. AnswersAreNew' /\ InTime'
        BY <1>i, <2>1 DEF PagesInv, AnswersAreNew, InTime
    <2> QED
        BY <1>0, <2>4, <2>5, <2>6, <2>7 DEF PagesInv
<1>16. ASSUME NEW c \in Calls, ChangeSucceeds(c) PROVE PagesInv'
    <2>1. Acknowledged(c) /\ call' = AfterInvalidation(c) /\ view' = view
        BY <1>16 DEF ChangeSucceeds
    <2>2. /\ \A d \in Calls \ {c} : /\ call'[d] = call[d] \/ call'[d] = Idle
                                    /\ call'[d].kind = "fetch" => d \in early'
          /\ call'[c].answer = "none" /\ call'[c].here = FALSE
          /\ \A d, e \in Calls : call'[d].kind = "fetch" /\ call'[e].kind = "fetch"
                 /\ call'[d].view = call'[e].view => d = e
          /\ \E d \in Calls : call'[d].kind = "fetch" /\ call'[d].view = view
        BY <2>1, Invalidating
    <2>3. Single' /\ Refetching'
        BY <2>1, <2>2 DEF Single, Refetching, Loading, Fetches
    <2>4. HereOnPage'
        BY <1>i, <2>1, <2>2 DEF PagesInv, HereOnPage
    <2>5. FreshIsNew' /\ AnswersAreNew' /\ InTime' /\ Shown'
        BY <1>0, <1>i, <2>1, <2>2, Acknowledging
    <2> QED
        BY <1>0, <2>3, <2>4, <2>5 DEF PagesInv
<1>17. ASSUME NEW c \in Calls, NEW d \in Calls, DeleteLeaves(c, d) PROVE PagesInv'
    <2> DEFINE calls == AfterInvalidation(c)
    <2>1. /\ Acknowledged(c) /\ c # d /\ call[d] = Idle /\ view \in Ids
          /\ Shows(d, "all", Away(calls))
        BY <1>17 DEF DeleteLeaves, PagesInv, HereOnPage
    <2>2. /\ calls \in [Calls -> Sent]
          /\ \A e \in Calls \ {c} : /\ calls[e] = call[e] \/ calls[e] = Idle
                                    /\ ~Fetches(e, view) => calls[e] = call[e]
                                    /\ calls[e].kind = "fetch" => e \in early'
          /\ calls[c].kind = "fetch" => calls[c].view = view
          /\ calls[c].answer = "none" /\ calls[c].kind \in {"idle", "fetch"}
          /\ \A e, f \in Calls : calls[e].kind = "fetch" /\ calls[f].kind = "fetch"
                 /\ calls[e].view = calls[f].view => e = f
        BY <2>1, Invalidating
    <2> HIDE DEF calls
    <2>3. /\ Away(calls) \in [Calls -> Sent]
          /\ \A e \in Calls : /\ Away(calls)[e].kind = calls[e].kind
                              /\ Away(calls)[e].view = calls[e].view
                              /\ Away(calls)[e].answer = calls[e].answer
                              /\ Away(calls)[e].data = calls[e].data
                              /\ ~Away(calls)[e].here
        BY <2>2, AwayType
    <2>4. view # "all" /\ cache'["all"].state # "fresh"
        BY <1>0, <2>1, InvalidatedType, Pages, PagesAssumption DEF Acknowledged
    <2>5. calls[d].kind = "idle"
        BY <1>i, <2>1, <2>2
    <2>6. /\ view' = "all"
          /\ \A e \in Calls \ {d} : call'[e] = Away(calls)[e]
          /\ \/ /\ ~Loading("all") /\ call'[d].kind = "fetch" /\ call'[d].view = "all"
                /\ call'[d].answer = "none"
             \/ Loading("all") /\ call'[d] = Away(calls)[d]
        <3>1. Fetch("all").kind = "fetch" /\ Fetch("all").view = "all" /\ Fetch("all").answer = "none"
            BY NewCalls, Pages
        <3> QED
            BY <2>1, <2>3, <2>4, <3>1 DEF Shows
    <2>7. call[c].kind \in Changes
        BY <2>1 DEF Acknowledged
    <2>8. \A e \in Calls : calls[e].kind = "fetch" /\ calls[e].view = "all" => Fetches(e, "all")
        BY <1>i, <2>2, <2>4 DEF Fetches
    <2>9. \A e \in Calls : Fetches(e, "all") => calls[e] = call[e]
        BY <1>i, <2>2, <2>4, <2>7 DEF Fetches
    <2>10. Single'
        BY <2>2, <2>3, <2>6, <2>8 DEF Single, Fetches, Loading
    <2>11. Refetching'
        <3>1. Loading("all")'
            BY <2>3, <2>5, <2>6, <2>9 DEF Loading, Fetches
        <3> QED
            BY <2>6, <3>1 DEF Refetching
    <2>12. HereOnPage'
        BY <2>3, <2>6 DEF HereOnPage
    <2>13. ASSUME NEW e \in Calls
           PROVE  /\ call'[e].kind = "fetch" => e \in early' \/ call'[e].answer = "none"
                  /\ call'[e].answer = "ok" => call[e].answer = "ok" /\ call'[e].data = call[e].data
        BY <1>i, <2>2, <2>3, <2>6
    <2>14. FreshIsNew' /\ AnswersAreNew' /\ InTime' /\ Shown'
        BY <1>0, <2>1, <2>13, Acknowledging
    <2> QED
        BY <1>0, <2>10, <2>11, <2>12, <2>14 DEF PagesInv
<1>18. CASE UNCHANGED vars
    BY <1>0, <1>18, <1>t, Quiet DEF vars, history, PagesInv, HereOnPage
<1> QED
    BY <1>1, <1>2, <1>3, <1>4, <1>6, <1>7, <1>8, <1>9, <1>11, <1>12, <1>13, <1>14,
       <1>15, <1>16, <1>17, <1>18 DEF Next, Acts, Answer, Deliver

LEMMA PagesInvHolds == Spec => []PagesInv
BY PagesInvInit, PagesInvNext, PTL DEF Spec

(* The type invariant: in particular no view ever has two fetches under way, *)
(* whatever is clicked, invalidated or retried.                              *)
THEOREM PagesTypeCorrect == Spec => []TypeOK
<1>1. ASSUME PagesInv PROVE TypeOK
    <2>1. call \in [Calls -> Call]
        BY <1>1 DEF PagesInv, Shape, Sent
    <2>2. ASSUME NEW v \in Views
          PROVE  Cardinality({c \in Calls : Fetches(c, v)}) <= 1
        <3> DEFINE fetches == {c \in Calls : Fetches(c, v)}
        <3>1. CASE fetches = {}
            BY <3>1, FS_EmptySet
        <3>2. CASE fetches # {}
            <4>1. PICK c \in Calls : Fetches(c, v)
                BY <3>2
            <4>2. fetches = {c}
                BY <1>1, <4>1 DEF PagesInv, Single, Fetches
            <4> QED
                BY <4>2, FS_Singleton
        <3> QED
            BY <3>1, <3>2
    <2> QED
        BY <1>1, <2>1, <2>2 DEF PagesInv, Shape, TypeOK
<1> QED
    BY <1>1, PagesInvHolds, PTL

(* The view on the screen never goes back behind a change the server has     *)
(* acknowledged to this tab, unless it is being fetched, shows the error, or  *)
(* came from a fetch that was under way at the acknowledgement and was not    *)
(* begun anew.                                                                *)
THEOREM ScreenIsCurrent == Spec => []ScreenShowsOwnWrites
<1>1. ASSUME PagesInv PROVE ScreenShowsOwnWrites
    BY <1>1 DEF PagesInv, Shape, Refetching, FreshIsNew, Shown, ScreenShowsOwnWrites
<1> QED
    BY <1>1, PagesInvHolds, PTL
-----------------------------------------------------------------------------
(* What was clicked *)

\* A change of status that was asked for on a current view, by a tab that has
\* no other change of the campaign under way.
Clicked(c) == call[c].kind = "status" /\ call[c].seen # 0

Untold(c, i) == call[c].id = i /\ call[c].live /\ call[c].answer = "ok"

CacheInTime == \A v \in Views : cache[v].data <= Len(tables)

\* Since a version that shows the newest change of a campaign by others and
\* the newest by this tab, answered or not, the campaign has not changed.
TablesAgree ==
  \A i \in Ids, n \in 1..Len(tables) :
    /\ others[i] <= n /\ acked <= n
    /\ \A c \in Calls : Untold(c, i) => call[c].data <= n
    => tables[n][i] = Now[i]

Alone == \A c, d \in Calls : Clicked(c) /\ call[d].live /\ call[d].id = call[c].id => c = d

Fitting ==
  \A c \in Calls : Clicked(c) =>
    /\ call[c].live /\ call[c].answer = "none"
    /\ call[c].id \in Ids /\ call[c].seen \in 1..Len(tables)
    /\ call[c].status \in Offers(call[c].view, tables[call[c].seen][call[c].id])
    /\ others[call[c].id] <= call[c].seen => tables[call[c].seen][call[c].id] = Now[call[c].id]

OfferInv == CacheInTime /\ TablesAgree /\ Alone /\ Fitting

LEMMA OfferInvInit == Init => OfferInv
<1> SUFFICES ASSUME Init PROVE OfferInv
    OBVIOUS
<1>1. /\ tables = <<First>> /\ Len(tables) = 1 /\ acked = 1
      /\ \A v \in Views : cache[v].data = 0
    BY DEF Init, Blank
<1>2. \A c \in Calls : call[c].kind # "status"
    <2>1. PICK c \in Calls : call = [d \in Calls |-> IF d = c THEN Fetch("all") ELSE Idle]
        BY DEF Init
    <2> QED
        BY <2>1, Pages, NewCalls
<1>3. CacheInTime
    BY <1>1 DEF CacheInTime
<1>4. TablesAgree
    BY <1>1 DEF TablesAgree, Now
<1>5. Alone /\ Fitting
    BY <1>2 DEF Alone, Fitting, Clicked
<1> QED
    BY <1>3, <1>4, <1>5 DEF OfferInv

\* What a request asks for is the same in calls as it is now.
Keeps(c, calls) ==
  /\ calls[c].kind = call[c].kind /\ calls[c].id = call[c].id
  /\ calls[c].status = call[c].status /\ calls[c].view = call[c].view
  /\ calls[c].seen = call[c].seen /\ calls[c].live = call[c].live
  /\ calls[c].answer = call[c].answer

(* Every change of this tab that was carried out is still to be told, or is    *)
(* in one of the histories.                                                    *)
Counted ==
  \A c \in Calls, i \in Ids : Untold(c, i) =>
    \/ Untold(c, i)' /\ call'[c].data = call[c].data
    \/ call[c].data <= acked'
    \/ call[c].data <= others'[i]

LEMMA Agreeing ==
  ASSUME Shape, Shape', TablesAgree, tables' = tables, Counted,
         acked <= acked', \A i \in Ids : others[i] <= others'[i]
  PROVE  TablesAgree'
<1>1. /\ Len(tables) \in Nat /\ acked \in Nat /\ acked' \in Nat
      /\ \A i \in Ids : others[i] \in Nat /\ others'[i] \in Nat
      /\ \A c \in Calls : call[c].data \in Nat
    BY Pages, LenProperties DEF Shape, Sent, Call
<1> SUFFICES ASSUME NEW i \in Ids, NEW n \in 1..Len(tables), others'[i] <= n, acked' <= n,
                    \A c \in Calls : Untold(c, i)' => call'[c].data <= n
             PROVE  tables[n][i] = Now[i]
    BY DEF TablesAgree, Now
<1>2. others[i] <= n /\ acked <= n
    BY <1>1
<1>3. \A c \in Calls : Untold(c, i) => call[c].data <= n
    BY <1>1 DEF Counted
<1> QED
    BY <1>2, <1>3 DEF TablesAgree

(* A step that neither changes the table nor asks for anything.                *)
LEMMA Undisturbed ==
  ASSUME Shape, Shape', OfferInv, tables' = tables, Counted, CacheInTime',
         acked <= acked', \A i \in Ids : others[i] <= others'[i],
         \A c \in Calls : /\ Clicked(c)' => Keeps(c, call')
                          /\ call'[c].live => call[c].live /\ call'[c].id = call[c].id
  PROVE  OfferInv'
<1>1. TablesAgree'
    BY Agreeing DEF OfferInv
<1>2. Alone'
    BY DEF OfferInv, Alone, Clicked, Keeps
<1>3. Fitting'
    <2> SUFFICES ASSUME NEW c \in Calls, Clicked(c)'
                 PROVE  /\ call'[c].live /\ call'[c].answer = "none"
                        /\ call'[c].id \in Ids /\ call'[c].seen \in 1..Len(tables)
                        /\ call'[c].status \in Offers(call'[c].view, tables[call'[c].seen][call'[c].id])
                        /\ others'[call'[c].id] <= call'[c].seen
                             => tables[call'[c].seen][call'[c].id] = Now[call'[c].id]
        BY DEF Fitting, Now
    <2>1. Keeps(c, call') /\ Clicked(c)
        BY DEF Clicked, Keeps
    <2>2. /\ call[c].live /\ call[c].answer = "none"
          /\ call[c].id \in Ids /\ call[c].seen \in 1..Len(tables)
          /\ call[c].status \in Offers(call[c].view, tables[call[c].seen][call[c].id])
          /\ others[call[c].id] <= call[c].seen
               => tables[call[c].seen][call[c].id] = Now[call[c].id]
        BY <2>1 DEF OfferInv, Fitting
    <2>3. others[call[c].id] \in Nat /\ others'[call[c].id] \in Nat /\ Len(tables) \in Nat
        BY <2>2, Pages, LenProperties DEF Shape
    <2>4. others'[call[c].id] <= call[c].seen => others[call[c].id] <= call[c].seen
        BY <2>2, <2>3
    <2> QED
        BY <2>1, <2>2, <2>4 DEF Keeps
<1> QED
    BY <1>1, <1>2, <1>3 DEF OfferInv

(* A step that changes campaign i, in one of the two ways.                     *)
LEMMA Disturbed ==
  ASSUME Shape, Shape', OfferInv, NEW i \in Ids, NEW s \in Statuses \cup {None}, Changed(i, s),
         UNCHANGED <<cache, acked>>,
         \A j \in Ids \ {i} : others'[j] = others[j],
         \/ others'[i] = Len(tables) + 1
         \/ others'[i] = others[i] /\ \E e \in Calls : Untold(e, i)' /\ call'[e].data = Len(tables) + 1,
         \A c \in Calls : /\ Clicked(c)' => /\ Keeps(c, call')
                                            /\ call[c].id = i => others'[i] = Len(tables) + 1
                          /\ call'[c].live => call[c].live /\ call'[c].id = call[c].id
                          /\ \A j \in Ids \ {i} : Untold(c, j) => Untold(c, j)' /\ call'[c].data = call[c].data
  PROVE  OfferInv'
<1>1. /\ Len(tables) \in Nat /\ Len(tables') = Len(tables) + 1
      /\ \A n \in 1..Len(tables) : tables'[n] = tables[n]
      /\ \A j \in Ids \ {i} : Now'[j] = Now[j]
    <2>1. Now \in Table /\ tables \in Seq(Table) /\ Len(tables) \in Nat
        BY ElementOfSeq, LenProperties DEF Shape, Now
    <2>2. [Now EXCEPT ![i] = s] \in Table
        BY <2>1 DEF Table
    <2>3. /\ Len(tables') = Len(tables) + 1 /\ tables'[Len(tables) + 1] = [Now EXCEPT ![i] = s]
          /\ \A n \in 1..Len(tables) : tables'[n] = tables[n]
        BY <2>1, <2>2, AppendProperties DEF Changed
    <2>4. Now' = [Now EXCEPT ![i] = s]
        BY <2>3 DEF Now
    <2> QED
        BY <2>1, <2>3, <2>4 DEF Table
<1>2. /\ \A j \in Ids : others[j] \in Nat /\ others'[j] \in Nat
      /\ \A c \in Calls : call[c].data \in Nat /\ call'[c].data \in Nat
      /\ \A v \in Views : cache[v].data \in Nat
    BY Pages DEF Shape, Sent, Call, Entry
<1>3. CacheInTime'
    BY <1>1, <1>2 DEF OfferInv, CacheInTime
<1>4. TablesAgree'
    <2> SUFFICES ASSUME NEW j \in Ids, NEW n \in 1..Len(tables'), others'[j] <= n, acked <= n,
                        \A c \in Calls : Untold(c, j)' => call'[c].data <= n
                 PROVE  tables'[n][j] = Now'[j]
        BY DEF TablesAgree
    <2>1. CASE n = Len(tables')
        BY <2>1 DEF Now
    <2>2. CASE n # Len(tables')
        <3>1. n \in 1..Len(tables)
            BY <1>1, <2>2
        <3>2. j # i
            BY <1>1, <1>2, <3>1
        <3>3. others[j] <= n /\ \A c \in Calls : Untold(c, j) => call[c].data <= n
            BY <3>2
        <3>4. tables[n][j] = Now[j]
            BY <3>1, <3>3 DEF OfferInv, TablesAgree
        <3> QED
            BY <1>1, <3>1, <3>2, <3>4
    <2> QED
        BY <2>1, <2>2
<1>5. Alone'
    BY DEF OfferInv, Alone, Clicked, Keeps
<1>6. Fitting'
    <2> SUFFICES ASSUME NEW c \in Calls, Clicked(c)'
                 PROVE  /\ call'[c].live /\ call'[c].answer = "none"
                        /\ call'[c].id \in Ids /\ call'[c].seen \in 1..Len(tables')
                        /\ call'[c].status \in Offers(call'[c].view, tables'[call'[c].seen][call'[c].id])
                        /\ others'[call'[c].id] <= call'[c].seen
                             => tables'[call'[c].seen][call'[c].id] = Now'[call'[c].id]
        BY DEF Fitting
    <2>1. Keeps(c, call') /\ Clicked(c)
        BY DEF Clicked, Keeps
    <2>2. /\ call[c].live /\ call[c].answer = "none"
          /\ call[c].id \in Ids /\ call[c].seen \in 1..Len(tables)
          /\ call[c].status \in Offers(call[c].view, tables[call[c].seen][call[c].id])
          /\ others[call[c].id] <= call[c].seen
               => tables[call[c].seen][call[c].id] = Now[call[c].id]
        BY <2>1 DEF OfferInv, Fitting
    <2>3. tables'[call[c].seen] = tables[call[c].seen] /\ call[c].seen \in 1..Len(tables')
        BY <1>1, <2>2
    <2>4. others'[call[c].id] <= call[c].seen
            => tables[call[c].seen][call[c].id] = Now'[call[c].id]
        BY <1>1, <1>2, <2>2
    <2> QED
        BY <2>1, <2>2, <2>3, <2>4 DEF Keeps
<1> QED
    BY <1>3, <1>4, <1>5, <1>6 DEF OfferInv

LEMMA OfferInvNext == PagesInv /\ OfferInv /\ [Next]_vars => OfferInv'
<1> SUFFICES ASSUME PagesInv, OfferInv, [Next]_vars
             PROVE  OfferInv'
    OBVIOUS
<1>0. Shape /\ Shape'
    BY ShapeNext DEF PagesInv
<1>t. /\ Len(tables) \in Nat /\ acked \in Nat
      /\ \A c \in Calls : call[c] \in Sent /\ call[c].data \in Nat /\ call[c].seen \in Nat
      /\ \A v \in Views : cache[v] \in Entry /\ cache[v].data \in Nat
      /\ \A i \in Ids : others[i] \in Nat
    BY <1>0, Types, Pages DEF Shape, Sent, Call
<1>i. /\ Idle.kind = "idle" /\ Idle.answer = "none" /\ Idle.live = FALSE
      /\ \A v \in Views : /\ Fetch(v).kind = "fetch" /\ Fetch(v).live = FALSE
                          /\ [Fetch(v) EXCEPT !.again = TRUE].kind = "fetch"
                          /\ [Fetch(v) EXCEPT !.again = TRUE].live = FALSE
      /\ {"idle", "fetch"} \cap Changes = {}
    BY DEF Idle, Fetch, Changes
<1>l. \A c \in Calls : call[c].live => call[c].kind \in Changes
    BY <1>t DEF Sent
\* Steps that only drop or begin fetches.
<1>f. ASSUME tables' = tables, CacheInTime', acked <= acked', others' = others,
             \A c \in Calls : \/ Keeps(c, call') /\ call'[c].data = call[c].data
                              \/ /\ call'[c].kind \in {"idle", "fetch"} /\ call'[c].live = FALSE
                                 /\ call[c].live /\ call[c].answer = "ok" => call[c].data <= acked'
      PROVE  OfferInv'
    <2>1. Counted
        BY <1>f DEF Counted, Untold, Keeps
    <2>2. \A c \in Calls : /\ Clicked(c)' => Keeps(c, call')
                           /\ call'[c].live => call[c].live /\ call'[c].id = call[c].id
        BY <1>f DEF Clicked, Keeps
    <2> QED
        BY <1>0, <1>f, <1>t, <2>1, <2>2, Undisturbed
<1>g. ASSUME UNCHANGED <<tables, acked, others>>, CacheInTime',
             \A c \in Calls : \/ Keeps(c, call') /\ call'[c].data = call[c].data
                              \/ /\ call'[c].kind \in {"idle", "fetch"} /\ call'[c].live = FALSE
                                 /\ call[c].live => call[c].answer # "ok"
      PROVE  OfferInv'
    <2>1. acked <= acked' /\ tables' = tables /\ others' = others
        BY <1>g, <1>t
    <2>2. \A c \in Calls : \/ Keeps(c, call') /\ call'[c].data = call[c].data
                           \/ /\ call'[c].kind \in {"idle", "fetch"} /\ call'[c].live = FALSE
                              /\ call[c].live /\ call[c].answer = "ok" => call[c].data <= acked'
        BY <1>g
    <2> QED
        BY <1>f, <1>g, <2>1, <2>2
<1>c. cache' = cache /\ tables' = tables => CacheInTime'
    BY DEF OfferInv, CacheInTime
<1>1. ASSUME NEW c \in Calls, NEW v \in Views, SelectFilter(c, v) PROVE OfferInv'
    <2>1. \A d \in Calls : call'[d] = call[d] \/ (d = c /\ call'[d] = Fetch(v))
        BY <1>0, <1>1 DEF SelectFilter, Shows, Shape
    <2>2. UNCHANGED <<tables, cache, acked, others>> /\ call[c] = Idle
        BY <1>1 DEF SelectFilter, history
    <2>3. \A d \in Calls : \/ Keeps(d, call') /\ call'[d].data = call[d].data
                           \/ /\ call'[d].kind \in {"idle", "fetch"} /\ call'[d].live = FALSE
                              /\ call[d].live => call[d].answer # "ok"
        BY <1>i, <2>1, <2>2 DEF Keeps
    <2> QED
        BY <1>c, <1>g, <2>2, <2>3
<1>2. ASSUME NEW c \in Calls, NEW v \in Views, OpenPage(c, v) PROVE OfferInv'
    <2>1. \A d \in Calls : call'[d] = Away(call)[d] \/ (d = c /\ call'[d] = Fetch(v))
        BY <1>0, <1>2 DEF OpenPage, Shows, Shape, Away
    <2>2. UNCHANGED <<tables, cache, acked, others>> /\ call[c] = Idle
        BY <1>2 DEF OpenPage, history
    <2>3. \A d \in Calls : Keeps(d, Away(call)) /\ Away(call)[d].data = call[d].data
        BY <1>t DEF Keeps, Away, Sent, Call
    <2>4. \A d \in Calls : \/ Keeps(d, call') /\ call'[d].data = call[d].data
                           \/ /\ call'[d].kind \in {"idle", "fetch"} /\ call'[d].live = FALSE
                              /\ call[d].live => call[d].answer # "ok"
        BY <1>i, <2>1, <2>2, <2>3 DEF Keeps
    <2> QED
        BY <1>c, <1>g, <2>2, <2>4
<1>3. ASSUME NEW c \in Calls, Refresh(c) PROVE OfferInv'
    <2>1. /\ call'[c] = Fetch(view) /\ view \in Views
          /\ \A d \in Calls \ {c} : call'[d] = IF Fetches(d, view) THEN Idle ELSE call[d]
        BY <1>0, <1>3, RefetchType DEF Refresh, Shape
    <2>2. UNCHANGED <<tables, cache, acked, others>> /\ call[c] = Idle
        BY <1>3 DEF Refresh
    <2>3. \A d \in Calls : Fetches(d, view) => ~call[d].live
        BY <1>i, <1>l DEF Fetches
    <2>4. \A d \in Calls : \/ Keeps(d, call') /\ call'[d].data = call[d].data
                           \/ /\ call'[d].kind \in {"idle", "fetch"} /\ call'[d].live = FALSE
                              /\ call[d].live => call[d].answer # "ok"
        BY <1>i, <2>1, <2>2, <2>3 DEF Keeps
    <2> QED
        BY <1>c, <1>g, <2>2, <2>4
<1>4. CASE UNCHANGED <<tables, cache, call, acked, others>>
    <2>1. \A d \in Calls : Keeps(d, call') /\ call'[d].data = call[d].data
        BY <1>4 DEF Keeps
    <2> QED
        BY <1>4, <1>c, <1>g, <2>1
<1>5. ASSUME NEW c \in Calls, NEW i \in Ids, NEW request \in Call, request.kind \in Changes,
             request.answer = "none", Rendered(cache[view]),
             request.kind = "status" => request.status \in Offers(view, Cached(view)[i]),
             Asks(c, i, request)
      PROVE  OfferInv'
    <2> DEFINE rivals == {d \in Calls : call[d].id = i /\ call[d].live}
               alone == rivals = {} /\ cache[view].state = "fresh" /\ view \notin missed
               seen == IF alone THEN cache[view].data ELSE 0
    <2>1. UNCHANGED <<tables, view, cache, others, acked, missed>> /\ call[c] = Idle
        BY <1>5 DEF Asks, history
    <2>2. call'[c] = [request EXCEPT !.id = i, !.live = TRUE, !.view = view, !.seen = seen]
        BY <1>5 DEF Asks
    <2>3. \A d \in Calls \ {c} : call'[d] = IF d \in rivals THEN Unseen(call[d]) ELSE call[d]
        BY <1>5 DEF Asks
    <2>4. /\ call'[c].kind = request.kind /\ call'[c].id = i /\ call'[c].status = request.status
          /\ call'[c].view = view /\ call'[c].live /\ call'[c].answer = "none" /\ call'[c].seen = seen
        BY <1>5, <2>2 DEF Call
    <2>5. \A d \in rivals : Unseen(call[d]).seen = 0
        BY <1>t DEF Unseen, Sent, Call
    <2>6. \A d \in Calls \ {c} :
            /\ call'[d].id = call[d].id /\ call'[d].live = call[d].live
            /\ call'[d].answer = call[d].answer /\ call'[d].data = call[d].data
            /\ d \in rivals => call'[d].seen = 0
            /\ d \notin rivals => Keeps(d, call')
        BY <1>l, <1>t, <2>3, <2>5, UnseenCall DEF Keeps
    <2>7. rivals = {d \in Calls : call[d].id = i /\ call[d].live}
        OBVIOUS
    <2>8. alone => rivals = {} /\ cache[view].state = "fresh" /\ view \notin missed
        OBVIOUS
    <2>9. seen # 0 => alone /\ seen = cache[view].data
        OBVIOUS
    <2> HIDE DEF rivals, alone, seen
    <2>10. Counted
        BY <1>i, <2>1, <2>6 DEF Counted, Untold
    <2>11. TablesAgree'
        BY <1>0, <1>t, <2>1, <2>10, Agreeing DEF OfferInv
    <2>12. \A d \in Calls \ {c} : Clicked(d)' => Clicked(d) /\ Keeps(d, call') /\ call[d].id # i
        <3> SUFFICES ASSUME NEW d \in Calls \ {c}, Clicked(d)'
                     PROVE  Clicked(d) /\ Keeps(d, call') /\ call[d].id # i
            OBVIOUS
        <3>1. Keeps(d, call') /\ d \notin rivals
            BY <2>6 DEF Clicked
        <3>2. Clicked(d) /\ call[d].live
            BY <3>1 DEF Clicked, Keeps, OfferInv, Fitting
        <3> QED
            BY <2>7, <3>1, <3>2
    <2>13. Clicked(c)' => /\ request.kind = "status" /\ alone /\ seen = cache[view].data
        BY <2>4, <2>9 DEF Clicked
    <2>14. Alone'
        <3> SUFFICES ASSUME NEW a \in Calls, NEW d \in Calls, Clicked(a)', call'[d].live,
                            call'[d].id = call'[a].id
                     PROVE  a = d
            BY DEF Alone
        <3>1. CASE a = c
            BY <2>4, <2>6, <2>7, <2>8, <2>13, <3>1
        <3>2. CASE a # c /\ d = c
            BY <2>4, <2>6, <2>12, <3>2
        <3>3. CASE a # c /\ d # c
            BY <2>6, <2>12, <3>3 DEF OfferInv, Alone
        <3> QED
            BY <3>1, <3>2, <3>3
    <2>15. ASSUME Clicked(c)'
           PROVE  /\ seen \in 1..Len(tables)
                  /\ request.status \in Offers(view, tables[seen][i])
                  /\ others[i] <= seen => tables[seen][i] = Now[i]
        <3>1. /\ view \in Views /\ view \notin missed /\ cache[view].state = "fresh" /\ rivals = {}
              /\ seen = cache[view].data /\ request.kind = "status"
            BY <1>0, <2>8, <2>13, <2>15 DEF Shape
        <3>2. seen \in 1..Len(tables) /\ acked <= seen
            BY <1>5, <1>t, <3>1 DEF PagesInv, FreshIsNew, OfferInv, CacheInTime, Rendered
        <3>3. request.status \in Offers(view, tables[seen][i])
            BY <1>5, <3>1 DEF Cached
        <3>4. \A d \in Calls : ~Untold(d, i)
            BY <2>7, <3>1 DEF Untold
        <3> QED
            BY <3>2, <3>3, <3>4 DEF OfferInv, TablesAgree
    <2>16. Fitting'
        <3> SUFFICES ASSUME NEW d \in Calls, Clicked(d)'
                     PROVE  /\ call'[d].live /\ call'[d].answer = "none"
                            /\ call'[d].id \in Ids /\ call'[d].seen \in 1..Len(tables)
                            /\ call'[d].status \in Offers(call'[d].view, tables[call'[d].seen][call'[d].id])
                            /\ others[call'[d].id] <= call'[d].seen
                                 => tables[call'[d].seen][call'[d].id] = Now[call'[d].id]
            BY <2>1 DEF Fitting, Now
        <3>1. CASE d = c
            BY <2>4, <2>15, <3>1
        <3>2. CASE d # c
            BY <2>12, <3>2 DEF OfferInv, Fitting, Keeps
        <3> QED
            BY <3>1, <3>2
    <2>17. CacheInTime'
        BY <1>c, <2>1
    <2> QED
        BY <2>11, <2>14, <2>16, <2>17 DEF OfferInv
<1>a. \A i \in Ids : AtHand(i) => Rendered(cache[view])
    BY DEF AtHand, Rows
<1>6. ASSUME NEW c \in Calls, NEW i \in Ids, NEW s \in Wanted, ChangeStatus(c, i, s)
      PROVE  OfferInv'
    <2> DEFINE request == [Idle EXCEPT !.kind = "status", !.status = s]
    <2>1. request \in Call /\ request.kind = "status" /\ request.kind \in Changes
        BY Requests, PagesAssumption
    <2>2. request.answer = "none" /\ request.status = s
        BY DEF Idle
    <2>3. Asks(c, i, request) /\ AtHand(i) /\ s \in Offers(view, Cached(view)[i])
        BY <1>6 DEF ChangeStatus
    <2> HIDE DEF request
    <2> QED
        BY <1>5, <1>a, <2>1, <2>2, <2>3
<1>7. ASSUME NEW c \in Calls, NEW i \in Ids, Delete(c, i) PROVE OfferInv'
    <2> DEFINE onPage == view \in Ids
    <2>1. onPage \in BOOLEAN
        OBVIOUS
    <2>2. Asks(c, i, [Idle EXCEPT !.kind = "delete", !.here = onPage]) /\ AtHand(i)
        BY <1>7 DEF Delete
    <2> HIDE DEF onPage
    <2> DEFINE request == [Idle EXCEPT !.kind = "delete", !.here = onPage]
    <2>3. request \in Call /\ request.kind = "delete" /\ request.kind \in Changes
        BY <2>1, Requests
    <2>4. request.answer = "none"
        BY DEF Idle
    <2>5. Asks(c, i, request)
        BY <2>2
    <2> HIDE DEF request
    <2> QED
        BY <1>5, <1>a, <2>2, <2>3, <2>4, <2>5
<1>8. ASSUME NEW c \in Calls, ServeFetch(c) PROVE OfferInv'
    <2>1. /\ call[c].kind = "fetch" /\ ~call[c].live
          /\ call'[c].kind = "fetch" /\ call'[c].live = FALSE
          /\ \A d \in Calls \ {c} : call'[d] = call[d]
        BY <1>0, <1>8, <1>i, <1>l, <1>t DEF ServeFetch, Unanswered, Shape, Sent, Call
    <2>2. UNCHANGED <<tables, cache, acked, others>>
        BY <1>8 DEF ServeFetch, history
    <2>3. \A d \in Calls : \/ Keeps(d, call') /\ call'[d].data = call[d].data
                           \/ /\ call'[d].kind \in {"idle", "fetch"} /\ call'[d].live = FALSE
                              /\ call[d].live => call[d].answer # "ok"
        BY <2>1 DEF Keeps
    <2> QED
        BY <1>c, <1>g, <2>2, <2>3
<1>9. ASSUME NEW c \in Calls, LoseFetch(c) PROVE OfferInv'
    <2>1. /\ call[c].kind = "fetch" /\ ~call[c].live /\ call[c].view \in Views
          /\ UNCHANGED <<tables, acked, others>>
          /\ \A d \in Calls \ {c} : call'[d] = call[d]
        BY <1>0, <1>9, <1>i, <1>l, <1>t DEF LoseFetch, Shape, Sent
    <2>2. call'[c].kind \in {"idle", "fetch"} /\ call'[c].live = FALSE
        BY <1>0, <1>9, <1>i DEF LoseFetch, Shape
    <2>3. \A v \in Views : cache'[v] = cache[v] \/ cache'[v].data = 0
        BY <1>0, <1>9 DEF LoseFetch, Failed, Shape
    <2>4. CacheInTime'
        BY <1>t, <2>1, <2>3 DEF OfferInv, CacheInTime
    <2>5. \A d \in Calls : \/ Keeps(d, call') /\ call'[d].data = call[d].data
                           \/ /\ call'[d].kind \in {"idle", "fetch"} /\ call'[d].live = FALSE
                              /\ call[d].live => call[d].answer # "ok"
        BY <2>1, <2>2 DEF Keeps
    <2> QED
        BY <1>g, <2>1, <2>4, <2>5
<1>10. ASSUME NEW c \in Calls, NEW i \in Ids, NEW s \in Statuses \cup {None},
              call[c].kind \in Changes, call[c].id = i, call[c].answer = "none",
              Changed(i, s), Carried(c, i)
       PROVE  OfferInv'
    <2>1. \A d \in Calls \ {c} : call'[d] = call[d]
        BY <1>10 DEF Carried
    <2>2. UNCHANGED <<cache, acked>> /\ \A j \in Ids \ {i} : others'[j] = others[j]
        BY <1>0, <1>10 DEF Carried, Shape
    <2>3. CASE call[c].live
        <3>1. Unseen(call[c]) \in Call /\ Unseen(call[c]).seen = 0
              /\ Unseen(call[c]).id = i /\ Unseen(call[c]).live
            <4>1. call[c] \in Sent /\ call[c] \in Call
                BY <1>t DEF Sent
            <4>2. Unseen(call[c]) \in Sent /\ Unseen(call[c]).id = i /\ Unseen(call[c]).live
                BY <1>10, <2>3, <4>1, UnseenCall
            <4>3. Unseen(call[c]).seen = 0
                BY <4>1 DEF Unseen, Call
            <4> QED
                BY <4>2, <4>3 DEF Sent
        <3>2. call'[c] = [Unseen(call[c]) EXCEPT !.answer = "ok", !.data = Len(tables) + 1] /\ others' = others
            BY <1>0, <1>10, <2>3 DEF Carried, Shape
        <3>3. /\ call'[c].id = i /\ call'[c].live /\ call'[c].seen = 0
              /\ call'[c].answer = "ok" /\ call'[c].data = Len(tables) + 1
            BY <3>1, <3>2 DEF Call
        <3>4. Untold(c, i)' /\ call'[c].data = Len(tables) + 1
            BY <3>3 DEF Untold
        <3>5. \A d \in Calls : Clicked(d)' => Keeps(d, call') /\ call[d].id # i
            <4> SUFFICES ASSUME NEW d \in Calls, Clicked(d)'
                         PROVE  Keeps(d, call') /\ call[d].id # i
                OBVIOUS
            <4>1. d # c /\ call'[d] = call[d]
                BY <2>1, <3>3 DEF Clicked
            <4> QED
                BY <1>10, <2>3, <4>1 DEF OfferInv, Alone, Clicked, Keeps
        <3>6. \A d \in Calls : /\ call'[d].live => call[d].live /\ call'[d].id = call[d].id
                               /\ \A j \in Ids \ {i} : Untold(d, j) => Untold(d, j)' /\ call'[d].data = call[d].data
            BY <1>10, <2>1, <2>3, <3>3 DEF Untold
        <3> QED
            BY <1>0, <1>10, <2>2, <3>2, <3>4, <3>5, <3>6, Disturbed
    <2>4. CASE ~call[c].live
        <3>1. call'[c] = Idle /\ others'[i] = Len(tables) + 1
            BY <1>0, <1>10, <2>4 DEF Carried, Shape
        <3>2. \A d \in Calls : /\ Clicked(d)' => Keeps(d, call')
                               /\ call'[d].live => call[d].live /\ call'[d].id = call[d].id
                               /\ \A j \in Ids \ {i} : Untold(d, j) => Untold(d, j)' /\ call'[d].data = call[d].data
            BY <1>i, <2>1, <2>4, <3>1 DEF Untold, Clicked, Keeps
        <3> QED
            BY <1>0, <1>10, <2>2, <3>1, <3>2, Disturbed
    <2> QED
        BY <2>3, <2>4
<1>11. ASSUME NEW c \in Calls, ServeStatus(c) \/ ServeDelete(c) PROVE OfferInv'
    <2>1. call[c].id \in Ids /\ call[c].status \in Statuses \cup {None}
        BY <1>11, <1>t DEF ServeStatus, ServeDelete, Unanswered, Changes, Call, Sent
    <2> QED
        BY <1>10, <1>11, <2>1 DEF ServeStatus, ServeDelete, Unanswered, Changes
<1>12. ASSUME NEW c \in Calls, Refuse(c) PROVE OfferInv'
    <2>1. /\ call'[c] = Idle /\ call[c].answer = "none" /\ \A d \in Calls \ {c} : call'[d] = call[d]
          /\ UNCHANGED <<tables, cache, acked, others>>
        BY <1>0, <1>12 DEF Refuse, Unanswered, Shape, history
    <2>2. \A d \in Calls : \/ Keeps(d, call') /\ call'[d].data = call[d].data
                           \/ /\ call'[d].kind \in {"idle", "fetch"} /\ call'[d].live = FALSE
                              /\ call[d].live => call[d].answer # "ok"
        BY <1>i, <2>1 DEF Keeps
    <2> QED
        BY <1>c, <1>g, <2>1, <2>2
<1>13. ASSUME NEW c \in Calls, Lose(c) PROVE OfferInv'
    <2>1. /\ call[c].kind \in Changes /\ call[c].live /\ call[c].id \in Ids
          /\ \A d \in Calls \ {c} : call'[d] = call[d]
          /\ UNCHANGED <<tables, cache, acked>>
        BY <1>13, <1>t DEF Lose, Sent
    <2>2. \/ call'[c] = Idle
          \/ call[c].answer # "ok" /\ call'[c] = [Unseen(call[c]) EXCEPT !.live = FALSE, !.here = FALSE]
        BY <1>0, <1>13 DEF Lose, Shape
    <2>3. Unseen(call[c]) \in Call /\ Unseen(call[c]).seen = 0
        <3>1. call[c] \in Sent /\ call[c] \in Call
            BY <1>t DEF Sent
        <3>2. Unseen(call[c]) \in Sent
            BY <2>1, <3>1, UnseenCall
        <3>3. Unseen(call[c]).seen = 0
            BY <3>1 DEF Unseen, Call
        <3> QED
            BY <3>2, <3>3 DEF Sent
    <2>4. /\ call'[c].live = FALSE /\ ~Clicked(c)'
        BY <1>i, <2>2, <2>3 DEF Call, Clicked
    <2>5. /\ \A i \in Ids : others[i] <= others'[i]
          /\ call[c].answer = "ok" => call[c].data <= others'[call[c].id]
        BY <1>0, <1>13, <1>t, <2>1 DEF Lose, Shape
    <2>6. Counted
        BY <1>t, <2>1, <2>5 DEF Counted, Untold
    <2>7. \A d \in Calls : /\ Clicked(d)' => Keeps(d, call')
                           /\ call'[d].live => call[d].live /\ call'[d].id = call[d].id
        BY <2>1, <2>4 DEF Keeps
    <2> QED
        BY <1>0, <1>c, <1>t, <2>1, <2>5, <2>6, <2>7, Undisturbed
<1>14. ASSUME NEW i \in Ids, ChangeElsewhere(i) PROVE OfferInv'
    <2>1. PICK s \in (Wanted \cup {None}) \ {Now[i]} : Changed(i, s)
        BY <1>14 DEF ChangeElsewhere
    <2>2. /\ UNCHANGED <<cache, call, acked>> /\ others'[i] = Len(tables) + 1
          /\ \A j \in Ids \ {i} : others'[j] = others[j]
        BY <1>0, <1>14 DEF ChangeElsewhere, Shape
    <2>3. \A d \in Calls : /\ Keeps(d, call') /\ call'[d].data = call[d].data
                           /\ \A j \in Ids : Untold(d, j) => Untold(d, j)'
        BY <2>2 DEF Keeps, Untold
    <2>4. s \in Statuses \cup {None}
        BY PagesAssumption
    <2> QED
        BY <1>0, <2>1, <2>2, <2>3, <2>4, Disturbed DEF Keeps
<1>15. ASSUME NEW c \in Calls, FetchSucceeds(c) PROVE OfferInv'
    <2>1. /\ call[c].kind = "fetch" /\ ~call[c].live /\ call[c].answer = "ok" /\ call[c].view \in Views
          /\ call'[c] = Idle /\ \A d \in Calls \ {c} : call'[d] = call[d]
          /\ UNCHANGED <<tables, acked, others>>
        BY <1>0, <1>15, <1>i, <1>l, <1>t DEF FetchSucceeds, Shape, Sent
    <2>2. \A v \in Views : cache'[v] = cache[v] \/ cache'[v].data = call[c].data
        BY <1>0, <1>15, <2>1 DEF FetchSucceeds, Shape
    <2>3. CacheInTime'
        BY <2>1, <2>2 DEF PagesInv, InTime, OfferInv, CacheInTime
    <2>4. \A d \in Calls : \/ Keeps(d, call') /\ call'[d].data = call[d].data
                           \/ /\ call'[d].kind \in {"idle", "fetch"} /\ call'[d].live = FALSE
                              /\ call[d].live => call[d].answer # "ok"
        BY <1>i, <2>1 DEF Keeps
    <2> QED
        BY <1>g, <2>1, <2>3, <2>4
\* What an acknowledgement leaves of the requests.
<1>k. ASSUME NEW c \in Calls, Acknowledged(c)
      PROVE  /\ CacheInTime' /\ tables' = tables /\ others' = others
             /\ acked <= acked' /\ call[c].data <= acked'
             /\ \A d \in Calls : LET x == AfterInvalidation(c) IN
                  \/ Keeps(d, x) /\ x[d].data = call[d].data
                  \/ /\ x[d].kind \in {"idle", "fetch"} /\ x[d].live = FALSE
                     /\ call[d].live /\ call[d].answer = "ok" => call[d].data <= acked'
    <2> DEFINE x == AfterInvalidation(c)
    <2>1. /\ x \in [Calls -> Sent] /\ x[c].kind \in {"idle", "fetch"}
          /\ \A d \in Calls \ {c} : /\ x[d] = call[d] \/ x[d] = Idle
                                    /\ ~Fetches(d, view) => x[d] = call[d]
        BY <1>k, Invalidating
    <2> HIDE DEF x
    <2>2. tables' = tables /\ others' = others /\ acked <= acked' /\ call[c].data <= acked'
        BY <1>k, <1>t DEF Acknowledged
    <2>3. CacheInTime'
        BY <1>0, <1>k, <2>2, InvalidatedType DEF Acknowledged, OfferInv, CacheInTime
    <2>4. \A d \in Calls : Fetches(d, view) => ~call[d].live
        BY <1>i, <1>l DEF Fetches
    <2>5. x[c].live = FALSE
        BY <1>i, <2>1 DEF Sent
    <2>6. \A d \in Calls : \/ Keeps(d, x) /\ x[d].data = call[d].data
                           \/ /\ x[d].kind \in {"idle", "fetch"} /\ x[d].live = FALSE
                              /\ call[d].live /\ call[d].answer = "ok" => call[d].data <= acked'
        BY <1>i, <2>1, <2>2, <2>4, <2>5 DEF Keeps
    <2> QED
        BY <2>2, <2>3, <2>6 DEF x
<1>16. ASSUME NEW c \in Calls, ChangeSucceeds(c) PROVE OfferInv'
    <2>1. Acknowledged(c) /\ call' = AfterInvalidation(c)
        BY <1>16 DEF ChangeSucceeds
    <2> QED
        BY <1>f, <1>k, <2>1
<1>17. ASSUME NEW c \in Calls, NEW d \in Calls, DeleteLeaves(c, d) PROVE OfferInv'
    <2> DEFINE x == AfterInvalidation(c)
    <2>1. Acknowledged(c) /\ call[d] = Idle /\ Shows(d, "all", Away(x))
        BY <1>17 DEF DeleteLeaves
    <2>2. /\ CacheInTime' /\ tables' = tables /\ others' = others /\ acked <= acked'
          /\ \A e \in Calls : \/ Keeps(e, x) /\ x[e].data = call[e].data
                              \/ /\ x[e].kind \in {"idle", "fetch"} /\ x[e].live = FALSE
                                 /\ call[e].live /\ call[e].answer = "ok" => call[e].data <= acked'
        BY <1>k, <2>1
    <2>3. x \in [Calls -> Sent]
        BY <1>0, AfterInvalidationType
    <2> HIDE DEF x
    <2>4. \A e \in Calls : /\ Away(x)[e].kind = x[e].kind /\ Away(x)[e].id = x[e].id
                           /\ Away(x)[e].status = x[e].status /\ Away(x)[e].view = x[e].view
                           /\ Away(x)[e].seen = x[e].seen /\ Away(x)[e].live = x[e].live
                           /\ Away(x)[e].answer = x[e].answer /\ Away(x)[e].data = x[e].data
        BY <2>3 DEF Away, Sent, Call
    <2>5. Away(x) \in [Calls -> Sent]
        BY <2>3, AwayType
    <2>6. \A e \in Calls : call'[e] = Away(x)[e] \/ (e = d /\ call'[e] = Fetch("all"))
        BY <2>1, <2>5 DEF Shows
    <2>7. \A e \in Calls : \/ Keeps(e, call') /\ call'[e].data = call[e].data
                           \/ /\ call'[e].kind \in {"idle", "fetch"} /\ call'[e].live = FALSE
                              /\ call[e].live /\ call[e].answer = "ok" => call[e].data <= acked'
        BY <1>i, <2>1, <2>2, <2>4, <2>6, Pages DEF Keeps
    <2> QED
        BY <1>f, <2>2, <2>7
<1>18. ASSUME NEW i \in Ids, ToggleMenu(i) PROVE OfferInv'
    BY <1>4, <1>18 DEF ToggleMenu, history
<1>19. CASE UNCHANGED vars
    BY <1>4, <1>19 DEF vars, history
<1> QED
    BY <1>1, <1>2, <1>3, <1>6, <1>7, <1>8, <1>9, <1>11, <1>12, <1>13, <1>14,
       <1>15, <1>16, <1>17, <1>18, <1>19 DEF Next, Acts, Answer, Deliver

(* Whatever other tabs do meanwhile, and in whatever order answers come or     *)
(* are lost: a transition clicked on a current view, by a tab with no other    *)
(* change of the campaign under way, is one the buttons offer for the status   *)
(* the campaign has when the server carries it out, unless somebody else has   *)
(* changed the campaign in between.                                            *)
THEOREM TransitionsFit == Spec => TransitionsWereOffered
<1>1. OfferInv =>
        \A c \in Calls :
          /\ call[c].kind = "status" /\ call[c].answer = "none" /\ call'[c].answer = "ok"
          /\ call[c].seen # 0 /\ others[call[c].id] <= call[c].seen
          => call[c].status \in Offers(call[c].view, Now[call[c].id])
    BY DEF OfferInv, Fitting, Clicked
<1>2. Spec => []OfferInv
    BY OfferInvInit, OfferInvNext, PagesInvHolds, PTL DEF Spec
<1> QED
    BY <1>1, <1>2, PTL DEF TransitionsWereOffered
=============================================================================

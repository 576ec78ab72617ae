----------------------------- MODULE CreateForm -----------------------------
(***************************************************************************)
(* CampaignCreateModal on the list page, and the requests it sends.        *)
(*                                                                         *)
(* The page keeps the component mounted and only shows or hides what it    *)
(* renders: hiding takes the fields away with what was typed, while the    *)
(* input type, which is state of the component, and a request that is      *)
(* pending survive until the user leaves the page.  A draft is what is     *)
(* typed between two openings.                                             *)
(*                                                                         *)
(* The page is rendered before the tab handles the next click.             *)
(***************************************************************************)
EXTENDS Integers, FiniteSets

CONSTANTS
  InputTypes,  \* of INPUT_TYPES, the ones used
  MaxDrafts,   \* bound on the drafts
  MaxPosts,    \* bound on the requests sent
  None

ASSUME FormAssumption ==
  /\ "keywords" \in InputTypes /\ InputTypes \subseteq {"keywords", "profiles", "ai_queries"}
  /\ MaxDrafts \in Nat /\ MaxPosts \in Nat
  /\ None \notin 1..MaxDrafts

Drafts == 1..MaxDrafts
Posts == 1..MaxPosts

\* The search terms are typed into one input for keywords and profiles and
\* into a textarea for queries.
Field(type) == IF type = "ai_queries" THEN "textarea" ELSE "input"

\* Terms are known by the draft and the field they were typed in.
Terms == [draft : Drafts, field : {"input", "textarea"}]

\* What the form holds.  A name may be all blanks.
Fields == [type : InputTypes, name : {"none", "blank", "given"}, terms : Terms \cup {None}]

\* A POST.  lost: nobody waits for its answer, but it may still be carried
\* out; done: it has been, and the answer is on its way; here: the component
\* that sent it is still mounted.
Post == [state : {"unsent", "sent", "lost", "done", "over"}, draft : Drafts \cup {None},
         body : Fields \cup {None}, here : BOOLEAN]

VARIABLES
  mounted,  \* the list page is on the screen
  open,     \* showCreate
  form,     \* inputType and the fields
  drafts,   \* how many drafts there have been
  post,     \* the requests
  made,     \* the number of campaigns created from each draft
  unsure    \* history: the drafts of which the tab does not know whether a POST
            \* was carried out: no answer came, or it was a 500 although it was

vars == <<mounted, open, form, drafts, post, made, unsure>>

Empty == [type |-> "keywords", name |-> "none", terms |-> None]

TypeOK ==
  /\ mounted \in BOOLEAN /\ open \in BOOLEAN /\ (open => mounted)
  /\ form \in Fields
  /\ drafts \in 0..MaxDrafts
  /\ post \in [Posts -> Post]
  /\ made \in [Drafts -> 0..MaxPosts]
  /\ unsure \in SUBSET Drafts

Init ==
  /\ mounted = TRUE /\ open = FALSE
  /\ form = Empty
  /\ drafts = 0
  /\ post = [p \in Posts |-> [state |-> "unsent", draft |-> None, body |-> None, here |-> FALSE]]
  /\ made = [d \in Drafts |-> 0]
  /\ unsure = {}

\* Nothing is rendered, so the fields are gone.
Hidden(f) == [Empty EXCEPT !.type = f.type]

\* A variant: the button waits for the server only.
PendingUnserved == \E p \in Posts : post[p].here /\ post[p].state = "sent"

\* isPending of this component's mutation: the button is disabled.
Pending == \E p \in Posts : post[p].here /\ post[p].state \in {"sent", "done"}
-----------------------------------------------------------------------------
(* The user *)

\* New Campaign, and Create Campaign where the list is empty.
OpenForm ==
  /\ mounted /\ ~open /\ drafts < MaxDrafts
  /\ open' = TRUE /\ drafts' = drafts + 1
  /\ UNCHANGED <<mounted, form, post, made, unsure>>

\* The backdrop, the cross and Cancel: nobody asks about the draft.
CloseForm ==
  /\ open
  /\ open' = FALSE /\ form' = Hidden(form)
  /\ UNCHANGED <<mounted, drafts, post, made, unsure>>

\* A variant: one field for the terms of every type.
WithTypeOnly(type) == [form EXCEPT !.type = type]

\* Keywords and profiles share their input and what is in it.
WithType(type) ==
  [form EXCEPT !.type = type, !.terms = IF Field(type) = Field(form.type) THEN @ ELSE None]

SelectType(type) ==
  /\ open /\ type # form.type
  /\ form' = WithType(type)
  /\ UNCHANGED <<mounted, open, drafts, post, made, unsure>>

TypeName(name) ==
  /\ open
  /\ form' = [form EXCEPT !.name = name]
  /\ UNCHANGED <<mounted, open, drafts, post, made, unsure>>

TypeTerms ==
  /\ open
  /\ form' = [form EXCEPT !.terms = [draft |-> drafts, field |-> Field(form.type)]]
  /\ UNCHANGED <<mounted, open, drafts, post, made, unsure>>

\* handleSubmit, once the browser has found the required name.
Submit(p) ==
  /\ open /\ form.name # "none"
  /\ ~Pending
  /\ post[p].state = "unsent" /\ \A q \in 1..p - 1 : post[q].state # "unsent"
  /\ post' = [post EXCEPT ![p] = [state |-> "sent", draft |-> drafts, body |-> form, here |-> TRUE]]
  /\ UNCHANGED <<mounted, open, form, drafts, made, unsure>>

\* The page of a campaign, or of the login after a 403: the component is
\* unmounted, the request and the callbacks of the hook live on.
LeavePage ==
  /\ mounted
  /\ mounted' = FALSE /\ open' = FALSE /\ form' = Empty
  /\ post' = [p \in Posts |-> [post[p] EXCEPT !.here = FALSE]]
  /\ UNCHANGED <<drafts, made, unsure>>

ReturnToPage ==
  /\ ~mounted
  /\ mounted' = TRUE
  /\ UNCHANGED <<open, form, drafts, post, made, unsure>>

\* A full page load, with which nobody waits for an answer any more.
Reload ==
  /\ mounted' = TRUE /\ open' = FALSE /\ form' = Empty
  /\ post' = [p \in Posts |-> [post[p] EXCEPT !.here = FALSE,
       !.state = CASE @ = "sent" -> "lost" [] @ = "done" -> "over" [] OTHER -> @]]
  /\ unsure' = unsure \cup {post[p].draft : p \in {q \in Posts : post[q].state \in {"sent", "done"}}}
  /\ UNCHANGED <<drafts, made>>
-----------------------------------------------------------------------------
(* The requests *)

\* Two variants: a failed POST is sent once more; the request has no timeout.
OverAgain(p) == [post EXCEPT ![p].state = "sent"]
Unlimited(p) == FALSE /\ UNCHANGED vars

Over(p) == [post EXCEPT ![p].state = "over", ![p].here = FALSE]

\* The server creates a campaign for every POST with a name, also when nobody
\* waits any more.
Serve(p) ==
  /\ post[p].state \in {"sent", "lost"} /\ post[p].body.name = "given"
  /\ made' = [made EXCEPT ![post[p].draft] = @ + 1]
  /\ post' = IF post[p].state = "sent" THEN [post EXCEPT ![p].state = "done"] ELSE Over(p)
  /\ UNCHANGED <<mounted, open, form, drafts, unsure>>

\* 400 for a blank name, 403, 500: a toast, and the form keeps its draft.  A 500
\* may come after the INSERT has committed (AfterCommit in CampaignService).
\* After a 403 the interceptor also leaves the page, a little later: LeavePage.
Refuse(p) ==
  /\ post[p].state \in {"sent", "lost", "done"}
  /\ post' = Over(p)
  /\ unsure' = IF post[p].state = "done" THEN unsure \cup {post[p].draft} ELSE unsure
  /\ UNCHANGED <<mounted, open, form, drafts, made>>

\* The same toast 15 s after the request, or when the connection breaks.
TimesOut(p) ==
  /\ post[p].state \in {"sent", "done"}
  /\ post' = IF post[p].state = "done" THEN Over(p)
             ELSE [post EXCEPT ![p].state = "lost", ![p].here = FALSE]
  /\ unsure' = unsure \cup {post[p].draft}
  /\ UNCHANGED <<mounted, open, form, drafts, made>>

\* onSuccess of handleSubmit, if the component is still there: the form is
\* closed whichever draft is in it by now.  e.currentTarget is null by then.
Succeeds(p) ==
  /\ post[p].state = "done"
  /\ post' = Over(p)
  /\ IF post[p].here THEN open' = FALSE /\ form' = Empty ELSE UNCHANGED <<open, form>>
  /\ UNCHANGED <<mounted, drafts, made, unsure>>

Next == \/ OpenForm \/ CloseForm \/ TypeTerms \/ LeavePage \/ ReturnToPage \/ Reload
        \/ \E t \in InputTypes : SelectType(t)
        \/ \E n \in {"none", "blank", "given"} : TypeName(n)
        \/ \E p \in Posts : Submit(p) \/ Serve(p) \/ Refuse(p) \/ TimesOut(p) \/ Succeeds(p)

\* What the tab itself guarantees, once a request is sent, is the timeout of
\* axios; React Query holds requests back only while the browser is offline.
Spec == Init /\ [][Next]_vars /\ \A p \in Posts : WF_vars(TimesOut(p))
-----------------------------------------------------------------------------
(* Properties *)

\* A draft becomes two campaigns only if the tab was left in doubt about one of
\* its POSTs, by no answer or by a 500 after the INSERT: from the click to the
\* answer the button is disabled, even if the form is closed and opened again
\* meanwhile, and after a success the draft is gone.
OneCampaignPerDraft == \A d \in Drafts : made[d] <= 1 \/ d \in unsure

\* A request carries the terms of its own draft, never those of one the user
\* gave up, and from the field its input type shows.  (Keywords and profiles
\* show the same field: after a switch between the two, what was typed as one
\* is sent as the other.)
TermsAreOfTheDraft ==
  \A p \in Posts : post[p].state # "unsent" /\ post[p].body.terms # None =>
    /\ post[p].body.terms.draft = post[p].draft
    /\ post[p].body.terms.field = Field(post[p].body.type)

\* The button is not disabled for ever, whatever the server does.
ButtonComesBack == Pending ~> ~Pending
=============================================================================

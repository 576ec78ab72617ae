-------------------------- MODULE CreateFormProofs --------------------------
(***************************************************************************)
(* What holds of CreateForm for any number of drafts and requests.         *)
(***************************************************************************)
EXTENDS CreateForm, FiniteSetTheorems, TLAPS

Active(p) == post[p].state \in {"sent", "done"}

\* The shapes, the number of campaigns apart; only a draft there has been is
\* ever sent.
ShapeInv ==
  /\ mounted \in BOOLEAN /\ open \in BOOLEAN /\ (open => mounted)
  /\ form \in Fields
  /\ drafts \in 0..MaxDrafts
  /\ post \in [Posts -> Post]
  /\ made \in [Drafts -> Nat]
  /\ unsure \in SUBSET Drafts
  /\ open => drafts \in Drafts
  /\ \A p \in Posts : post[p].state # "unsent" =>
        /\ post[p].draft \in Drafts /\ post[p].draft <= drafts
        /\ post[p].body \in Fields

\* What a step does to the requests, field by field.
LEMMA OverFields ==
  ASSUME ShapeInv, NEW p \in Posts, post' = Over(p)
  PROVE  /\ post' \in [Posts -> Post]
         /\ \A q \in Posts :
              /\ post'[q].state = IF q = p THEN "over" ELSE post[q].state
              /\ post'[q].here = IF q = p THEN FALSE ELSE post[q].here
              /\ post'[q].draft = post[q].draft /\ post'[q].body = post[q].body
<1>1. ASSUME NEW q \in Posts
      PROVE  /\ post'[q] \in Post
             /\ post'[q].state = IF q = p THEN "over" ELSE post[q].state
             /\ post'[q].here = IF q = p THEN FALSE ELSE post[q].here
             /\ post'[q].draft = post[q].draft /\ post'[q].body = post[q].body
    BY DEF ShapeInv, Over, Post
<1>2. post' = [q \in Posts |-> post'[q]]
    BY DEF ShapeInv, Over
<1> QED
    BY <1>1, <1>2

LEMMA SucceedsFields ==
  ASSUME ShapeInv, NEW p \in Posts, Succeeds(p)
  PROVE  /\ post[p].state = "done" /\ post' = Over(p)
         /\ UNCHANGED <<mounted, drafts, made, unsure>>
         /\ \/ post[p].here /\ open' = FALSE /\ form' = Empty
            \/ ~post[p].here /\ UNCHANGED <<open, form>>
<1>1. CASE post[p].here
    BY <1>1 DEF Succeeds
<1>2. CASE ~post[p].here
    BY <1>2 DEF Succeeds
<1> QED
    BY <1>1, <1>2

LEMMA AwayFields ==
  ASSUME ShapeInv, post' = [p \in Posts |-> [post[p] EXCEPT !.here = FALSE]]
  PROVE  \A q \in Posts :
           /\ post'[q].state = post[q].state /\ ~post'[q].here
           /\ post'[q].draft = post[q].draft /\ post'[q].body = post[q].body
           /\ post'[q] \in Post
BY DEF ShapeInv, Post

LEMMA ReloadFields ==
  ASSUME ShapeInv, Reload
  PROVE  /\ post' \in [Posts -> Post]
         /\ \A q \in Posts :
              /\ post'[q].state = CASE post[q].state = "sent" -> "lost"
                                    [] post[q].state = "done" -> "over"
                                    [] OTHER -> post[q].state
              /\ ~post'[q].here
              /\ post'[q].draft = post[q].draft /\ post'[q].body = post[q].body
         /\ \A q \in Posts : Active(q) => post[q].draft \in unsure'
         /\ unsure \subseteq unsure' /\ unsure' \subseteq Drafts
<1>1. \A q \in Posts : post[q] \in Post
    BY DEF ShapeInv
<1>2. \A q \in Posts : post'[q] = [post[q] EXCEPT !.here = FALSE,
         !.state = CASE post[q].state = "sent" -> "lost" [] post[q].state = "done" -> "over"
                     [] OTHER -> post[q].state]
    BY <1>1 DEF Reload, Post
<1>3. ASSUME NEW q \in Posts
      PROVE  /\ post'[q].state = CASE post[q].state = "sent" -> "lost"
                                    [] post[q].state = "done" -> "over"
                                    [] OTHER -> post[q].state
             /\ ~post'[q].here
             /\ post'[q].draft = post[q].draft /\ post'[q].body = post[q].body
             /\ post'[q] \in Post
    <2>1. CASE post[q].state = "sent"
        <3>1. post'[q] = [post[q] EXCEPT !.here = FALSE, !.state = "lost"]
            BY <1>2, <2>1
        <3> QED
            BY <1>1, <2>1, <3>1 DEF Post
    <2>2. CASE post[q].state = "done"
        <3>1. post'[q] = [post[q] EXCEPT !.here = FALSE, !.state = "over"]
            BY <1>2, <2>2
        <3> QED
            BY <1>1, <2>2, <3>1 DEF Post
    <2>3. CASE post[q].state \notin {"sent", "done"}
        BY <1>1, <1>2, <2>3 DEF Post
    <2> QED
        BY <2>1, <2>2, <2>3
<1>4. \A q \in Posts : Active(q) => post[q].draft \in Drafts
    BY DEF ShapeInv, Active
<1> QED
    BY <1>3, <1>4 DEF Reload, Active, ShapeInv

LEMMA RefuseFields ==
  ASSUME ShapeInv, NEW p \in Posts, Refuse(p)
  PROVE  /\ post' = Over(p) /\ post[p].state # "unsent"
         /\ UNCHANGED <<mounted, open, form, drafts, made>>
         /\ unsure \subseteq unsure' /\ unsure' \subseteq Drafts
         /\ post[p].state = "done" => post[p].draft \in unsure'
<1>1. post[p].state # "unsent" /\ post[p].draft \in Drafts
    BY DEF Refuse, ShapeInv
<1> QED
    BY <1>1 DEF Refuse, ShapeInv

LEMMA LostFields ==
  ASSUME ShapeInv, NEW p \in Posts, TimesOut(p)
  PROVE  /\ post' \in [Posts -> Post]
         /\ \A q \in Posts \ {p} : post'[q] = post[q]
         /\ post'[p].state \in {"lost", "over"} /\ ~post'[p].here
         /\ post'[p].draft = post[p].draft /\ post'[p].body = post[p].body
         /\ post[p].state = "done" <=> post'[p].state = "over"
         /\ post[p].draft \in Drafts
         /\ unsure' = unsure \cup {post[p].draft}
BY DEF ShapeInv, TimesOut, Over, Post

LEMMA ServeFields ==
  ASSUME ShapeInv, NEW p \in Posts, Serve(p)
  PROVE  /\ post' \in [Posts -> Post]
         /\ \A q \in Posts \ {p} : post'[q] = post[q]
         /\ \/ post[p].state = "sent" /\ post'[p].state = "done" /\ post'[p].here = post[p].here
            \/ post[p].state = "lost" /\ post'[p].state = "over" /\ ~post'[p].here
         /\ post'[p].draft = post[p].draft /\ post'[p].body = post[p].body
         /\ post[p].draft \in Drafts
         /\ made'[post[p].draft] = made[post[p].draft] + 1
         /\ \A d \in Drafts \ {post[p].draft} : made'[d] = made[d]
         /\ made' \in [Drafts -> Nat]
<1>1. post[p] \in Post /\ post[p].draft \in Drafts
    BY DEF ShapeInv, Serve
<1>2. CASE post[p].state = "sent"
    <2>1. post' = [post EXCEPT ![p].state = "done"]
        BY <1>2 DEF Serve
    <2>2. post' \in [Posts -> Post]
        BY <2>1 DEF ShapeInv, Post
    <2> QED
        BY <1>1, <1>2, <2>1, <2>2 DEF ShapeInv, Serve
<1>3. CASE post[p].state = "lost"
    <2>1. post' = Over(p)
        BY <1>3 DEF Serve
    <2>2. /\ post' \in [Posts -> Post]
          /\ \A q \in Posts \ {p} : post'[q] = post[q]
          /\ post'[p].state = "over" /\ ~post'[p].here
          /\ post'[p].draft = post[p].draft /\ post'[p].body = post[p].body
        BY <2>1, OverFields DEF Over
    <2>3. /\ made'[post[p].draft] = made[post[p].draft] + 1
          /\ \A d \in Drafts \ {post[p].draft} : made'[d] = made[d]
          /\ made' \in [Drafts -> Nat]
        BY <1>1 DEF ShapeInv, Serve
    <2> QED
        BY <1>1, <1>3, <2>2, <2>3
<1> QED
    BY <1>2, <1>3 DEF Serve

LEMMA SubmitFields ==
  ASSUME ShapeInv, NEW p \in Posts, Submit(p)
  PROVE  /\ post' \in [Posts -> Post]
         /\ \A q \in Posts \ {p} : post'[q] = post[q]
         /\ post'[p] = [state |-> "sent", draft |-> drafts, body |-> form, here |-> TRUE]
         /\ drafts \in Drafts
BY DEF ShapeInv, Submit, Post

LEMMA ShapeInit == Init => ShapeInv
<1> SUFFICES ASSUME Init PROVE ShapeInv
    OBVIOUS
<1>1. Empty \in Fields
    BY FormAssumption DEF Empty, Fields
<1>2. post \in [Posts -> Post] /\ \A p \in Posts : post[p].state = "unsent"
    BY DEF Init, Post
<1>3. drafts \in 0..MaxDrafts /\ made \in [Drafts -> Nat] /\ unsure \subseteq Drafts
    BY FormAssumption DEF Init
<1>4. mounted = TRUE /\ open = FALSE /\ form = Empty
    BY DEF Init
<1> QED
    BY <1>1, <1>2, <1>3, <1>4 DEF ShapeInv

LEMMA ShapeNext == ShapeInv /\ [Next]_vars => ShapeInv'
<1> SUFFICES ASSUME ShapeInv, [Next]_vars
             PROVE  ShapeInv'
    OBVIOUS
<1>a. Empty \in Fields /\ Hidden(form) \in Fields
    BY FormAssumption DEF Empty, Hidden, Fields, ShapeInv
<1>1. CASE OpenForm
    BY <1>1, FormAssumption DEF OpenForm, Drafts, ShapeInv
<1>2. CASE CloseForm
    BY <1>2, <1>a DEF CloseForm, ShapeInv
<1>3. ASSUME NEW type \in InputTypes, SelectType(type) PROVE ShapeInv'
    <2>1. WithType(type) \in Fields
        BY <1>3 DEF WithType, Fields, ShapeInv
    <2> QED
        BY <1>3, <2>1 DEF SelectType, ShapeInv
<1>4. ASSUME NEW name \in {"none", "blank", "given"}, TypeName(name) PROVE ShapeInv'
    BY <1>4 DEF TypeName, Fields, ShapeInv
<1>5. CASE TypeTerms
    <2>1. [draft |-> drafts, field |-> Field(form.type)] \in Terms
        BY <1>5 DEF TypeTerms, Field, Terms, ShapeInv
    <2> QED
        BY <1>5, <2>1 DEF TypeTerms, Fields, ShapeInv
<1>6. ASSUME NEW p \in Posts, Submit(p) PROVE ShapeInv'
    <2>1. /\ post' \in [Posts -> Post]
          /\ \A q \in Posts \ {p} : post'[q] = post[q]
          /\ post'[p] = [state |-> "sent", draft |-> drafts, body |-> form, here |-> TRUE]
          /\ drafts \in Drafts
        BY <1>6, SubmitFields
    <2>2. UNCHANGED <<mounted, open, form, drafts, made, unsure>>
        BY <1>6 DEF Submit
    <2> QED
        BY <2>1, <2>2 DEF ShapeInv, Drafts
<1>7. CASE LeavePage
    <2>1. post' \in [Posts -> Post]
        BY <1>7 DEF LeavePage, ShapeInv, Post
    <2>2. post' = [p \in Posts |-> [post[p] EXCEPT !.here = FALSE]]
        BY <1>7 DEF LeavePage
    <2>3. \A q \in Posts : /\ post'[q].state = post[q].state
                           /\ post'[q].draft = post[q].draft /\ post'[q].body = post[q].body
        BY <2>2, AwayFields
    <2> QED
        BY <1>7, <1>a, <2>1, <2>3 DEF LeavePage, ShapeInv
<1>8. CASE ReturnToPage
    BY <1>8 DEF ReturnToPage, ShapeInv
<1>9. CASE Reload
    <2>1. /\ post' \in [Posts -> Post]
          /\ \A q \in Posts : /\ post'[q].state # "unsent" => post[q].state # "unsent"
                               /\ post'[q].draft = post[q].draft /\ post'[q].body = post[q].body
          /\ unsure' \subseteq Drafts
        BY <1>9, ReloadFields
    <2> QED
        BY <1>9, <1>a, <2>1 DEF Reload, ShapeInv
<1>10. ASSUME NEW p \in Posts, Serve(p) PROVE ShapeInv'
    <2>1. /\ post' \in [Posts -> Post]
          /\ \A q \in Posts : /\ post'[q].state # "unsent" => post[q].state # "unsent"
                               /\ post'[q].draft = post[q].draft /\ post'[q].body = post[q].body
          /\ made' \in [Drafts -> Nat]
        BY <1>10, ServeFields
    <2> QED
        BY <1>10, <2>1 DEF Serve, ShapeInv
<1>11. ASSUME NEW p \in Posts, Refuse(p) PROVE ShapeInv'
    <2>1. post' \in [Posts -> Post]
        BY <1>11 DEF Refuse, Over, Post, ShapeInv
    <2>2. /\ post' = Over(p) /\ post[p].state # "unsent"
          /\ UNCHANGED <<mounted, open, form, drafts, made>>
          /\ unsure' \subseteq Drafts
        BY <1>11, RefuseFields
    <2>3. \A q \in Posts : /\ post'[q].state # "unsent" => post[q].state # "unsent"
                           /\ post'[q].draft = post[q].draft /\ post'[q].body = post[q].body
        BY <2>2, OverFields
    <2> QED
        BY <2>1, <2>2, <2>3 DEF ShapeInv
<1>12. ASSUME NEW p \in Posts, TimesOut(p) PROVE ShapeInv'
    <2>1. /\ post' \in [Posts -> Post]
          /\ \A q \in Posts : /\ post'[q].state # "unsent" => post[q].state # "unsent"
                               /\ post'[q].draft = post[q].draft /\ post'[q].body = post[q].body
          /\ unsure' = unsure \cup {post[p].draft} /\ post[p].draft \in Drafts
        BY <1>12, LostFields DEF TimesOut
    <2> QED
        BY <1>12, <2>1 DEF TimesOut, ShapeInv
<1>13. ASSUME NEW p \in Posts, Succeeds(p) PROVE ShapeInv'
    <2>1. /\ post' = Over(p) /\ post[p].state # "unsent"
          /\ UNCHANGED <<mounted, drafts, made, unsure>>
          /\ \/ UNCHANGED <<open, form>>
             \/ open' = FALSE /\ form' = Empty
        BY <1>13, SucceedsFields
    <2>2. /\ post' \in [Posts -> Post]
          /\ \A q \in Posts : /\ post'[q].state # "unsent" => post[q].state # "unsent"
                              /\ post'[q].draft = post[q].draft /\ post'[q].body = post[q].body
        BY <2>1, OverFields
    <2>3. CASE UNCHANGED <<open, form>>
        BY <2>1, <2>2, <2>3 DEF ShapeInv
    <2>4. CASE open' = FALSE /\ form' = Empty
        BY <1>a, <2>1, <2>2, <2>4 DEF ShapeInv
    <2> QED
        BY <2>1, <2>3, <2>4
<1>14. CASE UNCHANGED vars
    BY <1>14 DEF vars, ShapeInv
<1> QED
    BY <1>1, <1>2, <1>3, <1>4, <1>5, <1>6, <1>7, <1>8, <1>9, <1>10, <1>11, <1>12,
       <1>13, <1>14 DEF Next
-----------------------------------------------------------------------------
(* One campaign per draft, of the drafts the tab is in no doubt about, with  *)
(* what keeps the button disabled: while a request of the draft in the form  *)
(* is under way its component is mounted, and once the draft has become a    *)
(* campaign the form either still waits for the answer or holds another.     *)

DraftInv ==
  /\ ShapeInv
  /\ \A p \in Posts : post[p].state = "lost" => post[p].draft \in unsure
  /\ \A p, q \in Posts : Active(p) /\ Active(q) /\ post[p].draft = post[q].draft
                         /\ post[p].draft \notin unsure => p = q
  /\ \A p \in Posts : Active(p) /\ open /\ post[p].draft = drafts => post[p].here
  /\ \A p \in Posts : post[p].state = "sent" =>
        post[p].draft \in unsure \/ made[post[p].draft] = 0
  /\ \A d \in Drafts : made[d] <= 1 \/ d \in unsure
  /\ open /\ drafts \notin unsure /\ made[drafts] # 0 =>
        \E p \in Posts : post[p].state = "done" /\ post[p].here /\ post[p].draft = drafts
  /\ \A d \in Drafts : d > drafts => made[d] = 0

LEMMA DraftInit == Init => DraftInv
BY ShapeInit DEF Init, DraftInv, Active, Drafts

\* A step that creates no campaign and begins no request or draft.
LEMMA DraftQuiet ==
  ASSUME DraftInv, ShapeInv', UNCHANGED <<drafts, made>>,
         unsure \subseteq unsure', open' => open,
         \A q \in Posts :
           /\ post'[q].draft = post[q].draft
           /\ \/ /\ post'[q].state = post[q].state
                 /\ open' => post'[q].here = post[q].here
              \/ post'[q].state = "over"
              \/ post'[q].state = "lost" /\ post[q].draft \in unsure'
           /\ post[q].state = "done" /\ post[q].here /\ open' /\ post[q].draft \notin unsure'
              => post'[q].state = "done" /\ post'[q].here
  PROVE  DraftInv'
<1>1. \A q \in Posts : post'[q].state \in {"sent", "done"} =>
         /\ post'[q].state = post[q].state
         /\ open' => post'[q].here = post[q].here
    OBVIOUS
<1>2. \A q \in Posts : post'[q].state = "lost" => post'[q].draft \in unsure'
    BY DEF DraftInv
<1>3. \A p, q \in Posts : (Active(p) /\ Active(q) /\ post[p].draft = post[q].draft
                           /\ post[p].draft \notin unsure)' => p = q
    BY <1>1 DEF DraftInv, Active
<1>4. \A p \in Posts : (Active(p) /\ open /\ post[p].draft = drafts)' => post'[p].here
    BY <1>1 DEF DraftInv, Active
<1>5. \A p \in Posts : post'[p].state = "sent" =>
        post'[p].draft \in unsure' \/ made'[post'[p].draft] = 0
    BY <1>1 DEF DraftInv
<1>6. /\ \A d \in Drafts : made'[d] <= 1 \/ d \in unsure'
      /\ \A d \in Drafts : d > drafts' => made'[d] = 0
    BY DEF DraftInv
<1>7. ASSUME open', drafts' \notin unsure', made'[drafts'] # 0
      PROVE  \E p \in Posts : post'[p].state = "done" /\ post'[p].here /\ post'[p].draft = drafts'
    <2>1. PICK p \in Posts : post[p].state = "done" /\ post[p].here /\ post[p].draft = drafts
        BY <1>7 DEF DraftInv
    <2> QED
        BY <1>7, <2>1
<1> QED
    BY <1>2, <1>3, <1>4, <1>5, <1>6, <1>7 DEF DraftInv

LEMMA DraftNext == DraftInv /\ [Next]_vars => DraftInv'
<1> SUFFICES ASSUME DraftInv, [Next]_vars
             PROVE  DraftInv'
    OBVIOUS
<1>0. ShapeInv /\ ShapeInv'
    BY ShapeNext DEF DraftInv
<1>1. CASE OpenForm
    <2>1. /\ drafts' \in Drafts /\ drafts' = drafts + 1 /\ drafts \in Nat
          /\ UNCHANGED <<post, made, unsure>>
        BY <1>0, <1>1 DEF OpenForm, ShapeInv, Drafts
    <2>2. made[drafts'] = 0
        BY <2>1 DEF DraftInv
    <2>3. \A p \in Posts : Active(p) => post[p].draft # drafts'
        BY <1>0, <2>1 DEF ShapeInv, Active
    <2>4. \A d \in Drafts : d > drafts' => d > drafts
        BY <2>1 DEF Drafts
    <2> QED
        BY <1>0, <2>1, <2>2, <2>3, <2>4 DEF DraftInv, Active
<1>2. ASSUME UNCHANGED <<drafts, post, made, unsure>>, open' => open PROVE DraftInv'
    BY <1>0, <1>2 DEF DraftInv, Active
<1>3. CASE CloseForm \/ TypeTerms \/ UNCHANGED vars
    BY <1>2, <1>3 DEF CloseForm, TypeTerms, vars
<1>4. ASSUME NEW x, SelectType(x) \/ TypeName(x) PROVE DraftInv'
    BY <1>2, <1>4 DEF SelectType, TypeName
<1>5. CASE ReturnToPage
    BY <1>2, <1>5 DEF ReturnToPage
<1>6. ASSUME NEW p \in Posts, Submit(p) PROVE DraftInv'
    <2>1. /\ \A q \in Posts \ {p} : post'[q] = post[q]
          /\ post'[p].state = "sent" /\ post'[p].draft = drafts /\ post'[p].here
          /\ drafts \in Drafts
        BY <1>0, <1>6, SubmitFields
    <2>2. open /\ ~Pending /\ UNCHANGED <<open, drafts, made, unsure>> /\ post[p].state = "unsent"
        BY <1>6 DEF Submit
    <2>3. \A q \in Posts : ~(Active(q) /\ post[q].draft = drafts)
        BY <2>2 DEF Pending, Active, DraftInv
    <2>4. drafts \in unsure \/ made[drafts] = 0
        BY <2>2 DEF Pending, Active, DraftInv
    <2> QED
        BY <1>0, <2>1, <2>2, <2>3, <2>4 DEF DraftInv, Active
<1>7. CASE LeavePage
    <2>1. post' = [p \in Posts |-> [post[p] EXCEPT !.here = FALSE]]
        BY <1>7 DEF LeavePage
    <2>2. \A q \in Posts : post'[q].state = post[q].state /\ post'[q].draft = post[q].draft
        BY <1>0, <2>1, AwayFields
    <2>3. ~open' /\ UNCHANGED <<drafts, made, unsure>>
        BY <1>7 DEF LeavePage
    <2> QED
        BY <1>0, <2>2, <2>3, DraftQuiet
<1>8. CASE Reload
    <2>1. /\ \A q \in Posts : /\ post'[q].draft = post[q].draft
                              /\ \/ post'[q].state = post[q].state
                                 \/ post'[q].state = "over"
                                 \/ post'[q].state = "lost" /\ Active(q)
          /\ \A q \in Posts : Active(q) => post[q].draft \in unsure'
          /\ unsure \subseteq unsure'
        BY <1>0, <1>8, ReloadFields DEF Active
    <2>2. ~open' /\ UNCHANGED <<drafts, made>>
        BY <1>8 DEF Reload
    <2> QED
        BY <1>0, <2>1, <2>2, DraftQuiet
<1>9. ASSUME NEW p \in Posts, Serve(p) PROVE DraftInv'
    <2> DEFINE d == post[p].draft
    <2>1. /\ \A q \in Posts \ {p} : post'[q] = post[q]
          /\ \/ post[p].state = "sent" /\ post'[p].state = "done" /\ post'[p].here = post[p].here
             \/ post[p].state = "lost" /\ post'[p].state = "over"
          /\ post'[p].draft = d /\ d \in Drafts
          /\ made'[d] = made[d] + 1
          /\ \A e \in Drafts \ {d} : made'[e] = made[e]
        BY <1>0, <1>9, ServeFields
    <2>2. UNCHANGED <<open, drafts, unsure>>
        BY <1>9 DEF Serve
    <2>3. d <= drafts /\ d \in Nat /\ drafts \in Nat
        BY <1>0, <2>1 DEF ShapeInv, Drafts
    <2>4. d > drafts => FALSE
        BY <2>3
    <2>5. \A e \in Drafts : e > drafts => made'[e] = 0
        BY <2>1, <2>4 DEF DraftInv
    <2>6. CASE post[p].state = "lost"
        <3>1. d \in unsure
            BY <2>6 DEF DraftInv
        <3>2. \A q \in Posts : /\ post'[q].draft = post[q].draft
                               /\ post'[q].state \in {"sent", "done"} <=> Active(q)
                               /\ Active(q) => post'[q] = post[q] /\ q # p
                               /\ post'[q].state = "lost" => post[q].state = "lost"
            BY <2>1, <2>6 DEF Active
        <3>3. \A e \in Drafts : e \notin unsure => made'[e] = made[e]
            BY <2>1, <3>1
        <3>4. \A e \in Drafts : made'[e] <= 1 \/ e \in unsure
            BY <3>3 DEF DraftInv
        <3>5. \A q \in Posts : post'[q].state = "sent" =>
                 post[q].draft \in unsure \/ made'[post[q].draft] = 0
            BY <1>0, <3>2, <3>3 DEF DraftInv, Active, ShapeInv
        <3>6. open /\ drafts \notin unsure /\ made'[drafts] # 0 =>
                \E q \in Posts : post'[q].state = "done" /\ post'[q].here /\ post'[q].draft = drafts
            BY <1>0, <3>2, <3>3 DEF DraftInv, Active, ShapeInv
        <3> QED
            BY <1>0, <2>2, <2>5, <3>2, <3>4, <3>5, <3>6 DEF DraftInv, Active
    <2>7. CASE post[p].state = "sent"
        <3>1. made[d] = 0 \/ d \in unsure
            BY <2>7 DEF DraftInv
        <3>2. \A q \in Posts : /\ post'[q].state \in {"sent", "done"} <=> Active(q)
                               /\ post'[q].draft = post[q].draft /\ post'[q].here = post[q].here
                               /\ post'[q].state = "lost" => post[q].state = "lost"
                               /\ post'[q].state = "sent" => post[q].state = "sent" /\ q # p
                               /\ post[q].state = "done" => post'[q].state = "done"
            BY <2>1, <2>7 DEF Active
        <3>3. \A e \in Drafts : made'[e] <= 1 \/ e \in unsure
            BY <2>1, <3>1 DEF DraftInv
        <3>4. \A q \in Posts : post'[q].state = "sent" =>
                 post[q].draft \in unsure \/ made'[post[q].draft] = 0
            BY <1>0, <2>1, <2>7, <3>2 DEF DraftInv, Active, ShapeInv
        <3>5. open /\ drafts \notin unsure /\ made'[drafts] # 0 =>
                \E q \in Posts : post'[q].state = "done" /\ post'[q].here /\ post'[q].draft = drafts
            <4>1. CASE d = drafts
                BY <2>1, <2>7, <3>2, <4>1 DEF DraftInv, Active
            <4>2. CASE d # drafts
                BY <1>0, <2>1, <3>2, <4>2 DEF DraftInv, ShapeInv
            <4> QED
                BY <4>1, <4>2
        <3> QED
            BY <1>0, <2>1, <2>2, <2>5, <3>2, <3>3, <3>4, <3>5 DEF DraftInv, Active
    <2> QED
        BY <2>1, <2>6, <2>7
<1>10. ASSUME NEW p \in Posts, Refuse(p) PROVE DraftInv'
    <2>1. /\ post' = Over(p)
          /\ UNCHANGED <<open, drafts, made>>
          /\ unsure \subseteq unsure'
          /\ post[p].state = "done" => post[p].draft \in unsure'
        BY <1>0, <1>10, RefuseFields
    <2>2. \A q \in Posts : /\ post'[q].state = IF q = p THEN "over" ELSE post[q].state
                           /\ post'[q].here = IF q = p THEN FALSE ELSE post[q].here
                           /\ post'[q].draft = post[q].draft
        BY <1>0, <2>1, OverFields
    <2> QED
        BY <1>0, <2>1, <2>2, DraftQuiet
<1>11. ASSUME NEW p \in Posts, TimesOut(p) PROVE DraftInv'
    <2>1. /\ \A q \in Posts \ {p} : post'[q] = post[q]
          /\ post'[p].state \in {"lost", "over"}
          /\ post'[p].draft = post[p].draft
          /\ unsure' = unsure \cup {post[p].draft}
        BY <1>0, <1>11, LostFields
    <2>2. UNCHANGED <<open, drafts, made>>
        BY <1>11 DEF TimesOut
    <2> QED
        BY <1>0, <2>1, <2>2, DraftQuiet
<1>12. ASSUME NEW p \in Posts, Succeeds(p) PROVE DraftInv'
    <2>1. /\ post' = Over(p)
          /\ UNCHANGED <<drafts, made, unsure>>
          /\ \/ post[p].here /\ ~open'
             \/ ~post[p].here /\ UNCHANGED open
        BY <1>0, <1>12, SucceedsFields
    <2>2. \A q \in Posts : /\ post'[q].state = IF q = p THEN "over" ELSE post[q].state
                           /\ post'[q].here = IF q = p THEN FALSE ELSE post[q].here
                           /\ post'[q].draft = post[q].draft
        BY <1>0, <2>1, OverFields
    <2>3. open' => open /\ ~post[p].here
        BY <2>1
    <2> QED
        BY <1>0, <2>1, <2>2, <2>3, DraftQuiet
<1> QED
    BY <1>1, <1>3, <1>4, <1>5, <1>6, <1>7, <1>8, <1>9, <1>10, <1>11, <1>12 DEF Next

\* Whatever the user does with the form meanwhile and however late the answers
\* are, a second campaign of one draft takes a POST the tab is left in doubt about.
THEOREM DraftsAreUsedOnce == Spec => []OneCampaignPerDraft
<1>1. DraftInv => OneCampaignPerDraft
    BY DEF DraftInv, OneCampaignPerDraft
<1> QED
    BY DraftInit, DraftNext, <1>1, PTL DEF Spec
-----------------------------------------------------------------------------
(* What is sent.  The terms in the form are of the draft that is open, and   *)
(* of the field that shows; they are gone whenever either changes.           *)

TermsInv ==
  /\ ShapeInv
  /\ form.terms # None => /\ open
                          /\ form.terms.draft = drafts
                          /\ form.terms.field = Field(form.type)
  /\ TermsAreOfTheDraft

\* The steps that leave what has been sent, and leave the form or empty it.
LEMMA TermsQuiet ==
  ASSUME TermsInv, ShapeInv',
         \/ UNCHANGED <<form, open, drafts>> \/ form'.terms = None,
         \A q \in Posts : /\ post'[q].state # "unsent" => post[q].state # "unsent"
                          /\ post'[q].draft = post[q].draft /\ post'[q].body = post[q].body
  PROVE  TermsInv'
<1>1. form'.terms # None => /\ open'
                            /\ form'.terms.draft = drafts'
                            /\ form'.terms.field = Field(form'.type)
    BY DEF TermsInv
<1>2. TermsAreOfTheDraft'
    BY DEF TermsInv, TermsAreOfTheDraft
<1> QED
    BY <1>1, <1>2 DEF TermsInv

LEMMA TermsNext == TermsInv /\ [Next]_vars => TermsInv'
<1> SUFFICES ASSUME TermsInv, [Next]_vars
             PROVE  TermsInv'
    OBVIOUS
<1>0. ShapeInv /\ ShapeInv'
    BY ShapeNext DEF TermsInv
<1>a. Empty.terms = None /\ Hidden(form).terms = None
    BY DEF Empty, Hidden
<1>1. CASE OpenForm
    <2>1. form'.terms = None /\ UNCHANGED post
        BY <1>1 DEF OpenForm, TermsInv
    <2> QED
        BY <1>0, <2>1, TermsQuiet
<1>2. CASE CloseForm
    BY <1>0, <1>2, <1>a, TermsQuiet DEF CloseForm
<1>3. ASSUME NEW type \in InputTypes, SelectType(type) PROVE TermsInv'
    <2>1. /\ form'.type = type
          /\ form'.terms = IF Field(type) = Field(form.type) THEN form.terms ELSE None
        BY <1>0, <1>3 DEF SelectType, WithType, ShapeInv, Fields
    <2>2. open' /\ UNCHANGED <<open, drafts, post>>
        BY <1>3 DEF SelectType
    <2> QED
        BY <1>0, <2>1, <2>2 DEF TermsInv, TermsAreOfTheDraft
<1>4. ASSUME NEW name \in {"none", "blank", "given"}, TypeName(name) PROVE TermsInv'
    <2>1. form'.type = form.type /\ form'.terms = form.terms
        BY <1>0, <1>4 DEF TypeName, ShapeInv, Fields
    <2>2. UNCHANGED <<open, drafts, post>>
        BY <1>4 DEF TypeName
    <2> QED
        BY <1>0, <2>1, <2>2 DEF TermsInv, TermsAreOfTheDraft
<1>5. CASE TypeTerms
    <2>1. /\ form'.type = form.type
          /\ form'.terms = [draft |-> drafts, field |-> Field(form.type)]
        BY <1>0, <1>5 DEF TypeTerms, ShapeInv, Fields
    <2>2. open' /\ UNCHANGED <<open, drafts, post>>
        BY <1>5 DEF TypeTerms
    <2> QED
        BY <1>0, <2>1, <2>2 DEF TermsInv, TermsAreOfTheDraft
<1>6. ASSUME NEW p \in Posts, Submit(p) PROVE TermsInv'
    <2>1. /\ \A q \in Posts \ {p} : post'[q] = post[q]
          /\ post'[p].draft = drafts /\ post'[p].body = form
        BY <1>0, <1>6, SubmitFields
    <2>2. UNCHANGED <<open, form, drafts>>
        BY <1>6 DEF Submit
    <2> QED
        BY <1>0, <2>1, <2>2 DEF TermsInv, TermsAreOfTheDraft
<1>7. CASE LeavePage
    <2>1. post' = [p \in Posts |-> [post[p] EXCEPT !.here = FALSE]] /\ form'.terms = None
        BY <1>7, <1>a DEF LeavePage
    <2> QED
        BY <1>0, <2>1, AwayFields, TermsQuiet
<1>8. CASE ReturnToPage \/ UNCHANGED vars
    BY <1>0, <1>8, TermsQuiet DEF ReturnToPage, vars
<1>9. CASE Reload
    <2>1. \A q \in Posts : /\ post'[q].state # "unsent" => post[q].state # "unsent"
                           /\ post'[q].draft = post[q].draft /\ post'[q].body = post[q].body
        BY <1>0, <1>9, ReloadFields
    <2> QED
        BY <1>0, <1>9, <1>a, <2>1, TermsQuiet DEF Reload
<1>10. ASSUME NEW p \in Posts, Serve(p) PROVE TermsInv'
    <2>1. \A q \in Posts : /\ post'[q].state # "unsent" => post[q].state # "unsent"
                           /\ post'[q].draft = post[q].draft /\ post'[q].body = post[q].body
        BY <1>0, <1>10, ServeFields
    <2> QED
        BY <1>0, <1>10, <2>1, TermsQuiet DEF Serve
<1>11. ASSUME NEW p \in Posts, Refuse(p) PROVE TermsInv'
    <2>1. post' = Over(p) /\ post[p].state # "unsent"
        BY <1>11 DEF Refuse
    <2>2. \A q \in Posts : /\ post'[q].state # "unsent" => post[q].state # "unsent"
                           /\ post'[q].draft = post[q].draft /\ post'[q].body = post[q].body
        BY <1>0, <2>1, OverFields
    <2> QED
        BY <1>0, <1>11, <2>2, TermsQuiet DEF Refuse
<1>12. ASSUME NEW p \in Posts, TimesOut(p) PROVE TermsInv'
    <2>1. \A q \in Posts : /\ post'[q].state # "unsent" => post[q].state # "unsent"
                           /\ post'[q].draft = post[q].draft /\ post'[q].body = post[q].body
        BY <1>0, <1>12, LostFields DEF TimesOut
    <2> QED
        BY <1>0, <1>12, <2>1, TermsQuiet DEF TimesOut
<1>13. ASSUME NEW p \in Posts, Succeeds(p) PROVE TermsInv'
    <2>1. /\ post' = Over(p) /\ post[p].state # "unsent" /\ UNCHANGED drafts
          /\ form'.terms = None \/ UNCHANGED <<open, form>>
        BY <1>0, <1>13, <1>a, SucceedsFields
    <2>2. \A q \in Posts : /\ post'[q].state # "unsent" => post[q].state # "unsent"
                           /\ post'[q].draft = post[q].draft /\ post'[q].body = post[q].body
        BY <1>0, <2>1, OverFields
    <2> QED
        BY <1>0, <2>1, <2>2, TermsQuiet
<1> QED
    BY <1>1, <1>2, <1>3, <1>4, <1>5, <1>6, <1>7, <1>8, <1>9, <1>10, <1>11, <1>12,
       <1>13 DEF Next

\* No request carries the terms of another draft or of another field.
THEOREM TermsAreNotMixed == Spec => []TermsAreOfTheDraft
<1>1. Init => TermsInv
    BY ShapeInit DEF Init, TermsInv, TermsAreOfTheDraft, Empty
<1>2. TermsInv => TermsAreOfTheDraft
    BY DEF TermsInv
<1> QED
    BY <1>1, TermsNext, <1>2, PTL DEF Spec
-----------------------------------------------------------------------------
(* Type correctness.  What is left of it is that there are no more campaigns *)
(* of a draft than requests that were carried out.                           *)

Finished(d) == {p \in Posts : post[p].draft = d /\ post[p].state \in {"done", "over"}}

CountInv == ShapeInv /\ \A d \in Drafts : made[d] <= Cardinality(Finished(d))

LEMMA PostsFinite == IsFiniteSet(Posts) /\ Cardinality(Posts) = MaxPosts
BY FS_Interval, FormAssumption DEF Posts

LEMMA FinishedType ==
  ASSUME NEW d \in Drafts
  PROVE  IsFiniteSet(Finished(d)) /\ Cardinality(Finished(d)) \in 0..MaxPosts
<1>1. Finished(d) \subseteq Posts
    BY DEF Finished
<1>2. IsFiniteSet(Finished(d)) /\ Cardinality(Finished(d)) <= MaxPosts
    BY <1>1, PostsFinite, FS_Subset
<1> QED
    BY <1>2, FS_CardinalityType, FormAssumption

\* The steps that create no campaign.
LEMMA CountQuiet ==
  ASSUME CountInv, ShapeInv', UNCHANGED made,
         \A p \in Posts : post[p].state \in {"done", "over"} =>
           post'[p].state \in {"done", "over"} /\ post'[p].draft = post[p].draft
  PROVE  CountInv'
<1> SUFFICES ASSUME NEW d \in Drafts
             PROVE  made[d] <= Cardinality(Finished(d)')
    BY DEF CountInv
<1>1. Finished(d) \subseteq Finished(d)' /\ Finished(d)' \subseteq Posts
    BY DEF Finished
<1>2. IsFiniteSet(Finished(d)')
    BY <1>1, PostsFinite, FS_Subset
<1>3. Cardinality(Finished(d)) <= Cardinality(Finished(d)')
    BY <1>1, <1>2, FS_Subset
<1>4. made[d] \in Nat /\ Cardinality(Finished(d)) \in Nat /\ Cardinality(Finished(d)') \in Nat
    BY <1>2, FinishedType, FS_CardinalityType, FormAssumption DEF CountInv, ShapeInv
<1> QED
    BY <1>3, <1>4 DEF CountInv

LEMMA CountNext == CountInv /\ [Next]_vars => CountInv'
<1> SUFFICES ASSUME CountInv, [Next]_vars
             PROVE  CountInv'
    OBVIOUS
<1>0. ShapeInv /\ ShapeInv'
    BY ShapeNext DEF CountInv
<1>1. CASE UNCHANGED <<made, post>>
    BY <1>0, <1>1, CountQuiet
<1>2. ASSUME NEW x, \/ OpenForm \/ CloseForm \/ TypeTerms \/ ReturnToPage \/ UNCHANGED vars
                    \/ SelectType(x) \/ TypeName(x)
      PROVE  CountInv'
    BY <1>1, <1>2 DEF OpenForm, CloseForm, TypeTerms, ReturnToPage, vars, SelectType, TypeName
<1>3. ASSUME NEW p \in Posts, Submit(p) PROVE CountInv'
    BY <1>0, <1>3, SubmitFields, CountQuiet DEF Submit
<1>4. CASE LeavePage
    BY <1>0, <1>4, AwayFields, CountQuiet DEF LeavePage
<1>5. CASE Reload
    <2>1. \A p \in Posts : post[p].state \in {"done", "over"} =>
             post'[p].state \in {"done", "over"} /\ post'[p].draft = post[p].draft
        BY <1>0, <1>5, ReloadFields
    <2> QED
        BY <1>0, <1>5, <2>1, CountQuiet DEF Reload
<1>6. ASSUME NEW p \in Posts, post' = Over(p), UNCHANGED made PROVE CountInv'
    BY <1>0, <1>6, OverFields, CountQuiet
<1>7. ASSUME NEW p \in Posts, Refuse(p) \/ Succeeds(p) PROVE CountInv'
    BY <1>6, <1>7 DEF Refuse, Succeeds
<1>8. ASSUME NEW p \in Posts, TimesOut(p) PROVE CountInv'
    <2>1. \A q \in Posts : post[q].state \in {"done", "over"} =>
             post'[q].state \in {"done", "over"} /\ post'[q].draft = post[q].draft
        BY <1>0, <1>8, LostFields DEF TimesOut
    <2> QED
        BY <1>0, <1>8, <2>1, CountQuiet DEF TimesOut
<1>9. ASSUME NEW p \in Posts, Serve(p) PROVE CountInv'
    <2> DEFINE d == post[p].draft
    <2>1. /\ \A q \in Posts \ {p} : post'[q] = post[q]
          /\ post[p].state \in {"sent", "lost"} /\ post'[p].state \in {"done", "over"}
          /\ post'[p].draft = d /\ d \in Drafts
          /\ made'[d] = made[d] + 1
          /\ \A e \in Drafts \ {d} : made'[e] = made[e]
        BY <1>0, <1>9, ServeFields
    <2>2. Finished(d)' = Finished(d) \cup {p} /\ p \notin Finished(d)
        BY <2>1 DEF Finished
    <2>3. Cardinality(Finished(d)') = Cardinality(Finished(d)) + 1
        BY <2>1, <2>2, FinishedType, FS_AddElement
    <2>4. ASSUME NEW e \in Drafts \ {d} PROVE Finished(e)' = Finished(e)
        BY <2>1 DEF Finished
    <2>5. made[d] \in Nat /\ Cardinality(Finished(d)) \in Nat
        BY <1>0, <2>1, FinishedType, FormAssumption DEF ShapeInv
    <2>6. ASSUME NEW e \in Drafts PROVE (made[e] <= Cardinality(Finished(e)))'
        <3>1. CASE e = d
            BY <2>1, <2>3, <2>5, <3>1 DEF CountInv
        <3>2. CASE e # d
            BY <2>1, <2>4, <3>2 DEF CountInv
        <3> QED
            BY <3>1, <3>2
    <2> QED
        BY <1>0, <2>6 DEF CountInv
<1> QED
    BY <1>2, <1>3, <1>4, <1>5, <1>7, <1>8, <1>9 DEF Next

\* The state of the form and its requests is what the component declares.
THEOREM FormTypeCorrect == Spec => []TypeOK
<1>1. Init => CountInv
    <2> SUFFICES ASSUME Init PROVE CountInv
        OBVIOUS
    <2>1. \A d \in Drafts : made[d] = 0
        BY DEF Init
    <2> QED
        BY <2>1, ShapeInit, FinishedType, FormAssumption DEF CountInv
<1>2. CountInv => TypeOK
    <2> SUFFICES ASSUME CountInv PROVE TypeOK
        OBVIOUS
    <2>1. \A d \in Drafts : made[d] \in 0..MaxPosts
        BY FinishedType, FormAssumption DEF CountInv, ShapeInv
    <2> QED
        BY <2>1 DEF CountInv, ShapeInv, TypeOK
<1> QED
    BY <1>1, CountNext, <1>2, PTL DEF Spec
=============================================================================

--------------------------- MODULE CampaignStatus ---------------------------
(***************************************************************************)
(* What the dashboard makes of the status of a campaign: the transitions   *)
(* it offers, in two places, and the progress it shows.                    *)
(***************************************************************************)
EXTENDS Integers

Statuses == {"active", "paused", "completed", "archived"}

\* The transitions the menu of the table has a button for, by the status shown:
\* five of the nine, and "active" and "completed" to "archived" on the page, are
\* not in the lifecycle of pkg/campaign/README.md:21-29 (active and paused to one
\* another, active to completed, paused to archived).  SetStatus carries out any.
MenuOffers(s) == {t \in Statuses : CASE t = "active" -> s \notin {"active", "completed"}
                                     [] t = "paused" -> s = "active"
                                     [] OTHER -> s # t}

\* And those the page of a campaign has one for.
PageOffers(s) == {t \in Statuses : CASE t = "paused" -> s = "active"
                                     [] t = "active" -> s = "paused"
                                     [] t = "archived" -> s # "archived"
                                     [] OTHER -> FALSE}

\* isCompleted: the page shows the download card.
Downloadable(s) == s \in {"completed", "archived"}

\* deriveStages: how far the pipeline is, from the status alone.
Stages == 0..6
CurrentIdx(s) == CASE s \in {"completed", "archived"} -> 6
                   [] s = "active" -> 2
                   [] OTHER -> 1

StageStatus(s, idx) ==
  CASE idx < CurrentIdx(s) -> "completed"
    [] idx > CurrentIdx(s) -> "pending"
    [] OTHER -> CASE s = "paused" -> "paused"
                  [] s \in {"completed", "archived"} -> "completed"
                  [] OTHER -> "current"
=============================================================================

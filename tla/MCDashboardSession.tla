------------------------- MODULE MCDashboardSession -------------------------
(***************************************************************************)
(* Small instances of DashboardSession.                                    *)
(***************************************************************************)
EXTENDS DashboardSession, TLC

CONSTANTS ann, bob, list, detail, q1, q2

Symmetry == {f @@ g : f \in Permutations({ann, bob}), g \in Permutations({q1, q2})}
=============================================================================

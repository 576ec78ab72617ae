----------------------------- MODULE MCTokioSpine -----------------------------
(***************************************************************************)
(* Small instances of TokioSpine.  Two search workers share a receiver and *)
(* two producers push to either pipeline, so that every lock is contended  *)
(* from both sides; the profile pipeline has no worker, so that a push to  *)
(* it contends for the statistics only; threads are fewer than tasks.      *)
(***************************************************************************)
EXTENDS TokioSpine, TLC

CONSTANTS w1, w2, search, profile

MCWorkers == {w1, w2}
MCQueues == {search, profile}
MCConsumes == (w1 :> search) @@ (w2 :> search)
=============================================================================

--------------------------- MODULE MCInMemoryQueue ---------------------------
(***************************************************************************)
(* Small instances of InMemoryQueue: three goroutines (a peek, a push that *)
(* refills the buffer and a pop or a close are the longest overlap), two   *)
(* of the four queues, with different buffer sizes.                        *)
(***************************************************************************)
EXTENDS InMemoryQueue, TLC

CONSTANTS campaign, validate

MCCloseOrder == <<campaign, validate>>
MCCapacity == (campaign :> 0) @@ (validate :> 2)
Symmetry == Permutations(Callers) \cup Permutations(Messages)
=============================================================================

----------------------------- MODULE MessagePool -----------------------------
(***************************************************************************)
(* What a producer and a consumer may rely on from a QueueManager whatever *)
(* stands behind it (channels today, Redis later): a message that was put  *)
(* in a queue is handed out at most once, by that queue, and nothing that  *)
(* was not put in comes out.  Order, capacity and blocking are left open;  *)
(* a message may be lost.                                                  *)
(***************************************************************************)
CONSTANTS Queues, Messages

VARIABLES
  inside,   \* the messages in each queue
  taken,    \* the messages each queue handed out
  lost      \* the messages that left a queue without being handed out

vars == <<inside, taken, lost>>

Init == /\ inside = [q \in Queues |-> {}]
        /\ taken = [q \in Queues |-> {}]
        /\ lost = {}

Fresh(m) == m \notin lost /\ \A q \in Queues : m \notin inside[q] \cup taken[q]

Put(q, m) == /\ Fresh(m)
             /\ inside' = [inside EXCEPT ![q] = @ \cup {m}]
             /\ UNCHANGED <<taken, lost>>

Take(q, m) == /\ m \in inside[q]
              /\ inside' = [inside EXCEPT ![q] = @ \ {m}]
              /\ taken' = [taken EXCEPT ![q] = @ \cup {m}]
              /\ UNCHANGED lost

\* A producer meets a waiting consumer.
HandOver(q, m) == /\ Fresh(m)
                  /\ taken' = [taken EXCEPT ![q] = @ \cup {m}]
                  /\ UNCHANGED <<inside, lost>>

Lose(q, m) == /\ m \in inside[q]
              /\ inside' = [inside EXCEPT ![q] = @ \ {m}]
              /\ lost' = lost \cup {m}
              /\ UNCHANGED taken

Next == \E q \in Queues, m \in Messages :
          Put(q, m) \/ Take(q, m) \/ HandOver(q, m) \/ Lose(q, m)

Spec == Init /\ [][Next]_vars
-----------------------------------------------------------------------------
\* A message is in one place at a time, and the queue it was put in is the
\* only one it is ever in.
Apart ==
  /\ \A q \in Queues : /\ inside[q] \cap taken[q] = {}
                       /\ (inside[q] \cup taken[q]) \cap lost = {}
  /\ \A q, r \in Queues :
       q # r => (inside[q] \cup taken[q]) \cap (inside[r] \cup taken[r]) = {}
=============================================================================

----------------------------- MODULE ApiGateway -----------------------------
(***************************************************************************)
(* The life of the backend process around the campaign API: main.go starts *)
(* the server, waits for SIGINT or SIGTERM, stops listening, gives the     *)
(* requests it is serving 15 seconds, closes the connection pool and       *)
(* returns, which ends whatever still runs.  A response written more than  *)
(* 10 seconds after its request was read is lost.  The process may also be *)
(* killed at any time (a crash, or docker stop's SIGKILL, whose default    *)
(* grace of 10 seconds is shorter than the 15), and be started again on    *)
(* the same database.                                                      *)
(*                                                                         *)
(* The requests are those of CampaignService; what is added to their steps *)
(* is the connection each statement takes from the pool and gives back.    *)
(***************************************************************************)
EXTENDS CampaignService

CONSTANT PoolSize  \* poolCfg.MaxConns

ASSUME PoolAssumption == PoolSize \in Nat \ {0}

VARIABLES
  phase,    \* of the process: "serving", "draining" (in Shutdown), "closing"
            \* (in the deferred pool.Close) or "exited"
  holding,  \* the requests that hold a connection of the pool
  answered, \* history: the requests whose response was written
  slow,     \* history: those whose handler returned after the write timeout
  excused   \* history: those under way when the deadline of a stop passed or the
            \* process was killed

outcome == <<answered, slow, excused>>
gatewayVars == <<vars, phase, holding, outcome>>

InFlight == {r \in Requests : pc[r] \in {"run", "audit", "reply"}}

\* The next step of r is a statement.  RequireAuth, the decoding of the body
\* and the response use no connection.
Statement(r) == \/ pc[r] = "run" /\ ~Invalid(input[r])
                \/ pc[r] = "audit"

\* The pool never lends more than it has, only to requests that are about to
\* send a statement, and no request outlives the process that served it.
GatewayTypeOK ==
  /\ phase \in {"serving", "draining", "closing", "exited"}
  /\ holding \in SUBSET {r \in Requests : Statement(r)}
  /\ Cardinality(holding) <= PoolSize
  /\ answered \in SUBSET {r \in Requests : pc[r] = "done"}
  /\ slow \in SUBSET {r \in Requests : pc[r] = "done"}
  /\ excused \in SUBSET Requests
  /\ phase = "exited" => InFlight = {}
-----------------------------------------------------------------------------
GatewayInit ==
  /\ Init
  /\ phase = "serving"
  /\ holding = {}
  /\ answered = {} /\ slow = {} /\ excused = {}

\* While the process is draining a request may still come in over a connection
\* accepted before the listener was closed.
Receive(r) ==
  /\ phase \in {"serving", "draining"}
  /\ Send(r)
  /\ UNCHANGED <<phase, holding, outcome>>

\* A variant: pool.Close() before srv.Shutdown().
OpenUntilSignal == phase = "serving"

\* pool.Close() runs once Shutdown has returned.
PoolIsOpen == phase \in {"serving", "draining"}

\* A variant: one connection more than the limit.
HasRoomForOneMore == Cardinality(holding) <= PoolSize

HasRoom == Cardinality(holding) < PoolSize

\* pool.QueryRow, Query and Exec begin by acquiring a connection.
Acquire(r) ==
  /\ Statement(r)
  /\ r \notin holding
  /\ PoolIsOpen
  /\ HasRoom
  /\ holding' = holding \cup {r}
  /\ UNCHANGED <<vars, phase, outcome>>

\* A variant: ListByUser without rows.Close().
RowsLeftOpen(r) == IF input[r].op = "list" THEN holding ELSE holding \ {r}

\* Scan, Close and Exec give the connection back, whatever became of the
\* statement.
Released(r) == holding \ {r}

\* The end of a handler.  The write timeout of 10 s, which counts from the
\* moment the header of the request was read, stops no handler, but a response
\* written after it does not go out.
Written(r) ==
  IF pc[r] = "reply"
  THEN \/ answered' = answered \cup {r} /\ UNCHANGED slow
       \/ slow' = slow \cup {r} /\ UNCHANGED answered
  ELSE UNCHANGED <<answered, slow>>

Work(r) ==
  /\ Statement(r) => r \in holding
  /\ Serve(r)
  /\ Written(r)
  /\ holding' = Released(r)
  /\ UNCHANGED <<phase, excused>>

\* There is no connection to be had: the client left while the request was
\* waiting for one, or the pool is closed.  The error of a method's own
\* statement is answered 500, that of its audit row is swallowed.
GiveUp(r) ==
  /\ Statement(r)
  /\ r \notin holding
  /\ broken[r] \/ ~PoolIsOpen
  /\ pc' = [pc EXCEPT ![r] = "reply"]
  /\ code' = [code EXCEPT ![r] = IF pc[r] = "run" THEN 500 ELSE @]
  /\ UNCHANGED <<table, issued, audit, input, got, broken, commits,
                 phase, holding, outcome>>

Fault(r) ==
  /\ Break(r)
  /\ UNCHANGED <<phase, holding, outcome>>

\* The first SIGINT or SIGTERM.  Later ones stay in the channel.
Signal ==
  /\ phase = "serving"
  /\ phase' = "draining"
  /\ UNCHANGED <<vars, holding, outcome>>

\* A variant: srv.Close() in place of srv.Shutdown().
QuietAtOnce == TRUE

\* Every connection of the server is idle.
Quiet == InFlight = {}

\* Shutdown returns nil.
Drained ==
  /\ phase = "draining"
  /\ Quiet
  /\ phase' = "closing"
  /\ UNCHANGED <<vars, holding, outcome>>

\* Shutdown returns the error of its context; the requests go on.
Deadline ==
  /\ phase = "draining"
  /\ ~Quiet
  /\ phase' = "closing"
  /\ excused' = excused \cup InFlight
  /\ UNCHANGED <<vars, holding, answered, slow>>

\* The process is gone, and with it the goroutines of its requests.
Gone ==
  /\ phase' = "exited"
  /\ holding' = {}
  /\ pc' = [r \in Requests |-> IF r \in InFlight THEN "dead" ELSE pc[r]]
  /\ UNCHANGED <<table, issued, audit, input, got, code, broken, commits>>

\* pool.Close() returns when every connection has been given back; main returns.
Exit ==
  /\ phase = "closing"
  /\ holding = {}
  /\ Gone
  /\ UNCHANGED outcome

Kill ==
  /\ phase # "exited"
  /\ Gone
  /\ excused' = excused \cup InFlight
  /\ UNCHANGED <<answered, slow>>

\* The restart policy, or the next deployment.
Start ==
  /\ phase = "exited"
  /\ phase' = "serving"
  /\ UNCHANGED <<vars, holding, outcome>>

GatewayNext ==
  \/ \E r \in Requests : Receive(r) \/ Acquire(r) \/ Work(r) \/ GiveUp(r) \/ Fault(r)
  \/ Signal \/ Drained \/ Deadline \/ Exit \/ Kill \/ Start

\* The Go scheduler keeps every goroutine running, the statement of a request
\* that holds a connection returns, the pool hands a free connection to a
\* request that waits for one, and main's timer fires.  Nobody has to send a
\* signal or to start the process again.
GatewaySpec ==
  /\ GatewayInit /\ [][GatewayNext]_gatewayVars
  /\ \A r \in Requests : /\ WF_gatewayVars(Acquire(r))
                         /\ WF_gatewayVars(Work(r))
                         /\ WF_gatewayVars(GiveUp(r))
  /\ WF_gatewayVars(Drained \/ Deadline)
  /\ WF_gatewayVars(Exit)
-----------------------------------------------------------------------------
(* Properties *)

\* A stop takes no answer away: a request whose handler has started gets its
\* response, even if the signal comes in the middle of it or it arrives after
\* the signal.  Three things cost a request its response: to be under way 15 s
\* after the signal, or when the process is killed, and, with or without a stop,
\* a handler that needs more than the 10 s of the write timeout.  (main.go:75,
\* srv.Shutdown with a deadline; main.go:58, WriteTimeout.)
StopAnswersEverybody ==
  \A r \in Requests :
    pc[r] \in {"done", "dead"} => r \in answered \cup slow \cup excused

\* A graceful stop keeps the trail complete: the pool outlives the requests,
\* so the audit row of an acknowledged mutation of a campaign that exists is
\* there unless a fault, the deadline or a kill hit the request itself.
\* (main.go:39, pool.Close is deferred and runs after srv.Shutdown.)
StopKeepsTheTrail ==
  \A i \in 1..Len(commits) :
    LET r == commits[i].req
    IN (/\ pc[r] \in {"reply", "done"}
        /\ code[r] \in {200, 201}
        /\ ~broken[r]
        /\ r \notin excused
        /\ table[commits[i].id] # NoRow) => \E a \in audit : a.req = r

\* Every handler returns, unless the process ends before: no request waits for
\* a second connection while it holds one, so the last connection of the pool
\* always comes back.  (How long that takes, and so whether the response still
\* goes out, is the matter of StopAnswersEverybody.)
HandlersReturn ==
  \A r \in Requests : pc[r] = "run" ~> pc[r] \in {"done", "dead"}

\* The process that got a signal exits, if every statement returns: no request
\* keeps a connection for which pool.Close, which has no deadline of its own,
\* would wait for ever.
StopEnds == phase = "draining" ~> phase = "exited"
=============================================================================

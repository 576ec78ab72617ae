------------------------------ MODULE TokioSpine ------------------------------
(***************************************************************************)
(* The Rust spine of scrape-worker: InMemoryAsyncQueueManager and the      *)
(* worker tasks that consume from it.  One unbounded mpsc channel per      *)
(* pipeline; its receiver is shared by the workers behind a std Mutex, and *)
(* so are the statistics and the shutdown flag.                            *)
(*                                                                         *)
(* Tasks run on the threads of a tokio runtime.  A task that awaits gives  *)
(* its thread up, a task that blocks in Mutex::lock keeps it, and a pop    *)
(* holds the receiver's guard across its await.  A critical section that   *)
(* takes no other lock and does not await is one step; the two that do are *)
(* push's (statistics, then receiver) and pop's (receiver, then            *)
(* statistics).  Messages are sent at most once each, which bounds a run.  *)
(***************************************************************************)
EXTENDS Naturals, SequencesExt

CONSTANTS
  Producers,   \* tasks that call push_search and push_profile
  Workers,     \* search_worker and profile_worker tasks
  Queues,      \* the pipelines: search and profile
  Consumes,    \* the queue each worker pops
  Messages,
  Threads,     \* worker_threads of the runtime
  Nobody,      \* the owner of a free lock
  None         \* no message, no queue

Tasks == Producers \cup Workers

ASSUME SpineAssumption ==
  /\ Producers \cap Workers = {}
  /\ Nobody \notin Tasks
  /\ Consumes \in [Workers -> Queues]
  /\ None \notin Messages \cup Queues
  /\ Threads \in Nat \ {0}

VARIABLES
  buffer,     \* what each channel holds, oldest first
  rx,         \* who holds the guard of each receiver
  stats,      \* who holds the guard of the statistics across another lock
  len,        \* search_queue_len and profile_queue_len
  total,      \* total_messages_processed
  flag,       \* shutdown_flag
  running,    \* the tasks that occupy a thread
  pc,         \* where each task is
  queue,      \* the queue of a producer's call
  message,    \* the message a task holds
  accepted,   \* history: what was sent into each channel, in order
  delivered,  \* history: what was received from each channel, in order
  late        \* history: how many messages each task moved after shutdown

history == <<accepted, delivered, late>>
vars == <<buffer, rx, stats, len, total, flag, running, pc, queue, message, history>>

\* The shape of the state.  A queue_len is 0 or 1: push stores 1 whatever the
\* channel holds and pop's saturating_sub stops at 0.
TypeOK ==
  /\ buffer \in [Queues -> Seq(Messages)]
  /\ rx \in [Queues -> Workers \cup {Nobody}]
  /\ stats \in Producers \cup {Nobody}
  /\ len \in [Queues -> {0, 1}]
  /\ total \in Nat
  /\ flag \in BOOLEAN
  /\ running \in SUBSET Tasks
  /\ pc \in [Tasks -> {"idle", "push", "send", "count", "update", "peekrx",
                       "pop", "lockrx", "recv", "dec", "work", "sleep"}]
  /\ queue \in [Producers -> Queues \cup {None}]
  /\ message \in [Tasks -> Messages \cup {None}]
  /\ accepted \in [Queues -> Seq(Messages)]
  /\ delivered \in [Queues -> Seq(Messages)]
  /\ late \in [Tasks -> Nat]
-----------------------------------------------------------------------------
Init ==
  /\ buffer = [q \in Queues |-> <<>>]
  /\ rx = [q \in Queues |-> Nobody]
  /\ stats = Nobody
  /\ len = [q \in Queues |-> 0]
  /\ total = 0
  /\ flag = FALSE
  /\ running = {}
  /\ pc = [t \in Tasks |-> IF t \in Workers THEN "pop" ELSE "idle"]
  /\ queue = [p \in Producers |-> None]
  /\ message = [t \in Tasks |-> None]
  /\ accepted = [q \in Queues |-> <<>>]
  /\ delivered = [q \in Queues |-> <<>>]
  /\ late = [t \in Tasks |-> 0]

\* The runtime polls t.
Polled(t) == /\ t \notin running
             /\ Cardinality(running) < Threads
             /\ running' = running \cup {t}

\* t, on its thread, goes from one place to the next.
Goes(t, from, to) == /\ t \in running
                     /\ pc[t] = from
                     /\ pc' = [pc EXCEPT ![t] = to]

Stays == UNCHANGED running
Yields(t) == running' = running \ {t}

\* The history of a message that t moves.
Moved(t) == late' = [late EXCEPT ![t] = IF flag THEN @ + 1 ELSE @]
-----------------------------------------------------------------------------
(* push_search, push_profile *)

CallPush(p) ==
  /\ pc[p] = "idle"
  /\ Polled(p)
  /\ \E q \in Queues, m \in Messages :
       /\ \A r \in Queues : m \notin ToSet(accepted[r])
       /\ \A t \in Tasks : message[t] # m
       /\ queue' = [queue EXCEPT ![p] = q]
       /\ message' = [message EXCEPT ![p] = m]
  /\ pc' = [pc EXCEPT ![p] = "push"]
  /\ UNCHANGED <<buffer, rx, stats, len, total, flag, history>>

Returns(p, from) == /\ Goes(p, from, "idle")
                    /\ Yields(p)
                    /\ queue' = [queue EXCEPT ![p] = None]
                    /\ message' = [message EXCEPT ![p] = None]

PushRefused(p) ==
  /\ flag
  /\ Returns(p, "push")
  /\ UNCHANGED <<buffer, rx, stats, len, total, flag, history>>

\* A variant: push without the is_shutdown check.
PushAlwaysAdmitted(p) ==
  /\ Goes(p, "push", "send") /\ Stays
  /\ UNCHANGED <<buffer, rx, stats, len, total, flag, queue, message, history>>

PushAdmitted(p) ==
  /\ ~flag
  /\ Goes(p, "push", "send") /\ Stays
  /\ UNCHANGED <<buffer, rx, stats, len, total, flag, queue, message, history>>

\* A variant: push_profile written by copying push_search, tx included.
PushSendsToOne(p) ==
  LET one == CHOOSE q \in Queues : TRUE
  IN /\ Goes(p, "send", "count") /\ Stays
     /\ buffer' = [buffer EXCEPT ![one] = Append(@, message[p])]
     /\ accepted' = [accepted EXCEPT ![queue[p]] = Append(@, message[p])]
     /\ Moved(p)
     /\ UNCHANGED <<rx, stats, len, total, flag, queue, message, delivered>>

\* tx.send: the channel is unbounded and its receiver lives in the manager, so
\* it never fails.
PushSends(p) ==
  /\ Goes(p, "send", "count") /\ Stays
  /\ buffer' = [buffer EXCEPT ![queue[p]] = Append(@, message[p])]
  /\ accepted' = [accepted EXCEPT ![queue[p]] = Append(@, message[p])]
  /\ Moved(p)
  /\ UNCHANGED <<rx, stats, len, total, flag, queue, message, delivered>>

\* A variant: increment_stats leaks its guard.
IncrementStatsKeepingLock(p) ==
  /\ Goes(p, "count", "update") /\ Stays
  /\ stats = Nobody
  /\ stats' = p
  /\ total' = total + 1
  /\ UNCHANGED <<buffer, rx, len, flag, queue, message, history>>

IncrementStats(p) ==
  /\ Goes(p, "count", "update") /\ Stays
  /\ stats = Nobody
  /\ total' = total + 1
  /\ UNCHANGED <<buffer, rx, stats, len, flag, queue, message, history>>

LockStats(p) ==
  /\ Goes(p, "update", "peekrx") /\ Stays
  /\ stats = Nobody
  /\ stats' = p
  /\ UNCHANGED <<buffer, rx, len, total, flag, queue, message, history>>

\* A variant: the counter incremented once more with the length.
SetLenAndCount(p) ==
  /\ Returns(p, "peekrx")
  /\ rx[queue[p]] = Nobody
  /\ len' = [len EXCEPT ![queue[p]] = 1]
  /\ total' = total + 1
  /\ stats' = Nobody
  /\ UNCHANGED <<buffer, rx, flag, history>>

\* With the statistics locked, lock the receiver to compute the length; both
\* guards are dropped and push returns.
SetLen(p) ==
  /\ Returns(p, "peekrx")
  /\ rx[queue[p]] = Nobody
  /\ len' = [len EXCEPT ![queue[p]] = 1]
  /\ stats' = Nobody
  /\ UNCHANGED <<buffer, rx, total, flag, history>>
-----------------------------------------------------------------------------
(* pop_search and pop_profile, in the loop of their worker *)

PopRefused(w) ==
  /\ flag
  /\ Goes(w, "pop", "sleep") /\ Yields(w)
  /\ UNCHANGED <<buffer, rx, stats, len, total, flag, queue, message, history>>

PopAdmitted(w) ==
  /\ ~flag
  /\ Goes(w, "pop", "lockrx") /\ Stays
  /\ UNCHANGED <<buffer, rx, stats, len, total, flag, queue, message, history>>

LockReceiver(w) ==
  /\ rx[Consumes[w]] = Nobody
  /\ Goes(w, "lockrx", "recv") /\ Stays
  /\ rx' = [rx EXCEPT ![Consumes[w]] = w]
  /\ UNCHANGED <<buffer, stats, len, total, flag, queue, message, history>>

\* recv().await finds nothing: the task is suspended, the guard stays locked.
Await(w) ==
  /\ buffer[Consumes[w]] = <<>>
  /\ w \in running /\ pc[w] = "recv"
  /\ Yields(w)
  /\ UNCHANGED <<buffer, rx, stats, len, total, flag, pc, queue, message, history>>

\* A variant: a receive that leaves the message in the channel.
ReceiveCopy(w) ==
  LET q == Consumes[w]
  IN /\ buffer[q] # <<>>
     /\ Goes(w, "recv", "dec") /\ Stays
     /\ message' = [message EXCEPT ![w] = Head(buffer[q])]
     /\ delivered' = [delivered EXCEPT ![q] = Append(@, Head(buffer[q]))]
     /\ Moved(w)
     /\ UNCHANGED <<buffer, rx, stats, len, total, flag, queue, accepted>>

Receive(w) ==
  LET q == Consumes[w]
  IN /\ buffer[q] # <<>>
     /\ Goes(w, "recv", "dec") /\ Stays
     /\ buffer' = [buffer EXCEPT ![q] = Tail(@)]
     /\ message' = [message EXCEPT ![w] = Head(buffer[q])]
     /\ delivered' = [delivered EXCEPT ![q] = Append(@, Head(buffer[q]))]
     /\ Moved(w)
     /\ UNCHANGED <<rx, stats, len, total, flag, queue, accepted>>

\* A variant: plain subtraction, which underflows at 0.
SubtractOne(n) == n - 1

SaturatingSub(n) == IF n = 0 THEN 0 ELSE n - 1

\* With the receiver locked, lock the statistics; both guards are dropped, pop
\* returns and the worker starts on the message.
DecrementLen(w) ==
  /\ stats = Nobody
  /\ Goes(w, "dec", "work") /\ Yields(w)
  /\ len' = [len EXCEPT ![Consumes[w]] = SaturatingSub(@)]
  /\ rx' = [rx EXCEPT ![Consumes[w]] = Nobody]
  /\ UNCHANGED <<buffer, stats, total, flag, queue, message, history>>

\* The sleep that stands for the business logic, or for the pause after an
\* error, is over: the loop goes on.  It has no exit but Ok(None), which recv
\* returns only when every sender is gone, and the manager owns one.
Loops(w) ==
  /\ pc[w] \in {"work", "sleep"}
  /\ Goes(w, pc[w], "pop") /\ Stays
  /\ message' = [message EXCEPT ![w] = None]
  /\ UNCHANGED <<buffer, rx, stats, len, total, flag, queue, history>>

\* A worker that can go on gets a thread.
Resume(w) ==
  /\ \/ pc[w] \in {"pop", "work", "sleep"}
     \/ pc[w] = "recv" /\ buffer[Consumes[w]] # <<>>
  /\ Polled(w)
  /\ UNCHANGED <<buffer, rx, stats, len, total, flag, pc, queue, message, history>>

Shutdown ==
  /\ ~flag
  /\ flag' = TRUE
  /\ UNCHANGED <<buffer, rx, stats, len, total, running, pc, queue, message, history>>
-----------------------------------------------------------------------------
Push(p) == \/ PushRefused(p) \/ PushAdmitted(p) \/ PushSends(p)
           \/ IncrementStats(p) \/ LockStats(p) \/ SetLen(p)

Pop(w) == \/ PopRefused(w) \/ PopAdmitted(w) \/ LockReceiver(w) \/ Await(w)
          \/ Receive(w) \/ DecrementLen(w) \/ Loops(w)

Next == \/ \E p \in Producers : CallPush(p) \/ Push(p)
        \/ \E w \in Workers : Resume(w) \/ Pop(w)
        \/ Shutdown

Spec == Init /\ [][Next]_vars

\* A task on a thread keeps running, a lock that stays free is acquired, and
\* the run queue of the runtime is first in, first out, so that a task that can
\* run gets one of the threads that become free.
FairSpec ==
  /\ Spec
  /\ \A p \in Producers : WF_vars(Push(p))
  /\ \A w \in Workers : WF_vars(Pop(w)) /\ SF_vars(Resume(w))
-----------------------------------------------------------------------------
(* Properties *)

\* First in, first out, however many workers share a receiver: what a channel
\* accepted is what the workers received followed by what it holds.
Fifo == \A q \in Queues : accepted[q] = delivered[q] \o buffer[q]

\* The places of the messages pushed in the logs of their channels.
Sent == UNION {{q} \X DOMAIN accepted[q] : q \in Queues}

\* total_messages_processed counts the messages pushed, once each, late by the
\* pushes between their send and increment_stats.
TotalLags ==
  total + Cardinality({p \in Producers : pc[p] = "count"}) = Cardinality(Sent)

\* The window between is_shutdown and what it guards is one message wide:
\* after a shutdown no task sends or receives more than one more.
LateMovesAreBounded == \A t \in Tasks : late[t] <= 1

\* A push that holds the statistics waits for a receiver somebody holds.
Stuck == \E p \in Producers : pc[p] = "peekrx" /\ rx[queue[p]] # Nobody

\* The locks are the only way to get stuck, and that wait the only cause: as
\* long as no push waits for a held receiver for good, every push returns and
\* every pop that has a message hands it to its worker.
ProgressUnlessStuck ==
  []<>~Stuck =>
    /\ \A p \in Producers : pc[p] = "push" ~> pc[p] = "idle"
    /\ \A w \in Workers :
         pc[w] = "recv" /\ buffer[Consumes[w]] # <<>> ~> pc[w] = "work"

\* main.rs:233, "Pop a search message from the queue (async, blocks until
\* available)": a pop that waits for a message gets one that is available.
PopReturnsWhenAvailable ==
  \A w \in Workers :
    pc[w] = "recv" /\ buffer[Consumes[w]] # <<>> ~> pc[w] = "work"

\* main.rs:112, "blocks until available or context cancelled", with main.rs:317,
\* "MPSC channels will be dropped, triggering cleanup": after a shutdown no
\* worker stays in a pop.
ShutdownEndsPops == \A w \in Workers : flag ~> pc[w] # "recv"

Pool == INSTANCE MessagePool WITH
  inside <- [q \in Queues |-> ToSet(buffer[q])],
  taken <- [q \in Queues |-> ToSet(delivered[q])],
  lost <- {}

\* At most once delivery from the queue a message was put in, and none lost.
ImplementsPool == Pool!Spec
=============================================================================

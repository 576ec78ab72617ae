--------------------------- MODULE TokioSpineProofs ---------------------------
(***************************************************************************)
(* What holds of TokioSpine for any tasks, queues, messages and threads.   *)
(***************************************************************************)
EXTENDS TokioSpine, ChannelLemmas, TLAPS
-----------------------------------------------------------------------------
(* Type correctness.  A producer inside a push has a queue and a message.    *)

InPush == {"push", "send", "count", "update", "peekrx"}
InPop == {"pop", "lockrx", "recv", "dec", "work", "sleep"}

CallShape ==
  /\ \A p \in Producers : /\ pc[p] \in InPush \cup {"idle"}
                          /\ pc[p] \in InPush => queue[p] \in Queues /\ message[p] \in Messages
  /\ \A w \in Workers : pc[w] \in InPop

SpineInv == TypeOK /\ CallShape

LEMMA SpineInit == Init => SpineInv
<1> SUFFICES ASSUME Init PROVE SpineInv
    OBVIOUS
<1> QED
    BY SpineAssumption, EmptySeq
       DEF Init, SpineInv, TypeOK, CallShape, InPush, InPop, Tasks

\* The steps of tasks, grouped by what they do to the channels.
Local(t) ==
  \/ t \in Producers /\ \/ CallPush(t) \/ PushRefused(t) \/ PushAdmitted(t)
                        \/ IncrementStats(t) \/ LockStats(t) \/ SetLen(t)
  \/ t \in Workers /\ \/ PopRefused(t) \/ PopAdmitted(t) \/ LockReceiver(t) \/ Await(t)
                      \/ DecrementLen(t) \/ Loops(t) \/ Resume(t)

LEMMA Steps ==
  Next <=> \/ \E t \in Tasks : Local(t)
           \/ \E p \in Producers : PushSends(p)
           \/ \E w \in Workers : Receive(w)
           \/ Shutdown
BY DEF Next, Local, Push, Pop, Tasks

LEMMA LocalKeeps ==
  ASSUME NEW t \in Tasks, Local(t)
  PROVE  UNCHANGED <<buffer, flag, accepted, delivered, late>>
BY DEF Local, CallPush, PushRefused, PushAdmitted, IncrementStats, LockStats, SetLen,
       PopRefused, PopAdmitted, LockReceiver, Await, DecrementLen, Loops, Resume, history

LEMMA LocalType ==
  ASSUME SpineInv, NEW t \in Tasks, Local(t)
  PROVE  SpineInv'
<1> USE DEF SpineInv, TypeOK, CallShape, InPush, InPop
<1>0. UNCHANGED <<buffer, flag, accepted, delivered, late>>
    BY LocalKeeps
<1>1. ASSUME t \in Producers, CallPush(t) PROVE SpineInv'
    BY <1>0, <1>1, SpineAssumption DEF CallPush, Polled, Tasks
<1>2. ASSUME t \in Producers, PushRefused(t) PROVE SpineInv'
    BY <1>0, <1>2, SpineAssumption DEF PushRefused, Returns, Goes, Yields, Tasks
<1>3. ASSUME t \in Producers, PushAdmitted(t) PROVE SpineInv'
    BY <1>0, <1>3, SpineAssumption DEF PushAdmitted, Goes, Stays, Tasks
<1>4. ASSUME t \in Producers, IncrementStats(t) PROVE SpineInv'
    BY <1>0, <1>4, SpineAssumption DEF IncrementStats, Goes, Stays, Tasks
<1>5. ASSUME t \in Producers, LockStats(t) PROVE SpineInv'
    BY <1>0, <1>5, SpineAssumption DEF LockStats, Goes, Stays, Tasks
<1>6. ASSUME t \in Producers, SetLen(t) PROVE SpineInv'
    BY <1>0, <1>6, SpineAssumption DEF SetLen, Returns, Goes, Yields, Tasks
<1>7. ASSUME t \in Workers, PopRefused(t) \/ PopAdmitted(t) PROVE SpineInv'
    BY <1>0, <1>7, SpineAssumption DEF PopRefused, PopAdmitted, Goes, Stays, Yields, Tasks
<1>8. ASSUME t \in Workers, LockReceiver(t) PROVE SpineInv'
    BY <1>0, <1>8, SpineAssumption DEF LockReceiver, Goes, Stays, Tasks
<1>9. ASSUME t \in Workers, Await(t) \/ Resume(t) PROVE SpineInv'
    BY <1>0, <1>9, SpineAssumption DEF Await, Resume, Polled, Yields, Tasks
<1>10. ASSUME t \in Workers, DecrementLen(t) PROVE SpineInv'
    BY <1>0, <1>10, SpineAssumption DEF DecrementLen, SaturatingSub, Goes, Yields, Tasks
<1>11. ASSUME t \in Workers, Loops(t) PROVE SpineInv'
    BY <1>0, <1>11, SpineAssumption DEF Loops, Goes, Stays, Tasks
<1> QED
    BY <1>1, <1>2, <1>3, <1>4, <1>5, <1>6, <1>7, <1>8, <1>9, <1>10, <1>11 DEF Local

LEMMA SendType ==
  ASSUME SpineInv, NEW p \in Producers, PushSends(p)
  PROVE  SpineInv'
<1> USE DEF SpineInv, TypeOK, CallShape, InPush, InPop
<1>1. queue[p] \in Queues /\ message[p] \in Messages /\ p \in Tasks
    BY DEF PushSends, Goes, Tasks
<1>2. /\ buffer' \in [Queues -> Seq(Messages)]
      /\ accepted' \in [Queues -> Seq(Messages)]
    BY <1>1, AppendSeq DEF PushSends
<1> QED
    BY <1>1, <1>2, SpineAssumption DEF PushSends, Goes, Stays, Moved, Tasks

LEMMA ReceiveType ==
  ASSUME SpineInv, NEW w \in Workers, Receive(w)
  PROVE  SpineInv'
<1> USE DEF SpineInv, TypeOK, CallShape, InPush, InPop
<1> DEFINE q == Consumes[w]
<1>1. q \in Queues /\ buffer[q] # <<>> /\ w \in Tasks
    BY SpineAssumption DEF Receive, Tasks
<1>2. Head(buffer[q]) \in Messages /\ Tail(buffer[q]) \in Seq(Messages)
    BY <1>1, TailSeq
<1>3. buffer' = [buffer EXCEPT ![q] = Tail(@)]
    BY DEF Receive
<1>4. delivered' = [delivered EXCEPT ![q] = Append(@, Head(buffer[q]))]
    BY DEF Receive
<1>5. /\ buffer' \in [Queues -> Seq(Messages)]
      /\ delivered' \in [Queues -> Seq(Messages)]
    BY <1>1, <1>2, <1>3, <1>4, AppendSeq
<1>6. message' \in [Tasks -> Messages \cup {None}]
    BY <1>1, <1>2 DEF Receive
<1> HIDE DEF q
<1> QED
    BY <1>1, <1>5, <1>6, SpineAssumption DEF Receive, Goes, Stays, Moved, Tasks

LEMMA SpineNext == SpineInv /\ [Next]_vars => SpineInv'
<1> SUFFICES ASSUME SpineInv, [Next]_vars PROVE SpineInv'
    OBVIOUS
<1>1. CASE Shutdown
    BY <1>1 DEF Shutdown, history, SpineInv, TypeOK, CallShape
<1>2. CASE UNCHANGED vars
    BY <1>2 DEF vars, history, SpineInv, TypeOK, CallShape
<1> QED
    BY <1>1, <1>2, Steps, LocalType, SendType, ReceiveType

\* However pushes, pops and a shutdown interleave, each queue length the
\* statistics show is 0 or 1 and every lock has an owner of the right kind.
THEOREM SpineTypeCorrect == Spec => []TypeOK
<1>1. SpineInv => TypeOK
    BY DEF SpineInv
<1> QED
    BY SpineInit, SpineNext, <1>1, PTL DEF Spec
-----------------------------------------------------------------------------
(* First in, first out.                                                      *)

LEMMA FifoInit == Init => Fifo
<1>1. <<>> \o <<>> = <<>>
    BY EmptySeq, ConcatEmptySeq
<1> QED
    BY <1>1 DEF Init, Fifo

LEMMA FifoNext == SpineInv /\ Fifo /\ [Next]_vars => Fifo'
<1> SUFFICES ASSUME SpineInv, Fifo, [Next]_vars PROVE Fifo'
    OBVIOUS
<1>1. ASSUME UNCHANGED <<buffer, accepted, delivered>> PROVE Fifo'
    BY <1>1 DEF Fifo
<1>2. ASSUME NEW p \in Producers, PushSends(p) PROVE Fifo'
    <2> DEFINE q == queue[p]
               m == message[p]
    <2>1. q \in Queues /\ m \in Messages
        BY <1>2 DEF PushSends, Goes, SpineInv, CallShape, InPush
    <2>2. /\ buffer' = [buffer EXCEPT ![q] = Append(@, m)]
          /\ accepted' = [accepted EXCEPT ![q] = Append(@, m)]
          /\ UNCHANGED delivered
        BY <1>2 DEF PushSends
    <2> HIDE DEF q, m
    <2>3. /\ buffer \in [Queues -> Seq(Messages)]
          /\ delivered \in [Queues -> Seq(Messages)]
          /\ accepted \in [Queues -> Seq(Messages)]
        BY DEF SpineInv, TypeOK
    <2>4. ASSUME NEW d \in Seq(Messages), NEW b \in Seq(Messages)
          PROVE  d \o Append(b, m) = Append(d \o b, m)
        BY <2>1, AppendRight
    <2>5. delivered[q] \o Append(buffer[q], m) = Append(delivered[q] \o buffer[q], m)
        BY <2>1, <2>3, <2>4
    <2>6. accepted'[q] = delivered'[q] \o buffer'[q]
        BY <2>1, <2>2, <2>3, <2>5 DEF Fifo
    <2> QED
        BY <2>1, <2>2, <2>3, <2>6 DEF Fifo
<1>3. ASSUME NEW w \in Workers, Receive(w) PROVE Fifo'
    <2> DEFINE q == Consumes[w]
    <2>1. /\ q \in Queues /\ buffer[q] # <<>>
          /\ buffer' = [buffer EXCEPT ![q] = Tail(@)]
          /\ delivered' = [delivered EXCEPT ![q] = Append(@, Head(buffer[q]))]
          /\ UNCHANGED accepted
        BY <1>3, SpineAssumption DEF Receive
    <2> HIDE DEF q
    <2>2. /\ buffer \in [Queues -> Seq(Messages)]
          /\ delivered \in [Queues -> Seq(Messages)]
        BY DEF SpineInv, TypeOK
    <2>3. ASSUME NEW d \in Seq(Messages), NEW b \in Seq(Messages), b # <<>>
          PROVE  Append(d, Head(b)) \o Tail(b) = d \o b
        BY <2>3, MoveHead
    <2>4. Append(delivered[q], Head(buffer[q])) \o Tail(buffer[q]) = delivered[q] \o buffer[q]
        BY <2>1, <2>2, <2>3
    <2>5. accepted'[q] = delivered'[q] \o buffer'[q]
        BY <2>1, <2>2, <2>4 DEF Fifo
    <2> QED
        BY <2>1, <2>2, <2>5 DEF Fifo
<1> QED
    BY <1>1, <1>2, <1>3, Steps, LocalKeeps DEF Shutdown, vars, history

\* Any number of workers that share a receiver take the messages of a channel
\* in the order in which any number of producers sent them, and lose none.
THEOREM SpineIsFifo == Spec => []Fifo
BY SpineInit, SpineNext, FifoInit, FifoNext, PTL DEF Spec
-----------------------------------------------------------------------------
(* Shutdown.  A task that has passed is_shutdown and not yet moved a message *)
(* has moved none since the shutdown.                                        *)

LateInv ==
  \A t \in Tasks :
    /\ late[t] <= 1
    /\ ~flag => late[t] = 0
    /\ pc[t] \in {"send", "lockrx", "recv"} => late[t] = 0

LEMMA LateInit == Init => LateInv
BY DEF Init, LateInv

LEMMA LateNext == SpineInv /\ LateInv /\ [Next]_vars => LateInv'
<1> SUFFICES ASSUME SpineInv, LateInv, [Next]_vars PROVE LateInv'
    OBVIOUS
<1>t. /\ late \in [Tasks -> Nat]
      /\ pc \in [Tasks -> InPush \cup InPop \cup {"idle"}]
    BY DEF SpineInv, TypeOK, InPush, InPop
<1>1. ASSUME NEW t \in Tasks, Local(t) PROVE LateInv'
    <2>1. UNCHANGED <<flag, late>>
        BY <1>1, LocalKeeps
    <2>2. \A u \in Tasks \ {t} : pc'[u] = pc[u]
        BY <1>1, <1>t
           DEF Local, CallPush, PushRefused, PushAdmitted, IncrementStats, LockStats, SetLen,
               PopRefused, PopAdmitted, LockReceiver, Await, DecrementLen, Loops, Resume,
               Returns, Goes
    <2>3. \/ pc'[t] \notin {"send", "lockrx", "recv"}
          \/ ~flag
          \/ pc[t] \in {"lockrx", "recv"}
        BY <1>1, <1>t
           DEF Local, CallPush, PushRefused, PushAdmitted, IncrementStats, LockStats, SetLen,
               PopRefused, PopAdmitted, LockReceiver, Await, DecrementLen, Loops, Resume,
               Returns, Goes
    <2> QED
        BY <2>1, <2>2, <2>3 DEF LateInv
<1>2. ASSUME NEW p \in Producers, PushSends(p) PROVE LateInv'
    BY <1>2, <1>t DEF PushSends, Goes, Moved, LateInv, Tasks
<1>3. ASSUME NEW w \in Workers, Receive(w) PROVE LateInv'
    BY <1>3, <1>t DEF Receive, Goes, Moved, LateInv, Tasks
<1>4. CASE Shutdown
    BY <1>4 DEF Shutdown, history, LateInv
<1>5. CASE UNCHANGED vars
    BY <1>5 DEF vars, history, LateInv
<1> QED
    BY <1>1, <1>2, <1>3, <1>4, <1>5, Steps

\* Once shutdown has set the flag no producer gets more than one more message
\* into a channel and no worker takes more than one more out.
THEOREM ShutdownStopsMessages == Spec => []LateMovesAreBounded
<1>1. LateInv => LateMovesAreBounded
    BY DEF LateInv, LateMovesAreBounded
<1> QED
    BY SpineInit, SpineNext, LateInit, LateNext, <1>1, PTL DEF Spec
-----------------------------------------------------------------------------
(* The message counter.  What the counter lacks are the pushes between their *)
(* send and increment_stats; both sets grow and shrink by one element at a   *)
(* time from nothing, so they are finite whatever the tasks and queues.      *)

Counting == {p \in Producers : pc[p] = "count"}

CountInv == IsFiniteSet(Counting) /\ IsFiniteSet(Sent) /\ TotalLags

LEMMA CountInit == Init => CountInv
<1> SUFFICES ASSUME Init PROVE CountInv
    OBVIOUS
<1>1. Counting = {}
    BY SpineAssumption DEF Init, Counting, Tasks
<1>2. DOMAIN <<>> = {}
    OBVIOUS
<1>3. Sent = {}
    BY <1>2 DEF Init, Sent
<1>4. /\ IsFiniteSet(Counting) /\ Cardinality(Counting) = 0
      /\ IsFiniteSet(Sent) /\ Cardinality(Sent) = 0
    BY <1>1, <1>3, FS_EmptySet
<1>5. total + Cardinality(Counting) = Cardinality(Sent)
    BY <1>4 DEF Init
<1> QED
    BY <1>4, <1>5 DEF CountInv, TotalLags, Counting

LEMMA CountNext == SpineInv /\ CountInv /\ [Next]_vars => CountInv'
<1> SUFFICES ASSUME SpineInv, CountInv, [Next]_vars PROVE CountInv'
    OBVIOUS
<1>t. /\ pc \in [Tasks -> InPush \cup InPop \cup {"idle"}]
      /\ total \in Nat /\ \A p \in Producers : p \in Tasks
      /\ Cardinality(Counting) \in Nat /\ Cardinality(Sent) \in Nat
      /\ total + Cardinality(Counting) = Cardinality(Sent)
    BY FS_CardinalityType
       DEF SpineInv, TypeOK, InPush, InPop, Tasks, CountInv, TotalLags, Counting
<1>1. ASSUME UNCHANGED <<total, accepted>>, Counting' = Counting PROVE CountInv'
    BY <1>1 DEF CountInv, TotalLags, Sent, Counting
<1>2. ASSUME NEW p \in Producers, PushSends(p) PROVE CountInv'
    <2>1. /\ queue[p] \in Queues /\ message[p] \in Messages
          /\ accepted \in [Queues -> Seq(Messages)]
          /\ accepted' = [accepted EXCEPT ![queue[p]] = Append(@, message[p])]
          /\ total' = total
        BY <1>2 DEF PushSends, Goes, SpineInv, TypeOK, CallShape, InPush
    <2> DEFINE place == <<queue[p], Len(accepted[queue[p]]) + 1>>
    <2>2. Sent' = Sent \cup {place} /\ place \notin Sent
        BY <2>1, LogGrows DEF Sent
    <2> HIDE DEF place
    <2>3. Counting' = Counting \cup {p} /\ p \notin Counting
        BY <1>2, <1>t DEF PushSends, Goes, Counting
    <2>4. /\ IsFiniteSet(Counting') /\ Cardinality(Counting') = Cardinality(Counting) + 1
          /\ IsFiniteSet(Sent') /\ Cardinality(Sent') = Cardinality(Sent) + 1
        BY <2>2, <2>3, FS_AddElement DEF CountInv
    <2>5. total' + Cardinality(Counting') = Cardinality(Sent')
        BY <1>t, <2>1, <2>4
    <2> QED
        BY <2>4, <2>5 DEF CountInv, TotalLags, Counting
<1>3. ASSUME NEW p \in Producers, IncrementStats(p) PROVE CountInv'
    <2>1. Counting' = Counting \ {p} /\ p \in Counting
        BY <1>3, <1>t DEF IncrementStats, Goes, Counting
    <2>2. Sent' = Sent /\ total' = total + 1
        BY <1>3 DEF IncrementStats, Sent, history
    <2>3. IsFiniteSet(Counting') /\ Cardinality(Counting') = Cardinality(Counting) - 1
        BY <2>1, FS_RemoveElement DEF CountInv
    <2>4. total' + Cardinality(Counting') = Cardinality(Sent')
        BY <1>t, <2>2, <2>3
    <2> QED
        BY <2>2, <2>3, <2>4 DEF CountInv, TotalLags, Counting
<1>4. ASSUME NEW t \in Tasks, Local(t), ~(t \in Producers /\ IncrementStats(t))
      PROVE  CountInv'
    <2>1. UNCHANGED <<total, accepted>>
        BY <1>4
           DEF Local, CallPush, PushRefused, PushAdmitted, LockStats, SetLen, history,
               PopRefused, PopAdmitted, LockReceiver, Await, DecrementLen, Loops, Resume
    <2>2. \A u \in Tasks : pc'[u] = "count" <=> pc[u] = "count"
        BY <1>4, <1>t
           DEF Local, CallPush, PushRefused, PushAdmitted, LockStats, SetLen, Returns, Goes,
               PopRefused, PopAdmitted, LockReceiver, Await, DecrementLen, Loops, Resume
    <2> QED
        BY <1>1, <1>t, <2>1, <2>2 DEF Counting
<1>5. ASSUME NEW w \in Workers, Receive(w) PROVE CountInv'
    <2>1. \A u \in Tasks : pc'[u] = "count" <=> pc[u] = "count"
        BY <1>5, <1>t DEF Receive, Goes
    <2> QED
        BY <1>1, <1>5, <1>t, <2>1 DEF Receive, Counting
<1>6. CASE Shutdown \/ UNCHANGED vars
    BY <1>1, <1>6 DEF Shutdown, vars, history, Counting
<1> QED
    BY <1>2, <1>3, <1>4, <1>5, <1>6, Steps

\* However pushes overlap, total_messages_processed counts every message that
\* was sent once, and lags behind only by the pushes between send and count.
THEOREM TotalCountsEveryPush == Spec => []TotalLags
<1>1. CountInv => TotalLags
    BY DEF CountInv
<1> QED
    BY SpineInit, SpineNext, CountInit, CountNext, <1>1, PTL DEF Spec
-----------------------------------------------------------------------------
(* The guards.  Where a task is says which guards it holds: a push holds the *)
(* statistics while it locks the receiver for the length, a pop holds the    *)
(* receiver from its lock to the end, across its await.                      *)

LocksInv ==
  /\ \A p \in Producers : pc[p] = "peekrx" <=> stats = p
  /\ \A w \in Workers, q \in Queues :
       rx[q] = w <=> pc[w] \in {"recv", "dec"} /\ Consumes[w] = q

LEMMA LocksInit == Init => LocksInv
BY SpineAssumption DEF Init, LocksInv, Tasks

LEMMA LocksNext == SpineInv /\ LocksInv /\ [Next]_vars => LocksInv'
<1> SUFFICES ASSUME SpineInv, LocksInv, [Next]_vars PROVE LocksInv'
    OBVIOUS
<1>t. /\ pc \in [Tasks -> InPush \cup InPop \cup {"idle"}]
      /\ rx \in [Queues -> Workers \cup {Nobody}]
      /\ stats \in Producers \cup {Nobody}
      /\ \A p \in Producers : p \in Tasks /\ p \notin Workers
      /\ \A w \in Workers : w \in Tasks /\ Consumes[w] \in Queues
      /\ Nobody \notin Tasks
      /\ \A w \in Workers : pc[w] \in InPop
    BY SpineAssumption DEF SpineInv, TypeOK, CallShape, InPush, InPop, Tasks
<1> USE DEF InPush, InPop
<1>1. ASSUME UNCHANGED <<stats, rx>>, NEW t \in Tasks, NEW at,
             pc' = [pc EXCEPT ![t] = at],
             pc[t] = "peekrx" <=> at = "peekrx",
             pc[t] \in {"recv", "dec"} <=> at \in {"recv", "dec"}
      PROVE  LocksInv'
    BY <1>1, <1>t DEF LocksInv
<1>2. ASSUME UNCHANGED <<stats, rx, pc>> PROVE LocksInv'
    BY <1>2 DEF LocksInv
<1>3. ASSUME NEW p \in Producers, LockStats(p) PROVE LocksInv'
    BY <1>3, <1>t DEF LockStats, Goes, LocksInv
<1>4. ASSUME NEW p \in Producers, SetLen(p) PROVE LocksInv'
    BY <1>4, <1>t DEF SetLen, Returns, Goes, LocksInv
<1>5. ASSUME NEW w \in Workers, LockReceiver(w) PROVE LocksInv'
    BY <1>5, <1>t DEF LockReceiver, Goes, LocksInv
<1>6. ASSUME NEW w \in Workers, DecrementLen(w) PROVE LocksInv'
    BY <1>6, <1>t DEF DecrementLen, Goes, LocksInv
<1>7. ASSUME NEW p \in Producers,
             \/ CallPush(p) \/ PushRefused(p) \/ PushAdmitted(p) \/ PushSends(p)
             \/ IncrementStats(p)
      PROVE  LocksInv'
    BY <1>1, <1>7, <1>t
       DEF CallPush, PushRefused, PushAdmitted, PushSends, IncrementStats, Returns, Goes
<1>8. ASSUME NEW w \in Workers,
             \/ PopRefused(w) \/ PopAdmitted(w) \/ Receive(w) \/ Loops(w)
      PROVE  LocksInv'
    BY <1>1, <1>8, <1>t DEF PopRefused, PopAdmitted, Receive, Loops, Goes
<1>9. ASSUME NEW w \in Workers, Await(w) \/ Resume(w) PROVE LocksInv'
    BY <1>2, <1>9 DEF Await, Resume
<1>10. CASE Shutdown \/ UNCHANGED vars
    BY <1>2, <1>10 DEF Shutdown, vars
<1> QED
    BY <1>3, <1>4, <1>5, <1>6, <1>7, <1>8, <1>9, <1>10, Steps DEF Local

\* Who waits for whom: only a push at its length, which itself waits for a
\* receiver, keeps others from the statistics, and only a pop of the same
\* queue, waiting for a message or for the statistics, keeps others from a
\* receiver.  So a cycle of waits is one push and one pop of its queue.
WaitsAreKnown ==
  /\ stats # Nobody => stats \in Producers /\ pc[stats] = "peekrx"
  /\ \A q \in Queues : rx[q] # Nobody =>
       /\ rx[q] \in Workers /\ Consumes[rx[q]] = q
       /\ pc[rx[q]] \in {"recv", "dec"}
  /\ \A p, o \in Producers : pc[p] = "peekrx" /\ pc[o] = "peekrx" => p = o
  /\ \A v, w \in Workers :
       pc[v] \in {"recv", "dec"} /\ pc[w] \in {"recv", "dec"} /\ Consumes[v] = Consumes[w]
         => v = w

\* The std guards exclude each other wherever the tasks are suspended: at most
\* one push computes a length and at most one worker of a queue is past the
\* lock of its receiver; and whoever finds a lock taken waits for such a task.
THEOREM LocksExclude == Spec => []WaitsAreKnown
<1>1. SpineInv /\ LocksInv => WaitsAreKnown
    BY SpineAssumption DEF SpineInv, TypeOK, LocksInv, WaitsAreKnown
<1> QED
    BY SpineInit, SpineNext, LocksInit, LocksNext, <1>1, PTL DEF Spec

\* A push that has locked the statistics and finds its receiver locked.
WaitsForReceiver(p) == pc[p] = "peekrx" /\ rx[queue[p]] # Nobody

LEMMA WaitIsKept ==
  ASSUME SpineInv, LocksInv, [Next]_vars, NEW p \in Producers, WaitsForReceiver(p)
  PROVE  WaitsForReceiver(p)' /\ UNCHANGED <<stats, len, total>>
<1>t. /\ pc \in [Tasks -> InPush \cup InPop \cup {"idle"}]
      /\ rx \in [Queues -> Workers \cup {Nobody}]
      /\ queue \in [Producers -> Queues \cup {None}] /\ queue[p] \in Queues
      /\ \A o \in Producers : o \in Tasks /\ o \notin Workers
      /\ \A w \in Workers : w \in Tasks /\ w # Nobody
      /\ Nobody \notin Tasks /\ pc[p] = "peekrx" /\ rx[queue[p]] # Nobody
    BY SpineAssumption
       DEF SpineInv, TypeOK, CallShape, InPush, InPop, Tasks, WaitsForReceiver
<1>s. /\ stats = p /\ stats # Nobody
      /\ \A o \in Producers : pc[o] = "peekrx" => o = p
    BY <1>t DEF LocksInv
<1>1. ASSUME NEW o \in Producers,
             \/ CallPush(o) \/ PushRefused(o) \/ PushAdmitted(o) \/ PushSends(o)
      PROVE  WaitsForReceiver(p)' /\ UNCHANGED <<stats, len, total>>
    BY <1>1, <1>t
       DEF CallPush, PushRefused, PushAdmitted, PushSends, Returns, Goes, WaitsForReceiver
<1>2. ASSUME NEW o \in Producers PROVE ~IncrementStats(o) /\ ~LockStats(o)
    BY <1>s DEF IncrementStats, LockStats
<1>3. ASSUME NEW o \in Producers PROVE ~SetLen(o)
    BY <1>s, <1>t DEF SetLen, Returns, Goes
<1>4. ASSUME NEW w \in Workers, LockReceiver(w)
      PROVE  WaitsForReceiver(p)' /\ UNCHANGED <<stats, len, total>>
    BY <1>4, <1>t DEF LockReceiver, Goes, WaitsForReceiver
<1>5. ASSUME NEW w \in Workers PROVE ~DecrementLen(w)
    BY <1>s DEF DecrementLen
<1>6. ASSUME NEW w \in Workers,
             \/ PopRefused(w) \/ PopAdmitted(w) \/ Receive(w) \/ Loops(w)
             \/ Await(w) \/ Resume(w)
      PROVE  WaitsForReceiver(p)' /\ UNCHANGED <<stats, len, total>>
    BY <1>6, <1>t
       DEF PopRefused, PopAdmitted, Receive, Loops, Await, Resume, Goes, WaitsForReceiver
<1>7. CASE Shutdown \/ UNCHANGED vars
    BY <1>7, <1>t DEF Shutdown, vars, WaitsForReceiver
<1> QED
    BY <1>1, <1>2, <1>3, <1>4, <1>5, <1>6, <1>7, Steps DEF Local

\* The wait behind Stuck is a deadlock and no delay.  The holder of the
\* receiver is a pop (WaitsAreKnown) that lets go of it only after it has had
\* the statistics, and the push keeps those while it waits.  So a push that
\* once finds its receiver held never returns, whatever is sent or shut down
\* later, and no other push or pop ever gets the statistics again.
THEOREM StuckIsForGood ==
  ASSUME NEW p \in Producers
  PROVE  Spec => [](WaitsForReceiver(p) => [](WaitsForReceiver(p) /\ stats = p))
<1>1. SpineInv /\ LocksInv /\ [Next]_vars /\ WaitsForReceiver(p) => WaitsForReceiver(p)'
    BY WaitIsKept
<1>2. SpineInv /\ LocksInv /\ WaitsForReceiver(p) => stats = p
    BY DEF LocksInv, WaitsForReceiver
<1> QED
    BY SpineInit, SpineNext, LocksInit, LocksNext, <1>1, <1>2, PTL DEF Spec
-----------------------------------------------------------------------------
(* TokioSpine implements MessagePool.  That a channel never holds a message  *)
(* twice, and that what a producer is about to send has not been in any      *)
(* channel, makes every send a Put of a fresh message and every receive take *)
(* the message out for good.                                                 *)

Known == UNION {ToSet(accepted[q]) : q \in Queues}

Sending == {p \in Producers : pc[p] \in {"push", "send"}}

OnceInv ==
  /\ \A q \in Queues : IsInjective(buffer[q])
  /\ \A q \in Queues : ToSet(buffer[q]) \cup ToSet(delivered[q]) \subseteq Known
  /\ \A p \in Sending : message[p] \notin Known
  /\ \A p, o \in Sending : message[p] = message[o] => p = o

LEMMA OnceInit == Init => OnceInv
<1>1. IsInjective(<<>>) /\ ToSet(<<>>) = {}
    BY DEF IsInjective, ToSet
<1> QED
    BY <1>1, SpineAssumption DEF Init, OnceInv, Sending, Tasks

\* What a send of p does: a Put, seen from the pool.
LEMMA SendPuts ==
  ASSUME SpineInv, OnceInv, NEW p \in Producers, PushSends(p)
  PROVE  /\ queue[p] \in Queues /\ message[p] \in Messages
         /\ message[p] \notin Known
         /\ Known' = Known \cup {message[p]}
         /\ buffer'[queue[p]] = Append(buffer[queue[p]], message[p])
         /\ ToSet(buffer'[queue[p]]) = ToSet(buffer[queue[p]]) \cup {message[p]}
         /\ \A r \in Queues \ {queue[p]} : buffer'[r] = buffer[r]
         /\ UNCHANGED delivered
<1> DEFINE q == queue[p]
           m == message[p]
<1>1. q \in Queues /\ m \in Messages /\ p \in Sending
    BY DEF PushSends, Goes, SpineInv, CallShape, InPush, Sending
<1>2. /\ buffer' = [buffer EXCEPT ![q] = Append(@, m)]
      /\ accepted' = [accepted EXCEPT ![q] = Append(@, m)]
      /\ UNCHANGED delivered
    BY DEF PushSends
<1>3. m \notin Known
    BY <1>1 DEF OnceInv
<1> HIDE DEF q, m
<1>4. /\ buffer \in [Queues -> Seq(Messages)]
      /\ accepted \in [Queues -> Seq(Messages)]
    BY DEF SpineInv, TypeOK
<1>5. /\ ToSet(Append(buffer[q], m)) = ToSet(buffer[q]) \cup {m}
      /\ ToSet(Append(accepted[q], m)) = ToSet(accepted[q]) \cup {m}
    <2>1. ASSUME NEW s \in Seq(Messages) PROVE ToSet(Append(s, m)) = ToSet(s) \cup {m}
        BY <1>1, ToSetAppend
    <2> QED
        BY <1>1, <1>4, <2>1
<1>6. /\ accepted'[q] = Append(accepted[q], m)
      /\ \A r \in Queues \ {q} : accepted'[r] = accepted[r]
    BY <1>1, <1>2, <1>4
<1>7. Known' = Known \cup {m}
    BY <1>1, <1>5, <1>6 DEF Known
<1>8. /\ buffer'[q] = Append(buffer[q], m)
      /\ \A r \in Queues \ {q} : buffer'[r] = buffer[r]
    BY <1>1, <1>2, <1>4
<1> QED
    BY <1>1, <1>2, <1>3, <1>5, <1>7, <1>8 DEF q, m

\* What a receive of w does: a Take.
LEMMA ReceiveTakes ==
  ASSUME SpineInv, OnceInv, NEW w \in Workers, Receive(w),
         NEW q, q = Consumes[w], NEW m, m = Head(buffer[q])
  PROVE  /\ q \in Queues /\ m \in Messages /\ m \in ToSet(buffer[q])
         /\ IsInjective(buffer'[q])
         /\ ToSet(buffer'[q]) = ToSet(buffer[q]) \ {m}
         /\ ToSet(delivered'[q]) = ToSet(delivered[q]) \cup {m}
         /\ \A r \in Queues \ {q} : buffer'[r] = buffer[r] /\ delivered'[r] = delivered[r]
         /\ UNCHANGED accepted
<1>1. q \in Queues /\ buffer[q] # <<>>
    BY SpineAssumption DEF Receive
<1>2. /\ buffer' = [buffer EXCEPT ![q] = Tail(@)]
      /\ delivered' = [delivered EXCEPT ![q] = Append(@, m)]
      /\ UNCHANGED accepted
    BY DEF Receive
<1>3. /\ buffer \in [Queues -> Seq(Messages)]
      /\ delivered \in [Queues -> Seq(Messages)]
    BY DEF SpineInv, TypeOK
<1>4. buffer[q] \in Seq(Messages) /\ delivered[q] \in Seq(Messages)
    BY <1>1, <1>3
<1>5. IsInjective(buffer[q])
    BY <1>1 DEF OnceInv
<1>6. m \in Messages
    BY <1>1, <1>4, TailSeq
<1>7. /\ IsInjective(Tail(buffer[q])) /\ m \in ToSet(buffer[q])
      /\ ToSet(Tail(buffer[q])) = ToSet(buffer[q]) \ {m}
    BY <1>1, <1>4, <1>5, ReceiveOnce
<1>8. ToSet(Append(delivered[q], m)) = ToSet(delivered[q]) \cup {m}
    BY <1>4, <1>6, ToSetAppend
<1>9. /\ buffer'[q] = Tail(buffer[q]) /\ delivered'[q] = Append(delivered[q], m)
      /\ \A r \in Queues \ {q} : buffer'[r] = buffer[r] /\ delivered'[r] = delivered[r]
    BY <1>1, <1>2, <1>3
<1> QED
    BY <1>1, <1>2, <1>6, <1>7, <1>8, <1>9

LEMMA OnceNext == SpineInv /\ OnceInv /\ [Next]_vars => OnceInv'
<1> SUFFICES ASSUME SpineInv, OnceInv, [Next]_vars PROVE OnceInv'
    OBVIOUS
<1>t. /\ pc \in [Tasks -> InPush \cup InPop \cup {"idle"}]
      /\ message \in [Tasks -> Messages \cup {None}]
      /\ \A p \in Producers : p \in Tasks /\ p \notin Workers
      /\ \A w \in Workers : w \in Tasks
    BY SpineAssumption DEF SpineInv, TypeOK, InPush, InPop, Tasks
<1>1. ASSUME UNCHANGED <<buffer, accepted, delivered>>,
             \A p \in Sending' : p \in Sending /\ message'[p] = message[p]
      PROVE  OnceInv'
    BY <1>1 DEF OnceInv, Known
<1>2. ASSUME NEW p \in Producers, CallPush(p) PROVE OnceInv'
    <2>1. PICK m \in Messages :
            /\ \A r \in Queues : m \notin ToSet(accepted[r])
            /\ \A t \in Tasks : message[t] # m
            /\ message' = [message EXCEPT ![p] = m]
        BY <1>2 DEF CallPush
    <2>2. pc' = [pc EXCEPT ![p] = "push"] /\ UNCHANGED <<buffer, accepted, delivered>>
        BY <1>2 DEF CallPush, history
    <2>3. m \notin Known
        BY <2>1 DEF Known
    <2>4. \A o \in Sending' \ {p} : o \in Sending /\ message'[o] = message[o] /\ message[o] # m
        BY <1>t, <2>1, <2>2 DEF Sending
    <2>5. message'[p] = m
        BY <1>t, <2>1
    <2> QED
        BY <2>2, <2>3, <2>4, <2>5 DEF OnceInv, Known
<1>3. ASSUME NEW t \in Tasks, Local(t), ~(t \in Producers /\ CallPush(t)) PROVE OnceInv'
    <2>1. \A p \in Sending' : p \in Sending /\ message'[p] = message[p]
        BY <1>3, <1>t
           DEF Local, PushRefused, PushAdmitted, IncrementStats, LockStats, SetLen, Returns, Goes,
               PopRefused, PopAdmitted, LockReceiver, Await, DecrementLen, Loops, Resume, Sending
    <2> QED
        BY <1>1, <1>3, <2>1, LocalKeeps
<1>4. ASSUME NEW p \in Producers, PushSends(p) PROVE OnceInv'
    <2> DEFINE q == queue[p]
               m == message[p]
    <2>1. /\ q \in Queues /\ m \in Messages /\ m \notin Known /\ Known' = Known \cup {m}
          /\ buffer'[q] = Append(buffer[q], m)
          /\ ToSet(buffer'[q]) = ToSet(buffer[q]) \cup {m}
          /\ \A r \in Queues \ {q} : buffer'[r] = buffer[r]
          /\ UNCHANGED delivered
        BY <1>4, SendPuts
    <2>2. /\ p \in Sending /\ UNCHANGED message
          /\ \A o \in Sending' : o \in Sending /\ o # p
        BY <1>4, <1>t DEF PushSends, Goes, Sending
    <2>3. \A o \in Sending' : message[o] # m
        BY <2>2 DEF OnceInv
    <2> HIDE DEF q, m
    <2>4. IsInjective(buffer'[q])
        <3>1. buffer[q] \in Seq(Messages)
            BY <2>1 DEF SpineInv, TypeOK
        <3>2. IsInjective(buffer[q]) /\ m \notin ToSet(buffer[q])
            BY <2>1 DEF OnceInv
        <3> QED
            BY <2>1, <3>1, <3>2, SendOnce
    <2> QED
        BY <2>1, <2>2, <2>3, <2>4 DEF OnceInv
<1>5. ASSUME NEW w \in Workers, Receive(w) PROVE OnceInv'
    <2> DEFINE q == Consumes[w]
               m == Head(buffer[q])
    <2>1. /\ q \in Queues /\ m \in ToSet(buffer[q]) /\ IsInjective(buffer'[q])
          /\ ToSet(buffer'[q]) = ToSet(buffer[q]) \ {m}
          /\ ToSet(delivered'[q]) = ToSet(delivered[q]) \cup {m}
          /\ \A r \in Queues \ {q} : buffer'[r] = buffer[r] /\ delivered'[r] = delivered[r]
          /\ UNCHANGED accepted
        BY <1>5, ReceiveTakes
    <2>2. \A o \in Sending' : o \in Sending /\ message'[o] = message[o]
        BY <1>5, <1>t DEF Receive, Goes, Sending
    <2> HIDE DEF q, m
    <2>3. Known' = Known
        BY <2>1 DEF Known
    <2> QED
        BY <2>1, <2>2, <2>3 DEF OnceInv
<1>6. CASE Shutdown \/ UNCHANGED vars
    BY <1>1, <1>6 DEF Shutdown, vars, history, Sending
<1> QED
    BY <1>2, <1>3, <1>4, <1>5, <1>6, Steps

LEMMA PoolNext ==
  ASSUME SpineInv, OnceInv, [Next]_vars
  PROVE  [Pool!Next]_(Pool!vars)
<1>1. ASSUME UNCHANGED <<buffer, delivered>> PROVE UNCHANGED Pool!vars
    BY <1>1 DEF Pool!vars
<1>2. ASSUME NEW p \in Producers, PushSends(p) PROVE Pool!Next
    <2> DEFINE q == queue[p]
               m == message[p]
    <2>1. /\ q \in Queues /\ m \in Messages /\ m \notin Known
          /\ ToSet(buffer'[q]) = ToSet(buffer[q]) \cup {m}
          /\ \A r \in Queues \ {q} : buffer'[r] = buffer[r]
          /\ UNCHANGED delivered
        BY <1>2, SendPuts
    <2> HIDE DEF q, m
    <2>2. Pool!Fresh(m)
        BY <2>1 DEF Pool!Fresh, OnceInv
    <2>3. [r \in Queues |-> ToSet(buffer'[r])]
            = [[r \in Queues |-> ToSet(buffer[r])] EXCEPT ![q] = @ \cup {m}]
        BY <2>1
    <2>4. Pool!Put(q, m)
        BY <2>1, <2>2, <2>3 DEF Pool!Put
    <2> QED
        BY <2>1, <2>4 DEF Pool!Next
<1>3. ASSUME NEW w \in Workers, Receive(w) PROVE Pool!Next
    <2> DEFINE q == Consumes[w]
               m == Head(buffer[q])
    <2>1. /\ q \in Queues /\ m \in Messages /\ m \in ToSet(buffer[q])
          /\ ToSet(buffer'[q]) = ToSet(buffer[q]) \ {m}
          /\ ToSet(delivered'[q]) = ToSet(delivered[q]) \cup {m}
          /\ \A r \in Queues \ {q} : buffer'[r] = buffer[r] /\ delivered'[r] = delivered[r]
        BY <1>3, ReceiveTakes
    <2> HIDE DEF q, m
    <2>2. [r \in Queues |-> ToSet(buffer'[r])]
            = [[r \in Queues |-> ToSet(buffer[r])] EXCEPT ![q] = @ \ {m}]
        BY <2>1
    <2>3. [r \in Queues |-> ToSet(delivered'[r])]
            = [[r \in Queues |-> ToSet(delivered[r])] EXCEPT ![q] = @ \cup {m}]
        BY <2>1
    <2>4. Pool!Take(q, m)
        BY <2>1, <2>2, <2>3 DEF Pool!Take
    <2> QED
        BY <2>1, <2>4 DEF Pool!Next
<1> QED
    BY <1>1, <1>2, <1>3, Steps, LocalKeeps DEF Shutdown, vars, history

\* Whatever tasks, locks and shutdown do, a message that was pushed is handed
\* to at most one worker, once, by the pipeline it was pushed to, and the
\* channels neither lose nor invent one.
THEOREM SpineImplementsPool == Spec => ImplementsPool
<1>1. Init => Pool!Init
    <2>1. ToSet(<<>>) = {}
        BY DEF ToSet
    <2> QED
        BY <2>1 DEF Init, Pool!Init
<1> QED
    BY SpineInit, SpineNext, OnceInit, OnceNext, PoolNext, <1>1, PTL
       DEF Spec, ImplementsPool, Pool!Spec

\* A step of the pool that moves a message leaves its old place.
LEMMA PoolApart == Pool!Apart /\ [Pool!Next]_(Pool!vars) => Pool!Apart'
<1> SUFFICES ASSUME Pool!Apart, Pool!Next \/ UNCHANGED Pool!vars PROVE Pool!Apart'
    OBVIOUS
<1>1. PICK in, out, lost, in2, out2, lost2 :
        /\ in = [q \in Queues |-> ToSet(buffer[q])]
        /\ out = [q \in Queues |-> ToSet(delivered[q])]
        /\ lost = {}
        /\ in2 = [q \in Queues |-> ToSet(buffer'[q])]
        /\ out2 = [q \in Queues |-> ToSet(delivered'[q])]
        /\ lost2 = {}
    OBVIOUS
<1>2. in = [q \in Queues |-> in[q]] /\ out = [q \in Queues |-> out[q]]
    BY <1>1
<1>3. /\ \A q \in Queues : /\ in[q] \cap out[q] = {}
                           /\ (in[q] \cup out[q]) \cap lost = {}
      /\ \A q, r \in Queues : q # r => (in[q] \cup out[q]) \cap (in[r] \cup out[r]) = {}
    BY <1>1 DEF Pool!Apart
<1>4. SUFFICES /\ \A q \in Queues : /\ in2[q] \cap out2[q] = {}
                                    /\ (in2[q] \cup out2[q]) \cap lost2 = {}
               /\ \A q, r \in Queues :
                    q # r => (in2[q] \cup out2[q]) \cap (in2[r] \cup out2[r]) = {}
    BY <1>1 DEF Pool!Apart
<1>5. CASE UNCHANGED Pool!vars
    <2>1. in2 = in /\ out2 = out /\ lost2 = lost
        BY <1>1, <1>5 DEF Pool!vars
    <2> QED
        BY <1>3, <2>1
<1>6. ASSUME NEW q \in Queues, NEW m \in Messages, Pool!Put(q, m) \/ Pool!HandOver(q, m)
      PROVE  /\ m \notin lost /\ \A r \in Queues : m \notin in[r] \cup out[r]
             /\ lost2 = lost
             /\ \/ in2 = [in EXCEPT ![q] = @ \cup {m}] /\ out2 = out
                \/ out2 = [out EXCEPT ![q] = @ \cup {m}] /\ in2 = in
    <2>1. m \notin lost /\ \A r \in Queues : m \notin in[r] \cup out[r]
        BY <1>1, <1>6 DEF Pool!Put, Pool!HandOver, Pool!Fresh
    <2> QED
        BY <1>1, <1>6, <2>1 DEF Pool!Put, Pool!HandOver
<1>7. ASSUME NEW q \in Queues, NEW m \in Messages, Pool!Take(q, m) \/ Pool!Lose(q, m)
      PROVE  /\ m \in in[q] /\ in2 = [in EXCEPT ![q] = @ \ {m}]
             /\ \/ out2 = [out EXCEPT ![q] = @ \cup {m}] /\ lost2 = lost
                \/ out2 = out /\ lost2 = lost \cup {m}
    BY <1>1, <1>7 DEF Pool!Take, Pool!Lose
<1> HIDE <1>1
<1>8. CASE Pool!Next
    <2>1. PICK q \in Queues, m \in Messages :
            \/ Pool!Put(q, m) \/ Pool!HandOver(q, m)
            \/ Pool!Take(q, m) \/ Pool!Lose(q, m)
        BY <1>8 DEF Pool!Next
    <2>2. CASE Pool!Put(q, m) \/ Pool!HandOver(q, m)
        <3>1. /\ m \notin lost /\ lost2 = lost
              /\ \A r \in Queues : m \notin in[r] \cup out[r]
              /\ \A r \in Queues \ {q} : in2[r] = in[r] /\ out2[r] = out[r]
              /\ in2[q] \cup out2[q] = in[q] \cup out[q] \cup {m}
              /\ in2[q] \cap out2[q] = in[q] \cap out[q]
            BY <1>2, <1>6, <2>2
        <3> QED
            BY <1>3, <3>1
    <2>3. CASE Pool!Take(q, m) \/ Pool!Lose(q, m)
        <3>1. /\ m \in in[q] /\ in2[q] = in[q] \ {m}
              /\ \A r \in Queues \ {q} : in2[r] = in[r] /\ out2[r] = out[r]
              /\ \/ out2[q] = out[q] \cup {m} /\ lost2 = lost
                 \/ out2[q] = out[q] /\ lost2 = lost \cup {m}
            BY <1>2, <1>7, <2>3
        <3> QED
            BY <1>3, <3>1
    <2> QED
        BY <2>1, <2>2, <2>3
<1> QED
    BY <1>5, <1>8

\* A message that a worker has received is not in a channel any more, and no
\* other pipeline ever has it.
THEOREM MessagesAreInOnePlace == Spec => []Pool!Apart
<1>1. Init => Pool!Apart
    <2>1. ToSet(<<>>) = {}
        BY DEF ToSet
    <2> QED
        BY <2>1 DEF Init, Pool!Apart
<1> QED
    BY SpineInit, SpineNext, OnceInit, OnceNext, PoolNext, PoolApart, <1>1, PTL DEF Spec

\* No message is in the log of what a queue handed out twice.  (MessagePool,
\* which keeps sets, cannot tell.)
DeliveredOnce == \A q \in Queues : IsInjective(delivered[q])

LEMMA DeliveredGrows ==
  ASSUME SpineInv, DeliveredOnce, NEW q \in Queues, NEW m \in Messages,
         m \notin ToSet(delivered[q]), delivered' = [delivered EXCEPT ![q] = Append(@, m)]
  PROVE  DeliveredOnce'
<1>1. delivered \in [Queues -> Seq(Messages)] /\ delivered[q] \in Seq(Messages)
    BY DEF SpineInv, TypeOK
<1>2. IsInjective(Append(delivered[q], m))
    BY <1>1, SendOnce DEF DeliveredOnce
<1> QED
    BY <1>1, <1>2 DEF DeliveredOnce

\* No two pops of a pipeline's workers ever receive the same message.
THEOREM PopNeverRepeats == Spec => []DeliveredOnce
<1>1. Init => Pool!Apart /\ DeliveredOnce
    <2>1. ToSet(<<>>) = {} /\ IsInjective(<<>>)
        BY DEF ToSet, IsInjective
    <2> QED
        BY <2>1 DEF Init, Pool!Apart, DeliveredOnce
<1>2. SpineInv /\ OnceInv /\ Pool!Apart /\ DeliveredOnce /\ [Next]_vars => DeliveredOnce'
    <2> SUFFICES ASSUME SpineInv, OnceInv, Pool!Apart, DeliveredOnce, [Next]_vars
                 PROVE  DeliveredOnce'
        OBVIOUS
    <2>1. CASE UNCHANGED delivered
        BY <2>1 DEF DeliveredOnce
    <2>2. ASSUME NEW w \in Workers, Receive(w) PROVE DeliveredOnce'
        <3>1. PICK q, m : q = Consumes[w] /\ m = Head(buffer[q])
            OBVIOUS
        <3>2. q \in Queues /\ m \in Messages /\ m \in ToSet(buffer[q])
            BY <2>2, <3>1, ReceiveTakes
        <3>3. delivered' = [delivered EXCEPT ![q] = Append(@, m)]
            BY <2>2, <3>1 DEF Receive
        <3>4. m \notin ToSet(delivered[q])
            BY <3>2 DEF Pool!Apart
        <3> QED
            BY <3>2, <3>3, <3>4, DeliveredGrows
    <2> QED
        BY <2>1, <2>2, Steps, LocalKeeps DEF PushSends, Shutdown, vars, history
<1> QED
    BY SpineInit, SpineNext, OnceInit, OnceNext, PoolNext, PoolApart, <1>1, <1>2, PTL DEF Spec
=============================================================================

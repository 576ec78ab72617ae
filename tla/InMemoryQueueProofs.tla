------------------------- MODULE InMemoryQueueProofs -------------------------
(***************************************************************************)
(* What holds of InMemoryQueue for any goroutines, messages, number of     *)
(* queues and buffer sizes.                                                *)
(***************************************************************************)
EXTENDS InMemoryQueue, ChannelLemmas, TLAPS
-----------------------------------------------------------------------------
(* Type correctness.  Where a goroutine is says what its variables hold.     *)

CallShape ==
  \A p \in Callers :
    /\ pc[p] \in {"push", "pop", "wait", "peek", "peeked"} => queue[p] \in Queues
    /\ pc[p] = "push" => message[p] \in Messages
    /\ pc[p] = "peeked" /\ message[p] = Nil => queue[p] \in closed

QueueInv == TypeOK /\ CallShape

LEMMA QueueInit == Init => QueueInv
<1> SUFFICES ASSUME Init PROVE QueueInv
    OBVIOUS
<1>1. 0 \in 0..Len(CloseOrder)
    BY QueueAssumption, LenProperties
<1>2. \A q \in Queues : Len(buffer[q]) <= Capacity[q]
    BY QueueAssumption, EmptySeq DEF Init
<1> QED
    BY <1>1, <1>2, EmptySeq DEF Init, QueueInv, TypeOK, CallShape, Places

LEMMA LeaveType ==
  ASSUME TypeOK, NEW p \in Callers, NEW at \in Places, NEW woken \in SUBSET Callers,
         Leave(p, at, woken)
  PROVE  /\ pc' \in [Callers -> Places]
         /\ queue' \in [Callers -> Queues \cup {NoQueue}]
         /\ message' \in [Callers -> Messages \cup {Nil}]
         /\ step' \in [Callers -> 0..Len(CloseOrder)]
         /\ expired' \in SUBSET Callers
         /\ pc'[p] = at
         /\ \A o \in Callers \ {p} : o \in woken => pc'[o] = "idle"
         /\ \A o \in Callers \ {p} : o \notin woken =>
              pc'[o] = pc[o] /\ queue'[o] = queue[o] /\ message'[o] = message[o]
<1>1. 0 \in 0..Len(CloseOrder)
    BY QueueAssumption, LenProperties
<1> QED
    BY <1>1 DEF TypeOK, Leave, Places

\* A call that ends, or goes on to where nothing is held, keeps the shape.
LEMMA LeaveShape ==
  ASSUME QueueInv, NEW p \in Callers,
         NEW at \in {"idle", "panicked", "count", "close"},
         NEW woken \in SUBSET Callers,
         Leave(p, at, woken), UNCHANGED closed
  PROVE  CallShape'
<1>1. at \in Places
    BY DEF Places
<1> QED
    BY <1>1, LeaveType DEF QueueInv, CallShape

LEMMA SendType ==
  ASSUME QueueInv, NEW p \in Callers, NEW q \in Queues, NEW at \in {"count", "idle"},
         message[p] \in Messages, CanSend(q), Send(p, q, at)
  PROVE  /\ buffer' \in [Queues -> Seq(Messages)]
         /\ \A r \in Queues : Len(buffer'[r]) <= Capacity[r]
         /\ receivers' \in [Queues -> Seq(Callers)]
         /\ delivered' \in [Queues -> Seq(Messages)]
         /\ \E woken \in SUBSET Callers : Leave(p, at, woken)
<1> USE DEF QueueInv, TypeOK
<1>1. /\ buffer[q] \in Seq(Messages) /\ delivered[q] \in Seq(Messages)
      /\ receivers[q] \in Seq(Callers)
      /\ Len(buffer[q]) \in Nat /\ Capacity[q] \in Nat
    BY LenProperties, QueueAssumption
<1>2. CASE receivers[q] # <<>>
    <2>1. Head(receivers[q]) \in Callers /\ Tail(receivers[q]) \in Seq(Callers)
        BY <1>1, <1>2, TailSeq
    <2>2. Append(delivered[q], message[p]) \in Seq(Messages)
        BY <1>1, AppendSeq
    <2> QED
        BY <1>2, <2>1, <2>2 DEF Send
<1>3. CASE receivers[q] = <<>>
    <2>1. /\ Append(buffer[q], message[p]) \in Seq(Messages)
          /\ Len(Append(buffer[q], message[p])) <= Capacity[q]
        BY <1>1, <1>3, AppendSeq DEF CanSend
    <2> QED
        BY <1>3, <2>1 DEF Send
<1> QED
    BY <1>2, <1>3

LEMMA QueueNext == QueueInv /\ [Next]_vars => QueueInv'
<1> SUFFICES ASSUME QueueInv, [Next]_vars
             PROVE  QueueInv'
    OBVIOUS
<1> USE DEF QueueInv
<1>a. {"idle", "panicked", "count", "close"} \subseteq Places
    BY DEF Places
<1>b. ASSUME NEW p \in Callers, Return(p) \/ Panic(p)
      PROVE  \E at \in {"idle", "panicked"}, woken \in SUBSET Callers : Leave(p, at, woken)
    <2>1. {} \in SUBSET Callers
        OBVIOUS
    <2> QED
        BY <1>b, <2>1 DEF Return, Panic
<1>1. ASSUME NEW p \in Callers, NEW at \in {"pop", "peek", "cancel"},
             NEW q \in Queues \cup {NoQueue},
             at # "cancel" => q \in Queues,
             Enter(p, at, q, Nil),
             UNCHANGED <<buffer, receivers, closed, cancelled, counter, history>>
      PROVE  QueueInv'
    BY <1>1 DEF Enter, TypeOK, CallShape, Places, history
<1>2. ASSUME NEW p \in Callers, Call(p) PROVE QueueInv'
    <2>1. CASE CallPush(p)
        BY <2>1 DEF CallPush, Enter, TypeOK, CallShape, Places, history
    <2> QED
        BY <1>1, <1>2, <2>1 DEF Call, CallPop, CallPeek, CallClose
<1>3. ASSUME NEW p \in Callers, Expire(p) PROVE QueueInv'
    BY <1>3 DEF Expire, TypeOK, CallShape, history
<1>4. ASSUME NEW p \in Callers, NEW at \in {"idle", "panicked", "count", "close"},
             NEW woken \in SUBSET Callers, Leave(p, at, woken),
             UNCHANGED <<buffer, receivers, closed, cancelled, counter, history>>
      PROVE  QueueInv'
    <2>1. CallShape'
        BY <1>4, LeaveShape
    <2> QED
        BY <1>4, <1>a, <2>1, LeaveType DEF TypeOK, history
<1>5. ASSUME NEW p \in Callers,
             \/ PushFails(p) \/ PushPanics(p) \/ PopYieldsNothing(p) \/ PeekFails(p)
             \/ ClosePanics(p) \/ CloseReturns(p)
      PROVE  QueueInv'
    BY <1>5, <1>4, <1>b
       DEF PushFails, PushPanics, PopYieldsNothing, PeekFails, ClosePanics, CloseReturns
<1>6. ASSUME NEW p \in Callers, PushSends(p) PROVE QueueInv'
    <2>1. queue[p] \in Queues /\ message[p] \in Messages
        BY <1>6 DEF PushSends, CallShape
    <2>2. CanSend(queue[p]) /\ Send(p, queue[p], "count")
        BY <1>6 DEF PushSends
    <2>3. PICK woken \in SUBSET Callers : Leave(p, "count", woken)
        BY <2>1, <2>2, SendType
    <2>4. accepted' \in [Queues -> Seq(Messages)]
        BY <1>6, <2>1, AppendSeq DEF PushSends, TypeOK
    <2>5. UNCHANGED <<closed, cancelled, counter, dropped, peeked>>
        BY <1>6 DEF PushSends
    <2>6. CallShape'
        BY <2>3, <2>5, LeaveShape DEF TypeOK
    <2>7. /\ buffer' \in [Queues -> Seq(Messages)]
          /\ \A r \in Queues : Len(buffer'[r]) <= Capacity[r]
          /\ receivers' \in [Queues -> Seq(Callers)]
          /\ delivered' \in [Queues -> Seq(Messages)]
        BY <2>1, <2>2, SendType
    <2> QED
        BY <1>a, <2>3, <2>4, <2>5, <2>6, <2>7, LeaveType DEF TypeOK
<1>7. ASSUME NEW p \in Callers, PeekReturns(p) PROVE QueueInv'
    <2>1. queue[p] \in Queues /\ message[p] \in Messages
        BY <1>7 DEF PeekReturns, CallShape, CanSend, TypeOK
    <2>2. CanSend(queue[p]) /\ Send(p, queue[p], "idle")
        BY <1>7 DEF PeekReturns
    <2>3. PICK woken \in SUBSET Callers : Leave(p, "idle", woken)
        BY <2>1, <2>2, SendType
    <2>5. UNCHANGED <<closed, cancelled, counter, accepted, dropped, peeked>>
        BY <1>7 DEF PeekReturns
    <2>6. CallShape'
        BY <2>3, <2>5, LeaveShape DEF TypeOK
    <2>7. /\ buffer' \in [Queues -> Seq(Messages)]
          /\ \A r \in Queues : Len(buffer'[r]) <= Capacity[r]
          /\ receivers' \in [Queues -> Seq(Callers)]
          /\ delivered' \in [Queues -> Seq(Messages)]
        BY <2>1, <2>2, SendType
    <2> QED
        BY <1>a, <2>3, <2>5, <2>6, <2>7, LeaveType DEF TypeOK
<1>8. ASSUME NEW p \in Callers, IncrementCounter(p) PROVE QueueInv'
    <2>1. /\ Return(p) /\ counter' = counter + 1
          /\ UNCHANGED <<buffer, receivers, closed, cancelled, history>>
        BY <1>8 DEF IncrementCounter
    <2>2. PICK at \in {"idle", "panicked"}, woken \in SUBSET Callers : Leave(p, at, woken)
        BY <1>b, <2>1
    <2>3. CallShape'
        BY <2>1, <2>2, LeaveShape
    <2> QED
        BY <1>a, <2>1, <2>2, <2>3, LeaveType DEF TypeOK, history
<1>9. ASSUME NEW p \in Callers, NEW q \in Queues, buffer[q] # <<>>
      PROVE  /\ Head(buffer[q]) \in Messages
             /\ [buffer EXCEPT ![q] = Tail(@)] \in [Queues -> Seq(Messages)]
             /\ \A r \in Queues : Len([buffer EXCEPT ![q] = Tail(@)][r]) <= Capacity[r]
    <2>1. /\ buffer[q] \in Seq(Messages) /\ Capacity[q] \in Nat
          /\ Len(buffer[q]) \in Nat
        BY QueueAssumption, LenProperties DEF TypeOK
    <2>2. /\ Head(buffer[q]) \in Messages /\ Tail(buffer[q]) \in Seq(Messages)
          /\ Len(Tail(buffer[q])) = Len(buffer[q]) - 1
        BY <1>9, <2>1, TailSeq
    <2> QED
        BY <2>1, <2>2 DEF TypeOK
<1>10. ASSUME NEW p \in Callers, PopReceives(p) PROVE QueueInv'
    <2>1. queue[p] \in Queues /\ buffer[queue[p]] # <<>>
        BY <1>10 DEF PopReceives, CallShape
    <2>2. /\ Return(p)
          /\ UNCHANGED <<receivers, closed, cancelled, counter, accepted, dropped, peeked>>
          /\ buffer' = [buffer EXCEPT ![queue[p]] = Tail(@)]
          /\ delivered' = [delivered EXCEPT ![queue[p]] = Append(@, Head(buffer[queue[p]]))]
        BY <1>10 DEF PopReceives
    <2>3. PICK at \in {"idle", "panicked"}, woken \in SUBSET Callers : Leave(p, at, woken)
        BY <1>b, <2>2
    <2>4. CallShape'
        BY <2>2, <2>3, LeaveShape
    <2>5. delivered' \in [Queues -> Seq(Messages)]
        BY <1>9, <2>1, <2>2, AppendSeq DEF TypeOK
    <2>6. /\ buffer' \in [Queues -> Seq(Messages)]
          /\ \A r \in Queues : Len(buffer'[r]) <= Capacity[r]
        BY <1>9, <2>1, <2>2
    <2> QED
        BY <1>a, <2>2, <2>3, <2>4, <2>5, <2>6, LeaveType DEF TypeOK
<1>11. ASSUME NEW p \in Callers, PopBlocks(p) PROVE QueueInv'
    <2>1. queue[p] \in Queues
        BY <1>11 DEF PopBlocks, CallShape
    <2>2. receivers' \in [Queues -> Seq(Callers)]
        BY <1>11, <2>1, AppendSeq DEF PopBlocks, TypeOK
    <2> QED
        BY <1>11, <2>2 DEF PopBlocks, TypeOK, CallShape, Places, history
<1>12. ASSUME NEW p \in Callers, WaitExpires(p) PROVE QueueInv'
    <2>1. /\ Return(p)
          /\ UNCHANGED <<buffer, closed, cancelled, counter, history>>
          /\ queue[p] \in Queues
        BY <1>12 DEF WaitExpires, CallShape
    <2>2. receivers' \in [Queues -> Seq(Callers)]
        BY <1>12, <2>1, RemoveAtType DEF WaitExpires, TypeOK
    <2>3. PICK at \in {"idle", "panicked"}, woken \in SUBSET Callers : Leave(p, at, woken)
        BY <1>b, <2>1
    <2>4. CallShape'
        BY <2>1, <2>3, LeaveShape
    <2> QED
        BY <1>a, <2>1, <2>2, <2>3, <2>4, LeaveType DEF TypeOK, history
<1>13. ASSUME NEW p \in Callers, PeekReceives(p) PROVE QueueInv'
    <2>1. queue[p] \in Queues
        BY <1>13 DEF PeekReceives, CallShape
    <2>2. /\ pc' = [pc EXCEPT ![p] = "peeked"]
          /\ UNCHANGED <<receivers, closed, cancelled, counter, queue, step, expired,
                         accepted, delivered, dropped>>
        BY <1>13 DEF PeekReceives
    <2>3. CASE buffer[queue[p]] # <<>>
        <3>1. /\ message' = [message EXCEPT ![p] = Head(buffer[queue[p]])]
              /\ buffer' = [buffer EXCEPT ![queue[p]] = Tail(@)]
              /\ peeked' = peeked \cup {queue[p]}
            BY <1>13, <2>3 DEF PeekReceives
        <3>2. Head(buffer[queue[p]]) \in Messages
            BY <1>9, <2>1, <2>3
        <3> QED
            BY <1>9, <2>1, <2>2, <2>3, <3>1, <3>2, QueueAssumption
               DEF TypeOK, CallShape, Places
    <2>4. CASE buffer[queue[p]] = <<>>
        <3>1. queue[p] \in closed /\ UNCHANGED <<message, buffer, peeked>>
            BY <1>13, <2>4 DEF PeekReceives
        <3> QED
            BY <2>1, <2>2, <3>1 DEF TypeOK, CallShape, Places
    <2> QED
        BY <2>3, <2>4
<1>14. ASSUME NEW p \in Callers, PeekDrops(p) \/ PeekPanics(p) PROVE QueueInv'
    <2>1. PICK at \in {"idle", "panicked"}, woken \in SUBSET Callers : Leave(p, at, woken)
        BY <1>b, <1>14 DEF PeekDrops, PeekPanics
    <2>2. UNCHANGED <<buffer, receivers, closed, cancelled, counter, accepted, delivered, peeked>>
        BY <1>14 DEF PeekDrops, PeekPanics
    <2>3. dropped' \in SUBSET Messages
        BY <1>14 DEF PeekDrops, PeekPanics, TypeOK, CallShape
    <2>4. CallShape'
        BY <2>1, <2>2, LeaveShape
    <2> QED
        BY <1>a, <2>1, <2>2, <2>3, <2>4, LeaveType DEF TypeOK
<1>15. ASSUME NEW p \in Callers, Cancel(p) PROVE QueueInv'
    <2> DEFINE woken == {o \in Callers : pc[o] = "wait"}
    <2>1. /\ Leave(p, "close", woken) /\ woken \in SUBSET Callers
          /\ cancelled' = TRUE /\ receivers' = [q \in Queues |-> <<>>]
          /\ UNCHANGED <<buffer, closed, counter, history>>
        BY <1>15 DEF Cancel
    <2> HIDE DEF woken
    <2>2. CallShape'
        BY <2>1, LeaveShape DEF TypeOK
    <2> QED
        BY <1>a, <2>1, <2>2, LeaveType, EmptySeq DEF TypeOK, history
<1>16. ASSUME NEW p \in Callers, CloseChannel(p) PROVE QueueInv'
    <2>1. Len(CloseOrder) \in Nat /\ step[p] \in 0..Len(CloseOrder)
        BY QueueAssumption, LenProperties DEF TypeOK
    <2>2. step[p] + 1 \in 1..Len(CloseOrder)
        BY <1>16, <2>1 DEF CloseChannel
    <2>3. CloseOrder[step[p] + 1] \in Queues
        BY <2>2 DEF Queues
    <2> QED
        BY <1>16, <2>1, <2>2, <2>3 DEF CloseChannel, TypeOK, CallShape, history
<1>17. CASE UNCHANGED vars
    BY <1>17 DEF vars, local, history, TypeOK, CallShape
<1> QED
    BY <1>2, <1>3, <1>5, <1>6, <1>7, <1>8, <1>10, <1>11, <1>12, <1>13, <1>14,
       <1>15, <1>16, <1>17 DEF Next, Work

\* No channel ever holds more than its buffer size, and every variable of
\* every goroutine has the shape its place in the code calls for.
THEOREM QueueTypeCorrect == Spec => []TypeOK
<1>1. QueueInv => TypeOK
    BY DEF QueueInv
<1> QED
    BY QueueInit, QueueNext, <1>1, PTL DEF Spec
-----------------------------------------------------------------------------
(* Shutdown.  A channel is closed, and a Close is past its first step, only  *)
(* once the context is done; so a panic, which takes a closed channel, comes *)
(* after that.                                                               *)

ShutdownInv ==
  /\ closed # {} => cancelled
  /\ \A p \in Callers : pc[p] = "close" => cancelled
  /\ PanicsOnlyAfterClose

LEMMA ShutdownInit == Init => ShutdownInv
BY DEF Init, ShutdownInv, PanicsOnlyAfterClose

\* A call may end anywhere, in a panic only if a channel is closed.
LEMMA LeaveShutdown ==
  ASSUME ShutdownInv, NEW p \in Callers, NEW at, NEW woken \in SUBSET Callers,
         Leave(p, at, woken), UNCHANGED closed,
         cancelled => cancelled',
         at = "close" => cancelled',
         at = "panicked" => closed # {}
  PROVE  ShutdownInv'
BY DEF ShutdownInv, PanicsOnlyAfterClose, Leave

LEMMA ReturnLeaves ==
  ASSUME NEW p \in Callers
  PROVE  /\ Return(p) => \E woken \in SUBSET Callers : Leave(p, "idle", woken)
         /\ Panic(p) => \E woken \in SUBSET Callers : Leave(p, "panicked", woken)
<1>1. {} \in SUBSET Callers
    OBVIOUS
<1> QED
    BY <1>1 DEF Return, Panic

LEMMA SendLeaves ==
  ASSUME QueueInv, NEW p \in Callers, NEW q \in Queues, NEW at, Send(p, q, at)
  PROVE  \E woken \in SUBSET Callers : Leave(p, at, woken)
<1>1. {} \in SUBSET Callers
    OBVIOUS
<1>2. CASE receivers[q] # <<>>
    <2>1. Head(receivers[q]) \in Callers
        BY <1>2, TailSeq DEF QueueInv, TypeOK
    <2> QED
        BY <1>2, <2>1 DEF Send
<1>3. CASE receivers[q] = <<>>
    BY <1>1, <1>3 DEF Send
<1> QED
    BY <1>2, <1>3

LEMMA ShutdownNext == QueueInv /\ ShutdownInv /\ [Next]_vars => ShutdownInv'
<1> SUFFICES ASSUME QueueInv, ShutdownInv, [Next]_vars
             PROVE  ShutdownInv'
    OBVIOUS
<1>t. pc \in [Callers -> Places]
    BY DEF QueueInv, TypeOK
<1>1. ASSUME NEW p \in Callers,
             Call(p) \/ Expire(p) \/ PopBlocks(p) \/ PeekReceives(p) \/ UNCHANGED vars
      PROVE  ShutdownInv'
    BY <1>1, <1>t
       DEF Call, CallPush, CallPop, CallPeek, CallClose, Enter, Expire, PopBlocks,
           PeekReceives, vars, local, ShutdownInv, PanicsOnlyAfterClose
<1>2. ASSUME NEW p \in Callers, Return(p), UNCHANGED <<closed, cancelled>>
      PROVE  ShutdownInv'
    <2>1. PICK woken \in SUBSET Callers : Leave(p, "idle", woken)
        BY <1>2, ReturnLeaves
    <2> QED
        BY <1>2, <2>1, LeaveShutdown
<1>3. ASSUME NEW p \in Callers,
             \/ PushFails(p) \/ IncrementCounter(p) \/ PopReceives(p) \/ PopYieldsNothing(p)
             \/ WaitExpires(p) \/ PeekFails(p) \/ PeekDrops(p) \/ CloseReturns(p)
      PROVE  ShutdownInv'
    BY <1>2, <1>3 DEF PushFails, IncrementCounter, PopReceives, PopYieldsNothing,
                      WaitExpires, PeekFails, PeekDrops, CloseReturns
<1>4. ASSUME NEW p \in Callers, PushPanics(p) \/ PeekPanics(p) \/ ClosePanics(p)
      PROVE  ShutdownInv'
    <2>1. Panic(p) /\ closed # {} /\ UNCHANGED <<closed, cancelled>>
        BY <1>4 DEF PushPanics, PeekPanics, ClosePanics
    <2>2. PICK woken \in SUBSET Callers : Leave(p, "panicked", woken)
        BY <2>1, ReturnLeaves
    <2> QED
        BY <2>1, <2>2, LeaveShutdown
<1>5. ASSUME NEW p \in Callers, PushSends(p) \/ PeekReturns(p)
      PROVE  ShutdownInv'
    <2>1. queue[p] \in Queues /\ UNCHANGED <<closed, cancelled>>
        BY <1>5 DEF PushSends, PeekReturns, QueueInv, CallShape
    <2>2. PICK at \in {"count", "idle"} : Send(p, queue[p], at)
        BY <1>5 DEF PushSends, PeekReturns
    <2>3. PICK woken \in SUBSET Callers : Leave(p, at, woken)
        BY <2>1, <2>2, SendLeaves
    <2> QED
        BY <2>1, <2>3, LeaveShutdown
<1>6. ASSUME NEW p \in Callers, Cancel(p) PROVE ShutdownInv'
    <2>1. PICK woken \in SUBSET Callers : Leave(p, "close", woken)
        BY <1>6 DEF Cancel
    <2> QED
        BY <1>6, <2>1 DEF Cancel, Leave, ShutdownInv, PanicsOnlyAfterClose
<1>7. ASSUME NEW p \in Callers, CloseChannel(p) PROVE ShutdownInv'
    BY <1>7 DEF CloseChannel, ShutdownInv, PanicsOnlyAfterClose
<1>8. CASE UNCHANGED vars
    BY <1>8 DEF vars, local, ShutdownInv, PanicsOnlyAfterClose
<1> QED
    BY <1>1, <1>3, <1>4, <1>5, <1>6, <1>7, <1>8 DEF Next, Work

\* However many goroutines push, peek and close, none of them panics before
\* a Close has cancelled the context and closed a channel.
THEOREM PanicsComeAfterClose == Spec => []PanicsOnlyAfterClose
<1>1. ShutdownInv => PanicsOnlyAfterClose
    BY DEF ShutdownInv
<1> QED
    BY QueueInit, QueueNext, ShutdownInit, ShutdownNext, <1>1, PTL DEF Spec
-----------------------------------------------------------------------------
(* First in, first out.  The goroutines blocked in Pop are served by sends   *)
(* directly, so an order could be broken by a message that overtakes the     *)
(* buffer: nobody is blocked beside a message.  And the only send that does  *)
(* not come from a Push is that of a Peek, whose queue is then in `peeked`.  *)

Hands ==
  \A p \in Callers :
    /\ pc[p] = "peek" => message[p] = Nil
    /\ pc[p] = "peeked" /\ message[p] # Nil => queue[p] \in peeked

FifoInv ==
  /\ \A q \in Queues : receivers[q] # <<>> => buffer[q] = <<>>
  /\ Hands
  /\ FifoUnlessPeeked

LEMMA FifoInit == Init => FifoInv
<1> SUFFICES ASSUME Init PROVE FifoInv
    OBVIOUS
<1>1. <<>> \in Seq(Messages) /\ <<>> \o <<>> = <<>>
    BY EmptySeq, ConcatEmptySeq
<1> QED
    BY <1>1 DEF Init, Hands, FifoInv, FifoUnlessPeeked

\* Where the channels are left alone only the second conjunct is at stake.
LEMMA LeaveFifo ==
  ASSUME QueueInv, FifoInv, NEW p \in Callers,
         NEW at \in {"idle", "panicked", "count", "close"},
         NEW woken \in SUBSET Callers, Leave(p, at, woken), UNCHANGED peeked
  PROVE  Hands'
<1>1. at \in Places
    BY DEF Places
<1> QED
    BY <1>1, LeaveType DEF QueueInv, Hands, FifoInv

\* A send of p: behind everything the queue holds, to a waiting Pop only if it
\* holds nothing.  `log` is what the queue accepted once the send is counted.
LEMMA SendFifo ==
  ASSUME QueueInv, FifoInv, NEW p \in Callers, NEW q \in Queues, NEW at,
         message[p] \in Messages, Send(p, q, at)
  PROVE  /\ \A r \in Queues : receivers'[r] # <<>> => buffer'[r] = <<>>
         /\ \A r \in Queues \ {q} : buffer'[r] = buffer[r] /\ delivered'[r] = delivered[r]
         /\ delivered'[q] \o buffer'[q] = Append(delivered[q] \o buffer[q], message[p])
<1>1. /\ buffer[q] \in Seq(Messages) /\ delivered[q] \in Seq(Messages)
      /\ buffer \in [Queues -> Seq(Messages)] /\ delivered \in [Queues -> Seq(Messages)]
      /\ receivers \in [Queues -> Seq(Callers)]
    BY DEF QueueInv, TypeOK
<1>2. CASE receivers[q] # <<>>
    <2>1. /\ buffer[q] = <<>> /\ buffer' = buffer
          /\ receivers' = [receivers EXCEPT ![q] = Tail(@)]
          /\ delivered' = [delivered EXCEPT ![q] = Append(@, message[p])]
        BY <1>2 DEF Send, FifoInv
    <2>2. /\ Append(delivered[q], message[p]) \o <<>> = Append(delivered[q], message[p])
          /\ delivered[q] \o <<>> = delivered[q]
        BY <1>1, AppendSeq, ConcatEmptySeq
    <2> QED
        BY <1>1, <2>1, <2>2 DEF FifoInv
<1>3. CASE receivers[q] = <<>>
    <2>1. /\ buffer' = [buffer EXCEPT ![q] = Append(@, message[p])]
          /\ receivers' = receivers /\ delivered' = delivered
        BY <1>3 DEF Send
    <2>2. Append(delivered[q] \o buffer[q], message[p])
            = delivered[q] \o Append(buffer[q], message[p])
        <3>1. ASSUME NEW d \in Seq(Messages), NEW b \in Seq(Messages), NEW x \in Messages
              PROVE  Append(d \o b, x) = d \o Append(b, x)
            BY AppendRight
        <3> QED
            BY <1>1, <3>1
    <2> QED
        BY <1>1, <1>3, <2>1, <2>2 DEF FifoInv
<1> QED
    BY <1>2, <1>3

LEMMA FifoNext == QueueInv /\ FifoInv /\ [Next]_vars => FifoInv'
<1> SUFFICES ASSUME QueueInv, FifoInv, [Next]_vars
             PROVE  FifoInv'
    OBVIOUS
<1>t. /\ pc \in [Callers -> Places] /\ receivers \in [Queues -> Seq(Callers)]
      /\ message \in [Callers -> Messages \cup {Nil}]
      /\ queue \in [Callers -> Queues \cup {NoQueue}]
      /\ buffer \in [Queues -> Seq(Messages)] /\ delivered \in [Queues -> Seq(Messages)]
      /\ accepted \in [Queues -> Seq(Messages)] /\ peeked \in SUBSET Queues
    BY DEF QueueInv, TypeOK
<1>1. ASSUME NEW p \in Callers, Call(p) \/ Expire(p)
      PROVE  FifoInv'
    BY <1>1, <1>t
       DEF Call, CallPush, CallPop, CallPeek, CallClose, Enter, Expire, history,
           Hands, FifoInv, FifoUnlessPeeked
<1>2. ASSUME NEW p \in Callers, Return(p) \/ Panic(p), UNCHANGED peeked
      PROVE  Hands'
    <2>1. PICK at \in {"idle", "panicked"}, woken \in SUBSET Callers : Leave(p, at, woken)
        BY <1>2, ReturnLeaves
    <2> QED
        BY <1>2, <2>1, LeaveFifo
<1>3. ASSUME NEW p \in Callers, Return(p) \/ Panic(p),
             UNCHANGED <<buffer, receivers, accepted, delivered, peeked>>
      PROVE  FifoInv'
    <2>1. /\ \A q \in Queues : receivers'[q] # <<>> => buffer'[q] = <<>>
          /\ FifoUnlessPeeked'
        BY <1>3 DEF FifoInv, FifoUnlessPeeked
    <2> QED
        BY <1>2, <1>3, <2>1 DEF FifoInv
<1>4. ASSUME NEW p \in Callers,
             \/ PushFails(p) \/ PushPanics(p) \/ IncrementCounter(p) \/ PopYieldsNothing(p)
             \/ PeekFails(p) \/ PeekDrops(p) \/ PeekPanics(p) \/ ClosePanics(p)
             \/ CloseReturns(p)
      PROVE  FifoInv'
    BY <1>3, <1>4 DEF PushFails, PushPanics, IncrementCounter, PopYieldsNothing, PeekFails,
                      PeekDrops, PeekPanics, ClosePanics, CloseReturns, history
<1>5. ASSUME NEW p \in Callers, PushSends(p) PROVE FifoInv'
    <2> DEFINE q == queue[p]
    <2>1. q \in Queues /\ message[p] \in Messages
        BY <1>5 DEF PushSends, QueueInv, CallShape
    <2>2. /\ CanSend(q) /\ Send(p, q, "count") /\ UNCHANGED peeked
          /\ accepted' = [accepted EXCEPT ![q] = Append(@, message[p])]
        BY <1>5 DEF PushSends
    <2> HIDE DEF q
    <2>3. PICK woken \in SUBSET Callers : Leave(p, "count", woken)
        BY <2>1, <2>2, SendLeaves
    <2>4. Hands'
        BY <2>2, <2>3, LeaveFifo
    <2>5. FifoUnlessPeeked'
        <3>1. /\ \A r \in Queues \ {q} : buffer'[r] = buffer[r] /\ delivered'[r] = delivered[r]
              /\ delivered'[q] \o buffer'[q] = Append(delivered[q] \o buffer[q], message[p])
            BY <2>1, <2>2, SendFifo
        <3>2. \A r \in Queues \ {q} : accepted'[r] = accepted[r]
            BY <1>t, <2>2
        <3>3. accepted'[q] = Append(accepted[q], message[p])
            BY <1>t, <2>1, <2>2
        <3>4. q \notin peeked => accepted[q] = delivered[q] \o buffer[q]
            BY <2>1 DEF FifoInv, FifoUnlessPeeked
        <3>5. ASSUME NEW r \in Queues \ peeked'
              PROVE  accepted'[r] = delivered'[r] \o buffer'[r]
            <4>1. CASE r = q
                BY <2>2, <3>1, <3>3, <3>4, <4>1
            <4>2. CASE r # q
                BY <2>2, <3>1, <3>2, <4>2 DEF FifoInv, FifoUnlessPeeked
            <4> QED
                BY <4>1, <4>2
        <3> QED
            BY <3>5 DEF FifoUnlessPeeked
    <2> QED
        BY <2>1, <2>2, <2>4, <2>5, SendFifo DEF FifoInv
<1>6. ASSUME NEW p \in Callers, PeekReturns(p) PROVE FifoInv'
    <2> DEFINE q == queue[p]
    <2>1. q \in Queues /\ message[p] \in Messages /\ q \in peeked
        BY <1>6, <1>t DEF PeekReturns, CanSend, QueueInv, CallShape, Hands, FifoInv
    <2>2. CanSend(q) /\ Send(p, q, "idle") /\ UNCHANGED <<peeked, accepted>>
        BY <1>6 DEF PeekReturns
    <2> HIDE DEF q
    <2>3. PICK woken \in SUBSET Callers : Leave(p, "idle", woken)
        BY <2>1, <2>2, SendLeaves
    <2>4. Hands'
        BY <2>2, <2>3, LeaveFifo
    <2>5. FifoUnlessPeeked'
        BY <2>1, <2>2, SendFifo DEF FifoInv, FifoUnlessPeeked
    <2> QED
        BY <2>1, <2>2, <2>4, <2>5, SendFifo DEF FifoInv
<1>7. ASSUME NEW p \in Callers, PopReceives(p) PROVE FifoInv'
    <2> DEFINE q == queue[p]
    <2>1. /\ q \in Queues /\ buffer[q] # <<>>
          /\ buffer' = [buffer EXCEPT ![q] = Tail(@)]
          /\ delivered' = [delivered EXCEPT ![q] = Append(@, Head(buffer[q]))]
          /\ Return(p) /\ UNCHANGED <<receivers, accepted, peeked>>
        BY <1>7 DEF PopReceives, QueueInv, CallShape
    <2> HIDE DEF q
    <2>2. delivered'[q] \o buffer'[q] = delivered[q] \o buffer[q]
        <3>1. delivered[q] \in Seq(Messages) /\ buffer[q] \in Seq(Messages)
            BY <1>t, <2>1
        <3>2. Append(delivered[q], Head(buffer[q])) \o Tail(buffer[q]) = delivered[q] \o buffer[q]
            BY <2>1, <3>1, MoveHead, Zenon
        <3> QED
            BY <1>t, <2>1, <3>2
    <2>3. FifoUnlessPeeked'
        BY <1>t, <2>1, <2>2 DEF FifoInv, FifoUnlessPeeked
    <2>4. \A r \in Queues : receivers'[r] # <<>> => buffer'[r] = <<>>
        BY <1>t, <2>1 DEF FifoInv
    <2> QED
        BY <1>2, <2>1, <2>3, <2>4 DEF FifoInv
<1>8. ASSUME NEW p \in Callers, PopBlocks(p) PROVE FifoInv'
    BY <1>8, <1>t DEF PopBlocks, MustBlock, history, Hands, FifoInv, FifoUnlessPeeked
<1>9. ASSUME NEW p \in Callers, WaitExpires(p) PROVE FifoInv'
    <2> DEFINE q == queue[p]
    <2>1. PICK i \in 1..Len(receivers[q]) :
            receivers' = [receivers EXCEPT ![q] = RemoveAt(@, i)]
        BY <1>9 DEF WaitExpires
    <2>2. /\ q \in Queues /\ Return(p)
          /\ UNCHANGED <<buffer, accepted, delivered, peeked>>
        BY <1>9 DEF WaitExpires, history, QueueInv, CallShape
    <2>3. receivers[q] # <<>>
        BY <2>1, EmptySeq
    <2> HIDE DEF q
    <2>4. \A r \in Queues : receivers'[r] # <<>> => buffer'[r] = <<>>
        BY <1>t, <2>1, <2>2, <2>3 DEF FifoInv
    <2> QED
        BY <1>2, <2>2, <2>4 DEF FifoInv, FifoUnlessPeeked
<1>10. ASSUME NEW p \in Callers, PeekReceives(p) PROVE FifoInv'
    <2>1. /\ queue[p] \in Queues /\ pc' = [pc EXCEPT ![p] = "peeked"]
          /\ UNCHANGED <<receivers, queue, accepted, delivered>>
        BY <1>10 DEF PeekReceives, QueueInv, CallShape
    <2>2. CASE buffer[queue[p]] # <<>>
        <3>1. /\ message' = [message EXCEPT ![p] = Head(buffer[queue[p]])]
              /\ buffer' = [buffer EXCEPT ![queue[p]] = Tail(@)]
              /\ peeked' = peeked \cup {queue[p]}
            BY <1>10, <2>2 DEF PeekReceives
        <3> QED
            BY <1>t, <2>1, <2>2, <3>1 DEF Hands, FifoInv, FifoUnlessPeeked
    <2>3. CASE buffer[queue[p]] = <<>>
        <3>1. UNCHANGED <<message, buffer, peeked>> /\ queue[p] \in closed
            BY <1>10, <2>3 DEF PeekReceives
        <3>2. message[p] = Nil
            BY <1>10 DEF PeekReceives, QueueInv, CallShape, Hands, FifoInv
        <3> QED
            BY <1>t, <2>1, <3>1, <3>2 DEF Hands, FifoInv, FifoUnlessPeeked
    <2> QED
        BY <2>2, <2>3
<1>11. ASSUME NEW p \in Callers, Cancel(p) PROVE FifoInv'
    <2> DEFINE woken == {o \in Callers : pc[o] = "wait"}
    <2>1. /\ Leave(p, "close", woken) /\ woken \in SUBSET Callers
          /\ receivers' = [q \in Queues |-> <<>>]
          /\ UNCHANGED <<buffer, accepted, delivered, peeked>>
        BY <1>11 DEF Cancel, history
    <2> HIDE DEF woken
    <2>2. Hands'
        BY <2>1, LeaveFifo
    <2> QED
        BY <2>1, <2>2 DEF FifoInv, FifoUnlessPeeked
<1>12. ASSUME NEW p \in Callers, CloseChannel(p) PROVE FifoInv'
    BY <1>12 DEF CloseChannel, history, Hands, FifoInv, FifoUnlessPeeked
<1>13. CASE UNCHANGED vars
    BY <1>13 DEF vars, local, history, Hands, FifoInv, FifoUnlessPeeked
<1> QED
    BY <1>1, <1>4, <1>5, <1>6, <1>7, <1>8, <1>9, <1>10, <1>11, <1>12, <1>13
       DEF Next, Work

\* Until somebody peeks into it a queue hands out what it accepted in the order
\* it accepted it, for any number of producers and consumers and any buffer.
THEOREM QueueIsFifo == Spec => []FifoUnlessPeeked
<1>1. FifoInv => FifoUnlessPeeked
    BY DEF FifoInv
<1> QED
    BY QueueInit, QueueNext, FifoInit, FifoNext, <1>1, PTL DEF Spec
-----------------------------------------------------------------------------
(* Blocking.  NobodySleepsInVain is inductive beside the types and the       *)
(* shutdown invariant: what could leave a sleeper behind is a send, which    *)
(* wakes the head of the queue's waiters, a close, which has cancelled       *)
(* before, and a waiter that leaves from the middle.                         *)

\* Whoever sleeps after a call has gone on or ended slept before, elsewhere.
LEMMA LeaveSleepers ==
  ASSUME QueueInv, NEW p \in Callers, NEW at, at # "wait",
         NEW woken \in SUBSET Callers, Leave(p, at, woken),
         NEW o \in Callers, pc'[o] = "wait"
  PROVE  /\ pc[o] = "wait" /\ o # p /\ o \notin woken
         /\ queue'[o] = queue[o] /\ queue[o] \in Queues
BY DEF QueueInv, TypeOK, CallShape, Leave

\* A send leaves no sleeper beside the message it puts in the buffer.
LEMMA SendSleepers ==
  ASSUME QueueInv, NobodySleepsInVain, NEW p \in Callers, NEW at, at # "wait",
         queue[p] \in Queues, Send(p, queue[p], at), UNCHANGED <<closed, cancelled>>
  PROVE  NobodySleepsInVain'
<1> DEFINE q == queue[p]
<1>1. q \in Queues /\ receivers[q] \in Seq(Callers)
    BY DEF QueueInv, TypeOK
<1> SUFFICES ASSUME NEW o \in Callers, pc'[o] = "wait"
             PROVE  /\ buffer'[queue'[o]] = <<>>
                    /\ queue'[o] \notin closed'
                    /\ ~cancelled'
                    /\ o \in ToSet(receivers'[queue'[o]])
    BY DEF NobodySleepsInVain
<1>2. CASE receivers[q] # <<>>
    <2>1. /\ receivers' = [receivers EXCEPT ![q] = Tail(@)]
          /\ UNCHANGED buffer /\ Leave(p, at, {Head(receivers[q])})
        BY <1>2 DEF Send
    <2>2. {Head(receivers[q])} \in SUBSET Callers
        BY <1>1, <1>2, TailSeq
    <2>3. /\ pc[o] = "wait" /\ o # Head(receivers[q])
          /\ queue'[o] = queue[o] /\ queue[o] \in Queues
        BY <2>1, <2>2, LeaveSleepers
    <2>4. /\ buffer[queue[o]] = <<>> /\ queue[o] \notin closed /\ ~cancelled
          /\ o \in ToSet(receivers[queue[o]])
        BY <2>3 DEF NobodySleepsInVain
    <2> HIDE DEF q
    <2>5. o \in ToSet(receivers'[queue[o]])
        <3>1. CASE queue[o] = q
            <4>1. receivers'[queue[o]] = Tail(receivers[q])
                BY <1>1, <2>1, <3>1 DEF QueueInv, TypeOK
            <4> QED
                BY <1>1, <1>2, <2>3, <2>4, <3>1, <4>1, ToSetTail
        <3>2. CASE queue[o] # q
            BY <2>1, <2>3, <2>4, <3>2 DEF QueueInv, TypeOK
        <3> QED
            BY <3>1, <3>2
    <2> QED
        BY <2>1, <2>3, <2>4, <2>5
<1>3. CASE receivers[q] = <<>>
    <2>1. /\ buffer' = [buffer EXCEPT ![q] = Append(@, message[p])]
          /\ UNCHANGED receivers /\ Leave(p, at, {})
        BY <1>3 DEF Send
    <2>2. {} \in SUBSET Callers
        OBVIOUS
    <2>3. pc[o] = "wait" /\ queue'[o] = queue[o] /\ queue[o] \in Queues
        BY <2>1, <2>2, LeaveSleepers
    <2>4. /\ buffer[queue[o]] = <<>> /\ queue[o] \notin closed /\ ~cancelled
          /\ o \in ToSet(receivers[queue[o]])
        BY <2>3 DEF NobodySleepsInVain
    <2>5. ToSet(<<>>) = {}
        BY DEF ToSet
    <2>6. queue[o] # q
        BY <1>3, <2>4, <2>5
    <2> HIDE DEF q
    <2>7. buffer'[queue[o]] = buffer[queue[o]]
        BY <2>1, <2>3, <2>6 DEF QueueInv, TypeOK
    <2> QED
        BY <2>1, <2>3, <2>4, <2>7
<1> QED
    BY <1>2, <1>3

LEMMA SleepNext ==
  QueueInv /\ ShutdownInv /\ NobodySleepsInVain /\ [Next]_vars => NobodySleepsInVain'
<1> SUFFICES ASSUME QueueInv, ShutdownInv, NobodySleepsInVain, [Next]_vars
             PROVE  NobodySleepsInVain'
    OBVIOUS
<1>1. ASSUME NEW p \in Callers, NEW at, at # "wait", NEW woken \in SUBSET Callers,
             Leave(p, at, woken), UNCHANGED <<buffer, receivers, closed, cancelled>>
      PROVE  NobodySleepsInVain'
    BY <1>1, LeaveSleepers DEF NobodySleepsInVain
<1>2. ASSUME NEW p \in Callers, Call(p) PROVE NobodySleepsInVain'
    <2>1. PICK at \in {"push", "pop", "peek", "cancel"}, q \in Queues \cup {NoQueue},
               m \in Messages \cup {Nil} : Enter(p, at, q, m)
        BY <1>2 DEF Call, CallPush, CallPop, CallPeek, CallClose
    <2>2. UNCHANGED <<buffer, receivers, closed, cancelled>>
        BY <1>2 DEF Call, CallPush, CallPop, CallPeek, CallClose
    <2>3. ASSUME NEW o \in Callers, pc'[o] = "wait"
          PROVE  pc[o] = "wait" /\ queue'[o] = queue[o]
        BY <2>1, <2>3 DEF Enter, QueueInv, TypeOK
    <2> QED
        BY <2>2, <2>3 DEF NobodySleepsInVain
<1>3. ASSUME NEW p \in Callers, Expire(p) PROVE NobodySleepsInVain'
    BY <1>3 DEF Expire, NobodySleepsInVain
<1>4. ASSUME NEW p \in Callers,
             \/ PushFails(p) \/ PushPanics(p) \/ IncrementCounter(p) \/ PopYieldsNothing(p)
             \/ PeekFails(p) \/ PeekDrops(p) \/ PeekPanics(p)
             \/ ClosePanics(p) \/ CloseReturns(p)
      PROVE  NobodySleepsInVain'
    <2>1. Return(p) \/ Panic(p)
        BY <1>4 DEF PushFails, PushPanics, IncrementCounter, PopYieldsNothing, PeekFails,
                    PeekDrops, PeekPanics, ClosePanics, CloseReturns
    <2>2. UNCHANGED <<buffer, receivers, closed, cancelled>>
        BY <1>4 DEF PushFails, PushPanics, IncrementCounter, PopYieldsNothing, PeekFails,
                    PeekDrops, PeekPanics, ClosePanics, CloseReturns
    <2>3. PICK at \in {"idle", "panicked"}, woken \in SUBSET Callers : Leave(p, at, woken)
        BY <2>1, ReturnLeaves
    <2> QED
        BY <1>1, <2>2, <2>3
<1>5. ASSUME NEW p \in Callers, PushSends(p) PROVE NobodySleepsInVain'
    BY <1>5, SendSleepers DEF PushSends, QueueInv, CallShape
<1>6. ASSUME NEW p \in Callers, PeekReturns(p) PROVE NobodySleepsInVain'
    BY <1>6, SendSleepers DEF PeekReturns, QueueInv, CallShape
<1>7. ASSUME NEW p \in Callers, PopReceives(p) PROVE NobodySleepsInVain'
    <2>1. /\ buffer[queue[p]] # <<>> /\ Return(p)
          /\ buffer' = [buffer EXCEPT ![queue[p]] = Tail(@)]
          /\ UNCHANGED <<receivers, closed, cancelled>>
        BY <1>7 DEF PopReceives
    <2>2. PICK woken \in SUBSET Callers : Leave(p, "idle", woken)
        BY <2>1, ReturnLeaves
    <2>3. ASSUME NEW o \in Callers, pc'[o] = "wait"
          PROVE  /\ pc[o] = "wait" /\ queue'[o] = queue[o]
                 /\ buffer'[queue[o]] = buffer[queue[o]]
        <3>1. pc[o] = "wait" /\ queue'[o] = queue[o] /\ queue[o] \in Queues
            BY <2>2, <2>3, LeaveSleepers
        <3>2. queue[o] # queue[p]
            BY <2>1, <3>1 DEF NobodySleepsInVain
        <3> QED
            BY <2>1, <3>1, <3>2 DEF QueueInv, TypeOK
    <2> QED
        BY <2>1, <2>3 DEF NobodySleepsInVain
<1>8. ASSUME NEW p \in Callers, PopBlocks(p) PROVE NobodySleepsInVain'
    <2>1. queue[p] \in Queues /\ MustBlock(queue[p])
        BY <1>8 DEF PopBlocks, QueueInv, CallShape
    <2>2. /\ pc' = [pc EXCEPT ![p] = "wait"]
          /\ receivers' = [receivers EXCEPT ![queue[p]] = Append(@, p)]
          /\ UNCHANGED <<buffer, closed, cancelled, queue>>
        BY <1>8 DEF PopBlocks
    <2>3. receivers'[queue[p]] = Append(receivers[queue[p]], p)
        BY <2>1, <2>2 DEF QueueInv, TypeOK
    <2>4. ToSet(receivers'[queue[p]]) = ToSet(receivers[queue[p]]) \cup {p}
        BY <2>1, <2>3, ToSetAppend DEF QueueInv, TypeOK
    <2>5. ASSUME NEW o \in Callers, o # p, pc'[o] = "wait"
          PROVE  pc[o] = "wait" /\ o \in ToSet(receivers'[queue[o]])
        <3>1. pc[o] = "wait" /\ queue[o] \in Queues
            BY <2>2, <2>5 DEF QueueInv, TypeOK, CallShape
        <3>2. o \in ToSet(receivers[queue[o]])
            BY <3>1 DEF NobodySleepsInVain
        <3>3. CASE queue[o] = queue[p]
            BY <2>4, <3>1, <3>2, <3>3
        <3>4. CASE queue[o] # queue[p]
            BY <2>2, <3>1, <3>2, <3>4 DEF QueueInv, TypeOK
        <3> QED
            BY <3>3, <3>4, <3>1
    <2>6. p \in ToSet(receivers'[queue[p]])
        BY <2>4
    <2> QED
        BY <2>1, <2>2, <2>5, <2>6 DEF MustBlock, NobodySleepsInVain
<1>9. ASSUME NEW p \in Callers, WaitExpires(p) PROVE NobodySleepsInVain'
    <2>1. PICK i \in 1..Len(receivers[queue[p]]) :
            /\ receivers[queue[p]][i] = p
            /\ receivers' = [receivers EXCEPT ![queue[p]] = RemoveAt(@, i)]
        BY <1>9 DEF WaitExpires
    <2>2. Return(p) /\ queue[p] \in Queues /\ UNCHANGED <<buffer, closed, cancelled>>
        BY <1>9 DEF WaitExpires, QueueInv, CallShape
    <2>3. PICK woken \in SUBSET Callers : Leave(p, "idle", woken)
        BY <2>2, ReturnLeaves
    <2>4. ASSUME NEW o \in Callers, pc'[o] = "wait"
          PROVE  /\ pc[o] = "wait" /\ queue'[o] = queue[o]
                 /\ o \in ToSet(receivers'[queue[o]])
        <3>1. pc[o] = "wait" /\ o # p /\ queue'[o] = queue[o] /\ queue[o] \in Queues
            BY <2>3, <2>4, LeaveSleepers
        <3>2. o \in ToSet(receivers[queue[o]])
            BY <3>1 DEF NobodySleepsInVain
        <3>3. CASE queue[o] = queue[p]
            <4>1. /\ receivers'[queue[o]] = RemoveAt(receivers[queue[o]], i)
                  /\ receivers[queue[o]] \in Seq(Callers)
                BY <2>1, <2>2, <3>3 DEF QueueInv, TypeOK
            <4> QED
                BY <2>1, <3>1, <3>2, <3>3, <4>1, ToSetRemoveAt
        <3>4. CASE queue[o] # queue[p]
            BY <2>1, <3>1, <3>2, <3>4 DEF QueueInv, TypeOK
        <3> QED
            BY <3>1, <3>3, <3>4
    <2> QED
        BY <2>2, <2>4 DEF NobodySleepsInVain
<1>10. ASSUME NEW p \in Callers, PeekReceives(p) PROVE NobodySleepsInVain'
    <2>1. /\ pc' = [pc EXCEPT ![p] = "peeked"]
          /\ UNCHANGED <<receivers, closed, cancelled, queue>>
        BY <1>10 DEF PeekReceives
    <2>2. \/ buffer[queue[p]] # <<>> /\ buffer' = [buffer EXCEPT ![queue[p]] = Tail(@)]
          \/ UNCHANGED buffer
        BY <1>10 DEF PeekReceives
    <2>3. ASSUME NEW o \in Callers, pc'[o] = "wait"
          PROVE  pc[o] = "wait" /\ buffer'[queue[o]] = buffer[queue[o]]
        BY <2>1, <2>2, <2>3 DEF NobodySleepsInVain, QueueInv, TypeOK, CallShape
    <2> QED
        BY <2>1, <2>3 DEF NobodySleepsInVain
<1>11. ASSUME NEW p \in Callers, Cancel(p) PROVE NobodySleepsInVain'
    BY <1>11 DEF Cancel, Leave, NobodySleepsInVain
<1>12. ASSUME NEW p \in Callers, CloseChannel(p) PROVE NobodySleepsInVain'
    BY <1>12 DEF CloseChannel, ShutdownInv, NobodySleepsInVain
<1>13. CASE UNCHANGED vars
    BY <1>13 DEF vars, local, NobodySleepsInVain
<1> QED
    BY <1>2, <1>3, <1>4, <1>5, <1>6, <1>7, <1>8, <1>9, <1>10, <1>11, <1>12, <1>13
       DEF Next, Work

\* No Pop sleeps beside a message, through a close or through a shutdown, and
\* every send finds the sleepers of its queue, for any goroutines and buffers.
THEOREM NobodySleeps == Spec => []NobodySleepsInVain
<1>1. Init => NobodySleepsInVain
    BY DEF Init, NobodySleepsInVain
<1> QED
    BY QueueInit, QueueNext, ShutdownInit, ShutdownNext, SleepNext, <1>1, PTL DEF Spec
-----------------------------------------------------------------------------
(* Waiters.  Who is in the queue of waiters of a channel is blocked in a Pop *)
(* of that channel, and is there once: the goroutine a send wakes is never   *)
(* one that is elsewhere in the code.                                        *)

WaitersInv ==
  \A q \in Queues :
    /\ IsInjective(receivers[q])
    /\ \A o \in ToSet(receivers[q]) : pc[o] = "wait" /\ queue[o] = q

LEMMA WaitersInit == Init => WaitersInv
<1>1. IsInjective(<<>>) /\ ToSet(<<>>) = {}
    BY DEF IsInjective, ToSet
<1> QED
    BY <1>1 DEF Init, WaitersInv

LEMMA WaitersAreCallers ==
  ASSUME QueueInv, NEW q \in Queues, NEW o \in ToSet(receivers[q])
  PROVE  o \in Callers
<1>1. receivers[q] \in Seq(Callers)
    BY DEF QueueInv, TypeOK
<1> QED
    BY <1>1, LenProperties, ElementOfSeq DEF ToSet

\* The goroutines a send wakes: the first waiter, or nobody.
LEMMA SendWakes ==
  ASSUME QueueInv, WaitersInv, NEW p \in Callers, NEW q \in Queues, NEW at, Send(p, q, at)
  PROVE  \E woken \in SUBSET Callers :
           /\ Leave(p, at, woken)
           /\ \A o \in woken : pc[o] = "wait" /\ queue[o] = q
           /\ \A r \in Queues : /\ IsInjective(receivers'[r])
                                /\ ToSet(receivers'[r]) = ToSet(receivers[r]) \ woken
<1>1. /\ receivers[q] \in Seq(Callers) /\ IsInjective(receivers[q])
      /\ receivers \in [Queues -> Seq(Callers)]
    BY DEF QueueInv, TypeOK, WaitersInv
<1>2. CASE receivers[q] # <<>>
    <2> DEFINE first == Head(receivers[q])
    <2>1. /\ receivers' = [receivers EXCEPT ![q] = Tail(@)]
          /\ Leave(p, at, {first})
        BY <1>2 DEF Send
    <2>2. /\ IsInjective(Tail(receivers[q])) /\ first \in ToSet(receivers[q])
          /\ ToSet(Tail(receivers[q])) = ToSet(receivers[q]) \ {first}
        BY <1>1, <1>2, ReceiveOnce
    <2> HIDE DEF first
    <2>3. pc[first] = "wait" /\ queue[first] = q /\ first \in Callers
        BY <2>2, WaitersAreCallers DEF WaitersInv
    <2>4. ASSUME NEW r \in Queues
          PROVE  /\ IsInjective(receivers'[r])
                 /\ ToSet(receivers'[r]) = ToSet(receivers[r]) \ {first}
        <3>1. CASE r = q
            BY <1>1, <2>1, <2>2, <3>1
        <3>2. CASE r # q
            <4>1. receivers'[r] = receivers[r] /\ first \notin ToSet(receivers[r])
                BY <1>1, <2>1, <2>3, <3>2 DEF WaitersInv
            <4> QED
                BY <4>1 DEF WaitersInv
        <3> QED
            BY <3>1, <3>2
    <2> QED
        BY <2>1, <2>3, <2>4
<1>3. CASE receivers[q] = <<>>
    <2>1. receivers' = receivers /\ Leave(p, at, {})
        BY <1>3 DEF Send
    <2>2. {} \in SUBSET Callers
        OBVIOUS
    <2> QED
        BY <2>1, <2>2 DEF WaitersInv
<1> QED
    BY <1>2, <1>3

\* The steps of p that end its call, or take it on, and wake nobody.
LEMMA Alone ==
  ASSUME NEW p \in Callers,
         \/ PushFails(p) \/ PushPanics(p) \/ IncrementCounter(p) \/ PopReceives(p)
         \/ PopYieldsNothing(p) \/ PeekFails(p) \/ PeekDrops(p) \/ PeekPanics(p)
         \/ ClosePanics(p) \/ CloseReturns(p)
  PROVE  /\ pc[p] # "wait" /\ UNCHANGED receivers
         /\ \E at \in {"idle", "panicked"} : Leave(p, at, {})
BY DEF PushFails, PushPanics, IncrementCounter, PopReceives, PopYieldsNothing, PeekFails,
       PeekDrops, PeekPanics, ClosePanics, CloseReturns, Return, Panic

LEMMA WaitersNext == QueueInv /\ WaitersInv /\ [Next]_vars => WaitersInv'
<1> SUFFICES ASSUME QueueInv, WaitersInv, [Next]_vars PROVE WaitersInv'
    OBVIOUS
<1>t. /\ pc \in [Callers -> Places] /\ receivers \in [Queues -> Seq(Callers)]
      /\ queue \in [Callers -> Queues \cup {NoQueue}]
    BY DEF QueueInv, TypeOK
<1>c. \A q \in Queues : \A o \in ToSet(receivers[q]) : o \in Callers
    BY WaitersAreCallers
<1>1. ASSUME UNCHANGED receivers,
             \A o \in Callers : pc[o] = "wait" => pc'[o] = "wait" /\ queue'[o] = queue[o]
      PROVE  WaitersInv'
    BY <1>1, <1>c DEF WaitersInv
<1>2. ASSUME NEW p \in Callers, Call(p) PROVE WaitersInv'
    <2>1. PICK at \in {"push", "pop", "peek", "cancel"}, q \in Queues \cup {NoQueue},
               m \in Messages \cup {Nil} : Enter(p, at, q, m)
        BY <1>2 DEF Call, CallPush, CallPop, CallPeek, CallClose
    <2>2. UNCHANGED receivers
        BY <1>2 DEF Call, CallPush, CallPop, CallPeek, CallClose
    <2> QED
        BY <1>1, <1>t, <2>1, <2>2 DEF Enter
<1>3. ASSUME NEW p \in Callers, Expire(p) \/ CloseChannel(p) PROVE WaitersInv'
    BY <1>1, <1>3 DEF Expire, CloseChannel
<1>4. ASSUME NEW p \in Callers, PeekReceives(p) PROVE WaitersInv'
    BY <1>1, <1>4, <1>t DEF PeekReceives
<1>5. ASSUME NEW p \in Callers,
             \/ PushFails(p) \/ PushPanics(p) \/ IncrementCounter(p) \/ PopReceives(p)
             \/ PopYieldsNothing(p) \/ PeekFails(p) \/ PeekDrops(p) \/ PeekPanics(p)
             \/ ClosePanics(p) \/ CloseReturns(p)
      PROVE  WaitersInv'
    <2>1. PICK at \in {"idle", "panicked"} : Leave(p, at, {})
        BY <1>5, Alone
    <2>2. pc[p] # "wait" /\ UNCHANGED receivers
        BY <1>5, Alone
    <2> QED
        BY <1>1, <2>1, <2>2 DEF Leave
<1>6. ASSUME NEW p \in Callers, PushSends(p) \/ PeekReturns(p) PROVE WaitersInv'
    <2>1. /\ queue[p] \in Queues /\ pc[p] # "wait"
          /\ \E at \in {"count", "idle"} : Send(p, queue[p], at)
        BY <1>6 DEF PushSends, PeekReturns, QueueInv, CallShape
    <2>2. PICK at \in {"count", "idle"}, woken \in SUBSET Callers :
            /\ Leave(p, at, woken)
            /\ \A r \in Queues : /\ IsInjective(receivers'[r])
                                 /\ ToSet(receivers'[r]) = ToSet(receivers[r]) \ woken
        BY <2>1, SendWakes
    <2>3. ASSUME NEW r \in Queues, NEW o \in ToSet(receivers'[r])
          PROVE  pc'[o] = "wait" /\ queue'[o] = r
        <3>1. o \in Callers /\ pc[o] = "wait" /\ queue[o] = r /\ o \notin woken /\ o # p
            BY <1>c, <2>1, <2>2 DEF WaitersInv
        <3> QED
            BY <2>2, <3>1 DEF Leave
    <2> QED
        BY <2>2, <2>3 DEF WaitersInv
<1>7. ASSUME NEW p \in Callers, PopBlocks(p) PROVE WaitersInv'
    <2> DEFINE q == queue[p]
    <2>1. /\ q \in Queues /\ pc[p] = "pop" /\ pc' = [pc EXCEPT ![p] = "wait"]
          /\ receivers' = [receivers EXCEPT ![q] = Append(@, p)] /\ UNCHANGED queue
        BY <1>7 DEF PopBlocks, QueueInv, CallShape
    <2>2. receivers[q] \in Seq(Callers) /\ IsInjective(receivers[q])
        BY <1>t, <2>1 DEF WaitersInv
    <2>3. p \notin ToSet(receivers[q])
        BY <2>1 DEF WaitersInv
    <2>4. /\ ToSet(Append(receivers[q], p)) = ToSet(receivers[q]) \cup {p}
          /\ IsInjective(Append(receivers[q], p))
        BY <2>2, <2>3, ToSetAppend, SendOnce
    <2>5. queue[p] = q
        OBVIOUS
    <2> HIDE DEF q
    <2>6. /\ receivers'[q] = Append(receivers[q], p)
          /\ \A r \in Queues \ {q} : receivers'[r] = receivers[r]
        BY <1>t, <2>1
    <2>7. \A o \in Callers : (pc[o] = "wait" \/ o = p) => pc'[o] = "wait" /\ queue'[o] = queue[o]
        BY <1>t, <2>1
    <2>8. ASSUME NEW r \in Queues, NEW o \in ToSet(receivers'[r])
          PROVE  o \in Callers /\ (pc[o] = "wait" \/ o = p) /\ queue[o] = r
        <3>1. CASE r = q
            <4>1. o \in ToSet(receivers[q]) \/ o = p
                BY <2>4, <2>6, <3>1
            <4> QED
                BY <1>c, <2>1, <2>5, <3>1, <4>1 DEF WaitersInv
        <3>2. CASE r # q
            BY <1>c, <2>6, <3>2 DEF WaitersInv
        <3> QED
            BY <3>1, <3>2
    <2>9. \A r \in Queues : IsInjective(receivers'[r])
        BY <2>4, <2>6 DEF WaitersInv
    <2> QED
        BY <2>7, <2>8, <2>9 DEF WaitersInv
<1>8. ASSUME NEW p \in Callers, WaitExpires(p) PROVE WaitersInv'
    <2> DEFINE q == queue[p]
    <2>1. q \in Queues /\ Leave(p, "idle", {})
        BY <1>8 DEF WaitExpires, Return, QueueInv, CallShape
    <2>2. PICK i \in 1..Len(receivers[q]) :
            /\ receivers[q][i] = p
            /\ receivers' = [receivers EXCEPT ![q] = RemoveAt(@, i)]
        BY <1>8 DEF WaitExpires
    <2>3. queue[p] = q
        OBVIOUS
    <2> HIDE DEF q
    <2>4. receivers[q] \in Seq(Callers) /\ IsInjective(receivers[q])
        BY <1>t, <2>1 DEF WaitersInv
    <2>5. /\ IsInjective(RemoveAt(receivers[q], i))
          /\ ToSet(RemoveAt(receivers[q], i)) = ToSet(receivers[q]) \ {p}
        BY <2>2, <2>4, LeaveOnce
    <2>6. /\ receivers'[q] = RemoveAt(receivers[q], i)
          /\ \A r \in Queues \ {q} : receivers'[r] = receivers[r]
        BY <1>t, <2>1, <2>2
    <2>7. \A o \in Callers \ {p} : pc'[o] = pc[o] /\ queue'[o] = queue[o]
        BY <2>1 DEF Leave
    <2>8. \A r \in Queues \ {q} : p \notin ToSet(receivers[r])
        BY <2>3 DEF WaitersInv
    <2> QED
        BY <1>c, <2>5, <2>6, <2>7, <2>8 DEF WaitersInv
<1>9. ASSUME NEW p \in Callers, Cancel(p) PROVE WaitersInv'
    <2>1. receivers' = [q \in Queues |-> <<>>]
        BY <1>9 DEF Cancel
    <2>2. IsInjective(<<>>) /\ ToSet(<<>>) = {}
        BY DEF IsInjective, ToSet
    <2> QED
        BY <2>1, <2>2 DEF WaitersInv
<1>10. CASE UNCHANGED vars
    BY <1>1, <1>10 DEF vars, local
<1> QED
    BY <1>2, <1>3, <1>4, <1>5, <1>6, <1>7, <1>8, <1>9, <1>10 DEF Next, Work

\* The waiters a channel knows are the goroutines blocked in a Pop of its queue.
SleepersAreWaiters ==
  \A q \in Queues :
    ToSet(receivers[q]) = {p \in Callers : pc[p] = "wait" /\ queue[p] = q}

\* Whatever sends, expiries and shutdowns overlap, the waiters of a channel
\* are exactly the goroutines blocked in a Pop of its queue: none is woken that
\* is doing something else, and none is forgotten.
THEOREM WaitersAreTheBlocked == Spec => []SleepersAreWaiters
<1>1. QueueInv /\ WaitersInv /\ NobodySleepsInVain => SleepersAreWaiters
    BY WaitersAreCallers DEF WaitersInv, NobodySleepsInVain, SleepersAreWaiters
<1>2. Init => NobodySleepsInVain
    BY DEF Init, NobodySleepsInVain
<1> QED
    BY QueueInit, QueueNext, ShutdownInit, ShutdownNext, SleepNext, WaitersInit, WaitersNext,
       <1>1, <1>2, PTL DEF Spec
-----------------------------------------------------------------------------
(* The message counter.  What the counter lacks are the pushes between their *)
(* send and incrementCounter.  Both sets grow from nothing by one element at *)
(* a time, so they are finite whatever the goroutines and queues are; and a  *)
(* send, which ends another call besides, ends a Pop.                        *)

Counting == {p \in Callers : pc[p] = "count"}

CountInv == IsFiniteSet(Counting) /\ IsFiniteSet(Sent) /\ CounterLags

LEMMA CountInit == Init => CountInv
<1> SUFFICES ASSUME Init PROVE CountInv
    OBVIOUS
<1>1. Counting = {}
    BY DEF Init, Counting
<1>2. DOMAIN <<>> = {}
    OBVIOUS
<1>3. Sent = {}
    BY <1>2 DEF Init, Sent
<1>4. /\ IsFiniteSet(Counting) /\ Cardinality(Counting) = 0
      /\ IsFiniteSet(Sent) /\ Cardinality(Sent) = 0
    BY <1>1, <1>3, FS_EmptySet
<1>5. counter + Cardinality(Counting) = Cardinality(Sent)
    BY <1>4 DEF Init
<1> QED
    BY <1>4, <1>5 DEF CountInv, CounterLags, Counting

LEMMA LeaveCounting ==
  ASSUME QueueInv, NEW p \in Callers, NEW at \in Places, NEW woken \in SUBSET Callers,
         Leave(p, at, woken), \A o \in woken : pc[o] = "wait"
  PROVE  Counting' = IF at = "count" THEN Counting \cup {p} ELSE Counting \ {p}
<1>1. \A o \in Callers \ {p} : pc'[o] = "count" <=> pc[o] = "count"
    BY DEF Leave
<1>2. pc'[p] = at
    BY DEF Leave
<1> QED
    BY <1>1, <1>2 DEF Counting

LEMMA CountNext == QueueInv /\ WaitersInv /\ CountInv /\ [Next]_vars => CountInv'
<1> SUFFICES ASSUME QueueInv, WaitersInv, CountInv, [Next]_vars PROVE CountInv'
    OBVIOUS
<1>t. /\ pc \in [Callers -> Places] /\ counter \in Nat
      /\ Cardinality(Counting) \in Nat /\ Cardinality(Sent) \in Nat
      /\ counter + Cardinality(Counting) = Cardinality(Sent)
    BY FS_CardinalityType DEF QueueInv, TypeOK, CountInv, CounterLags, Counting
<1>a. {"idle", "panicked", "count", "close"} \subseteq Places
    BY DEF Places
<1>e. {} \in SUBSET Callers
    OBVIOUS
<1>1. ASSUME UNCHANGED <<counter, accepted>>, Counting' = Counting PROVE CountInv'
    BY <1>1 DEF CountInv, CounterLags, Sent, Counting
<1>2. ASSUME UNCHANGED <<counter, accepted>>, NEW p \in Callers, pc[p] # "count",
             NEW at \in Places \ {"count"}, NEW woken \in SUBSET Callers,
             Leave(p, at, woken), \A o \in woken : pc[o] = "wait"
      PROVE  CountInv'
    <2>1. Counting' = Counting \ {p} /\ p \notin Counting
        BY <1>2, LeaveCounting DEF Counting
    <2> QED
        BY <1>1, <1>2, <2>1
<1>3. ASSUME NEW p \in Callers, Call(p) PROVE CountInv'
    <2>1. PICK at \in {"push", "pop", "peek", "cancel"}, q \in Queues \cup {NoQueue},
               m \in Messages \cup {Nil} : Enter(p, at, q, m)
        BY <1>3 DEF Call, CallPush, CallPop, CallPeek, CallClose
    <2>2. UNCHANGED <<counter, accepted>>
        BY <1>3 DEF Call, CallPush, CallPop, CallPeek, CallClose, history
    <2>3. Counting' = Counting
        BY <1>t, <2>1 DEF Enter, Counting
    <2> QED
        BY <1>1, <2>2, <2>3
<1>4. ASSUME NEW p \in Callers,
             Expire(p) \/ PopBlocks(p) \/ PeekReceives(p) \/ CloseChannel(p)
      PROVE  CountInv'
    <2>1. UNCHANGED <<counter, accepted>>
        BY <1>4 DEF Expire, PopBlocks, PeekReceives, CloseChannel, history
    <2>2. Counting' = Counting
        BY <1>4, <1>t DEF Expire, PopBlocks, PeekReceives, CloseChannel, Counting
    <2> QED
        BY <1>1, <2>1, <2>2
<1>5. ASSUME NEW p \in Callers,
             \/ PushFails(p) \/ PushPanics(p) \/ PopReceives(p) \/ PopYieldsNothing(p)
             \/ PeekFails(p) \/ PeekDrops(p) \/ PeekPanics(p) \/ ClosePanics(p)
             \/ CloseReturns(p) \/ WaitExpires(p)
      PROVE  CountInv'
    <2>1. pc[p] # "count" /\ UNCHANGED <<counter, accepted>>
        BY <1>5 DEF PushFails, PushPanics, PopReceives, PopYieldsNothing, PeekFails, PeekDrops,
                    PeekPanics, ClosePanics, CloseReturns, WaitExpires, history
    <2>2. PICK at \in {"idle", "panicked"} : Leave(p, at, {})
        BY <1>5 DEF PushFails, PushPanics, PopReceives, PopYieldsNothing, PeekFails, PeekDrops,
                    PeekPanics, ClosePanics, CloseReturns, WaitExpires, Return, Panic
    <2> QED
        BY <1>2, <1>a, <1>e, <2>1, <2>2
<1>6. ASSUME NEW p \in Callers, PushSends(p) PROVE CountInv'
    <2>1. /\ queue[p] \in Queues /\ message[p] \in Messages /\ pc[p] = "push"
          /\ Send(p, queue[p], "count") /\ counter' = counter
          /\ accepted' = [accepted EXCEPT ![queue[p]] = Append(@, message[p])]
          /\ accepted \in [Queues -> Seq(Messages)]
        BY <1>6 DEF PushSends, QueueInv, TypeOK, CallShape
    <2>2. PICK woken \in SUBSET Callers :
            Leave(p, "count", woken) /\ \A o \in woken : pc[o] = "wait"
        BY <2>1, SendWakes
    <2>3. Counting' = Counting \cup {p} /\ p \notin Counting
        BY <1>a, <2>1, <2>2, LeaveCounting DEF Counting
    <2> DEFINE place == <<queue[p], Len(accepted[queue[p]]) + 1>>
    <2>4. Sent' = Sent \cup {place} /\ place \notin Sent
        BY <2>1, LogGrows DEF Sent
    <2> HIDE DEF place
    <2>5. /\ IsFiniteSet(Counting') /\ Cardinality(Counting') = Cardinality(Counting) + 1
          /\ IsFiniteSet(Sent') /\ Cardinality(Sent') = Cardinality(Sent) + 1
        BY <2>3, <2>4, FS_AddElement DEF CountInv
    <2>6. counter' + Cardinality(Counting') = Cardinality(Sent')
        BY <1>t, <2>1, <2>5
    <2> QED
        BY <2>5, <2>6 DEF CountInv, CounterLags, Counting
<1>7. ASSUME NEW p \in Callers, IncrementCounter(p) PROVE CountInv'
    <2>1. pc[p] = "count" /\ counter' = counter + 1 /\ Leave(p, "idle", {}) /\ Sent' = Sent
        BY <1>7 DEF IncrementCounter, Return, Sent, history
    <2>2. Counting' = Counting \ {p} /\ p \in Counting
        BY <1>a, <1>e, <2>1, LeaveCounting DEF Counting
    <2>3. IsFiniteSet(Counting') /\ Cardinality(Counting') = Cardinality(Counting) - 1
        BY <2>2, FS_RemoveElement DEF CountInv
    <2>4. counter' + Cardinality(Counting') = Cardinality(Sent')
        BY <1>t, <2>1, <2>3
    <2> QED
        BY <2>1, <2>3, <2>4 DEF CountInv, CounterLags, Counting
<1>8. ASSUME NEW p \in Callers, PeekReturns(p) PROVE CountInv'
    <2>1. /\ queue[p] \in Queues /\ pc[p] = "peeked" /\ Send(p, queue[p], "idle")
          /\ UNCHANGED <<counter, accepted>>
        BY <1>8 DEF PeekReturns, QueueInv, CallShape
    <2>2. PICK woken \in SUBSET Callers :
            Leave(p, "idle", woken) /\ \A o \in woken : pc[o] = "wait"
        BY <2>1, SendWakes
    <2> QED
        BY <1>2, <1>a, <2>1, <2>2
<1>9. ASSUME NEW p \in Callers, Cancel(p) PROVE CountInv'
    <2> DEFINE woken == {o \in Callers : pc[o] = "wait"}
    <2>1. /\ pc[p] = "cancel" /\ Leave(p, "close", woken) /\ UNCHANGED <<counter, accepted>>
          /\ woken \in SUBSET Callers /\ \A o \in woken : pc[o] = "wait"
        BY <1>9 DEF Cancel, history
    <2> HIDE DEF woken
    <2> QED
        BY <1>2, <1>a, <2>1
<1>10. CASE UNCHANGED vars
    BY <1>1, <1>10 DEF vars, local, history, Counting
<1> QED
    BY <1>3, <1>4, <1>5, <1>6, <1>7, <1>8, <1>9, <1>10 DEF Next, Work

\* However pushes, peeks, failures and shutdowns overlap, TotalMessagesCount
\* counts every accepted message once and lags behind only by the pushes that
\* are between their send and their count.
THEOREM CounterCountsEveryMessage == Spec => []CounterLags
<1>1. CountInv => CounterLags
    BY DEF CountInv
<1> QED
    BY QueueInit, QueueNext, WaitersInit, WaitersNext, CountInit, CountNext, <1>1, PTL DEF Spec
-----------------------------------------------------------------------------
(* InMemoryQueue implements MessagePool.  A queue has a message in one place *)
(* at a time, the buffer or the hands of one peeker, and what a producer is  *)
(* about to send has not been anywhere; so every send is a Put or a HandOver *)
(* of a fresh message, and what is taken or lost is gone from the queue.     *)

Known == UNION {ToSet(accepted[q]) : q \in Queues}

Pushers == {p \in Callers : pc[p] = "push"}
Peekers == {p \in Callers : pc[p] = "peeked" /\ message[p] # Nil}

Has(q, m) == \/ m \in ToSet(buffer[q])
             \/ \E p \in Peekers : queue[p] = q /\ message[p] = m

OnceInv ==
  /\ \A q \in Queues : IsInjective(buffer[q])
  /\ \A q \in Queues : \A m : Has(q, m) \/ m \in ToSet(delivered[q]) => m \in Known
  /\ dropped \subseteq Known
  /\ \A p \in Peekers : message[p] \notin ToSet(buffer[queue[p]])
  /\ \A p, o \in Peekers : queue[p] = queue[o] /\ message[p] = message[o] => p = o
  /\ \A p \in Pushers : message[p] \notin Known
  /\ \A p, o \in Pushers : message[p] = message[o] => p = o

LEMMA OnceInit == Init => OnceInv
<1>1. IsInjective(<<>>) /\ ToSet(<<>>) = {}
    BY DEF IsInjective, ToSet
<1> QED
    BY <1>1 DEF Init, OnceInv, Has, Pushers, Peekers

\* What the others hold is not disturbed by a call that ends or goes on.
LEMMA LeaveHolders ==
  ASSUME NEW p \in Callers, NEW at \in {"idle", "panicked", "count", "close"},
         NEW woken \in SUBSET Callers,
         Leave(p, at, woken), \A o \in woken : pc[o] = "wait"
  PROVE  /\ Pushers' = Pushers \ {p} /\ Peekers' = Peekers \ {p}
         /\ \A o \in Pushers' \cup Peekers' : queue'[o] = queue[o] /\ message'[o] = message[o]
<1>1. \A o \in Callers \ {p} : o \notin woken =>
        pc'[o] = pc[o] /\ queue'[o] = queue[o] /\ message'[o] = message[o]
    BY DEF Leave
<1>2. pc'[p] = at /\ \A o \in woken \ {p} : pc'[o] = "idle"
    BY DEF Leave
<1> QED
    BY <1>1, <1>2 DEF Pushers, Peekers

\* The places of the messages after a send of p on q, which knows its message
\* already if p puts back what it peeked.
LEMMA SendPlaces ==
  ASSUME QueueInv, WaitersInv, OnceInv, NEW p \in Pushers \cup Peekers,
         NEW q, q = queue[p], NEW m, m = message[p], m # Nil,
         NEW at \in {"idle", "count"}, Send(p, q, at)
  PROVE  /\ q \in Queues /\ m \in Messages
         /\ Pushers' = Pushers \ {p} /\ Peekers' = Peekers \ {p}
         /\ \A o \in Pushers' \cup Peekers' : queue'[o] = queue[o] /\ message'[o] = message[o]
         /\ \A r \in Queues \ {q} : buffer'[r] = buffer[r] /\ delivered'[r] = delivered[r]
         /\ IsInjective(buffer'[q])
         /\ \/ /\ ToSet(buffer'[q]) = ToSet(buffer[q]) \cup {m}
               /\ ToSet(delivered'[q]) = ToSet(delivered[q])
            \/ /\ ToSet(buffer'[q]) = ToSet(buffer[q])
               /\ ToSet(delivered'[q]) = ToSet(delivered[q]) \cup {m}
<1>1. q \in Queues /\ m \in Messages /\ p \in Callers
    BY DEF QueueInv, TypeOK, CallShape, Pushers, Peekers
<1>2. PICK woken \in SUBSET Callers :
        Leave(p, at, woken) /\ \A o \in woken : pc[o] = "wait"
    BY <1>1, SendWakes
<1>3. /\ Pushers' = Pushers \ {p} /\ Peekers' = Peekers \ {p}
      /\ \A o \in Pushers' \cup Peekers' : queue'[o] = queue[o] /\ message'[o] = message[o]
    BY <1>1, <1>2, LeaveHolders
<1>4. /\ buffer \in [Queues -> Seq(Messages)]
      /\ delivered \in [Queues -> Seq(Messages)]
    BY DEF QueueInv, TypeOK
<1>5. IsInjective(buffer[q]) /\ m \notin ToSet(buffer[q])
    <2>1. CASE p \in Pushers
        BY <1>1, <2>1 DEF OnceInv, Has
    <2>2. CASE p \in Peekers
        BY <1>1, <2>2 DEF OnceInv
    <2> QED
        BY <2>1, <2>2
<1>6. ASSUME NEW s \in Seq(Messages) PROVE ToSet(Append(s, m)) = ToSet(s) \cup {m}
    BY <1>1, ToSetAppend
<1>7. IsInjective(Append(buffer[q], m))
    BY <1>1, <1>4, <1>5, SendOnce
<1>8. \/ buffer' = buffer /\ delivered' = [delivered EXCEPT ![q] = Append(@, m)]
      \/ buffer' = [buffer EXCEPT ![q] = Append(@, m)] /\ delivered' = delivered
    BY DEF Send
<1> QED
    BY <1>1, <1>3, <1>4, <1>5, <1>6, <1>7, <1>8

\* A receive of p, by Pop or Peek, empties one place.
LEMMA ReceivePlaces ==
  ASSUME QueueInv, OnceInv, NEW q \in Queues, buffer[q] # <<>>, NEW m, m = Head(buffer[q]),
         buffer' = [buffer EXCEPT ![q] = Tail(@)]
  PROVE  /\ m \in Messages /\ m \in ToSet(buffer[q])
         /\ IsInjective(buffer'[q]) /\ ToSet(buffer'[q]) = ToSet(buffer[q]) \ {m}
         /\ \A r \in Queues \ {q} : buffer'[r] = buffer[r]
         /\ \A o \in Peekers : queue[o] = q => message[o] # m
<1>1. buffer[q] \in Seq(Messages) /\ IsInjective(buffer[q]) /\ buffer \in [Queues -> Seq(Messages)]
    BY DEF QueueInv, TypeOK, OnceInv
<1>2. m \in Messages
    BY <1>1, TailSeq
<1>3. /\ IsInjective(Tail(buffer[q])) /\ m \in ToSet(buffer[q])
      /\ ToSet(Tail(buffer[q])) = ToSet(buffer[q]) \ {m}
    BY <1>1, ReceiveOnce
<1>4. \A o \in Peekers : queue[o] = q => message[o] # m
    BY <1>3 DEF OnceInv
<1> QED
    BY <1>1, <1>2, <1>3, <1>4

LEMMA OnceNext ==
  QueueInv /\ WaitersInv /\ FifoInv /\ OnceInv /\ [Next]_vars => OnceInv'
<1> SUFFICES ASSUME QueueInv, WaitersInv, FifoInv, OnceInv, [Next]_vars PROVE OnceInv'
    OBVIOUS
<1>t. /\ pc \in [Callers -> Places] /\ message \in [Callers -> Messages \cup {Nil}]
      /\ queue \in [Callers -> Queues \cup {NoQueue}]
      /\ delivered \in [Queues -> Seq(Messages)] /\ accepted \in [Queues -> Seq(Messages)]
    BY DEF QueueInv, TypeOK
<1>e. {} \in SUBSET Callers
    OBVIOUS
\* No channel is touched, and nobody comes to hold a message.
<1>1. ASSUME UNCHANGED <<buffer, accepted, delivered, dropped>>,
             Pushers' \subseteq Pushers, Peekers' \subseteq Peekers,
             \A o \in Pushers' \cup Peekers' : queue'[o] = queue[o] /\ message'[o] = message[o]
      PROVE  OnceInv'
    BY <1>1 DEF OnceInv, Has, Known
<1>2. ASSUME NEW p \in Callers, CallPush(p) PROVE OnceInv'
    <2>1. PICK q \in Queues, m \in Messages :
            /\ \A r \in Queues : m \notin ToSet(accepted[r])
            /\ \A o \in Callers : message[o] # m
            /\ Enter(p, "push", q, m)
        BY <1>2 DEF CallPush
    <2>2. UNCHANGED <<buffer, accepted, delivered, dropped>>
        BY <1>2 DEF CallPush, history
    <2>3. m \notin Known
        BY <2>1 DEF Known
    <2>4. Peekers' = Peekers /\ Pushers' = Pushers \cup {p} /\ p \notin Peekers
        BY <1>t, <2>1 DEF Enter, Peekers, Pushers
    <2>5. /\ message'[p] = m
          /\ \A o \in Callers \ {p} : message'[o] = message[o] /\ queue'[o] = queue[o]
        BY <1>t, <2>1 DEF Enter
    <2>6. \A o \in Pushers : message[o] # m /\ o \in Callers
        BY <2>1 DEF Pushers
    <2>7. \A o \in Peekers : o \in Callers
        BY DEF Peekers
    <2> QED
        BY <2>2, <2>3, <2>4, <2>5, <2>6, <2>7 DEF OnceInv, Has, Known
<1>3. ASSUME NEW p \in Callers, CallPop(p) \/ CallPeek(p) \/ CallClose(p) PROVE OnceInv'
    <2>1. PICK at \in {"pop", "peek", "cancel"}, q \in Queues \cup {NoQueue} : Enter(p, at, q, Nil)
        BY <1>3 DEF CallPop, CallPeek, CallClose
    <2>2. UNCHANGED <<buffer, accepted, delivered, dropped>>
        BY <1>3 DEF CallPop, CallPeek, CallClose, history
    <2>3. /\ Peekers' = Peekers /\ Pushers' = Pushers
          /\ \A o \in Pushers \cup Peekers : queue'[o] = queue[o] /\ message'[o] = message[o]
        BY <1>t, <2>1 DEF Enter, Peekers, Pushers
    <2> QED
        BY <1>1, <2>2, <2>3
<1>4. ASSUME NEW p \in Callers, Expire(p) \/ PopBlocks(p) \/ CloseChannel(p) PROVE OnceInv'
    <2>1. UNCHANGED <<buffer, accepted, delivered, dropped, queue, message>>
        BY <1>4 DEF Expire, PopBlocks, CloseChannel, history
    <2>2. Peekers' = Peekers /\ Pushers' \subseteq Pushers
        BY <1>4, <1>t DEF Expire, PopBlocks, CloseChannel, Peekers, Pushers
    <2> QED
        BY <1>1, <2>1, <2>2
<1>5. ASSUME NEW p \in Callers, NEW at \in {"idle", "panicked", "count", "close"},
             NEW woken \in SUBSET Callers,
             Leave(p, at, woken), \A o \in woken : pc[o] = "wait",
             UNCHANGED <<buffer, accepted, delivered, dropped>>
      PROVE  OnceInv'
    <2>1. /\ Pushers' = Pushers \ {p} /\ Peekers' = Peekers \ {p}
          /\ \A o \in Pushers' \cup Peekers' : queue'[o] = queue[o] /\ message'[o] = message[o]
        BY <1>5, LeaveHolders
    <2> QED
        BY <1>1, <1>5, <2>1
<1>6. ASSUME NEW p \in Callers,
             \/ PushFails(p) \/ PushPanics(p) \/ IncrementCounter(p) \/ PopYieldsNothing(p)
             \/ PeekFails(p) \/ ClosePanics(p) \/ CloseReturns(p) \/ WaitExpires(p)
      PROVE  OnceInv'
    <2>1. UNCHANGED <<buffer, accepted, delivered, dropped>>
        BY <1>6 DEF PushFails, PushPanics, IncrementCounter, PopYieldsNothing, PeekFails,
                    ClosePanics, CloseReturns, WaitExpires, history
    <2>2. PICK at \in {"idle", "panicked"} : Leave(p, at, {})
        BY <1>6 DEF PushFails, PushPanics, IncrementCounter, PopYieldsNothing, PeekFails,
                    ClosePanics, CloseReturns, WaitExpires, Return, Panic
    <2> QED
        BY <1>5, <1>e, <2>1, <2>2
<1>7. ASSUME NEW p \in Callers, Cancel(p) PROVE OnceInv'
    <2> DEFINE woken == {o \in Callers : pc[o] = "wait"}
    <2>1. /\ Leave(p, "close", woken) /\ UNCHANGED <<buffer, accepted, delivered, dropped>>
          /\ woken \in SUBSET Callers /\ \A o \in woken : pc[o] = "wait"
        BY <1>7 DEF Cancel, history
    <2> HIDE DEF woken
    <2> QED
        BY <1>5, <2>1
<1>8. ASSUME NEW p \in Callers, PushSends(p) PROVE OnceInv'
    <2> DEFINE q == queue[p]
               m == message[p]
    <2>1. /\ p \in Pushers /\ m # Nil /\ Send(p, q, "count") /\ dropped' = dropped
          /\ accepted' = [accepted EXCEPT ![q] = Append(@, m)]
        BY <1>8, QueueAssumption DEF PushSends, Pushers, QueueInv, CallShape
    <2>2. /\ q \in Queues /\ m \in Messages
          /\ Pushers' = Pushers \ {p} /\ Peekers' = Peekers \ {p}
          /\ \A o \in Pushers' \cup Peekers' : queue'[o] = queue[o] /\ message'[o] = message[o]
          /\ \A r \in Queues \ {q} : buffer'[r] = buffer[r] /\ delivered'[r] = delivered[r]
          /\ IsInjective(buffer'[q])
          /\ ToSet(buffer'[q]) \subseteq ToSet(buffer[q]) \cup {m}
          /\ ToSet(delivered'[q]) \subseteq ToSet(delivered[q]) \cup {m}
        BY <2>1, SendPlaces
    <2>3. m \notin Known /\ \A o \in Pushers \ {p} : message[o] # m
        BY <2>1 DEF OnceInv
    <2> HIDE DEF q, m
    <2>4. /\ accepted'[q] = Append(accepted[q], m)
          /\ \A r \in Queues \ {q} : accepted'[r] = accepted[r]
        BY <1>t, <2>1, <2>2
    <2>5. ToSet(accepted'[q]) = ToSet(accepted[q]) \cup {m}
        <3>1. accepted[q] \in Seq(Messages)
            BY <1>t, <2>2
        <3> QED
            BY <2>2, <2>4, <3>1, ToSetAppend
    <2>6. Known' = Known \cup {m}
        <3>1. /\ q \in Queues
              /\ \A r \in Queues \ {q} : ToSet(accepted'[r]) = ToSet(accepted[r])
            BY <2>2, <2>4
        <3> QED
            BY <2>5, <3>1 DEF Known
    <2>7. \A o \in Peekers : Has(queue[o], message[o])
        BY DEF Has
    <2>8. \A o \in Peekers : queue[o] \in Queues
        BY DEF Peekers, QueueInv, CallShape
    <2>9. \A o \in Peekers : message[o] # m
        BY <2>3, <2>7, <2>8 DEF OnceInv
    <2>10. ASSUME NEW r \in Queues, NEW x, Has(r, x)' \/ x \in ToSet(delivered'[r])
           PROVE  x \in Known'
        <3>1. Has(r, x) \/ x \in ToSet(delivered[r]) \/ x = m
            BY <2>2, <2>10 DEF Has
        <3> QED
            BY <2>6, <3>1 DEF OnceInv
    <2>11. \A o \in Peekers' : message'[o] \notin ToSet(buffer'[queue'[o]])
        BY <2>2, <2>8, <2>9 DEF OnceInv
    <2> QED
        BY <2>1, <2>2, <2>3, <2>6, <2>10, <2>11 DEF OnceInv
<1>9. ASSUME NEW p \in Callers, PeekReturns(p) PROVE OnceInv'
    <2> DEFINE q == queue[p]
               m == message[p]
    <2>1. /\ p \in Peekers /\ m # Nil /\ Send(p, q, "idle") /\ UNCHANGED <<accepted, dropped>>
        BY <1>9 DEF PeekReturns, CanSend, Peekers, QueueInv, CallShape
    <2>2. /\ q \in Queues /\ m \in Messages
          /\ Pushers' = Pushers \ {p} /\ Peekers' = Peekers \ {p}
          /\ \A o \in Pushers' \cup Peekers' : queue'[o] = queue[o] /\ message'[o] = message[o]
          /\ \A r \in Queues \ {q} : buffer'[r] = buffer[r] /\ delivered'[r] = delivered[r]
          /\ IsInjective(buffer'[q])
          /\ ToSet(buffer'[q]) \subseteq ToSet(buffer[q]) \cup {m}
          /\ ToSet(delivered'[q]) \subseteq ToSet(delivered[q]) \cup {m}
        BY <2>1, SendPlaces
    <2>3. Has(q, m) /\ m \in Known
        BY <2>1, <2>2 DEF Has, OnceInv
    <2>4. \A o \in Peekers \ {p} : queue[o] = q => message[o] # m
        BY <2>1 DEF OnceInv
    <2> HIDE DEF q, m
    <2>5. Known' = Known
        BY <2>1 DEF Known
    <2>6. ASSUME NEW r \in Queues, NEW x, Has(r, x)' \/ x \in ToSet(delivered'[r])
           PROVE  x \in Known'
        <3>1. Has(r, x) \/ x \in ToSet(delivered[r]) \/ x = m
            BY <2>2, <2>6 DEF Has
        <3> QED
            BY <2>3, <2>5, <3>1 DEF OnceInv
    <2>7. \A o \in Peekers : queue[o] \in Queues
        BY DEF Peekers, QueueInv, CallShape
    <2>8. \A o \in Peekers' : message'[o] \notin ToSet(buffer'[queue'[o]])
        BY <2>2, <2>4, <2>7 DEF OnceInv
    <2> QED
        BY <2>1, <2>2, <2>5, <2>6, <2>8 DEF OnceInv
<1>10. ASSUME NEW p \in Callers, PopReceives(p) PROVE OnceInv'
    <2> DEFINE q == queue[p]
               m == Head(buffer[q])
    <2>1. /\ q \in Queues /\ buffer[q] # <<>> /\ Leave(p, "idle", {})
          /\ buffer' = [buffer EXCEPT ![q] = Tail(@)]
          /\ delivered' = [delivered EXCEPT ![q] = Append(@, m)]
          /\ UNCHANGED <<accepted, dropped>>
        BY <1>10 DEF PopReceives, Return, QueueInv, CallShape
    <2>2. /\ Pushers' = Pushers \ {p} /\ Peekers' = Peekers \ {p}
          /\ \A o \in Pushers' \cup Peekers' : queue'[o] = queue[o] /\ message'[o] = message[o]
        BY <1>e, <2>1, LeaveHolders
    <2>3. /\ m \in Messages /\ m \in ToSet(buffer[q])
          /\ IsInjective(buffer'[q]) /\ ToSet(buffer'[q]) = ToSet(buffer[q]) \ {m}
          /\ \A r \in Queues \ {q} : buffer'[r] = buffer[r]
        BY <2>1, ReceivePlaces
    <2> HIDE DEF q, m
    <2>4. /\ delivered'[q] = Append(delivered[q], m)
          /\ \A r \in Queues \ {q} : delivered'[r] = delivered[r]
        BY <1>t, <2>1
    <2>5. ToSet(delivered'[q]) = ToSet(delivered[q]) \cup {m}
        <3>1. delivered[q] \in Seq(Messages)
            BY <1>t, <2>1
        <3> QED
            BY <2>3, <2>4, <3>1, ToSetAppend
    <2>6. Known' = Known
        BY <2>1 DEF Known
    <2>7. ASSUME NEW r \in Queues, NEW x, Has(r, x)' \/ x \in ToSet(delivered'[r])
          PROVE  x \in Known'
        <3>1. Has(r, x) \/ x \in ToSet(delivered[r])
            BY <2>2, <2>3, <2>4, <2>5, <2>7 DEF Has
        <3> QED
            BY <2>6, <3>1 DEF OnceInv
    <2>8. \A o \in Peekers : queue[o] \in Queues
        BY DEF Peekers, QueueInv, CallShape
    <2>9. \A o \in Peekers' : message'[o] \notin ToSet(buffer'[queue'[o]])
        BY <2>2, <2>3, <2>8 DEF OnceInv
    <2> QED
        BY <2>1, <2>2, <2>3, <2>6, <2>7, <2>9 DEF OnceInv
<1>11. ASSUME NEW p \in Callers, PeekReceives(p) PROVE OnceInv'
    <2> DEFINE q == queue[p]
    <2>1. /\ q \in Queues /\ pc[p] = "peek" /\ pc' = [pc EXCEPT ![p] = "peeked"]
          /\ message[p] = Nil
          /\ UNCHANGED <<queue, accepted, delivered, dropped>>
        BY <1>11 DEF PeekReceives, QueueInv, CallShape, FifoInv, Hands
    <2>2. Pushers' = Pushers /\ p \notin Pushers /\ p \notin Peekers
        BY <1>t, <2>1 DEF Pushers, Peekers
    <2>3. Known' = Known
        BY <2>1 DEF Known
    <2>4. CASE buffer[q] = <<>>
        <3>1. UNCHANGED <<message, buffer>>
            BY <1>11, <2>4 DEF PeekReceives
        <3>2. Peekers' = Peekers
            BY <1>t, <2>1, <3>1 DEF Peekers
        <3> QED
            BY <1>1, <2>1, <2>2, <3>1, <3>2
    <2>5. CASE buffer[q] # <<>>
        <3> DEFINE m == Head(buffer[q])
        <3>1. /\ message' = [message EXCEPT ![p] = m]
              /\ buffer' = [buffer EXCEPT ![q] = Tail(@)]
            BY <1>11, <2>5 DEF PeekReceives
        <3>2. /\ m \in Messages /\ m \in ToSet(buffer[q])
              /\ IsInjective(buffer'[q]) /\ ToSet(buffer'[q]) = ToSet(buffer[q]) \ {m}
              /\ \A r \in Queues \ {q} : buffer'[r] = buffer[r]
              /\ \A o \in Peekers : queue[o] = q => message[o] # m
            BY <2>1, <2>5, <3>1, ReceivePlaces
        <3>3. queue'[p] = q
            BY <2>1
        <3> HIDE DEF q, m
        <3>4. /\ Peekers' = Peekers \cup {p} /\ message'[p] = m
              /\ \A o \in Callers \ {p} : message'[o] = message[o]
            BY <1>t, <2>1, <3>1, <3>2, QueueAssumption DEF Peekers
        <3>5. \A o \in Pushers \cup Peekers : o \in Callers
            BY DEF Pushers, Peekers
        <3>6. ASSUME NEW r \in Queues, NEW x, Has(r, x)' \/ x \in ToSet(delivered'[r])
              PROVE  x \in Known'
            <4>1. Has(r, x) \/ x \in ToSet(delivered[r])
                BY <2>1, <2>2, <3>2, <3>3, <3>4, <3>5, <3>6 DEF Has
            <4> QED
                BY <2>3, <4>1 DEF OnceInv
        <3>7. \A o \in Peekers : queue[o] \in Queues
            BY DEF Peekers, QueueInv, CallShape
        <3>8. \A o \in Peekers' : message'[o] \notin ToSet(buffer'[queue'[o]])
            BY <2>1, <2>2, <3>2, <3>3, <3>4, <3>5, <3>7 DEF OnceInv
        <3>9. \A o, u \in Peekers' : queue'[o] = queue'[u] /\ message'[o] = message'[u] => o = u
            BY <2>1, <2>2, <3>2, <3>3, <3>4, <3>5 DEF OnceInv
        <3>10. \A o \in Pushers' : o \in Pushers /\ message'[o] = message[o]
            BY <2>2, <3>4, <3>5
        <3> QED
            BY <2>1, <2>3, <3>2, <3>6, <3>8, <3>9, <3>10 DEF OnceInv
    <2> QED
        BY <2>4, <2>5
<1>12. ASSUME NEW p \in Callers, PeekDrops(p) \/ PeekPanics(p) PROVE OnceInv'
    <2>1. PICK at \in {"idle", "panicked"} : Leave(p, at, {})
        BY <1>12 DEF PeekDrops, PeekPanics, Return, Panic
    <2>2. /\ Pushers' = Pushers \ {p} /\ Peekers' = Peekers \ {p}
          /\ \A o \in Pushers' \cup Peekers' : queue'[o] = queue[o] /\ message'[o] = message[o]
        BY <1>e, <2>1, LeaveHolders
    <2>3. UNCHANGED <<buffer, accepted, delivered>> /\ queue[p] \in Queues
        BY <1>12 DEF PeekDrops, PeekPanics, QueueInv, CallShape
    <2>4. dropped' \subseteq Known
        <3>1. CASE message[p] = Nil
            <4>1. dropped' = dropped
                BY <1>12, <3>1 DEF PeekDrops, PeekPanics, QueueInv, CallShape
            <4> QED
                BY <4>1 DEF OnceInv
        <3>2. CASE message[p] # Nil
            <4>1. Has(queue[p], message[p])
                BY <1>12, <3>2 DEF PeekDrops, PeekPanics, Peekers, Has
            <4>2. message[p] \in Known /\ dropped \subseteq Known
                BY <2>3, <4>1 DEF OnceInv
            <4>3. dropped' \subseteq dropped \cup {message[p]}
                BY <1>12 DEF PeekDrops, PeekPanics
            <4> QED
                BY <4>2, <4>3
        <3> QED
            BY <3>1, <3>2
    <2>5. Known' = Known
        BY <2>3 DEF Known
    <2>6. \A r \in Queues : \A x : Has(r, x)' => Has(r, x)
        BY <2>2, <2>3 DEF Has
    <2> QED
        BY <2>2, <2>3, <2>4, <2>5, <2>6 DEF OnceInv
<1>13. CASE UNCHANGED vars
    BY <1>1, <1>13 DEF vars, local, history, Pushers, Peekers
<1> QED
    BY <1>2, <1>3, <1>4, <1>6, <1>7, <1>8, <1>9, <1>10, <1>11, <1>12, <1>13
       DEF Next, Call, Work

\* The pool's view of a queue, before and after a step.
LEMMA InsideMembers ==
  /\ \A q \in Queues : \A m : m \in Inside[q] <=> Has(q, m)
  /\ \A q \in Queues : \A m : m \in Inside'[q] <=> Has(q, m)'
BY DEF Inside, Has, Peekers

\* A step that leaves every queue and log as they are.
LEMMA PoolStutters ==
  ASSUME QueueInv, UNCHANGED dropped,
         \A q \in Queues : /\ \A m : Has(q, m)' <=> Has(q, m)
                           /\ ToSet(delivered'[q]) = ToSet(delivered[q])
  PROVE  UNCHANGED Pool!vars
<1>1. \A q \in Queues : Inside'[q] = Inside[q]
    BY InsideMembers
<1>2. Inside' = Inside
    BY <1>1 DEF Inside
<1> QED
    BY <1>2 DEF Pool!vars

\* A step that moves a message of q: into the queue, to a Pop, or away.
LEMMA PoolMoves ==
  ASSUME OnceInv, NEW q \in Queues, NEW m \in Messages,
         \A r \in Queues \ {q} : /\ \A x : Has(r, x)' <=> Has(r, x)
                                 /\ ToSet(delivered'[r]) = ToSet(delivered[r]),
         \/ /\ m \notin Known /\ UNCHANGED dropped
            /\ \/ /\ \A x : Has(q, x)' <=> Has(q, x) \/ x = m
                  /\ ToSet(delivered'[q]) = ToSet(delivered[q])
               \/ /\ \A x : Has(q, x)' <=> Has(q, x)
                  /\ ToSet(delivered'[q]) = ToSet(delivered[q]) \cup {m}
         \/ /\ Has(q, m) /\ \A x : Has(q, x)' <=> Has(q, x) /\ x # m
            /\ \/ /\ ToSet(delivered'[q]) = ToSet(delivered[q]) \cup {m}
                  /\ UNCHANGED dropped
               \/ /\ ToSet(delivered'[q]) = ToSet(delivered[q])
                  /\ dropped' = dropped \cup {m}
  PROVE  Pool!Next
<1> DEFINE taken == [r \in Queues |-> ToSet(delivered[r])]
           takenAfter == [r \in Queues |-> ToSet(delivered'[r])]
<1>1. \A r \in Queues \ {q} : Inside'[r] = Inside[r] /\ takenAfter[r] = taken[r]
    BY InsideMembers
<1>2. taken[q] = ToSet(delivered[q]) /\ takenAfter[q] = ToSet(delivered'[q])
    OBVIOUS
<1>3. ASSUME NEW S, Inside'[q] = S PROVE Inside' = [Inside EXCEPT ![q] = S]
    BY <1>1, <1>3 DEF Inside
<1>4. ASSUME NEW S, takenAfter[q] = S PROVE takenAfter = [taken EXCEPT ![q] = S]
    BY <1>1, <1>4
<1>5. ASSUME m \notin Known PROVE Pool!Fresh(m)
    BY <1>5, InsideMembers DEF Pool!Fresh, OnceInv
<1>6. ASSUME m \notin Known, \A x : Has(q, x)' <=> Has(q, x) \/ x = m,
             ToSet(delivered'[q]) = ToSet(delivered[q]), UNCHANGED dropped
      PROVE  Pool!Put(q, m)
    <2>1. Inside'[q] = Inside[q] \cup {m} /\ takenAfter[q] = taken[q]
        BY <1>2, <1>6, InsideMembers
    <2>2. Inside' = [Inside EXCEPT ![q] = @ \cup {m}] /\ takenAfter = taken
        BY <1>1, <1>3, <2>1
    <2> QED
        BY <1>5, <1>6, <2>2 DEF Pool!Put
<1>7. ASSUME m \notin Known, \A x : Has(q, x)' <=> Has(q, x),
             ToSet(delivered'[q]) = ToSet(delivered[q]) \cup {m}, UNCHANGED dropped
      PROVE  Pool!HandOver(q, m)
    <2>1. Inside'[q] = Inside[q] /\ takenAfter[q] = taken[q] \cup {m}
        BY <1>2, <1>7, InsideMembers
    <2>2. Inside' = Inside /\ takenAfter = [taken EXCEPT ![q] = @ \cup {m}]
        BY <1>1, <1>4, <2>1 DEF Inside
    <2> QED
        BY <1>5, <1>7, <2>2 DEF Pool!HandOver
<1>8. ASSUME Has(q, m), \A x : Has(q, x)' <=> Has(q, x) /\ x # m
      PROVE  m \in Inside[q] /\ Inside' = [Inside EXCEPT ![q] = @ \ {m}]
    <2>1. m \in Inside[q] /\ Inside'[q] = Inside[q] \ {m}
        BY <1>8, InsideMembers
    <2> QED
        BY <1>3, <2>1
<1>9. ASSUME Has(q, m), \A x : Has(q, x)' <=> Has(q, x) /\ x # m,
             ToSet(delivered'[q]) = ToSet(delivered[q]) \cup {m}, UNCHANGED dropped
      PROVE  Pool!Take(q, m)
    <2>1. takenAfter = [taken EXCEPT ![q] = @ \cup {m}]
        BY <1>2, <1>4, <1>9
    <2> QED
        BY <1>8, <1>9, <2>1 DEF Pool!Take
<1>10. ASSUME Has(q, m), \A x : Has(q, x)' <=> Has(q, x) /\ x # m,
              ToSet(delivered'[q]) = ToSet(delivered[q]), dropped' = dropped \cup {m}
       PROVE  Pool!Lose(q, m)
    <2>1. takenAfter = taken
        BY <1>1, <1>2, <1>10
    <2> QED
        BY <1>8, <1>10, <2>1 DEF Pool!Lose
<1> QED
    BY <1>6, <1>7, <1>9, <1>10 DEF Pool!Next

LEMMA PoolNext ==
  ASSUME QueueInv, WaitersInv, FifoInv, OnceInv, [Next]_vars
  PROVE  [Pool!Next]_(Pool!vars)
<1>t. /\ pc \in [Callers -> Places] /\ message \in [Callers -> Messages \cup {Nil}]
      /\ queue \in [Callers -> Queues \cup {NoQueue}]
      /\ delivered \in [Queues -> Seq(Messages)]
    BY DEF QueueInv, TypeOK
<1>e. {} \in SUBSET Callers
    OBVIOUS
<1>1. ASSUME UNCHANGED <<buffer, delivered, dropped>>, Peekers' = Peekers,
             \A o \in Peekers : queue'[o] = queue[o] /\ message'[o] = message[o]
      PROVE  UNCHANGED Pool!vars
    BY <1>1, PoolStutters DEF Has
<1>2. ASSUME NEW p \in Callers, Call(p) PROVE UNCHANGED Pool!vars
    <2>1. PICK at \in {"push", "pop", "peek", "cancel"}, q \in Queues \cup {NoQueue},
               m \in Messages \cup {Nil} : Enter(p, at, q, m)
        BY <1>2 DEF Call, CallPush, CallPop, CallPeek, CallClose
    <2>2. UNCHANGED <<buffer, delivered, dropped>>
        BY <1>2 DEF Call, CallPush, CallPop, CallPeek, CallClose, history
    <2>3. /\ Peekers' = Peekers
          /\ \A o \in Peekers : queue'[o] = queue[o] /\ message'[o] = message[o]
        BY <1>t, <2>1 DEF Enter, Peekers
    <2> QED
        BY <1>1, <2>2, <2>3
<1>3. ASSUME NEW p \in Callers, Expire(p) \/ PopBlocks(p) \/ CloseChannel(p)
      PROVE  UNCHANGED Pool!vars
    <2>1. UNCHANGED <<buffer, delivered, dropped, queue, message>>
        BY <1>3 DEF Expire, PopBlocks, CloseChannel, history
    <2>2. Peekers' = Peekers
        BY <1>3, <1>t DEF Expire, PopBlocks, CloseChannel, Peekers
    <2> QED
        BY <1>1, <2>1, <2>2
<1>4. ASSUME NEW p \in Callers \ Peekers, NEW at \in {"idle", "panicked", "count", "close"},
             NEW woken \in SUBSET Callers,
             Leave(p, at, woken), \A o \in woken : pc[o] = "wait",
             UNCHANGED <<buffer, delivered, dropped>>
      PROVE  UNCHANGED Pool!vars
    <2>1. /\ Peekers' = Peekers \ {p}
          /\ \A o \in Peekers' : queue'[o] = queue[o] /\ message'[o] = message[o]
        BY <1>4, LeaveHolders
    <2> QED
        BY <1>1, <1>4, <2>1
<1>5. ASSUME NEW p \in Callers,
             \/ PushFails(p) \/ PushPanics(p) \/ IncrementCounter(p) \/ PopYieldsNothing(p)
             \/ PeekFails(p) \/ ClosePanics(p) \/ CloseReturns(p) \/ WaitExpires(p)
      PROVE  UNCHANGED Pool!vars
    <2>1. UNCHANGED <<buffer, delivered, dropped>> /\ pc[p] # "peeked"
        BY <1>5 DEF PushFails, PushPanics, IncrementCounter, PopYieldsNothing, PeekFails,
                    ClosePanics, CloseReturns, WaitExpires, history
    <2>2. PICK at \in {"idle", "panicked"} : Leave(p, at, {})
        BY <1>5 DEF PushFails, PushPanics, IncrementCounter, PopYieldsNothing, PeekFails,
                    ClosePanics, CloseReturns, WaitExpires, Return, Panic
    <2>3. p \notin Peekers
        BY <2>1 DEF Peekers
    <2> QED
        BY <1>4, <1>e, <2>1, <2>2, <2>3
<1>6. ASSUME NEW p \in Callers, Cancel(p) PROVE UNCHANGED Pool!vars
    <2> DEFINE woken == {o \in Callers : pc[o] = "wait"}
    <2>1. /\ Leave(p, "close", woken) /\ UNCHANGED <<buffer, delivered, dropped>>
          /\ woken \in SUBSET Callers /\ \A o \in woken : pc[o] = "wait"
          /\ p \notin Peekers
        BY <1>6 DEF Cancel, history, Peekers
    <2> HIDE DEF woken
    <2> QED
        BY <1>4, <2>1
<1>7. ASSUME NEW p \in Callers, PushSends(p) PROVE Pool!Next
    <2>0. PICK q \in Queues, m \in Messages : q = queue[p] /\ m = message[p]
        BY <1>7 DEF PushSends, QueueInv, CallShape
    <2>1. /\ p \in Pushers /\ p \notin Peekers /\ m # Nil /\ Send(p, q, "count")
          /\ UNCHANGED dropped
        BY <1>7, <2>0, QueueAssumption DEF PushSends, Pushers, Peekers, QueueInv, CallShape
    <2>2. /\ Peekers' = Peekers \ {p}
          /\ \A o \in Peekers' : queue'[o] = queue[o] /\ message'[o] = message[o]
          /\ \A r \in Queues \ {q} : buffer'[r] = buffer[r] /\ delivered'[r] = delivered[r]
          /\ \/ /\ ToSet(buffer'[q]) = ToSet(buffer[q]) \cup {m}
                /\ ToSet(delivered'[q]) = ToSet(delivered[q])
             \/ /\ ToSet(buffer'[q]) = ToSet(buffer[q])
                /\ ToSet(delivered'[q]) = ToSet(delivered[q]) \cup {m}
        BY <2>0, <2>1, SendPlaces
    <2>3. m \notin Known
        BY <2>0, <2>1 DEF OnceInv
    <2>4. \A r \in Queues \ {q} : \A x : Has(r, x)' <=> Has(r, x)
        BY <2>1, <2>2 DEF Has
    <2>5. CASE /\ ToSet(buffer'[q]) = ToSet(buffer[q]) \cup {m}
               /\ ToSet(delivered'[q]) = ToSet(delivered[q])
        <3>1. \A x : Has(q, x)' <=> Has(q, x) \/ x = m
            BY <2>1, <2>2, <2>5 DEF Has
        <3> QED
            BY <2>1, <2>2, <2>3, <2>4, <2>5, <3>1, PoolMoves
    <2>6. CASE /\ ToSet(buffer'[q]) = ToSet(buffer[q])
               /\ ToSet(delivered'[q]) = ToSet(delivered[q]) \cup {m}
        <3>1. \A x : Has(q, x)' <=> Has(q, x)
            BY <2>1, <2>2, <2>6 DEF Has
        <3> QED
            BY <2>1, <2>2, <2>3, <2>4, <2>6, <3>1, PoolMoves
    <2> QED
        BY <2>2, <2>5, <2>6
<1>8. ASSUME NEW p \in Callers, PeekReturns(p) PROVE [Pool!Next]_(Pool!vars)
    <2>0. PICK q \in Queues, m \in Messages : q = queue[p] /\ m = message[p]
        BY <1>8, <1>t DEF PeekReturns, CanSend, QueueInv, CallShape
    <2>1. /\ p \in Peekers /\ m # Nil /\ Send(p, q, "idle") /\ UNCHANGED dropped
        BY <1>8, <2>0, QueueAssumption DEF PeekReturns, CanSend, Peekers, QueueInv, CallShape
    <2>2. /\ Peekers' = Peekers \ {p}
          /\ \A o \in Peekers' : queue'[o] = queue[o] /\ message'[o] = message[o]
          /\ \A r \in Queues \ {q} : buffer'[r] = buffer[r] /\ delivered'[r] = delivered[r]
          /\ \/ /\ ToSet(buffer'[q]) = ToSet(buffer[q]) \cup {m}
                /\ ToSet(delivered'[q]) = ToSet(delivered[q])
             \/ /\ ToSet(buffer'[q]) = ToSet(buffer[q])
                /\ ToSet(delivered'[q]) = ToSet(delivered[q]) \cup {m}
        BY <2>0, <2>1, SendPlaces
    <2>3. /\ queue[p] = q /\ message[p] = m /\ m \notin ToSet(buffer[q])
          /\ \A o \in Peekers \ {p} : queue[o] = q => message[o] # m
        BY <2>0, <2>1 DEF OnceInv
    <2>4. \A r \in Queues \ {q} : \A x : Has(r, x)' <=> Has(r, x)
        BY <2>1, <2>2, <2>3 DEF Has
    <2>5. CASE /\ ToSet(buffer'[q]) = ToSet(buffer[q]) \cup {m}
               /\ ToSet(delivered'[q]) = ToSet(delivered[q])
        <3>1. \A x : Has(q, x)' <=> Has(q, x)
            BY <2>1, <2>2, <2>3, <2>5 DEF Has
        <3>2. \A r \in Queues : /\ \A x : Has(r, x)' <=> Has(r, x)
                                /\ ToSet(delivered'[r]) = ToSet(delivered[r])
            BY <2>2, <2>4, <2>5, <3>1
        <3> QED
            BY <2>1, <3>2, PoolStutters
    <2>6. CASE /\ ToSet(buffer'[q]) = ToSet(buffer[q])
               /\ ToSet(delivered'[q]) = ToSet(delivered[q]) \cup {m}
        <3>1. Has(q, m) /\ \A x : Has(q, x)' <=> Has(q, x) /\ x # m
            BY <2>1, <2>2, <2>3, <2>6 DEF Has
        <3> QED
            BY <2>1, <2>2, <2>4, <2>6, <3>1, PoolMoves
    <2> QED
        BY <2>2, <2>5, <2>6
<1>9. ASSUME NEW p \in Callers, PopReceives(p) PROVE Pool!Next
    <2>0. PICK q \in Queues : q = queue[p]
        BY <1>9 DEF PopReceives, QueueInv, CallShape
    <2>m. PICK m : m = Head(buffer[q])
        OBVIOUS
    <2>1. /\ buffer[q] # <<>> /\ Leave(p, "idle", {}) /\ p \notin Peekers
          /\ buffer' = [buffer EXCEPT ![q] = Tail(@)]
          /\ delivered' = [delivered EXCEPT ![q] = Append(@, m)]
          /\ UNCHANGED dropped
        BY <1>9, <2>0, <2>m DEF PopReceives, Return, Peekers
    <2>2. /\ Peekers' = Peekers
          /\ \A o \in Peekers' : queue'[o] = queue[o] /\ message'[o] = message[o]
        BY <1>e, <2>1, LeaveHolders
    <2>3. /\ m \in Messages /\ m \in ToSet(buffer[q])
          /\ ToSet(buffer'[q]) = ToSet(buffer[q]) \ {m}
          /\ \A r \in Queues \ {q} : buffer'[r] = buffer[r]
          /\ \A o \in Peekers : queue[o] = q => message[o] # m
        BY <2>1, <2>m, ReceivePlaces
    <2>4. ToSet(delivered'[q]) = ToSet(delivered[q]) \cup {m}
        <3>1. delivered[q] \in Seq(Messages) /\ delivered'[q] = Append(delivered[q], m)
            BY <1>t, <2>1
        <3> QED
            BY <2>3, <3>1, ToSetAppend
    <2>5. \A r \in Queues \ {q} : delivered'[r] = delivered[r] /\ \A x : Has(r, x)' <=> Has(r, x)
        BY <1>t, <2>1, <2>2, <2>3 DEF Has
    <2>6. Has(q, m) /\ \A x : Has(q, x)' <=> Has(q, x) /\ x # m
        BY <2>2, <2>3 DEF Has
    <2> QED
        BY <2>1, <2>3, <2>4, <2>5, <2>6, PoolMoves
<1>10. ASSUME NEW p \in Callers, PeekReceives(p) PROVE UNCHANGED Pool!vars
    <2> DEFINE q == queue[p]
    <2>1. /\ q \in Queues /\ pc[p] = "peek" /\ pc' = [pc EXCEPT ![p] = "peeked"]
          /\ message[p] = Nil /\ p \notin Peekers
          /\ UNCHANGED <<queue, delivered, dropped>>
        BY <1>10 DEF PeekReceives, QueueInv, CallShape, FifoInv, Hands, Peekers
    <2>2. CASE buffer[q] = <<>>
        <3>1. UNCHANGED <<message, buffer>>
            BY <1>10, <2>2 DEF PeekReceives
        <3>2. Peekers' = Peekers
            BY <1>t, <2>1, <3>1 DEF Peekers
        <3> QED
            BY <1>1, <2>1, <3>1, <3>2
    <2>3. CASE buffer[q] # <<>>
        <3> DEFINE m == Head(buffer[q])
        <3>1. /\ message' = [message EXCEPT ![p] = m]
              /\ buffer' = [buffer EXCEPT ![q] = Tail(@)]
            BY <1>10, <2>3 DEF PeekReceives
        <3>2. /\ m \in Messages /\ m \in ToSet(buffer[q])
              /\ ToSet(buffer'[q]) = ToSet(buffer[q]) \ {m}
              /\ \A r \in Queues \ {q} : buffer'[r] = buffer[r]
            BY <2>1, <2>3, <3>1, ReceivePlaces
        <3>3. queue'[p] = q
            BY <2>1
        <3> HIDE DEF q, m
        <3>4. /\ Peekers' = Peekers \cup {p} /\ message'[p] = m
              /\ \A o \in Peekers : message'[o] = message[o]
            BY <1>t, <2>1, <3>1, <3>2, QueueAssumption DEF Peekers
        <3>5. ASSUME NEW r \in Queues, NEW x PROVE Has(r, x)' <=> Has(r, x)
            BY <2>1, <3>2, <3>3, <3>4 DEF Has
        <3> QED
            BY <2>1, <3>5, PoolStutters
    <2> QED
        BY <2>2, <2>3
<1>11. ASSUME NEW p \in Callers, PeekDrops(p) \/ PeekPanics(p) PROVE [Pool!Next]_(Pool!vars)
    <2>0. PICK q \in Queues, m \in Messages \cup {Nil} : q = queue[p] /\ m = message[p]
        BY <1>11, <1>t DEF PeekDrops, PeekPanics, QueueInv, CallShape
    <2>1. PICK at \in {"idle", "panicked"} : Leave(p, at, {})
        BY <1>11 DEF PeekDrops, PeekPanics, Return, Panic
    <2>2. /\ pc[p] = "peeked" /\ UNCHANGED <<buffer, delivered>>
          /\ m # Nil => dropped' = dropped \cup {m}
          /\ m = Nil => dropped' = dropped
        BY <1>11, <2>0 DEF PeekDrops, PeekPanics, QueueInv, CallShape
    <2>3. CASE m = Nil
        <3>1. p \notin Peekers
            BY <2>0, <2>3 DEF Peekers
        <3> QED
            BY <1>4, <1>e, <2>1, <2>2, <2>3, <3>1
    <2>4. CASE m # Nil
        <3>1. p \in Peekers /\ queue[p] = q /\ message[p] = m
            BY <2>0, <2>2, <2>4 DEF Peekers
        <3>2. /\ m \notin ToSet(buffer[q])
              /\ \A o \in Peekers \ {p} : queue[o] = q => message[o] # m
            BY <3>1 DEF OnceInv
        <3>3. /\ Peekers' = Peekers \ {p}
              /\ \A o \in Peekers' : queue'[o] = queue[o] /\ message'[o] = message[o]
            BY <1>e, <2>1, LeaveHolders
        <3>4. \A r \in Queues \ {q} : \A x : Has(r, x)' <=> Has(r, x)
            BY <2>2, <3>1, <3>3 DEF Has
        <3>5. Has(q, m) /\ \A x : Has(q, x)' <=> Has(q, x) /\ x # m
            BY <2>2, <3>1, <3>2, <3>3 DEF Has
        <3>6. m \in Messages
            BY <2>4
        <3> QED
            BY <2>2, <2>4, <3>4, <3>5, <3>6, PoolMoves
    <2> QED
        BY <2>3, <2>4
<1>12. CASE UNCHANGED vars
    BY <1>1, <1>12 DEF vars, local, history, Peekers
<1> QED
    BY <1>2, <1>3, <1>5, <1>6, <1>7, <1>8, <1>9, <1>10, <1>11, <1>12 DEF Next, Work

\* Whatever pushes, pops, peeks, expiries and closes overlap, a message is
\* handed out at most once, by the queue that accepted it, and none is handed
\* out that was not accepted.
THEOREM QueueImplementsPool == Spec => ImplementsPool
<1>1. Init => Pool!Init
    <2>1. ToSet(<<>>) = {}
        BY DEF ToSet
    <2> QED
        BY <2>1 DEF Init, Pool!Init, Inside
<1> QED
    BY QueueInit, QueueNext, WaitersInit, WaitersNext, FifoInit, FifoNext, OnceInit, OnceNext,
       PoolNext, <1>1, PTL
       DEF Spec, ImplementsPool, Pool!Spec
-----------------------------------------------------------------------------
(* Where the messages are.  The pool's moves leave each message one place;   *)
(* and every step either leaves the logs of what was accepted alone or puts  *)
(* the message it accepts in the queue or in the hands of a Pop.             *)

\* A step of the pool that moves a message leaves its old place.
LEMMA PoolApart == Pool!Apart /\ [Pool!Next]_(Pool!vars) => Pool!Apart'
<1> SUFFICES ASSUME Pool!Apart, Pool!Next \/ UNCHANGED Pool!vars PROVE Pool!Apart'
    OBVIOUS
<1>1. PICK in, out, lost, in2, out2, lost2 :
        /\ in = Inside
        /\ out = [q \in Queues |-> ToSet(delivered[q])]
        /\ lost = dropped
        /\ in2 = Inside'
        /\ out2 = [q \in Queues |-> ToSet(delivered'[q])]
        /\ lost2 = dropped'
    OBVIOUS
<1>2. in = [q \in Queues |-> in[q]] /\ out = [q \in Queues |-> out[q]]
    BY <1>1 DEF Inside
<1>3. /\ \A q \in Queues : /\ in[q] \cap out[q] = {}
                           /\ (in[q] \cup out[q]) \cap lost = {}
      /\ \A q, r \in Queues : q # r => (in[q] \cup out[q]) \cap (in[r] \cup out[r]) = {}
    BY <1>1 DEF Pool!Apart
<1>4. SUFFICES /\ \A q \in Queues : /\ in2[q] \cap out2[q] = {}
                                    /\ (in2[q] \cup out2[q]) \cap lost2 = {}
               /\ \A q, r \in Queues :
                    q # r => (in2[q] \cup out2[q]) \cap (in2[r] \cup out2[r]) = {}
    BY <1>1 DEF Pool!Apart
<1>5. CASE UNCHANGED Pool!vars
    <2>1. in2 = in /\ out2 = out /\ lost2 = lost
        BY <1>1, <1>5 DEF Pool!vars
    <2> QED
        BY <1>3, <2>1
<1>6. ASSUME NEW q \in Queues, NEW m \in Messages, Pool!Put(q, m) \/ Pool!HandOver(q, m)
      PROVE  /\ m \notin lost /\ \A r \in Queues : m \notin in[r] \cup out[r]
             /\ lost2 = lost
             /\ \/ in2 = [in EXCEPT ![q] = @ \cup {m}] /\ out2 = out
                \/ out2 = [out EXCEPT ![q] = @ \cup {m}] /\ in2 = in
    <2>1. m \notin lost /\ \A r \in Queues : m \notin in[r] \cup out[r]
        BY <1>1, <1>6 DEF Pool!Put, Pool!HandOver, Pool!Fresh
    <2> QED
        BY <1>1, <1>6, <2>1 DEF Pool!Put, Pool!HandOver
<1>7. ASSUME NEW q \in Queues, NEW m \in Messages, Pool!Take(q, m) \/ Pool!Lose(q, m)
      PROVE  /\ m \in in[q] /\ in2 = [in EXCEPT ![q] = @ \ {m}]
             /\ \/ out2 = [out EXCEPT ![q] = @ \cup {m}] /\ lost2 = lost
                \/ out2 = out /\ lost2 = lost \cup {m}
    BY <1>1, <1>7 DEF Pool!Take, Pool!Lose
<1> HIDE <1>1
<1>8. CASE Pool!Next
    <2>1. PICK q \in Queues, m \in Messages :
            \/ Pool!Put(q, m) \/ Pool!HandOver(q, m)
            \/ Pool!Take(q, m) \/ Pool!Lose(q, m)
        BY <1>8 DEF Pool!Next
    <2>2. CASE Pool!Put(q, m) \/ Pool!HandOver(q, m)
        <3>1. /\ m \notin lost /\ lost2 = lost
              /\ \A r \in Queues : m \notin in[r] \cup out[r]
              /\ \A r \in Queues \ {q} : in2[r] = in[r] /\ out2[r] = out[r]
              /\ in2[q] \cup out2[q] = in[q] \cup out[q] \cup {m}
              /\ in2[q] \cap out2[q] = in[q] \cap out[q]
            BY <1>2, <1>6, <2>2
        <3> QED
            BY <1>3, <3>1
    <2>3. CASE Pool!Take(q, m) \/ Pool!Lose(q, m)
        <3>1. /\ m \in in[q] /\ in2[q] = in[q] \ {m}
              /\ \A r \in Queues \ {q} : in2[r] = in[r] /\ out2[r] = out[r]
              /\ \/ out2[q] = out[q] \cup {m} /\ lost2 = lost
                 \/ out2[q] = out[q] /\ lost2 = lost \cup {m}
            BY <1>2, <1>7, <2>3
        <3> QED
            BY <1>3, <3>1
    <2> QED
        BY <2>1, <2>2, <2>3
<1> QED
    BY <1>5, <1>8

\* A message that Pop has returned is not in a queue, in the hands of a peeker
\* or lost, and no other queue ever has it.
THEOREM MessagesAreInOnePlace == Spec => []Pool!Apart
<1>1. Init => Pool!Apart
    <2>1. ToSet(<<>>) = {}
        BY DEF ToSet
    <2> QED
        BY <2>1 DEF Init, Pool!Apart, Inside
<1> QED
    BY QueueInit, QueueNext, WaitersInit, WaitersNext, FifoInit, FifoNext, OnceInit, OnceNext,
       PoolNext, PoolApart, <1>1, PTL
       DEF Spec

\* Nothing vanishes: a message whose Push reported success is in its queue or
\* held by a peeker there, or Pop returned it, or a Peek that failed or
\* panicked dropped it; neither an expiry nor a Close loses one.
NothingVanishes ==
  \A q \in Queues : ToSet(accepted[q]) \subseteq Inside[q] \cup ToSet(delivered[q]) \cup dropped

LEMMA VanishNext ==
  ASSUME QueueInv, WaitersInv, FifoInv, OnceInv, NothingVanishes, [Next]_vars
  PROVE  NothingVanishes'
<1>t. delivered \in [Queues -> Seq(Messages)] /\ accepted \in [Queues -> Seq(Messages)]
    BY DEF QueueInv, TypeOK
\* Nothing leaves the pool.
<1>1. ASSUME NEW q \in Queues
      PROVE  Inside[q] \cup ToSet(delivered[q]) \cup dropped
               \subseteq Inside'[q] \cup ToSet(delivered'[q]) \cup dropped'
    <2>1. PICK in, out, in2, out2 :
            /\ in = Inside /\ out = [r \in Queues |-> ToSet(delivered[r])]
            /\ in2 = Inside' /\ out2 = [r \in Queues |-> ToSet(delivered'[r])]
        OBVIOUS
    <2>2. /\ in = [r \in Queues |-> in[r]] /\ out = [r \in Queues |-> out[r]]
          /\ out[q] = ToSet(delivered[q]) /\ out2[q] = ToSet(delivered'[q])
        BY <2>1 DEF Inside
    <2>3. \/ in2 = in /\ out2 = out /\ dropped' = dropped
          \/ \E r \in Queues, m \in Messages :
               \/ in2 = [in EXCEPT ![r] = @ \cup {m}] /\ out2 = out /\ dropped' = dropped
               \/ in2 = in /\ out2 = [out EXCEPT ![r] = @ \cup {m}] /\ dropped' = dropped
               \/ /\ in2 = [in EXCEPT ![r] = @ \ {m}] /\ out2 = [out EXCEPT ![r] = @ \cup {m}]
                  /\ dropped' = dropped
               \/ in2 = [in EXCEPT ![r] = @ \ {m}] /\ out2 = out /\ dropped' = dropped \cup {m}
        BY <2>1, PoolNext
           DEF Pool!Next, Pool!vars, Pool!Put, Pool!Take, Pool!HandOver, Pool!Lose
    <2>4. in[q] \cup out[q] \cup dropped \subseteq in2[q] \cup out2[q] \cup dropped'
        BY <2>2, <2>3
    <2> QED
        BY <2>1, <2>2, <2>4
<1>2. CASE UNCHANGED accepted
    BY <1>1, <1>2 DEF NothingVanishes
<1>3. ASSUME NEW p \in Callers, PushSends(p) PROVE NothingVanishes'
    <2>0. PICK q \in Queues, m \in Messages : q = queue[p] /\ m = message[p]
        BY <1>3 DEF PushSends, QueueInv, CallShape
    <2>1. /\ p \in Pushers /\ m # Nil /\ Send(p, q, "count")
          /\ accepted' = [accepted EXCEPT ![q] = Append(@, m)]
        BY <1>3, <2>0, QueueAssumption DEF PushSends, Pushers
    <2>2. m \in ToSet(buffer'[q]) \/ m \in ToSet(delivered'[q])
        BY <2>0, <2>1, SendPlaces
    <2>3. m \in Inside'[q] \cup ToSet(delivered'[q])
        BY <2>2 DEF Inside
    <2>4. ToSet(accepted'[q]) = ToSet(accepted[q]) \cup {m}
        <3>1. accepted[q] \in Seq(Messages) /\ accepted'[q] = Append(accepted[q], m)
            BY <1>t, <2>1
        <3> QED
            BY <3>1, ToSetAppend
    <2>5. \A r \in Queues \ {q} : accepted'[r] = accepted[r]
        BY <1>t, <2>1
    <2> QED
        BY <1>1, <2>3, <2>4, <2>5 DEF NothingVanishes
<1>4. (\E p \in Callers : PushSends(p)) \/ UNCHANGED accepted
    BY DEF Next, Call, Work, CallPush, CallPop, CallPeek, CallClose, Expire, PushFails, PushPanics,
           IncrementCounter, PopReceives, PopYieldsNothing, PopBlocks, WaitExpires, PeekReceives,
           PeekFails, PeekReturns, PeekDrops, PeekPanics, Cancel, CloseChannel, ClosePanics,
           CloseReturns, vars, history
<1> QED
    BY <1>2, <1>3, <1>4

\* Whatever overlaps, an accepted message stays in the manager until it is
\* returned by Pop or dropped by a Peek that says so.
THEOREM AcceptedIsAccountedFor == Spec => []NothingVanishes
<1>1. Init => NothingVanishes
    <2>1. ToSet(<<>>) = {}
        BY DEF ToSet
    <2> QED
        BY <2>1 DEF Init, NothingVanishes
<1> QED
    BY QueueInit, QueueNext, WaitersInit, WaitersNext, FifoInit, FifoNext, OnceInit, OnceNext,
       VanishNext, <1>1, PTL
       DEF Spec

\* No message is in the log of what a queue handed out twice.  (MessagePool,
\* which keeps sets, cannot tell.)
DeliveredOnce == \A q \in Queues : IsInjective(delivered[q])

LEMMA DeliveredGrows ==
  ASSUME QueueInv, DeliveredOnce, NEW q \in Queues, NEW m \in Messages,
         m \notin ToSet(delivered[q]), delivered' = [delivered EXCEPT ![q] = Append(@, m)]
  PROVE  DeliveredOnce'
<1>1. delivered \in [Queues -> Seq(Messages)] /\ delivered[q] \in Seq(Messages)
    BY DEF QueueInv, TypeOK
<1>2. IsInjective(Append(delivered[q], m))
    BY <1>1, SendOnce DEF DeliveredOnce
<1> QED
    BY <1>1, <1>2 DEF DeliveredOnce

LEMMA DeliveredNext ==
  ASSUME QueueInv, OnceInv, Pool!Apart, DeliveredOnce, [Next]_vars
  PROVE  DeliveredOnce'
<1>1. CASE UNCHANGED delivered
    BY <1>1 DEF DeliveredOnce
<1>2. ASSUME NEW q \in Queues, NEW m, m \in Inside[q] PROVE m \notin ToSet(delivered[q])
    BY <1>2 DEF Pool!Apart
<1>3. ASSUME NEW p \in Callers, NEW q \in Queues, q = queue[p], NEW m \in Messages,
             m = message[p], NEW at, Send(p, q, at), m \notin ToSet(delivered[q])
      PROVE  DeliveredOnce'
    BY <1>1, <1>3, DeliveredGrows DEF Send
<1>4. ASSUME NEW p \in Callers, PushSends(p) PROVE DeliveredOnce'
    <2>0. PICK q \in Queues, m \in Messages : q = queue[p] /\ m = message[p]
        BY <1>4 DEF PushSends, QueueInv, CallShape
    <2>1. p \in Pushers /\ Send(p, q, "count")
        BY <1>4, <2>0 DEF PushSends, Pushers
    <2>2. m \notin ToSet(delivered[q])
        BY <2>0, <2>1 DEF OnceInv
    <2> QED
        BY <1>3, <2>0, <2>1, <2>2
<1>5. ASSUME NEW p \in Callers, PeekReturns(p) PROVE DeliveredOnce'
    <2>0. PICK q \in Queues, m \in Messages : q = queue[p] /\ m = message[p]
        BY <1>5 DEF PeekReturns, CanSend, QueueInv, TypeOK, CallShape
    <2>1. p \in Peekers /\ Send(p, q, "idle")
        BY <1>5, <2>0, QueueAssumption DEF PeekReturns, Peekers
    <2>2. m \in Inside[q]
        BY <2>0, <2>1 DEF Inside, Peekers
    <2> QED
        BY <1>2, <1>3, <2>0, <2>1, <2>2
<1>6. ASSUME NEW p \in Callers, PopReceives(p) PROVE DeliveredOnce'
    <2>0. PICK q \in Queues : q = queue[p]
        BY <1>6 DEF PopReceives, QueueInv, CallShape
    <2>m. PICK m : m = Head(buffer[q])
        OBVIOUS
    <2>1. /\ buffer[q] # <<>> /\ buffer' = [buffer EXCEPT ![q] = Tail(@)]
          /\ delivered' = [delivered EXCEPT ![q] = Append(@, m)]
        BY <1>6, <2>0, <2>m DEF PopReceives
    <2>2. m \in Messages /\ m \in ToSet(buffer[q])
        BY <2>1, <2>m, ReceivePlaces
    <2>3. m \in Inside[q]
        BY <2>2 DEF Inside
    <2> QED
        BY <1>2, <2>1, <2>2, <2>3, DeliveredGrows
<1>7. \/ \E p \in Callers : PushSends(p) \/ PeekReturns(p) \/ PopReceives(p)
      \/ UNCHANGED delivered
    BY DEF Next, Call, Work, CallPush, CallPop, CallPeek, CallClose, Expire, PushFails, PushPanics,
           IncrementCounter, PopYieldsNothing, PopBlocks, WaitExpires, PeekReceives, PeekFails,
           PeekDrops, PeekPanics, Cancel, CloseChannel, ClosePanics, CloseReturns, vars, history
<1> QED
    BY <1>1, <1>4, <1>5, <1>6, <1>7

\* No two calls of Pop ever return the same message, whatever Peek put back.
THEOREM PopNeverRepeats == Spec => []DeliveredOnce
<1>1. Init => Pool!Apart /\ DeliveredOnce
    <2>1. ToSet(<<>>) = {} /\ IsInjective(<<>>)
        BY DEF ToSet, IsInjective
    <2> QED
        BY <2>1 DEF Init, Pool!Apart, Inside, DeliveredOnce
<1> QED
    BY QueueInit, QueueNext, WaitersInit, WaitersNext, FifoInit, FifoNext, OnceInit, OnceNext,
       PoolNext, PoolApart, DeliveredNext, <1>1, PTL
       DEF Spec
=============================================================================

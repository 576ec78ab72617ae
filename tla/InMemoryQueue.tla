---------------------------- MODULE InMemoryQueue ----------------------------
(***************************************************************************)
(* InMemoryQueueManager of pkg/queue: buffered Go channels (one per        *)
(* pipeline; the four sets of Push, Pop and Peek methods are identical),   *)
(* a shutdown context, a message counter.  Any number of goroutines call   *)
(* it.  A method is one select over the channels that are ready, except    *)
(* that                                                                    *)
(*   - Push increments the counter after its send,                         *)
(*   - Peek receives a message and then sends it back,                     *)
(*   - Close cancels the context and then closes the channels one by one,  *)
(*   - Pop blocks when nothing is ready.                                   *)
(* The channel operations are those of the Go runtime: a select with       *)
(* several ready cases takes any of them, a send to a channel somebody is  *)
(* receiving from goes to the one that waited longest, receiving from a    *)
(* closed channel drains it and then yields nil, sending to or closing a   *)
(* closed channel panics.                                                  *)
(***************************************************************************)
EXTENDS Naturals, SequencesExt

CONSTANTS
  Callers,     \* goroutines that use the queue manager
  Messages,    \* messages, each accepted at most once
  CloseOrder,  \* the queues, in the order Close closes them
  Capacity,    \* the buffer size of each queue
  Nil,         \* the nil message, and a message variable that holds nothing
  NoQueue      \* the queue of a goroutine that is in no call

Queues == {CloseOrder[i] : i \in 1..Len(CloseOrder)}

ASSUME QueueAssumption ==
  /\ CloseOrder \in Seq(Queues)
  /\ Capacity \in [Queues -> Nat]
  /\ Nil \notin Messages
  /\ NoQueue \notin Queues

VARIABLES
  buffer,     \* what each channel holds, oldest first
  receivers,  \* the goroutines blocked in a receive on each channel, in order
  closed,     \* the channels that have been closed
  cancelled,  \* m.ctx is done
  counter,    \* m.msgCounter
  pc,         \* where each goroutine is
  queue,      \* the queue of its call
  message,    \* the message it holds: to push, or peeked
  step,       \* how many channels its Close has closed
  expired,    \* the goroutines whose caller's context is done
  accepted,   \* history: the messages each queue accepted, in order
  delivered,  \* history: the messages Pop returned from each queue, in order
  dropped,    \* history: the messages Peek took out and did not put back
  peeked      \* history: the queues Peek took a message from

local == <<pc, queue, message, step, expired>>
history == <<accepted, delivered, dropped, peeked>>
vars == <<buffer, receivers, closed, cancelled, counter, local, history>>

Places == {"idle", "push", "count", "pop", "wait", "peek", "peeked", "cancel",
           "close", "panicked"}

\* The shape of the state; a buffer never outgrows its channel, whatever Peek
\* puts back.
TypeOK ==
  /\ buffer \in [Queues -> Seq(Messages)]
  /\ \A q \in Queues : Len(buffer[q]) <= Capacity[q]
  /\ receivers \in [Queues -> Seq(Callers)]
  /\ closed \in SUBSET Queues
  /\ cancelled \in BOOLEAN
  /\ counter \in Nat
  /\ pc \in [Callers -> Places]
  /\ queue \in [Callers -> Queues \cup {NoQueue}]
  /\ message \in [Callers -> Messages \cup {Nil}]
  /\ step \in [Callers -> 0..Len(CloseOrder)]
  /\ expired \in SUBSET Callers
  /\ accepted \in [Queues -> Seq(Messages)]
  /\ delivered \in [Queues -> Seq(Messages)]
  /\ dropped \in SUBSET Messages
  /\ peeked \in SUBSET Queues
-----------------------------------------------------------------------------
Init ==
  /\ buffer = [q \in Queues |-> <<>>]
  /\ receivers = [q \in Queues |-> <<>>]
  /\ closed = {}
  /\ cancelled = FALSE
  /\ counter = 0
  /\ pc = [p \in Callers |-> "idle"]
  /\ queue = [p \in Callers |-> NoQueue]
  /\ message = [p \in Callers |-> Nil]
  /\ step = [p \in Callers |-> 0]
  /\ expired = {}
  /\ accepted = [q \in Queues |-> <<>>]
  /\ delivered = [q \in Queues |-> <<>>]
  /\ dropped = {}
  /\ peeked = {}

Enter(p, at, q, m) == /\ pc[p] = "idle"
                      /\ pc' = [pc EXCEPT ![p] = at]
                      /\ queue' = [queue EXCEPT ![p] = q]
                      /\ message' = [message EXCEPT ![p] = m]
                      /\ UNCHANGED <<step, expired>>

\* p goes on to `at`, or ends its call there; the calls of `woken` return.
Leave(p, at, woken) ==
  LET gone == woken \cup {p}
  IN /\ pc' = [o \in Callers |-> IF o = p THEN at ELSE IF o \in woken THEN "idle" ELSE pc[o]]
     /\ queue' = [o \in Callers |-> IF o \in gone THEN NoQueue ELSE queue[o]]
     /\ message' = [o \in Callers |-> IF o \in gone THEN Nil ELSE message[o]]
     /\ step' = [o \in Callers |-> IF o \in gone THEN 0 ELSE step[o]]
     /\ expired' = expired \ gone

Return(p) == Leave(p, "idle", {})
Panic(p) == Leave(p, "panicked", {})

\* A variant: a send that ignores the buffer's capacity.
CanSendAlways(q) == q \notin closed

\* A send on channel q would find a receiver or room in the buffer.
CanSend(q) == q \notin closed /\ (receivers[q] # <<>> \/ Len(buffer[q]) < Capacity[q])

\* The send of p on channel q: to the goroutine that waited longest in Pop,
\* if any, else to the buffer.  p goes on to `at`.
Send(p, q, at) ==
  \/ /\ receivers[q] # <<>>
     /\ receivers' = [receivers EXCEPT ![q] = Tail(@)]
     /\ delivered' = [delivered EXCEPT ![q] = Append(@, message[p])]
     /\ UNCHANGED buffer
     /\ Leave(p, at, {Head(receivers[q])})
  \/ /\ receivers[q] = <<>>
     /\ buffer' = [buffer EXCEPT ![q] = Append(@, message[p])]
     /\ UNCHANGED <<receivers, delivered>>
     /\ Leave(p, at, {})

\* The context passed to the method p is in is cancelled or times out.
Expire(p) ==
  /\ pc[p] \in {"push", "pop", "wait", "peek"}
  /\ p \notin expired
  /\ expired' = expired \cup {p}
  /\ UNCHANGED <<buffer, receivers, closed, cancelled, counter, pc, queue, message, step, history>>
-----------------------------------------------------------------------------
(* Push *)

CallPush(p) ==
  /\ \E q \in Queues, m \in Messages :
       /\ \A r \in Queues : m \notin ToSet(accepted[r])
       /\ \A o \in Callers : message[o] # m
       /\ Enter(p, "push", q, m)
  /\ UNCHANGED <<buffer, receivers, closed, cancelled, counter, history>>

PushSends(p) ==
  LET q == queue[p]
  IN /\ pc[p] = "push"
     /\ CanSend(q)
     /\ Send(p, q, "count")
     /\ accepted' = [accepted EXCEPT ![q] = Append(@, message[p])]
     /\ UNCHANGED <<closed, cancelled, counter, dropped, peeked>>

\* One of the contexts is done, or the default case: no case is ready.
PushFails(p) ==
  /\ pc[p] = "push"
  /\ \/ p \in expired
     \/ cancelled
     \/ queue[p] \notin closed /\ ~CanSend(queue[p])
  /\ Return(p)
  /\ UNCHANGED <<buffer, receivers, closed, cancelled, counter, history>>

PushPanics(p) ==
  /\ pc[p] = "push"
  /\ queue[p] \in closed
  /\ Panic(p)
  /\ UNCHANGED <<buffer, receivers, closed, cancelled, counter, history>>

IncrementCounter(p) ==
  /\ pc[p] = "count"
  /\ counter' = counter + 1
  /\ Return(p)
  /\ UNCHANGED <<buffer, receivers, closed, cancelled, history>>
-----------------------------------------------------------------------------
(* Pop *)

CallPop(p) ==
  /\ \E q \in Queues : Enter(p, "pop", q, Nil)
  /\ UNCHANGED <<buffer, receivers, closed, cancelled, counter, history>>

PopReceives(p) ==
  LET q == queue[p]
  IN /\ pc[p] = "pop"
     /\ buffer[q] # <<>>
     /\ buffer' = [buffer EXCEPT ![q] = Tail(@)]
     /\ delivered' = [delivered EXCEPT ![q] = Append(@, Head(buffer[q]))]
     /\ Return(p)
     /\ UNCHANGED <<receivers, closed, cancelled, counter, accepted, dropped, peeked>>

\* A context is done: an error.  The channel is closed and drained: a nil
\* message and no error.
PopYieldsNothing(p) ==
  /\ pc[p] = "pop"
  /\ \/ p \in expired
     \/ cancelled
     \/ queue[p] \in closed /\ buffer[queue[p]] = <<>>
  /\ Return(p)
  /\ UNCHANGED <<buffer, receivers, closed, cancelled, counter, history>>

\* A variant: blocking although the buffer holds a message.
MustBlockIgnoringBuffer(q) == q \notin closed /\ ~cancelled

\* A variant: a Pop that does not watch m.ctx.
MustBlockIgnoringShutdown(q) == buffer[q] = <<>> /\ q \notin closed

\* No case of the select is ready.
MustBlock(q) == buffer[q] = <<>> /\ q \notin closed /\ ~cancelled

PopBlocks(p) ==
  /\ pc[p] = "pop"
  /\ p \notin expired
  /\ MustBlock(queue[p])
  /\ pc' = [pc EXCEPT ![p] = "wait"]
  /\ receivers' = [receivers EXCEPT ![queue[p]] = Append(@, p)]
  /\ UNCHANGED <<buffer, closed, cancelled, counter, queue, message, step, expired, history>>

\* The context of a blocked caller is done.
WaitExpires(p) ==
  /\ pc[p] = "wait"
  /\ p \in expired
  /\ \E i \in 1..Len(receivers[queue[p]]) :
       /\ receivers[queue[p]][i] = p
       /\ receivers' = [receivers EXCEPT ![queue[p]] = RemoveAt(@, i)]
  /\ Return(p)
  /\ UNCHANGED <<buffer, closed, cancelled, counter, history>>
-----------------------------------------------------------------------------
(* Peek *)

CallPeek(p) ==
  /\ \E q \in Queues : Enter(p, "peek", q, Nil)
  /\ UNCHANGED <<buffer, receivers, closed, cancelled, counter, history>>

\* A variant: a peek that reads the message without receiving it, and
\* sends it back all the same.
PeekCopies(p) ==
  LET q == queue[p]
  IN /\ pc[p] = "peek"
     /\ buffer[q] # <<>>
     /\ message' = [message EXCEPT ![p] = Head(buffer[q])]
     /\ peeked' = peeked \cup {q}
     /\ pc' = [pc EXCEPT ![p] = "peeked"]
     /\ UNCHANGED <<buffer, receivers, closed, cancelled, counter, queue, step, expired,
                    accepted, delivered, dropped>>

\* Receives a message, or nil from a channel that is closed and drained.
PeekReceives(p) ==
  LET q == queue[p]
  IN /\ pc[p] = "peek"
     /\ \/ /\ buffer[q] # <<>>
           /\ message' = [message EXCEPT ![p] = Head(buffer[q])]
           /\ buffer' = [buffer EXCEPT ![q] = Tail(@)]
           /\ peeked' = peeked \cup {q}
        \/ /\ buffer[q] = <<>> /\ q \in closed
           /\ UNCHANGED <<message, buffer, peeked>>
     /\ pc' = [pc EXCEPT ![p] = "peeked"]
     /\ UNCHANGED <<receivers, closed, cancelled, counter, queue, step, expired,
                    accepted, delivered, dropped>>

\* The caller's context is done, or the default case: nothing to receive.
PeekFails(p) ==
  /\ pc[p] = "peek"
  /\ \/ p \in expired
     \/ buffer[queue[p]] = <<>> /\ queue[p] \notin closed
  /\ Return(p)
  /\ UNCHANGED <<buffer, receivers, closed, cancelled, counter, history>>

\* A variant: a peek that puts its message back with Push.
PeekReturnsCounting(p) ==
  /\ pc[p] = "peeked"
  /\ CanSend(queue[p])
  /\ Send(p, queue[p], "count")
  /\ UNCHANGED <<closed, cancelled, counter, accepted, dropped, peeked>>

\* Sends the message back: to the tail of the buffer, or to a waiting Pop.
PeekReturns(p) ==
  /\ pc[p] = "peeked"
  /\ CanSend(queue[p])
  /\ Send(p, queue[p], "idle")
  /\ UNCHANGED <<closed, cancelled, counter, accepted, dropped, peeked>>

\* The buffer has been refilled: "failed to re-enqueue peeked message".
PeekDrops(p) ==
  /\ pc[p] = "peeked"
  /\ queue[p] \notin closed
  /\ ~CanSend(queue[p])
  /\ dropped' = dropped \cup {message[p]}
  /\ Return(p)
  /\ UNCHANGED <<buffer, receivers, closed, cancelled, counter, accepted, delivered, peeked>>

\* Close came between the two halves of Peek, or before both.
PeekPanics(p) ==
  /\ pc[p] = "peeked"
  /\ queue[p] \in closed
  /\ dropped' = dropped \cup ({message[p]} \ {Nil})
  /\ Panic(p)
  /\ UNCHANGED <<buffer, receivers, closed, cancelled, counter, accepted, delivered, peeked>>
-----------------------------------------------------------------------------
(* Close *)

\* A variant: Close without m.cancel().
CallCloseWithoutCancel(p) ==
  /\ Enter(p, "close", NoQueue, Nil)
  /\ UNCHANGED <<buffer, receivers, closed, cancelled, counter, history>>

CallClose(p) ==
  /\ Enter(p, "cancel", NoQueue, Nil)
  /\ UNCHANGED <<buffer, receivers, closed, cancelled, counter, history>>

\* m.cancel(): every blocked Pop returns.
Cancel(p) ==
  /\ pc[p] = "cancel"
  /\ cancelled' = TRUE
  /\ receivers' = [q \in Queues |-> <<>>]
  /\ Leave(p, "close", {o \in Callers : pc[o] = "wait"})
  /\ UNCHANGED <<buffer, closed, counter, history>>

CloseChannel(p) ==
  LET q == CloseOrder[step[p] + 1]
  IN /\ pc[p] = "close"
     /\ step[p] < Len(CloseOrder)
     /\ q \notin closed
     /\ closed' = closed \cup {q}
     /\ step' = [step EXCEPT ![p] = @ + 1]
     /\ UNCHANGED <<buffer, receivers, cancelled, counter, pc, queue, message, expired, history>>

\* A second Close closes a closed channel.
ClosePanics(p) ==
  /\ pc[p] = "close"
  /\ step[p] < Len(CloseOrder)
  /\ CloseOrder[step[p] + 1] \in closed
  /\ Panic(p)
  /\ UNCHANGED <<buffer, receivers, closed, cancelled, counter, history>>

CloseReturns(p) ==
  /\ pc[p] = "close"
  /\ step[p] = Len(CloseOrder)
  /\ Return(p)
  /\ UNCHANGED <<buffer, receivers, closed, cancelled, counter, history>>
-----------------------------------------------------------------------------
Call(p) == CallPush(p) \/ CallPop(p) \/ CallPeek(p) \/ CallClose(p)

Work(p) == \/ PushSends(p) \/ PushFails(p) \/ PushPanics(p) \/ IncrementCounter(p)
           \/ PopReceives(p) \/ PopYieldsNothing(p) \/ PopBlocks(p) \/ WaitExpires(p)
           \/ PeekReceives(p) \/ PeekFails(p) \/ PeekReturns(p) \/ PeekDrops(p)
           \/ PeekPanics(p)
           \/ Cancel(p) \/ CloseChannel(p) \/ ClosePanics(p) \/ CloseReturns(p)

Next == \E p \in Callers : Call(p) \/ Expire(p) \/ Work(p)

Spec == Init /\ [][Next]_vars
-----------------------------------------------------------------------------
(* Properties *)

\* No goroutine sleeps beside a message or through a shutdown: whoever blocks
\* in Pop does so on an empty open queue of a running manager, and is known to
\* the next send.
NobodySleepsInVain ==
  \A p \in Callers : pc[p] = "wait" =>
    /\ buffer[queue[p]] = <<>>
    /\ queue[p] \notin closed
    /\ ~cancelled
    /\ p \in ToSet(receivers[queue[p]])

\* First in, first out, for every mix of producers and consumers, through a
\* close as well: until somebody peeks into a queue, what it accepted is what
\* it delivered followed by what it holds.
FifoUnlessPeeked ==
  \A q \in Queues \ peeked : accepted[q] = delivered[q] \o buffer[q]

\* The places of the accepted messages in the logs of their queues.
Sent == UNION {{q} \X DOMAIN accepted[q] : q \in Queues}

\* TotalMessagesCount of Stats counts each accepted message once, late by the
\* pushes that are between their send and incrementCounter; a peek, a failed
\* push or a shutdown does not disturb it.
CounterLags ==
  counter + Cardinality({p \in Callers : pc[p] = "count"}) = Cardinality(Sent)

\* A call panics only once a Close has begun: by then the context is done.
PanicsOnlyAfterClose ==
  \A p \in Callers : pc[p] = "panicked" => cancelled /\ closed # {}

\* queue.go:225, "returns the next validation message without consuming it":
\* no peek makes a message of a running manager disappear.
PeekDoesNotConsume == ~cancelled => dropped = {}

\* The messages a queue has in its keeping, a peeker's hands included.
Inside == [q \in Queues |->
             ToSet(buffer[q]) \cup
             {message[p] : p \in {o \in Callers : pc[o] = "peeked" /\ queue[o] = q
                                                  /\ message[o] # Nil}}]

Pool == INSTANCE MessagePool WITH
  inside <- Inside,
  taken <- [q \in Queues |-> ToSet(delivered[q])],
  lost <- dropped

\* At most once delivery, from the queue the message was put in, whatever
\* pushes, pops, peeks and closes overlap.
ImplementsPool == Pool!Spec
=============================================================================

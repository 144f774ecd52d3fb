------------------------------ MODULE MsgQueue ------------------------------
(***************************************************************************)
(* The message queue of backend/libusb/msg_queue.c on the POSIX event of   *)
(* backend/posix.c: a list under a mutex and a non-blocking pipe whose     *)
(* readability wakes the consumer.  Every thread of the driver receives    *)
(* its work through such queues; each queue has any number of producers    *)
(* and one consumer.                                                       *)
(*                                                                         *)
(* The mutex makes the list operations atomic.  The event is signalled     *)
(* AFTER the mutex is released, so a push is two steps and the consumer    *)
(* runs between them.                                                      *)
(***************************************************************************)
EXTENDS Naturals, Sequences, TLAPS

CONSTANTS Producers,
          PipeCapacity,  \* bytes the pipe holds before write() gives EAGAIN
          MaxPush        \* messages per producer (bound of the model)

ASSUME QueueAssumption ==
    /\ PipeCapacity \in Nat \ {0}
    /\ MaxPush \in Nat

VARIABLES items,   \* queue->items
          pipe,    \* bytes in the event's pipe
          pushing, \* pushing[p]: p has added its message, and not signalled yet
          pushed,  \* pushed[p]: messages p has added
          consumer,\* "poll" (blocked in poll()) or "drain" (popping)
          popped   \* every message popped, oldest first

vars == <<items, pipe, pushing, pushed, consumer, popped>>

Init ==
    /\ items = <<>>
    /\ pipe = 0
    /\ pushing = [p \in Producers |-> FALSE]
    /\ pushed = [p \in Producers |-> 0]
    /\ consumer = "poll"
    /\ popped = <<>>

\* Faulty: LIFO insertion.
PushAtHead(p) ==
    /\ ~pushing[p]
    /\ pushed[p] < MaxPush
    /\ pushed' = [pushed EXCEPT ![p] = @ + 1]
    /\ items' = <<<<p, pushed[p] + 1>>>> \o items
    /\ pushing' = [pushing EXCEPT ![p] = TRUE]
    /\ UNCHANGED <<pipe, consumer, popped>>

\* msg_queue_push up to pthread_mutex_unlock
Push(p) ==
    /\ ~pushing[p]
    /\ pushed[p] < MaxPush
    /\ pushed' = [pushed EXCEPT ![p] = @ + 1]
    /\ items' = Append(items, <<p, pushed[p] + 1>>)
    /\ pushing' = [pushing EXCEPT ![p] = TRUE]
    /\ UNCHANGED <<pipe, consumer, popped>>

\* jsdrv_os_event_signal at the end of msg_queue_push: one byte, dropped
\* when the pipe is full
EventSignal(p) ==
    /\ pushing[p]
    /\ pipe' = IF pipe < PipeCapacity THEN pipe + 1 ELSE pipe
    /\ pushing' = [pushing EXCEPT ![p] = FALSE]
    /\ UNCHANGED <<items, pushed, consumer, popped>>

\* Faulty: the event is reset after every message.
PopAlwaysReset ==
    /\ consumer = "drain"
    /\ items # <<>>
    /\ popped' = Append(popped, Head(items))
    /\ items' = Tail(items)
    /\ pipe' = 0
    /\ UNCHANGED <<pushing, pushed, consumer>>

\* msg_queue_pop_immediate, a message found: the event is reset only when
\* that was the last one
PopMessage ==
    /\ consumer = "drain"
    /\ items # <<>>
    /\ popped' = Append(popped, Head(items))
    /\ items' = Tail(items)
    /\ pipe' = IF Tail(items) = <<>> THEN 0 ELSE pipe
    /\ UNCHANGED <<pushing, pushed, consumer>>

\* msg_queue_pop_immediate, nothing found: reset, and the consumer's loop
\* goes back to poll()
PopEmpty ==
    /\ consumer = "drain"
    /\ items = <<>>
    /\ pipe' = 0
    /\ consumer' = "poll"
    /\ UNCHANGED <<items, pushing, pushed, popped>>

\* poll() returns because the pipe is readable
Wake ==
    /\ consumer = "poll"
    /\ pipe > 0
    /\ consumer' = "drain"
    /\ UNCHANGED <<items, pipe, pushing, pushed, popped>>

\* poll() returns on its timeout.  Not fair: a caller may pass a long one.
PollTimeout ==
    /\ consumer = "poll"
    /\ pipe = 0
    /\ consumer' = "drain"
    /\ UNCHANGED <<items, pipe, pushing, pushed, popped>>

Next ==
    \/ \E p \in Producers : Push(p) \/ EventSignal(p)
    \/ PopMessage \/ PopEmpty \/ Wake \/ PollTimeout

Spec == Init /\ [][Next]_vars

\* A thread that is not blocked keeps running; poll() returns when the pipe
\* stays readable.  Nothing forces a timeout.
FairSpec ==
    /\ Spec
    /\ \A p \in Producers : WF_vars(EventSignal(p))
    /\ WF_vars(PopMessage)
    /\ WF_vars(PopEmpty)
    /\ WF_vars(Wake)

------------------------------------------------------------------------------
Messages == Producers \X (1..MaxPush)

TypeOK ==
    /\ items \in Seq(Messages)
    /\ pipe \in 0..PipeCapacity
    /\ pushing \in [Producers -> BOOLEAN]
    /\ pushed \in [Producers -> 0..MaxPush]
    /\ consumer \in {"poll", "drain"}
    /\ popped \in Seq(Messages)

\* No lost wakeup: whenever a message is queued, the pipe is readable or
\* the thread that queued one is still about to write to it.  This is what
\* "already poll-readable, the wakeup is not lost" of jsdrv_os_event_signal
\* needs, although the signal is outside the mutex and the reset inside.
NoLostWakeup ==
    items # <<>> => pipe > 0 \/ \E p \in Producers : pushing[p]

\* The queue is a FIFO channel: the pushes of all the producers come out in
\* the order in which the mutex admitted them.
Fifo == INSTANCE FifoChannel
            WITH Senders <- Producers, MaxSend <- MaxPush,
                 inFlight <- items, count <- pushed, handed <- popped

FifoSpec == Fifo!ChannelSpec

Undelivered(p, n) == pushed[p] >= n /\ \A i \in 1..Len(popped) : popped[i] # <<p, n>>

\* Every pushed message is popped, without help from the poll timeout.
AllDelivered == \A p \in Producers, n \in 1..MaxPush : []<>~Undelivered(p, n)

------------------------------------------------------------------------------
(* For any number of producers and any pipe capacity: the queue keeps its     *)
(* types, never loses a wakeup and implements FifoChannel.                    *)

\* The pushed counts, the pipe and the sequences stay in their types: a
\* full pipe drops the byte (jsdrv_os_event_signal) and never overflows.
THEOREM TypeCorrect == Spec => []TypeOK
<1>1. Init => TypeOK
  BY QueueAssumption DEF Init, TypeOK
<1>2. TypeOK /\ [Next]_vars => TypeOK'
  <2> SUFFICES ASSUME TypeOK, [Next]_vars PROVE TypeOK'
    OBVIOUS
  <2> USE QueueAssumption DEF TypeOK
  <2>1. ASSUME NEW p \in Producers, Push(p) PROVE TypeOK'
    <3>1. <<p, pushed[p] + 1>> \in Messages
      BY <2>1 DEF Push, Messages
    <3>2. items' \in Seq(Messages)
      BY <2>1, <3>1 DEF Push
    <3>3. pushed' \in [Producers -> 0..MaxPush]
      BY <2>1 DEF Push
    <3> QED BY <2>1, <3>2, <3>3 DEF Push
  <2>2. ASSUME NEW p \in Producers, EventSignal(p) PROVE TypeOK'
    BY <2>2 DEF EventSignal
  <2>3. CASE PopMessage
    <3>1. Head(items) \in Messages /\ Tail(items) \in Seq(Messages)
      BY <2>3 DEF PopMessage
    <3> QED BY <2>3, <3>1 DEF PopMessage
  <2>4. CASE PopEmpty
    BY <2>4 DEF PopEmpty
  <2>5. CASE Wake
    BY <2>5 DEF Wake
  <2>6. CASE PollTimeout
    BY <2>6 DEF PollTimeout
  <2>7. CASE UNCHANGED vars
    BY <2>7 DEF vars
  <2> QED BY <2>1, <2>2, <2>3, <2>4, <2>5, <2>6, <2>7 DEF Next
<1> QED BY <1>1, <1>2, PTL DEF Spec

\* A queued message always has a readable pipe, or a producer on its way to
\* jsdrv_os_event_signal, behind it.
THEOREM WakeupSafe == Spec => []NoLostWakeup
<1>1. Init => NoLostWakeup
  BY DEF Init, NoLostWakeup
<1>2. TypeOK /\ NoLostWakeup /\ [Next]_vars => NoLostWakeup'
  <2> SUFFICES ASSUME TypeOK, NoLostWakeup, [Next]_vars PROVE NoLostWakeup'
    OBVIOUS
  <2> USE DEF NoLostWakeup
  <2>1. ASSUME NEW p \in Producers, Push(p) PROVE NoLostWakeup'
    BY <2>1 DEF Push, TypeOK
  <2>2. ASSUME NEW p \in Producers, EventSignal(p) PROVE NoLostWakeup'
    BY <2>2, QueueAssumption DEF EventSignal, TypeOK
  <2>3. CASE PopMessage
    BY <2>3 DEF PopMessage
  <2>4. CASE PopEmpty
    BY <2>4 DEF PopEmpty
  <2>5. CASE Wake
    BY <2>5 DEF Wake
  <2>6. CASE PollTimeout
    BY <2>6 DEF PollTimeout
  <2>7. CASE UNCHANGED vars
    BY <2>7 DEF vars
  <2> QED BY <2>1, <2>2, <2>3, <2>4, <2>5, <2>6, <2>7 DEF Next
<1> QED BY <1>1, <1>2, TypeCorrect, PTL DEF Spec

\* msg_queue_push and msg_queue_pop_immediate implement the send and the
\* hand-over of FifoChannel; signalling, waking and resetting are invisible.
THEOREM ImplementsFifo == Spec => FifoSpec
<1>1. Init => Fifo!ChannelInit
  BY DEF Init, Fifo!ChannelInit
<1>2. [Next]_vars => [Fifo!ChannelNext]_(Fifo!channelVars)
  <2> SUFFICES ASSUME [Next]_vars
               PROVE Fifo!ChannelNext \/ UNCHANGED Fifo!channelVars
    OBVIOUS
  <2> USE DEF Fifo!ChannelNext, Fifo!channelVars
  <2>1. ASSUME NEW p \in Producers, Push(p) PROVE Fifo!Send(p)
    BY <2>1 DEF Push, Fifo!Send
  <2>2. ASSUME NEW p \in Producers, EventSignal(p)
        PROVE UNCHANGED Fifo!channelVars
    BY <2>2 DEF EventSignal
  <2>3. CASE PopMessage
    BY <2>3 DEF PopMessage, Fifo!Hand
  <2>4. CASE PopEmpty
    BY <2>4 DEF PopEmpty
  <2>5. CASE Wake
    BY <2>5 DEF Wake
  <2>6. CASE PollTimeout
    BY <2>6 DEF PollTimeout
  <2>7. CASE UNCHANGED vars
    BY <2>7 DEF vars
  <2> QED BY <2>1, <2>2, <2>3, <2>4, <2>5, <2>6, <2>7 DEF Next
<1> QED BY <1>1, <1>2, PTL DEF Spec, FifoSpec, Fifo!ChannelSpec
==============================================================================

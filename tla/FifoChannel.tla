----------------------------- MODULE FifoChannel -----------------------------
(***************************************************************************)
(* What every queue of the driver promises to the threads around it: the   *)
(* messages that the senders put in are handed to the one receiver in the  *)
(* order in which they were put in, none lost, none duplicated.  The       *)
(* detailed queue, with its mutex and its wakeup pipe, is MsgQueue.        *)
(***************************************************************************)
EXTENDS Naturals, Sequences

CONSTANTS Senders,  \* threads that put messages in
          MaxSend   \* messages one sender puts in (bound of the model)

VARIABLES inFlight, \* messages accepted and not yet handed over
          count,    \* count[s]: messages sender s has put in
          handed    \* everything handed to the receiver, oldest first

channelVars == <<inFlight, count, handed>>

ChannelInit ==
    /\ inFlight = <<>>
    /\ count = [s \in Senders |-> 0]
    /\ handed = <<>>

\* A message is its sender and its number among the sender's messages.
Send(s) ==
    /\ count[s] < MaxSend
    /\ count' = [count EXCEPT ![s] = @ + 1]
    /\ inFlight' = Append(inFlight, <<s, count[s] + 1>>)
    /\ UNCHANGED handed

Hand ==
    /\ inFlight # <<>>
    /\ handed' = Append(handed, Head(inFlight))
    /\ inFlight' = Tail(inFlight)
    /\ UNCHANGED count

ChannelNext == Hand \/ \E s \in Senders : Send(s)

ChannelSpec == ChannelInit /\ [][ChannelNext]_channelVars
==============================================================================

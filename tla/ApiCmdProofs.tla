---------------------------- MODULE ApiCmdProofs ----------------------------
(***************************************************************************)
(* For any number of callers, calls and timeouts: what a call lends to the *)
(* frontend thread is not used after the call returned, when no two        *)
(* callers work on the same topic.                                         *)
(***************************************************************************)
EXTENDS ApiCmd

------------------------------------------------------------------------------
(* What a call lends is not used after it returned, for callers with topics *)
(* of their own                                                             *)

\* No two callers call with the same topic.
OwnTopics == \A c, d \in Callers : c # d => Ops[c] \cap Ops[d] = {}

\* A request of caller c, and one that the frontend thread answers at once
Of(m, c) == m \in Requests /\ m.who = c
Lent(m) == m \in Requests /\ m.op \in LocalOps /\ m.timed

\* What a request says of its caller: a timed one is the call under way, and a query is
\* timed.  What pubsub still has to answer has its record in cmd_timeouts.
CallsOwn ==
    \A c \in Callers : call[c].st # "idle" =>
        call[c].op \in Ops[c] /\ (call[c].op = "query" => call[c].st # "async")
CmdsOwn ==
    \A i \in 1..Len(msg_cmd) : msg_cmd[i] \in Requests =>
        /\ msg_cmd[i].op \in Ops[msg_cmd[i].who]
        /\ msg_cmd[i].op = "query" => msg_cmd[i].timed
        /\ msg_cmd[i].timed => call[msg_cmd[i].who].op = msg_cmd[i].op /\
                               call[msg_cmd[i].who].n = msg_cmd[i].n
PendsOwn ==
    \A i \in 1..Len(msg_pend) : msg_pend[i] \in Requests =>
        /\ msg_pend[i].op \in Ops[msg_pend[i].who]
        /\ msg_pend[i].op = "query" => msg_pend[i].timed
LentInv ==
    \A i \in 1..Len(msg_pend) : Lent(msg_pend[i]) =>
        /\ msg_pend[i].who \in Elems(cmd_timeouts)
        /\ call[msg_pend[i].who].op = msg_pend[i].op
        /\ call[msg_pend[i].who].n = msg_pend[i].n
RequestInv == CallsOwn /\ CmdsOwn /\ PendsOwn /\ LentInv

\* A caller that waits sends nothing, so its request is the last one of it.
CmdOrder ==
    \A i, j \in 1..Len(msg_cmd) : i < j /\ msg_cmd[i].timed => ~Of(msg_cmd[j], msg_cmd[i].who)
PendOrder ==
    \A i, j \in 1..Len(msg_pend) : i < j /\ Lent(msg_pend[i]) => ~Of(msg_pend[j], msg_pend[i].who)
BothOrder ==
    \A i \in 1..Len(msg_pend), j \in 1..Len(msg_cmd) :
        Lent(msg_pend[i]) => ~Of(msg_cmd[j], msg_pend[i].who)
PendEmpty == frontend \in {"loop", "timeouts", "exit", "exited"} => msg_pend = <<>>
OrderInv == CmdOrder /\ PendOrder /\ BothOrder /\ PendEmpty

\* A caller whose unsubscribe succeeded is not subscribed and has nothing under way.
Left(c) == call[c].st \in {"signalled", "idle"} /\ call[c].op = "unsubscribe" /\ call[c].rc = "ok"
LeftInv ==
    \A c \in Callers : Left(c) =>
        /\ c \notin subscribers
        /\ \A i \in 1..Len(msg_cmd) : ~Of(msg_cmd[i], c)
        /\ \A i \in 1..Len(msg_pend) : ~Of(msg_pend[i], c)

UInv == RequestInv /\ OrderInv /\ LeftInv

\* Return codes and the finalize message are nobody's requests.
LEMMA NotRequests == \A m \in ReturnCodes \cup Finalizations : m \notin Requests
BY Zenon DEF ReturnCodes, Finalizations, Requests, OpNames

\* What the queues hold
LEMMA QueueElems ==
    ASSUME TypeOK
    PROVE  /\ \A i \in 1..Len(msg_cmd) : msg_cmd[i] \in Requests \cup Finalizations
           /\ \A i \in 1..Len(msg_cmd) : msg_cmd[i].timed => msg_cmd[i] \in Requests
           /\ \A i \in 1..Len(msg_pend) : msg_pend[i] \in Requests \cup ReturnCodes
           /\ Len(msg_cmd) \in Nat /\ Len(msg_pend) \in Nat
<1>1. \A i \in 1..Len(msg_cmd) : msg_cmd[i] \in Requests \cup Finalizations
  BY ElementOf DEF TypeOK
<1>2. \A m \in Finalizations : ~m.timed
  BY Zenon DEF Finalizations
<1>3. \A i \in 1..Len(msg_pend) : msg_pend[i] \in Requests \cup ReturnCodes
  BY ElementOf DEF TypeOK
<1> QED BY <1>1, <1>2, <1>3, LenIs DEF TypeOK

\* A caller that does not wait lends nothing.
LEMMA LentByWaiters ==
    ASSUME IInv, UInv, NEW c \in Callers, call[c].st # "wait"
    PROVE  /\ \A i \in 1..Len(msg_cmd) : msg_cmd[i].timed => msg_cmd[i].who # c
           /\ \A i \in 1..Len(msg_pend) : Lent(msg_pend[i]) => msg_pend[i].who # c
<1>1. c \notin Elems(cmd_timeouts)
  BY DEF IInv, RecordsInv
<1> QED BY <1>1 DEF IInv, RecordsInv, UInv, RequestInv, LentInv

\* A step that leaves the queues, the list and the subscribers alone, and changes the
\* call of at most one caller, which does not wait.
LEMMA CallerFrame ==
    ASSUME IInv, UInv, UNCHANGED <<msg_cmd, msg_pend, cmd_timeouts, subscribers, frontend>>,
           NEW c \in Callers, call[c].st # "wait",
           \A d \in Callers \ {c} : call'[d] = call[d],
           call'[c].st # "idle" =>
               call'[c].op \in Ops[c] /\ (call'[c].op = "query" => call'[c].st # "async"),
           Left(c)' => Left(c)
    PROVE  UInv'
<1>1. /\ \A i \in 1..Len(msg_cmd) : msg_cmd[i].timed => msg_cmd[i].who \in Callers \ {c}
      /\ \A i \in 1..Len(msg_pend) : Lent(msg_pend[i]) => msg_pend[i].who \in Callers \ {c}
  <2>1. \A m \in Requests : m.who \in Callers
    BY DEF Requests
  <2> QED BY <2>1, LentByWaiters, QueueElems DEF IInv, Lent
<1>2. RequestInv'
  <2>1. \A d \in Callers : call'[d].st # "idle" =>
          call'[d].op \in Ops[d] /\ (call'[d].op = "query" => call'[d].st # "async")
    BY DEF UInv, RequestInv, CallsOwn
  <2>2. ASSUME NEW i \in 1..Len(msg_cmd), msg_cmd[i] \in Requests
        PROVE  /\ msg_cmd[i].op \in Ops[msg_cmd[i].who]
               /\ msg_cmd[i].op = "query" => msg_cmd[i].timed
               /\ msg_cmd[i].timed => call'[msg_cmd[i].who].op = msg_cmd[i].op /\
                                      call'[msg_cmd[i].who].n = msg_cmd[i].n
    BY <1>1, <2>2 DEF UInv, RequestInv, CmdsOwn
  <2>3. ASSUME NEW i \in 1..Len(msg_pend), Lent(msg_pend[i])
        PROVE  /\ msg_pend[i].who \in Elems(cmd_timeouts)
               /\ call'[msg_pend[i].who].op = msg_pend[i].op
               /\ call'[msg_pend[i].who].n = msg_pend[i].n
    BY <1>1, <2>3 DEF UInv, RequestInv, LentInv
  <2>4. \A i \in 1..Len(msg_pend) : msg_pend[i] \in Requests =>
          /\ msg_pend[i].op \in Ops[msg_pend[i].who]
          /\ msg_pend[i].op = "query" => msg_pend[i].timed
    BY DEF UInv, RequestInv, PendsOwn
  <2>5. msg_cmd' = msg_cmd /\ msg_pend' = msg_pend /\ Elems(cmd_timeouts') = Elems(cmd_timeouts)
    BY DEF Elems
  <2>6. CallsOwn'
    BY <2>1 DEF CallsOwn
  <2>7. CmdsOwn'
    BY <2>2, <2>5 DEF CmdsOwn
  <2>8. PendsOwn'
    BY <2>4, <2>5 DEF PendsOwn
  <2>9. LentInv'
    BY <2>3, <2>5 DEF LentInv, Lent
  <2> QED BY <2>6, <2>7, <2>8, <2>9 DEF RequestInv
<1>3. OrderInv'
  BY DEF UInv, OrderInv, CmdOrder, PendOrder, BothOrder, PendEmpty, Lent, Of
<1>4. LeftInv'
  <2>1. \A d \in Callers : Left(d)' => Left(d)
    BY DEF Left
  <2> QED BY <2>1 DEF UInv, LeftInv, Of
<1> QED BY <1>2, <1>3, <1>4 DEF UInv

\* api_cmd: a caller that starts or leaves a call
LEMMA BeginReturnLends ==
    ASSUME IInv, UInv, NEW c \in Callers, Begin(c) \/ Return(c)
    PROVE  UInv'
<1>1. call \in [Callers -> Calls] /\ call[c] \in Calls
  BY DEF IInv, TypeOK
<1>2. CASE Begin(c)
  <2>1. PICK op \in Ops[c], ms \in Timeouts :
          /\ op = "query" => ms > 0
          /\ call' = [call EXCEPT ![c] =
               [st |-> IF ms > 0 THEN "armed" ELSE "async", op |-> op,
                n |-> call[c].n + 1, deadline |-> now + ms, rc |-> "none"]]
    BY <1>2, Zenon DEF Begin
  <2>2. call'[c].op = op /\ call'[c].st = IF ms > 0 THEN "armed" ELSE "async"
    BY <1>1, <2>1
  <2>3. ~Left(c)' /\ call[c].st # "wait"
    BY <1>2, <2>2, Zenon DEF Left, Begin
  <2>4. \A d \in Callers \ {c} : call'[d] = call[d]
    BY <1>1, <2>1, Zenon
  <2> QED BY <1>2, <2>1, <2>2, <2>3, <2>4, CallerFrame DEF Begin
<1>3. CASE Return(c)
  <2>1. /\ call'[c].st = "idle" /\ call'[c].op = call[c].op /\ call'[c].rc = call[c].rc
        /\ call[c].st = "signalled" /\ \A d \in Callers \ {c} : call'[d] = call[d]
    BY <1>1, <1>3 DEF Return, Calls
  <2>2. Left(c)' => Left(c)
    BY <2>1 DEF Left
  <2> QED BY <1>3, <2>1, <2>2, CallerFrame DEF Return
<1> QED BY <1>2, <1>3

\* msg_queue_push in api_cmd: the caller has no other request that it waits for.
LEMMA PushCmdLends ==
    ASSUME IInv, UInv, NEW c \in Callers, PushCmd(c)
    PROVE  UInv'
<1> DEFINE m == Msg(call[c].op, c, call[c].n, call[c].st = "armed")
<1>1. call \in [Callers -> Calls] /\ call[c] \in Calls /\ call[c].st \in {"armed", "async"}
  BY DEF IInv, TypeOK, PushCmd
<1>2. /\ m \in Requests /\ m.who = c /\ m.timed = (call[c].st = "armed")
      /\ m.op = call[c].op /\ m.n = call[c].n
  BY <1>1 DEF IInv, CallInv, Calls, Msg, Requests
<1>3. /\ call'[c].op = call[c].op /\ call'[c].n = call[c].n
      /\ \/ call[c].st = "armed" /\ call'[c].st = "wait"
         \/ call[c].st = "async" /\ call'[c].st = "idle" /\ call'[c].rc = "queued"
      /\ \A d \in Callers \ {c} : call'[d] = call[d]
  BY <1>1 DEF PushCmd, Calls
<1>4. /\ Len(msg_cmd') = Len(msg_cmd) + 1 /\ Len(msg_cmd) \in Nat
      /\ \A i \in 1..Len(msg_cmd) : msg_cmd'[i] = msg_cmd[i]
      /\ msg_cmd'[Len(msg_cmd) + 1] = m
  BY <1>2, AppendIs, LenIs DEF PushCmd, IInv, TypeOK
<1>5. msg_pend' = msg_pend /\ Elems(cmd_timeouts') = Elems(cmd_timeouts)
      /\ subscribers' = subscribers /\ frontend' = frontend
  BY DEF PushCmd
<1> HIDE DEF m
<1>6. /\ \A i \in 1..Len(msg_cmd) : msg_cmd[i].timed => msg_cmd[i].who \in Callers \ {c}
      /\ \A i \in 1..Len(msg_pend) : Lent(msg_pend[i]) => msg_pend[i].who \in Callers \ {c}
  <2>1. \A r \in Requests : r.who \in Callers
    BY DEF Requests
  <2> QED BY <1>1, <2>1, LentByWaiters, QueueElems DEF IInv, Lent
<1>7. RequestInv'
  <2>1. ASSUME NEW d \in Callers, call'[d].st # "idle"
        PROVE  call'[d].op \in Ops[d] /\ (call'[d].op = "query" => call'[d].st # "async")
    BY <1>1, <1>3, <2>1 DEF UInv, RequestInv, CallsOwn
  <2>2. ASSUME NEW i \in 1..Len(msg_cmd'), msg_cmd'[i] \in Requests
        PROVE  /\ msg_cmd'[i].op \in Ops[msg_cmd'[i].who]
               /\ msg_cmd'[i].op = "query" => msg_cmd'[i].timed
               /\ msg_cmd'[i].timed => call'[msg_cmd'[i].who].op = msg_cmd'[i].op /\
                                       call'[msg_cmd'[i].who].n = msg_cmd'[i].n
    <3>1. CASE i \in 1..Len(msg_cmd)
      BY <1>3, <1>4, <1>6, <2>2, <3>1 DEF UInv, RequestInv, CmdsOwn
    <3>2. CASE msg_cmd'[i] = m
      BY <1>1, <1>2, <1>3, <3>2, Zenon DEF UInv, RequestInv, CallsOwn
    <3> QED BY <1>4, <3>1, <3>2
  <2>3. ASSUME NEW i \in 1..Len(msg_pend), Lent(msg_pend[i])
        PROVE  /\ msg_pend[i].who \in Elems(cmd_timeouts)
               /\ call'[msg_pend[i].who].op = msg_pend[i].op
               /\ call'[msg_pend[i].who].n = msg_pend[i].n
    BY <1>3, <1>6, <2>3, Zenon DEF UInv, RequestInv, LentInv
  <2>4. \A i \in 1..Len(msg_pend) : msg_pend[i] \in Requests =>
          /\ msg_pend[i].op \in Ops[msg_pend[i].who]
          /\ msg_pend[i].op = "query" => msg_pend[i].timed
    BY DEF UInv, RequestInv, PendsOwn
  <2>5. CallsOwn'
    BY <2>1 DEF CallsOwn
  <2>6. CmdsOwn'
    BY <2>2 DEF CmdsOwn
  <2>7. PendsOwn'
    BY <1>5, <2>4 DEF PendsOwn
  <2>8. LentInv'
    BY <1>5, <2>3 DEF LentInv
  <2> QED BY <2>5, <2>6, <2>7, <2>8 DEF RequestInv
<1>8. OrderInv'
  <2>1. ASSUME NEW i \in 1..Len(msg_cmd'), NEW j \in 1..Len(msg_cmd'), i < j, msg_cmd'[i].timed
        PROVE  ~Of(msg_cmd'[j], msg_cmd'[i].who)
    <3>1. i \in 1..Len(msg_cmd) /\ msg_cmd'[i] = msg_cmd[i]
      BY <1>4, <2>1
    <3>2. CASE j \in 1..Len(msg_cmd)
      BY <1>4, <2>1, <3>1, <3>2 DEF UInv, OrderInv, CmdOrder
    <3>3. CASE msg_cmd'[j] = m
      BY <1>2, <1>6, <2>1, <3>1, <3>3 DEF Of
    <3> QED BY <1>4, <3>2, <3>3
  <2>2. ASSUME NEW i \in 1..Len(msg_pend), NEW j \in 1..Len(msg_cmd'), Lent(msg_pend[i])
        PROVE  ~Of(msg_cmd'[j], msg_pend[i].who)
    <3>1. CASE j \in 1..Len(msg_cmd)
      BY <1>4, <2>2, <3>1 DEF UInv, OrderInv, BothOrder
    <3>2. CASE msg_cmd'[j] = m
      BY <1>2, <1>6, <2>2, <3>2 DEF Of
    <3> QED BY <1>4, <3>1, <3>2
  <2>3. CmdOrder' /\ BothOrder'
    BY <1>5, <2>1, <2>2 DEF CmdOrder, BothOrder
  <2>4. PendOrder' /\ PendEmpty'
    BY <1>5 DEF UInv, OrderInv, PendOrder, PendEmpty
  <2> QED BY <2>3, <2>4 DEF OrderInv
<1>9. LeftInv'
  <2> SUFFICES ASSUME NEW d \in Callers, Left(d)'
               PROVE  /\ d \notin subscribers
                      /\ \A i \in 1..Len(msg_cmd') : ~Of(msg_cmd'[i], d)
                      /\ \A i \in 1..Len(msg_pend) : ~Of(msg_pend[i], d)
    BY <1>5 DEF LeftInv
  <2>1. d # c
    BY <1>3 DEF Left
  <2>2. Left(d)
    BY <1>3, <2>1 DEF Left
  <2>3. ASSUME NEW i \in 1..Len(msg_cmd') PROVE ~Of(msg_cmd'[i], d)
    <3>1. CASE i \in 1..Len(msg_cmd)
      BY <1>4, <2>2, <3>1 DEF UInv, LeftInv
    <3>2. CASE msg_cmd'[i] = m
      BY <1>2, <2>1, <3>2 DEF Of
    <3> QED BY <1>4, <3>1, <3>2
  <2> QED BY <2>2, <2>3 DEF UInv, LeftInv
<1> QED BY <1>7, <1>8, <1>9 DEF UInv

\* handle_cmd_msg: the request keeps its place among the requests of its caller.
LEMMA HandleCmdMsgLends ==
    ASSUME IInv, UInv, HandleCmdMsg
    PROVE  UInv'
<1> DEFINE m == Head(msg_cmd)
<1>1. /\ m = msg_cmd[1] /\ m \in Requests \cup Finalizations
      /\ Len(msg_cmd') = Len(msg_cmd) - 1 /\ Len(msg_cmd) \in Nat \ {0}
      /\ \A i \in 1..Len(msg_cmd') : msg_cmd'[i] = msg_cmd[i + 1]
  BY HeadTailIs, LenIs DEF HandleCmdMsg, IInv, TypeOK
<1>2. /\ UNCHANGED <<call, subscribers>> /\ frontend' \in {"process", "cmd"}
      /\ IF m.timed THEN TimeoutAdd(m.who) ELSE UNCHANGED cmd_timeouts
      /\ msg_pend' = IF m.op \in {"finalize", "timeout"} THEN msg_pend ELSE Append(msg_pend, m)
  BY DEF HandleCmdMsg
<1> HIDE DEF m
<1>3. /\ m.timed \in BOOLEAN /\ (m.timed => m \in Requests /\ m.who \in Callers)
      /\ m.op # "finalize" => m \in Requests
  BY <1>1, Zenon DEF Requests, Finalizations, OpNames
<1>4. Elems(cmd_timeouts') = Elems(cmd_timeouts) \cup (IF m.timed THEN {m.who} ELSE {})
  <2>0. cmd_timeouts \in Seq(Callers) /\ NoDups(cmd_timeouts)
    BY DEF IInv, TypeOK, RecordsInv
  <2>1. CASE m.timed
    <3>1. m.who \in Callers /\ m.who \notin Elems(cmd_timeouts)
      BY <1>1, <1>3, <2>1 DEF IInv, RecordsInv
    <3> QED BY <1>2, <2>0, <2>1, <3>1, TimeoutAddElems
  <2>2. CASE ~m.timed
    BY <1>2, <2>0, <2>2
  <2> QED BY <2>1, <2>2
<1>5. Len(msg_pend) \in Nat /\ msg_pend \in Seq(Requests \cup ReturnCodes)
  BY LenIs DEF IInv, TypeOK
<1>6. ASSUME NEW i \in 1..Len(msg_pend')
      PROVE  \/ i \in 1..Len(msg_pend) /\ msg_pend'[i] = msg_pend[i]
             \/ i = Len(msg_pend) + 1 /\ msg_pend'[i] = m /\ m \in Requests
  <2>1. CASE m.op \in {"finalize", "timeout"}
    BY <1>2, <2>1
  <2>2. CASE m.op \notin {"finalize", "timeout"}
    <3>1. m \in Requests /\ msg_pend' = Append(msg_pend, m)
      BY <1>2, <1>3, <2>2
    <3>2. /\ Len(msg_pend') = Len(msg_pend) + 1 /\ msg_pend'[Len(msg_pend) + 1] = m
          /\ \A k \in 1..Len(msg_pend) : msg_pend'[k] = msg_pend[k]
      BY <1>5, <3>1, AppendIs
    <3> QED BY <1>5, <3>1, <3>2
  <2> QED BY <2>1, <2>2
<1>7. \A i \in 1..Len(msg_cmd') : i + 1 \in 1..Len(msg_cmd) /\ 1 < i + 1 /\ 1 \in 1..Len(msg_cmd)
  BY <1>1
<1>8. RequestInv'
  <2>1. \A c \in Callers : call'[c].st # "idle" =>
          call'[c].op \in Ops[c] /\ (call'[c].op = "query" => call'[c].st # "async")
    BY <1>2 DEF UInv, RequestInv, CallsOwn
  <2>2. ASSUME NEW i \in 1..Len(msg_cmd'), msg_cmd'[i] \in Requests
        PROVE  /\ msg_cmd'[i].op \in Ops[msg_cmd'[i].who]
               /\ msg_cmd'[i].op = "query" => msg_cmd'[i].timed
               /\ msg_cmd'[i].timed => call'[msg_cmd'[i].who].op = msg_cmd'[i].op /\
                                       call'[msg_cmd'[i].who].n = msg_cmd'[i].n
    BY <1>1, <1>2, <1>7, <2>2 DEF UInv, RequestInv, CmdsOwn
  <2>3. ASSUME NEW i \in 1..Len(msg_pend'), msg_pend'[i] \in Requests
        PROVE  /\ msg_pend'[i].op \in Ops[msg_pend'[i].who]
               /\ msg_pend'[i].op = "query" => msg_pend'[i].timed
    BY <1>1, <1>6, <2>3 DEF UInv, RequestInv, PendsOwn, CmdsOwn
  <2>4. ASSUME NEW i \in 1..Len(msg_pend'), Lent(msg_pend'[i])
        PROVE  /\ msg_pend'[i].who \in Elems(cmd_timeouts')
               /\ call'[msg_pend'[i].who].op = msg_pend'[i].op
               /\ call'[msg_pend'[i].who].n = msg_pend'[i].n
    <3>1. CASE i \in 1..Len(msg_pend) /\ msg_pend'[i] = msg_pend[i]
      BY <1>2, <1>4, <2>4, <3>1 DEF UInv, RequestInv, LentInv
    <3>2. CASE msg_pend'[i] = m /\ m \in Requests
      <4>1. m.timed
        BY <2>4, <3>2 DEF Lent
      <4> QED BY <1>1, <1>2, <1>4, <3>2, <4>1 DEF UInv, RequestInv, CmdsOwn
    <3> QED BY <1>6, <3>1, <3>2
  <2>5. CallsOwn' /\ CmdsOwn'
    BY <2>1, <2>2 DEF CallsOwn, CmdsOwn
  <2>6. PendsOwn' /\ LentInv'
    BY <2>3, <2>4 DEF PendsOwn, LentInv
  <2> QED BY <2>5, <2>6 DEF RequestInv
<1>9. OrderInv'
  <2>1. ASSUME NEW i \in 1..Len(msg_cmd'), NEW j \in 1..Len(msg_cmd'), i < j, msg_cmd'[i].timed
        PROVE  ~Of(msg_cmd'[j], msg_cmd'[i].who)
    <3>1. i + 1 < j + 1 /\ i + 1 \in 1..Len(msg_cmd) /\ j + 1 \in 1..Len(msg_cmd)
      BY <1>7, <2>1
    <3>2. msg_cmd'[i] = msg_cmd[i + 1] /\ msg_cmd'[j] = msg_cmd[j + 1]
      BY <1>1
    <3> QED BY <2>1, <3>1, <3>2 DEF UInv, OrderInv, CmdOrder
  <2>2. ASSUME NEW i \in 1..Len(msg_pend'), NEW j \in 1..Len(msg_pend'), i < j, Lent(msg_pend'[i])
        PROVE  ~Of(msg_pend'[j], msg_pend'[i].who)
    <3>1. i \in 1..Len(msg_pend) /\ msg_pend'[i] = msg_pend[i]
      <4>1. i # Len(msg_pend) + 1
        BY <1>5, <1>6, <2>2
      <4> QED BY <1>6, <4>1
    <3>2. CASE j \in 1..Len(msg_pend) /\ msg_pend'[j] = msg_pend[j]
      BY <2>2, <3>1, <3>2 DEF UInv, OrderInv, PendOrder
    <3>3. CASE msg_pend'[j] = m
      <4>1. 1 \in 1..Len(msg_cmd)
        BY <1>1
      <4> QED BY <1>1, <2>2, <3>1, <3>3, <4>1 DEF UInv, OrderInv, BothOrder
    <3> QED BY <1>6, <3>2, <3>3
  <2>3. ASSUME NEW i \in 1..Len(msg_pend'), NEW j \in 1..Len(msg_cmd'), Lent(msg_pend'[i])
        PROVE  ~Of(msg_cmd'[j], msg_pend'[i].who)
    <3>1. CASE i \in 1..Len(msg_pend) /\ msg_pend'[i] = msg_pend[i]
      BY <1>1, <1>7, <2>3, <3>1 DEF UInv, OrderInv, BothOrder
    <3>2. CASE msg_pend'[i] = m
      <4>1. m.timed
        BY <2>3, <3>2 DEF Lent
      <4> QED BY <1>1, <1>7, <3>2, <4>1 DEF UInv, OrderInv, CmdOrder
    <3> QED BY <1>6, <3>1, <3>2
  <2>4. CmdOrder' /\ PendOrder'
    BY <2>1, <2>2 DEF CmdOrder, PendOrder
  <2>5. BothOrder' /\ PendEmpty'
    BY <1>2, <2>3 DEF BothOrder, PendEmpty
  <2> QED BY <2>4, <2>5 DEF OrderInv
<1>10. LeftInv'
  <2> SUFFICES ASSUME NEW d \in Callers, Left(d)'
               PROVE  /\ d \notin subscribers
                      /\ \A i \in 1..Len(msg_cmd') : ~Of(msg_cmd'[i], d)
                      /\ \A i \in 1..Len(msg_pend') : ~Of(msg_pend'[i], d)
    BY <1>2 DEF LeftInv
  <2>1. Left(d)
    BY <1>2 DEF Left
  <2>2. ~Of(m, d)
    <3>1. 1 \in 1..Len(msg_cmd)
      BY <1>1
    <3> QED BY <1>1, <2>1, <3>1 DEF UInv, LeftInv
  <2>3. \A i \in 1..Len(msg_cmd') : ~Of(msg_cmd'[i], d)
    BY <1>1, <1>7, <2>1 DEF UInv, LeftInv
  <2>4. ASSUME NEW i \in 1..Len(msg_pend') PROVE ~Of(msg_pend'[i], d)
    BY <1>6, <2>1, <2>2 DEF UInv, LeftInv
  <2> QED BY <2>1, <2>3, <2>4 DEF UInv, LeftInv
<1> QED BY <1>8, <1>9, <1>10 DEF UInv

\* A record that is signalled keeps its topic and its number.
LEMMA SignalFields ==
    ASSUME TypeOK, NEW D \in SUBSET Callers,
           NEW rc \in {"ok", "not_found", "timed_out", "aborted"},
           call' = Signal(D, rc) \/ (D = {} /\ call' = call)
    PROVE  /\ \A c \in Callers \ D : call'[c] = call[c]
           /\ \A c \in D : /\ call'[c].st = "signalled" /\ call'[c].rc = rc
                           /\ call'[c].op = call[c].op /\ call'[c].n = call[c].n
<1>1. CASE D = {} /\ call' = call
  BY <1>1
<1>2. CASE call' = Signal(D, rc)
  <2>1. \A c \in Callers : call'[c] = IF c \in D
          THEN [call[c] EXCEPT !.st = "signalled", !.rc = rc] ELSE call[c]
    BY <1>2, Zenon DEF Signal
  <2>2. ASSUME NEW c \in D
        PROVE  /\ [call[c] EXCEPT !.st = "signalled", !.rc = rc].st = "signalled"
               /\ [call[c] EXCEPT !.st = "signalled", !.rc = rc].rc = rc
               /\ [call[c] EXCEPT !.st = "signalled", !.rc = rc].op = call[c].op
               /\ [call[c] EXCEPT !.st = "signalled", !.rc = rc].n = call[c].n
    <3>1. call[c] \in Calls
      BY DEF TypeOK
    <3> QED BY <3>1, Zenon DEF Calls
  <2>3. \A c \in D : call'[c] = [call[c] EXCEPT !.st = "signalled", !.rc = rc]
    BY <2>1, Zenon
  <2> QED BY <2>1, <2>2, <2>3, Zenon
<1> QED BY <1>1, <1>2

\* timeout_complete, timeout_process and timeouts_finalize: a step that takes the records
\* of D off the list and signals them.  No request in msg_pend' has its record in D, and a
\* caller of D that has unsubscribed is out of the way.
LEMMA SignalLends ==
    ASSUME IInv, UInv, NEW D \in SUBSET Elems(cmd_timeouts),
           NEW rc \in {"ok", "not_found", "timed_out", "aborted"},
           Elems(cmd_timeouts') = Elems(cmd_timeouts) \ D,
           call' = Signal(D, rc) \/ (D = {} /\ call' = call),
           msg_cmd' = msg_cmd, Len(msg_pend') \in Nat, NEW k \in Nat,
           \A i \in 1..Len(msg_pend') : i + k \in 1..Len(msg_pend) /\ msg_pend'[i] = msg_pend[i + k],
           \A i \in 1..Len(msg_pend') : Lent(msg_pend'[i]) => msg_pend'[i].who \notin D,
           frontend' \in {"loop", "timeouts", "exit", "exited"} => msg_pend' = <<>>,
           \A c \in Callers : Left(c)' /\ c \in subscribers' => Left(c) /\ c \in subscribers,
           \A c \in D : call[c].op = "unsubscribe" /\ rc = "ok" =>
               /\ \A i \in 1..Len(msg_cmd) : ~Of(msg_cmd[i], c)
               /\ \A i \in 1..Len(msg_pend') : ~Of(msg_pend'[i], c)
    PROVE  UInv'
<1>1. D \in SUBSET Callers
  <2>1. cmd_timeouts \in Seq(Callers)
    BY DEF IInv, TypeOK
  <2> QED BY <2>1, ElementOf DEF Elems
<1>2. /\ \A c \in Callers \ D : call'[c] = call[c]
      /\ \A c \in D : /\ call'[c].st = "signalled" /\ call'[c].rc = rc
                      /\ call'[c].op = call[c].op /\ call'[c].n = call[c].n
  BY <1>1, SignalFields DEF IInv
<1>3. \A c \in D : call[c].st = "wait"
  BY DEF IInv, RecordsInv
<1>4. \A r \in Requests : r.who \in Callers
  BY DEF Requests
<1>5. \A c \in Callers : call'[c].op = call[c].op /\ call'[c].n = call[c].n
  BY <1>2
<1>6. RequestInv'
  <2>1. ASSUME NEW c \in Callers, call'[c].st # "idle"
        PROVE  call'[c].op \in Ops[c] /\ (call'[c].op = "query" => call'[c].st # "async")
    <3>1. CASE c \in D
      BY <1>2, <1>3, <2>1, <3>1, Zenon DEF UInv, RequestInv, CallsOwn
    <3>2. CASE c \notin D
      BY <1>2, <2>1, <3>2, Zenon DEF UInv, RequestInv, CallsOwn
    <3> QED BY <3>1, <3>2
  <2>2. ASSUME NEW i \in 1..Len(msg_cmd), msg_cmd[i] \in Requests
        PROVE  /\ msg_cmd[i].op \in Ops[msg_cmd[i].who]
               /\ msg_cmd[i].op = "query" => msg_cmd[i].timed
               /\ msg_cmd[i].timed => call'[msg_cmd[i].who].op = msg_cmd[i].op /\
                                      call'[msg_cmd[i].who].n = msg_cmd[i].n
    BY <1>4, <1>5, <2>2, Zenon DEF UInv, RequestInv, CmdsOwn
  <2>3. ASSUME NEW i \in 1..Len(msg_pend'), msg_pend'[i] \in Requests
        PROVE  /\ msg_pend'[i].op \in Ops[msg_pend'[i].who]
               /\ msg_pend'[i].op = "query" => msg_pend'[i].timed
    BY <2>3 DEF UInv, RequestInv, PendsOwn
  <2>4. ASSUME NEW i \in 1..Len(msg_pend'), Lent(msg_pend'[i])
        PROVE  /\ msg_pend'[i].who \in Elems(cmd_timeouts')
               /\ call'[msg_pend'[i].who].op = msg_pend'[i].op
               /\ call'[msg_pend'[i].who].n = msg_pend'[i].n
    <3>1. msg_pend'[i].who \in Callers
      BY <1>4, <2>4, Zenon DEF Lent
    <3> QED BY <1>5, <2>4, <3>1 DEF UInv, RequestInv, LentInv
  <2>5. CallsOwn' /\ CmdsOwn'
    BY <2>1, <2>2 DEF CallsOwn, CmdsOwn
  <2>6. PendsOwn' /\ LentInv'
    BY <2>3, <2>4 DEF PendsOwn, LentInv
  <2> QED BY <2>5, <2>6 DEF RequestInv
<1>7. OrderInv'
  <2>1. ASSUME NEW i \in 1..Len(msg_pend'), NEW j \in 1..Len(msg_pend'), i < j, Lent(msg_pend'[i])
        PROVE  ~Of(msg_pend'[j], msg_pend'[i].who)
    <3>1. i + k < j + k /\ i + k \in 1..Len(msg_pend) /\ j + k \in 1..Len(msg_pend)
      BY <2>1
    <3>2. msg_pend'[i] = msg_pend[i + k] /\ msg_pend'[j] = msg_pend[j + k]
      OBVIOUS
    <3> QED BY <2>1, <3>1, <3>2 DEF UInv, OrderInv, PendOrder
  <2>2. ASSUME NEW i \in 1..Len(msg_pend'), NEW j \in 1..Len(msg_cmd), Lent(msg_pend'[i])
        PROVE  ~Of(msg_cmd[j], msg_pend'[i].who)
    BY <2>2 DEF UInv, OrderInv, BothOrder
  <2>3. CmdOrder' /\ PendEmpty'
    BY DEF UInv, OrderInv, CmdOrder, PendEmpty
  <2>4. PendOrder' /\ BothOrder'
    BY <2>1, <2>2 DEF PendOrder, BothOrder
  <2> QED BY <2>3, <2>4 DEF OrderInv
<1>8. LeftInv'
  <2> SUFFICES ASSUME NEW c \in Callers, Left(c)'
               PROVE  /\ c \notin subscribers'
                      /\ \A i \in 1..Len(msg_cmd) : ~Of(msg_cmd[i], c)
                      /\ \A i \in 1..Len(msg_pend') : ~Of(msg_pend'[i], c)
    BY DEF LeftInv
  <2>1. CASE c \in D
    <3>1. call[c].op = "unsubscribe" /\ rc = "ok" /\ ~Left(c)
      BY <1>2, <1>3, <2>1 DEF Left
    <3> QED BY <2>1, <3>1
  <2>2. CASE c \notin D
    <3>1. Left(c)
      BY <1>2, <2>2 DEF Left
    <3> QED BY <3>1 DEF UInv, LeftInv
  <2> QED BY <2>1, <2>2
<1> QED BY <1>6, <1>7, <1>8 DEF UInv

\* timeout_process and timeouts_finalize run when pubsub has nothing left to answer.
LEMMA TimeoutLends ==
    ASSUME IInv, UInv, TimeoutProcess \/ FrontendExit
    PROVE  UInv'
<1>1. /\ msg_pend = <<>> /\ msg_pend' = msg_pend /\ msg_cmd' = msg_cmd
      /\ subscribers' = subscribers
  BY DEF TimeoutProcess, FrontendExit, UInv, OrderInv, PendEmpty
<1>2. PICK D \in SUBSET Elems(cmd_timeouts), rc \in {"timed_out", "aborted"} :
          /\ Elems(cmd_timeouts') = Elems(cmd_timeouts) \ D
          /\ call' = Signal(D, rc)
  <2>1. CASE TimeoutProcess
    <3>1. PICK due \in 0..Len(cmd_timeouts) :
            /\ call' = Signal({cmd_timeouts[i] : i \in 1..due}, "timed_out")
            /\ cmd_timeouts' = SubSeq(cmd_timeouts, due + 1, Len(cmd_timeouts))
      BY <2>1, Zenon DEF TimeoutProcess
    <3> DEFINE D == {cmd_timeouts[i] : i \in 1..due}
    <3>2. Len(cmd_timeouts) \in Nat /\ call' = Signal(D, "timed_out")
      BY <3>1, LenIs DEF IInv, TypeOK
    <3>4. Elems(cmd_timeouts') = Elems(cmd_timeouts) \ D
      BY <3>1, SuffixElems, ZenonT(40) DEF IInv, TypeOK, RecordsInv
    <3>5. D \in SUBSET Elems(cmd_timeouts)
      BY <3>1, <3>2 DEF Elems
    <3> HIDE DEF D
    <3> QED BY <3>2, <3>4, <3>5
  <2>2. CASE FrontendExit
    <3>1. Elems(cmd_timeouts') = {}
      BY <2>2 DEF FrontendExit, Elems
    <3> QED BY <2>2, <3>1 DEF FrontendExit
  <2> QED BY <2>1, <2>2
<1>3. \A c \in Callers : Left(c)' => Left(c)
  <2>1. D \in SUBSET Callers
    BY ElementOf DEF IInv, TypeOK, Elems
  <2> QED BY <1>2, <2>1, SignalFields DEF IInv, Left
<1>4. Len(msg_pend') \in Nat /\ 1..Len(msg_pend') = {} /\ rc # "ok"
  BY <1>1, <1>2
<1> QED BY <1>1, <1>2, <1>3, <1>4, SignalLends

\* jsdrv_pubsub_process: with topics of their own, a command completes the record of its
\* own caller or none, and a return code of the device completes no local command.
LEMMA ProcessMsgLends ==
    ASSUME OwnTopics, IInv, UInv, ProcessMsg
    PROVE  UInv'
<1> DEFINE m == Head(msg_pend)
<1>1. /\ m \in Requests \cup ReturnCodes /\ m = msg_pend[1] /\ Len(msg_pend) \in Nat \ {0}
      /\ Len(msg_pend') = Len(msg_pend) - 1
      /\ \A i \in 1..Len(msg_pend') : msg_pend'[i] = msg_pend[i + 1]
  BY HeadTailIs, LenIs DEF ProcessMsg, IInv, TypeOK
<1>2. /\ UNCHANGED <<msg_cmd, frontend>> /\ frontend = "process"
      /\ \/ m.op \in LocalOps /\ ProcessLocal(m)
         \/ m.op = "publish" /\ ProcessPublish(m)
         \/ m.op = "#" /\ ProcessReturnCode(m)
  BY DEF ProcessMsg
<1> HIDE DEF m
<1>3. (m.op # "#" => m \in Requests) /\ (m.op = "#" => m \in ReturnCodes)
  BY <1>1 DEF Requests, ReturnCodes, OpNames
<1>4. /\ 1 \in 1..Len(msg_pend) /\ Len(msg_pend') \in Nat
      /\ \A i \in 1..Len(msg_pend') : i + 1 \in 1..Len(msg_pend) /\ 1 < i + 1
  BY <1>1
<1>5. cmd_timeouts \in Seq(Callers) /\ NoDups(cmd_timeouts) /\ Elems(cmd_timeouts) \subseteq Callers
  BY ElementOf DEF IInv, TypeOK, RecordsInv, Elems
<1>6. ASSUME m \in Requests, m.op \in LocalOps, ProcessLocal(m), m.timed
      PROVE  UInv'
  <2> DEFINE rc == IF m.op = "unsubscribe" /\ m.who \notin subscribers THEN "not_found" ELSE "ok"
  <2>1. TimeoutComplete(m.op, rc) /\ rc \in {"ok", "not_found"}
    BY <1>6 DEF ProcessLocal
  <2>2. PICK D \in SUBSET Elems(cmd_timeouts) :
          /\ Elems(cmd_timeouts') = Elems(cmd_timeouts) \ D
          /\ call' = Signal(D, rc) \/ (D = {} /\ call' = call)
          /\ \A c \in D : call[c].op = m.op
    BY <1>5, <2>1, TimeoutCompleteElems, Zenon
  <2> HIDE DEF rc
  <2>3. Lent(m) /\ m.who \in Callers /\ m.op \in Ops[m.who]
    BY <1>1, <1>4, <1>6, Zenon DEF Lent, Requests, UInv, RequestInv, PendsOwn
  <2>4. \A c \in D : c = m.who
    <3> SUFFICES ASSUME NEW c \in D PROVE c = m.who
      OBVIOUS
    <3>1. c \in Callers /\ call[c].st = "wait" /\ call[c].op = m.op
      BY <1>5, <2>2 DEF IInv, RecordsInv
    <3>2. m.op \in Ops[c]
      BY <3>1 DEF UInv, RequestInv, CallsOwn
    <3> QED BY <2>3, <3>1, <3>2 DEF OwnTopics
  <2>5. \A i \in 1..Len(msg_pend') : ~Of(msg_pend'[i], m.who)
    BY <1>1, <1>4, <2>3 DEF UInv, OrderInv, PendOrder
  <2>6. \A i \in 1..Len(msg_cmd) : ~Of(msg_cmd[i], m.who)
    BY <1>1, <1>4, <2>3 DEF UInv, OrderInv, BothOrder
  <2>7. \A i \in 1..Len(msg_pend') : Lent(msg_pend'[i]) => msg_pend'[i].who \notin D
    BY <2>4, <2>5 DEF Lent, Of
  <2>8. ASSUME NEW c \in Callers, Left(c)', c \in subscribers'
        PROVE  Left(c) /\ c \in subscribers
    <3>1. D \in SUBSET Callers
      BY <1>5
    <3>2. c \notin D
      <4>1. ASSUME c \in D PROVE FALSE
        <5>1. call[c].op = m.op /\ call'[c].op = call[c].op /\ c = m.who
          BY <2>1, <2>2, <2>4, <3>1, <4>1, SignalFields DEF IInv
        <5>2. m.op = "unsubscribe"
          BY <2>8, <5>1 DEF Left
        <5>3. subscribers' = subscribers \ {m.who}
          BY <1>6, <5>2 DEF ProcessLocal
        <5> QED BY <2>8, <5>1, <5>3
      <4> QED BY <4>1
    <3>3. call'[c] = call[c]
      BY <2>1, <2>2, <3>1, <3>2, SignalFields DEF IInv
    <3>4. Left(c)
      BY <2>8, <3>3 DEF Left
    <3>5. c # m.who
      BY <1>1, <1>4, <2>3, <3>4 DEF UInv, LeftInv, Of, Lent
    <3>6. subscribers' \in {subscribers, subscribers \cup {m.who}, subscribers \ {m.who}}
      BY <1>6 DEF ProcessLocal, LocalOps
    <3> QED BY <2>8, <3>4, <3>5, <3>6
  <2> QED BY <1>1, <1>2, <1>4, <2>1, <2>2, <2>4, <2>5, <2>6, <2>7, <2>8, SignalLends, Zenon
<1>7. ASSUME call' = call, cmd_timeouts' = cmd_timeouts,
             \A c \in Callers : Left(c) /\ c \in subscribers' => c \in subscribers
      PROVE  UInv'
  <2>1. /\ {} \in SUBSET Elems(cmd_timeouts)
        /\ Elems(cmd_timeouts') = Elems(cmd_timeouts) \ {}
    BY <1>7 DEF Elems
  <2>2. \A c \in Callers : Left(c)' => Left(c)
    BY <1>7 DEF Left
  <2> QED BY <1>1, <1>2, <1>4, <1>7, <2>1, <2>2, SignalLends, Zenon
<1>8. ASSUME m \in Requests, m.op \in LocalOps, ProcessLocal(m), ~m.timed
      PROVE  UInv'
  <2>1. \A c \in Callers : Left(c) => c # m.who
    BY <1>1, <1>4, <1>8 DEF UInv, LeftInv, Of
  <2>2. subscribers' \in {subscribers, subscribers \cup {m.who}, subscribers \ {m.who}}
    BY <1>8 DEF ProcessLocal, LocalOps
  <2>3. call' = call /\ cmd_timeouts' = cmd_timeouts
    BY <1>8 DEF ProcessLocal
  <2> QED BY <1>7, <2>1, <2>2, <2>3
<1>9. ASSUME m.op = "#", ProcessReturnCode(m)
      PROVE  UInv'
  <2>1. m.of = "publish" /\ m.rc = "ok"
    BY <1>3, <1>9 DEF ReturnCodes
  <2>2. TimeoutComplete("publish", "ok") /\ subscribers' = subscribers
    BY <1>9, <2>1 DEF ProcessReturnCode
  <2>3. PICK D \in SUBSET Elems(cmd_timeouts) :
          /\ Elems(cmd_timeouts') = Elems(cmd_timeouts) \ D
          /\ call' = Signal(D, "ok") \/ (D = {} /\ call' = call)
          /\ \A c \in D : call[c].op = "publish"
    BY <1>5, <2>2, TimeoutCompleteElems, Zenon
  <2>4. \A i \in 1..Len(msg_pend') : Lent(msg_pend'[i]) => msg_pend'[i].who \notin D
    <3>1. \A i \in 1..Len(msg_pend') : Lent(msg_pend'[i]) => call[msg_pend'[i].who].op \in LocalOps
      BY <1>1, <1>4 DEF UInv, RequestInv, LentInv, Lent
    <3> QED BY <2>3, <3>1 DEF LocalOps
  <2>5. \A c \in Callers : Left(c)' => Left(c)
    <3>1. D \in SUBSET Callers
      BY <1>5
    <3>2. /\ \A c \in Callers \ D : call'[c] = call[c]
          /\ \A c \in D : call'[c].op = call[c].op
      BY <2>3, <3>1, SignalFields DEF IInv
    <3> QED BY <2>3, <3>2 DEF Left
  <2> QED BY <1>1, <1>2, <1>4, <2>2, <2>3, <2>4, <2>5, SignalLends, Zenon
<1>10. ASSUME ProcessPublish(m) PROVE UInv'
  BY <1>7, <1>10 DEF ProcessPublish
<1>11. m.op \in LocalOps => m.timed \in BOOLEAN /\ m \in Requests
  BY <1>3 DEF LocalOps, Requests
<1> QED BY <1>2, <1>6, <1>8, <1>9, <1>10, <1>11

\* The other steps of the frontend thread, the device and jsdrv_finalize
LEMMA QuietLends ==
    ASSUME IInv, UInv,
           \/ Tick \/ Loop \/ HandleBackendMsg \/ HandleCmdNone \/ ProcessDone
           \/ DeviceStep \/ FinalizeStep \/ UNCHANGED vars
    PROVE  UInv'
<1>0. /\ msg_cmd \in Seq(Requests \cup Finalizations) /\ msg_backend \in Seq(ReturnCodes)
      /\ msg_pend \in Seq(Requests \cup ReturnCodes)
  BY Zenon DEF IInv, TypeOK
<1>1. /\ UNCHANGED <<call, cmd_timeouts, subscribers>>
      /\ Elems(cmd_timeouts') = Elems(cmd_timeouts)
  <2>1. UNCHANGED <<call, cmd_timeouts, subscribers>>
    BY DEF Tick, Loop, HandleBackendMsg, HandleCmdNone, ProcessDone, DeviceStep, DeviceRespond,
           DeviceDrop, FinalizeStep, FinalizeBegin, FinalizePush, FinalizeFree, vars
  <2> QED BY <2>1
<1>2. /\ Len(msg_cmd) \in Nat /\ Len(msg_pend) \in Nat
      /\ \A i \in 1..Len(msg_cmd') : (i \in 1..Len(msg_cmd) /\ msg_cmd'[i] = msg_cmd[i])
             \/ (msg_cmd'[i] \notin Requests /\ ~msg_cmd'[i].timed)
  <2>1. CASE FinalizePush
    <3> DEFINE f == [op |-> "finalize", timed |-> FALSE]
    <3>1. f \in Finalizations /\ f \notin Requests /\ ~f.timed
      BY NotRequests, Zenon DEF Finalizations
    <3> HIDE DEF f
    <3>3. msg_cmd' = Append(msg_cmd, f)
      BY <2>1, Zenon DEF FinalizePush, f
    <3>2. /\ Len(msg_cmd') = Len(msg_cmd) + 1 /\ Len(msg_cmd) \in Nat
          /\ \A i \in 1..Len(msg_cmd) : msg_cmd'[i] = msg_cmd[i]
          /\ msg_cmd'[Len(msg_cmd) + 1] = f
      BY <1>0, <3>1, <3>3, AppendIs, LenIs
    <3> QED BY <3>1, <3>2, QueueElems DEF IInv
  <2>2. CASE FinalizeFree
    BY <2>2, QueueElems DEF FinalizeFree, IInv
  <2>3. CASE msg_cmd' = msg_cmd
    BY <2>3, QueueElems DEF IInv
  <2> QED
    BY <2>1, <2>2, <2>3 DEF Tick, Loop, HandleBackendMsg, HandleCmdNone, ProcessDone, DeviceStep,
       DeviceRespond, DeviceDrop, FinalizeStep, FinalizeBegin, vars
<1>3. \A i \in 1..Len(msg_pend') : (i \in 1..Len(msg_pend) /\ msg_pend'[i] = msg_pend[i])
          \/ msg_pend'[i] \notin Requests
  <2>1. CASE HandleBackendMsg /\ msg_backend # <<>>
    <3>1. Head(msg_backend) \in ReturnCodes
      BY <1>0, <2>1, HeadTailIs
    <3>2. Head(msg_backend) \notin Requests
      BY <3>1, NotRequests
    <3>4. msg_pend' = Append(msg_pend, Head(msg_backend))
      BY <2>1 DEF HandleBackendMsg
    <3>3. /\ Len(msg_pend') = Len(msg_pend) + 1 /\ Len(msg_pend) \in Nat
          /\ \A i \in 1..Len(msg_pend) : msg_pend'[i] = msg_pend[i]
          /\ msg_pend'[Len(msg_pend) + 1] = Head(msg_backend)
      BY <1>0, <3>1, <3>4, AppendIs, LenIs
    <3> QED BY <3>2, <3>3
  <2>2. CASE msg_pend' = msg_pend
    BY <2>2
  <2> QED
    BY <2>1, <2>2 DEF Tick, Loop, HandleBackendMsg, HandleCmdNone, ProcessDone, DeviceStep,
       DeviceRespond, DeviceDrop, FinalizeStep, FinalizeBegin, FinalizePush, FinalizeFree, vars
<1>4. frontend' \in {"loop", "timeouts", "exit", "exited"} => msg_pend' = <<>>
  <2>1. CASE Loop
    BY <2>1 DEF Loop, UInv, OrderInv, PendEmpty
  <2>2. CASE HandleBackendMsg
    BY <2>2 DEF HandleBackendMsg
  <2>3. CASE HandleCmdNone \/ ProcessDone
    BY <2>3 DEF HandleCmdNone, ProcessDone
  <2>4. CASE frontend' = frontend /\ msg_pend' = msg_pend
    BY <2>4 DEF UInv, OrderInv, PendEmpty
  <2> QED
    BY <2>1, <2>2, <2>3, <2>4 DEF Tick, DeviceStep, DeviceRespond, DeviceDrop, FinalizeStep,
       FinalizeBegin, FinalizePush, FinalizeFree, vars
<1>5. RequestInv'
  <2>1. CallsOwn'
    BY <1>1 DEF UInv, RequestInv, CallsOwn
  <2>2. CmdsOwn'
    BY <1>1, <1>2 DEF UInv, RequestInv, CmdsOwn
  <2>3. PendsOwn'
    BY <1>3 DEF UInv, RequestInv, PendsOwn
  <2>4. LentInv'
    BY <1>1, <1>3 DEF UInv, RequestInv, LentInv, Lent
  <2> QED BY <2>1, <2>2, <2>3, <2>4 DEF RequestInv
<1>6. OrderInv'
  <2>1. ASSUME NEW i \in 1..Len(msg_cmd'), NEW j \in 1..Len(msg_cmd'), i < j, msg_cmd'[i].timed
        PROVE  ~Of(msg_cmd'[j], msg_cmd'[i].who)
    BY <1>2, <2>1 DEF UInv, OrderInv, CmdOrder, Of
  <2>2. ASSUME NEW i \in 1..Len(msg_pend'), NEW j \in 1..Len(msg_pend'), i < j, Lent(msg_pend'[i])
        PROVE  ~Of(msg_pend'[j], msg_pend'[i].who)
    BY <1>3, <2>2 DEF UInv, OrderInv, PendOrder, Of, Lent
  <2>3. ASSUME NEW i \in 1..Len(msg_pend'), NEW j \in 1..Len(msg_cmd'), Lent(msg_pend'[i])
        PROVE  ~Of(msg_cmd'[j], msg_pend'[i].who)
    BY <1>2, <1>3, <2>3 DEF UInv, OrderInv, BothOrder, Of, Lent
  <2>4. CmdOrder' /\ PendOrder'
    BY <2>1, <2>2 DEF CmdOrder, PendOrder
  <2>5. BothOrder' /\ PendEmpty'
    BY <1>4, <2>3 DEF BothOrder, PendEmpty
  <2> QED BY <2>4, <2>5 DEF OrderInv
<1>7. LeftInv'
  <2>1. \A c \in Callers : Left(c)' => Left(c)
    BY <1>1 DEF Left
  <2> QED BY <1>1, <1>2, <1>3, <2>1 DEF UInv, LeftInv, Of
<1> QED BY <1>5, <1>6, <1>7 DEF UInv

\* Nothing is lent at first.
LEMMA InitLends == Init => UInv
<1> SUFFICES ASSUME Init PROVE UInv
  OBVIOUS
<1>1. \A c \in Callers : call[c].st = "idle" /\ call[c].op = "none"
  BY DEF Init
<1>2. 1..Len(msg_cmd) = {} /\ 1..Len(msg_pend) = {} /\ msg_pend = <<>>
  BY DEF Init
<1>3. RequestInv
  BY <1>1, <1>2 DEF RequestInv, CallsOwn, CmdsOwn, PendsOwn, LentInv
<1>4. OrderInv
  BY <1>2 DEF OrderInv, CmdOrder, PendOrder, BothOrder, PendEmpty
<1>5. LeftInv
  BY <1>1 DEF LeftInv, Left
<1> QED BY <1>3, <1>4, <1>5 DEF UInv

\* Every step of every thread keeps what the calls lend alive.
LEMMA NextLends == OwnTopics /\ IInv /\ UInv /\ [Next]_vars => UInv'
<1> SUFFICES ASSUME OwnTopics, IInv, UInv, [Next]_vars PROVE UInv'
  OBVIOUS
<1>1. CASE FrontendStep
  BY <1>1, QuietLends, HandleCmdMsgLends, ProcessMsgLends, TimeoutLends DEF FrontendStep
<1>2. CASE Tick \/ DeviceStep \/ FinalizeStep \/ UNCHANGED vars
  BY <1>2, QuietLends
<1>3. ASSUME NEW c \in Callers, CallerStep(c) PROVE UInv'
  BY <1>3, BeginReturnLends, PushCmdLends DEF CallerStep
<1> QED BY <1>1, <1>2, <1>3 DEF Next

\* For any callers whose topics differ, and any timeouts and number of calls: a query that
\* is still pending belongs to a call that is still blocked, so process_msg writes to a
\* value that exists; and a caller whose jsdrv_unsubscribe succeeded is not subscribed, so
\* its callback is not called any more.
THEOREM LentWhileBlocked == OwnTopics => (Spec => []NothingUsedAfterReturn)
<1> SUFFICES ASSUME OwnTopics PROVE Spec => []NothingUsedAfterReturn
  OBVIOUS
<1>1. IInv /\ UInv => NothingUsedAfterReturn
  <2> SUFFICES ASSUME IInv, UInv PROVE NothingUsedAfterReturn
    OBVIOUS
  <2>1. QueryValueAlive
    <3> SUFFICES ASSUME NEW i \in 1..Len(msg_pend), msg_pend[i].op = "query"
                 PROVE  call[msg_pend[i].who].st = "wait" /\ call[msg_pend[i].who].n = msg_pend[i].n
      BY DEF QueryValueAlive
    <3>1. msg_pend[i] \in Requests
      BY QueueElems DEF IInv, ReturnCodes
    <3>2. Lent(msg_pend[i])
      BY <3>1 DEF Lent, LocalOps, UInv, RequestInv, PendsOwn
    <3> QED BY <3>2 DEF UInv, RequestInv, LentInv, IInv, RecordsInv
  <2>2. UnsubscribeIsFinal
    BY DEF UnsubscribeIsFinal, UInv, LeftInv, Left
  <2> QED BY <2>1, <2>2 DEF NothingUsedAfterReturn
<1>2. Init => UInv
  BY InitLends
<1>3. IInv /\ UInv /\ [Next]_vars => UInv'
  BY NextLends
<1> QED BY <1>1, <1>2, <1>3, Inductive, PTL DEF Spec
==============================================================================

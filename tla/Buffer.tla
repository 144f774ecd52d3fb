------------------------------- MODULE Buffer -------------------------------
(* One stream buffer of the memory buffer manager (src/buffer.c): the        *)
(* callbacks that the frontend thread runs (_buffer_add, _buffer_remove,     *)
(* _buffer_recv, _buffer_recv_data), the command queue they fill, and the    *)
(* thread that empties it.  What the thread sends comes back to the frontend *)
(* in order (fq): it subscribes and unsubscribes the data topics and         *)
(* publishes the list of signals.  What a signal stores is BufferSignal's    *)
(* matter; here a signal has a header once data came (hdr), and memory       *)
(* (alloc).  Return codes, the info topics and the buffer's own publications,*)
(* which come back to it and are ignored, are left out.                      *)
EXTENDS Integers, Sequences, FiniteSets, TLAPS

CONSTANTS
    Signals,        \* signal ids
    Topics,         \* data topics
    Unsupported,    \* the topics whose element type the buffer cannot store
    Ids,            \* (rsp_topic, rsp_id) of requests
    Offered,        \* the commands that the application gives, some of Commands
    NoTopic,        \* no topic, none of Topics
    CreateFails,    \* the thread may not be created
    SlowJoin,       \* the thread may need more than a second to end
    MaxCmds,        \* bound: commands of the application
    MaxData,        \* bound: data messages
    MaxQ            \* bound: commands and data come only into a shorter queue

\* What the application publishes below m/BBB
Commands ==
    [cmd : {"add", "remove"}, sig : Signals]
    \cup [cmd : {"topic"}, sig : Signals, topic : Topics]
    \cup [cmd : {"req"}, sig : Signals, id : Ids]
    \cup [cmd : {"size", "hold"}, on : BOOLEAN]
    \cup {[cmd |-> "clear"]}

\* A list of the set S
Lists(S) == {o \in [1..Cardinality(S) -> S] : \A s \in S : \E i \in 1..Cardinality(S) : o[i] = s}

\* There are finitely many signals, so that any of them can be listed.
ASSUME BufferAssumption ==
    /\ NoTopic \notin Topics /\ Offered \subseteq Commands
    /\ \A S \in SUBSET Signals : Cardinality(S) \in Nat /\ Lists(S) # {}

VARIABLES
    alive,      \* cmd_q is not NULL
    q,          \* cmd_q
    fq,         \* jsdrvp_backend_send: what the frontend has not handled yet
    ctl,        \* _buffer_recv is subscribed
    subs,       \* the subscriptions <<signal, topic>> of _buffer_recv_data
    list,       \* the retained g/list
    removing,   \* the frontend thread is in _buffer_remove_inner
    th,         \* where the buffer thread is
    exit,       \* do_exit
    st,         \* state
    hold,       \* hold
    sig,        \* signals
    pend,       \* req_pending
    cmds, datas \* bounds

front == <<ctl, subs, list>>
mine == <<exit, st, hold, sig, pend>>
bounds == <<cmds, datas>>
vars == <<alive, q, fq, front, removing, th, mine, bounds>>

Fresh == [s \in Signals |->
            [active |-> FALSE, topic |-> NoTopic, hdr |-> NoTopic, alloc |-> FALSE]]
Active(g) == {s \in Signals : g[s].active}

Sub(s, t) == <<[op |-> "sub", sig |-> s, topic |-> t]>>
Unsub(s, t) == IF t = NoTopic THEN <<>> ELSE <<[op |-> "unsub", sig |-> s, topic |-> t]>>
List(g) == <<[op |-> "list", active |-> Active(g)]>>
UnsubAll(g, S) ==
    LET order == CHOOSE o \in Lists({s \in S : g[s].topic # NoTopic}) : TRUE IN
    [i \in DOMAIN order |-> [op |-> "unsub", sig |-> order[i], topic |-> g[order[i]].topic]]

Init ==
    /\ alive = FALSE /\ q = <<>> /\ fq = <<>> /\ ctl = FALSE /\ subs = {} /\ list = {}
    /\ removing = FALSE /\ th = "none" /\ exit = FALSE /\ st = "idle" /\ hold = FALSE
    /\ sig = Fresh /\ pend = <<>> /\ cmds = 0 /\ datas = 0

------------------------------------------------------------------------------
(* The frontend thread                                                      *)

Free == ~removing

\* A subscribe, an unsubscribe or a publication that the buffer sent
Frontend ==
    /\ Free /\ fq # <<>>
    /\ fq' = Tail(fq)
    /\ LET m == Head(fq) IN
       CASE m.op = "ctl" -> ctl' = m.on /\ UNCHANGED <<subs, list>>
         [] m.op = "sub" -> subs' = subs \cup {<<m.sig, m.topic>>} /\ UNCHANGED <<ctl, list>>
         [] m.op = "unsub" -> subs' = subs \ {<<m.sig, m.topic>>} /\ UNCHANGED <<ctl, list>>
         [] m.op = "list" -> list' = m.active /\ UNCHANGED <<ctl, subs>>
    /\ UNCHANGED <<alive, q, removing, th, mine, bounds>>

\* _buffer_add.  A thread that cannot be created leaves a buffer without one.
Add ==
    /\ Free /\ ~alive /\ cmds < MaxCmds /\ cmds' = cmds + 1
    /\ alive' = TRUE /\ q' = <<>>
    /\ exit' = FALSE /\ st' = "idle" /\ hold' = FALSE /\ sig' = Fresh /\ pend' = <<>>
    /\ fq' = Append(fq, [op |-> "ctl", on |-> TRUE])
    /\ th' \in {"poll"} \cup (IF CreateFails THEN {"none"} ELSE {})
    /\ UNCHANGED <<front, removing, datas>>

\* _buffer_remove_inner up to jsdrv_thread_join, also for every buffer in
\* jsdrv_buffer_finalize
RemoveBuffer ==
    /\ Free /\ alive
    /\ removing' = TRUE
    /\ fq' = Append(fq, [op |-> "ctl", on |-> FALSE])
    /\ q' = Append(q, [cmd |-> "finalize"])
    /\ UNCHANGED <<alive, front, th, mine, bounds>>

\* ... and from there.  msg_queue_finalize frees what is still queued.
Removed ==
    /\ removing /\ (th \in {"none", "done"} \/ SlowJoin)
    /\ removing' = FALSE
    /\ alive' = FALSE /\ q' = <<>>
    /\ UNCHANGED <<fq, front, th, mine, bounds>>

\* _buffer_recv
Recv(c) ==
    /\ Free /\ ctl /\ cmds < MaxCmds /\ Len(q) < MaxQ /\ cmds' = cmds + 1
    /\ q' = IF alive THEN Append(q, c) ELSE q
    /\ UNCHANGED <<alive, fq, front, removing, th, mine, datas>>

\* _buffer_recv_data.  It reads hold and cmd_q, which belong to others.
RecvData(s, t) ==
    /\ Free /\ <<s, t>> \in subs /\ datas < MaxData /\ Len(q) < MaxQ /\ datas' = datas + 1
    /\ q' = IF alive /\ ~hold THEN Append(q, [cmd |-> "data", sig |-> s, topic |-> t]) ELSE q
    /\ UNCHANGED <<alive, fq, front, removing, th, mine, cmds>>

------------------------------------------------------------------------------
(* The buffer thread                                                        *)

\* buffer_free
Freed(g) == [s \in Signals |-> [g[s] EXCEPT !.hdr = NoTopic, !.alloc = FALSE]]
AfterFree(state) == IF state = "active" THEN "await" ELSE state

\* bufsig_unsub
Dropped(g, S) ==
    [s \in Signals |-> IF s \in S THEN [g[s] EXCEPT !.topic = NoTopic, !.active = FALSE] ELSE g[s]]

\* await_check
AllSeen(g) == \A s \in Active(g) : g[s].hdr # NoTopic

\* buffer_alloc.  jsdrv_bufsig_alloc fails only for an element type that is not
\* supported, and the signals with one are dropped before.
Bad(g) == {s \in Active(g) : g[s].hdr \in Unsupported}

AllocTo(g) ==
    LET kept == Dropped(g, Bad(g)) IN
    [s \in Signals |-> [kept[s] EXCEPT !.alloc = kept[s].active]]

AllocSends(g) == IF Bad(g) = {} THEN <<>> ELSE UnsubAll(g, Bad(g)) \o List(AllocTo(g))

\* A data message: u32_a is the signal
HandleData(m) ==
    LET g == [sig EXCEPT ![m.sig].hdr = m.topic] IN
    \/ /\ st = "idle" /\ UNCHANGED <<fq, st, sig>>
    \/ /\ st = "active" /\ sig' = g /\ UNCHANGED <<fq, st>>
    \/ /\ st = "await" /\ ~AllSeen(g) /\ sig' = g /\ UNCHANGED <<fq, st>>
    \/ /\ st = "await" /\ AllSeen(g)
       /\ sig' = AllocTo(g) /\ fq' = fq \o AllocSends(g) /\ st' = "active"

\* a/!add
HandleAdd(s) ==
    IF sig[s].active THEN UNCHANGED <<fq, st, sig>>
    ELSE /\ sig' = [Freed(sig) EXCEPT ![s].active = TRUE]
         /\ fq' = fq \o List(sig') /\ st' = AfterFree(st)

\* a/!remove
HandleRemove(s) ==
    /\ sig' = Freed(Dropped(sig, {s})) /\ st' = AfterFree(st)
    /\ fq' = fq \o Unsub(s, sig[s].topic) \o List(sig')

\* Faulty: the old topic stays subscribed.
SetTopicOnly(s, t) ==
    /\ sig' = [sig EXCEPT ![s].topic = t]
    /\ fq' = fq \o Sub(s, t)
    /\ UNCHANGED st

\* s/NNN/topic: bufsig_sub
HandleTopic(s, t) ==
    /\ sig' = [sig EXCEPT ![s].topic = t]
    /\ fq' = fq \o Unsub(s, sig[s].topic) \o Sub(s, t)
    /\ UNCHANGED st

\* s/NNN/!req: a pending request with the same response topic and id is replaced
Post(s, i) ==
    pend' = IF \E n \in DOMAIN pend : pend[n] = <<s, i>> THEN pend ELSE Append(pend, <<s, i>>)

\* g/size, g/hold and g/!clear
HandleGlobal(m) ==
    LET clears == m.cmd # "hold" \/ (hold /\ ~m.on) IN
    /\ hold' = IF m.cmd = "hold" THEN m.on ELSE hold
    /\ sig' = IF clears THEN Freed(sig) ELSE sig
    /\ st' = IF m.cmd = "size" THEN IF m.on THEN "await" ELSE "idle"
             ELSE IF clears THEN AfterFree(st) ELSE st

\* Faulty: the request to end is handled like any other command.
FinalizeMissed == UNCHANGED <<exit, th>>

\* JSDRV_MSG_FINALIZE ends the loop over the queue.
Finalize == exit' = TRUE /\ th' = "req"

\* handle_cmd_q
HandleCmd ==
    /\ th = "drain" /\ q # <<>>
    /\ LET m == Head(q) IN
       /\ q' = Tail(q)
       /\ \/ m.cmd = "data" /\ HandleData(m) /\ UNCHANGED <<exit, hold, pend, th>>
          \/ m.cmd = "add" /\ HandleAdd(m.sig) /\ UNCHANGED <<exit, hold, pend, th>>
          \/ m.cmd = "remove" /\ HandleRemove(m.sig) /\ UNCHANGED <<exit, hold, pend, th>>
          \/ m.cmd = "topic" /\ HandleTopic(m.sig, m.topic) /\ UNCHANGED <<exit, hold, pend, th>>
          \/ m.cmd = "req" /\ Post(m.sig, m.id) /\ UNCHANGED <<exit, hold, sig, st, fq, th>>
          \/ m.cmd \in {"size", "hold", "clear"} /\ HandleGlobal(m) /\ UNCHANGED <<exit, pend, fq, th>>
          \/ m.cmd = "finalize" /\ Finalize /\ UNCHANGED <<hold, pend, sig, st, fq>>
    /\ UNCHANGED <<alive, front, removing, bounds>>

\* poll, and the end of the loop over the queue
Poll ==
    /\ th = "poll" /\ th' = "drain"
    /\ UNCHANGED <<alive, q, fq, front, removing, mine, bounds>>

Drained ==
    /\ th = "drain" /\ q = <<>> /\ th' = "req"
    /\ UNCHANGED <<alive, q, fq, front, removing, mine, bounds>>

\* req_handle_one, and the loop of buffer_thread.  The request is answered when
\* its signal is active and has memory, and is dropped otherwise.
HandleOne ==
    /\ th = "req"
    /\ pend' = IF pend = <<>> THEN pend ELSE Tail(pend)
    /\ th' = IF exit THEN "exit" ELSE IF pend' # <<>> THEN "drain" ELSE "poll"
    /\ UNCHANGED <<alive, q, fq, front, removing, exit, st, hold, sig, bounds>>

\* The end of buffer_thread
Exit ==
    /\ th = "exit" /\ th' = "done"
    /\ LET S == {s \in Signals : sig[s].topic # NoTopic} IN
       /\ fq' = fq \o UnsubAll(sig, S)
       /\ sig' = [s \in Signals |-> IF s \notin S THEN sig[s] ELSE
                    [sig[s] EXCEPT !.topic = NoTopic, !.hdr = NoTopic, !.alloc = FALSE]]
    /\ pend' = <<>>
    /\ UNCHANGED <<alive, q, front, removing, exit, st, hold, bounds>>

Thread == Poll \/ HandleCmd \/ Drained \/ HandleOne \/ Exit

Next ==
    \/ Frontend \/ Add \/ RemoveBuffer \/ Removed \/ Thread
    \/ \E c \in Offered : Recv(c)
    \/ \E s \in Signals, t \in Topics : RecvData(s, t)

Spec == Init /\ [][Next]_vars

\* Both threads run; the application and the device do what they like.
FairSpec == Spec /\ WF_vars(Thread) /\ WF_vars(Frontend) /\ WF_vars(Removed)

------------------------------------------------------------------------------
\* What the buffer sends to the frontend
Messages ==
    [op : {"ctl"}, on : BOOLEAN] \cup [op : {"sub", "unsub"}, sig : Signals, topic : Topics]
    \cup [op : {"list"}, active : SUBSET Signals]

\* What may be in cmd_q
Queued == Commands \cup [cmd : {"data"}, sig : Signals, topic : Topics] \cup {[cmd |-> "finalize"]}

MaybeTopic == Topics \cup {NoTopic}
SignalStates == [Signals -> [active : BOOLEAN, topic : MaybeTopic, hdr : MaybeTopic, alloc : BOOLEAN]]

\* The types of the state; idle, await and active are the states of buffer_s.
TypeOK ==
    /\ alive \in BOOLEAN /\ q \in Seq(Queued) /\ fq \in Seq(Messages)
    /\ ctl \in BOOLEAN /\ subs \subseteq Signals \X Topics /\ list \subseteq Signals
    /\ removing \in BOOLEAN /\ th \in {"none", "poll", "drain", "req", "exit", "done"}
    /\ exit \in BOOLEAN /\ st \in {"idle", "await", "active"} /\ hold \in BOOLEAN
    /\ sig \in SignalStates
    /\ pend \in Seq(Signals \X Ids) /\ cmds \in Nat /\ datas \in Nat

\* The memory of the signals follows the state: while the buffer is active every
\* signal of the list has a header and memory, and otherwise none has, so that
\* neither a block nor a request meets a signal half set up.
AllocationFollowsState ==
    th # "done" => \A s \in Signals : sig[s].alloc <=> st = "active" /\ sig[s].active

\* "Clear all signals": a thread that ended leaves no memory behind.
NothingLeaks == th = "done" => \A s \in Signals : ~sig[s].alloc

\* The thread goes to poll only when no request is pending: one that is not
\* answered does not hold up the ones behind it.
NoRequestForgotten == th = "poll" => pend = <<>>

\* Once the frontend has handled what the buffer sent, it delivers to a signal
\* the data of its topic and of no other, lists the signals that are active, and
\* after a remove, however often the buffer comes and goes, nothing is subscribed.
SubscriptionsFollow ==
    fq = <<>> /\ ~removing =>
        /\ subs = {<<s, sig[s].topic>> : s \in {x \in Signals : sig[x].topic # NoTopic}}
        /\ ctl = alive
        /\ alive /\ Active(sig) # {} => list = Active(sig)

\* The queue is freed when the thread that reads it has ended.
QueueOutlivesThread == ~alive => th \in {"none", "done"}

\* The buffer and what it lets others see agree: its memory with its state, the poll with
\* the requests, the frontend's subscriptions with the signals, the life of the queue with
\* the thread's (buffer.c).
BufferAgrees == AllocationFollowsState /\ NoRequestForgotten /\ SubscriptionsFollow /\ QueueOutlivesThread

\* "clear on 1->0": with hold on, what was stored stays as it is.
HoldFreezes == [][hold /\ hold' => \A s \in Signals : sig'[s].hdr = sig[s].hdr \/ ~sig'[s].active]_vars

\* Removing a buffer, which blocks the frontend thread, ends.
RemoveCompletes == []<>~removing

------------------------------------------------------------------------------
(* Proofs.  SubscriptionsFollow is about the moments when fq is empty.  The  *)
(* inductive invariant says at any moment what the frontend will have when it *)
(* has handled fq: a message that sets something counts when none that unsets *)
(* it follows, and what is set now counts when none unsets it.                *)

\* A sequence is a function on 1..Len.
LEMMA LenIs ==
    ASSUME NEW S, NEW s \in Seq(S)
    PROVE  Len(s) \in Nat /\ s \in [1..Len(s) -> S] /\ DOMAIN s = 1..Len(s)
OBVIOUS

\* Only the empty sequence has no element.
LEMMA EmptyIs ==
    ASSUME NEW S
    PROVE  <<>> \in Seq(S) /\ Len(<<>>) = 0 /\ \A s \in Seq(S) : s # <<>> => Len(s) \in Nat \ {0}
OBVIOUS

\* What msg_queue_push leaves: the old elements and the new one.
LEMMA AppendIs ==
    ASSUME NEW S, NEW s \in Seq(S), NEW e \in S
    PROVE  /\ Append(s, e) \in Seq(S) /\ Append(s, e) # <<>> /\ Len(Append(s, e)) = Len(s) + 1
           /\ \A i \in 1..Len(s) : Append(s, e)[i] = s[i]
           /\ Append(s, e)[Len(s) + 1] = e
OBVIOUS

\* What msg_queue_pop takes and leaves.
LEMMA HeadTailIs ==
    ASSUME NEW S, NEW s \in Seq(S), s # <<>>
    PROVE  /\ Head(s) \in S /\ Tail(s) \in Seq(S) /\ Len(Tail(s)) = Len(s) - 1
           /\ \A i \in 1..Len(Tail(s)) : Tail(s)[i] = s[i + 1]
OBVIOUS

\* Concatenation, element by element
LEMMA ConcatIs ==
    ASSUME NEW S, NEW s \in Seq(S), NEW t \in Seq(S)
    PROVE  /\ s \o t \in Seq(S) /\ Len(s \o t) = Len(s) + Len(t)
           /\ \A i \in 1..(Len(s) + Len(t)) : (s \o t)[i] = IF i <= Len(s) THEN s[i] ELSE t[i - Len(s)]
OBVIOUS

\* One message more is a sequence of one message more.
LEMMA AppendConcat ==
    ASSUME NEW S, NEW s \in Seq(S), NEW e \in S
    PROVE  Append(s, e) = s \o <<e>>
OBVIOUS

\* Concatenation is associative, with the empty sequence as its unit.
LEMMA ConcatAssoc ==
    ASSUME NEW S, NEW s \in Seq(S), NEW t \in Seq(S), NEW u \in Seq(S)
    PROVE  (s \o t) \o u = s \o (t \o u)
OBVIOUS

LEMMA ConcatEmpty ==
    ASSUME NEW S, NEW s \in Seq(S)
    PROVE  s \o <<>> = s /\ <<>> \o s = s
OBVIOUS

\* Sequences with the same elements are equal.
LEMMA SameElements ==
    ASSUME NEW S, NEW s \in Seq(S), NEW t \in Seq(S), Len(s) = Len(t), \A i \in 1..Len(s) : s[i] = t[i]
    PROVE  s = t
OBVIOUS

\* The messages f set what m sets and U unset.
Begins(f, m, U) == \E i \in 1..Len(f) : f[i] = m /\ \A j \in (i + 1)..Len(f) : f[j] \notin U
Keeps(f, U) == \A j \in 1..Len(f) : f[j] \notin U
Will(f, m, U, now) == Begins(f, m, U) \/ (now /\ Keeps(f, U))

SubMsg(s, t) == [op |-> "sub", sig |-> s, topic |-> t]
UnsubMsg(s, t) == [op |-> "unsub", sig |-> s, topic |-> t]
CtlMsg(on) == [op |-> "ctl", on |-> on]
ListMsg(A) == [op |-> "list", active |-> A]
OtherLists(A) == {ListMsg(B) : B \in (SUBSET Signals) \ {A}}

WillSub(f, b, s, t) == Will(f, SubMsg(s, t), {UnsubMsg(s, t)}, <<s, t>> \in b)
WillCtl(f, c) == Will(f, CtlMsg(TRUE), {CtlMsg(FALSE)}, c)
WillList(f, l, A) == Will(f, ListMsg(A), OtherLists(A), l = A)

SubsInv == \A s \in Signals : \A t \in Topics : WillSub(fq, subs, s, t) <=> sig[s].topic = t
CtlInv == (removing => alive) /\ (WillCtl(fq, ctl) <=> alive /\ ~removing)
ListInv == Active(sig) # {} => WillList(fq, list, Active(sig))
ThreadInv ==
    /\ th \in {"none", "done"} => \A s \in Signals : sig[s].topic = NoTopic
    /\ AllocationFollowsState /\ NoRequestForgotten /\ QueueOutlivesThread

IInv == TypeOK /\ SubsInv /\ CtlInv /\ ListInv /\ ThreadInv

\* What messages at the end do: u after f.
LEMMA WillConcat ==
  ASSUME NEW M, NEW f \in Seq(M), NEW u \in Seq(M), NEW m, NEW U, NEW now \in BOOLEAN
  PROVE  Will(f \o u, m, U, now) <=> Begins(u, m, U) \/ (Will(f, m, U, now) /\ Keeps(u, U))
<1> DEFINE F == Len(f)
           L == Len(u)
           w == f \o u
<1>1. F \in Nat /\ L \in Nat
  BY LenIs
<1>2. /\ Len(w) = F + L
      /\ \A i \in 1..F : w[i] = f[i]
      /\ \A i \in 1..L : w[F + i] = u[i]
  BY <1>1, ConcatIs
<1> HIDE DEF F, L, w
<1>3. ASSUME Begins(w, m, U)
      PROVE  Begins(u, m, U) \/ (Begins(f, m, U) /\ Keeps(u, U))
  <2>1. PICK i \in 1..(F + L) : w[i] = m /\ \A j \in (i + 1)..(F + L) : w[j] \notin U
    BY <1>2, <1>3 DEF Begins, w
  <2>2. CASE i > F
    <3>1. i - F \in 1..L /\ F + (i - F) = i
      BY <1>1, <2>1, <2>2
    <3>2. u[i - F] = m
      BY <1>2, <2>1, <3>1
    <3>3. ASSUME NEW j \in (i - F + 1)..L PROVE u[j] \notin U
      <4>1. F + j \in (i + 1)..(F + L) /\ j \in 1..L
        BY <1>1, <2>1, <3>1
      <4> QED BY <1>2, <2>1, <4>1
    <3> QED BY <3>1, <3>2, <3>3 DEF Begins, L
  <2>3. CASE i <= F
    <3>1. i \in 1..F /\ f[i] = m
      BY <1>1, <1>2, <2>1, <2>3
    <3>2. ASSUME NEW j \in (i + 1)..F PROVE f[j] \notin U
      <4>1. j \in (i + 1)..(F + L) /\ j \in 1..F
        BY <1>1, <2>1
      <4> QED BY <1>2, <2>1, <4>1
    <3>3. ASSUME NEW j \in 1..L PROVE u[j] \notin U
      <4>1. F + j \in (i + 1)..(F + L)
        BY <1>1, <2>1, <2>3
      <4> QED BY <1>2, <2>1, <4>1
    <3> QED BY <3>1, <3>2, <3>3 DEF Begins, Keeps, F, L
  <2> QED BY <1>1, <2>1, <2>2, <2>3
<1>4. ASSUME Begins(u, m, U) PROVE Begins(w, m, U)
  <2>1. PICK i \in 1..L : u[i] = m /\ \A j \in (i + 1)..L : u[j] \notin U
    BY <1>4 DEF Begins, L
  <2>2. F + i \in 1..(F + L) /\ w[F + i] = m
    BY <1>1, <1>2, <2>1
  <2>3. ASSUME NEW j \in (F + i + 1)..(F + L) PROVE w[j] \notin U
    <3>1. j - F \in (i + 1)..L /\ j - F \in 1..L /\ F + (j - F) = j
      BY <1>1, <2>1
    <3> QED BY <1>2, <2>1, <3>1
  <2> QED BY <1>2, <2>2, <2>3 DEF Begins
<1>5. ASSUME Begins(f, m, U), Keeps(u, U) PROVE Begins(w, m, U)
  <2>1. PICK i \in 1..F : f[i] = m /\ \A j \in (i + 1)..F : f[j] \notin U
    BY <1>5 DEF Begins, F
  <2>2. i \in 1..(F + L) /\ w[i] = m
    BY <1>1, <1>2, <2>1
  <2>3. ASSUME NEW j \in (i + 1)..(F + L) PROVE w[j] \notin U
    <3>1. CASE j <= F
      <4>1. j \in 1..F /\ j \in (i + 1)..F
        BY <1>1, <2>1, <3>1
      <4> QED BY <1>2, <2>1, <4>1
    <3>2. CASE j > F
      <4>1. j - F \in 1..L /\ F + (j - F) = j
        BY <1>1, <2>1, <3>2
      <4> QED BY <1>2, <1>5, <4>1 DEF Keeps, L
    <3> QED BY <1>1, <2>1, <3>1, <3>2
  <2> QED BY <1>2, <2>2, <2>3 DEF Begins
<1>6. Keeps(w, U) <=> Keeps(f, U) /\ Keeps(u, U)
  <2>1. ASSUME Keeps(w, U) PROVE Keeps(f, U) /\ Keeps(u, U)
    <3>1. ASSUME NEW j \in 1..F PROVE f[j] \notin U
      <4>1. j \in 1..(F + L)
        BY <1>1
      <4> QED BY <1>2, <2>1, <4>1 DEF Keeps
    <3>2. ASSUME NEW j \in 1..L PROVE u[j] \notin U
      <4>1. F + j \in 1..(F + L)
        BY <1>1
      <4> QED BY <1>2, <2>1, <4>1 DEF Keeps
    <3> QED BY <3>1, <3>2 DEF Keeps, F, L
  <2>2. ASSUME Keeps(f, U), Keeps(u, U) PROVE Keeps(w, U)
    <3>1. ASSUME NEW j \in 1..(F + L) PROVE w[j] \notin U
      <4>1. CASE j <= F
        <5>1. j \in 1..F
          BY <1>1, <4>1
        <5> QED BY <1>2, <2>2, <5>1 DEF Keeps, F
      <4>2. CASE j > F
        <5>1. j - F \in 1..L /\ F + (j - F) = j
          BY <1>1, <4>2
        <5> QED BY <1>2, <2>2, <5>1 DEF Keeps, L
      <4> QED BY <1>1, <4>1, <4>2
    <3> QED BY <1>2, <3>1 DEF Keeps
  <2> QED BY <2>1, <2>2
<1> QED BY <1>3, <1>4, <1>5, <1>6 DEF Will, w

\* A message at the end
LEMMA WillAppend ==
  ASSUME NEW M, NEW f \in Seq(M), NEW x \in M, NEW m, NEW U, NEW now \in BOOLEAN
  PROVE  /\ f \o <<x>> = Append(f, x)
         /\ Will(Append(f, x), m, U, now) <=> x = m \/ (Will(f, m, U, now) /\ x \notin U)
<1>1. <<x>> \in Seq(M) /\ Len(<<x>>) = 1 /\ <<x>>[1] = x
  OBVIOUS
<1>2. f \o <<x>> = Append(f, x)
  BY AppendConcat
<1>3. Begins(<<x>>, m, U) <=> x = m
  <2>1. 1..1 = {1} /\ (1 + 1)..1 = {}
    OBVIOUS
  <2> QED BY <1>1, <2>1 DEF Begins
<1>4. Keeps(<<x>>, U) <=> x \notin U
  <2>1. 1..1 = {1}
    OBVIOUS
  <2> QED BY <1>1, <2>1 DEF Keeps
<1>5. Will(f \o <<x>>, m, U, now) <=> Begins(<<x>>, m, U) \/ (Will(f, m, U, now) /\ Keeps(<<x>>, U))
  <2> DEFINE v == <<x>>
  <2>1. v \in Seq(M)
    BY <1>1
  <2> HIDE DEF v
  <2>2. Will(f \o v, m, U, now) <=> Begins(v, m, U) \/ (Will(f, m, U, now) /\ Keeps(v, U))
    BY <2>1, WillConcat
  <2> QED BY <2>2 DEF v
<1> QED BY <1>2, <1>3, <1>4, <1>5, Zenon

\* The frontend handles the first message.
LEMMA WillTail ==
  ASSUME NEW M, NEW f \in Seq(M), f # <<>>, NEW m, NEW U, m \notin U, NEW now \in BOOLEAN
  PROVE  Will(f, m, U, now) <=> Will(Tail(f), m, U, Head(f) = m \/ (now /\ Head(f) \notin U))
<1> DEFINE x == Head(f)
           g == Tail(f)
<1>1. /\ x \in M /\ g \in Seq(M) /\ Len(f) \in Nat /\ Len(f) >= 1 /\ Len(g) = Len(f) - 1
      /\ \A i \in 1..Len(g) : g[i] = f[i + 1]
      /\ x = f[1]
  BY HeadTailIs, LenIs, EmptyIs
<1>2. <<x>> \in Seq(M) /\ <<>> \in Seq(M) /\ Len(<<x>>) = 1 /\ <<x>>[1] = x
  BY <1>1
<1> HIDE DEF x, g
<1>6. Append(<<>>, x) = <<x>>
  OBVIOUS
<1> DEFINE v == <<x>>
<1>7. f = v \o g
  <2>1. v \in Seq(M) /\ Len(v) = 1 /\ v[1] = x
    BY <1>2
  <2> HIDE DEF v
  <2>2. /\ v \o g \in Seq(M) /\ Len(v \o g) = Len(f)
        /\ \A i \in 1..Len(f) : (v \o g)[i] = IF i <= 1 THEN v[i] ELSE g[i - 1]
    <3>1. /\ v \o g \in Seq(M) /\ Len(v \o g) = Len(v) + Len(g)
          /\ \A i \in 1..(Len(v) + Len(g)) : (v \o g)[i] = IF i <= Len(v) THEN v[i] ELSE g[i - Len(v)]
      BY <1>1, <2>1, ConcatIs, Zenon
    <3>2. Len(v) + Len(g) = Len(f)
      BY <1>1, <2>1
    <3> QED BY <2>1, <3>1, <3>2
  <2>3. ASSUME NEW i \in 1..Len(f) PROVE f[i] = (v \o g)[i]
    <3>1. CASE i = 1
      BY <1>1, <2>1, <2>2, <3>1
    <3>2. CASE i # 1
      <4>1. i - 1 \in 1..Len(g) /\ (i - 1) + 1 = i /\ ~(i <= 1)
        BY <1>1, <3>2
      <4> QED BY <1>1, <2>2, <4>1
    <3> QED BY <3>1, <3>2, Zenon
  <2> QED BY <2>2, <2>3, SameElements, Zenon
<1>3. Will(v \o g, m, U, now) <=> Begins(g, m, U) \/ (Will(v, m, U, now) /\ Keeps(g, U))
  <2>1. v \in Seq(M)
    BY <1>2
  <2> HIDE DEF v
  <2> QED BY <1>1, <2>1, WillConcat
<1>4. Will(v, m, U, now) <=> x = m \/ (Will(<<>>, m, U, now) /\ x \notin U)
  <2> DEFINE e == <<>>
  <2>1. e \in Seq(M) /\ Append(e, x) = v
    BY <1>2, <1>6
  <2> HIDE DEF e, v
  <2>2. Will(Append(e, x), m, U, now) <=> x = m \/ (Will(e, m, U, now) /\ x \notin U)
    <3>1. x \in M /\ e \in Seq(M)
      BY <1>1, <2>1
    <3> QED BY <3>1, WillAppend
  <2> QED BY <2>1, <2>2 DEF e
<1>5. Will(<<>>, m, U, now) <=> now
  <2>1. Len(<<>>) = 0 /\ 1..0 = {}
    OBVIOUS
  <2> QED BY <2>1 DEF Will, Begins, Keeps
<1> HIDE DEF v
<1> QED BY <1>3, <1>4, <1>5, <1>7, Zenon DEF Will, x, g

\* All messages are handled.
LEMMA WillEmpty ==
  ASSUME NEW m, NEW U, NEW now \in BOOLEAN PROVE Will(<<>>, m, U, now) <=> now
<1>1. Len(<<>>) = 0 /\ 1..0 = {}
  OBVIOUS
<1> QED BY <1>1 DEF Will, Begins, Keeps

------------------------------------------------------------------------------
(* What each message of the buffer does to what the frontend will have       *)

LEMMA MessageTypes ==
  /\ \A s \in Signals : \A t \in Topics : SubMsg(s, t) \in Messages /\ UnsubMsg(s, t) \in Messages
  /\ \A on \in BOOLEAN : CtlMsg(on) \in Messages
  /\ \A A \in SUBSET Signals : ListMsg(A) \in Messages
BY DEF SubMsg, UnsubMsg, CtlMsg, ListMsg, Messages

LEMMA MessagesDiffer ==
  /\ \A s, t, r, v : SubMsg(s, t) # UnsubMsg(r, v)
  /\ \A s, t, on : SubMsg(s, t) # CtlMsg(on) /\ UnsubMsg(s, t) # CtlMsg(on)
  /\ \A s, t, A : SubMsg(s, t) # ListMsg(A) /\ UnsubMsg(s, t) # ListMsg(A)
  /\ \A on, A : CtlMsg(on) # ListMsg(A)
  /\ \A s, t, r, v : (SubMsg(s, t) = SubMsg(r, v) \/ UnsubMsg(s, t) = UnsubMsg(r, v)) => s = r /\ t = v
  /\ \A A, B : ListMsg(A) = ListMsg(B) => A = B
  /\ CtlMsg(TRUE) # CtlMsg(FALSE)
<1>1. /\ \A s, t : SubMsg(s, t).op = "sub" /\ UnsubMsg(s, t).op = "unsub"
      /\ \A on : CtlMsg(on).op = "ctl"
      /\ \A A : ListMsg(A).op = "list"
  BY DEF SubMsg, UnsubMsg, CtlMsg, ListMsg
<1>2. /\ \A s, t : SubMsg(s, t).sig = s /\ SubMsg(s, t).topic = t /\ UnsubMsg(s, t).sig = s /\ UnsubMsg(s, t).topic = t
      /\ \A on : CtlMsg(on).on = on
      /\ \A A : ListMsg(A).active = A
  BY DEF SubMsg, UnsubMsg, CtlMsg, ListMsg
<1>3. "sub" # "unsub" /\ "sub" # "ctl" /\ "sub" # "list" /\ "unsub" # "ctl" /\ "unsub" # "list" /\ "ctl" # "list"
  OBVIOUS
<1>4. CtlMsg(TRUE) # CtlMsg(FALSE)
  <2>1. CtlMsg(TRUE).on /\ ~CtlMsg(FALSE).on
    BY DEF CtlMsg
  <2> QED BY <2>1, Zenon
<1>5. \A s, t, r, v : SubMsg(s, t) # UnsubMsg(r, v)
  BY <1>1, <1>3
<1>6. \A s, t, on : SubMsg(s, t) # CtlMsg(on) /\ UnsubMsg(s, t) # CtlMsg(on)
  BY <1>1, <1>3
<1>7. \A s, t, A : SubMsg(s, t) # ListMsg(A) /\ UnsubMsg(s, t) # ListMsg(A)
  BY <1>1, <1>3
<1>8. \A on, A : CtlMsg(on) # ListMsg(A)
  BY <1>1, <1>3
<1>9. \A s, t, r, v : (SubMsg(s, t) = SubMsg(r, v) \/ UnsubMsg(s, t) = UnsubMsg(r, v)) => s = r /\ t = v
  BY <1>2
<1>10. \A A, B : ListMsg(A) = ListMsg(B) => A = B
  BY <1>2
<1> QED BY <1>4, <1>5, <1>6, <1>7, <1>8, <1>9, <1>10, Zenon

LEMMA OtherListsHas ==
  ASSUME NEW A \in SUBSET Signals, NEW x
  PROVE  x \in OtherLists(A) <=> \E B \in SUBSET Signals : B # A /\ x = ListMsg(B)
BY DEF OtherLists

\* f and f1 leave the same behind: f1 has other messages at its end.
Same(f, f1, S, c, l) ==
    /\ S => \A b : \A s \in Signals : \A t \in Topics : WillSub(f1, b, s, t) <=> WillSub(f, b, s, t)
    /\ c => \A now \in BOOLEAN : WillCtl(f1, now) <=> WillCtl(f, now)
    /\ l => \A now : \A A \in SUBSET Signals : WillList(f1, now, A) <=> WillList(f, now, A)

LEMMA AfterSub ==
  ASSUME NEW f \in Seq(Messages), NEW r \in Signals, NEW v \in Topics
  PROVE  /\ f \o Sub(r, v) \in Seq(Messages)
         /\ \A b : \A s \in Signals : \A t \in Topics :
              WillSub(f \o Sub(r, v), b, s, t) <=> (s = r /\ t = v) \/ WillSub(f, b, s, t)
         /\ Same(f, f \o Sub(r, v), FALSE, TRUE, TRUE)
<1> DEFINE x == SubMsg(r, v)
<1>1. x \in Messages
  BY MessageTypes
<1>2. Sub(r, v) = <<x>>
  BY DEF Sub, SubMsg
<1>3. \A m : \A U : \A now \in BOOLEAN : Will(Append(f, x), m, U, now) <=> x = m \/ (Will(f, m, U, now) /\ x \notin U)
  BY <1>1, WillAppend
<1>4. f \o <<x>> = Append(f, x) /\ Append(f, x) \in Seq(Messages)
  BY <1>1, AppendConcat, AppendIs
<1>5. ASSUME NEW b, NEW s \in Signals, NEW t \in Topics
      PROVE  WillSub(Append(f, x), b, s, t) <=> (s = r /\ t = v) \/ WillSub(f, b, s, t)
  <2>1. x \notin {UnsubMsg(s, t)} /\ (x = SubMsg(s, t) <=> s = r /\ t = v)
    BY MessagesDiffer
  <2>2. (<<s, t>> \in b) \in BOOLEAN
    OBVIOUS
  <2> QED BY <1>3, <2>1, <2>2, Zenon DEF WillSub
<1>6. ASSUME NEW now \in BOOLEAN PROVE WillCtl(Append(f, x), now) <=> WillCtl(f, now)
  <2>1. x \notin {CtlMsg(FALSE)} /\ x # CtlMsg(TRUE)
    BY MessagesDiffer, Zenon
  <2> QED BY <1>3, <2>1, Zenon DEF WillCtl
<1>7. ASSUME NEW now, NEW A \in SUBSET Signals PROVE WillList(Append(f, x), now, A) <=> WillList(f, now, A)
  <2>1. x \notin OtherLists(A) /\ x # ListMsg(A)
    BY MessagesDiffer, OtherListsHas
  <2>2. (now = A) \in BOOLEAN
    OBVIOUS
  <2> QED BY <1>3, <2>1, <2>2, Zenon DEF WillList
<1> HIDE DEF x
<1> QED BY <1>2, <1>4, <1>5, <1>6, <1>7, Zenon DEF Same

LEMMA AfterUnsub ==
  ASSUME NEW f \in Seq(Messages), NEW r \in Signals, NEW v \in MaybeTopic
  PROVE  /\ f \o Unsub(r, v) \in Seq(Messages)
         /\ \A b : \A s \in Signals : \A t \in Topics :
              WillSub(f \o Unsub(r, v), b, s, t) <=> ~(s = r /\ t = v) /\ WillSub(f, b, s, t)
         /\ Same(f, f \o Unsub(r, v), FALSE, TRUE, TRUE)
<1>0. CASE v = NoTopic
  <2>1. Unsub(r, v) = <<>> /\ f \o <<>> = f
    BY <1>0, ConcatEmpty DEF Unsub
  <2>2. \A t \in Topics : t # v
    BY <1>0, BufferAssumption
  <2> QED BY <2>1, <2>2 DEF Same
<1>a. CASE v # NoTopic
  <2> DEFINE x == UnsubMsg(r, v)
  <2>1. x \in Messages
    BY <1>a, MessageTypes DEF MaybeTopic
  <2>2. Unsub(r, v) = <<x>>
    BY <1>a DEF Unsub, UnsubMsg
  <2>3. \A m : \A U : \A now \in BOOLEAN : Will(Append(f, x), m, U, now) <=> x = m \/ (Will(f, m, U, now) /\ x \notin U)
    BY <2>1, WillAppend
  <2>4. f \o <<x>> = Append(f, x) /\ Append(f, x) \in Seq(Messages)
    BY <2>1, AppendConcat, AppendIs
  <2>5. ASSUME NEW b, NEW s \in Signals, NEW t \in Topics
        PROVE  WillSub(Append(f, x), b, s, t) <=> ~(s = r /\ t = v) /\ WillSub(f, b, s, t)
    <3>1. x # SubMsg(s, t) /\ (x \in {UnsubMsg(s, t)} <=> s = r /\ t = v)
      BY MessagesDiffer
    <3>2. (<<s, t>> \in b) \in BOOLEAN
      OBVIOUS
    <3> QED BY <2>3, <3>1, <3>2, Zenon DEF WillSub
  <2>6. ASSUME NEW now \in BOOLEAN PROVE WillCtl(Append(f, x), now) <=> WillCtl(f, now)
    <3>1. x \notin {CtlMsg(FALSE)} /\ x # CtlMsg(TRUE)
      BY MessagesDiffer, Zenon
    <3> QED BY <2>3, <3>1, Zenon DEF WillCtl
  <2>7. ASSUME NEW now, NEW A \in SUBSET Signals PROVE WillList(Append(f, x), now, A) <=> WillList(f, now, A)
    <3>1. x \notin OtherLists(A) /\ x # ListMsg(A)
      BY MessagesDiffer, OtherListsHas
    <3>2. (now = A) \in BOOLEAN
      OBVIOUS
    <3> QED BY <2>3, <3>1, <3>2, Zenon DEF WillList
  <2> HIDE DEF x
  <2> QED BY <2>2, <2>4, <2>5, <2>6, <2>7, Zenon DEF Same
<1> QED BY <1>0, <1>a, Zenon

LEMMA AfterList ==
  ASSUME NEW f \in Seq(Messages), NEW B \in SUBSET Signals
  PROVE  /\ f \o <<ListMsg(B)>> \in Seq(Messages)
         /\ \A now : WillList(f \o <<ListMsg(B)>>, now, B)
         /\ Same(f, f \o <<ListMsg(B)>>, TRUE, TRUE, FALSE)
<1> DEFINE x == ListMsg(B)
<1>1. x \in Messages
  BY MessageTypes
<1>3. \A m : \A U : \A now \in BOOLEAN : Will(Append(f, x), m, U, now) <=> x = m \/ (Will(f, m, U, now) /\ x \notin U)
  BY <1>1, WillAppend
<1>4. f \o <<x>> = Append(f, x) /\ Append(f, x) \in Seq(Messages)
  BY <1>1, AppendConcat, AppendIs
<1>5. ASSUME NEW b, NEW s \in Signals, NEW t \in Topics
      PROVE  WillSub(Append(f, x), b, s, t) <=> WillSub(f, b, s, t)
  <2>1. x \notin {UnsubMsg(s, t)} /\ x # SubMsg(s, t)
    BY MessagesDiffer
  <2>2. (<<s, t>> \in b) \in BOOLEAN
    OBVIOUS
  <2> QED BY <1>3, <2>1, <2>2, Zenon DEF WillSub
<1>6. ASSUME NEW now \in BOOLEAN PROVE WillCtl(Append(f, x), now) <=> WillCtl(f, now)
  <2>1. x \notin {CtlMsg(FALSE)} /\ x # CtlMsg(TRUE)
    BY MessagesDiffer, Zenon
  <2> QED BY <1>3, <2>1, Zenon DEF WillCtl
<1>7. ASSUME NEW now PROVE WillList(Append(f, x), now, B)
  <2>1. x = ListMsg(B)
    OBVIOUS
  <2>2. (now = B) \in BOOLEAN
    OBVIOUS
  <2> QED BY <1>3, <2>1, <2>2, Zenon DEF WillList
<1>8. /\ f \o <<x>> \in Seq(Messages)
      /\ \A now : WillList(f \o <<x>>, now, B)
      /\ Same(f, f \o <<x>>, TRUE, TRUE, FALSE)
  <2> HIDE DEF x
  <2> QED BY <1>4, <1>5, <1>6, <1>7, Zenon DEF Same
<1> QED BY <1>8, Zenon

LEMMA AfterCtl ==
  ASSUME NEW f \in Seq(Messages), NEW on \in BOOLEAN
  PROVE  /\ Append(f, CtlMsg(on)) \in Seq(Messages)
         /\ \A now \in BOOLEAN : WillCtl(Append(f, CtlMsg(on)), now) <=> on
         /\ Same(f, Append(f, CtlMsg(on)), TRUE, FALSE, TRUE)
<1> DEFINE x == CtlMsg(on)
<1>1. x \in Messages
  BY MessageTypes
<1>3. \A m : \A U : \A now \in BOOLEAN : Will(Append(f, x), m, U, now) <=> x = m \/ (Will(f, m, U, now) /\ x \notin U)
  BY <1>1, WillAppend
<1>4. Append(f, x) \in Seq(Messages)
  BY <1>1, AppendIs
<1>5. ASSUME NEW b, NEW s \in Signals, NEW t \in Topics
      PROVE  WillSub(Append(f, x), b, s, t) <=> WillSub(f, b, s, t)
  <2>1. x \notin {UnsubMsg(s, t)} /\ x # SubMsg(s, t)
    BY MessagesDiffer
  <2>2. (<<s, t>> \in b) \in BOOLEAN
    OBVIOUS
  <2> QED BY <1>3, <2>1, <2>2, Zenon DEF WillSub
<1>6. ASSUME NEW now \in BOOLEAN PROVE WillCtl(Append(f, x), now) <=> on
  <2>1. CASE on
    <3>1. x = CtlMsg(TRUE)
      BY <2>1
    <3> QED BY <1>3, <2>1, <3>1, Zenon DEF WillCtl
  <2>2. CASE ~on
    <3>1. x = CtlMsg(FALSE) /\ x # CtlMsg(TRUE)
      BY <2>2, MessagesDiffer, Zenon
    <3> QED BY <1>3, <2>2, <3>1, Zenon DEF WillCtl
  <2> QED BY <2>1, <2>2
<1>7. ASSUME NEW now, NEW A \in SUBSET Signals PROVE WillList(Append(f, x), now, A) <=> WillList(f, now, A)
  <2>1. x \notin OtherLists(A) /\ x # ListMsg(A)
    BY MessagesDiffer, OtherListsHas
  <2>2. (now = A) \in BOOLEAN
    OBVIOUS
  <2> QED BY <1>3, <2>1, <2>2, Zenon DEF WillList
<1>8. /\ Append(f, x) \in Seq(Messages)
      /\ \A now \in BOOLEAN : WillCtl(Append(f, x), now) <=> on
      /\ Same(f, Append(f, x), TRUE, FALSE, TRUE)
  <2> HIDE DEF x
  <2> QED BY <1>4, <1>5, <1>6, <1>7 DEF Same
<1> QED BY <1>8, Zenon

\* The end of every subscription of the signals S, in any order
LEMMA UnsubAllIs ==
  ASSUME NEW g \in SignalStates, NEW S \in SUBSET Signals
  PROVE  /\ UnsubAll(g, S) \in Seq(Messages)
         /\ \A i \in 1..Len(UnsubAll(g, S)) : \E s \in S : g[s].topic \in Topics /\ UnsubAll(g, S)[i] = UnsubMsg(s, g[s].topic)
         /\ \A s \in S : g[s].topic \in Topics => \E i \in 1..Len(UnsubAll(g, S)) : UnsubAll(g, S)[i] = UnsubMsg(s, g[s].topic)
<1> DEFINE T == {s \in S : g[s].topic # NoTopic}
           n == Cardinality(T)
           o == CHOOSE z \in Lists(T) : TRUE
           u == [i \in 1..n |-> UnsubMsg(o[i], g[o[i]].topic)]
<1>2. \A s \in S : g[s].topic \in MaybeTopic /\ (s \in T <=> g[s].topic \in Topics)
  BY BufferAssumption DEF SignalStates, MaybeTopic
<1>3. n \in Nat /\ Lists(T) # {}
  BY BufferAssumption, Zenon
<1>5. o \in Lists(T)
  BY <1>3
<1>8. o \in [1..n -> T] /\ \A s \in T : \E i \in 1..n : o[i] = s
  <2> HIDE DEF o, T
  <2> QED BY <1>5 DEF Lists
<1> HIDE DEF n, o, T
<1>9. UnsubAll(g, S) = u
  <2>1. DOMAIN o = 1..n
    BY <1>8
  <2> QED BY <2>1 DEF UnsubAll, o, T, UnsubMsg
<1>10. \A i \in 1..n : o[i] \in T /\ o[i] \in S /\ u[i] = UnsubMsg(o[i], g[o[i]].topic) /\ g[o[i]].topic \in Topics
  BY <1>2, <1>8 DEF T
<1>11. \A i \in 1..n : u[i] \in Messages
  BY <1>10, MessageTypes
<1>12. u \in Seq(Messages) /\ Len(u) = n
  <2>1. u \in [1..n -> Messages]
    BY <1>11
  <2> QED BY <1>3, <2>1
<1> HIDE DEF u
<1>13. \A i \in 1..Len(u) : \E s \in S : g[s].topic \in Topics /\ u[i] = UnsubMsg(s, g[s].topic)
  BY <1>10, <1>12
<1>14. \A s \in S : g[s].topic \in Topics => \E i \in 1..Len(u) : u[i] = UnsubMsg(s, g[s].topic)
  BY <1>2, <1>8, <1>10, <1>12
<1> QED BY <1>9, <1>12, <1>13, <1>14

LEMMA AfterUnsubAll ==
  ASSUME NEW f \in Seq(Messages), NEW g \in SignalStates, NEW S \in SUBSET Signals
  PROVE  /\ f \o UnsubAll(g, S) \in Seq(Messages)
         /\ \A b : \A s \in Signals : \A t \in Topics :
              WillSub(f \o UnsubAll(g, S), b, s, t) <=> ~(s \in S /\ g[s].topic = t) /\ WillSub(f, b, s, t)
         /\ Same(f, f \o UnsubAll(g, S), FALSE, TRUE, TRUE)
<1> DEFINE u == UnsubAll(g, S)
<1>1. /\ u \in Seq(Messages)
      /\ \A i \in 1..Len(u) : \E s \in S : g[s].topic \in Topics /\ u[i] = UnsubMsg(s, g[s].topic)
      /\ \A s \in S : g[s].topic \in Topics => \E i \in 1..Len(u) : u[i] = UnsubMsg(s, g[s].topic)
  BY UnsubAllIs
<1> HIDE DEF u
<1>2. \A m : \A U : \A now \in BOOLEAN : Will(f \o u, m, U, now) <=> Begins(u, m, U) \/ (Will(f, m, U, now) /\ Keeps(u, U))
  BY <1>1, WillConcat
<1>3. f \o u \in Seq(Messages)
  BY <1>1, ConcatIs
<1>4. ASSUME NEW i \in 1..Len(u)
      PROVE  /\ \A s, t : u[i] # SubMsg(s, t)
             /\ \A on : u[i] # CtlMsg(on)
             /\ \A A : u[i] # ListMsg(A)
  <2>1. PICK r \in S : u[i] = UnsubMsg(r, g[r].topic)
    BY <1>1
  <2> QED BY <2>1, MessagesDiffer
<1>5. ASSUME NEW b, NEW s \in Signals, NEW t \in Topics
      PROVE  WillSub(f \o u, b, s, t) <=> ~(s \in S /\ g[s].topic = t) /\ WillSub(f, b, s, t)
  <2>1. ~Begins(u, SubMsg(s, t), {UnsubMsg(s, t)})
    BY <1>4 DEF Begins
  <2>2. Keeps(u, {UnsubMsg(s, t)}) <=> ~(s \in S /\ g[s].topic = t)
    <3>1. ASSUME s \in S, g[s].topic = t PROVE ~Keeps(u, {UnsubMsg(s, t)})
      <4>1. PICK i \in 1..Len(u) : u[i] = UnsubMsg(s, g[s].topic)
        BY <1>1, <3>1
      <4>2. u[i] \in {UnsubMsg(s, t)}
        BY <3>1, <4>1
      <4> QED BY <4>2 DEF Keeps
    <3>2. ASSUME ~(s \in S /\ g[s].topic = t) PROVE Keeps(u, {UnsubMsg(s, t)})
      <4>1. ASSUME NEW i \in 1..Len(u) PROVE u[i] # UnsubMsg(s, t)
        <5>1. PICK r \in S : u[i] = UnsubMsg(r, g[r].topic)
          BY <1>1
        <5>2. UnsubMsg(r, g[r].topic) = UnsubMsg(s, t) => r = s /\ g[r].topic = t
          BY MessagesDiffer
        <5> QED BY <3>2, <5>1, <5>2
      <4> QED BY <4>1 DEF Keeps
    <3> QED BY <3>1, <3>2
  <2>3. (<<s, t>> \in b) \in BOOLEAN
    OBVIOUS
  <2> QED BY <1>2, <2>1, <2>2, <2>3, Zenon DEF WillSub
<1>6. ASSUME NEW now \in BOOLEAN PROVE WillCtl(f \o u, now) <=> WillCtl(f, now)
  <2>1. ~Begins(u, CtlMsg(TRUE), {CtlMsg(FALSE)}) /\ Keeps(u, {CtlMsg(FALSE)})
    BY <1>4, Zenon DEF Begins, Keeps
  <2> QED BY <1>2, <2>1, Zenon DEF WillCtl
<1>7. ASSUME NEW now, NEW A \in SUBSET Signals PROVE WillList(f \o u, now, A) <=> WillList(f, now, A)
  <2>1. ~Begins(u, ListMsg(A), OtherLists(A)) /\ Keeps(u, OtherLists(A))
    BY <1>4, OtherListsHas DEF Begins, Keeps
  <2>2. (now = A) \in BOOLEAN
    OBVIOUS
  <2> QED BY <1>2, <2>1, <2>2, Zenon DEF WillList
<1> QED BY <1>3, <1>5, <1>6, <1>7 DEF Same, u

\* What a message that is handled does
LEMMA AfterHead ==
  ASSUME TypeOK, fq # <<>>, Frontend
  PROVE  /\ \A s \in Signals : \A t \in Topics : WillSub(fq', subs', s, t) <=> WillSub(fq, subs, s, t)
         /\ WillCtl(fq', ctl') <=> WillCtl(fq, ctl)
         /\ \A A \in SUBSET Signals : WillList(fq', list', A) <=> WillList(fq, list, A)
         /\ TypeOK'
<1> DEFINE x == Head(fq)
<1>1. fq \in Seq(Messages) /\ x \in Messages /\ fq' = Tail(fq) /\ fq' \in Seq(Messages)
  BY HeadTailIs DEF TypeOK, Frontend
<1>2. \A m : \A U : m \notin U => \A now \in BOOLEAN : Will(fq, m, U, now) <=> Will(fq', m, U, x = m \/ (now /\ x \notin U))
  BY <1>1, WillTail
<1>3. \/ \E on \in BOOLEAN : x = CtlMsg(on) /\ ctl' = on /\ subs' = subs /\ list' = list
      \/ \E s \in Signals : \E t \in Topics : x = SubMsg(s, t) /\ subs' = subs \cup {<<s, t>>} /\ ctl' = ctl /\ list' = list
      \/ \E s \in Signals : \E t \in Topics : x = UnsubMsg(s, t) /\ subs' = subs \ {<<s, t>>} /\ ctl' = ctl /\ list' = list
      \/ \E A \in SUBSET Signals : x = ListMsg(A) /\ list' = A /\ ctl' = ctl /\ subs' = subs
  <2>1. CASE x.op = "ctl"
    <3>1. x.on \in BOOLEAN /\ x = CtlMsg(x.on)
      BY <1>1, <2>1 DEF Messages, CtlMsg
    <3>2. ctl' = x.on /\ subs' = subs /\ list' = list
      BY <2>1, Zenon DEF Frontend
    <3> QED BY <3>1, <3>2
  <2>2. CASE x.op = "sub"
    <3>1. x.sig \in Signals /\ x.topic \in Topics /\ x = SubMsg(x.sig, x.topic)
      BY <1>1, <2>2 DEF Messages, SubMsg
    <3>2. subs' = subs \cup {<<x.sig, x.topic>>} /\ ctl' = ctl /\ list' = list
      BY <2>2, Zenon DEF Frontend
    <3> QED BY <3>1, <3>2
  <2>3. CASE x.op = "unsub"
    <3>1. x.sig \in Signals /\ x.topic \in Topics /\ x = UnsubMsg(x.sig, x.topic)
      BY <1>1, <2>3 DEF Messages, UnsubMsg
    <3>2. subs' = subs \ {<<x.sig, x.topic>>} /\ ctl' = ctl /\ list' = list
      BY <2>3, Zenon DEF Frontend
    <3> QED BY <3>1, <3>2
  <2>4. CASE x.op = "list"
    <3>1. x.active \in SUBSET Signals /\ x = ListMsg(x.active)
      BY <1>1, <2>4 DEF Messages, ListMsg
    <3>2. list' = x.active /\ ctl' = ctl /\ subs' = subs
      BY <2>4, Zenon DEF Frontend
    <3> QED BY <3>1, <3>2
  <2>5. x.op \in {"ctl", "sub", "unsub", "list"}
    BY <1>1 DEF Messages
  <2> QED BY <2>1, <2>2, <2>3, <2>4, <2>5
<1> HIDE DEF x
<1>4. ASSUME NEW s \in Signals, NEW t \in Topics PROVE WillSub(fq', subs', s, t) <=> WillSub(fq, subs, s, t)
  <2>1. SubMsg(s, t) \notin {UnsubMsg(s, t)}
    BY MessagesDiffer
  <2>2. (<<s, t>> \in subs') <=> (x = SubMsg(s, t) \/ (<<s, t>> \in subs /\ x \notin {UnsubMsg(s, t)}))
    BY <1>3, MessagesDiffer
  <2>3. (<<s, t>> \in subs) \in BOOLEAN
    OBVIOUS
  <2>4. Will(fq, SubMsg(s, t), {UnsubMsg(s, t)}, <<s, t>> \in subs)
          <=> Will(fq', SubMsg(s, t), {UnsubMsg(s, t)}, x = SubMsg(s, t) \/ (<<s, t>> \in subs /\ x \notin {UnsubMsg(s, t)}))
    BY <1>2, <2>1, <2>3, Zenon
  <2> QED BY <2>2, <2>4 DEF WillSub, Will
<1>5. WillCtl(fq', ctl') <=> WillCtl(fq, ctl)
  <2>1. CtlMsg(TRUE) \notin {CtlMsg(FALSE)}
    BY MessagesDiffer, Zenon
  <2>2. ctl \in BOOLEAN
    BY DEF TypeOK
  <2>3. ctl' <=> (x = CtlMsg(TRUE) \/ (ctl /\ x \notin {CtlMsg(FALSE)}))
    BY <1>3, <2>2, MessagesDiffer, Zenon
  <2>4. Will(fq, CtlMsg(TRUE), {CtlMsg(FALSE)}, ctl)
          <=> Will(fq', CtlMsg(TRUE), {CtlMsg(FALSE)}, x = CtlMsg(TRUE) \/ (ctl /\ x \notin {CtlMsg(FALSE)}))
    BY <1>2, <2>1, <2>2, Zenon
  <2> QED BY <2>3, <2>4, Zenon DEF WillCtl, Will
<1>6. ASSUME NEW A \in SUBSET Signals PROVE WillList(fq', list', A) <=> WillList(fq, list, A)
  <2>1. ListMsg(A) \notin OtherLists(A)
    BY MessagesDiffer, OtherListsHas
  <2>2. (list' = A) <=> (x = ListMsg(A) \/ (list = A /\ x \notin OtherLists(A)))
    BY <1>3, MessagesDiffer, OtherListsHas
  <2>3. (list = A) \in BOOLEAN
    OBVIOUS
  <2>4. Will(fq, ListMsg(A), OtherLists(A), list = A)
          <=> Will(fq', ListMsg(A), OtherLists(A), x = ListMsg(A) \/ (list = A /\ x \notin OtherLists(A)))
    BY <1>2, <2>1, <2>3, Zenon
  <2> QED BY <2>2, <2>4 DEF WillList, Will
<1>7. TypeOK'
  <2>1. ctl' \in BOOLEAN /\ subs' \subseteq Signals \X Topics /\ list' \subseteq Signals
    BY <1>3 DEF TypeOK
  <2> QED BY <1>1, <2>1 DEF TypeOK, Frontend, mine, bounds
<1> QED BY <1>4, <1>5, <1>6, <1>7

------------------------------------------------------------------------------
(* What the commands do to the signals                                       *)

LEMMA FreedIs ==
  ASSUME NEW g \in SignalStates
  PROVE  /\ Freed(g) \in SignalStates /\ Active(Freed(g)) = Active(g)
         /\ \A s \in Signals : Freed(g)[s].topic = g[s].topic /\ Freed(g)[s].active = g[s].active /\ ~Freed(g)[s].alloc
<1>1. \A s \in Signals : Freed(g)[s] = [g[s] EXCEPT !.hdr = NoTopic, !.alloc = FALSE]
  BY DEF Freed
<1>2. \A s \in Signals : g[s] \in [active : BOOLEAN, topic : MaybeTopic, hdr : MaybeTopic, alloc : BOOLEAN]
  BY DEF SignalStates
<1>3. ASSUME NEW s \in Signals
      PROVE  /\ Freed(g)[s] \in [active : BOOLEAN, topic : MaybeTopic, hdr : MaybeTopic, alloc : BOOLEAN]
             /\ Freed(g)[s].topic = g[s].topic /\ Freed(g)[s].active = g[s].active /\ ~Freed(g)[s].alloc
  BY <1>1, <1>2, Zenon DEF MaybeTopic
<1>4. Freed(g) \in SignalStates
  BY <1>3, Zenon DEF Freed, SignalStates
<1>5. Active(Freed(g)) = Active(g)
  BY <1>3 DEF Active
<1> QED BY <1>3, <1>4, <1>5

LEMMA DroppedIs ==
  ASSUME NEW g \in SignalStates, NEW S \in SUBSET Signals
  PROVE  /\ Dropped(g, S) \in SignalStates
         /\ \A s \in Signals \ S : Dropped(g, S)[s] = g[s]
         /\ \A s \in S : Dropped(g, S)[s].topic = NoTopic /\ ~Dropped(g, S)[s].active
<1>1. \A s \in Signals : Dropped(g, S)[s] = IF s \in S THEN [g[s] EXCEPT !.topic = NoTopic, !.active = FALSE] ELSE g[s]
  BY DEF Dropped
<1>2. \A s \in Signals : g[s] \in [active : BOOLEAN, topic : MaybeTopic, hdr : MaybeTopic, alloc : BOOLEAN]
  BY DEF SignalStates
<1>3. ASSUME NEW s \in S
      PROVE  /\ Dropped(g, S)[s] \in [active : BOOLEAN, topic : MaybeTopic, hdr : MaybeTopic, alloc : BOOLEAN]
             /\ Dropped(g, S)[s].topic = NoTopic /\ ~Dropped(g, S)[s].active
  BY <1>1, <1>2, Zenon DEF MaybeTopic
<1>4. Dropped(g, S) \in SignalStates
  BY <1>1, <1>2, <1>3, Zenon DEF Dropped, SignalStates
<1> QED BY <1>1, <1>3, <1>4, Zenon

LEMMA AllocToIs ==
  ASSUME NEW g \in SignalStates
  PROVE  /\ AllocTo(g) \in SignalStates /\ Bad(g) \in SUBSET Signals
         /\ \A s \in Signals : AllocTo(g)[s].alloc <=> AllocTo(g)[s].active
         /\ \A s \in Signals \ Bad(g) : AllocTo(g)[s].topic = g[s].topic /\ AllocTo(g)[s].active = g[s].active
         /\ \A s \in Bad(g) : AllocTo(g)[s].topic = NoTopic
<1> DEFINE k == Dropped(g, Bad(g))
<1>1. Bad(g) \in SUBSET Signals
  BY DEF Bad, Active
<1>2. /\ k \in SignalStates
      /\ \A s \in Signals \ Bad(g) : k[s] = g[s]
      /\ \A s \in Bad(g) : k[s].topic = NoTopic /\ ~k[s].active
  BY <1>1, DroppedIs
<1>3. \A s \in Signals : AllocTo(g)[s] = [k[s] EXCEPT !.alloc = k[s].active]
  BY DEF AllocTo
<1> HIDE DEF k
<1>4. \A s \in Signals : k[s] \in [active : BOOLEAN, topic : MaybeTopic, hdr : MaybeTopic, alloc : BOOLEAN]
  BY <1>2 DEF SignalStates
<1>5. ASSUME NEW s \in Signals
      PROVE  /\ AllocTo(g)[s] \in [active : BOOLEAN, topic : MaybeTopic, hdr : MaybeTopic, alloc : BOOLEAN]
             /\ AllocTo(g)[s].alloc = k[s].active /\ AllocTo(g)[s].active = k[s].active /\ AllocTo(g)[s].topic = k[s].topic
  BY <1>3, <1>4, Zenon
<1>6. AllocTo(g) \in SignalStates
  BY <1>5 DEF AllocTo, SignalStates
<1> QED BY <1>1, <1>2, <1>5, <1>6

\* What the frontend will have follows the signals, and so does their memory.
AllocOK == \A s \in Signals : sig[s].alloc <=> st = "active" /\ sig[s].active
Settled == SubsInv /\ ListInv /\ AllocOK
Typed == fq \in Seq(Messages) /\ sig \in SignalStates /\ st \in {"idle", "await", "active"}

\* A command of the application or a block of data keeps that so.
Kept ==
    /\ Typed'
    /\ Settled => Settled'
    /\ WillCtl(fq', ctl') <=> WillCtl(fq, ctl)

\* a/!add
LEMMA AddKept ==
  ASSUME TypeOK, UNCHANGED front, NEW s \in Signals, HandleAdd(s)
  PROVE  Kept
<1>0. sig \in SignalStates /\ fq \in Seq(Messages) /\ st \in {"idle", "await", "active"} /\ ctl \in BOOLEAN
  BY DEF TypeOK
<1>1. CASE sig[s].active
  <2>1. UNCHANGED <<fq, st, sig, subs, ctl, list>>
    BY <1>1 DEF HandleAdd, front
  <2> QED BY <1>0, <2>1 DEF Kept, Typed, Settled, SubsInv, ListInv, AllocOK
<1>2. CASE ~sig[s].active
  <2> DEFINE g == Freed(sig)
             B == Active(sig')
  <2>1. /\ g \in SignalStates
        /\ \A r \in Signals : g[r].topic = sig[r].topic /\ g[r].active = sig[r].active /\ ~g[r].alloc
    BY <1>0, FreedIs
  <2>2. /\ sig' = [g EXCEPT ![s].active = TRUE] /\ st' = AfterFree(st)
        /\ fq' = fq \o <<ListMsg(B)>> /\ subs' = subs /\ ctl' = ctl /\ list' = list
    BY <1>2 DEF HandleAdd, List, ListMsg, front
  <2> HIDE DEF g
  <2>3. \A r \in Signals : g[r] \in [active : BOOLEAN, topic : MaybeTopic, hdr : MaybeTopic, alloc : BOOLEAN]
    BY <2>1 DEF SignalStates
  <2>4. sig' \in SignalStates
    BY <2>1, <2>2, <2>3, Zenon DEF SignalStates
  <2>5. \A r \in Signals : sig'[r].topic = sig[r].topic /\ ~sig'[r].alloc
    BY <2>1, <2>2, <2>3 DEF SignalStates
  <2>6. B \in SUBSET Signals
    BY DEF Active
  <2> HIDE DEF B
  <2>7. /\ fq' \in Seq(Messages) /\ WillList(fq', list, B)
        /\ Same(fq, fq', TRUE, TRUE, FALSE)
    BY <1>0, <2>2, <2>6, AfterList, Zenon
  <2>8. st' \in {"idle", "await"}
    BY <1>0, <2>2 DEF AfterFree
  <2>9. SubsInv => SubsInv'
    BY <2>2, <2>5, <2>7 DEF SubsInv, Same
  <2>10. ListInv'
    BY <2>2, <2>7, Zenon DEF ListInv, B
  <2>11. AllocOK'
    BY <2>5, <2>8 DEF AllocOK
  <2>12. WillCtl(fq', ctl') <=> WillCtl(fq, ctl)
    BY <1>0, <2>2, <2>7 DEF Same
  <2> QED BY <2>4, <2>7, <2>8, <2>9, <2>10, <2>11, <2>12 DEF Kept, Typed, Settled
<1> QED BY <1>1, <1>2

\* a/!remove
LEMMA RemoveKept ==
  ASSUME TypeOK, UNCHANGED front, NEW r \in Signals, HandleRemove(r)
  PROVE  Kept
<1> DEFINE v == sig[r].topic
           d == Dropped(sig, {r})
           B == Active(sig')
           f == fq \o Unsub(r, v)
<1>0. sig \in SignalStates /\ fq \in Seq(Messages) /\ st \in {"idle", "await", "active"} /\ ctl \in BOOLEAN
  BY DEF TypeOK
<1>1. v \in MaybeTopic /\ {r} \in SUBSET Signals
  BY <1>0 DEF SignalStates
<1>2. /\ d \in SignalStates
      /\ \A s \in Signals \ {r} : d[s] = sig[s]
      /\ d[r].topic = NoTopic
  BY <1>0, <1>1, DroppedIs
<1>3. /\ sig' = Freed(d) /\ st' = AfterFree(st) /\ subs' = subs /\ ctl' = ctl /\ list' = list
      /\ fq' = f \o <<ListMsg(B)>>
  BY DEF HandleRemove, List, ListMsg, front
<1>4. B \in SUBSET Signals
  BY DEF Active
<1> HIDE DEF B, d, v
<1>5. /\ sig' \in SignalStates
      /\ \A s \in Signals : sig'[s].topic = d[s].topic /\ ~sig'[s].alloc
  BY <1>2, <1>3, FreedIs
<1>6. /\ f \in Seq(Messages)
      /\ \A b : \A s \in Signals : \A t \in Topics : WillSub(f, b, s, t) <=> ~(s = r /\ t = v) /\ WillSub(fq, b, s, t)
      /\ Same(fq, f, FALSE, TRUE, TRUE)
  BY <1>0, <1>1, AfterUnsub, Zenon
<1> HIDE DEF f
<1>7. /\ fq' \in Seq(Messages) /\ WillList(fq', list, B)
      /\ Same(f, fq', TRUE, TRUE, FALSE)
  BY <1>3, <1>4, <1>6, AfterList, Zenon
<1>8. st' \in {"idle", "await"}
  BY <1>0, <1>3 DEF AfterFree
<1>9. ASSUME SubsInv, NEW s \in Signals, NEW t \in Topics
      PROVE  WillSub(fq', subs', s, t) <=> sig'[s].topic = t
  <2>1. WillSub(fq', subs', s, t) <=> ~(s = r /\ t = v) /\ sig[s].topic = t
    BY <1>3, <1>6, <1>7, <1>9 DEF Same, SubsInv
  <2>2. t # NoTopic
    BY BufferAssumption
  <2> QED BY <1>2, <1>5, <2>1, <2>2 DEF v
<1>10. ListInv'
  BY <1>3, <1>7 DEF ListInv, B
<1>11. AllocOK'
  BY <1>5, <1>8 DEF AllocOK
<1>12. WillCtl(fq', ctl') <=> WillCtl(fq, ctl)
  BY <1>0, <1>3, <1>6, <1>7, Zenon DEF Same
<1>13. SubsInv => SubsInv'
  BY <1>9 DEF SubsInv
<1> QED BY <1>5, <1>7, <1>8, <1>10, <1>11, <1>12, <1>13 DEF Kept, Typed, Settled

\* s/NNN/topic: the old topic is unsubscribed before the new one is subscribed, also
\* when they are the same.
LEMMA TopicKept ==
  ASSUME TypeOK, UNCHANGED front, NEW r \in Signals, NEW w \in Topics, HandleTopic(r, w)
  PROVE  Kept
<1> DEFINE v == sig[r].topic
           f == fq \o Unsub(r, v)
<1>0. sig \in SignalStates /\ fq \in Seq(Messages) /\ st \in {"idle", "await", "active"} /\ ctl \in BOOLEAN
  BY DEF TypeOK
<1>1. \A s \in Signals : sig[s] \in [active : BOOLEAN, topic : MaybeTopic, hdr : MaybeTopic, alloc : BOOLEAN]
  BY <1>0 DEF SignalStates
<1>2. v \in MaybeTopic
  BY <1>1
<1>3. /\ sig' = [sig EXCEPT ![r].topic = w] /\ st' = st /\ subs' = subs /\ ctl' = ctl /\ list' = list
      /\ fq' = f \o Sub(r, w)
  BY DEF HandleTopic, front
<1> HIDE DEF v
<1>4. sig' \in SignalStates
  BY <1>0, <1>1, <1>3, Zenon DEF SignalStates, MaybeTopic
<1>5. /\ \A s \in Signals : sig'[s].active = sig[s].active /\ sig'[s].alloc = sig[s].alloc
      /\ \A s \in Signals : sig'[s].topic = IF s = r THEN w ELSE sig[s].topic
  BY <1>0, <1>1, <1>3 DEF SignalStates
<1>6. /\ f \in Seq(Messages)
      /\ \A b : \A s \in Signals : \A t \in Topics : WillSub(f, b, s, t) <=> ~(s = r /\ t = v) /\ WillSub(fq, b, s, t)
      /\ Same(fq, f, FALSE, TRUE, TRUE)
  BY <1>0, <1>2, AfterUnsub, Zenon
<1> HIDE DEF f
<1>7. /\ fq' \in Seq(Messages)
      /\ \A b : \A s \in Signals : \A t \in Topics : WillSub(fq', b, s, t) <=> (s = r /\ t = w) \/ WillSub(f, b, s, t)
      /\ Same(f, fq', FALSE, TRUE, TRUE)
  BY <1>3, <1>6, AfterSub, Zenon
<1>8. ASSUME SubsInv, NEW s \in Signals, NEW t \in Topics
      PROVE  WillSub(fq', subs', s, t) <=> sig'[s].topic = t
  <2>1. WillSub(fq', subs', s, t) <=> (s = r /\ t = w) \/ (~(s = r /\ t = v) /\ sig[s].topic = t)
    BY <1>3, <1>6, <1>7, <1>8 DEF SubsInv
  <2> QED BY <1>5, <2>1 DEF v
<1>9. Active(sig') = Active(sig) /\ Active(sig) \in SUBSET Signals
  BY <1>5 DEF Active
<1>10. ListInv => ListInv'
  BY <1>3, <1>6, <1>7, <1>9, Zenon DEF ListInv, Same
<1>11. AllocOK => AllocOK'
  BY <1>3, <1>5 DEF AllocOK
<1>12. WillCtl(fq', ctl') <=> WillCtl(fq, ctl)
  BY <1>0, <1>3, <1>6, <1>7 DEF Same
<1>13. SubsInv => SubsInv'
  BY <1>8 DEF SubsInv
<1> QED BY <1>0, <1>3, <1>4, <1>7, <1>10, <1>11, <1>12, <1>13 DEF Kept, Typed, Settled

\* A block of data.  When the last signal has its header the memory is allocated, and
\* the signals with an unsupported type go: their subscriptions and their place in the list.
LEMMA DataKept ==
  ASSUME TypeOK, UNCHANGED front, NEW m, m.sig \in Signals, m.topic \in Topics, HandleData(m)
  PROVE  Kept
<1> DEFINE g == [sig EXCEPT ![m.sig].hdr = m.topic]
<1>0. sig \in SignalStates /\ fq \in Seq(Messages) /\ st \in {"idle", "await", "active"} /\ ctl \in BOOLEAN
  BY DEF TypeOK
<1>1. \A s \in Signals : sig[s] \in [active : BOOLEAN, topic : MaybeTopic, hdr : MaybeTopic, alloc : BOOLEAN]
  BY <1>0 DEF SignalStates
<1>2. g \in SignalStates
  BY <1>0, <1>1 DEF SignalStates, MaybeTopic
<1>3. \A s \in Signals : g[s].topic = sig[s].topic /\ g[s].active = sig[s].active /\ g[s].alloc = sig[s].alloc
  BY <1>0, <1>1 DEF SignalStates
<1>4. /\ subs' = subs /\ ctl' = ctl /\ list' = list
      /\ \/ fq' = fq /\ st' = st /\ (sig' = sig \/ sig' = g)
         \/ st = "await" /\ sig' = AllocTo(g) /\ fq' = fq \o AllocSends(g) /\ st' = "active"
  BY Zenon DEF HandleData, front
<1> HIDE DEF g
<1>5. Active(g) = Active(sig) /\ Active(sig) \in SUBSET Signals
  BY <1>3 DEF Active
<1>6. CASE fq' = fq /\ st' = st /\ (sig' = sig \/ sig' = g)
  <2>1. /\ \A s \in Signals : sig'[s].topic = sig[s].topic /\ sig'[s].active = sig[s].active /\ sig'[s].alloc = sig[s].alloc
        /\ sig' \in SignalStates /\ Active(sig') = Active(sig)
    BY <1>0, <1>2, <1>3, <1>5, <1>6
  <2>2. SubsInv => SubsInv'
    BY <1>4, <1>6, <2>1 DEF SubsInv
  <2>3. ListInv => ListInv'
    BY <1>4, <1>6, <2>1 DEF ListInv
  <2>4. AllocOK => AllocOK'
    BY <1>6, <2>1 DEF AllocOK
  <2> QED BY <1>0, <1>4, <1>6, <2>1, <2>2, <2>3, <2>4 DEF Kept, Typed, Settled
<1>7. CASE st = "await" /\ sig' = AllocTo(g) /\ fq' = fq \o AllocSends(g) /\ st' = "active"
  <2>1. /\ sig' \in SignalStates /\ Bad(g) \in SUBSET Signals
        /\ \A s \in Signals : sig'[s].alloc <=> sig'[s].active
        /\ \A s \in Signals \ Bad(g) : sig'[s].topic = sig[s].topic /\ sig'[s].active = sig[s].active
        /\ \A s \in Bad(g) : sig'[s].topic = NoTopic
    BY <1>2, <1>3, <1>7, AllocToIs
  <2>2. AllocOK'
    BY <1>7, <2>1 DEF AllocOK
  <2>3. CASE Bad(g) = {}
    <3>1. fq' = fq
      BY <1>0, <1>7, <2>3, ConcatEmpty DEF AllocSends
    <3>2. /\ \A s \in Signals : sig'[s].topic = sig[s].topic /\ sig'[s].active = sig[s].active
          /\ Active(sig') = Active(sig)
      BY <2>1, <2>3, Zenon DEF Active
    <3>3. SubsInv => SubsInv'
      BY <1>4, <3>1, <3>2 DEF SubsInv
    <3>4. ListInv => ListInv'
      BY <1>4, <3>1, <3>2, Zenon DEF ListInv
    <3> QED BY <1>0, <1>4, <1>7, <2>1, <2>2, <3>1, <3>3, <3>4 DEF Kept, Typed, Settled
  <2>4. CASE Bad(g) # {}
    <3> DEFINE u == UnsubAll(g, Bad(g))
               B == Active(sig')
               f == fq \o u
               l == <<ListMsg(B)>>
    <3>1. B \in SUBSET Signals
      BY DEF Active
    <3>2. fq' = fq \o (u \o l)
      BY <1>7, <2>4, Zenon DEF AllocSends, List, ListMsg
    <3>3. u \in Seq(Messages)
      BY <1>2, <2>1, UnsubAllIs
    <3>4. /\ f \in Seq(Messages)
          /\ \A b : \A s \in Signals : \A t \in Topics :
               WillSub(f, b, s, t) <=> ~(s \in Bad(g) /\ g[s].topic = t) /\ WillSub(fq, b, s, t)
          /\ Same(fq, f, FALSE, TRUE, TRUE)
      BY <1>0, <1>2, <2>1, AfterUnsubAll, Zenon
    <3> HIDE DEF u, B
    <3>5. l \in Seq(Messages)
      <4>1. ListMsg(B) \in Messages
        BY <3>1, MessageTypes
      <4> QED BY <4>1
    <3>6. fq' = f \o l
      <4> HIDE DEF l
      <4>1. (fq \o u) \o l = fq \o (u \o l)
        BY <1>0, <3>3, <3>5, ConcatAssoc
      <4> QED BY <3>2, <4>1, Zenon
    <3> HIDE DEF f
    <3>7. /\ fq' \in Seq(Messages) /\ WillList(fq', list, B)
          /\ Same(f, fq', TRUE, TRUE, FALSE)
      BY <3>1, <3>4, <3>6, AfterList, Zenon
    <3>8. ASSUME SubsInv, NEW s \in Signals, NEW t \in Topics
          PROVE  WillSub(fq', subs', s, t) <=> sig'[s].topic = t
      <4>1. WillSub(fq', subs', s, t) <=> ~(s \in Bad(g) /\ g[s].topic = t) /\ sig[s].topic = t
        BY <1>4, <3>4, <3>7, <3>8, Zenon DEF Same, SubsInv
      <4>2. t # NoTopic
        BY BufferAssumption
      <4> QED BY <1>3, <2>1, <4>1, <4>2
    <3>9. SubsInv => SubsInv'
      BY <3>8, Zenon DEF SubsInv
    <3>10. ListInv'
      BY <1>4, <3>7 DEF ListInv, B
    <3>11. WillCtl(fq', ctl') <=> WillCtl(fq, ctl)
      BY <1>0, <1>4, <3>4, <3>7, Zenon DEF Same
    <3> QED BY <1>7, <2>1, <2>2, <3>7, <3>9, <3>10, <3>11 DEF Kept, Typed, Settled
  <2> QED BY <2>3, <2>4
<1> QED BY <1>4, <1>6, <1>7

\* g/size, g/hold and g/!clear
LEMMA GlobalKept ==
  ASSUME TypeOK, UNCHANGED <<front, fq>>, NEW m, HandleGlobal(m),
         m.cmd \in {"size", "hold", "clear"}, m.cmd \in {"size", "hold"} => m.on \in BOOLEAN
  PROVE  Kept /\ hold' \in BOOLEAN
<1> DEFINE c == m.cmd # "hold" \/ (hold /\ ~m.on)
<1>0. sig \in SignalStates /\ fq \in Seq(Messages) /\ st \in {"idle", "await", "active"} /\ ctl \in BOOLEAN /\ hold \in BOOLEAN
  BY DEF TypeOK
<1>1. /\ subs' = subs /\ ctl' = ctl /\ list' = list /\ fq' = fq
      /\ sig' = IF c THEN Freed(sig) ELSE sig
      /\ st' = IF m.cmd = "size" THEN IF m.on THEN "await" ELSE "idle" ELSE IF c THEN AfterFree(st) ELSE st
      /\ hold' = IF m.cmd = "hold" THEN m.on ELSE hold
  BY DEF HandleGlobal, front
<1>2. hold' \in BOOLEAN
  BY <1>0, <1>1
<1>3. /\ Freed(sig) \in SignalStates /\ Active(Freed(sig)) = Active(sig)
      /\ \A s \in Signals : Freed(sig)[s].topic = sig[s].topic /\ ~Freed(sig)[s].alloc
  BY <1>0, FreedIs
<1>4. /\ sig' \in SignalStates /\ Active(sig') = Active(sig) /\ \A s \in Signals : sig'[s].topic = sig[s].topic
  BY <1>0, <1>1, <1>3
<1>5. AllocOK => AllocOK'
  <2>1. CASE c
    <3>1. st' \in {"idle", "await"}
      BY <1>0, <1>1, <2>1 DEF AfterFree
    <3>2. \A s \in Signals : ~sig'[s].alloc
      BY <1>1, <1>3, <2>1
    <3> QED BY <3>1, <3>2 DEF AllocOK
  <2>2. CASE ~c
    <3>1. sig' = sig /\ st' = st
      BY <1>1, <2>2
    <3> QED BY <3>1 DEF AllocOK
  <2> QED BY <2>1, <2>2
<1>6. st' \in {"idle", "await", "active"}
  BY <1>0, <1>1 DEF AfterFree
<1> HIDE DEF c
<1>7. SubsInv => SubsInv'
  BY <1>1, <1>4 DEF SubsInv
<1>8. ListInv => ListInv'
  BY <1>1, <1>4, Zenon DEF ListInv
<1> QED BY <1>0, <1>1, <1>2, <1>4, <1>5, <1>6, <1>7, <1>8 DEF Kept, Typed, Settled

\* What the commands carry
LEMMA QueuedIs ==
  ASSUME NEW m \in Queued
  PROVE  /\ m.cmd \in {"add", "remove", "topic", "req", "data"} => m.sig \in Signals
         /\ m.cmd \in {"topic", "data"} => m.topic \in Topics
         /\ m.cmd = "req" => m.id \in Ids
         /\ m.cmd \in {"size", "hold"} => m.on \in BOOLEAN
<1>1. CASE m \in [cmd : {"add", "remove"}, sig : Signals]
  BY <1>1
<1>2. CASE m \in [cmd : {"topic"}, sig : Signals, topic : Topics] \cup [cmd : {"data"}, sig : Signals, topic : Topics]
  BY <1>2
<1>3. CASE m \in [cmd : {"req"}, sig : Signals, id : Ids]
  BY <1>3
<1>4. CASE m \in [cmd : {"size", "hold"}, on : BOOLEAN]
  BY <1>4
<1>5. CASE m = [cmd |-> "clear"] \/ m = [cmd |-> "finalize"]
  BY <1>5
<1> QED BY <1>1, <1>2, <1>3, <1>4, <1>5 DEF Queued, Commands

\* handle_cmd_q
LEMMA CmdKept ==
  ASSUME TypeOK, HandleCmd
  PROVE  /\ TypeOK' /\ Kept
         /\ UNCHANGED <<alive, front, removing>>
         /\ th = "drain" /\ th' \in {"drain", "req"}
<1> DEFINE m == Head(q)
<1>1. m \in Queued /\ q' = Tail(q) /\ q' \in Seq(Queued)
  BY HeadTailIs DEF TypeOK, HandleCmd
<1>2. /\ m.cmd \in {"add", "remove", "topic", "req", "data"} => m.sig \in Signals
      /\ m.cmd \in {"topic", "data"} => m.topic \in Topics
      /\ m.cmd = "req" => m.id \in Ids
      /\ m.cmd \in {"size", "hold"} => m.on \in BOOLEAN
  <2> HIDE DEF m
  <2> QED BY <1>1, QueuedIs, Zenon
<1>3. /\ UNCHANGED <<alive, front, removing, bounds>> /\ th = "drain"
      /\ \/ m.cmd = "data" /\ HandleData(m) /\ UNCHANGED <<exit, hold, pend, th>>
         \/ m.cmd = "add" /\ HandleAdd(m.sig) /\ UNCHANGED <<exit, hold, pend, th>>
         \/ m.cmd = "remove" /\ HandleRemove(m.sig) /\ UNCHANGED <<exit, hold, pend, th>>
         \/ m.cmd = "topic" /\ HandleTopic(m.sig, m.topic) /\ UNCHANGED <<exit, hold, pend, th>>
         \/ m.cmd = "req" /\ Post(m.sig, m.id) /\ UNCHANGED <<exit, hold, sig, st, fq, th>>
         \/ m.cmd \in {"size", "hold", "clear"} /\ HandleGlobal(m) /\ UNCHANGED <<exit, pend, fq, th>>
         \/ m.cmd = "finalize" /\ Finalize /\ UNCHANGED <<hold, pend, sig, st, fq>>
  BY DEF HandleCmd
<1> HIDE DEF m
<1> DEFINE Rest == /\ exit' \in BOOLEAN /\ hold' \in BOOLEAN /\ pend' \in Seq(Signals \X Ids)
                   /\ th' \in {"drain", "req"}
<1>4. exit \in BOOLEAN /\ hold \in BOOLEAN /\ pend \in Seq(Signals \X Ids)
  BY DEF TypeOK
<1>5. UNCHANGED <<fq, sig, st>> => Kept
  BY <1>3, Zenon DEF TypeOK, Kept, Typed, Settled, SubsInv, ListInv, AllocOK, front
<1>6. ASSUME HandleData(m) /\ m.cmd = "data" /\ UNCHANGED <<exit, hold, pend, th>>
      PROVE  Kept /\ Rest
  <2>1. Kept
    BY <1>2, <1>3, <1>6, DataKept
  <2> QED BY <1>3, <1>4, <1>6, <2>1
<1>7. ASSUME m.cmd = "add" /\ HandleAdd(m.sig) /\ UNCHANGED <<exit, hold, pend, th>>
      PROVE  Kept /\ Rest
  <2>1. Kept
    BY <1>2, <1>3, <1>7, AddKept
  <2> QED BY <1>3, <1>4, <1>7, <2>1
<1>8. ASSUME m.cmd = "remove" /\ HandleRemove(m.sig) /\ UNCHANGED <<exit, hold, pend, th>>
      PROVE  Kept /\ Rest
  <2>1. Kept
    BY <1>2, <1>3, <1>8, RemoveKept
  <2> QED BY <1>3, <1>4, <1>8, <2>1
<1>9. ASSUME m.cmd = "topic" /\ HandleTopic(m.sig, m.topic) /\ UNCHANGED <<exit, hold, pend, th>>
      PROVE  Kept /\ Rest
  <2>1. Kept
    BY <1>2, <1>3, <1>9, TopicKept
  <2> QED BY <1>3, <1>4, <1>9, <2>1
<1>10. ASSUME m.cmd = "req" /\ Post(m.sig, m.id) /\ UNCHANGED <<exit, hold, sig, st, fq, th>>
       PROVE  Kept /\ Rest
  <2>1. <<m.sig, m.id>> \in Signals \X Ids
    BY <1>2, <1>10
  <2>2. pend' \in Seq(Signals \X Ids)
    BY <1>4, <1>10, <2>1, AppendIs DEF Post
  <2> QED BY <1>3, <1>4, <1>5, <1>10, <2>2
<1>11. ASSUME m.cmd \in {"size", "hold", "clear"} /\ HandleGlobal(m) /\ UNCHANGED <<exit, pend, fq, th>>
       PROVE  Kept /\ Rest
  <2>1. Kept /\ hold' \in BOOLEAN
    BY <1>2, <1>3, <1>11, GlobalKept
  <2> QED BY <1>3, <1>4, <1>11, <2>1
<1>12. ASSUME Finalize /\ UNCHANGED <<hold, pend, sig, st, fq>>
       PROVE  Kept /\ Rest
  <2>1. exit' = TRUE /\ th' = "req"
    BY <1>12, Zenon DEF Finalize
  <2> QED BY <1>4, <1>5, <1>12, <2>1
<1>13. Kept /\ Rest
  BY <1>3, <1>6, <1>7, <1>8, <1>9, <1>10, <1>11, <1>12
<1>14. TypeOK'
  BY <1>1, <1>3, <1>13 DEF TypeOK, Kept, Typed, front, bounds
<1> QED BY <1>3, <1>13, <1>14

------------------------------------------------------------------------------
(* The steps                                                                 *)

LEMMA FreshIs == Fresh \in SignalStates /\ Active(Fresh) = {} /\ \A s \in Signals : Fresh[s].topic = NoTopic /\ ~Fresh[s].alloc
<1>1. \A s \in Signals : Fresh[s] = [active |-> FALSE, topic |-> NoTopic, hdr |-> NoTopic, alloc |-> FALSE]
  BY DEF Fresh
<1>2. Fresh \in SignalStates
  BY <1>1 DEF Fresh, SignalStates, MaybeTopic
<1>3. Active(Fresh) = {}
  BY <1>1 DEF Active
<1>4. \A s \in Signals : Fresh[s].topic = NoTopic /\ ~Fresh[s].alloc
  BY <1>1
<1> QED BY <1>2, <1>3, <1>4, Zenon

\* The end of buffer_thread: no subscription is left.
LEMMA ExitIs ==
  ASSUME TypeOK, Exit
  PROVE  /\ fq' \in Seq(Messages) /\ sig' \in SignalStates
         /\ SubsInv => SubsInv'
         /\ ListInv => ListInv'
         /\ WillCtl(fq', ctl') <=> WillCtl(fq, ctl)
         /\ \A s \in Signals : sig'[s].topic = NoTopic
<1> DEFINE S == {s \in Signals : sig[s].topic # NoTopic}
<1>0. sig \in SignalStates /\ fq \in Seq(Messages) /\ ctl \in BOOLEAN
  BY DEF TypeOK
<1>1. \A s \in Signals : sig[s] \in [active : BOOLEAN, topic : MaybeTopic, hdr : MaybeTopic, alloc : BOOLEAN]
  BY <1>0 DEF SignalStates
<1>2. /\ fq' = fq \o UnsubAll(sig, S) /\ subs' = subs /\ ctl' = ctl /\ list' = list
      /\ sig' = [s \in Signals |-> IF s \notin S THEN sig[s] ELSE
                   [sig[s] EXCEPT !.topic = NoTopic, !.hdr = NoTopic, !.alloc = FALSE]]
  BY Zenon DEF Exit, front
<1>3. S \in SUBSET Signals /\ \A s \in Signals : s \in S <=> sig[s].topic # NoTopic
  OBVIOUS
<1> HIDE DEF S
<1>4. ASSUME NEW s \in Signals
      PROVE  /\ sig'[s] \in [active : BOOLEAN, topic : MaybeTopic, hdr : MaybeTopic, alloc : BOOLEAN]
             /\ sig'[s].topic = NoTopic /\ sig'[s].active = sig[s].active
  <2>1. CASE s \in S
    <3>1. sig'[s] = [sig[s] EXCEPT !.topic = NoTopic, !.hdr = NoTopic, !.alloc = FALSE]
      BY <1>2, <2>1, Zenon
    <3> QED BY <1>1, <3>1, Zenon DEF MaybeTopic
  <2>2. CASE s \notin S
    <3>1. sig'[s] = sig[s]
      BY <1>2, <2>2, Zenon
    <3> QED BY <1>1, <1>3, <2>2, <3>1
  <2> QED BY <2>1, <2>2
<1>5. sig' \in SignalStates
  BY <1>2, <1>4, Zenon DEF SignalStates
<1>6. /\ fq' \in Seq(Messages)
      /\ \A b : \A s \in Signals : \A t \in Topics :
           WillSub(fq', b, s, t) <=> ~(s \in S /\ sig[s].topic = t) /\ WillSub(fq, b, s, t)
      /\ Same(fq, fq', FALSE, TRUE, TRUE)
  BY <1>0, <1>2, <1>3, AfterUnsubAll, Zenon
<1>7. ASSUME SubsInv, NEW s \in Signals, NEW t \in Topics
      PROVE  WillSub(fq', subs', s, t) <=> sig'[s].topic = t
  <2>1. WillSub(fq', subs', s, t) <=> ~(s \in S /\ sig[s].topic = t) /\ sig[s].topic = t
    BY <1>2, <1>6, <1>7, Zenon DEF SubsInv
  <2>2. t # NoTopic
    BY BufferAssumption
  <2> QED BY <1>3, <1>4, <2>1, <2>2
<1>8. SubsInv => SubsInv'
  BY <1>7 DEF SubsInv
<1>9. Active(sig') = Active(sig) /\ Active(sig) \in SUBSET Signals
  BY <1>4 DEF Active
<1>10. ListInv => ListInv'
  BY <1>2, <1>6, <1>9, Zenon DEF ListInv, Same
<1>11. WillCtl(fq', ctl') <=> WillCtl(fq, ctl)
  BY <1>0, <1>2, <1>6, Zenon DEF Same
<1> QED BY <1>4, <1>5, <1>6, <1>8, <1>10, <1>11, Zenon

\* What _buffer_add and _buffer_remove_inner send
LEMMA CtlSent ==
  ASSUME TypeOK, NEW on \in BOOLEAN, fq' = Append(fq, [op |-> "ctl", on |-> on]), UNCHANGED front
  PROVE  /\ fq' \in Seq(Messages)
         /\ WillCtl(fq', ctl') <=> on
         /\ \A s \in Signals : \A t \in Topics : WillSub(fq', subs', s, t) <=> WillSub(fq, subs, s, t)
         /\ \A A \in SUBSET Signals : WillList(fq', list', A) <=> WillList(fq, list, A)
<1>1. /\ fq' = Append(fq, CtlMsg(on)) /\ ctl' = ctl /\ subs' = subs /\ list' = list
      /\ fq \in Seq(Messages) /\ ctl \in BOOLEAN
  BY DEF CtlMsg, front, TypeOK
<1>2. /\ fq' \in Seq(Messages)
      /\ \A now \in BOOLEAN : WillCtl(fq', now) <=> on
      /\ Same(fq, fq', TRUE, FALSE, TRUE)
  BY <1>1, AfterCtl, Zenon
<1> QED BY <1>1, <1>2 DEF Same

\* Every step keeps the types.
LEMMA TypeStep == TypeOK /\ [Next]_vars => TypeOK'
<1> SUFFICES ASSUME TypeOK, [Next]_vars PROVE TypeOK'
  OBVIOUS
<1>1. CASE Frontend
  BY <1>1, AfterHead, Zenon DEF Frontend
<1>2. CASE Add
  <2>1. fq' \in Seq(Messages)
    BY <1>2, CtlSent, Zenon DEF Add
  <2>2. q' \in Seq(Queued) /\ pend' \in Seq(Signals \X Ids) /\ cmds' \in Nat /\ th' \in {"none", "poll"}
    BY <1>2 DEF Add, TypeOK
  <2> QED BY <1>2, <2>1, <2>2, FreshIs, Zenon DEF Add, TypeOK, front
<1>3. CASE RemoveBuffer
  <2>1. fq' \in Seq(Messages)
    BY <1>3, CtlSent, Zenon DEF RemoveBuffer
  <2>2. [cmd |-> "finalize"] \in Queued
    BY DEF Queued
  <2>3. q' \in Seq(Queued)
    BY <1>3, <2>2, AppendIs DEF RemoveBuffer, TypeOK
  <2> QED BY <1>3, <2>1, <2>3 DEF RemoveBuffer, TypeOK, front, mine, bounds
<1>4. CASE Removed
  <2>1. q' \in Seq(Queued)
    BY <1>4 DEF Removed
  <2> QED BY <1>4, <2>1, Zenon DEF Removed, TypeOK, front, mine, bounds
<1>5. ASSUME NEW c \in Offered, Recv(c) PROVE TypeOK'
  <2>1. c \in Queued
    BY BufferAssumption DEF Queued
  <2>2. q' \in Seq(Queued) /\ cmds' \in Nat
    BY <1>5, <2>1, AppendIs DEF Recv, TypeOK
  <2> QED BY <1>5, <2>2 DEF Recv, TypeOK, front, mine
<1>6. ASSUME NEW s \in Signals, NEW t \in Topics, RecvData(s, t) PROVE TypeOK'
  <2> DEFINE r == [cmd |-> "data", sig |-> s, topic |-> t]
  <2>1. r \in Queued
    BY Zenon DEF Queued
  <2>2. q' \in {q, Append(q, r)} /\ datas' = datas + 1
    BY <1>6 DEF RecvData
  <2> HIDE DEF r
  <2>3. Append(q, r) \in Seq(Queued)
    BY <2>1, AppendIs DEF TypeOK
  <2>4. q \in Seq(Queued) /\ datas \in Nat
    BY DEF TypeOK
  <2>5. q' \in Seq(Queued)
    BY <2>2, <2>3, <2>4, Zenon
  <2>6. datas' \in Nat
    BY <2>2, <2>4
  <2> QED BY <1>6, <2>5, <2>6 DEF RecvData, TypeOK, front, mine
<1>7. CASE Poll \/ Drained
  BY <1>7 DEF Poll, Drained, TypeOK, front, mine, bounds
<1>8. CASE HandleCmd
  BY <1>8, CmdKept
<1>9. CASE HandleOne
  <2>1. pend' \in Seq(Signals \X Ids)
    <3> DEFINE D == Signals \X Ids
    <3>1. pend \in Seq(D) /\ pend' = IF pend = <<>> THEN pend ELSE Tail(pend)
      BY <1>9 DEF HandleOne, TypeOK
    <3> HIDE DEF D
    <3>2. pend' \in Seq(D)
      BY <3>1, HeadTailIs
    <3> QED BY <3>2 DEF D
  <2> QED BY <1>9, <2>1 DEF HandleOne, TypeOK, front, bounds
<1>10. CASE Exit
  <2>1. fq' \in Seq(Messages) /\ sig' \in SignalStates
    BY <1>10, ExitIs
  <2>2. pend' \in Seq(Signals \X Ids)
    <3>1. pend' = <<>>
      BY <1>10, Zenon DEF Exit
    <3> QED BY <3>1
  <2> QED BY <1>10, <2>1, <2>2, Zenon DEF Exit, TypeOK, front, bounds
<1>11. CASE UNCHANGED vars
  BY <1>11 DEF vars, front, mine, bounds, TypeOK
<1> QED BY <1>1, <1>2, <1>3, <1>4, <1>5, <1>6, <1>7, <1>8, <1>9, <1>10, <1>11 DEF Next, Thread

\* Every step keeps the invariant when a thread ends within a second.
LEMMA InvStep == ~SlowJoin /\ IInv /\ [Next]_vars => IInv'
<1> SUFFICES ASSUME ~SlowJoin, IInv, [Next]_vars PROVE IInv'
  OBVIOUS
<1>0. TypeOK /\ TypeOK' /\ SubsInv /\ CtlInv /\ ListInv /\ ThreadInv
  BY TypeStep DEF IInv
<1>a. /\ alive \in BOOLEAN /\ removing \in BOOLEAN
      /\ Active(sig) \in SUBSET Signals /\ (th # "done" => AllocOK)
  BY <1>0 DEF TypeOK, Active, ThreadInv, AllocationFollowsState, AllocOK
<1>1. CASE Frontend
  <2>1. /\ \A s \in Signals : \A t \in Topics : WillSub(fq', subs', s, t) <=> WillSub(fq, subs, s, t)
        /\ WillCtl(fq', ctl') <=> WillCtl(fq, ctl)
        /\ \A A \in SUBSET Signals : WillList(fq', list', A) <=> WillList(fq, list, A)
    BY <1>0, <1>1, AfterHead, Zenon DEF Frontend
  <2>2. UNCHANGED <<alive, removing, th, pend, st, sig>>
    BY <1>1 DEF Frontend, mine
  <2>3. SubsInv' /\ CtlInv' /\ ListInv'
    BY <1>0, <1>a, <2>1, <2>2 DEF SubsInv, CtlInv, ListInv
  <2>4. ThreadInv'
    BY <1>0, <2>2 DEF ThreadInv, AllocationFollowsState, NoRequestForgotten, QueueOutlivesThread
  <2> QED BY <1>0, <2>3, <2>4 DEF IInv
<1>2. CASE Add
  <2>1. /\ WillCtl(fq', ctl')
        /\ \A s \in Signals : \A t \in Topics : WillSub(fq', subs', s, t) <=> WillSub(fq, subs, s, t)
    BY <1>0, <1>2, CtlSent, Zenon DEF Add
  <2>2. /\ alive' /\ removing' = removing /\ ~removing /\ ~alive /\ sig' = Fresh /\ st' = "idle" /\ pend' = <<>>
        /\ th' \in {"none", "poll"}
    BY <1>2 DEF Add, Free
  <2>3. \A s \in Signals : sig[s].topic = NoTopic
    BY <1>0, <2>2 DEF ThreadInv, QueueOutlivesThread
  <2>4. Active(sig') = {} /\ \A s \in Signals : sig'[s].topic = NoTopic /\ ~sig'[s].alloc
    BY <2>2, FreshIs
  <2>5. SubsInv'
    BY <1>0, <2>1, <2>3, <2>4, Zenon DEF SubsInv
  <2>6. CtlInv' /\ ListInv'
    BY <2>1, <2>2, <2>4 DEF CtlInv, ListInv
  <2>7. ThreadInv'
    BY <2>2, <2>4 DEF ThreadInv, AllocationFollowsState, NoRequestForgotten, QueueOutlivesThread
  <2> QED BY <1>0, <2>5, <2>6, <2>7 DEF IInv
<1>3. CASE RemoveBuffer
  <2>1. /\ ~WillCtl(fq', ctl')
        /\ \A s \in Signals : \A t \in Topics : WillSub(fq', subs', s, t) <=> WillSub(fq, subs, s, t)
        /\ \A A \in SUBSET Signals : WillList(fq', list', A) <=> WillList(fq, list, A)
    BY <1>0, <1>3, CtlSent, Zenon DEF RemoveBuffer
  <2>2. removing' /\ alive /\ UNCHANGED <<alive, th, pend, st, sig>>
    BY <1>3 DEF RemoveBuffer, mine
  <2>3. SubsInv' /\ CtlInv' /\ ListInv'
    BY <1>0, <1>a, <2>1, <2>2 DEF SubsInv, CtlInv, ListInv
  <2>4. ThreadInv'
    BY <1>0, <2>2 DEF ThreadInv, AllocationFollowsState, NoRequestForgotten, QueueOutlivesThread
  <2> QED BY <1>0, <2>3, <2>4 DEF IInv
<1>4. CASE Removed
  <2>1. /\ removing /\ ~removing' /\ ~alive' /\ th \in {"none", "done"}
        /\ UNCHANGED <<fq, ctl, subs, list, th, pend, st, sig>>
    BY <1>4 DEF Removed, front, mine
  <2>2. SubsInv' /\ CtlInv' /\ ListInv'
    BY <1>0, <2>1 DEF SubsInv, CtlInv, ListInv
  <2>3. ThreadInv'
    BY <1>0, <2>1 DEF ThreadInv, AllocationFollowsState, NoRequestForgotten, QueueOutlivesThread
  <2> QED BY <1>0, <2>2, <2>3 DEF IInv
<1>5. ASSUME UNCHANGED <<alive, fq, ctl, subs, list, removing, st, sig>>,
             \/ UNCHANGED <<th, pend>>
             \/ th \notin {"none", "done"} /\ th' \notin {"none", "done"} /\ (th' = "poll" => pend' = <<>>)
      PROVE  IInv'
  <2>1. SubsInv' /\ CtlInv' /\ ListInv'
    BY <1>0, <1>5 DEF SubsInv, CtlInv, ListInv
  <2>2. ThreadInv'
    BY <1>0, <1>5 DEF ThreadInv, AllocationFollowsState, NoRequestForgotten, QueueOutlivesThread
  <2> QED BY <1>0, <2>1, <2>2 DEF IInv
<1>6. ASSUME NEW c \in Offered, Recv(c) PROVE IInv'
  <2>1. UNCHANGED <<alive, fq, ctl, subs, list, removing, st, sig>> /\ UNCHANGED <<th, pend>>
    BY <1>6 DEF Recv, front, mine
  <2> QED BY <1>5, <2>1
<1>7. ASSUME NEW s \in Signals, NEW t \in Topics, RecvData(s, t) PROVE IInv'
  <2>1. UNCHANGED <<alive, fq, ctl, subs, list, removing, st, sig>> /\ UNCHANGED <<th, pend>>
    BY <1>7 DEF RecvData, front, mine
  <2> QED BY <1>5, <2>1
<1>8. CASE Poll \/ Drained
  <2>1. /\ UNCHANGED <<alive, fq, ctl, subs, list, removing, st, sig>>
        /\ th \in {"poll", "drain"} /\ th' \in {"drain", "req"}
    BY <1>8 DEF Poll, Drained, front, mine
  <2> QED BY <1>5, <2>1
<1>9. CASE HandleOne
  <2>1. /\ UNCHANGED <<alive, fq, ctl, subs, list, removing, st, sig>>
        /\ th = "req" /\ th' = IF exit THEN "exit" ELSE IF pend' # <<>> THEN "drain" ELSE "poll"
    BY <1>9 DEF HandleOne, front
  <2>2. th \notin {"none", "done"} /\ th' \notin {"none", "done"} /\ (th' = "poll" => pend' = <<>>)
    BY <2>1
  <2> QED BY <1>5, <2>1, <2>2
<1>10. CASE HandleCmd
  <2>1. /\ Kept /\ alive' = alive /\ removing' = removing
        /\ th = "drain" /\ th' \in {"drain", "req"}
    BY <1>0, <1>10, CmdKept
  <2>2. Settled
    BY <1>0, <1>a, <2>1 DEF Settled
  <2>3. SubsInv' /\ ListInv' /\ AllocOK' /\ (WillCtl(fq', ctl') <=> WillCtl(fq, ctl))
    BY <2>1, <2>2 DEF Kept, Settled
  <2>4. CtlInv'
    BY <1>0, <2>1, <2>3, Zenon DEF CtlInv
  <2>5. ThreadInv'
    BY <1>0, <2>1, <2>3 DEF ThreadInv, AllocationFollowsState, NoRequestForgotten, QueueOutlivesThread, AllocOK
  <2> QED BY <1>0, <2>3, <2>4, <2>5 DEF IInv
<1>11. CASE Exit
  <2>1. /\ SubsInv' /\ ListInv' /\ (WillCtl(fq', ctl') <=> WillCtl(fq, ctl))
        /\ \A s \in Signals : sig'[s].topic = NoTopic
    BY <1>0, <1>11, ExitIs
  <2>2. alive' = alive /\ removing' = removing /\ th' = "done"
    BY <1>11, Zenon DEF Exit
  <2>3. CtlInv'
    BY <1>0, <2>1, <2>2 DEF CtlInv
  <2>4. ThreadInv'
    BY <2>1, <2>2 DEF ThreadInv, AllocationFollowsState, NoRequestForgotten, QueueOutlivesThread
  <2> QED BY <1>0, <2>1, <2>3, <2>4 DEF IInv
<1>12. CASE UNCHANGED vars
  <2>1. UNCHANGED <<alive, fq, ctl, subs, list, removing, st, sig>> /\ UNCHANGED <<th, pend>>
    BY <1>12 DEF vars, front, mine
  <2> QED BY <1>5, <2>1
<1> QED BY <1>1, <1>2, <1>3, <1>4, <1>6, <1>7, <1>8, <1>9, <1>10, <1>11, <1>12 DEF Next, Thread

\* The buffer does not exist at first.
LEMMA InvInit == Init => IInv
<1> SUFFICES ASSUME Init PROVE IInv
  OBVIOUS
<1>1. /\ fq = <<>> /\ subs = {} /\ ctl = FALSE /\ list = {} /\ sig = Fresh /\ alive = FALSE /\ removing = FALSE
      /\ th = "none" /\ st = "idle" /\ pend = <<>> /\ q = <<>>
  BY DEF Init
<1>2. sig \in SignalStates /\ Active(sig) = {} /\ \A s \in Signals : sig[s].topic = NoTopic /\ ~sig[s].alloc
  BY <1>1, FreshIs
<1>3. TypeOK
  <2>1. pend \in Seq(Signals \X Ids)
    BY <1>1
  <2>2. q \in Seq(Queued) /\ fq \in Seq(Messages)
    BY <1>1
  <2> QED BY <1>1, <1>2, <2>1, <2>2, Zenon DEF Init, TypeOK
<1>4. ASSUME NEW s \in Signals, NEW t \in Topics
      PROVE  WillSub(fq, subs, s, t) <=> sig[s].topic = t
  <2>1. (<<s, t>> \in subs) \in BOOLEAN /\ ~(<<s, t>> \in subs) /\ t # NoTopic
    BY <1>1, BufferAssumption
  <2> QED BY <1>1, <1>2, <2>1, WillEmpty, Zenon DEF WillSub
<1>5. SubsInv
  BY <1>4 DEF SubsInv
<1>6. CtlInv
  BY <1>1, WillEmpty, Zenon DEF CtlInv, WillCtl
<1>7. ListInv
  BY <1>2 DEF ListInv
<1>8. ThreadInv
  BY <1>1, <1>2 DEF ThreadInv, AllocationFollowsState, NoRequestForgotten, QueueOutlivesThread
<1> QED BY <1>3, <1>5, <1>6, <1>7, <1>8 DEF IInv

\* When everything that was sent is handled, what the frontend will have is what it has.
LEMMA InvAgrees == IInv => BufferAgrees
<1> SUFFICES ASSUME IInv PROVE BufferAgrees
  OBVIOUS
<1>0. TypeOK /\ SubsInv /\ CtlInv /\ ListInv /\ ThreadInv
  BY DEF IInv
<1>1. ASSUME fq = <<>>, ~removing
      PROVE  /\ subs = {<<s, sig[s].topic>> : s \in {x \in Signals : sig[x].topic # NoTopic}}
             /\ ctl = alive
             /\ alive /\ Active(sig) # {} => list = Active(sig)
  <2>1. ASSUME NEW s \in Signals, NEW t \in Topics PROVE <<s, t>> \in subs <=> sig[s].topic = t
    <3>1. (<<s, t>> \in subs) \in BOOLEAN
      OBVIOUS
    <3>2. WillSub(fq, subs, s, t) <=> <<s, t>> \in subs
      BY <1>1, <3>1, WillEmpty, Zenon DEF WillSub
    <3> QED BY <1>0, <3>2 DEF SubsInv
  <2>2. subs \subseteq Signals \X Topics
    BY <1>0 DEF TypeOK
  <2>3. \A s \in Signals : sig[s].topic \in Topics \/ sig[s].topic = NoTopic
    BY <1>0 DEF TypeOK, SignalStates, MaybeTopic
  <2>4. \A s \in Signals : \A t : <<s, t>> \in subs <=> sig[s].topic = t /\ t # NoTopic
    BY <2>1, <2>2, <2>3, BufferAssumption, Zenon
  <2>5. subs = {<<s, sig[s].topic>> : s \in {x \in Signals : sig[x].topic # NoTopic}}
    BY <2>2, <2>4
  <2>6. ctl = alive
    <3>1. ctl \in BOOLEAN /\ alive \in BOOLEAN
      BY <1>0 DEF TypeOK
    <3>2. WillCtl(fq, ctl) <=> ctl
      BY <1>1, <3>1, WillEmpty, Zenon DEF WillCtl
    <3> QED BY <1>0, <1>1, <3>1, <3>2 DEF CtlInv
  <2>7. ASSUME Active(sig) # {} PROVE list = Active(sig)
    <3>1. (list = Active(sig)) \in BOOLEAN
      OBVIOUS
    <3>2. WillList(fq, list, Active(sig)) <=> list = Active(sig)
      BY <1>1, <3>1, WillEmpty, Zenon DEF WillList
    <3> QED BY <1>0, <2>7, <3>2 DEF ListInv
  <2> QED BY <2>5, <2>6, <2>7
<1>2. SubscriptionsFollow
  BY <1>1 DEF SubscriptionsFollow
<1> QED BY <1>0, <1>2 DEF BufferAgrees, ThreadInv

\* For any signals, topics and commands, and with any delay between the buffer and the
\* frontend: the state keeps its types.
THEOREM TypeCorrect == Spec => []TypeOK
<1>1. Init => TypeOK
  BY InvInit DEF IInv
<1> QED BY <1>1, TypeStep, PTL DEF Spec

\* For any signals, topics and commands, when a thread ends within the second that
\* _buffer_remove_inner waits for it: whenever the frontend has handled what the buffer
\* sent, it delivers to every signal the data of its topic and of no other and lists the
\* active signals, after any number of adds and removes; memory follows the state; no
\* request waits for the poll; and the queue outlives the thread.
THEOREM BufferStaysInStep == ~SlowJoin => (Spec => []BufferAgrees)
<1> SUFFICES ASSUME ~SlowJoin PROVE Spec => []BufferAgrees
  OBVIOUS
<1>1. IInv /\ [Next]_vars => IInv'
  BY InvStep
<1> QED BY <1>1, InvInit, InvAgrees, PTL DEF Spec
==============================================================================

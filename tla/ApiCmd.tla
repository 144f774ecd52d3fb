-------------------------------- MODULE ApiCmd --------------------------------
(***************************************************************************)
(* The blocking API of jsdrv.c: application threads that call              *)
(* jsdrv_publish, jsdrv_query, jsdrv_subscribe and jsdrv_unsubscribe, the  *)
(* frontend thread that serves them, and jsdrv_finalize.                   *)
(*                                                                         *)
(* A caller with a timeout puts a record on its own stack, hangs it on its *)
(* message and blocks on the record's event.  The frontend thread keeps    *)
(* the records in cmd_timeouts, ordered by deadline, and completes the     *)
(* first one whose TOPIC matches a return code, whoever's it is.           *)
(*                                                                         *)
(* The published topic is a command topic ("!..."), which is neither       *)
(* retained nor deduplicated (PubSub models those).  Its owner is a device *)
(* that answers late, or never.                                            *)
(***************************************************************************)
EXTENDS Integers, Sequences, TLAPS

CONSTANTS Callers,     \* application threads
          Ops,         \* Ops[c]: what caller c calls
          Timeouts,    \* timeout_ms values; 0 is asynchronous
          MaxCalls,    \* calls per caller (bound of the model)
          MaxTime,     \* the clock stops here (bound of the model)
          Finalizes    \* does the application call jsdrv_finalize?

OpNames == {"publish", "query", "subscribe", "unsubscribe", "timeout"}
LocalOps == {"query", "subscribe", "unsubscribe"}

ASSUME ApiAssumption ==
    /\ Ops \in [Callers -> SUBSET OpNames]
    /\ Timeouts \subseteq Nat
    /\ MaxCalls \in Nat
    /\ MaxTime \in Nat
    /\ Finalizes \in BOOLEAN

VARIABLES now,          \* jsdrv_time_utc()
          call,         \* call[c]: the call c makes, or made last
          msg_cmd,      \* c->msg_cmd
          msg_backend,  \* c->msg_backend
          msg_pend,     \* pubsub->msg_pend
          cmd_timeouts, \* c->cmd_timeouts, as the callers owning the records
          subscribers,  \* callers whose callback is subscribed
          device,       \* commands the device holds
          processed,    \* calls whose publish the device has processed
          frontend,     \* where the frontend thread is in its loop
          finalizer,    \* where jsdrv_finalize is
          do_exit

vars == <<now, call, msg_cmd, msg_backend, msg_pend, cmd_timeouts,
          subscribers, device, processed, frontend, finalizer, do_exit>>

\* A message names the call it stands for; timed is m->timeout # NULL,
\* which is also m->source.
Msg(op, c, n, timed) == [op |-> op, who |-> c, n |-> n, timed |-> timed]

\* The return code on op's topic#, with the call whose processing produced it.
Rsp(op, c, n, rc) == [op |-> "#", of |-> op, who |-> c, n |-> n, rc |-> rc]

Init ==
    /\ now = 0
    /\ call = [c \in Callers |->
                 [st |-> "idle", op |-> "none", n |-> 0, deadline |-> 0, rc |-> "none"]]
    /\ msg_cmd = <<>> /\ msg_backend = <<>> /\ msg_pend = <<>>
    /\ cmd_timeouts = <<>>
    /\ subscribers = {} /\ device = <<>> /\ processed = {}
    /\ frontend = "loop" /\ finalizer = "none" /\ do_exit = FALSE

Tick ==
    /\ now < MaxTime
    /\ now' = now + 1
    /\ UNCHANGED <<call, msg_cmd, msg_backend, msg_pend, cmd_timeouts, subscribers,
                   device, processed, frontend, finalizer, do_exit>>

------------------------------------------------------------------------------
(* The callers: api_cmd                                                     *)

\* api_cmd up to the push: the deadline is taken from the clock first.
\* No call starts once jsdrv_finalize was called.  jsdrv_query always blocks.
Begin(c) ==
    /\ finalizer = "none"
    /\ call[c].st = "idle" /\ call[c].n < MaxCalls
    /\ \E op \in Ops[c], ms \in Timeouts :
         /\ op = "query" => ms > 0
         /\ now + ms <= MaxTime
         /\ call' = [call EXCEPT ![c] =
                       [st |-> IF ms > 0 THEN "armed" ELSE "async", op |-> op,
                        n |-> @.n + 1, deadline |-> now + ms, rc |-> "none"]]
    /\ UNCHANGED <<now, msg_cmd, msg_backend, msg_pend, cmd_timeouts, subscribers,
                   device, processed, frontend, finalizer, do_exit>>

\* msg_queue_push(context->msg_cmd, m); without a timeout the call returns.
PushCmd(c) ==
    /\ call[c].st \in {"armed", "async"}
    /\ msg_cmd' = Append(msg_cmd, Msg(call[c].op, c, call[c].n, call[c].st = "armed"))
    /\ call' = [call EXCEPT ![c] =
                  IF @.st = "armed" THEN [@ EXCEPT !.st = "wait"]
                                    ELSE [@ EXCEPT !.st = "idle", !.rc = "queued"]]
    /\ UNCHANGED <<now, msg_backend, msg_pend, cmd_timeouts, subscribers, device,
                   processed, frontend, finalizer, do_exit>>

\* The event is signalled: api_cmd reads return_code and leaves the frame
\* that holds the record.
Return(c) ==
    /\ call[c].st = "signalled"
    /\ call' = [call EXCEPT ![c].st = "idle"]
    /\ UNCHANGED <<now, msg_cmd, msg_backend, msg_pend, cmd_timeouts, subscribers,
                   device, processed, frontend, finalizer, do_exit>>

------------------------------------------------------------------------------
(* The list of pending timeouts                                             *)

Deadline(c) == call[c].deadline

\* jsdrv_list_insert_before and jsdrv_list_remove at position k
InsertBefore(list, k, c) == SubSeq(list, 1, k - 1) \o <<c>> \o SubSeq(list, k, Len(list))
RemoveItem(list, k) == SubSeq(list, 1, k - 1) \o SubSeq(list, k + 1, Len(list))

Elems(s) == {s[i] : i \in 1..Len(s)}

\* timeout_add: before the first record with a later deadline
TimeoutAdd(c) ==
    \E k \in 1..(Len(cmd_timeouts) + 1) :
      /\ \A i \in 1..(k - 1) : Deadline(cmd_timeouts[i]) <= Deadline(c)
      /\ k <= Len(cmd_timeouts) => Deadline(c) < Deadline(cmd_timeouts[k])
      /\ cmd_timeouts' = InsertBefore(cmd_timeouts, k, c)

\* Set return_code and signal the event of each record in S.
Signal(S, rc) ==
    [c \in Callers |-> IF c \in S THEN [call[c] EXCEPT !.st = "signalled", !.rc = rc]
                                  ELSE call[c]]

\* The first record whose topic matches is at k.
FirstMatch(k, op) ==
    /\ call[cmd_timeouts[k]].op = op
    /\ \A i \in 1..(k - 1) : call[cmd_timeouts[i]].op # op

\* Faulty: the completed record stays on the list.
TimeoutCompleteKeep(op, rc) ==
    \/ /\ \A c \in Elems(cmd_timeouts) : call[c].op # op
       /\ UNCHANGED <<call, cmd_timeouts>>
    \/ \E k \in 1..Len(cmd_timeouts) :
         /\ FirstMatch(k, op)
         /\ UNCHANGED cmd_timeouts
         /\ call' = Signal({cmd_timeouts[k]}, rc)

\* timeout_complete: the first record whose topic matches
TimeoutComplete(op, rc) ==
    \/ /\ \A c \in Elems(cmd_timeouts) : call[c].op # op
       /\ UNCHANGED <<call, cmd_timeouts>>
    \/ \E k \in 1..Len(cmd_timeouts) :
         /\ FirstMatch(k, op)
         /\ cmd_timeouts' = RemoveItem(cmd_timeouts, k)
         /\ call' = Signal({cmd_timeouts[k]}, rc)

------------------------------------------------------------------------------
(* The frontend thread                                                      *)

\* while (!c->do_exit), then poll(): it returns on a message or, at the
\* latest, after FRONTEND_THREAD_POLL_MS
Loop ==
    /\ frontend = "loop"
    /\ frontend' = IF do_exit THEN "exit" ELSE "backend"
    /\ UNCHANGED <<now, call, msg_cmd, msg_backend, msg_pend, cmd_timeouts,
                   subscribers, device, processed, finalizer, do_exit>>

\* handle_backend_msg: a return code from the device is published
HandleBackendMsg ==
    /\ frontend = "backend"
    /\ IF msg_backend = <<>>
       THEN frontend' = "cmd" /\ UNCHANGED <<msg_backend, msg_pend>>
       ELSE /\ msg_pend' = Append(msg_pend, Head(msg_backend))
            /\ msg_backend' = Tail(msg_backend)
            /\ UNCHANGED frontend
    /\ UNCHANGED <<now, call, msg_cmd, cmd_timeouts, subscribers, device, processed,
                   finalizer, do_exit>>

\* handle_cmd_msg
HandleCmdMsg ==
    /\ frontend = "cmd"
    /\ msg_cmd # <<>>
    /\ LET m == Head(msg_cmd) IN
         /\ msg_cmd' = Tail(msg_cmd)
         /\ IF m.timed THEN TimeoutAdd(m.who) ELSE UNCHANGED cmd_timeouts
         /\ msg_pend' = IF m.op \in {"finalize", "timeout"} THEN msg_pend
                                                           ELSE Append(msg_pend, m)
         /\ do_exit' = (do_exit \/ m.op = "finalize")
         /\ frontend' = IF m.op = "finalize" THEN "process" ELSE "cmd"
    /\ UNCHANGED <<now, call, msg_backend, subscribers, device, processed, finalizer>>

HandleCmdNone ==
    /\ frontend = "cmd"
    /\ msg_cmd = <<>>
    /\ frontend' = "process"
    /\ UNCHANGED <<now, call, msg_cmd, msg_backend, msg_pend, cmd_timeouts,
                   subscribers, device, processed, finalizer, do_exit>>

\* process_msg on a "_/!..." command: its effect, then, for a caller that
\* waits, the return code at once
ProcessLocal(m) ==
    LET rc == IF m.op = "unsubscribe" /\ m.who \notin subscribers
              THEN "not_found" ELSE "ok"
    IN  /\ subscribers' = CASE m.op = "subscribe"   -> subscribers \cup {m.who}
                             [] m.op = "unsubscribe" -> subscribers \ {m.who}
                             [] OTHER                -> subscribers
        /\ IF m.timed THEN TimeoutComplete(m.op, rc)
                      ELSE UNCHANGED <<call, cmd_timeouts>>
        /\ UNCHANGED device

\* publish_normal: device_subscriber queues the command for the device
ProcessPublish(m) ==
    /\ device' = Append(device, m)
    /\ UNCHANGED <<call, cmd_timeouts, subscribers>>

\* publish_return_code: on_return_code completes a record
ProcessReturnCode(m) ==
    /\ TimeoutComplete(m.of, m.rc)
    /\ UNCHANGED <<subscribers, device>>

\* jsdrv_pubsub_process, one message at a time
ProcessMsg ==
    /\ frontend = "process"
    /\ msg_pend # <<>>
    /\ LET m == Head(msg_pend) IN
         \/ m.op \in LocalOps  /\ ProcessLocal(m)
         \/ m.op = "publish"   /\ ProcessPublish(m)
         \/ m.op = "#"         /\ ProcessReturnCode(m)
    /\ msg_pend' = Tail(msg_pend)
    /\ UNCHANGED <<now, msg_cmd, msg_backend, processed, frontend, finalizer, do_exit>>

\* Faulty: jsdrv_pubsub_process may leave messages for the next pass.
ProcessDoneEarly ==
    /\ frontend = "process"
    /\ frontend' = "timeouts"
    /\ UNCHANGED <<now, call, msg_cmd, msg_backend, msg_pend, cmd_timeouts,
                   subscribers, device, processed, finalizer, do_exit>>

\* jsdrv_pubsub_process returns: no message is left
ProcessDone ==
    /\ frontend = "process"
    /\ msg_pend = <<>>
    /\ frontend' = "timeouts"
    /\ UNCHANGED <<now, call, msg_cmd, msg_backend, msg_pend, cmd_timeouts,
                   subscribers, device, processed, finalizer, do_exit>>

\* Faulty: expired records are dropped without the signal.
TimeoutProcessSilent ==
    /\ frontend = "timeouts"
    /\ cmd_timeouts' = SelectSeq(cmd_timeouts, LAMBDA c : Deadline(c) > now)
    /\ frontend' = "loop"
    /\ UNCHANGED <<now, call, msg_cmd, msg_backend, msg_pend, subscribers, device,
                   processed, finalizer, do_exit>>

\* timeout_process: expire from the head, stop at the first that is not due
TimeoutProcess ==
    /\ frontend = "timeouts"
    /\ \E due \in 0..Len(cmd_timeouts) :
         /\ \A i \in 1..due : Deadline(cmd_timeouts[i]) <= now
         /\ due < Len(cmd_timeouts) => Deadline(cmd_timeouts[due + 1]) > now
         /\ call' = Signal({cmd_timeouts[i] : i \in 1..due}, "timed_out")
         /\ cmd_timeouts' = SubSeq(cmd_timeouts, due + 1, Len(cmd_timeouts))
    /\ frontend' = "loop"
    /\ UNCHANGED <<now, msg_cmd, msg_backend, msg_pend, subscribers, device,
                   processed, finalizer, do_exit>>

\* Faulty: the list is cleared without the signals.
FrontendExitSilent ==
    /\ frontend = "exit"
    /\ cmd_timeouts' = <<>>
    /\ device' = <<>>
    /\ frontend' = "exited"
    /\ UNCHANGED <<now, call, msg_cmd, msg_backend, msg_pend, subscribers, processed,
                   finalizer, do_exit>>

\* After the loop: device_remove_all joins the device thread, then
\* timeouts_finalize aborts what is still in cmd_timeouts.
FrontendExit ==
    /\ frontend = "exit"
    /\ call' = Signal(Elems(cmd_timeouts), "aborted")
    /\ cmd_timeouts' = <<>>
    /\ device' = <<>>
    /\ frontend' = "exited"
    /\ UNCHANGED <<now, msg_cmd, msg_backend, msg_pend, subscribers, processed,
                   finalizer, do_exit>>

------------------------------------------------------------------------------
(* The device, which owns the published topic                               *)

DeviceRespond ==
    /\ device # <<>>
    /\ LET m == Head(device) IN
         /\ processed' = processed \cup {<<m.who, m.n>>}
         /\ msg_backend' = Append(msg_backend, Rsp("publish", m.who, m.n, "ok"))
    /\ device' = Tail(device)
    /\ UNCHANGED <<now, call, msg_cmd, msg_pend, cmd_timeouts, subscribers, frontend,
                   finalizer, do_exit>>

\* The device drops a command that its state does not allow.
DeviceDrop ==
    /\ device # <<>>
    /\ device' = Tail(device)
    /\ UNCHANGED <<now, call, msg_cmd, msg_backend, msg_pend, cmd_timeouts,
                   subscribers, processed, frontend, finalizer, do_exit>>

------------------------------------------------------------------------------
(* jsdrv_finalize                                                           *)

\* The application finalizes when no thread is about to enter the API;
\* calls that are already blocked in it may exist.
FinalizeBegin ==
    /\ Finalizes /\ finalizer = "none"
    /\ \A c \in Callers : call[c].st \notin {"armed", "async"}
    /\ do_exit' = TRUE
    /\ finalizer' = "exit_set"
    /\ UNCHANGED <<now, call, msg_cmd, msg_backend, msg_pend, cmd_timeouts,
                   subscribers, device, processed, frontend>>

FinalizePush ==
    /\ finalizer = "exit_set"
    /\ msg_cmd' = Append(msg_cmd, [op |-> "finalize", timed |-> FALSE])
    /\ finalizer' = "joining"
    /\ UNCHANGED <<now, call, msg_backend, msg_pend, cmd_timeouts, subscribers,
                   device, processed, frontend, do_exit>>

\* jsdrv_thread_join returned: the queues are freed with what they hold.
FinalizeFree ==
    /\ finalizer = "joining" /\ frontend = "exited"
    /\ msg_cmd' = <<>> /\ msg_backend' = <<>>
    /\ finalizer' = "freed"
    /\ UNCHANGED <<now, call, msg_pend, cmd_timeouts, subscribers, device, processed,
                   frontend, do_exit>>

------------------------------------------------------------------------------
CallerStep(c) == Begin(c) \/ PushCmd(c) \/ Return(c)

FrontendStep ==
    \/ Loop \/ HandleBackendMsg \/ HandleCmdMsg \/ HandleCmdNone
    \/ ProcessMsg \/ ProcessDone \/ TimeoutProcess \/ FrontendExit

DeviceStep == DeviceRespond \/ DeviceDrop

FinalizeStep == FinalizeBegin \/ FinalizePush \/ FinalizeFree

Next ==
    \/ Tick \/ FrontendStep \/ DeviceStep \/ FinalizeStep
    \/ \E c \in Callers : CallerStep(c)

Spec == Init /\ [][Next]_vars

\* The clock and the threads run; the device need never answer, and nobody
\* need ever call or finalize.
FairSpec ==
    /\ Spec
    /\ WF_vars(Tick)
    /\ WF_vars(FrontendStep)
    /\ \A c \in Callers : WF_vars(PushCmd(c)) /\ WF_vars(Return(c))

------------------------------------------------------------------------------
Calls == [st : {"idle", "armed", "async", "wait", "signalled"},
          op : OpNames \cup {"none"}, n : 0..MaxCalls, deadline : 0..MaxTime,
          rc : {"none", "queued", "ok", "not_found", "timed_out", "aborted"}]

Requests == [op : OpNames, who : Callers, n : 1..MaxCalls, timed : BOOLEAN]
ReturnCodes == [op : {"#"}, of : {"publish"}, who : Callers, n : 1..MaxCalls, rc : {"ok"}]
Finalizations == [op : {"finalize"}, timed : {FALSE}]

TypeOK ==
    /\ now \in 0..MaxTime
    /\ call \in [Callers -> Calls]
    /\ msg_cmd \in Seq(Requests \cup Finalizations)
    /\ msg_backend \in Seq(ReturnCodes)
    /\ msg_pend \in Seq(Requests \cup ReturnCodes)
    /\ cmd_timeouts \in Seq(Callers)
    /\ subscribers \subseteq Callers
    /\ device \in Seq(Requests)
    /\ processed \subseteq Callers \X (1..MaxCalls)
    /\ frontend \in {"loop", "backend", "cmd", "process", "timeouts", "exit", "exited"}
    /\ finalizer \in {"none", "exit_set", "joining", "freed"}
    /\ do_exit \in BOOLEAN

\* The frontend thread holds pointers into callers' stack frames only while
\* those callers are blocked in api_cmd ("use a stack variable, but block on
\* timeout to ensure stays in scope"): every record of cmd_timeouts, and
\* every record still hanging on a queued command, has its own waiting owner.
StackRecordsAlive ==
    /\ \A i \in 1..Len(cmd_timeouts) : call[cmd_timeouts[i]].st = "wait"
    /\ \A i, j \in 1..Len(cmd_timeouts) : cmd_timeouts[i] = cmd_timeouts[j] => i = j
    /\ \A i \in 1..Len(msg_cmd) : msg_cmd[i].timed =>
         /\ call[msg_cmd[i].who].st = "wait"
         /\ \A j \in 1..Len(cmd_timeouts) : cmd_timeouts[j] # msg_cmd[i].who
         /\ \A j \in 1..Len(msg_cmd) :
              msg_cmd[j].timed /\ msg_cmd[j].who = msg_cmd[i].who => i = j

\* No blocked caller is forgotten: while the context exists, whoever waits
\* in api_cmd has its record in cmd_timeouts or on a queued command.
WaitersTracked ==
    finalizer # "freed" =>
      \A c \in Callers : call[c].st = "wait" =>
        \/ \E i \in 1..Len(cmd_timeouts) : cmd_timeouts[i] = c
        \/ \E i \in 1..Len(msg_cmd) : msg_cmd[i].timed /\ msg_cmd[i].who = c

\* "This function is always blocking and waits for ... the operation to
\* complete": a pending query writes through its caller's value pointer only
\* while that call is still blocked.
QueryValueAlive ==
    \A i \in 1..Len(msg_pend) : msg_pend[i].op = "query" =>
        call[msg_pend[i].who].st = "wait" /\ call[msg_pend[i].who].n = msg_pend[i].n

\* "Blocking unsubscribe ensures that cbk_fn() will not be called when this
\* function returns."
UnsubscribeIsFinal ==
    \A c \in Callers :
        call[c].st = "idle" /\ call[c].op = "unsubscribe" /\ call[c].rc = "ok"
          => c \notin subscribers

\* "the call blocks until the topic owner (if any) has processed the publish,
\* and the return value reflects that processing"
ReturnReflectsProcessing ==
    \A c \in Callers :
        call[c].st = "idle" /\ call[c].op = "publish" /\ call[c].rc = "ok"
          => <<c, call[c].n>> \in processed

\* "all timeouts, including this one, expire on finalize": once the context
\* is gone nobody is left blocked in it.
FinalizeReleasesCallers ==
    finalizer = "freed" => \A c \in Callers : call[c].st # "wait"

\* What a call lent to the driver is not used after the call has returned: the
\* value of a query that is still pending, the callback of an unsubscribe.
NothingUsedAfterReturn == QueryValueAlive /\ UnsubscribeIsFinal

Blocked(c) == call[c].st \in {"wait", "signalled"} /\ ~do_exit

\* While the driver runs, every blocking call returns, answered or not.
CallsReturn == \A c \in Callers : []<>~Blocked(c)

------------------------------------------------------------------------------
(* Sequence operations of the list of timeouts                              *)

\* An element of a sequence is one of its set.
LEMMA ElementOf ==
    ASSUME NEW S, NEW s \in Seq(S), NEW i \in 1..Len(s)
    PROVE  s[i] \in S
OBVIOUS

\* A sequence is a function on 1..Len.
LEMMA LenIs ==
    ASSUME NEW S, NEW s \in Seq(S)
    PROVE  Len(s) \in Nat /\ s \in [1..Len(s) -> S] /\ DOMAIN s = 1..Len(s)
OBVIOUS

\* Only the empty sequence has no element.
LEMMA EmptyIs ==
    ASSUME NEW S
    PROVE  <<>> \in Seq(S) /\ Len(<<>>) = 0 /\ \A s \in Seq(S) : s # <<>> => Len(s) \in Nat \ {0}
OBVIOUS

\* What msg_queue_push leaves: the old elements and the new one.
LEMMA AppendIs ==
    ASSUME NEW S, NEW s \in Seq(S), NEW e \in S
    PROVE  /\ Append(s, e) \in Seq(S) /\ Append(s, e) # <<>> /\ Len(Append(s, e)) = Len(s) + 1
           /\ \A i \in 1..Len(s) : Append(s, e)[i] = s[i]
           /\ Append(s, e)[Len(s) + 1] = e
OBVIOUS

\* What msg_queue_pop takes and leaves.
LEMMA HeadTailIs ==
    ASSUME NEW S, NEW s \in Seq(S), s # <<>>
    PROVE  /\ Head(s) \in S /\ Tail(s) \in Seq(S) /\ Len(Tail(s)) = Len(s) - 1
           /\ \A i \in 1..Len(Tail(s)) : Tail(s)[i] = s[i + 1]
OBVIOUS

\* Concatenation, element by element
LEMMA ConcatIs ==
    ASSUME NEW S, NEW s \in Seq(S), NEW t \in Seq(S)
    PROVE  /\ s \o t \in Seq(S) /\ Len(s \o t) = Len(s) + Len(t)
           /\ \A i \in 1..(Len(s) + Len(t)) : (s \o t)[i] = IF i <= Len(s) THEN s[i] ELSE t[i - Len(s)]
OBVIOUS

\* A part of a sequence, element by element
LEMMA SubSeqIs ==
    ASSUME NEW S, NEW s, NEW m \in Int, NEW n \in Int, \A i \in m..n : s[i] \in S
    PROVE  /\ SubSeq(s, m, n) \in Seq(S) /\ Len(SubSeq(s, m, n)) = IF m <= n THEN n - m + 1 ELSE 0
           /\ \A i \in 1..(n - m + 1) : SubSeq(s, m, n)[i] = s[m + i - 1]
OBVIOUS

\* InsertBefore puts one element in and keeps the others, in timeout_add.
LEMMA InsertBeforeProperties ==
    ASSUME NEW S, NEW s \in Seq(S), NEW e \in S, NEW k \in 1..(Len(s) + 1)
    PROVE  /\ InsertBefore(s, k, e) \in Seq(S)
           /\ Len(InsertBefore(s, k, e)) = Len(s) + 1
           /\ \A i \in 1..(Len(s) + 1) :
                InsertBefore(s, k, e)[i] = IF i < k THEN s[i]
                                       ELSE IF i = k THEN e ELSE s[i - 1]
<1> DEFINE a == SubSeq(s, 1, k - 1)
           b == SubSeq(s, k, Len(s))
<1>1. /\ a \in Seq(S) /\ Len(a) = k - 1
      /\ \A i \in 1..(k - 1) : a[i] = s[i]
  BY SubSeqIs, ElementOf, LenIs
<1>2. /\ b \in Seq(S) /\ Len(b) = Len(s) - k + 1
      /\ \A i \in 1..(Len(s) - k + 1) : b[i] = s[k + i - 1]
  BY SubSeqIs, ElementOf, LenIs
<1>3. <<e>> \in Seq(S) /\ Len(<<e>>) = 1 /\ <<e>>[1] = e
  OBVIOUS
<1>4. InsertBefore(s, k, e) = (a \o <<e>>) \o b
  BY DEF InsertBefore
<1> HIDE DEF a, b
<1> DEFINE ae == a \o <<e>>
<1>5. /\ ae \in Seq(S) /\ Len(ae) = k
      /\ \A i \in 1..k : ae[i] = IF i < k THEN s[i] ELSE e
  <2>1. /\ ae \in Seq(S) /\ Len(ae) = Len(a) + Len(<<e>>)
        /\ \A i \in 1..(Len(a) + Len(<<e>>)) :
             ae[i] = IF i <= Len(a) THEN a[i] ELSE <<e>>[i - Len(a)]
    BY <1>1, <1>3, ConcatIs
  <2>2. Len(a) + Len(<<e>>) = k
    BY <1>1, <1>3
  <2>3. ASSUME NEW i \in 1..k PROVE ae[i] = IF i < k THEN s[i] ELSE e
    <3>1. CASE i < k
      <4>1. i \in 1..(k - 1) /\ i <= Len(a)
        BY <3>1, <1>1
      <4>2. ae[i] = a[i]
        BY <4>1, <2>1, <2>2
      <4> QED BY <3>1, <4>1, <4>2, <1>1
    <3>2. CASE i = k
      <4>1. ~(i <= Len(a)) /\ i - Len(a) = 1
        BY <3>2, <1>1
      <4>2. ae[i] = <<e>>[i - Len(a)]
        BY <4>1, <2>1, <2>2
      <4>3. ae[i] = e /\ ~(i < k)
        BY <3>2, <4>1, <4>2, <1>3
      <4> QED BY <4>3, Zenon
    <3>3. i < k \/ i = k
      OBVIOUS
    <3> QED BY <3>1, <3>2, <3>3, Zenon
  <2> HIDE DEF ae
  <2> QED BY <2>1, <2>2, <2>3
<1> HIDE DEF ae
<1>6. /\ ae \o b \in Seq(S)
      /\ Len(ae \o b) = Len(s) + 1
      /\ \A i \in 1..(Len(s) + 1) :
           (ae \o b)[i] = IF i <= k THEN ae[i] ELSE b[i - k]
  <2>1. /\ ae \o b \in Seq(S) /\ Len(ae \o b) = Len(ae) + Len(b)
        /\ \A i \in 1..(Len(ae) + Len(b)) :
             (ae \o b)[i] = IF i <= Len(ae) THEN ae[i] ELSE b[i - Len(ae)]
    BY <1>2, <1>5, ConcatIs
  <2>2. Len(ae) + Len(b) = Len(s) + 1 /\ Len(ae) = k
    BY <1>2, <1>5, LenIs
  <2> QED BY <2>1, <2>2, Zenon
<1>7. ASSUME NEW i \in 1..(Len(s) + 1)
      PROVE  (ae \o b)[i] = IF i < k THEN s[i] ELSE IF i = k THEN e ELSE s[i - 1]
  <2>0. Len(s) \in Nat
    BY LenIs
  <2>1. CASE i <= k
    <3>1. i \in 1..k
      BY <2>0, <2>1
    <3>2. (ae \o b)[i] = ae[i]
      BY <1>6, <2>1
    <3>3. ae[i] = IF i < k THEN s[i] ELSE e
      BY <1>5, <3>1
    <3> QED BY <2>1, <3>2, <3>3
  <2>2. CASE i > k
    <3>1. i - k \in 1..(Len(s) - k + 1) /\ k + (i - k) - 1 = i - 1 /\ ~(i <= k)
      BY <2>0, <2>2
    <3>2. (ae \o b)[i] = b[i - k]
      BY <1>6, <3>1
    <3>3. b[i - k] = s[k + (i - k) - 1]
      BY <1>2, <3>1, SMTT(30)
    <3>4. (ae \o b)[i] = s[i - 1] /\ ~(i < k) /\ i # k
      BY <2>2, <3>1, <3>2, <3>3
    <3> QED BY <3>4, Zenon
  <2>3. i <= k \/ i > k
    BY <2>0
  <2> QED BY <2>1, <2>2, <2>3, Zenon
<1> QED BY <1>4, <1>6, <1>7, SMTT(30) DEF ae

\* RemoveItem takes one element out and keeps the others, in timeout_complete.
LEMMA RemoveItemProperties ==
    ASSUME NEW S, NEW s \in Seq(S), NEW k \in 1..Len(s)
    PROVE  /\ RemoveItem(s, k) \in Seq(S)
           /\ Len(RemoveItem(s, k)) = Len(s) - 1
           /\ \A i \in 1..(Len(s) - 1) :
                RemoveItem(s, k)[i] = IF i < k THEN s[i] ELSE s[i + 1]
<1> DEFINE a == SubSeq(s, 1, k - 1)
           b == SubSeq(s, k + 1, Len(s))
<1>1. /\ a \in Seq(S) /\ Len(a) = k - 1
      /\ \A i \in 1..(k - 1) : a[i] = s[i]
  BY SubSeqIs, ElementOf, LenIs
<1>2. /\ b \in Seq(S) /\ Len(b) = Len(s) - k
      /\ \A i \in 1..(Len(s) - k) : b[i] = s[k + i]
  BY SubSeqIs, ElementOf, LenIs
<1>3. RemoveItem(s, k) = a \o b
  BY DEF RemoveItem
<1> HIDE DEF a, b
<1>4. /\ a \o b \in Seq(S) /\ Len(a \o b) = Len(a) + Len(b)
      /\ \A i \in 1..(Len(a) + Len(b)) :
           (a \o b)[i] = IF i <= Len(a) THEN a[i] ELSE b[i - Len(a)]
  BY <1>1, <1>2, ConcatIs, Zenon
<1>5. Len(s) \in Nat /\ Len(a) + Len(b) = Len(s) - 1
  BY <1>1, <1>2, LenIs
<1>6. ASSUME NEW i \in 1..(Len(s) - 1)
      PROVE  (a \o b)[i] = IF i < k THEN s[i] ELSE s[i + 1]
  <2>1. CASE i < k
    <3>1. i \in 1..(k - 1) /\ i <= Len(a) /\ i \in 1..(Len(a) + Len(b))
      BY <1>1, <1>5, <2>1
    <3>2. (a \o b)[i] = a[i]
      BY <1>4, <3>1
    <3> QED BY <1>1, <2>1, <3>1, <3>2
  <2>2. CASE ~(i < k)
    <3>1. i - (k - 1) \in 1..(Len(s) - k) /\ k + (i - (k - 1)) = i + 1
      BY <1>5, <2>2
    <3>2. ~(i <= Len(a)) /\ i \in 1..(Len(a) + Len(b)) /\ i - Len(a) = i - (k - 1)
      BY <1>1, <1>5, <2>2
    <3>3. (a \o b)[i] = b[i - (k - 1)]
      BY <1>4, <3>2
    <3>4. b[i - (k - 1)] = s[k + (i - (k - 1))]
      BY <1>2, <3>1
    <3> QED BY <2>2, <3>1, <3>3, <3>4
  <2> QED BY <2>1, <2>2, Zenon
<1> QED BY <1>3, <1>4, <1>5, <1>6
------------------------------------------------------------------------------
(* The records a list holds, each once                                      *)

NoDups(s) == \A i, j \in 1..Len(s) : s[i] = s[j] => i = j

\* timeout_add before a later deadline
LEMMA InsertBeforeElems ==
    ASSUME NEW S, NEW s \in Seq(S), NEW e \in S, NEW k \in 1..(Len(s) + 1)
    PROVE  /\ InsertBefore(s, k, e) \in Seq(S)
           /\ Elems(InsertBefore(s, k, e)) = Elems(s) \cup {e}
           /\ NoDups(s) /\ e \notin Elems(s) => NoDups(InsertBefore(s, k, e))
<1> DEFINE t == InsertBefore(s, k, e)
<1>0. /\ t \in Seq(S) /\ Len(t) = Len(s) + 1 /\ Len(s) \in Nat
      /\ \A i \in 1..(Len(s) + 1) :
           t[i] = IF i < k THEN s[i] ELSE IF i = k THEN e ELSE s[i - 1]
  <2>1. Len(s) \in Nat
    BY LenIs
  <2>2. /\ t \in Seq(S) /\ Len(t) = Len(s) + 1
        /\ \A i \in 1..(Len(s) + 1) :
             t[i] = IF i < k THEN s[i] ELSE IF i = k THEN e ELSE s[i - 1]
    BY InsertBeforeProperties, SMTT(30)
  <2> HIDE DEF t
  <2> QED BY <2>1, <2>2
<1> HIDE DEF t
<1> DEFINE from(i) == IF i < k THEN i ELSE i - 1
<1>a. ASSUME NEW i \in 1..Len(t), i # k
      PROVE  from(i) \in 1..Len(s) /\ t[i] = s[from(i)]
  <2>1. CASE i < k
    BY <1>0, <2>1
  <2>2. CASE i > k
    BY <1>0, <2>2
  <2> QED BY <1>0, <1>a, <2>1, <2>2
<1>b. t[k] = e
  BY <1>0
<1>c. \A i, j \in 1..Len(t) : i # k /\ j # k /\ from(i) = from(j) => i = j
  BY <1>0
<1> HIDE DEF from
<1>1. Elems(t) \subseteq Elems(s) \cup {e}
  BY <1>a, <1>b DEF Elems
<1>2. e \in Elems(t)
  BY <1>0 DEF Elems
<1>3. ASSUME NEW i \in 1..Len(s) PROVE s[i] \in Elems(t)
  <2>1. CASE i < k
    BY <1>0, <2>1 DEF Elems
  <2>2. CASE ~(i < k)
    <3>1. i + 1 \in 1..Len(t) /\ t[i + 1] = s[i]
      BY <1>0, <2>2
    <3> QED BY <3>1 DEF Elems
  <2> QED BY <2>1, <2>2
<1>4. Elems(t) = Elems(s) \cup {e}
  BY <1>1, <1>2, <1>3, Zenon DEF Elems
<1>5. ASSUME NoDups(s), e \notin Elems(s) PROVE NoDups(t)
  BY <1>5, <1>a, <1>b, <1>c DEF NoDups, Elems
<1> QED BY <1>0, <1>4, <1>5 DEF t

\* timeout_complete takes out one record
LEMMA RemoveItemElems ==
    ASSUME NEW S, NEW s \in Seq(S), NEW k \in 1..Len(s), NoDups(s)
    PROVE  /\ RemoveItem(s, k) \in Seq(S)
           /\ Elems(RemoveItem(s, k)) = Elems(s) \ {s[k]}
           /\ NoDups(RemoveItem(s, k))
<1> DEFINE t == RemoveItem(s, k)
<1>0. /\ t \in Seq(S) /\ Len(t) = Len(s) - 1 /\ Len(s) \in Nat
      /\ \A i \in 1..(Len(s) - 1) : t[i] = IF i < k THEN s[i] ELSE s[i + 1]
  <2>1. Len(s) \in Nat
    BY LenIs
  <2> QED BY <2>1, RemoveItemProperties, Zenon
<1> HIDE DEF t
<1>1. Elems(t) \subseteq Elems(s) \ {s[k]}
  BY <1>0 DEF Elems, NoDups
<1>2. ASSUME NEW i \in 1..Len(s), i # k PROVE s[i] \in Elems(t)
  <2>1. CASE i < k
    BY <1>0, <2>1 DEF Elems
  <2>2. CASE i > k
    <3>1. i - 1 \in 1..Len(t) /\ t[i - 1] = s[i]
      BY <1>0, <2>2
    <3> QED BY <3>1 DEF Elems
  <2> QED BY <1>2, <2>1, <2>2
<1>3. Elems(t) = Elems(s) \ {s[k]}
  BY <1>1, <1>2, Zenon DEF Elems
<1>4. NoDups(t)
  BY <1>0, SMTT(30) DEF NoDups
<1> QED BY <1>0, <1>3, <1>4 DEF t

\* timeout_process takes out a prefix
LEMMA SuffixElems ==
    ASSUME NEW S, NEW s \in Seq(S), NEW d \in 0..Len(s), NoDups(s)
    PROVE  /\ SubSeq(s, d + 1, Len(s)) \in Seq(S)
           /\ Elems(SubSeq(s, d + 1, Len(s))) = Elems(s) \ {s[i] : i \in 1..d}
           /\ NoDups(SubSeq(s, d + 1, Len(s)))
<1> DEFINE t == SubSeq(s, d + 1, Len(s))
<1>0. /\ t \in Seq(S) /\ Len(t) = Len(s) - d /\ Len(s) \in Nat
      /\ \A i \in 1..(Len(s) - d) : t[i] = s[d + i]
  BY SubSeqIs, ElementOf, LenIs
<1> HIDE DEF t
<1>1. Elems(t) \subseteq Elems(s) \ {s[i] : i \in 1..d}
  BY <1>0 DEF Elems, NoDups
<1>2. ASSUME NEW i \in 1..Len(s), ~(i <= d) PROVE s[i] \in Elems(t)
  <2>1. i - d \in 1..Len(t) /\ t[i - d] = s[i]
    BY <1>0, <1>2
  <2> QED BY <2>1 DEF Elems
<1>3. Elems(t) = Elems(s) \ {s[i] : i \in 1..d}
  BY <1>1, <1>2, SMTT(30) DEF Elems
<1>4. NoDups(t)
  BY <1>0 DEF NoDups
<1> QED BY <1>0, <1>3, <1>4 DEF t
------------------------------------------------------------------------------
(* The operations of the frontend thread on the list                        *)

\* timeout_add adds the caller's record and keeps all the others.
LEMMA TimeoutAddElems ==
    ASSUME cmd_timeouts \in Seq(Callers), NEW c \in Callers, TimeoutAdd(c),
           NoDups(cmd_timeouts), c \notin Elems(cmd_timeouts)
    PROVE  /\ cmd_timeouts' \in Seq(Callers)
           /\ Elems(cmd_timeouts') = Elems(cmd_timeouts) \cup {c}
           /\ NoDups(cmd_timeouts')
<1>1. PICK k \in 1..(Len(cmd_timeouts) + 1) : cmd_timeouts' = InsertBefore(cmd_timeouts, k, c)
  BY Zenon DEF TimeoutAdd
<1> QED BY <1>1, InsertBeforeElems

\* timeout_complete signals exactly the record it takes out, or none.
LEMMA TimeoutCompleteElems ==
    ASSUME cmd_timeouts \in Seq(Callers), NoDups(cmd_timeouts),
           NEW op, NEW rc, TimeoutComplete(op, rc)
    PROVE  \E D \in SUBSET Elems(cmd_timeouts) :
             /\ cmd_timeouts' \in Seq(Callers)
             /\ Elems(cmd_timeouts') = Elems(cmd_timeouts) \ D
             /\ NoDups(cmd_timeouts')
             /\ call' = Signal(D, rc) \/ (D = {} /\ call' = call)
             /\ \A c \in D : call[c].op = op
<1>1. CASE UNCHANGED <<call, cmd_timeouts>>
  <2>1. NoDups(cmd_timeouts') /\ Elems(cmd_timeouts') = Elems(cmd_timeouts) \ {}
    BY <1>1 DEF NoDups, Elems
  <2> QED BY <1>1, <2>1, SMTT(30)
<1>2. ASSUME NEW k \in 1..Len(cmd_timeouts), FirstMatch(k, op),
             cmd_timeouts' = RemoveItem(cmd_timeouts, k), call' = Signal({cmd_timeouts[k]}, rc)
      PROVE  \E D \in SUBSET Elems(cmd_timeouts) :
               /\ cmd_timeouts' \in Seq(Callers)
               /\ Elems(cmd_timeouts') = Elems(cmd_timeouts) \ D
               /\ NoDups(cmd_timeouts')
               /\ call' = Signal(D, rc) \/ (D = {} /\ call' = call)
               /\ \A c \in D : call[c].op = op
  <2>1. {cmd_timeouts[k]} \in SUBSET Elems(cmd_timeouts)
    BY DEF Elems
  <2>2. /\ cmd_timeouts' \in Seq(Callers)
        /\ Elems(cmd_timeouts') = Elems(cmd_timeouts) \ {cmd_timeouts[k]}
        /\ NoDups(cmd_timeouts')
    BY <1>2, RemoveItemElems
  <2>3. \A c \in {cmd_timeouts[k]} : call[c].op = op
    BY <1>2 DEF FirstMatch
  <2> QED BY <1>2, <2>1, <2>2, <2>3
<1> QED BY <1>1, <1>2, Zenon DEF TimeoutComplete
------------------------------------------------------------------------------
(* The inductive invariant                                                  *)

\* StackRecordsAlive and WaitersTracked in terms of the set of records
RecordsInv ==
    /\ \A c \in Elems(cmd_timeouts) : call[c].st = "wait"
    /\ NoDups(cmd_timeouts)
    /\ \A i \in 1..Len(msg_cmd) : msg_cmd[i].timed =>
         call[msg_cmd[i].who].st = "wait" /\ msg_cmd[i].who \notin Elems(cmd_timeouts)
    /\ \A i, j \in 1..Len(msg_cmd) :
         msg_cmd[i].timed /\ msg_cmd[j].timed /\ msg_cmd[i].who = msg_cmd[j].who => i = j

WaitersInv ==
    finalizer # "freed" =>
      \A c \in Callers : call[c].st = "wait" =>
        \/ c \in Elems(cmd_timeouts)
        \/ \E i \in 1..Len(msg_cmd) : msg_cmd[i].timed /\ msg_cmd[i].who = c

\* A call that is under way has an operation and a number.
CallInv ==
    \A c \in Callers : call[c].st # "idle" => call[c].op # "none" /\ call[c].n >= 1

IInv == TypeOK /\ CallInv /\ RecordsInv /\ WaitersInv

\* The restatement implies what ApiCmd states.
LEMMA InvariantSuffices == IInv => StackRecordsAlive /\ WaitersTracked
<1> SUFFICES ASSUME IInv PROVE StackRecordsAlive /\ WaitersTracked
  OBVIOUS
<1>1. StackRecordsAlive
  BY SMTT(30) DEF IInv, RecordsInv, StackRecordsAlive, Elems, NoDups
<1>2. WaitersTracked
  BY DEF IInv, WaitersInv, WaitersTracked, Elems
<1> QED BY <1>1, <1>2

\* What timeout_complete, timeout_process and timeouts_finalize have in
\* common: the records they signal are the ones they take off the list.
LEMMA SignalPreserves ==
    ASSUME TypeOK, CallInv, RecordsInv, WaitersInv,
           NEW D \in SUBSET Elems(cmd_timeouts),
           NEW rc \in {"ok", "not_found", "timed_out", "aborted"},
           Elems(cmd_timeouts') = Elems(cmd_timeouts) \ D,
           NoDups(cmd_timeouts'),
           call' = Signal(D, rc) \/ (D = {} /\ call' = call),
           msg_cmd' = msg_cmd, finalizer' = finalizer
    PROVE  call' \in [Callers -> Calls] /\ CallInv' /\ RecordsInv' /\ WaitersInv'
<1>1. call \in [Callers -> Calls] /\ Elems(cmd_timeouts) \subseteq Callers
  BY ElementOf DEF TypeOK, Elems
<1>2. /\ call' \in [Callers -> Calls]
      /\ \A c \in Callers \ D : call'[c] = call[c]
      /\ \A c \in D : /\ call'[c].st = "signalled"
                       /\ call'[c].op = call[c].op /\ call'[c].n = call[c].n
  <2>1. CASE call' = call /\ D = {}
    BY <1>1, <2>1, SMTT(30)
  <2>2. CASE call' = Signal(D, rc)
    <3>1. ASSUME NEW c \in Callers
          PROVE  /\ [call[c] EXCEPT !.st = "signalled", !.rc = rc] \in Calls
                 /\ [call[c] EXCEPT !.st = "signalled", !.rc = rc].st = "signalled"
                 /\ [call[c] EXCEPT !.st = "signalled", !.rc = rc].op = call[c].op
                 /\ [call[c] EXCEPT !.st = "signalled", !.rc = rc].n = call[c].n
      <4>1. call[c] \in Calls
        BY <1>1
      <4> QED BY <4>1, Zenon DEF Calls
    <3>2. \A c \in Callers : call'[c] = IF c \in D
            THEN [call[c] EXCEPT !.st = "signalled", !.rc = rc] ELSE call[c]
      BY <2>2, Zenon DEF Signal
    <3>3. call' \in [Callers -> Calls]
      BY <1>1, <2>2, <3>1, Zenon DEF Signal
    <3> QED BY <1>1, <3>1, <3>2, <3>3, Zenon
  <2> QED BY <2>1, <2>2
<1>3. ASSUME NEW i \in 1..Len(msg_cmd), msg_cmd[i].timed
      PROVE  msg_cmd[i].who \in Callers \ D
  <2>1. msg_cmd[i] \in Requests \cup Finalizations
    BY ElementOf DEF TypeOK
  <2>2. msg_cmd[i].who \in Callers
    BY <1>3, <2>1, Zenon DEF Requests, Finalizations
  <2> QED BY <1>3, <2>2 DEF RecordsInv
<1>4. \A c \in Elems(cmd_timeouts') : c \in Callers \ D
  BY <1>1
<1>5. RecordsInv'
  <2>1. \A c \in Elems(cmd_timeouts') : call'[c].st = "wait"
    BY <1>2, <1>4 DEF RecordsInv
  <2>2. \A i \in 1..Len(msg_cmd') : msg_cmd'[i].timed =>
          call'[msg_cmd'[i].who].st = "wait" /\ msg_cmd'[i].who \notin Elems(cmd_timeouts')
    BY <1>2, <1>3 DEF RecordsInv
  <2> QED BY <2>1, <2>2 DEF RecordsInv
<1>6. WaitersInv'
  BY <1>2 DEF WaitersInv
<1>7. CallInv'
  <2>1. \A c \in D : call[c].st = "wait"
    BY DEF RecordsInv
  <2> QED BY <1>1, <1>2, <2>1 DEF CallInv
<1> QED BY <1>2, <1>5, <1>6, <1>7

\* A step that leaves the calls, the commands and the list alone.
LEMMA RecordsFrame ==
    ASSUME CallInv, RecordsInv, WaitersInv, UNCHANGED <<call, msg_cmd, cmd_timeouts>>,
           finalizer' # "freed" => finalizer # "freed"
    PROVE  CallInv' /\ RecordsInv' /\ WaitersInv'
BY DEF CallInv, RecordsInv, WaitersInv, Elems, NoDups

\* The context starts with nobody in it.
LEMMA InitEstablishes == Init => IInv
<1> SUFFICES ASSUME Init PROVE IInv
  OBVIOUS
<1>1. TypeOK
  <2>1. call \in [Callers -> Calls]
    BY ApiAssumption DEF Init, Calls
  <2>2. 0 \in 0..MaxTime
    BY ApiAssumption
  <2>3. \A S : <<>> \in Seq(S)
    BY EmptyIs
  <2> QED BY <2>1, <2>2, <2>3, Zenon DEF Init, TypeOK
<1>2. CallInv /\ RecordsInv /\ WaitersInv
  BY DEF Init, CallInv, RecordsInv, WaitersInv, Elems, NoDups
<1> QED BY <1>1, <1>2 DEF IInv

\* The steps that only move messages between the queues, the device and the
\* frontend thread, the clock, and the flags of jsdrv_finalize
LEMMA QuietSteps ==
    ASSUME IInv,
           \/ Tick \/ Loop \/ HandleBackendMsg \/ HandleCmdNone \/ ProcessDone
           \/ DeviceStep \/ FinalizeBegin
    PROVE  IInv'
<1> USE DEF IInv
<1>1. /\ UNCHANGED <<call, msg_cmd, cmd_timeouts>>
      /\ finalizer' # "freed" => finalizer # "freed"
      /\ CallInv' /\ RecordsInv' /\ WaitersInv'
  <2>1. UNCHANGED <<call, msg_cmd, cmd_timeouts>>
    BY DEF Tick, Loop, HandleBackendMsg, HandleCmdNone, ProcessDone, DeviceStep,
           DeviceRespond, DeviceDrop, FinalizeBegin
  <2>2. finalizer' # "freed" => finalizer # "freed"
    BY DEF Tick, Loop, HandleBackendMsg, HandleCmdNone, ProcessDone, DeviceStep,
           DeviceRespond, DeviceDrop, FinalizeBegin
  <2> QED BY <2>1, <2>2, RecordsFrame
<1>2. TypeOK'
  <2>1. CASE Tick
    BY <2>1, ApiAssumption DEF Tick, TypeOK
  <2>2. CASE Loop \/ HandleCmdNone \/ ProcessDone
    BY <2>2 DEF Loop, HandleCmdNone, ProcessDone, TypeOK
  <2>3. CASE HandleBackendMsg
    <3>1. CASE msg_backend = <<>>
      BY <2>3, <3>1 DEF HandleBackendMsg, TypeOK
    <3>2. CASE msg_backend # <<>>
      <4>1. Head(msg_backend) \in ReturnCodes /\ Tail(msg_backend) \in Seq(ReturnCodes)
        BY <3>2, HeadTailIs DEF TypeOK
      <4>2. Append(msg_pend, Head(msg_backend)) \in Seq(Requests \cup ReturnCodes)
        BY <4>1, AppendIs DEF TypeOK
      <4> QED BY <2>3, <3>2, <4>1, <4>2, Zenon DEF HandleBackendMsg, TypeOK
    <3> QED BY <3>1, <3>2
  <2>4. CASE DeviceRespond
    <3>1. Head(device) \in Requests /\ Tail(device) \in Seq(Requests)
      BY <2>4, HeadTailIs DEF DeviceRespond, TypeOK
    <3>2. Rsp("publish", Head(device).who, Head(device).n, "ok") \in ReturnCodes
      BY <3>1 DEF Rsp, Requests, ReturnCodes
    <3>3. processed' \subseteq Callers \X (1..MaxCalls)
      BY <2>4, <3>1 DEF DeviceRespond, TypeOK, Requests
    <3>4. msg_backend' \in Seq(ReturnCodes)
      BY <2>4, <3>2, AppendIs DEF DeviceRespond, TypeOK
    <3> QED BY <2>4, <3>1, <3>3, <3>4 DEF DeviceRespond, TypeOK
  <2>5. CASE DeviceDrop
    BY <2>5, HeadTailIs DEF DeviceDrop, TypeOK
  <2>6. CASE FinalizeBegin
    BY <2>6 DEF FinalizeBegin, TypeOK
  <2> QED BY <2>1, <2>2, <2>3, <2>4, <2>5, <2>6 DEF DeviceStep
<1> QED BY <1>1, <1>2

\* api_cmd: a caller that starts or leaves a call has no record anywhere.
LEMMA BeginReturn ==
    ASSUME IInv, NEW c \in Callers, Begin(c) \/ Return(c)
    PROVE  IInv'
<1> USE DEF IInv
<1>1. /\ call[c].st \in {"idle", "signalled"} /\ call'[c] \in Calls
      /\ call'[c].st # "idle" => call'[c].op # "none" /\ call'[c].n >= 1
      /\ call'[c].st # "wait" /\ call' = [call EXCEPT ![c] = call'[c]]
      /\ UNCHANGED <<msg_cmd, cmd_timeouts, finalizer>>
  <2>1. call[c] \in Calls /\ call \in [Callers -> Calls]
    BY DEF TypeOK
  <2>2. CASE Begin(c)
    <3>1. PICK op \in Ops[c], ms \in Timeouts :
            /\ now + ms <= MaxTime
            /\ call' = [call EXCEPT ![c] =
                 [st |-> IF ms > 0 THEN "armed" ELSE "async", op |-> op,
                  n |-> call[c].n + 1, deadline |-> now + ms, rc |-> "none"]]
      BY <2>2, Zenon DEF Begin
    <3>2. op \in OpNames /\ ms \in Nat /\ now \in Nat /\ MaxTime \in Nat
      BY ApiAssumption DEF TypeOK
    <3>3. call[c].n \in 0..MaxCalls /\ call[c].n < MaxCalls
      BY <2>1, <2>2 DEF Begin, Calls
    <3>4. call[c].n + 1 \in 0..MaxCalls /\ now + ms \in 0..MaxTime
      BY <3>1, <3>2, <3>3, ApiAssumption
    <3>5. call'[c] = [st |-> IF ms > 0 THEN "armed" ELSE "async", op |-> op,
                      n |-> call[c].n + 1, deadline |-> now + ms, rc |-> "none"]
      BY <2>1, <3>1
    <3>6. /\ call'[c] \in Calls /\ call'[c].st # "wait"
          /\ call'[c].op # "none" /\ call'[c].n >= 1
      BY <3>2, <3>3, <3>4, <3>5 DEF Calls, OpNames
    <3> QED BY <2>1, <2>2, <3>1, <3>5, <3>6 DEF Begin
  <2>3. CASE Return(c)
    <3>1. call'[c] = [call[c] EXCEPT !.st = "idle"]
      BY <2>1, <2>3 DEF Return
    <3>2. call'[c] \in Calls /\ call'[c].st = "idle"
      BY <2>1, <3>1 DEF Calls
    <3> QED BY <2>1, <2>3, <3>1, <3>2 DEF Return
  <2> QED BY <2>2, <2>3
<1>2. call \in [Callers -> Calls] /\ call' \in [Callers -> Calls]
  BY <1>1, Zenon DEF TypeOK
<1>3. \A d \in Callers : d # c => call'[d] = call[d]
  BY <1>1, <1>2
<1>4. Elems(cmd_timeouts) \subseteq Callers
  BY ElementOf DEF TypeOK, Elems
<1>5. c \notin Elems(cmd_timeouts)
  BY <1>1 DEF RecordsInv
<1>6. ASSUME NEW i \in 1..Len(msg_cmd), msg_cmd[i].timed
      PROVE  msg_cmd[i].who \in Callers \ {c}
  <2>1. msg_cmd[i] \in Requests \cup Finalizations
    BY ElementOf DEF TypeOK
  <2>2. msg_cmd[i].who \in Callers
    BY <1>6, <2>1, Zenon DEF Requests, Finalizations
  <2> QED BY <1>1, <1>6, <2>2 DEF RecordsInv
<1>7. RecordsInv'
  <2>1. Elems(cmd_timeouts') = Elems(cmd_timeouts) /\ NoDups(cmd_timeouts')
    BY <1>1 DEF RecordsInv
  <2> QED BY <1>1, <1>3, <1>4, <1>5, <1>6, <2>1 DEF RecordsInv
<1>8. WaitersInv'
  BY <1>1, <1>3 DEF WaitersInv
<1>9. TypeOK'
  BY <1>2 DEF Begin, Return, TypeOK
<1>10. CallInv'
  BY <1>1, <1>3 DEF CallInv
<1> QED BY <1>7, <1>8, <1>9, <1>10

\* msg_queue_push in api_cmd: the caller blocks and its record is on the
\* queue, in the same step.
LEMMA PushCmdStep ==
    ASSUME IInv, NEW c \in Callers, PushCmd(c)
    PROVE  IInv'
<1> USE DEF IInv
<1> DEFINE m == Msg(call[c].op, c, call[c].n, call[c].st = "armed")
<1>1. call[c] \in Calls /\ call \in [Callers -> Calls] /\ call[c].st \in {"armed", "async"}
  BY DEF TypeOK, PushCmd
<1>2. m \in Requests /\ m.who = c /\ m.timed = (call[c].st = "armed")
  BY <1>1 DEF CallInv, Calls, Msg, Requests
<1>3. /\ call' \in [Callers -> Calls]
      /\ call'[c].st = IF call[c].st = "armed" THEN "wait" ELSE "idle"
      /\ call'[c].op = call[c].op /\ call'[c].n = call[c].n
      /\ \A d \in Callers : d # c => call'[d] = call[d]
  <2> DEFINE r == IF call[c].st = "armed" THEN [call[c] EXCEPT !.st = "wait"]
                  ELSE [call[c] EXCEPT !.st = "idle", !.rc = "queued"]
  <2>1. /\ r \in Calls /\ r.st = IF call[c].st = "armed" THEN "wait" ELSE "idle"
        /\ r.op = call[c].op /\ r.n = call[c].n
    BY <1>1, Zenon DEF Calls
  <2>2. call' = [call EXCEPT ![c] = r]
    BY DEF PushCmd
  <2> HIDE DEF r
  <2> QED BY <1>1, <2>1, <2>2
<1>4. /\ msg_cmd' \in Seq(Requests \cup Finalizations)
      /\ Len(msg_cmd') = Len(msg_cmd) + 1 /\ Len(msg_cmd) \in Nat
      /\ \A i \in 1..Len(msg_cmd) : msg_cmd'[i] = msg_cmd[i]
      /\ msg_cmd'[Len(msg_cmd) + 1] = m
  BY <1>2, AppendIs, LenIs DEF PushCmd, TypeOK
<1> HIDE DEF m
<1>5. c \notin Elems(cmd_timeouts) /\ Elems(cmd_timeouts) \subseteq Callers
  BY <1>1, ElementOf, Zenon DEF RecordsInv, TypeOK, Elems
<1>6. ASSUME NEW i \in 1..Len(msg_cmd), msg_cmd[i].timed
      PROVE  msg_cmd[i].who \in Callers \ {c}
  <2>1. msg_cmd[i] \in Requests \cup Finalizations
    BY ElementOf DEF TypeOK
  <2>2. msg_cmd[i].who \in Callers
    BY <1>6, <2>1, Zenon DEF Requests, Finalizations
  <2> QED BY <1>1, <1>6, <2>2 DEF RecordsInv
<1>7. cmd_timeouts' = cmd_timeouts /\ finalizer' = finalizer
  BY DEF PushCmd
<1>8. RecordsInv'
  <2>1. \A d \in Elems(cmd_timeouts') : call'[d].st = "wait"
    BY <1>3, <1>5, <1>7 DEF RecordsInv
  <2>2. ASSUME NEW i \in 1..Len(msg_cmd'), msg_cmd'[i].timed
        PROVE  /\ call'[msg_cmd'[i].who].st = "wait"
               /\ msg_cmd'[i].who \notin Elems(cmd_timeouts')
    <3>1. CASE i \in 1..Len(msg_cmd)
      BY <1>3, <1>4, <1>6, <1>7, <2>2, <3>1 DEF RecordsInv
    <3>2. CASE i = Len(msg_cmd) + 1
      BY <1>2, <1>3, <1>4, <1>5, <1>7, <2>2, <3>2, Zenon
    <3> QED BY <1>4, <3>1, <3>2, SMTT(30)
  <2>3. ASSUME NEW i \in 1..Len(msg_cmd'), NEW j \in 1..Len(msg_cmd'),
               msg_cmd'[i].timed, msg_cmd'[j].timed, msg_cmd'[i].who = msg_cmd'[j].who
        PROVE  i = j
    <3>1. CASE i \in 1..Len(msg_cmd) /\ j \in 1..Len(msg_cmd)
      BY <1>4, <2>3, <3>1 DEF RecordsInv
    <3>2. CASE i = Len(msg_cmd) + 1 /\ j \in 1..Len(msg_cmd)
      BY <1>2, <1>4, <1>6, <2>3, <3>2
    <3>3. CASE i \in 1..Len(msg_cmd) /\ j = Len(msg_cmd) + 1
      BY <1>2, <1>4, <1>6, <2>3, <3>3
    <3> QED BY <1>4, <3>1, <3>2, <3>3
  <2>4. NoDups(cmd_timeouts')
    BY <1>7 DEF RecordsInv
  <2> QED BY <2>1, <2>2, <2>3, <2>4 DEF RecordsInv
<1>9. WaitersInv'
  <2> SUFFICES ASSUME finalizer' # "freed", NEW d \in Callers, call'[d].st = "wait",
                      d \notin Elems(cmd_timeouts')
               PROVE  \E i \in 1..Len(msg_cmd') : msg_cmd'[i].timed /\ msg_cmd'[i].who = d
    BY DEF WaitersInv
  <2>1. CASE d = c
    <3>1. call[c].st = "armed"
      BY <1>1, <1>3, <2>1
    <3>2. m.timed
      BY <1>2, <3>1, Zenon
    <3>3. m.who = d /\ Len(msg_cmd) + 1 \in 1..Len(msg_cmd')
      BY <1>2, <1>4, <2>1
    <3> QED BY <1>4, <3>2, <3>3
  <2>2. CASE d # c
    <3>1. PICK i \in 1..Len(msg_cmd) : msg_cmd[i].timed /\ msg_cmd[i].who = d
      BY <1>3, <1>7, <2>2 DEF WaitersInv
    <3> QED BY <1>4, <3>1
  <2> QED BY <2>1, <2>2
<1>10. CallInv'
  BY <1>1, <1>3 DEF CallInv
<1>11. TypeOK'
  BY <1>3, <1>4 DEF PushCmd, TypeOK
<1> QED BY <1>8, <1>9, <1>10, <1>11

\* handle_cmd_msg moves the record of the command to the list.
LEMMA HandleCmdMsgStep ==
    ASSUME IInv, HandleCmdMsg
    PROVE  IInv'
<1> USE DEF IInv
<1> DEFINE m == Head(msg_cmd)
<1>1. /\ m \in Requests \cup Finalizations /\ m = msg_cmd[1]
      /\ msg_cmd' \in Seq(Requests \cup Finalizations)
      /\ Len(msg_cmd') = Len(msg_cmd) - 1 /\ Len(msg_cmd) \in Nat \ {0}
      /\ \A i \in 1..Len(msg_cmd') : msg_cmd'[i] = msg_cmd[i + 1]
  BY HeadTailIs, LenIs DEF HandleCmdMsg, TypeOK
<1>2. /\ UNCHANGED <<call, finalizer>>
      /\ IF m.timed THEN TimeoutAdd(m.who) ELSE UNCHANGED cmd_timeouts
      /\ msg_pend' = IF m.op \in {"finalize", "timeout"} THEN msg_pend ELSE Append(msg_pend, m)
      /\ do_exit' = (do_exit \/ m.op = "finalize")
      /\ frontend' = IF m.op = "finalize" THEN "process" ELSE "cmd"
      /\ UNCHANGED <<now, msg_backend, subscribers, device, processed>>
  BY DEF HandleCmdMsg
<1> HIDE DEF m
<1>3. /\ m.timed \in BOOLEAN /\ m.timed => m.who \in Callers
      /\ m.op # "finalize" => m \in Requests
  BY <1>1, Zenon DEF Requests, Finalizations, OpNames
<1>4. /\ cmd_timeouts' \in Seq(Callers) /\ NoDups(cmd_timeouts')
      /\ Elems(cmd_timeouts') = Elems(cmd_timeouts) \cup (IF m.timed THEN {m.who} ELSE {})
  <2>0. cmd_timeouts \in Seq(Callers) /\ NoDups(cmd_timeouts)
    BY DEF TypeOK, RecordsInv
  <2>1. CASE m.timed
    <3>1. m.who \in Callers /\ m.who \notin Elems(cmd_timeouts)
      BY <1>1, <1>3, <2>1 DEF RecordsInv
    <3> QED BY <1>2, <2>0, <2>1, <3>1, TimeoutAddElems
  <2>2. CASE ~m.timed
    BY <1>2, <2>0, <2>2
  <2> QED BY <2>1, <2>2
<1>5. RecordsInv'
  <2>1. \A c \in Elems(cmd_timeouts') : call'[c].st = "wait"
    BY <1>1, <1>2, <1>4, SMTT(30) DEF RecordsInv
  <2>2. ASSUME NEW i \in 1..Len(msg_cmd'), msg_cmd'[i].timed
        PROVE  /\ call'[msg_cmd'[i].who].st = "wait"
               /\ msg_cmd'[i].who \notin Elems(cmd_timeouts')
    <3>1. i + 1 \in 1..Len(msg_cmd) /\ 1 \in 1..Len(msg_cmd) /\ i + 1 # 1
      BY <1>1
    <3>2. msg_cmd[i + 1].timed /\ msg_cmd'[i].who = msg_cmd[i + 1].who
      BY <1>1, <2>2
    <3>3. m.timed => m.who # msg_cmd[i + 1].who
      BY <1>1, <3>1, <3>2 DEF RecordsInv
    <3> QED BY <1>2, <1>4, <3>1, <3>2, <3>3 DEF RecordsInv
  <2>3. ASSUME NEW i \in 1..Len(msg_cmd'), NEW j \in 1..Len(msg_cmd'),
               msg_cmd'[i].timed, msg_cmd'[j].timed, msg_cmd'[i].who = msg_cmd'[j].who
        PROVE  i = j
    <3>1. i + 1 \in 1..Len(msg_cmd) /\ j + 1 \in 1..Len(msg_cmd)
      BY <1>1
    <3>2. i + 1 = j + 1
      BY <1>1, <2>3, <3>1, ZenonT(40) DEF RecordsInv
    <3> QED BY <1>1, <3>2
  <2> QED BY <1>4, <2>1, <2>2, <2>3 DEF RecordsInv
<1>6. WaitersInv'
  <2> SUFFICES ASSUME finalizer' # "freed", NEW c \in Callers, call'[c].st = "wait",
                      c \notin Elems(cmd_timeouts')
               PROVE  \E i \in 1..Len(msg_cmd') : msg_cmd'[i].timed /\ msg_cmd'[i].who = c
    BY DEF WaitersInv
  <2>1. c \notin Elems(cmd_timeouts) /\ (m.timed => m.who # c)
    BY <1>4
  <2>2. PICK i \in 1..Len(msg_cmd) : msg_cmd[i].timed /\ msg_cmd[i].who = c
    BY <1>2, <2>1 DEF WaitersInv
  <2>3. i # 1
    BY <1>1, <2>1, <2>2
  <2>4. i - 1 \in 1..Len(msg_cmd') /\ (i - 1) + 1 = i
    BY <1>1, <2>3
  <2>5. msg_cmd'[i - 1] = msg_cmd[i]
    BY <1>1, <2>4
  <2> QED BY <2>2, <2>4, <2>5
<1>7. CallInv'
  BY <1>2 DEF CallInv
<1>8. TypeOK'
  <2>1. msg_pend' \in Seq(Requests \cup ReturnCodes)
    BY <1>2, <1>3, AppendIs DEF TypeOK
  <2>2. do_exit' \in BOOLEAN
    BY <1>2 DEF TypeOK
  <2> QED BY <1>1, <1>2, <1>4, <2>1, <2>2, SMTT(30) DEF TypeOK
<1> QED BY <1>5, <1>6, <1>7, <1>8

\* jsdrv_pubsub_process: at most one record is completed.
LEMMA ProcessMsgStep ==
    ASSUME IInv, ProcessMsg
    PROVE  IInv'
<1> USE DEF IInv
<1> DEFINE m == Head(msg_pend)
<1>1. m \in Requests \cup ReturnCodes /\ msg_pend' \in Seq(Requests \cup ReturnCodes)
  BY HeadTailIs DEF ProcessMsg, TypeOK
<1>2. /\ UNCHANGED <<now, msg_cmd, msg_backend, processed, frontend, finalizer, do_exit>>
      /\ \/ m.op \in LocalOps /\ ProcessLocal(m)
         \/ m.op = "publish" /\ ProcessPublish(m)
         \/ m.op = "#" /\ ProcessReturnCode(m)
  BY DEF ProcessMsg
<1> HIDE DEF m
<1>3. (m.op # "#" => m \in Requests) /\ (m.op = "#" => m \in ReturnCodes)
  BY <1>1 DEF Requests, ReturnCodes, OpNames
<1>4. /\ subscribers' \subseteq Callers /\ device' \in Seq(Requests)
      /\ \/ \E op : \E rc \in {"ok", "not_found"} : TimeoutComplete(op, rc)
         \/ UNCHANGED <<call, cmd_timeouts>>
  <2>0. subscribers \subseteq Callers /\ device \in Seq(Requests)
    BY DEF TypeOK
  <2>1. CASE m.op \in LocalOps /\ ProcessLocal(m)
    <3>1. m \in Requests /\ m.who \in Callers
      BY <1>3, <2>1 DEF LocalOps, Requests
    <3>2. subscribers' \subseteq Callers /\ device' = device
      BY <2>0, <2>1, <3>1 DEF ProcessLocal, LocalOps
    <3>3. \/ \E rc \in {"ok", "not_found"} : TimeoutComplete(m.op, rc)
          \/ UNCHANGED <<call, cmd_timeouts>>
      BY <2>1, Zenon DEF ProcessLocal
    <3> QED BY <2>0, <3>2, <3>3
  <2>2. CASE m.op = "publish" /\ ProcessPublish(m)
    BY <1>3, <2>0, <2>2, AppendIs DEF ProcessPublish
  <2>3. CASE m.op = "#" /\ ProcessReturnCode(m)
    <3>1. m.rc = "ok"
      BY <1>3, <2>3 DEF ReturnCodes
    <3> QED BY <2>0, <2>3, <3>1 DEF ProcessReturnCode
  <2> QED BY <1>2, <2>1, <2>2, <2>3
<1>5. CASE UNCHANGED <<call, cmd_timeouts>>
  <2>1. CallInv' /\ RecordsInv' /\ WaitersInv'
    BY <1>2, <1>5, RecordsFrame
  <2>2. TypeOK'
    BY <1>1, <1>2, <1>4, <1>5 DEF TypeOK
  <2> QED BY <2>1, <2>2
<1>6. ASSUME NEW op, NEW rc \in {"ok", "not_found"}, TimeoutComplete(op, rc)
      PROVE  IInv'
  <2>1. PICK D \in SUBSET Elems(cmd_timeouts) :
          /\ cmd_timeouts' \in Seq(Callers)
          /\ Elems(cmd_timeouts') = Elems(cmd_timeouts) \ D
          /\ NoDups(cmd_timeouts')
          /\ call' = Signal(D, rc) \/ (D = {} /\ call' = call)
    BY <1>6, TimeoutCompleteElems, Zenon DEF TypeOK, RecordsInv
  <2>2. call' \in [Callers -> Calls] /\ CallInv' /\ RecordsInv' /\ WaitersInv'
    BY <1>2, <2>1, SignalPreserves
  <2>3. TypeOK'
    BY <1>1, <1>2, <1>4, <2>1, <2>2 DEF TypeOK
  <2> QED BY <2>2, <2>3, SMTT(30)
<1> QED BY <1>4, <1>5, <1>6

\* timeout_process: the records it drops are the ones it signals.
LEMMA TimeoutProcessStep ==
    ASSUME IInv, TimeoutProcess
    PROVE  IInv'
<1> USE DEF IInv
<1>1. PICK due \in 0..Len(cmd_timeouts) :
        /\ call' = Signal({cmd_timeouts[i] : i \in 1..due}, "timed_out")
        /\ cmd_timeouts' = SubSeq(cmd_timeouts, due + 1, Len(cmd_timeouts))
  BY Zenon DEF TimeoutProcess
<1> DEFINE D == {cmd_timeouts[i] : i \in 1..due}
<1>2. Len(cmd_timeouts) \in Nat
  BY LenIs DEF TypeOK
<1>3. /\ frontend' = "loop"
      /\ UNCHANGED <<now, msg_cmd, msg_backend, msg_pend, subscribers, device,
                     processed, finalizer, do_exit>>
  BY DEF TimeoutProcess
<1>4. /\ cmd_timeouts' \in Seq(Callers)
      /\ Elems(cmd_timeouts') = Elems(cmd_timeouts) \ D
      /\ NoDups(cmd_timeouts')
  BY <1>1, SuffixElems, ZenonT(40) DEF TypeOK, RecordsInv
<1>5. D \in SUBSET Elems(cmd_timeouts)
  BY <1>1, <1>2 DEF Elems
<1> HIDE DEF D
<1>6. call' \in [Callers -> Calls] /\ CallInv' /\ RecordsInv' /\ WaitersInv'
  BY <1>1, <1>3, <1>4, <1>5, SignalPreserves DEF D
<1>7. TypeOK'
  BY <1>3, <1>4, <1>6 DEF TypeOK
<1> QED BY <1>6, <1>7, Zenon

\* timeouts_finalize signals all records and empties the list.
LEMMA FrontendExitStep ==
    ASSUME IInv, FrontendExit
    PROVE  IInv'
<1> USE DEF IInv
<1> DEFINE D == Elems(cmd_timeouts)
<1>1. /\ call' = Signal(D, "aborted") /\ cmd_timeouts' = <<>> /\ device' = <<>>
      /\ frontend' = "exited"
      /\ UNCHANGED <<now, msg_cmd, msg_backend, msg_pend, subscribers, processed,
                     finalizer, do_exit>>
  BY DEF FrontendExit
<1>2. D = Elems(cmd_timeouts)
  OBVIOUS
<1>3. Elems(cmd_timeouts') = {} /\ NoDups(cmd_timeouts') /\ cmd_timeouts' \in Seq(Callers)
      /\ device' \in Seq(Requests)
  BY <1>1 DEF Elems, NoDups
<1> HIDE DEF D
<1>4. call' \in [Callers -> Calls] /\ CallInv' /\ RecordsInv' /\ WaitersInv'
  BY <1>1, <1>2, <1>3, SignalPreserves
<1>5. TypeOK'
  BY <1>1, <1>3, <1>4 DEF TypeOK
<1> QED BY <1>4, <1>5

\* jsdrv_finalize: its message carries no record, and it frees the queues.
LEMMA FinalizePushFreeStep ==
    ASSUME IInv, FinalizePush \/ FinalizeFree
    PROVE  IInv'
<1> USE DEF IInv
<1>1. CASE FinalizePush
  <2> DEFINE m == [op |-> "finalize", timed |-> FALSE]
  <2>1. /\ UNCHANGED <<now, call, msg_backend, msg_pend, cmd_timeouts, subscribers,
                       device, processed, frontend, do_exit>>
        /\ finalizer = "exit_set" /\ finalizer' = "joining"
    BY <1>1 DEF FinalizePush
  <2>2. m \in Requests \cup Finalizations /\ m.timed = FALSE
    BY DEF Finalizations
  <2>3. /\ msg_cmd' \in Seq(Requests \cup Finalizations)
        /\ Len(msg_cmd') = Len(msg_cmd) + 1 /\ Len(msg_cmd) \in Nat
        /\ \A i \in 1..Len(msg_cmd) : msg_cmd'[i] = msg_cmd[i]
        /\ msg_cmd'[Len(msg_cmd) + 1] = m
    BY <1>1, <2>2, AppendIs, LenIs DEF FinalizePush, TypeOK
  <2> HIDE DEF m
  <2>4. \A i \in 1..Len(msg_cmd') : msg_cmd'[i].timed => i \in 1..Len(msg_cmd)
    BY <2>2, <2>3, SMTT(30)
  <2>5. RecordsInv'
    BY <2>1, <2>3, <2>4 DEF RecordsInv
  <2>6. WaitersInv'
    BY <2>1, <2>3 DEF WaitersInv
  <2>7. TypeOK' /\ CallInv'
    BY <2>1, <2>3 DEF TypeOK, CallInv
  <2> QED BY <2>5, <2>6, <2>7
<1>2. CASE FinalizeFree
  <2>1. /\ UNCHANGED <<now, call, msg_pend, cmd_timeouts, subscribers, device,
                       processed, frontend, do_exit>>
        /\ msg_cmd' = <<>> /\ msg_backend' = <<>> /\ finalizer' = "freed"
    BY <1>2 DEF FinalizeFree
  <2>2. RecordsInv'
    BY <2>1 DEF RecordsInv
  <2>3. WaitersInv'
    BY <2>1 DEF WaitersInv
  <2>4. TypeOK' /\ CallInv'
    BY <2>1, EmptyIs DEF TypeOK, CallInv
  <2> QED BY <2>2, <2>3, <2>4
<1> QED BY <1>1, <1>2

\* Every step of every thread preserves the invariant.
LEMMA NextPreserves == IInv /\ [Next]_vars => IInv'
<1> SUFFICES ASSUME IInv, [Next]_vars PROVE IInv'
  OBVIOUS
<1>1. CASE UNCHANGED vars
  <2>1. CallInv' /\ RecordsInv' /\ WaitersInv'
    BY <1>1, RecordsFrame DEF vars, IInv
  <2> QED BY <1>1, <2>1 DEF vars, IInv, TypeOK
<1>2. CASE Tick \/ DeviceStep
  BY <1>2, QuietSteps
<1>3. CASE FrontendStep
  BY <1>3, QuietSteps, HandleCmdMsgStep, ProcessMsgStep, TimeoutProcessStep,
     FrontendExitStep DEF FrontendStep
<1>4. CASE FinalizeStep
  BY <1>4, QuietSteps, FinalizePushFreeStep DEF FinalizeStep
<1>5. ASSUME NEW c \in Callers, CallerStep(c) PROVE IInv'
  BY <1>5, BeginReturn, PushCmdStep DEF CallerStep
<1> QED BY <1>1, <1>2, <1>3, <1>4, <1>5 DEF Next

\* The invariant holds throughout.
LEMMA Inductive == Spec => []IInv
BY InitEstablishes, NextPreserves, PTL DEF Spec

\* Type correctness of the blocking API: api_cmd, the frontend thread's loop
\* and jsdrv_finalize keep queues, list and calls well formed.
THEOREM TypeCorrect == Spec => []TypeOK
<1>1. IInv => TypeOK
  BY DEF IInv
<1> QED BY <1>1, Inductive, PTL

\* For any callers, timeouts and number of calls: timeout_add,
\* timeout_complete, timeout_process and timeouts_finalize never touch a
\* record whose caller has left api_cmd.
THEOREM RecordsAlive == Spec => []StackRecordsAlive
BY Inductive, InvariantSuffices, PTL

\* For any callers, timeouts and number of calls: as long as the context
\* exists, a caller blocked in api_cmd is known to the frontend thread.
THEOREM NoWaiterForgotten == Spec => []WaitersTracked
BY Inductive, InvariantSuffices, PTL
==============================================================================

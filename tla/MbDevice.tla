------------------------------ MODULE MbDevice -------------------------------
(***************************************************************************)
(* The upper-level (UL) driver thread of devices/mb_device/mb_device.c:    *)
(* the session state machine, the restore sequence that runs in ST_OPEN,   *)
(* host suspend and resume, and link revalidation.  The backend and the    *)
(* device answer what the thread sends to ll.cmd_q, in order; an answer    *)
(* may come after the thread stopped waiting for it.                       *)
(*                                                                         *)
(* A handler is an operator from the thread's record to its next value;    *)
(* what it sends to ll.cmd_q is appended to the field "out".               *)
(***************************************************************************)
EXTENDS Integers, Sequences, Functions

CONSTANTS RetryMax,         \* STATE_FETCH_GET_INIT_RETRY_MAX
          PingRetries,      \* REVALIDATE_PING_RETRIES
          Blobs,            \* metadata blobs that the device has
          Modes,            \* open modes that are requested
          MaxOpens,         \* OPEN requests (bound)
          MaxQueue,         \* messages in flight when time passes (bound)
          MaxTxn,           \* requests before a metadata blob is complete (bound)
          MaxLoss,          \* frames that the device loses (bound)
          MaxResets,        \* silent resets of the device's link (bound)
          MaxPower,         \* host power events (bound)
          MaxEvents,        \* all three together (bound)
          CloseMidRestore,  \* may CLOSE come before the restore has ended?
          Reopens,          \* may OPEN come when the device is not closed?
          ShortReplies      \* may a memory response be truncated?

ASSUME MbAssumption ==
    /\ RetryMax \in Nat /\ PingRetries \in Nat \ {0} /\ Blobs \in Nat
    /\ Modes \subseteq {"defaults", "resume", "raw"}
    /\ MaxOpens \in Nat /\ MaxQueue \in Nat \ {0} /\ MaxTxn \in Nat
    /\ MaxLoss \in Nat /\ MaxResets \in Nat /\ MaxPower \in Nat /\ MaxEvents \in Nat
    /\ CloseMidRestore \in BOOLEAN /\ Reopens \in BOOLEAN /\ ShortReplies \in BOOLEAN

VARIABLES u,       \* the thread: jsdrvp_mb_dev_s with state_fetch_s
          cmds,    \* ll.cmd_q and what is on its way to the device
          rsps,    \* ll.rsp_q and what is on its way to the host
          dev,     \* the device's end of the link
          exited,  \* the thread has returned
          loss, resets, power

vars == <<u, cmds, rsps, dev, exited, loss, resets, power>>
env == <<dev, loss, resets, power>>

States == {"closed", "ll_open", "ll_bulk_open", "link_request", "link_identity", "open",
           "pubsub_flush", "link_disconnect", "ll_close_pend", "ll_close"}

Init ==
    /\ u = [st |-> "closed", timer |-> FALSE, mode |-> "defaults",
            phase |-> "idle", op |-> "idle", txn |-> 0, retry |-> 0, blobs |-> 0, idx |-> 0,
            known |-> FALSE, left |-> FALSE, gathering |-> FALSE, subs |-> FALSE,
            marker |-> FALSE, reval |-> 0, finalize |-> FALSE, term |-> FALSE,
            out |-> <<>>,
            \* for the properties: API calls without an answer, the restore
            \* phases so far and the mode they began with, OPENs, misfits
            asked |-> {}, ran |-> <<>>, began |-> "raw", opens |-> 0, odd |-> {}]
    /\ cmds = <<>> /\ rsps = <<>> /\ dev = "await"
    /\ exited = FALSE /\ loss = 0 /\ resets = 0 /\ power = 0

Sends(s, msg) == [s EXCEPT !.out = Append(@, msg)]
Phase(s, op) == [s EXCEPT !.op = op, !.ran = Append(@, op)]

------------------------------------------------------------------------------
(* The restore sequence: state_fetch_* and open_seq_*                       *)

\* state_fetch_send_get_init, for the instance
SendGetInit(s) ==
    Sends([s EXCEPT !.phase = "get_init", !.txn = @ + 1, !.timer = TRUE],
          <<"get_init", s.txn + 1>>)

\* state_fetch_begin_get
BeginGet(s) == SendGetInit([s EXCEPT !.retry = 0])

\* state_fetch_send_get_next
SendGetNext(s) ==
    Sends([s EXCEPT !.phase = "get_next", !.timer = TRUE], <<"get_next", s.txn>>)

\* state_fetch_send_meta_read
SendMetaRead(s) ==
    Sends([s EXCEPT !.txn = @ + 1, !.timer = TRUE], <<"meta", s.txn + 1>>)

\* open_seq_done: OPEN#
Done(s) == [s EXCEPT !.phase = "idle", !.op = "idle", !.asked = @ \ {"open"}]

\* open_seq_start_gather: subscribe to the host's values, publish the marker
StartGather(s) ==
    [Phase(s, "gather") EXCEPT !.phase = "idle", !.gathering = TRUE, !.subs = TRUE,
                               !.marker = TRUE, !.timer = TRUE]

\* Faulty: DEFAULTS ends after the metadata, too.
MetaEndAlways(s) == Done(s)

\* open_seq_on_meta_end
MetaEnd(s) == IF s.mode = "resume" THEN Done(s) ELSE StartGather(s)

\* state_fetch_start_meta
StartMeta(s) ==
    IF s.idx >= s.blobs THEN MetaEnd(s) ELSE SendMetaRead([s EXCEPT !.phase = "meta_hdr"])

\* open_seq_on_get_end
GetEnd(s) ==
    IF s.op = "discover" \/ s.mode = "resume" THEN StartMeta(Phase(s, "meta")) ELSE Done(s)

\* state_fetch_advance_prefix: the instance was the only one
AdvancePrefix(s) == GetEnd([s EXCEPT !.retry = 0])

\* state_set_send_next: all chunks; the last one is answered
SetSendNext(s) ==
    IF s.left
    THEN Sends([s EXCEPT !.phase = "set", !.left = FALSE, !.txn = @ + 1, !.timer = TRUE],
               <<"set", s.txn + 1>>)
    ELSE BeginGet(Phase(s, "values"))

\* open_seq_on_gathered
OnGathered(s) ==
    SetSendNext([Phase(s, "set") EXCEPT !.timer = FALSE, !.gathering = FALSE, !.subs = FALSE,
                                        !.left = s.known])

\* state_set_on_rsp
SetOnRsp(s) == SetSendNext([s EXCEPT !.timer = FALSE, !.phase = "idle"])

\* open_seq_begin
OpenSeqBegin(s) ==
    LET clean == [s EXCEPT !.txn = 0, !.blobs = 0, !.idx = 0, !.known = FALSE, !.left = FALSE,
                           !.gathering = FALSE, !.ran = <<>>, !.began = s.mode]
    IN BeginGet(Phase(clean, IF s.mode = "resume" THEN "values" ELSE "discover"))

\* state_fetch_on_rsp.  The first GET_RSP has the descriptors of the blobs.
OnRsp(s, status, end) ==
    LET c == [s EXCEPT !.timer = FALSE] IN
    CASE s.phase = "set" -> SetOnRsp(s)
      [] s.phase = "get_init" /\ status = "busy" /\ s.retry < RetryMax ->
            [c EXCEPT !.retry = @ + 1, !.timer = TRUE]
      [] s.phase = "get_init" /\ status # "ok" -> AdvancePrefix(c)
      [] s.phase = "get_init" -> SendGetNext(c)
      [] s.phase = "get_next" /\ status # "ok" -> AdvancePrefix(c)
      [] s.phase = "get_next" ->
            LET b == [c EXCEPT !.blobs = Blobs] IN IF end THEN AdvancePrefix(b) ELSE SendGetNext(b)
      [] OTHER -> c

NextBlob(s) == StartMeta([s EXCEPT !.idx = @ + 1])

\* state_fetch_on_meta_rsp: "end" says that the blob is complete
OnMetaRsp(s, status, end) ==
    LET c == [s EXCEPT !.timer = FALSE] IN
    CASE status = "short" -> c
      [] status # "ok" -> NextBlob(c)
      [] s.phase \in {"meta_hdr", "meta_data"} /\ end -> NextBlob([c EXCEPT !.known = TRUE])
      [] s.phase \in {"meta_hdr", "meta_data"} -> SendMetaRead([c EXCEPT !.phase = "meta_data"])
      [] OTHER -> c

\* on_open_timeout
OnOpenTimeout(s) ==
    CASE s.op = "gather" -> OnGathered(s)
      [] s.op # "gather" /\ s.phase = "set" -> SetOnRsp(s)
      [] s.op # "gather" /\ s.phase = "idle" -> s
      [] s.phase = "get_init" /\ s.retry < RetryMax -> SendGetInit([s EXCEPT !.retry = @ + 1])
      [] s.phase = "get_init" /\ s.retry >= RetryMax -> AdvancePrefix(s)
      [] s.phase = "get_next" -> AdvancePrefix(s)
      [] OTHER -> NextBlob(s)

------------------------------------------------------------------------------
(* The session state machine                                                *)

\* on_open_enter
OnOpenEnter(s) ==
    LET c == [s EXCEPT !.timer = FALSE] IN
    IF s.mode = "raw" THEN [c EXCEPT !.asked = @ \ {"open"}] ELSE OpenSeqBegin(c)

\* on_pubsub_flush
OnPubsubFlush(s) ==
    Sends([s EXCEPT !.gathering = FALSE, !.subs = IF s.gathering THEN FALSE ELSE @,
                    !.timer = TRUE], <<"flush">>)

\* The on_enter functions of state_machine_states
Enter(s, st) ==
    LET e == [s EXCEPT !.st = st] IN
    CASE st = "ll_open" -> Sends(e, <<"open">>)
      [] st = "ll_bulk_open" -> Sends(e, <<"bulk">>)
      [] st = "link_request" -> Sends([e EXCEPT !.reval = 0, !.timer = TRUE], <<"connect">>)
      [] st = "link_identity" -> Sends([e EXCEPT !.timer = TRUE], <<"identity">>)
      [] st = "open" -> OnOpenEnter(e)
      [] st = "pubsub_flush" -> OnPubsubFlush(e)
      [] st = "link_disconnect" -> Sends([e EXCEPT !.timer = TRUE], <<"disconnect">>)
      [] st = "ll_close" -> Sends([e EXCEPT !.timer = TRUE], <<"close", s.opens>>)
      [] OTHER -> e

\* CLOSE#, unless the thread is told to finish
CloseAnswer(s) == IF s.finalize THEN s ELSE [s EXCEPT !.asked = @ \ {"close"}]

\* state_transition, with on_ll_close_exit
Transition(s, st) == Enter(IF s.st = "ll_close" THEN CloseAnswer(s) ELSE s, st)

\* state_machine_closed, state_machine_ll_open, ...: <<state, event, next>>
Table == {
    <<"closed", "api_open", "ll_open">>,
    <<"ll_open", "open_ack", "ll_bulk_open">>, <<"ll_open", "open_nack", "ll_close">>,
    <<"ll_open", "api_close", "ll_close">>,
    <<"ll_bulk_open", "bulk_ack", "link_request">>, <<"ll_bulk_open", "bulk_nack", "ll_close">>,
    <<"ll_bulk_open", "api_close", "ll_close">>,
    <<"link_request", "connect_ack", "link_identity">>,
    <<"link_request", "timeout", "link_request">>, <<"link_request", "api_close", "ll_close">>,
    <<"link_identity", "identity", "open">>, <<"link_identity", "timeout", "link_request">>,
    <<"link_identity", "api_close", "ll_close">>,
    <<"open", "api_close", "pubsub_flush">>, <<"open", "revalidate_failed", "link_request">>,
    <<"pubsub_flush", "flush", "link_disconnect">>,
    <<"pubsub_flush", "timeout", "link_disconnect">>,
    <<"link_disconnect", "disconnect_ack", "ll_close_pend">>,
    <<"link_disconnect", "timeout", "ll_close_pend">>,
    <<"ll_close_pend", "advance", "ll_close">>,
    <<"ll_close", "close_ack", "closed">>, <<"ll_close", "timeout", "closed">>}

\* transitions_evaluate and state_machine_process
Process(s, ev) ==
    LET ts == {t \in Table : t[1] = s.st /\ t[2] = ev} IN
    CASE s.st = "open" /\ ev = "timeout" -> OnOpenTimeout(s)
      [] s.st = "closed" /\ ev = "api_close" -> CloseAnswer(s)
      [] ts # {} -> Transition(s, (CHOOSE t \in ts : TRUE)[3])
      [] OTHER -> s

\* on_host_power_suspend
OnSuspend(s) ==
    LET c == [s EXCEPT !.reval = 0] IN IF s.st = "open" THEN Sends(c, <<"sleep">>) ELSE c

\* on_host_power_resume
OnResume(s) ==
    IF s.st = "open" THEN Sends([s EXCEPT !.reval = PingRetries], <<"ping">>) ELSE s

------------------------------------------------------------------------------
(* What the thread does when a message or a time-out arrives                *)

Run(s) ==
    /\ u' = [s EXCEPT !.out = <<>>]
    /\ cmds' = cmds \o s.out
    /\ UNCHANGED <<env, exited>>

\* Faulty: any response is taken for the one that is awaited.
AwaitedAny(s, m) == s.phase # "idle"

\* handle_in_publish: a response is recognised by its transaction_id, in any
\* state of the session
Awaited(s, m) == s.phase # "idle" /\ m[2] = s.txn

Kind == [get_init |-> "get_init", get_next |-> "get_next", set |-> "set",
         meta_hdr |-> "meta", meta_data |-> "meta", idle |-> "none"]
Fits(s, m) == IF Kind[s.phase] = m[3] THEN s ELSE [s EXCEPT !.odd = @ \cup {"misfit"}]

\* handle_rsp, handle_in_link and handle_in_publish
Handle(s, m) ==
    CASE m[1] = "state" -> IF Awaited(s, m) THEN OnRsp(Fits(s, m), m[4], m[5]) ELSE s
      [] m[1] = "mem" -> IF Awaited(s, m) THEN OnMetaRsp(Fits(s, m), m[4], m[5]) ELSE s
      [] m[1] = "pong" -> [s EXCEPT !.reval = 0]
         \* jsdrv_cstr_casecmp is 0 for the string that was sent
      [] m[1] = "pubsub_pong" ->
            CASE m[2] # "disconnect" -> Process(s, "flush")
              [] m[2] = "disconnect" /\ s.st = "pubsub_flush" ->
                    [s EXCEPT !.odd = @ \cup {"flush ignored"}]
              [] OTHER -> s
      [] m[1] = "suspend" -> OnSuspend(s)
      [] m[1] = "resume" -> OnResume(s)
      [] m[1] = "close_ack" ->
            Process(IF s.st = "ll_close" /\ m[2] # s.opens
                    THEN [s EXCEPT !.odd = @ \cup {"late close"}] ELSE s, "close_ack")
      [] m[1] = "terminated" -> [s EXCEPT !.term = TRUE, !.st = "closed"]
      [] OTHER -> Process(s, m[1])

Alive == ~exited /\ ~u.term

Receive ==
    /\ Alive /\ rsps # <<>>
    /\ rsps' = Tail(rsps)
    /\ Run(Handle(u, Head(rsps)))

InTime == Len(cmds) + Len(rsps) < MaxQueue

\* driver_thread_timed_work: EV_TIMEOUT
Timeout ==
    /\ Alive /\ u.timer /\ InTime
    /\ Run(Process([u EXCEPT !.timer = FALSE], "timeout"))
    /\ UNCHANGED rsps

\* Three seconds without a frame, or two seconds without a PONG: by then
\* nothing is on its way.
Quiet == cmds = <<>> /\ rsps = <<>> /\ ~u.marker

Silence ==
    /\ Alive /\ u.st = "open" /\ u.reval = 0 /\ dev = "await" /\ Quiet
    /\ Run(OnResume(u))
    /\ UNCHANGED rsps


Revalidate ==
    /\ Alive /\ u.reval > 0 /\ Quiet
    /\ LET r == [u EXCEPT !.reval = @ - 1] IN
         Run(CASE u.st # "open" -> [u EXCEPT !.reval = 0]
               [] u.st = "open" /\ u.reval > 1 -> Sends(r, <<"ping">>)
               [] OTHER -> Process(r, "revalidate_failed"))
    /\ UNCHANGED rsps

Advance ==
    /\ Alive /\ u.st = "ll_close_pend"
    /\ Run(Process(u, "advance"))
    /\ UNCHANGED rsps

\* driver_thread
Exit ==
    /\ ~exited /\ (u.finalize \/ u.term) /\ u.st = "closed"
    /\ exited' = TRUE
    /\ UNCHANGED <<u, cmds, rsps, env>>

\* handle_cmd: JSDRV_MSG_OPEN.  The frontend returned a marker that was
\* published before the session closed.
ApiOpen(mode) ==
    /\ Alive /\ ~u.finalize /\ u.opens < MaxOpens /\ InTime
    /\ (u.st = "closed" /\ ~u.marker) \/ Reopens
    /\ Run(Process([u EXCEPT !.mode = mode, !.opens = @ + 1, !.asked = @ \cup {"open"}],
                   "api_open"))
    /\ UNCHANGED rsps

MayClose == u.st = "open" /\ u.op # "idle" => CloseMidRestore

\* handle_cmd: JSDRV_MSG_CLOSE
ApiClose ==
    /\ Alive /\ "close" \notin u.asked /\ ~u.finalize /\ InTime /\ MayClose
    /\ Run(Process([u EXCEPT !.asked = @ \cup {"close"}], "api_close"))
    /\ UNCHANGED rsps

\* handle_cmd: JSDRV_MSG_FINALIZE
ApiFinalize ==
    /\ Alive /\ ~u.finalize /\ InTime /\ MayClose
    /\ Run(Process([u EXCEPT !.finalize = TRUE], "api_close"))
    /\ UNCHANGED rsps

\* handle_cmd: the marker of the gather comes back from the frontend
Marker ==
    /\ Alive /\ u.marker
    /\ LET m == [u EXCEPT !.marker = FALSE] IN Run(IF u.gathering THEN OnGathered(m) ELSE m)
    /\ UNCHANGED rsps

------------------------------------------------------------------------------
(* The backend and the device                                               *)

Statuses(kind) ==
    CASE kind = "get_init" -> {"ok", "busy", "error"}
      [] kind = "meta" -> {"ok", "error"} \cup (IF ShortReplies THEN {"short"} ELSE {})
      [] OTHER -> {"ok", "error"}

\* The answers to a command: the backend's, then those of a connected device
Answers(m) ==
    CASE m[1] = "open" -> {<<"open_ack">>, <<"open_nack">>}
      [] m[1] = "bulk" -> {<<"bulk_ack">>, <<"bulk_nack">>}
      [] m[1] = "close" -> {<<"close_ack", m[2]>>}
      [] m[1] = "connect" -> {<<"connect_ack">>}
      [] m[1] = "identity" -> {<<"identity">>}
      [] m[1] = "ping" -> {<<"pong">>}
      [] m[1] = "flush" -> {<<"pubsub_pong", "disconnect">>}
      [] m[1] = "disconnect" -> {<<"disconnect_ack">>}
      [] m[1] \in {"get_init", "get_next", "set"} ->
            {<<"state", m[2], m[1], status, end>> : status \in Statuses(m[1]), end \in BOOLEAN}
      [] m[1] = "meta" -> {<<"mem", m[2], "meta", status, end>> :
                status \in Statuses("meta"), end \in IF m[2] < MaxTxn THEN BOOLEAN ELSE {TRUE}}
      [] OTHER -> {}

OfBackend(m) == m[1] \in {"open", "bulk", "close"}
Reaches(m) == OfBackend(m) \/ m[1] = "connect" \/ dev = "connected"

Answer ==
    /\ cmds # <<>> /\ cmds' = Tail(cmds)
    /\ LET m == Head(cmds) IN
         /\ IF Reaches(m) /\ Answers(m) # {}
            THEN \E a \in Answers(m) : rsps' = Append(rsps, a)
            ELSE UNCHANGED rsps
         /\ dev' = CASE m[1] = "connect" -> "connected"
                     [] m[1] \in {"disconnect", "close"} -> "await"
                     [] OTHER -> dev
    /\ UNCHANGED <<u, exited, loss, resets, power>>

Eventful == loss + resets + power < MaxEvents

\* A frame is lost on the way to the device or back.
Lose ==
    /\ Eventful /\ loss < MaxLoss /\ loss' = loss + 1
    /\ cmds # <<>> /\ ~OfBackend(Head(cmds))
    /\ cmds' = Tail(cmds)
    /\ UNCHANGED <<u, rsps, dev, exited, resets, power>>

\* The device's link is reset without the host being told.
DevReset ==
    /\ dev = "connected" /\ Eventful /\ resets < MaxResets
    /\ dev' = "await" /\ resets' = resets + 1
    /\ UNCHANGED <<u, cmds, rsps, exited, loss, power>>

\* The host sleeps or wakes: JSDRV_USBBK_MSG_POWER
Power ==
    /\ Alive /\ cmds = <<>> /\ rsps = <<>>
    /\ Eventful /\ power < MaxPower /\ power' = power + 1
    /\ \E p \in {"suspend", "resume"} : rsps' = Append(rsps, <<p>>)
    /\ UNCHANGED <<u, cmds, exited, dev, loss, resets>>

\* The device is removed: LL_TERMINATED, and commands are dropped
Remove ==
    /\ Alive /\ InTime
    /\ \A i \in DOMAIN rsps : rsps[i] # <<"terminated">>
    /\ rsps' = Append(rsps, <<"terminated">>)
    /\ cmds' = <<>>
    /\ UNCHANGED <<u, exited, env>>

------------------------------------------------------------------------------
Thread == Receive \/ Timeout \/ Silence \/ Revalidate \/ Advance \/ Exit \/ Marker

Next ==
    \/ Thread \/ Answer \/ Lose \/ DevReset \/ Power \/ Remove
    \/ \E mode \in Modes : ApiOpen(mode)
    \/ ApiClose \/ ApiFinalize

Spec == Init /\ [][Next]_vars

\* The thread runs: it reads its queues, its timers elapse and the frontend
\* returns the marker.  The backend and the link deliver what was sent.
FairSpec ==
    /\ Spec
    /\ WF_vars(Receive) /\ WF_vars(Exit) /\ WF_vars(Advance) /\ WF_vars(Marker)
    /\ WF_vars(Answer)
    /\ SF_vars(Timeout) /\ SF_vars(Silence) /\ SF_vars(Revalidate)

------------------------------------------------------------------------------
TypeOK ==
    /\ u.st \in States /\ u.timer \in BOOLEAN
    /\ u.mode \in Modes \cup {"defaults"}
    /\ u.phase \in DOMAIN Kind
    /\ u.op \in {"idle", "discover", "meta", "gather", "set", "values"}
    /\ u.txn \in Nat /\ u.retry \in 0..RetryMax /\ u.blobs \in {0, Blobs} /\ u.idx \in 0..Blobs
    /\ {u.known, u.left, u.gathering, u.subs, u.marker, u.finalize, u.term, exited} \subseteq BOOLEAN
    /\ u.reval \in 0..PingRetries /\ u.out = <<>> /\ u.asked \subseteq {"open", "close"}
    /\ u.opens \in 0..MaxOpens /\ loss \in 0..MaxLoss /\ resets \in 0..MaxResets
    /\ power \in 0..MaxPower
    /\ dev \in {"await", "connected"}

\* "RESUME (1): VALUES -> META -> DONE, DEFAULTS (0): DISCOVER -> META ->
\* GATHER -> SET -> VALUES -> DONE": a restore that has ended went through the
\* phases of the mode that it began with, whatever failed on the way.
SequenceFollowsMode ==
    u.op = "idle" /\ u.ran # <<>> =>
        u.ran = IF u.began = "resume" THEN <<"values", "meta">>
                ELSE <<"discover", "meta", "gather", "set", "values">>

\* A response is never taken for the answer to another kind of request, even
\* if it comes after the request timed out, in a later phase or in a later
\* session, whose transaction ids start over.
ResponsesFit == "misfit" \notin u.odd

\* "Close-path on_enter helpers arm a 250 ms timeout so EV_TIMEOUT can force
\* progress": a state that waits for the device has an armed timer.
WaitsAreTimed ==
    u.st \in {"link_request", "link_identity", "pubsub_flush", "link_disconnect", "ll_close"} => u.timer

\* "drop the gather subscriptions so they do not leak across the session": no
\* subscription is left when the thread returns and the device is freed.
GatherReleases == exited => ~u.subs

\* "a late ack in the new state is simply dropped": the answer to an earlier
\* CLOSE does not end a later one.
LateAckDropped == "late close" \notin u.odd

\* "close timeout: no PUBSUB_FLUSH ack, advancing": the answer to the flush
\* ends it; only a flush whose answer does not come times out.
FlushAckCounts == "flush ignored" \notin u.odd

Restoring == u.st = "open" /\ u.op # "idle"
Closing == "close" \in u.asked /\ ~exited
Silent == u.st = "open" /\ dev = "await"

\* A restore ends: OPEN# is sent, or the session left ST_OPEN.
RestoreEnds == []<>~Restoring

\* jsdrv_close is answered, unless the device is removed or finalized.
CloseAnswered == []<>~Closing

\* A device whose link was reset silently has a session again, or the session
\* ends: "continued silence escalates to a handshake replay".
SilenceRecovers == []<>~Silent
==============================================================================

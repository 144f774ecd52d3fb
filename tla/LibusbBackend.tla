---------------------------- MODULE LibusbBackend ----------------------------
(***************************************************************************)
(* The thread of backend/libusb/backend.c with one device: its dev_s, the  *)
(* libusb transfers, hotplug and rescan, and the upper-level (UL) driver   *)
(* thread at the other end of cmd_q and rsp_q.                             *)
(*                                                                         *)
(* One pass of the backend loop goes through the values of pc in this      *)
(* order: events, process, silent, hotplug, reap.  A message with data goes  *)
(* back to the backend when the UL has read it, which is not modelled.     *)
(* A device that was retired gets another slot when it is added again      *)
(* (devices_free is a FIFO of 127), so each life starts with empty queues. *)
(***************************************************************************)
EXTENDS Integers, Sequences, TLAPS

CONSTANTS Outstanding,  \* BULK_IN_TRANSFER_OUTSTANDING
          RescanCount,  \* RESCAN_COUNT
          MaxQueue,     \* messages waiting when another one is sent (bound)
          MaxLives,     \* times the device is added (bound)
          MaxFaults,    \* changes of the bus state (bound)
          CloseIsSlow,  \* may a close last CLOSE_TIMEOUT_MS?
          ClaimFails    \* may libusb_open succeed and a later call fail?

ASSUME BackendAssumption ==
    /\ Outstanding \in Nat \ {0} /\ RescanCount \in Nat \ {0}
    /\ MaxQueue \in Nat \ {0} /\ MaxLives \in Nat \ {0} /\ MaxFaults \in Nat
    /\ CloseIsSlow \in BOOLEAN /\ ClaimFails \in BOOLEAN

VARIABLES d,         \* the dev_s
          x,         \* transfers_pending, see NoTransfers
          cmd_q, rsp_q,
          bus,       \* what the kernel knows of the device
          hotplug,   \* s->hotplug_event
          rescan,    \* s->rescan_remaining
          pc,        \* where the thread is in its loop
          ul,        \* the UL driver thread
          lives,     \* DEVICE_ADD messages sent
          faults,    \* changes of the bus state so far
          broken     \* what libusb was misused for, see the properties

vars == <<d, x, cmd_q, rsp_q, bus, hotplug, rescan, pc, ul, lives, faults,
          broken>>
usb == <<bus, hotplug, rescan, lives, faults>>

Retired == [active |-> FALSE, mode |-> "unassigned", handle |-> FALSE, removing |-> FALSE,
            stream |-> FALSE, close |-> FALSE, retry |-> FALSE]

\* transfers_pending holds bulk IN transfers, bulk IN transfers that were
\* cancelled, control and OUT transfers, and those that libusb_close lost.
NoTransfers == [in |-> 0, cin |-> 0, out |-> 0, lost |-> 0]
Flying == x.in + x.cin + x.out
Count(xx) == xx.in + xx.cin + xx.out + xx.lost
Pending == Count(x)

Init ==
    /\ d = Retired
    /\ x = NoTransfers
    /\ cmd_q = <<>> /\ rsp_q = <<>>
    /\ bus = "ok" /\ hotplug = TRUE /\ rescan = 0
    /\ pc = "hotplug" /\ ul = "done" /\ lives = 0 /\ faults = 0
    /\ broken = {}

CancelIn == [x EXCEPT !.in = 0, !.cin = @ + x.in]

Respond(msgs) == rsp_q' = rsp_q \o msgs

\* device_close_respond
CloseAck(rc) == IF d.close THEN <<<<"close", rc>>>> ELSE <<>>

------------------------------------------------------------------------------
(* The kernel: it suspends and resumes the device, unbinds it without a     *)
(* hotplug event, and sees it leave and arrive.  A device that arrives is   *)
(* another libusb_device: with one slot, it arrives when the old one has    *)
(* been retired (DeviceLifecycle has the overlap).                          *)

Bus ==
    /\ faults < MaxFaults /\ faults' = faults + 1
    /\ \/ bus = "ok" /\ bus' \in {"suspended", "dead"} /\ UNCHANGED hotplug
       \/ bus = "suspended" /\ bus' \in {"ok", "dead"} /\ UNCHANGED hotplug
       \/ bus # "gone" /\ bus' = "gone" /\ hotplug' = TRUE
       \/ bus = "gone" /\ ~d.active /\ bus' = "ok" /\ hotplug' = TRUE
    /\ UNCHANGED <<d, x, cmd_q, rsp_q, rescan, pc, ul, lives, broken>>

\* An unbound device is bound again once nobody holds it.
Rebind ==
    /\ bus = "dead" /\ ~d.handle
    /\ bus' = "ok"
    /\ UNCHANGED <<d, x, cmd_q, rsp_q, hotplug, rescan, pc, ul, lives,
                   faults, broken>>

Submit == CASE bus = "ok" -> {"ok"} [] bus = "suspended" -> {"io"} [] OTHER -> {"no_device"}

------------------------------------------------------------------------------
(* libusb_handle_events: the completion callbacks                           *)

InEvents == pc \in {"events", "drain"}

\* A bulk IN transfer, cancelled or not, leaves transfers_pending.
InEnds(k) == IF k = "in" THEN x.in > 0 ELSE x.cin > 0
Less(k) == IF k = "in" THEN [x EXCEPT !.in = @ - 1] ELSE [x EXCEPT !.cin = @ - 1]

\* on_bulk_in_done, COMPLETED with data: bulk_in_start submits another
\* transfer, this one is loaned to the UL until it returns the message
InCompleted(k) ==
    /\ InEvents /\ InEnds(k) /\ bus = "ok" /\ Len(rsp_q) < MaxQueue
    /\ d' = [d EXCEPT !.retry = FALSE]
    /\ Respond(<<<<"data">>>>)
    /\ x' = IF d.mode = "open" /\ d.stream THEN [Less(k) EXCEPT !.in = @ + 1] ELSE Less(k)
    /\ UNCHANGED <<cmd_q, usb, pc, ul, broken>>

\* on_bulk_in_done, CANCELLED
InCancelled ==
    /\ InEvents /\ InEnds("cin")
    /\ x' = Less("cin")
    /\ UNCHANGED <<d, cmd_q, rsp_q, usb, pc, ul, broken>>

\* on_bulk_in_done, NO_DEVICE
InNoDevice(k) ==
    /\ InEvents /\ InEnds(k) /\ bus \in {"dead", "gone"}
    /\ d' = [d EXCEPT !.retry = FALSE, !.mode = "unassigned"]
    /\ x' = Less(k)
    /\ UNCHANGED <<cmd_q, rsp_q, usb, pc, ul, broken>>

\* on_bulk_in_done, any error: suspended and gone look alike, and a frame
\* may be damaged at any time.  Whole frames are still delivered.
InError(k) ==
    /\ InEvents /\ InEnds(k)
    /\ d' = [d EXCEPT !.retry = TRUE]
    /\ x' = Less(k)
    /\ \/ UNCHANGED rsp_q
       \/ Len(rsp_q) < MaxQueue /\ Respond(<<<<"data">>>>)
    /\ UNCHANGED <<cmd_q, usb, pc, ul, broken>>

\* on_bulk_out_done, on_ctrl_in_done, on_ctrl_out_done: completed, timed
\* out, cancelled or failed
OutDone ==
    /\ InEvents /\ x.out > 0
    /\ x' = [x EXCEPT !.out = @ - 1]
    /\ Respond(<<<<"out", "done">>>>)
    /\ UNCHANGED <<d, cmd_q, usb, pc, ul, broken>>

EventsDone ==
    /\ pc = "events" /\ pc' = "process"
    /\ UNCHANGED <<d, x, cmd_q, rsp_q, usb, ul, broken>>

------------------------------------------------------------------------------
(* process_devices: device_handle_msg                                       *)

Handles(msg) ==
    /\ pc = "process" /\ d.active
    /\ cmd_q # <<>> /\ Head(cmd_q) = msg
    /\ cmd_q' = Tail(cmd_q)

\* device_close: cancel the bulk IN transfers; the handle is closed later
CloseBegins == d.handle /\ d.mode = "open"
DeviceClose == [d EXCEPT !.mode = IF CloseBegins THEN "closing" ELSE @,
                         !.stream = IF CloseBegins THEN FALSE ELSE @]

\* Faulty: the bulk IN transfers are left alone.
CancelNothing == UNCHANGED x

\* The bulk IN transfers are cancelled when their device closes.
CancelOnClose == x' = IF CloseBegins /\ d.stream THEN CancelIn ELSE x

\* CLOSE: the answer waits until the handle is closed
HandleClose ==
    /\ Handles(<<"close">>)
    /\ LET deferred == d.mode \in {"open", "closing"} /\ d.handle IN
         /\ d' = [DeviceClose EXCEPT !.close = deferred]
         /\ Respond(CloseAck("ok") \o (IF deferred THEN <<>> ELSE <<<<"close", "ok">>>>))
    /\ CancelOnClose
    /\ UNCHANGED <<usb, pc, ul, broken>>

\* device_open from libusb_open on.  A failure after libusb_open leaves the
\* handle in d->handle.
OpenNow(dd) ==
    \/ /\ bus \in {"ok", "suspended"}
       /\ broken' = broken \cup (IF dd.handle THEN {"handle_overwritten"} ELSE {})
       /\ \/ /\ d' = [dd EXCEPT !.handle = TRUE, !.mode = "open"]
             /\ Respond(<<<<"open", "ok">>>>)
          \/ /\ ClaimFails
             /\ d' = [dd EXCEPT !.handle = TRUE]
             /\ Respond(<<<<"open", "error">>>>)
    \/ /\ bus \notin {"ok", "suspended"}
       /\ d' = dd /\ Respond(<<<<"open", "error">>>>)
       /\ UNCHANGED broken

\* OPEN of a device that need not be closed first
HandleOpen ==
    /\ Handles(<<"open">>)
    /\ d.mode \in {"closed", "unassigned"}
    /\ OpenNow(d)
    /\ UNCHANGED <<x, usb, pc, ul>>

\* OPEN of an open device, or of one that is closing: device_open first
\* handles events until no transfer is pending
HandleOpenDrain ==
    /\ Handles(<<"open">>)
    /\ d.mode \in {"open", "closing"}
    /\ d' = DeviceClose /\ CancelOnClose
    /\ pc' = "drain"
    /\ UNCHANGED <<rsp_q, usb, ul, broken>>

DrainDone ==
    /\ pc = "drain" /\ Pending = 0
    /\ pc' = "process"
    /\ OpenNow([d EXCEPT !.handle = FALSE, !.mode = "closed"])
    /\ UNCHANGED <<x, cmd_q, usb, ul>>

CanSubmit == d.mode = "open" /\ d.handle

\* bulk_out_send, ctrl_in_start, ctrl_out_start
HandleOut ==
    /\ Handles(<<"out">>)
    /\ \/ /\ CanSubmit /\ "ok" \in Submit
          /\ x' = [x EXCEPT !.out = @ + 1]
          /\ UNCHANGED rsp_q
       \/ /\ ~CanSubmit \/ "ok" \notin Submit
          /\ Respond(<<<<"out", "done">>>>)
          /\ UNCHANGED x
    /\ UNCHANGED <<d, usb, pc, ul, broken>>

\* bulk_in_start, called n times
StartIn(n) == x' = IF "ok" \in Submit THEN [x EXCEPT !.in = @ + n] ELSE x

\* bulk_in_open
HandleStream ==
    /\ Handles(<<"stream">>)
    /\ IF CanSubmit
       THEN StartIn(Outstanding) /\ d' = [d EXCEPT !.stream = TRUE]
       ELSE UNCHANGED <<x, d>>
    /\ Respond(<<<<"stream", "done">>>>)
    /\ UNCHANGED <<usb, pc, ul, broken>>

\* bulk_in_close
HandleStreamClose ==
    /\ Handles(<<"unstream">>)
    /\ d' = [d EXCEPT !.stream = FALSE]
    /\ x' = CancelIn
    /\ Respond(<<<<"stream", "done">>>>)
    /\ UNCHANGED <<usb, pc, ul, broken>>

\* Messages of a device in devices_free are dropped.
DropMsg ==
    /\ pc = "process" /\ ~d.active /\ cmd_q # <<>>
    /\ cmd_q' = Tail(cmd_q)
    /\ UNCHANGED <<d, x, rsp_q, usb, pc, ul, broken>>

\* bulk_in_outstanding against the target, for a pipe that is still open
Missing == IF d.stream THEN Outstanding - x.in ELSE 0

\* bulk_in_retry_process once cmd_q is empty.  The delay has elapsed or not.
RetryProcess ==
    /\ pc = "process" /\ cmd_q = <<>>
    /\ pc' = "silent"
    /\ \/ ~d.retry /\ UNCHANGED <<d, x>>
       \/ /\ d.retry /\ (d.mode # "open" \/ d.removing)
          /\ d' = [d EXCEPT !.retry = FALSE] /\ UNCHANGED x
       \/ d.retry /\ d.mode = "open" /\ UNCHANGED <<d, x>>
       \/ /\ d.retry /\ d.mode = "open" /\ ~d.removing
          /\ IF "no_device" \in Submit /\ Missing > 0
             THEN d' = [d EXCEPT !.retry = FALSE, !.mode = "unassigned"] /\ UNCHANGED x
             ELSE UNCHANGED d /\ \E n \in 0..Missing : StartIn(n)
    /\ UNCHANGED <<cmd_q, rsp_q, usb, ul, broken>>

------------------------------------------------------------------------------
(* The rest of the pass.  It blocks nowhere and the UL thread shares only   *)
(* the queues, so the steps from handle_device_close on are one action.     *)

RemoveBegins(dd) == dd.active /\ ~dd.removing
RemoveBegin(dd) == [dd EXCEPT !.removing = TRUE, !.stream = FALSE,
                              !.mode = IF @ = "open" THEN "closing" ELSE @]

\* process_silent_removals
SilentRemovals ==
    /\ pc = "silent" /\ pc' = "hotplug"
    /\ IF RemoveBegins(d) /\ d.mode = "unassigned"
       THEN /\ d' = RemoveBegin(d)
            /\ x' = CancelIn
            /\ rescan' = RescanCount
       ELSE UNCHANGED <<d, x, rescan>>
    /\ UNCHANGED <<cmd_q, rsp_q, bus, hotplug, ul, lives, faults, broken>>

\* Faulty: a rescan is not wanted once the device was removed.
RescanNever == FALSE

\* The rescan timer of backend_thread, which may have elapsed.  The last one
\* comes 30 s after the removal began, which is over by then.
Rescan == rescan > 0 /\ (rescan = 1 => ~d.removing)

\* handle_hotplug: add the device if it is new, begin to remove it if it left
HandleHotplug ==
    \/ /\ bus = "gone" /\ RemoveBegins(d)
       /\ d' = RemoveBegin(d)
       /\ x' = CancelIn
       /\ UNCHANGED <<cmd_q, rsp_q, ul, lives>>
    \/ /\ bus # "gone" /\ ~d.active /\ lives < MaxLives
       /\ d' = [Retired EXCEPT !.active = TRUE, !.mode = "closed"]
       /\ x' = NoTransfers
       /\ cmd_q' = <<>> /\ rsp_q' = <<>>
       /\ ul' = "closed"
       /\ lives' = lives + 1
    \/ /\ bus = "gone" => ~RemoveBegins(d)
       /\ bus # "gone" => d.active \/ lives = MaxLives
       /\ UNCHANGED <<d, x, cmd_q, rsp_q, ul, lives>>

Added == lives' > lives

Hotplug ==
    /\ pc = "hotplug" /\ pc' = "reap"
    /\ \/ /\ hotplug /\ HandleHotplug /\ hotplug' = FALSE
          /\ rescan' = IF Added THEN 0 ELSE rescan
       \/ /\ ~hotplug /\ Rescan /\ HandleHotplug
          /\ rescan' = IF Added THEN 0 ELSE rescan - 1
          /\ UNCHANGED hotplug
       \/ ~hotplug /\ UNCHANGED <<d, x, cmd_q, rsp_q, ul, lives, hotplug, rescan>>
    /\ UNCHANGED <<bus, faults, broken>>

\* libusb_close and the deferred answer, in a record of the dev_s, the
\* transfers and the responses.  libusb_close forgets the transfers that are
\* still in flight: their callbacks are never called.
Closed(s, rc) == [
    d |-> [s.d EXCEPT !.handle = FALSE, !.mode = "closed", !.close = FALSE],
    x |-> IF s.d.handle THEN [NoTransfers EXCEPT !.lost = Count(s.x)] ELSE s.x,
    rsp |-> s.rsp \o (IF s.d.close THEN <<<<"close", rc>>>> ELSE <<>>)]

\* handle_device_close: libusb_close once no transfer is pending
HandleDeviceClose(s) == IF s.d.mode = "closing" /\ Count(s.x) = 0 THEN Closed(s, "ok") ELSE s

\* handle_close_timeout: CLOSE_TIMEOUT_MS after CLOSE, whatever happened to
\* the device since
HandleCloseTimeout(s) == {s} \cup (IF CloseIsSlow /\ s.d.close THEN {Closed(s, "timed_out")} ELSE {})

\* Faulty: the sentinel is sent before the transfers have drained.
ProcessRemovingEarly(s) ==
    IF s.d.removing
    THEN [d |-> Retired, x |-> s.x, rsp |-> Closed(s, "ok").rsp \o <<<<"terminated">>>>]
    ELSE s

\* process_removing: LL_TERMINATED, once the transfers have drained
ProcessRemoving(s) ==
    IF s.d.removing /\ Count(s.x) = 0
    THEN [d |-> Retired, x |-> s.x, rsp |-> Closed(s, "ok").rsp \o <<<<"terminated">>>>]
    ELSE s

Reap ==
    /\ pc = "reap" /\ pc' = "events"
    /\ \E s \in HandleCloseTimeout(HandleDeviceClose([d |-> d, x |-> x, rsp |-> rsp_q])) :
         LET end == ProcessRemoving(s) IN
         /\ d' = end.d /\ x' = end.x /\ rsp_q' = end.rsp
         /\ broken' = broken \cup (IF d.mode = "open" /\ s.d.mode = "closed"
                                   THEN {"open_session_closed"} ELSE {})
    /\ UNCHANGED <<cmd_q, usb, ul>>

------------------------------------------------------------------------------
(* The UL thread: it asks and waits for the answer, and may stop waiting    *)

UlSend(from, to, msg) ==
    /\ ul = from /\ ul' = to
    /\ Len(cmd_q) + Len(rsp_q) < MaxQueue
    /\ cmd_q' = Append(cmd_q, msg)
    /\ UNCHANGED <<d, x, rsp_q, usb, pc, broken>>

UlOpen == UlSend("closed", "opening", <<"open">>)
UlStream == UlSend("open", "streaming", <<"stream">>)
UlUnstream == UlSend("streaming", "unstreamed", <<"unstream">>)
UlOut == x.out = 0 /\ \E s \in {"open", "streaming"} : UlSend(s, s, <<"out">>)
UlClose == \E s \in {"open", "streaming", "unstreamed"} : UlSend(s, "closing", <<"close">>)

\* d_open_ll and d_close after their timeout; mb_device on EV_TIMEOUT
UlGiveUp ==
    /\ ul \in {"opening", "closing"} /\ ul' = "closed"
    /\ UNCHANGED <<d, x, cmd_q, rsp_q, usb, pc, broken>>

\* A response is matched by its topic alone.
UlReceive ==
    /\ ul # "done" /\ rsp_q # <<>>
    /\ rsp_q' = Tail(rsp_q)
    /\ LET m == Head(rsp_q) IN
           ul' = CASE m[1] = "terminated" -> "done"
                    [] m = <<"open", "ok">> /\ ul = "opening" -> "open"
                    [] m = <<"open", "error">> /\ ul = "opening" -> "closed"
                    [] m[1] = "close" /\ ul = "closing" -> "closed"
                    [] OTHER -> ul
    /\ UNCHANGED <<d, x, cmd_q, usb, pc, broken>>

------------------------------------------------------------------------------
HandleMsg ==
    \/ HandleClose \/ HandleOpen \/ HandleOpenDrain \/ HandleOut \/ HandleStream
    \/ HandleStreamClose \/ DropMsg

InDone(k) == InCompleted(k) \/ InNoDevice(k) \/ InError(k)

Backend ==
    \/ HandleMsg \/ EventsDone \/ DrainDone \/ RetryProcess \/ SilentRemovals \/ Hotplug
    \/ Reap

Ul == UlOpen \/ UlStream \/ UlUnstream \/ UlOut \/ UlClose \/ UlGiveUp \/ UlReceive

Next ==
    \/ Backend \/ Ul \/ Bus \/ Rebind
    \/ InCancelled \/ OutDone
    \/ \E k \in {"in", "cin"} : InDone(k)

Spec == Init /\ [][Next]_vars

\* What libusb completes in any case: an OUT transfer has a timeout, a
\* cancelled one is cancelled and one on a device that is gone fails.
MustEnd ==
    \/ OutDone \/ InCancelled
    \/ bus \in {"dead", "gone"} /\ \E k \in {"in", "cin"} : InDone(k)

\* The backend and the UL thread run.  libusb ends such transfers: strong
\* fairness, since events are handled in one phase of the loop only.  The UL
\* thread waits for answers, so process_devices finds cmd_q empty at some time.
\* A rescan happens while its timer is armed, and an elapsed retry is tried.
FairSpec ==
    /\ Spec
    /\ WF_vars(Backend) /\ WF_vars(UlReceive) /\ WF_vars(Rebind)
    /\ SF_vars(MustEnd)
    /\ SF_vars(Hotplug /\ (hotplug \/ rescan' # rescan))
    /\ SF_vars(RetryProcess) /\ SF_vars(RetryProcess /\ x' # x)
    /\ SF_vars(InCompleted("in"))

------------------------------------------------------------------------------
Commands == {<<"open">>, <<"close">>, <<"out">>, <<"stream">>, <<"unstream">>}
Responses == {<<"terminated">>, <<"data">>} \cup ({"open"} \X {"ok", "error"}) \cup
             ({"close"} \X {"ok", "timed_out"}) \cup ({"out", "stream"} \X {"done"})

Devs == [active : BOOLEAN, mode : {"unassigned", "closed", "open", "closing"},
         handle : BOOLEAN, removing : BOOLEAN, stream : BOOLEAN, close : BOOLEAN,
         retry : BOOLEAN]
Transfers == [in : Nat, cin : Nat, out : Nat, lost : Nat]

\* The thread and what it shares, but for the dev_s and its responses
LoopOK ==
    /\ cmd_q \in Seq(Commands)
    /\ bus \in {"ok", "suspended", "dead", "gone"} /\ hotplug \in BOOLEAN
    /\ rescan \in 0..RescanCount
    /\ pc \in {"events", "drain", "process", "silent", "hotplug", "reap"}
    /\ ul \in {"closed", "opening", "open", "streaming", "unstreamed", "closing", "done"}
    /\ lives \in 0..MaxLives /\ faults \in 0..MaxFaults
    /\ broken \subseteq {"handle_overwritten", "open_session_closed"}

TypeOK == d \in Devs /\ x \in Transfers /\ rsp_q \in Seq(Responses) /\ LoopOK

\* Nothing follows LL_TERMINATED on rsp_q, and no transfer can still complete onto it.
EndsQueue ==
    \A i \in 1..Len(rsp_q) : rsp_q[i] = <<"terminated">> =>
        i = Len(rsp_q) /\ Flying = 0 /\ ~d.active

\* Barrier B1: LL_TERMINATED is the last response, so the UL thread may exit when
\* it reads it.  No transfer is pending on a closed handle: handle_device_close,
\* process_removing and device_open all wait for transfers_pending.
TerminatedIsLast == EndsQueue /\ (~d.handle => Pending = 0)

\* What the barrier rests on, of a dev_s, its transfers and its responses: LL_TERMINATED
\* ends a queue whose device is not active, which is one that is retired; the mode is
\* "open" only with a handle, nothing is in flight without one, and only
\* handle_close_timeout loses transfers.
Barrier(dd, xx, q) ==
    /\ \A i \in 1..Len(q) : q[i] = <<"terminated">> => i = Len(q) /\ ~dd.active
    /\ ~dd.active => dd = Retired
    /\ dd.mode = "open" => dd.handle
    /\ ~dd.handle => xx.in + xx.cin + xx.out = 0
    /\ ~CloseIsSlow => xx.lost = 0

\* B1 at every step of the thread; device_open waits with an active device only.
BarrierInv == Barrier(d, x, rsp_q) /\ (pc = "drain" => d.active)

\* "so without this drain libusb_open() below would overwrite d->handle while
\* the old handle still holds interface 0": device_open never does.
HandleNotOverwritten == "handle_overwritten" \notin broken

\* A handle is held by a session that is open or closing, or by a device that is away.
HandleInv ==
    /\ d.handle => d.mode \in {"open", "closing"} \/ bus \in {"dead", "gone"}
    /\ HandleNotOverwritten

\* "if a pending close has not completed within CLOSE_TIMEOUT_MS, force
\* libusb_close": a session that was opened since is not closed.
TimeoutSparesNewSession == "open_session_closed" \notin broken

\* Every CLOSE is answered, also when the UL thread never stops waiting and
\* whatever the device does meanwhile; a device that left, or that died without a
\* hotplug event, is retired; the thread never waits forever in device_open.
BackendProgress == []<>(ul # "closing") /\ []<>~d.removing /\ []<>(pc # "drain")

\* "After tearing down such a device, rescan on a timer so the (still
\* present, kernel-rebound) device is re-announced": a device that stays on
\* the bus is active again.
Stays == bus # "gone" /\ lives < MaxLives
Announced == d.active /\ ~d.removing
SilentDeathRecovers == <>[]Stays => []<>Announced

\* "A count would leak and leave the pipe permanently short.  A top-up
\* self-corrects."
PipeRefills ==
    (<>[](bus = "ok" /\ d.mode = "open" /\ d.stream)) => []<>(x.in = Outstanding)
------------------------------------------------------------------------------
(* Proofs.  Barrier B1 for any constants, and TerminatedIsLast as long as no *)
(* close lasts CLOSE_TIMEOUT_MS.                                             *)

IInv == TypeOK /\ BarrierInv

\* A queue without LL_TERMINATED
Silent(q) == \A i \in 1..Len(q) : q[i] # <<"terminated">>

\* What the backend answers, but for LL_TERMINATED, ends no queue.
LEMMA Answers ==
    ASSUME NEW m \in Responses, m # <<"terminated">>
    PROVE  <<m>> \in Seq(Responses) /\ Silent(<<m>>)
  BY DEF Silent

\* Responses after a queue without LL_TERMINATED make another one.
LEMMA SilentConcat ==
    ASSUME NEW q \in Seq(Responses), NEW m \in Seq(Responses), Silent(q), Silent(m)
    PROVE  q \o m \in Seq(Responses) /\ Silent(q \o m)
  BY DEF Silent

\* What msg_queue_pop takes from a queue.
LEMMA TailKeeps ==
    ASSUME NEW S, NEW q \in Seq(S), q # <<>>
    PROVE  /\ Tail(q) \in Seq(S) /\ Len(Tail(q)) = Len(q) - 1 /\ Len(q) \in Nat \ {0}
           /\ \A i \in 1..Len(Tail(q)) : Tail(q)[i] = q[i + 1]
  BY DEF Silent

\* The queue of an active device has no LL_TERMINATED, and so Barrier says of an active
\* device what it says of its transfers.
LEMMA ActiveBarrier ==
    ASSUME NEW dd \in Devs, NEW xx \in Transfers, NEW q \in Seq(Responses), dd.active
    PROVE  Barrier(dd, xx, q) <=>
               /\ Silent(q)
               /\ dd.mode = "open" => dd.handle
               /\ ~dd.handle => xx.in + xx.cin + xx.out = 0
               /\ ~CloseIsSlow => xx.lost = 0
  BY DEF Barrier, Silent

\* All the constant answers.
LEMMA AnswerKinds ==
    /\ <<"terminated">> \in Responses
    /\ <<"data">> \in Responses /\ <<"data">> # <<"terminated">>
    /\ \A rc \in {"ok", "error"} : <<"open", rc>> \in Responses /\ <<"open", rc>> # <<"terminated">>
    /\ \A rc \in {"ok", "timed_out"} :
           <<"close", rc>> \in Responses /\ <<"close", rc>> # <<"terminated">>
    /\ \A c \in {"out", "stream"} : <<c, "done">> \in Responses /\ <<c, "done">> # <<"terminated">>
  BY DEF Responses

LEMMA AnswerSilent ==
    /\ <<<<"data">>>> \in Seq(Responses) /\ Silent(<<<<"data">>>>)
    /\ \A rc \in {"ok", "error"} :
           <<<<"open", rc>>>> \in Seq(Responses) /\ Silent(<<<<"open", rc>>>>)
    /\ \A rc \in {"ok", "timed_out"} :
           <<<<"close", rc>>>> \in Seq(Responses) /\ Silent(<<<<"close", rc>>>>)
    /\ \A c \in {"out", "stream"} :
           <<<<c, "done">>>> \in Seq(Responses) /\ Silent(<<<<c, "done">>>>)
  <1>1. <<<<"data">>>> \in Seq(Responses) /\ Silent(<<<<"data">>>>)
    BY Answers, AnswerKinds
  <1>2. ASSUME NEW rc \in {"ok", "error"}
        PROVE  <<<<"open", rc>>>> \in Seq(Responses) /\ Silent(<<<<"open", rc>>>>)
    BY Answers, AnswerKinds
  <1>3. ASSUME NEW rc \in {"ok", "timed_out"}
        PROVE  <<<<"close", rc>>>> \in Seq(Responses) /\ Silent(<<<<"close", rc>>>>)
    BY Answers, AnswerKinds
  <1>4. ASSUME NEW c \in {"out", "stream"}
        PROVE  <<<<c, "done">>>> \in Seq(Responses) /\ Silent(<<<<c, "done">>>>)
    BY Answers, AnswerKinds
  <1> QED
    BY <1>1, <1>2, <1>3, <1>4

\* No answer at all.
LEMMA NoAnswer ==
    ASSUME IInv
    PROVE  <<>> \in Seq(Responses) /\ Silent(<<>>) /\ rsp_q = rsp_q \o <<>>
  BY DEF Silent, IInv, TypeOK

\* Counts that add up to nothing.
LEMMA NoneOfThree ==
    ASSUME NEW a \in Nat, NEW b \in Nat, NEW c \in Nat, a > 0 \/ b > 0 \/ c > 0
    PROVE  a + b + c # 0
  OBVIOUS

LEMMA NoneOfFour ==
    ASSUME NEW a \in Nat, NEW b \in Nat, NEW c \in Nat, NEW e \in Nat
    PROVE  a + b + c + e \in Nat /\ (a + b + c + e = 0 => a + b + c = 0 /\ e = 0)
  OBVIOUS

\* A transfer in flight has a device that is active and has a handle, and InEnds leaves
\* one transfer less.
LEMMA FlyingActive ==
    ASSUME IInv, x.in > 0 \/ x.cin > 0 \/ x.out > 0
    PROVE  d.handle /\ d.active /\ Silent(rsp_q)
  <1>1. d.handle
    <2>1. x.in \in Nat /\ x.cin \in Nat /\ x.out \in Nat /\ d.handle \in BOOLEAN
      BY DEF IInv, TypeOK, Transfers, Devs
    <2>2. ~d.handle => x.in + x.cin + x.out = 0
      BY DEF IInv, BarrierInv, Barrier
    <2>3. x.in + x.cin + x.out # 0
      BY <2>1, NoneOfThree, Zenon
    <2> QED
      BY <2>1, <2>2, <2>3
  <1>2. d.active
    BY <1>1 DEF IInv, TypeOK, BarrierInv, Barrier, Devs, Retired
  <1> QED
    BY <1>1, <1>2, ActiveBarrier DEF IInv, TypeOK, BarrierInv

\* What a step owes when it keeps the device active and sends no LL_TERMINATED.
LEMMA ActiveStep ==
    ASSUME IInv, d.active,
           d' \in Devs, d'.active, d'.mode = "open" => d'.handle,
           x' \in Transfers, ~d'.handle => x'.in + x'.cin + x'.out = 0,
           ~CloseIsSlow => x'.lost = 0,
           NEW m \in Seq(Responses), Silent(m), rsp_q' = rsp_q \o m,
           LoopOK'
    PROVE  IInv'
  <1>1. Silent(rsp_q) /\ rsp_q \in Seq(Responses)
    BY ActiveBarrier DEF IInv, TypeOK, BarrierInv
  <1>2. rsp_q' \in Seq(Responses) /\ Silent(rsp_q')
    BY <1>1, SilentConcat
  <1>3. Barrier(d', x', rsp_q')
    BY <1>2, ActiveBarrier, Zenon
  <1> QED
    BY <1>2, <1>3 DEF IInv, TypeOK, BarrierInv

\* The completion callbacks of the bulk IN transfers.
LEMMA InStep ==
    ASSUME IInv, NEW k \in {"in", "cin"}, InDone(k) \/ InCancelled
    PROVE  IInv'
  <1> USE BackendAssumption
  <1>0. PICK j \in {"in", "cin"} : InEnds(j) /\ (InDone(j) \/ (InCancelled /\ j = "cin"))
    <2>1. CASE InDone(k)
      <3>1. InEnds(k)
        BY <2>1 DEF InDone, InCompleted, InNoDevice, InError
      <3> QED
        BY <2>1, <3>1
    <2>2. CASE InCancelled
      BY <2>2 DEF InCancelled
    <2> QED
      BY <2>1, <2>2
  <1>1. d.handle /\ d.active /\ d \in Devs /\ x \in Transfers /\ (~CloseIsSlow => x.lost = 0)
    BY <1>0, FlyingActive DEF IInv, TypeOK, InEnds, BarrierInv, Barrier
  <1>2. Less(j) \in Transfers /\ Less(j).lost = x.lost
    BY <1>0, <1>1 DEF Less, InEnds, Transfers
  <1>3. /\ <<>> \in Seq(Responses) /\ Silent(<<>>) /\ rsp_q = rsp_q \o <<>>
        /\ <<<<"data">>>> \in Seq(Responses) /\ Silent(<<<<"data">>>>)
    BY NoAnswer, AnswerSilent
  <1>8. LoopOK'
    BY <1>0 DEF InDone, InCompleted, InNoDevice, InError, InCancelled, IInv, TypeOK, LoopOK, usb
  <1>4. CASE InCompleted(j)
    <2>1. d' \in Devs /\ d'.active /\ d'.handle
      BY <1>1, <1>4, Zenon DEF InCompleted, Devs
    <2>2. x' \in Transfers /\ x'.lost = x.lost
      BY <1>2, <1>4 DEF InCompleted, Transfers
    <2> QED
      BY <1>1, <1>3, <1>4, <1>8, <2>1, <2>2, ActiveStep, Zenon DEF InCompleted, Respond
  <1>5. CASE InNoDevice(j)
    <2>1. d' \in Devs /\ d'.active /\ d'.handle
      BY <1>1, <1>5, Zenon DEF InNoDevice, Devs
    <2> QED
      BY <1>1, <1>2, <1>3, <1>5, <1>8, <2>1, ActiveStep, Zenon DEF InNoDevice
  <1>6. CASE InError(j)
    <2>1. d' \in Devs /\ d'.active /\ d'.handle
      BY <1>1, <1>6, Zenon DEF InError, Devs
    <2>2. PICK m \in Seq(Responses) : Silent(m) /\ rsp_q' = rsp_q \o m
      BY <1>3, <1>6, Zenon DEF InError, Respond
    <2> QED
      BY <1>1, <1>2, <1>6, <1>8, <2>1, <2>2, ActiveStep, Zenon DEF InError
  <1>7. CASE InCancelled /\ j = "cin"
    <2>1. d'.active /\ d'.handle /\ d' \in Devs /\ x' = Less(j) /\ rsp_q' = rsp_q \o <<>>
      BY <1>1, <1>3, <1>7 DEF InCancelled
    <2> QED
      BY <1>1, <1>2, <1>3, <1>7, <1>8, <2>1, ActiveStep, Zenon DEF InCancelled
  <1> QED
    BY <1>0, <1>4, <1>5, <1>6, <1>7 DEF InDone

\* The completion callbacks of the control and OUT transfers.
LEMMA OutStep == ASSUME IInv, OutDone PROVE IInv'
  <1>1. /\ d.handle /\ d.active /\ d \in Devs /\ x \in Transfers /\ x.out > 0
        /\ (~CloseIsSlow => x.lost = 0)
    BY FlyingActive DEF OutDone, IInv, TypeOK, BarrierInv, Barrier
  <1>2. x' \in Transfers /\ x'.lost = x.lost
    BY <1>1 DEF OutDone, Transfers
  <1>3. d' \in Devs /\ d'.active /\ d'.handle /\ rsp_q' = rsp_q \o <<<<"out", "done">>>>
    BY <1>1 DEF OutDone, Respond
  <1>4. LoopOK'
    BY DEF OutDone, IInv, TypeOK, LoopOK, usb
  <1> QED
    BY <1>1, <1>2, <1>3, <1>4, AnswerSilent, ActiveStep, Zenon

\* What device_handle_msg starts from.
LEMMA HandlesActive ==
    ASSUME IInv, NEW msg, Handles(msg)
    PROVE  /\ d.active /\ d \in Devs /\ x \in Transfers /\ cmd_q' \in Seq(Commands)
           /\ Silent(rsp_q) /\ rsp_q \in Seq(Responses)
           /\ d.mode = "open" => d.handle
           /\ ~d.handle => x.in + x.cin + x.out = 0
           /\ ~CloseIsSlow => x.lost = 0
  <1>1. d.active /\ d \in Devs /\ x \in Transfers /\ rsp_q \in Seq(Responses)
    BY DEF Handles, IInv, TypeOK
  <1>2. cmd_q' \in Seq(Commands)
    BY TailKeeps DEF Handles, IInv, TypeOK, LoopOK
  <1> QED
    BY <1>1, <1>2, ActiveBarrier DEF IInv, BarrierInv

\* Cancelling keeps the number of transfers in flight.
LEMMA CancelInKeeps ==
    ASSUME x \in Transfers
    PROVE  /\ CancelIn \in Transfers /\ CancelIn.lost = x.lost
           /\ CancelIn.in + CancelIn.cin + CancelIn.out = x.in + x.cin + x.out
  <1>1. x.in \in Nat /\ x.cin \in Nat /\ x.out \in Nat /\ x.lost \in Nat
    BY DEF Transfers
  <1>2. x.cin + x.in \in Nat
    BY <1>1
  <1>3. CancelIn \in Transfers
    BY <1>2, Zenon DEF CancelIn, Transfers
  <1>4. /\ CancelIn.in = 0 /\ CancelIn.cin = x.cin + x.in
        /\ CancelIn.out = x.out /\ CancelIn.lost = x.lost
    BY DEF CancelIn, Transfers
  <1> QED
    BY <1>1, <1>3, <1>4

\* device_close keeps the handle: nothing changes of an open device but its mode.
LEMMA DeviceCloseKeeps ==
    ASSUME d \in Devs
    PROVE  /\ DeviceClose \in Devs /\ DeviceClose.handle = d.handle
           /\ DeviceClose.active = d.active
           /\ DeviceClose.mode = "open" => d.mode = "open"
  BY Zenon DEF DeviceClose, CloseBegins, Devs

\* CLOSE
LEMMA CloseStep == ASSUME IInv, HandleClose PROVE IInv'
  <1> DEFINE deferred == d.mode \in {"open", "closing"} /\ d.handle
             m == CloseAck("ok") \o (IF deferred THEN <<>> ELSE <<<<"close", "ok">>>>)
  <1>1. PICK msg : Handles(msg)
    BY DEF HandleClose
  <1>2. m \in Seq(Responses) /\ Silent(m)
    <2>1. CloseAck("ok") \in Seq(Responses) /\ Silent(CloseAck("ok"))
      BY NoAnswer, AnswerSilent DEF CloseAck
    <2>2. /\ (IF deferred THEN <<>> ELSE <<<<"close", "ok">>>>) \in Seq(Responses)
          /\ Silent(IF deferred THEN <<>> ELSE <<<<"close", "ok">>>>)
      BY NoAnswer, AnswerSilent
    <2> HIDE DEF deferred
    <2> QED
      BY <2>1, <2>2, SilentConcat, Zenon
  <1>3. rsp_q' = rsp_q \o m
    BY DEF HandleClose, Respond
  <1>4. d' = [DeviceClose EXCEPT !.close = deferred] /\ CancelOnClose
    BY DEF HandleClose
  <1>5. /\ d' \in Devs /\ d'.active /\ d'.handle = d.handle
        /\ d'.mode = "open" => d.mode = "open"
    <2>1. deferred \in BOOLEAN
      OBVIOUS
    <2> HIDE DEF deferred
    <2> QED
      BY <1>1, <1>4, <2>1, HandlesActive, DeviceCloseKeeps DEF Devs
  <1>6. /\ x' \in Transfers /\ x'.lost = x.lost
        /\ x'.in + x'.cin + x'.out = x.in + x.cin + x.out
    BY <1>1, <1>4, HandlesActive, CancelInKeeps DEF CancelOnClose
  <1>7. LoopOK'
    BY <1>1, HandlesActive DEF HandleClose, IInv, TypeOK, LoopOK, usb
  <1> HIDE DEF m
  <1> QED
    BY <1>1, <1>2, <1>3, <1>5, <1>6, <1>7, HandlesActive, ActiveStep, Zenon

\* device_open from libusb_open on, of a dev_s whose handle was closed before or is lost.
LEMMA OpenNowStep ==
    ASSUME NEW dd \in Devs, dd.mode # "open", OpenNow(dd), LoopOK
    PROVE  /\ d' \in Devs /\ d'.active = dd.active /\ (d'.mode = "open" => d'.handle)
           /\ dd.handle => d'.handle
           /\ \E rc \in {"ok", "error"} : rsp_q' = rsp_q \o <<<<"open", rc>>>>
           /\ broken' \subseteq {"handle_overwritten", "open_session_closed"}
  BY Zenon DEF OpenNow, Respond, Devs, LoopOK

\* OPEN
LEMMA OpenStep == ASSUME IInv, HandleOpen PROVE IInv'
  <1>1. PICK msg : Handles(msg)
    BY DEF HandleOpen
  <1>2. d \in Devs /\ d.mode # "open" /\ OpenNow(d) /\ LoopOK
    BY DEF HandleOpen, IInv, TypeOK
  <1>3. PICK rc \in {"ok", "error"} : rsp_q' = rsp_q \o <<<<"open", rc>>>>
    BY <1>2, OpenNowStep
  <1>4. LoopOK'
    BY <1>1, <1>2, HandlesActive, OpenNowStep DEF HandleOpen, LoopOK, usb
  <1>5. x' = x
    BY DEF HandleOpen
  <1> QED
    BY <1>1, <1>2, <1>3, <1>4, <1>5, HandlesActive, OpenNowStep, AnswerSilent, ActiveStep, Zenon

\* OPEN of a device that must be closed first
LEMMA OpenDrainStep == ASSUME IInv, HandleOpenDrain PROVE IInv'
  <1>1. PICK msg : Handles(msg)
    BY DEF HandleOpenDrain
  <1>2. d' = DeviceClose /\ CancelOnClose /\ rsp_q' = rsp_q \o <<>>
    BY NoAnswer DEF HandleOpenDrain
  <1>3. /\ x' \in Transfers /\ x'.lost = x.lost
        /\ x'.in + x'.cin + x'.out = x.in + x.cin + x.out
    BY <1>1, <1>2, HandlesActive, CancelInKeeps DEF CancelOnClose
  <1>4. LoopOK'
    BY <1>1, HandlesActive DEF HandleOpenDrain, IInv, TypeOK, LoopOK, usb
  <1> QED
    BY <1>1, <1>2, <1>3, <1>4, HandlesActive, DeviceCloseKeeps, NoAnswer, ActiveStep, Zenon

\* device_open once no transfer is pending
LEMMA DrainDoneStep == ASSUME IInv, DrainDone PROVE IInv'
  <1> DEFINE dd == [d EXCEPT !.handle = FALSE, !.mode = "closed"]
  <1>1. d.active /\ d \in Devs /\ x \in Transfers /\ rsp_q \in Seq(Responses) /\ LoopOK
    BY DEF DrainDone, IInv, TypeOK, BarrierInv
  <1>2. dd \in Devs /\ dd.mode # "open" /\ dd.active
    BY <1>1, Zenon DEF Devs
  <1>3. OpenNow(dd)
    BY DEF DrainDone
  <1> HIDE DEF dd
  <1>4. PICK rc \in {"ok", "error"} : rsp_q' = rsp_q \o <<<<"open", rc>>>>
    BY <1>1, <1>2, <1>3, OpenNowStep
  <1>5. LoopOK'
    BY <1>1, <1>2, <1>3, OpenNowStep DEF DrainDone, LoopOK, usb
  <1>6. x' \in Transfers /\ x'.in + x'.cin + x'.out = 0 /\ x'.lost = 0
    <2>1. x.in \in Nat /\ x.cin \in Nat /\ x.out \in Nat /\ x.lost \in Nat
      BY <1>1 DEF Transfers
    <2>2. x.in + x.cin + x.out + x.lost = 0
      BY DEF DrainDone, Pending, Count
    <2> QED
      BY <1>1, <2>1, <2>2 DEF DrainDone
  <1> QED
    BY <1>1, <1>2, <1>3, <1>4, <1>5, <1>6, OpenNowStep, AnswerSilent, ActiveStep, Zenon

\* bulk_out_send, ctrl_in_start and ctrl_out_start submit with a handle only.
LEMMA HandleOutStep == ASSUME IInv, HandleOut PROVE IInv'
  <1>1. PICK msg : Handles(msg)
    BY DEF HandleOut
  <1>2. LoopOK'
    BY <1>1, HandlesActive DEF HandleOut, IInv, TypeOK, LoopOK, usb
  <1>3. d' = d
    BY DEF HandleOut
  <1>4. CASE d.handle /\ rsp_q' = rsp_q /\ x' = [x EXCEPT !.out = @ + 1]
    <2>1. x' \in Transfers /\ x'.lost = x.lost
      BY <1>1, <1>4, HandlesActive DEF Transfers
    <2> QED
      BY <1>1, <1>2, <1>3, <1>4, <2>1, HandlesActive, NoAnswer, ActiveStep, Zenon
  <1>5. CASE rsp_q' = rsp_q \o <<<<"out", "done">>>> /\ x' = x
    BY <1>1, <1>2, <1>3, <1>5, HandlesActive, AnswerSilent, ActiveStep, Zenon
  <1> QED
    BY <1>4, <1>5 DEF HandleOut, CanSubmit, Respond

\* bulk_in_start adds transfers and loses none.
LEMMA StartInKeeps ==
    ASSUME x \in Transfers, NEW n \in Nat, StartIn(n)
    PROVE  x' \in Transfers /\ x'.lost = x.lost
  BY DEF StartIn, Transfers

\* bulk_in_open starts transfers with a handle only.
LEMMA StreamStep == ASSUME IInv, HandleStream PROVE IInv'
  <1>1. PICK msg : Handles(msg)
    BY DEF HandleStream
  <1>2. LoopOK'
    BY <1>1, HandlesActive DEF HandleStream, IInv, TypeOK, LoopOK, usb
  <1>3. rsp_q' = rsp_q \o <<<<"stream", "done">>>>
    BY DEF HandleStream, Respond
  <1>4. CASE CanSubmit
    <2>1. x' \in Transfers /\ x'.lost = x.lost
      BY <1>1, <1>4, HandlesActive, StartInKeeps, BackendAssumption DEF HandleStream
    <2>2. d' \in Devs /\ d'.active /\ d'.handle
      BY <1>1, <1>4, HandlesActive, Zenon DEF HandleStream, CanSubmit, Devs
    <2> QED
      BY <1>1, <1>2, <1>3, <2>1, <2>2, HandlesActive, AnswerSilent, ActiveStep, Zenon
  <1>5. CASE ~CanSubmit
    <2>1. d' = d /\ x' = x
      BY <1>5 DEF HandleStream
    <2> QED
      BY <1>1, <1>2, <1>3, <2>1, HandlesActive, AnswerSilent, ActiveStep, Zenon
  <1> QED
    BY <1>4, <1>5

\* bulk_in_close
LEMMA StreamCloseStep == ASSUME IInv, HandleStreamClose PROVE IInv'
  <1>1. PICK msg : Handles(msg)
    BY DEF HandleStreamClose
  <1>2. LoopOK'
    BY <1>1, HandlesActive DEF HandleStreamClose, IInv, TypeOK, LoopOK, usb
  <1>3. rsp_q' = rsp_q \o <<<<"stream", "done">>>> /\ x' = CancelIn
    BY DEF HandleStreamClose, Respond
  <1>4. d' \in Devs /\ d'.active /\ d'.handle = d.handle /\ d'.mode = d.mode
    BY <1>1, HandlesActive, Zenon DEF HandleStreamClose, Devs
  <1> QED
    BY <1>1, <1>2, <1>3, <1>4, HandlesActive, CancelInKeeps, AnswerSilent, ActiveStep, Zenon

\* A step that leaves the device and its responses alone.
LEMMA QuietStep ==
    ASSUME IInv, d' = d, x' = x, rsp_q' = rsp_q, LoopOK', pc' = "drain" => d.active
    PROVE  IInv'
  BY DEF IInv, TypeOK, BarrierInv, Barrier

\* bulk_in_retry_process
LEMMA RetryStep == ASSUME IInv, RetryProcess PROVE IInv'
  <1>1. LoopOK' /\ pc' = "silent" /\ rsp_q' = rsp_q
    BY DEF RetryProcess, IInv, TypeOK, LoopOK, usb
  <1>2. CASE d' = d /\ x' = x
    BY <1>1, <1>2, QuietStep
  <1>3. CASE d.retry /\ ~(d' = d /\ x' = x)
    <2>1. /\ d.active /\ d \in Devs /\ x \in Transfers /\ (d.mode = "open" => d.handle)
          /\ ~CloseIsSlow => x.lost = 0
      BY <1>3 DEF IInv, TypeOK, BarrierInv, Barrier, Devs, Retired
    <2>2. ~d.handle => x.in + x.cin + x.out = 0
      BY DEF IInv, BarrierInv, Barrier
    <2>3. d' \in Devs /\ d'.active /\ d'.handle = d.handle /\ (d'.mode = "open" => d.mode = "open")
      BY <1>3, <2>1, Zenon DEF RetryProcess, Devs
    <2>4. CASE x' = x
      BY <1>1, <2>1, <2>2, <2>3, <2>4, NoAnswer, ActiveStep, Zenon
    <2>5. CASE d.mode = "open" /\ \E n \in 0..Missing : StartIn(n)
      <3>1. x' \in Transfers /\ x'.lost = x.lost
        BY <2>1, <2>5, StartInKeeps
      <3> QED
        BY <1>1, <2>1, <2>3, <2>5, <3>1, NoAnswer, ActiveStep, Zenon
    <2> QED
      BY <1>3, <2>4, <2>5 DEF RetryProcess
  <1> QED
    BY <1>2, <1>3 DEF RetryProcess

\* device_remove_begin cancels and keeps the handle.
LEMMA RemoveBeginStep ==
    ASSUME IInv, RemoveBegins(d), d' = RemoveBegin(d), x' = CancelIn, rsp_q' = rsp_q, LoopOK'
    PROVE  IInv'
  <1>1. d.active /\ d \in Devs /\ x \in Transfers
    BY DEF RemoveBegins, IInv, TypeOK
  <1>2. d' \in Devs /\ d'.active /\ d'.handle = d.handle /\ d'.mode # "open"
    BY <1>1, Zenon DEF RemoveBegin, Devs
  <1>3. (~d.handle => x.in + x.cin + x.out = 0) /\ (~CloseIsSlow => x.lost = 0)
    BY DEF IInv, BarrierInv, Barrier
  <1> QED
    BY <1>1, <1>2, <1>3, CancelInKeeps, NoAnswer, ActiveStep, Zenon

\* process_silent_removals
LEMMA SilentStep == ASSUME IInv, SilentRemovals PROVE IInv'
  <1>1. LoopOK' /\ pc' = "hotplug" /\ rsp_q' = rsp_q
    BY BackendAssumption DEF SilentRemovals, IInv, TypeOK, LoopOK
  <1>2. CASE RemoveBegins(d) /\ d.mode = "unassigned"
    BY <1>1, <1>2, RemoveBeginStep DEF SilentRemovals
  <1>3. CASE ~(RemoveBegins(d) /\ d.mode = "unassigned")
    BY <1>1, <1>3, QuietStep DEF SilentRemovals
  <1> QED
    BY <1>2, <1>3

\* device_add starts a life with nothing in flight and empty queues.
LEMMA AddStep ==
    ASSUME d' = [Retired EXCEPT !.active = TRUE, !.mode = "closed"], x' = NoTransfers,
           rsp_q' = <<>>, LoopOK'
    PROVE  IInv'
  <1>1. d' \in Devs /\ d'.active /\ d'.mode = "closed"
    BY Zenon DEF Retired, Devs
  <1>2. x' \in Transfers /\ x'.in + x'.cin + x'.out = 0 /\ x'.lost = 0
    BY DEF NoTransfers, Transfers
  <1>3. rsp_q' \in Seq(Responses) /\ Silent(rsp_q')
    BY DEF Silent
  <1>4. Barrier(d', x', rsp_q')
    BY <1>1, <1>2, <1>3, ActiveBarrier, Zenon
  <1> QED
    BY <1>1, <1>2, <1>3, <1>4 DEF IInv, TypeOK, BarrierInv

\* handle_hotplug, for an event or for a rescan
LEMMA HotplugStep == ASSUME IInv, Hotplug PROVE IInv'
  <1>0. LoopOK
    BY DEF IInv, TypeOK
  <1>1. pc' = "reap"
    BY DEF Hotplug
  <1>2. CASE HandleHotplug
    <2>1. cmd_q' \in Seq(Commands)
      <3>1. cmd_q' = cmd_q \/ cmd_q' = <<>>
        BY <1>2, Zenon DEF HandleHotplug
      <3>2. cmd_q \in Seq(Commands)
        BY <1>0 DEF LoopOK
      <3>3. <<>> \in Seq(Commands)
        OBVIOUS
      <3> QED
        BY <3>1, <3>2, <3>3, Zenon
    <2>5. lives' = lives \/ (lives < MaxLives /\ lives' = lives + 1)
      BY <1>2 DEF HandleHotplug
    <2>6. lives' \in 0..MaxLives
      BY <1>0, <2>5, BackendAssumption DEF LoopOK
    <2>2. ul' \in {"closed", "opening", "open", "streaming", "unstreamed", "closing", "done"}
      BY <1>0, <1>2 DEF HandleHotplug, LoopOK
    <2>7. rescan' \in {0, rescan} \/ (rescan > 0 /\ rescan' = rescan - 1)
      BY DEF Hotplug, Rescan
    <2>3. hotplug' \in BOOLEAN /\ rescan' \in 0..RescanCount
      <3>1. hotplug' \in BOOLEAN
        BY <1>0, Zenon DEF Hotplug, LoopOK
      <3>2. rescan \in 0..RescanCount
        BY <1>0 DEF LoopOK
      <3> QED
        BY <2>7, <3>1, <3>2, BackendAssumption
    <2>4. LoopOK'
      BY <1>0, <1>1, <2>1, <2>2, <2>3, <2>6 DEF Hotplug, LoopOK
    <2> QED
      BY <1>1, <1>2, <2>4, RemoveBeginStep, AddStep, QuietStep DEF HandleHotplug
  <1>3. CASE UNCHANGED <<d, x, cmd_q, rsp_q, ul, lives, hotplug, rescan>>
    <2>1. LoopOK'
      BY <1>0, <1>1, <1>3 DEF Hotplug, LoopOK
    <2> QED
      BY <1>1, <1>3, <2>1, QuietStep
  <1> QED
    BY <1>2, <1>3 DEF Hotplug

\* The step of the loop that handle_device_close, handle_close_timeout and
\* process_removing work on
Reaped == [d : Devs, x : Transfers, rsp : Seq(Responses)]
Sound(s) == s \in Reaped /\ Barrier(s.d, s.x, s.rsp)

\* Transfers of which none is in flight, and what libusb_close leaves of them
LEMMA CountNat ==
    ASSUME NEW xx \in Transfers
    PROVE  /\ Count(xx) \in Nat
           /\ Count(xx) = 0 => xx.in + xx.cin + xx.out = 0 /\ xx.lost = 0
           /\ [NoTransfers EXCEPT !.lost = Count(xx)] \in Transfers
           /\ LET n == [NoTransfers EXCEPT !.lost = Count(xx)] IN
              n.in + n.cin + n.out = 0 /\ n.lost = Count(xx)
  <1>1. xx.in \in Nat /\ xx.cin \in Nat /\ xx.out \in Nat /\ xx.lost \in Nat
    BY DEF Transfers
  <1>2. Count(xx) \in Nat /\ (Count(xx) = 0 => xx.in + xx.cin + xx.out = 0 /\ xx.lost = 0)
    <2> DEFINE a == xx.in  b == xx.cin  c == xx.out  e == xx.lost
    <2>1. a \in Nat /\ b \in Nat /\ c \in Nat /\ e \in Nat
      BY <1>1
    <2>2. Count(xx) = a + b + c + e
      BY DEF Count
    <2> HIDE DEF a, b, c, e
    <2>3. a + b + c + e \in Nat /\ (a + b + c + e = 0 => a + b + c = 0 /\ e = 0)
      BY <2>1
    <2> QED
      BY <2>2, <2>3 DEF a, b, c, e
  <1> QED
    BY <1>2 DEF NoTransfers, Transfers

\* The fields of what libusb_close leaves
LEMMA ClosedFields ==
    ASSUME NEW s \in Reaped, NEW rc \in {"ok", "timed_out"}
    PROVE  /\ Closed(s, rc) \in Reaped
           /\ Closed(s, rc).d.active = s.d.active
           /\ ~Closed(s, rc).d.handle /\ Closed(s, rc).d.mode = "closed"
           /\ Closed(s, rc).d.removing = s.d.removing
           /\ Closed(s, rc).x = IF s.d.handle THEN [NoTransfers EXCEPT !.lost = Count(s.x)] ELSE s.x
           /\ \E m \in Seq(Responses) : Silent(m) /\ Closed(s, rc).rsp = s.rsp \o m
  <1> DEFINE m == IF s.d.close THEN <<<<"close", rc>>>> ELSE <<>>
             xx == IF s.d.handle THEN [NoTransfers EXCEPT !.lost = Count(s.x)] ELSE s.x
             dd == [s.d EXCEPT !.handle = FALSE, !.mode = "closed", !.close = FALSE]
  <1>1. m \in Seq(Responses) /\ Silent(m)
    BY AnswerSilent DEF Silent
  <1>2. s.d \in Devs /\ s.x \in Transfers /\ s.rsp \in Seq(Responses)
    BY DEF Reaped
  <1>3. xx \in Transfers
    BY <1>2, CountNat, Zenon
  <1>4. /\ dd \in Devs /\ dd.active = s.d.active /\ ~dd.handle /\ dd.mode = "closed"
        /\ dd.removing = s.d.removing
    BY <1>2, Zenon DEF Devs
  <1>5. s.rsp \o m \in Seq(Responses)
    BY <1>1, <1>2
  <1>8. Closed(s, rc) = [d |-> dd, x |-> xx, rsp |-> s.rsp \o m]
    BY DEF Closed
  <1> HIDE DEF m, dd, xx
  <1>9. Closed(s, rc) \in Reaped
    BY <1>3, <1>4, <1>5, <1>8 DEF Reaped
  <1> QED
    <2>1. Closed(s, rc).d = dd /\ Closed(s, rc).x = xx /\ Closed(s, rc).rsp = s.rsp \o m
      BY <1>8
    <2> QED
      BY <1>1, <1>4, <1>9, <2>1, Zenon DEF xx

\* libusb_close of an active device is sound when nothing is in flight, or when the close
\* may time out.
LEMMA ClosedSound ==
    ASSUME NEW s, Sound(s), s.d.active, NEW rc \in {"ok", "timed_out"},
           Count(s.x) = 0 \/ CloseIsSlow
    PROVE  Sound(Closed(s, rc)) /\ Closed(s, rc).d.active
  <1> DEFINE c == Closed(s, rc)
  <1>1. s \in Reaped /\ s.d \in Devs /\ s.x \in Transfers /\ s.rsp \in Seq(Responses)
    BY DEF Sound, Reaped
  <1>2. /\ c \in Reaped /\ c.d.active /\ ~c.d.handle /\ c.d.mode = "closed"
        /\ c.x = IF s.d.handle THEN [NoTransfers EXCEPT !.lost = Count(s.x)] ELSE s.x
    BY <1>1, ClosedFields, Zenon
  <1>3. PICK m \in Seq(Responses) : Silent(m) /\ c.rsp = s.rsp \o m
    BY <1>1, ClosedFields, Zenon
  <1>4. Silent(s.rsp) /\ (~s.d.handle => s.x.in + s.x.cin + s.x.out = 0)
        /\ (~CloseIsSlow => s.x.lost = 0)
    BY <1>1, ActiveBarrier DEF Sound
  <1> HIDE DEF c
  <1>5. Silent(c.rsp) /\ c.d \in Devs /\ c.x \in Transfers /\ c.rsp \in Seq(Responses)
    BY <1>1, <1>2, <1>3, <1>4, SilentConcat, Zenon DEF Reaped
  <1>6. c.x.in + c.x.cin + c.x.out = 0 /\ (~CloseIsSlow => c.x.lost = 0)
    <2>1. CASE s.d.handle
      BY <1>1, <1>2, <2>1, CountNat, Zenon
    <2>2. CASE ~s.d.handle
      BY <1>2, <1>4, <2>2
    <2> QED
      BY <2>1, <2>2
  <1>7. Barrier(c.d, c.x, c.rsp)
    BY <1>2, <1>5, <1>6, ActiveBarrier, Zenon
  <1> QED
    BY <1>2, <1>7 DEF Sound, c

\* What a retired device has not.
LEMMA RetiredFields ==
    ASSUME NEW s, Sound(s), s.d.mode = "closing" \/ s.d.close \/ s.d.removing
    PROVE  s.d.active
  BY DEF Sound, Reaped, Barrier, Devs, Retired

\* LL_TERMINATED ends the responses of an active device.
LEMMA TerminateSound ==
    ASSUME NEW s, Sound(s), s.d.active, Count(s.x) = 0
    PROVE  Sound([d |-> Retired, x |-> s.x, rsp |-> Closed(s, "ok").rsp \o <<<<"terminated">>>>])
  <1> DEFINE q == Closed(s, "ok").rsp
  <1>1. s \in Reaped /\ s.x \in Transfers
    BY DEF Sound, Reaped
  <1>2. q \in Seq(Responses) /\ Silent(q)
    <2>1. Sound(Closed(s, "ok")) /\ Closed(s, "ok").d.active
      BY ClosedSound
    <2> QED
      BY <2>1, ActiveBarrier DEF Sound, Reaped
  <1>3. Retired \in Devs /\ ~Retired.active /\ Retired.mode # "open"
    BY DEF Retired, Devs
  <1>4. s.x.in + s.x.cin + s.x.out = 0 /\ s.x.lost = 0
    BY <1>1, CountNat, Zenon
  <1> HIDE DEF q
  <1>5. /\ q \o <<<<"terminated">>>> \in Seq(Responses)
        /\ Len(q \o <<<<"terminated">>>>) = Len(q) + 1
        /\ \A i \in 1..Len(q) + 1 :
               (q \o <<<<"terminated">>>>)[i] = <<"terminated">> => i = Len(q) + 1
    BY <1>2, AnswerKinds DEF Silent
  <1>6. Barrier(Retired, s.x, q \o <<<<"terminated">>>>)
    BY <1>3, <1>4, <1>5 DEF Barrier
  <1> QED
    BY <1>1, <1>3, <1>5, <1>6 DEF Sound, Reaped, q

\* handle_device_close, handle_close_timeout and process_removing in turn
LEMMA ReapStep == ASSUME IInv, Reap PROVE IInv'
  <1> DEFINE s0 == [d |-> d, x |-> x, rsp |-> rsp_q]
             s1 == HandleDeviceClose(s0)
  <1>1. Sound(s0)
    BY DEF IInv, TypeOK, BarrierInv, Sound, Reaped
  <1> HIDE DEF s0
  <1>2. Sound(s1)
    BY <1>1, RetiredFields, ClosedSound DEF HandleDeviceClose
  <1>3. PICK s \in HandleCloseTimeout(s1) :
            /\ d' = ProcessRemoving(s).d /\ x' = ProcessRemoving(s).x
            /\ rsp_q' = ProcessRemoving(s).rsp
            /\ broken' = broken \cup (IF d.mode = "open" /\ s.d.mode = "closed"
                                      THEN {"open_session_closed"} ELSE {})
    BY DEF Reap, s0
  <1> HIDE DEF s1
  <1>4. Sound(s)
    <2>1. CASE s = s1
      BY <1>2, <2>1
    <2>2. CASE CloseIsSlow /\ s1.d.close /\ s = Closed(s1, "timed_out")
      BY <1>2, <2>2, RetiredFields, ClosedSound
    <2> QED
      BY <1>3, <2>1, <2>2 DEF HandleCloseTimeout
  <1>5. Sound(ProcessRemoving(s))
    BY <1>4, RetiredFields, TerminateSound DEF ProcessRemoving
  <1>6. LoopOK' /\ pc' = "events"
    BY <1>3 DEF Reap, IInv, TypeOK, LoopOK, usb
  <1>7. ProcessRemoving(s) \in Reaped
    BY <1>5 DEF Sound
  <1>8. d' \in Devs /\ x' \in Transfers /\ rsp_q' \in Seq(Responses)
    BY <1>3, <1>7 DEF Reaped
  <1>9. Barrier(d', x', rsp_q')
    BY <1>3, <1>5 DEF Sound
  <1> QED
    BY <1>6, <1>8, <1>9 DEF IInv, TypeOK, BarrierInv

\* The UL thread appends commands and takes responses.
LEMMA UlStep == ASSUME IInv, Ul PROVE IInv'
  <1>0. LoopOK
    BY DEF IInv, TypeOK
  <1>1. ASSUME NEW from, NEW to \in {"opening", "open", "streaming", "unstreamed", "closing"},
               NEW msg \in Commands, UlSend(from, to, msg)
        PROVE  IInv'
    <2>1. LoopOK' /\ pc' = pc
      BY <1>0, <1>1 DEF UlSend, LoopOK, usb
    <2> QED
      BY <1>1, <2>1, QuietStep DEF UlSend, IInv, BarrierInv
  <1>2. ASSUME UlOpen \/ UlStream \/ UlUnstream \/ UlOut \/ UlClose PROVE IInv'
    BY <1>1, <1>2 DEF UlOpen, UlStream, UlUnstream, UlOut, UlClose, Commands
  <1>3. ASSUME UlGiveUp PROVE IInv'
    <2>1. LoopOK' /\ pc' = pc
      BY <1>0, <1>3 DEF UlGiveUp, LoopOK, usb
    <2> QED
      BY <1>3, <2>1, QuietStep DEF UlGiveUp, IInv, BarrierInv
  <1>4. ASSUME UlReceive PROVE IInv'
    <2>1. LoopOK' /\ pc' = pc
      BY <1>0, <1>4 DEF UlReceive, LoopOK, usb
    <2>2. rsp_q \in Seq(Responses) /\ rsp_q # <<>> /\ rsp_q' = Tail(rsp_q) /\ d' = d /\ x' = x
      BY <1>4 DEF UlReceive, IInv, TypeOK
    <2>3. /\ rsp_q' \in Seq(Responses) /\ Len(rsp_q') = Len(rsp_q) - 1 /\ Len(rsp_q) \in Nat \ {0}
          /\ \A i \in 1..Len(rsp_q') : rsp_q'[i] = rsp_q[i + 1]
      BY <2>2, TailKeeps
    <2>4. \A i \in 1..Len(rsp_q') : rsp_q'[i] = <<"terminated">> => i = Len(rsp_q') /\ ~d.active
      BY <2>3 DEF IInv, BarrierInv, Barrier
    <2>5. Barrier(d', x', rsp_q')
      BY <2>2, <2>4 DEF IInv, BarrierInv, Barrier
    <2> QED
      BY <2>1, <2>2, <2>3, <2>5 DEF IInv, TypeOK, BarrierInv
  <1> QED
    BY <1>2, <1>3, <1>4 DEF Ul

\* Every step of the backend, the UL thread, the kernel and libusb keeps the barrier.
LEMMA BarrierInductive == IInv /\ [Next]_vars => IInv'
  <1> SUFFICES ASSUME IInv, [Next]_vars PROVE IInv'
    OBVIOUS
  <1>0. LoopOK /\ (pc = "drain" => d.active)
    BY DEF IInv, TypeOK, BarrierInv
  <1>1. CASE HandleMsg
    <2>1. CASE DropMsg
      <3>1. cmd_q' \in Seq(Commands)
        BY <1>0, <2>1, TailKeeps DEF DropMsg, LoopOK
      <3>2. LoopOK' /\ pc' = pc
        BY <1>0, <2>1, <3>1 DEF DropMsg, LoopOK, usb
      <3> QED
        BY <1>0, <2>1, <3>2, QuietStep DEF DropMsg
    <2> QED
      BY <1>1, <2>1, CloseStep, OpenStep, OpenDrainStep, HandleOutStep, StreamStep,
         StreamCloseStep DEF HandleMsg
  <1>2. CASE EventsDone
    <2>1. LoopOK' /\ pc' = "process"
      BY <1>0, <1>2 DEF EventsDone, LoopOK, usb
    <2> QED
      BY <1>2, <2>1, QuietStep DEF EventsDone
  <1>3. CASE Bus
    <2>1. faults' \in 0..MaxFaults
      BY <1>0, <1>3, BackendAssumption DEF Bus, LoopOK
    <2>2. bus' \in {"ok", "suspended", "dead", "gone"} /\ hotplug' \in BOOLEAN
      BY <1>0, <1>3, Zenon DEF Bus, LoopOK
    <2>3. LoopOK' /\ pc' = pc
      BY <1>0, <1>3, <2>1, <2>2 DEF Bus, LoopOK
    <2> QED
      BY <1>0, <1>3, <2>3, QuietStep DEF Bus
  <1>4. CASE Rebind
    <2>1. LoopOK' /\ pc' = pc
      BY <1>0, <1>4 DEF Rebind, LoopOK
    <2> QED
      BY <1>0, <1>4, <2>1, QuietStep DEF Rebind
  <1>5. CASE UNCHANGED vars
    <2>1. LoopOK' /\ pc' = pc /\ d' = d /\ x' = x /\ rsp_q' = rsp_q
      BY <1>0, <1>5 DEF vars, LoopOK
    <2> QED
      BY <1>0, <2>1, QuietStep
  <1>6. CASE Backend
    BY <1>1, <1>2, <1>6, DrainDoneStep, RetryStep, SilentStep, HotplugStep, ReapStep DEF Backend
  <1> QED
    BY <1>3, <1>4, <1>5, <1>6, UlStep, InStep, OutStep DEF Next

\* The thread starts with no device.
LEMMA BarrierInit == Init => IInv
  <1> SUFFICES ASSUME Init PROVE IInv
    OBVIOUS
  <1>1. d \in Devs /\ ~d.active /\ d = Retired /\ d.mode # "open"
    BY DEF Init, Retired, Devs
  <1>2. x \in Transfers /\ x.in + x.cin + x.out = 0 /\ x.lost = 0
    BY DEF Init, NoTransfers, Transfers
  <1>3. rsp_q \in Seq(Responses) /\ rsp_q = <<>> /\ pc = "hotplug"
    BY DEF Init
  <1>4. LoopOK
    BY BackendAssumption DEF Init, LoopOK
  <1>5. Barrier(d, x, rsp_q)
    BY <1>1, <1>2, <1>3 DEF Barrier
  <1> QED
    BY <1>1, <1>2, <1>3, <1>4, <1>5 DEF IInv, TypeOK, BarrierInv

\* The dev_s, the transfer counts, the queues and the loop of backend_thread keep their
\* types: no transfer is taken off transfers_pending twice.
THEOREM TypeCorrect == Spec => []TypeOK
  <1>1. IInv => TypeOK
    BY DEF IInv
  <1> QED
    BY <1>1, BarrierInit, BarrierInductive, PTL DEF Spec

\* Barrier B1, also when handle_close_timeout closes a handle under its transfers:
\* LL_TERMINATED is the last message of its queue, and nothing can complete after it.
THEOREM LastResponse == Spec => []EndsQueue
  <1>1. IInv => EndsQueue
    <2> SUFFICES ASSUME IInv, NEW i \in 1..Len(rsp_q), rsp_q[i] = <<"terminated">>
                 PROVE  i = Len(rsp_q) /\ Flying = 0 /\ ~d.active
      BY DEF EndsQueue
    <2>1. i = Len(rsp_q) /\ ~d.active
      BY DEF IInv, BarrierInv, Barrier
    <2>2. ~d.handle
      BY <2>1 DEF IInv, BarrierInv, Barrier, Retired
    <2> QED
      BY <2>1, <2>2 DEF IInv, BarrierInv, Barrier, Flying
  <1> QED
    BY <1>1, BarrierInit, BarrierInductive, PTL DEF Spec

\* When no close lasts CLOSE_TIMEOUT_MS, transfers_pending is also 0 whenever there is no
\* handle: handle_device_close, process_removing and device_open wait for the transfers.
THEOREM BarrierHolds == ~CloseIsSlow => (Spec => []TerminatedIsLast)
  <1> SUFFICES ASSUME ~CloseIsSlow PROVE Spec => []TerminatedIsLast
    OBVIOUS
  <1>1. IInv => (~d.handle => Pending = 0)
    <2> SUFFICES ASSUME IInv, ~d.handle PROVE Pending = 0
      OBVIOUS
    <2>1. x.in + x.cin + x.out = 0 /\ x.lost = 0
      BY DEF IInv, BarrierInv, Barrier
    <2> QED
      BY <2>1 DEF Pending, Count
  <1>2. Spec => []IInv
    BY BarrierInit, BarrierInductive, PTL DEF Spec
  <1>3. IInv /\ EndsQueue => TerminatedIsLast
    BY <1>1 DEF TerminatedIsLast
  <1> QED
    BY <1>2, <1>3, LastResponse, PTL

\* What the end of a pass keeps of d->handle is the handle of the same session.
LEMMA ReapHandle ==
    ASSUME IInv, HandleInv, Reap
    PROVE  (d'.handle => d' = d) /\ HandleNotOverwritten' /\ bus' = bus
  <1> DEFINE s0 == [d |-> d, x |-> x, rsp |-> rsp_q]
             Kept(s) == s.d \in Devs /\ (s.d.handle => s.d = d)
  <1>1. ASSUME NEW s, Kept(s), NEW rc PROVE Kept(Closed(s, rc))
    BY <1>1 DEF Closed, Devs
  <1>2. Kept(s0) /\ Kept(HandleDeviceClose(s0))
    <2>1. Kept(s0)
      BY DEF IInv, TypeOK
    <2> HIDE DEF s0, Kept
    <2> QED
      BY <1>1, <2>1 DEF HandleDeviceClose
  <1>3. PICK s \in HandleCloseTimeout(HandleDeviceClose(s0)) :
            d' = ProcessRemoving(s).d /\
            broken' = broken \cup (IF d.mode = "open" /\ s.d.mode = "closed"
                                  THEN {"open_session_closed"} ELSE {})
    BY DEF Reap
  <1>4. Kept(s)
    <2> HIDE DEF s0, Kept
    <2> QED
      BY <1>1, <1>2, <1>3 DEF HandleCloseTimeout
  <1>5. d'.handle => d' = d
    BY <1>3, <1>4 DEF ProcessRemoving, Retired
  <1>6. HandleNotOverwritten'
    BY <1>3 DEF HandleInv, HandleNotOverwritten
  <1> QED
    BY <1>5, <1>6 DEF Reap, usb

\* libusb_open gets a handle for the session, and finds none of an earlier one.
LEMMA OpenHandle ==
    ASSUME ~ClaimFails, NEW dd \in Devs, OpenNow(dd), HandleNotOverwritten, bus' = bus,
           dd.handle => bus \in {"dead", "gone"}
    PROVE  HandleInv'
  <1>1. CASE bus \in {"ok", "suspended"}
    <2>1. ~dd.handle /\ d' = [dd EXCEPT !.handle = TRUE, !.mode = "open"] /\ broken' = broken \cup {}
      BY <1>1 DEF OpenNow
    <2>2. d'.mode = "open"
      BY <2>1 DEF Devs
    <2> QED
      BY <2>1, <2>2 DEF HandleInv, HandleNotOverwritten
  <1>2. CASE bus \notin {"ok", "suspended"}
    <2>1. d' = dd /\ broken' = broken
      BY <1>2 DEF OpenNow
    <2> QED
      BY <2>1 DEF HandleInv, HandleNotOverwritten
  <1> QED
    BY <1>1, <1>2

\* When the interface can always be claimed, every step keeps it so.
LEMMA HandleInductive == ~ClaimFails /\ IInv /\ HandleInv /\ [Next]_vars => HandleInv'
  <1> SUFFICES ASSUME ~ClaimFails, IInv, HandleInv, [Next]_vars PROVE HandleInv'
    OBVIOUS
  <1>0. d \in Devs /\ (~d.active => ~d.handle)
    BY DEF IInv, TypeOK, BarrierInv, Barrier, Retired
  <1>1. ASSUME bus' = bus \/ bus' \in {"dead", "gone"}, broken' = broken,
               d'.handle => d.handle /\ (d'.mode = d.mode \/ d'.mode \in {"open", "closing"} \/
                                        bus' \in {"dead", "gone"})
        PROVE  HandleInv'
    BY <1>1 DEF HandleInv, HandleNotOverwritten
  <1>2. CASE HandleMsg
    <2>1. CASE HandleOpen
      BY <1>0, <2>1, OpenHandle DEF HandleOpen, HandleInv, usb
    <2>2. CASE HandleClose \/ HandleOpenDrain
      <3>1. d'.handle = d.handle /\ d'.mode \in {d.mode, "closing"}
        BY <1>0, <2>2 DEF HandleClose, HandleOpenDrain, DeviceClose, Devs
      <3> QED
        BY <1>1, <2>2, <3>1 DEF HandleClose, HandleOpenDrain, usb
    <2>3. CASE HandleStream \/ HandleStreamClose
      <3>1. d'.handle = d.handle /\ d'.mode = d.mode
        BY <1>0, <2>3 DEF HandleStream, HandleStreamClose, Devs
      <3> QED
        BY <1>1, <2>3, <3>1 DEF HandleStream, HandleStreamClose, usb
    <2>4. CASE HandleOut \/ DropMsg
      BY <1>1, <2>4 DEF HandleOut, DropMsg, usb
    <2> QED
      BY <1>2, <2>1, <2>2, <2>3, <2>4 DEF HandleMsg
  <1>3. CASE DrainDone
    <2> DEFINE dd == [d EXCEPT !.handle = FALSE, !.mode = "closed"]
    <2>1. dd \in Devs /\ ~dd.handle
      BY <1>0 DEF Devs
    <2>2. OpenNow(dd) /\ bus' = bus
      BY <1>3 DEF DrainDone, usb
    <2> HIDE DEF dd
    <2> QED
      BY <2>1, <2>2, OpenHandle DEF HandleInv
  <1>4. CASE RetryProcess
    <2>1. d'.handle = d.handle /\ (d'.mode = d.mode \/ bus \in {"dead", "gone"})
      BY <1>0, <1>4 DEF RetryProcess, Submit, Devs, IInv, TypeOK, LoopOK
    <2> QED
      BY <1>1, <1>4, <2>1 DEF RetryProcess, usb
  <1>5. CASE SilentRemovals
    <2>1. d'.handle = d.handle /\ d'.mode \in {d.mode, "closing"}
      BY <1>0, <1>5 DEF SilentRemovals, RemoveBegin, Devs
    <2> QED
      BY <1>1, <1>5, <2>1 DEF SilentRemovals
  <1>6. CASE Hotplug
    <2>1. d'.handle => d.handle /\ d'.mode \in {d.mode, "closing"}
      BY <1>0, <1>6 DEF Hotplug, HandleHotplug, RemoveBegin, Retired, Devs
    <2> QED
      BY <1>1, <1>6, <2>1 DEF Hotplug
  <1>7. CASE Reap
    BY <1>7, ReapHandle DEF HandleInv
  <1>8. CASE EventsDone \/ Ul \/ InCancelled \/ OutDone \/ UNCHANGED vars
    <2>1. d' = d /\ bus' = bus /\ broken' = broken
      BY <1>8 DEF EventsDone, Ul, UlOpen, UlStream, UlUnstream, UlOut, UlClose, UlSend, UlGiveUp,
                  UlReceive, InCancelled, OutDone, vars, usb
    <2> QED
      BY <1>1, <2>1
  <1>9. CASE Bus
    <2>1. d' = d /\ broken' = broken /\ (bus' \in {"ok", "suspended"} => bus \in {"ok", "suspended"} \/ ~d.active)
      BY <1>9 DEF Bus
    <2>2. bus' \in {"ok", "suspended", "dead", "gone"}
      BY <1>9, BarrierInductive DEF IInv, TypeOK, LoopOK
    <2> QED
      BY <1>0, <2>1, <2>2 DEF HandleInv, HandleNotOverwritten
  <1>10. CASE Rebind
    BY <1>1, <1>10 DEF Rebind, HandleInv, HandleNotOverwritten
  <1>11. ASSUME NEW k \in {"in", "cin"}, InDone(k) PROVE HandleInv'
    <2>1. d'.handle = d.handle /\ (d'.mode = d.mode \/ bus \in {"dead", "gone"})
      BY <1>0, <1>11, Zenon DEF InDone, InCompleted, InNoDevice, InError, Devs
    <2>2. bus' = bus /\ broken' = broken
      BY <1>11 DEF InDone, InCompleted, InNoDevice, InError, usb
    <2> QED
      BY <1>1, <2>1, <2>2
  <1> QED
    BY <1>2, <1>3, <1>4, <1>5, <1>6, <1>7, <1>8, <1>9, <1>10, <1>11 DEF Next, Backend

\* When the interface of an opened device can always be claimed, libusb_open never
\* overwrites d->handle: neither after a close, whose drain device_open waits for, nor
\* after a device that died without an event, whose handle keeps it unbound until
\* process_removing closes it.
THEOREM HandleKept == ~ClaimFails => (Spec => []HandleNotOverwritten)
  <1> SUFFICES ASSUME ~ClaimFails PROVE Spec => []HandleNotOverwritten
    OBVIOUS
  <1>1. Init => HandleInv
    BY DEF Init, Retired, HandleInv, HandleNotOverwritten
  <1>2. IInv /\ HandleInv /\ [Next]_vars => HandleInv'
    BY HandleInductive
  <1>3. HandleInv => HandleNotOverwritten
    BY DEF HandleInv
  <1> QED
    BY <1>1, <1>2, <1>3, BarrierInit, BarrierInductive, PTL DEF Spec
==============================================================================

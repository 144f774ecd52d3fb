---------------------------- MODULE WinusbDevice -----------------------------
(* The device thread of backend/winusb/backend.c: one device with a bulk IN   *)
(* endpoint, a bulk OUT endpoint and the control pipe.  The thread waits for  *)
(* events, then handles its commands (pc "cmd"), a control transfer ("ctrl"), *)
(* and the endpoints ("in", "out").                                           *)
(* The upper-level driver (UL) sends commands, and returns each message with  *)
(* data, which lies in a transfer that belongs to its endpoint.               *)
EXTENDS Integers, Sequences

CONSTANTS
    Outstanding,    \* BULK_IN_TRANSFER_OUTSTANDING
    Profiles,       \* the commands that a UL uses: of "stream", "out", "ctrl", "close"
    PendFails,      \* the host may sleep when a stream starts, or when every read has just completed
    OutErrors,      \* an OUT transfer may fail
    CtrlQueued,     \* the UL sends a control transfer while another one is under way
    CtrlAtClose,    \* the device is closed while a control transfer is under way
    MaxCmds, MaxHeld, MaxFaults

VARIABLES
    kinds,      \* the commands in use
    pc,
    cmd_q,
    d,          \* dev_s: [open: winusb is valid, do_exit]
    in,         \* endpoints[0x81], see NoIn
    bulk,       \* generation -> the bulk_in_s: [in_flight, finalized, freed]
    out,        \* endpoints[0x01], see NoOut
    ctl,        \* ctrl_list, ctrl_overlapped, ctrl_event
    held,       \* generation -> the messages with data that the UL has
    usb,        \* "ok", "asleep" or "gone"
    ul,         \* what the UL knows: [open, stream, ids: the commands without an answer, fin]
    answers,    \* history: answers to commands that have one already
    misuse,     \* history: a call of WinUSB with a handle that is not valid, a use of freed memory
    cmds, faults

vars == <<kinds, pc, cmd_q, d, in, bulk, out, ctl, held, usb, ul, answers, misuse, cmds, faults>>
env == <<kinds, usb, cmds, faults>>

\* transfers_pending is a sequence of "wait", "done", "error" or "timeout".
NoIn == [gen |-> 0, pend |-> <<>>, event |-> FALSE, retry |-> FALSE]
NoOut == [on |-> FALSE, q |-> <<>>, st |-> "none", event |-> FALSE]
NewBulk == [in_flight |-> 0, finalized |-> FALSE, freed |-> FALSE]

Init ==
    /\ kinds \in Profiles
    /\ pc = "wait" /\ cmd_q = <<>> /\ d = [open |-> FALSE, do_exit |-> FALSE]
    /\ in = NoIn /\ bulk = <<>> /\ out = NoOut /\ ctl = [q |-> <<>>, st |-> "none", event |-> FALSE]
    /\ held = <<>> /\ usb = "ok"
    /\ ul = [open |-> FALSE, stream |-> FALSE, ids |-> {}, fin |-> FALSE]
    /\ answers = 0 /\ misuse = FALSE /\ cmds = 0 /\ faults = 0

\* msg_queue_push to rsp_q of the answers to a sequence of commands
Answer(ids) ==
    /\ ul' = [ul EXCEPT !.ids = @ \ {ids[k] : k \in DOMAIN ids}]
    /\ answers' = answers + Len(SelectSeq(ids, LAMBDA i : i \notin ul.ids))

Check(ok) == misuse' = (misuse \/ ~ok)

------------------------------------------------------------------------------
(* Bulk IN                                                                  *)

\* bulk_in_finalize: freed by the last transfer that returns
BulkInFinalize == [bulk EXCEPT ![in.gen] = [@ EXCEPT !.finalized = TRUE, !.freed = bulk[in.gen].in_flight = 0]]


\* bulk_in_transfer_return
BulkInTransferReturn(g) ==
    /\ Check(~bulk[g].freed /\ bulk[g].in_flight > 0)
    /\ bulk' = [bulk EXCEPT ![g] = [@ EXCEPT !.in_flight = @ - 1, !.freed = @ \/ (bulk[g].finalized /\ bulk[g].in_flight = 1)]]

\* bulk_in_pend: all reads are started, or fails
BulkInPend(pend) == [k \in 1..Outstanding |-> IF k \in DOMAIN pend THEN pend[k] ELSE "wait"]

\* bulk_in_retry_schedule
RetrySchedule(failed) == failed

\* Data that a read brought, up to the first that is not complete
DoneOf(pend) == SelectSeq(pend, LAMBDA s : s # "wait")

\* bulk_in_process
BulkInProcess ==
    LET fin == DoneOf(in.pend)
        rest == SelectSeq(in.pend, LAMBDA s : s = "wait")
        data == Len(SelectSeq(fin, LAMBDA s : s = "done"))
        failed == \E k \in DOMAIN fin : fin[k] = "error" IN
    /\ bulk' = [bulk EXCEPT ![in.gen].in_flight = @ + data]
    /\ held' = [held EXCEPT ![in.gen] = @ + data]
    /\ in' = [in EXCEPT !.event = FALSE, !.retry = RetrySchedule(failed) \/ (@ /\ data = 0),
                        !.pend = IF ~failed /\ usb = "ok" THEN BulkInPend(rest) ELSE rest]

\* bulk_in_retry
BulkInRetry ==
    in' = (IF usb = "ok" THEN [in EXCEPT !.retry = FALSE, !.pend = BulkInPend(@)] ELSE in)

\* The turn of the endpoint; the retry of the same pass comes with a later one.
InStep ==
    /\ pc = "in" /\ pc' = "out"
    /\ IF in.gen # 0 /\ in.event
       THEN BulkInProcess /\ Check(d.open)
       ELSE IF in.gen # 0 /\ in.retry
       THEN BulkInRetry /\ Check(d.open) /\ UNCHANGED <<bulk, held>>
       ELSE UNCHANGED <<in, bulk, held, misuse>>
    /\ UNCHANGED <<cmd_q, d, out, ctl, ul, answers, env>>

------------------------------------------------------------------------------
(* Bulk OUT                                                                 *)

\* bulk_out_send_next: the first message is written
BulkOutSendNext(o) == IF o.q = <<>> THEN [o EXCEPT !.st = "none"] ELSE [o EXCEPT !.st = "busy"]

\* bulk_out_process, bulk_out_complete_next
OutStep ==
    /\ pc = "out" /\ pc' = (IF d.do_exit THEN "close" ELSE "wait")
    /\ IF out.on /\ out.event
       THEN /\ Check(d.open)
            /\ CASE out.st = "done" -> out' = BulkOutSendNext([out EXCEPT !.event = FALSE, !.q = Tail(@)]) /\ Answer(<<Head(out.q)>>)
                 [] out.st = "error" -> out' = [out EXCEPT !.event = FALSE] /\ UNCHANGED <<ul, answers>>
                 [] out.st = "none" -> out' = [out EXCEPT !.event = FALSE] /\ UNCHANGED <<ul, answers>>
       ELSE UNCHANGED <<out, ul, answers, misuse>>
    /\ UNCHANGED <<cmd_q, d, in, bulk, ctl, held, env>>

\* bulk_out_send, bulk_out_initialize
BulkOutSend(id) ==
    LET o == IF out.on THEN out ELSE [NoOut EXCEPT !.on = TRUE, !.event = TRUE]
        o2 == [o EXCEPT !.q = Append(@, id)] IN
    out' = (IF o.q = <<>> THEN [BulkOutSendNext(o2) EXCEPT !.event = FALSE] ELSE o2)

------------------------------------------------------------------------------
(* Control                                                                  *)

\* ctrl_start_next
CtrlStartNext(c) == IF c.q = <<>> THEN [c EXCEPT !.st = "none"] ELSE [c EXCEPT !.st = "busy"]

\* ctrl_send_done
CtrlAnswer(id) == <<id>>

\* ctrl_complete: the next one is started only after a success.  The
\* thread waits in WinUsb_GetOverlappedResult when the transfer is not complete.
CtrlStep ==
    /\ pc = "ctrl"
    /\ IF ~ctl.event THEN UNCHANGED <<ctl, ul, answers, misuse>>
       ELSE IF ctl.q = <<>> THEN ctl' = [ctl EXCEPT !.event = FALSE, !.st = "none"] /\ UNCHANGED <<ul, answers, misuse>>
       ELSE /\ ctl.st # "busy"
            /\ Check(d.open) /\ Answer(CtrlAnswer(Head(ctl.q)))
            /\ ctl' = (IF ctl.st = "done" THEN CtrlStartNext([ctl EXCEPT !.event = FALSE, !.q = Tail(@)])
                       ELSE [ctl EXCEPT !.event = FALSE, !.st = "none", !.q = Tail(@)])
    /\ pc' = "in"
    /\ UNCHANGED <<cmd_q, d, in, bulk, out, held, env>>

\* ctrl_add
CtrlAdd(id) ==
    LET c == [ctl EXCEPT !.q = Append(@, id)] IN
    ctl' = (IF ctl.q = <<>> THEN [CtrlStartNext(c) EXCEPT !.event = FALSE] ELSE c)

------------------------------------------------------------------------------
(* Commands                                                                 *)

\* device_closed_reply
DeviceClosedReply(k) == ~d.open /\ k \in {"out", "ctrl", "stream_open"}

\* ep_finalize_by_id of the IN endpoint
InFinalize == in' = NoIn /\ bulk' = (IF in.gen = 0 THEN bulk ELSE BulkInFinalize)

\* device_close: the OUT messages are answered, the control transfers are not.
DeviceClose ==
    /\ InFinalize /\ out' = NoOut /\ d' = [d EXCEPT !.open = FALSE]
    /\ ctl' = (IF ctl.st = "busy" THEN [ctl EXCEPT !.st = "error", !.event = TRUE] ELSE ctl)

\* device_open
DeviceOpen ==
    IF usb = "gone" THEN UNCHANGED <<d, ctl>>
    ELSE d' = [d EXCEPT !.open = TRUE] /\ ctl' = [ctl EXCEPT !.q = <<>>]

\* BULK_IN_STREAM_OPEN, bulk_in_initialize: the event is set, so that reads are started.
StreamOpen ==
    /\ in' = [NoIn EXCEPT !.gen = Len(bulk) + 1, !.event = TRUE]
    /\ bulk' = Append(IF in.gen = 0 THEN bulk ELSE BulkInFinalize, NewBulk)
    /\ held' = Append(held, 0)

\* device_handle_msg
HandleMsg ==
    LET m == Head(cmd_q) IN
    /\ pc = "cmd" /\ cmd_q # <<>> /\ cmd_q' = Tail(cmd_q)
    /\ CASE m.k = "ret" -> BulkInTransferReturn(m.id) /\ UNCHANGED <<pc, d, in, out, ctl, held, ul, answers>>
         [] m.k = "finalize" -> d' = [d EXCEPT !.do_exit = TRUE] /\ pc' = "ctrl" /\ UNCHANGED <<in, bulk, out, ctl, held, ul, answers, misuse>>
         [] m.k # "ret" /\ DeviceClosedReply(m.k) ->
              Answer(<<m.id>>) /\ UNCHANGED <<pc, d, in, bulk, out, ctl, held, misuse>>
         [] m.k = "open" -> DeviceOpen /\ Answer(<<m.id>>) /\ UNCHANGED <<pc, in, bulk, out, held, misuse>>
         [] m.k = "close" -> DeviceClose /\ Answer(out.q \o <<m.id>>) /\ Check(d.open \/ in.gen = 0) /\ UNCHANGED <<pc, held>>
         [] m.k = "out" /\ ~DeviceClosedReply(m.k) -> BulkOutSend(m.id) /\ Check(d.open) /\ UNCHANGED <<pc, d, in, bulk, ctl, held, ul, answers>>
         [] m.k = "ctrl" /\ ~DeviceClosedReply(m.k) -> CtrlAdd(m.id) /\ Check(d.open) /\ UNCHANGED <<pc, d, in, bulk, out, held, ul, answers>>
         [] m.k = "stream_open" /\ ~DeviceClosedReply(m.k) ->
              StreamOpen /\ Answer(<<m.id>>) /\ Check(d.open) /\ UNCHANGED <<pc, d, out, ctl>>
         [] m.k = "stream_close" -> InFinalize /\ Answer(<<m.id>>) /\ UNCHANGED <<pc, d, out, ctl, held, misuse>>
    /\ UNCHANGED env

NoMsg == pc = "cmd" /\ cmd_q = <<>> /\ pc' = "ctrl" /\ UNCHANGED <<cmd_q, d, in, bulk, out, ctl, held, ul, answers, misuse, env>>

\* device_thread: WaitForMultipleObjects, which a retry that is due ends
Wait ==
    /\ pc = "wait" /\ (cmd_q # <<>> \/ ctl.event \/ in.event \/ in.retry \/ out.event) /\ pc' = "cmd"
    /\ UNCHANGED <<cmd_q, d, in, bulk, out, ctl, held, ul, answers, misuse, env>>

\* The end of device_thread, with LL_TERMINATED
Exit ==
    /\ pc = "close" /\ pc' = "done"
    /\ DeviceClose /\ Answer(out.q) /\ UNCHANGED <<cmd_q, held, misuse, env>>

------------------------------------------------------------------------------
(* The UL                                                                   *)

Busy(k) == \E i \in DOMAIN cmd_q : cmd_q[i].k = k
Send(k, u) ==
    /\ ~ul.fin /\ cmds < MaxCmds /\ Len(cmd_q) < 3
    /\ cmd_q' = Append(cmd_q, [k |-> k, id |-> cmds + 1]) /\ cmds' = cmds + 1
    /\ ul' = [u EXCEPT !.ids = @ \cup {cmds + 1}]
    /\ UNCHANGED <<pc, d, in, bulk, out, ctl, held, usb, answers, misuse, kinds, faults>>

UlOpen == ~ul.open /\ ul.ids = {} /\ Send("open", [ul EXCEPT !.open = TRUE])
UlClose == "close" \in kinds /\ ul.open /\ (CtrlAtClose \/ (ctl.q = <<>> /\ ~Busy("ctrl"))) /\ Send("close", [ul EXCEPT !.open = FALSE, !.stream = FALSE])
UlStream ==
    /\ "stream" \in kinds /\ ul.open /\ (PendFails \/ usb = "ok")
    /\ \/ Send("stream_open", [ul EXCEPT !.stream = TRUE])
       \/ ul.stream /\ Send("stream_close", [ul EXCEPT !.stream = FALSE])
UlOut == "out" \in kinds /\ Send("out", ul)
UlCtrl == "ctrl" \in kinds /\ ul.open /\ (CtrlQueued \/ (ctl.q = <<>> /\ ~Busy("ctrl"))) /\ Send("ctrl", ul)

\* Each message with data goes back.
UlReturn(g) ==
    /\ g \in DOMAIN held /\ held[g] > 0 /\ held' = [held EXCEPT ![g] = @ - 1]
    /\ cmd_q' = Append(cmd_q, [k |-> "ret", id |-> g])
    /\ UNCHANGED <<pc, d, in, bulk, out, ctl, ul, answers, misuse, env>>

\* device_thread_stop: the backend has found that the device is gone, or ends.
Finalize ==
    /\ ~ul.fin /\ ul' = [ul EXCEPT !.fin = TRUE]
    /\ cmd_q' = Append(cmd_q, [k |-> "finalize", id |-> 0])
    /\ UNCHANGED <<pc, d, in, bulk, out, ctl, held, answers, misuse, env>>

------------------------------------------------------------------------------
(* The USB stack of the host                                                *)

rest == <<kinds, pc, cmd_q, d, bulk, held, ul, answers, misuse, cmds>>

\* A read completes, with data or because its time is over; reads complete in order.
ReadDone(s) ==
    /\ usb = "ok" /\ \E k \in DOMAIN in.pend : in.pend[k] = "wait"
    /\ s = "timeout" => faults < MaxFaults
    /\ s = "done" => \A g \in DOMAIN held : held[g] < MaxHeld
    /\ LET k == CHOOSE k \in DOMAIN in.pend : in.pend[k] = "wait" /\ \A j \in 1..(k - 1) : in.pend[j] # "wait" IN
       in' = [in EXCEPT !.pend[k] = s, !.event = TRUE]
    /\ faults' = (IF s = "timeout" THEN faults + 1 ELSE faults)
    /\ UNCHANGED <<rest, out, ctl, usb>>

\* The host goes to sleep, or the device is removed: the reads fail.
Sleep(u) ==
    /\ usb = "ok" /\ faults < MaxFaults /\ faults' = faults + 1 /\ usb' = u
    /\ PendFails \/ ~Busy("stream_open")
    /\ PendFails \/ in.gen = 0 \/ (\E k \in DOMAIN in.pend : in.pend[k] # "done") \/ in.retry
    /\ in' = [in EXCEPT !.pend = [k \in DOMAIN @ |-> IF @[k] = "wait" THEN "error" ELSE @[k]],
                        !.event = @ \/ (\E k \in DOMAIN in.pend : in.pend[k] = "wait")]
    /\ UNCHANGED <<rest, out, ctl>>

Resume == usb = "asleep" /\ usb' = "ok" /\ UNCHANGED <<rest, in, out, ctl, faults>>

OutDone(s) ==
    /\ out.st = "busy" /\ usb = "ok" /\ (s = "error" => OutErrors)
    /\ out' = [out EXCEPT !.st = s, !.event = TRUE] /\ UNCHANGED <<rest, in, ctl, usb, faults>>

\* A control transfer has a time limit, CONTROL_TIMEOUT_MS.
CtrlDone(s) ==
    /\ ctl.st = "busy" /\ (s = "done" => usb = "ok")
    /\ ctl' = [ctl EXCEPT !.st = s, !.event = TRUE] /\ UNCHANGED <<rest, in, out, usb, faults>>

Thread == Wait \/ HandleMsg \/ NoMsg \/ CtrlStep \/ InStep \/ OutStep \/ Exit
Next ==
    \/ Thread
    \/ UlOpen \/ UlClose \/ UlStream \/ UlOut \/ UlCtrl \/ Finalize
    \/ \E g \in DOMAIN held : UlReturn(g)
    \/ \E s \in {"done", "timeout"} : ReadDone(s)
    \/ \E u \in {"asleep", "gone"} : Sleep(u)
    \/ Resume \/ \E s \in {"done", "error"} : OutDone(s) \/ CtrlDone(s)

Spec == Init /\ [][Next]_vars

\* The thread runs; a host that sleeps wakes up; transfers that can complete do so; a
\* device that is gone is finalized (device_scan).
FairSpec ==
    /\ Spec /\ WF_vars(Thread) /\ WF_vars(Resume)
    /\ WF_vars(OutDone("done") \/ OutDone("error")) /\ WF_vars(CtrlDone("done") \/ CtrlDone("error"))
    /\ WF_vars(usb = "gone" /\ Finalize)

------------------------------------------------------------------------------

\* Every transfer that the UL has, or has returned, is counted by the endpoint it came from,
\* which is freed with the last one and not before.
TransfersCounted ==
    pc # "done" =>
      \A g \in DOMAIN bulk :
        /\ bulk[g].in_flight = held[g] + Len(SelectSeq(cmd_q, LAMBDA m : m.k = "ret" /\ m.id = g))
        /\ bulk[g].freed = (bulk[g].finalized /\ bulk[g].in_flight = 0)

Unanswered == ul.ids # {} /\ pc # "done"
Paused == in.gen # 0 /\ usb = "ok" /\ in.pend = <<>> /\ pc # "done"

\* Every command is answered, unless the thread ends.
CommandsAnswered == []<>~Unanswered

\* After a failure, reads are started again once the device can take them.
StreamRecovers == []<>~Paused
==============================================================================

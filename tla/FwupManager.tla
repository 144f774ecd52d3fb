----------------------------- MODULE FwupManager ----------------------------
(* js320_fwup_mgr.c: the manager that starts a worker thread for each full    *)
(* update of a JS320, and the workers, which use the public API only.  A      *)
(* worker sends a command and waits for its one event, which every callback   *)
(* signals: answers, the device's removal and arrival, the sensor's link, and *)
(* the exit of the manager.  The frontend works on its queue in order; it     *)
(* runs the manager's handler of !add and the callbacks.                      *)
EXTENDS Integers, Sequences, FiniteSets

CONSTANTS
    N,              \* JSDRV_FWUP_INSTANCE_MAX
    Adds,           \* the !add commands: what is not skipped, what the ZIP holds
    MemOps,         \* memory operations per resource: one erase, then writes
    Faults,         \* "err", "lost" (no answer), "silent" (a reboot that is not noticed), "stuck" (does not come back)
    ExitWhile,      \* where a worker may be when the driver is finalized
    Settled,        \* !add comes when nothing else is queued
    Shared,         \* two workers may update the device at once
    Foreign,        \* another client uses the device's memory
    MaxAdds, MaxFaults

Slots == 1..N

VARIABLES
    ws,         \* mgr_.workers
    nextId,     \* mgr_.next_id
    list,       \* the list published last
    front,      \* the frontend runs
    q,          \* the frontend's queue
    subs,       \* subscriptions: topic and worker
    dq,         \* the commands for the device
    dev,        \* the device
    fin,        \* jsdrv_fwup_mgr_finalize: 0, or the step it is at
    shown,      \* history: the status published in the last step
    bad,        \* history: what was freed while it was used
    adds, faults

vars == <<ws, nextId, list, front, q, subs, dq, dev, fin, shown, bad, adds, faults>>

NoWorker ==
    [pc |-> "none", id |-> 0, parts |-> {}, zip |-> {}, present |-> FALSE, removed |-> FALSE, exit |-> FALSE, ev |-> FALSE,
     event |-> FALSE, rsp |-> "ok", st |-> "INIT", opened |-> FALSE, op |-> 0, again |-> FALSE, ret |-> "none", done |-> FALSE,
     spent |-> 0]
NoStatus == [id |-> 0, st |-> "none", slot |-> 0]

Init ==
    /\ ws = [s \in Slots |-> NoWorker] /\ nextId = 0 /\ list = {} /\ front = TRUE
    /\ q = <<>> /\ subs = {} /\ dq = <<>>
    /\ dev = [here |-> TRUE, open |-> 0, fw |-> "old", fpga |-> "old", link |-> "up", mem |-> [g \in {"c", "s"} |-> {}], boot |-> "no"]
    /\ fin = 0 /\ shown = NoStatus /\ bad = {} /\ adds = 0 /\ faults = 0

M(k, s, t, x) == [k |-> k, s |-> s, t |-> t, x |-> x]
Event(t, x) == M("event", 0, t, x)

------------------------------------------------------------------------------
(* The manager, in the frontend's thread                                    *)

Live(w) == {w[s].id : s \in {r \in Slots : w[r].pc # "none" /\ ~w[r].done}}

\* mgr_cleanup_done: joins a worker that is done and frees its event.
CleanupDone(w) == [s \in Slots |-> IF w[s].done THEN NoWorker ELSE w[s]]

\* mgr_on_add, mgr_start_worker: the first slot that is free
OnAdd(a) ==
    LET w == CleanupDone(ws)
        free == {s \in Slots : w[s].pc = "none"}
        s == CHOOSE r \in free : \A t \in free : r <= t
        v == [w EXCEPT ![s] = [NoWorker EXCEPT !.pc = "sub", !.id = nextId, !.parts = a.parts, !.zip = a.zip, !.present = TRUE, !.event = TRUE]] IN
    IF a.parts = {} THEN UNCHANGED <<ws, nextId, list>>
    ELSE IF free = {} THEN ws' = w /\ list' = (IF w = ws THEN list ELSE Live(w)) /\ UNCHANGED nextId
    ELSE ws' = v /\ list' = Live(v) /\ nextId' = nextId + 1

\* on_fwup_rsp and on_mem_rsp, on_link_state, on_device_add, on_device_remove
Callback(w, t, x) ==
    CASE t \in {"rsp", "mem"} -> [w EXCEPT !.rsp = x, !.ev = TRUE]
      [] t = "link" -> [w EXCEPT !.ev = TRUE]
      [] t = "add" -> [w EXCEPT !.present = TRUE, !.ev = TRUE]
      [] t = "remove" -> [w EXCEPT !.present = FALSE, !.removed = TRUE, !.ev = TRUE]

\* The API calls that the worker waits for; what the device has not begun when it is
\* closed is dropped.
Call(m) ==
    CASE m.t = "open" /\ ~dev.here -> ws' = [ws EXCEPT ![m.s].ret = "err"] /\ UNCHANGED <<dev, subs, dq>>
      [] m.t = "open" /\ dev.here /\ dev.open = 0 ->
           ws' = [ws EXCEPT ![m.s].ret = "ok"] /\ dev' = [dev EXCEPT !.open = m.s] /\ subs' = subs \cup {<<"mem", m.s>>}
           /\ UNCHANGED dq
      [] m.t = "open" /\ dev.here /\ dev.open # 0 -> UNCHANGED <<ws, dev, subs, dq>>
      [] m.t = "close" ->
           ws' = [ws EXCEPT ![m.s].ret = "ok"] /\ dev' = [dev EXCEPT !.open = IF @ = m.s THEN 0 ELSE @]
           /\ dq' = SelectSeq(dq, LAMBDA c : c.s # m.s) /\ UNCHANGED subs
      [] m.t = "link" -> ws' = [ws EXCEPT ![m.s].ret = "ok"] /\ subs' = subs \cup {<<"link", m.s>>} /\ UNCHANGED <<dev, dq>>

Frontend ==
    /\ front /\ q # <<>> /\ q' = Tail(q)
    /\ LET m == Head(q)
           called == {s \in Slots : <<m.t, s>> \in subs} IN
       CASE m.k = "add" -> OnAdd(m.x) /\ UNCHANGED <<subs, dev, dq, bad>>
         [] m.k = "sub" -> subs' = subs \cup {<<m.t, m.s>>} /\ UNCHANGED <<ws, nextId, list, dev, dq, bad>>
         [] m.k = "unsub" -> subs' = subs \ {<<m.t, m.s>>} /\ UNCHANGED <<ws, nextId, list, dev, dq, bad>>
         [] m.k = "event" ->
              /\ ws' = [s \in Slots |-> IF s \in called /\ ws[s].event THEN Callback(ws[s], m.t, m.x) ELSE ws[s]]
              /\ bad' = bad \cup {"event" : s \in {r \in called : ~ws[r].event}}
              /\ UNCHANGED <<nextId, list, subs, dev, dq>>
         [] m.k = "cmd" -> dq' = (IF dev.open = m.s THEN Append(dq, m) ELSE dq) /\ UNCHANGED <<ws, nextId, list, subs, dev, bad>>
         [] m.k = "call" -> Call(m) /\ UNCHANGED <<nextId, list, bad>>
    /\ shown' = NoStatus /\ UNCHANGED <<front, fin, adds, faults>>

------------------------------------------------------------------------------
(* A worker                                                                 *)

\* The worker of slot s becomes w, sends ms and publishes the status st.
Does(s, w, ms, st) ==
    /\ ws' = [ws EXCEPT ![s] = w]
    /\ q' = IF front THEN q \o ms ELSE q
    /\ shown' = IF st = "none" THEN NoStatus ELSE [id |-> w.id, st |-> st, slot |-> s]
    /\ UNCHANGED <<nextId, list, front, subs, dq, dev, fin, bad, adds, faults>>

At(s, pc) == ws[s].pc = pc /\ ws[s].event

\* worker_fail
Fail(w) == [w EXCEPT !.st = "ERROR", !.pc = IF w.opened THEN "end" ELSE "leave"]

\* What follows what, as the flags say
AfterCtrl(w) == IF "res" \in w.parts THEN "res c" ELSE IF "fpga" \in w.parts THEN "fpga" ELSE "finish"
AfterFpga(w) == IF "res" \in w.parts THEN "res s" ELSE "finish"

\* worker_thread up to worker_extract
Begin(s) == At(s, "sub") /\ Does(s, [ws[s] EXCEPT !.pc = "extract"], <<M("sub", s, "add", ""), M("sub", s, "remove", "")>>, "none")

Extract(s) ==
    LET w == ws[s]
        missing == {p \in {"ctrl", "fpga"} : p \in w.parts /\ p \notin w.zip} IN
    /\ At(s, "extract")
    /\ IF missing # {} THEN Does(s, Fail(w), <<>>, "ERROR")
       ELSE Does(s, [w EXCEPT !.pc = IF w.exit THEN "leave" ELSE "open"], <<>>, "none")

\* worker_open: jsdrv_open and the subscription to h/!rsp
Open(s) == At(s, "open") /\ Does(s, [ws[s] EXCEPT !.pc = "open!", !.ret = "none"], <<M("call", s, "open", "")>>, "none")

\* What follows an open depends on the state that it is called in.
OpenDone(s) ==
    LET w == ws[s] IN
    /\ At(s, "open!") /\ w.ret # "none"
    /\ IF w.ret # "ok" THEN Does(s, Fail(w), <<>>, "ERROR")
       ELSE IF w.st = "INIT" /\ w.exit THEN Does(s, [w EXCEPT !.pc = "leave"], <<>>, "none")
       ELSE Does(s, [w EXCEPT !.opened = TRUE,
                              !.pc = CASE w.st = "INIT" -> (IF "ctrl" \in w.parts THEN "ctrl" ELSE AfterCtrl(w))
                                       [] w.st = "REOPEN" -> AfterCtrl(w)
                                       [] w.st = "SENSOR" -> "res s"], <<>>, "none")

\* worker_ctrl_fw: the latch of the removal is cleared, then worker_fwup_send_and_wait.
CtrlFw(s) ==
    /\ At(s, "ctrl")
    /\ Does(s, [ws[s] EXCEPT !.st = "CTRL_FW", !.removed = FALSE, !.rsp = "timeout", !.ev = FALSE, !.pc = "ctrl!"],
            <<M("sub", s, "rsp", ""), M("cmd", s, "ctrl", "")>>, "none")

Unsub(s, t) == M("unsub", s, t, "")

CtrlFwDone(s) ==
    LET w == ws[s] IN
    /\ At(s, "ctrl!") /\ w.ev
    /\ IF w.rsp = "ok" THEN Does(s, [w EXCEPT !.pc = "close"], <<Unsub(s, "rsp")>>, "none")
       ELSE Does(s, Fail(w), <<Unsub(s, "rsp")>>, "ERROR")

\* worker_close
Close(s) ==
    /\ At(s, "close")
    /\ Does(s, [ws[s] EXCEPT !.pc = "close!", !.opened = FALSE, !.ret = "none"], <<Unsub(s, "mem"), M("call", s, "close", "")>>, "none")

\* Faulty: the latch of the removal is cleared only now that the worker begins to wait for it.
CloseDoneClears(s) ==
    /\ At(s, "close!") /\ ws[s].ret # "none"
    /\ Does(s, [ws[s] EXCEPT !.pc = IF ws[s].st = "CTRL_FW" THEN "removing" ELSE "open", !.removed = FALSE], <<>>, "none")

CloseDone(s) ==
    /\ At(s, "close!") /\ ws[s].ret # "none"
    /\ Does(s, [ws[s] EXCEPT !.pc = IF ws[s].st = "CTRL_FW" THEN "removing" ELSE "open"], <<>>, "none")

\* worker_wait_reconnect polls; a signal only shortens a poll.
Removed(s) ==
    LET w == ws[s] IN
    /\ At(s, "removing") /\ (w.removed \/ ~w.present \/ w.exit)
    /\ Does(s, [w EXCEPT !.pc = IF w.exit THEN "leave" ELSE "adding"], <<>>, "none")

Added(s) ==
    LET w == ws[s] IN
    /\ At(s, "adding") /\ (w.present \/ w.exit)
    /\ Does(s, [w EXCEPT !.pc = IF w.exit THEN "leave" ELSE "open", !.st = "REOPEN"], <<>>, "none")

\* worker_write_resources_filtered for one side of the device
Group(w) == IF w.st = "SENSOR" THEN "s" ELSE "c"

Resources(s) ==
    LET w == ws[s]
        g == IF w.pc = "res s" THEN "s" ELSE "c"
        v == [w EXCEPT !.st = IF g = "s" THEN "SENSOR" ELSE "CTRL_RESOURCE", !.op = 1] IN
    /\ ws[s].event /\ w.pc \in {"res c", "res s"}
    /\ Does(s, [v EXCEPT !.pc = IF w.exit /\ ~w.again THEN "end"
                                ELSE IF g \in w.zip THEN "mem"
                                ELSE IF g = "s" THEN "finish" ELSE IF "fpga" \in w.parts THEN "fpga" ELSE AfterFpga(w)], <<>>, "none")

\* worker_mem_op
MemOp(s) ==
    LET w == ws[s] IN
    /\ At(s, "mem") /\ ~w.exit
    /\ Does(s, [w EXCEPT !.rsp = "timeout", !.ev = FALSE, !.pc = "mem!"], <<M("cmd", s, Group(w), w.op)>>, "none")

\* worker_write_resource failed or was cancelled; the sensor's resources are tried again once.
MemFail(s, w) ==
    IF w.st = "SENSOR" /\ ~w.again THEN Does(s, [w EXCEPT !.pc = "close", !.again = TRUE], <<>>, "none")
    ELSE Does(s, Fail(w), <<>>, "ERROR")

MemOk(w) == w.rsp = "ok"

MemDone(s) ==
    LET w == ws[s]
        last == w.op = MemOps IN
    /\ At(s, "mem!") /\ w.ev
    /\ IF ~MemOk(w) THEN MemFail(s, w)
       ELSE Does(s, [w EXCEPT !.op = @ + 1,
                              !.pc = IF ~last THEN "mem" ELSE IF w.st = "SENSOR" THEN "finish"
                                     ELSE IF "fpga" \in w.parts THEN "fpga" ELSE AfterFpga(w)], <<>>, "none")

MemCancelled(s) == At(s, "mem") /\ ws[s].exit /\ MemFail(s, ws[s])

\* worker_fpga_bitstream
Fpga(s) ==
    LET w == ws[s] IN
    /\ At(s, "fpga")
    /\ IF w.exit THEN Does(s, [w EXCEPT !.pc = "end"], <<>>, "none")
       ELSE Does(s, [w EXCEPT !.st = "FPGA", !.rsp = "timeout", !.ev = FALSE, !.pc = "fpga!"],
                 <<M("sub", s, "rsp", ""), M("cmd", s, "fpga", "")>>, "none")

FpgaDone(s) ==
    LET w == ws[s] IN
    /\ At(s, "fpga!") /\ w.ev
    /\ IF w.rsp = "ok" THEN Does(s, [w EXCEPT !.pc = "link"], <<Unsub(s, "rsp")>>, "none")
       ELSE Does(s, Fail(w), <<Unsub(s, "rsp")>>, "ERROR")

\* worker_wait_sensor_link: the subscription is in place before the wait.
Link(s) ==
    /\ At(s, "link")
    /\ Does(s, [ws[s] EXCEPT !.ev = FALSE, !.ret = "none", !.pc = "link!"], <<M("call", s, "link", "")>>, "none")

LinkDone(s) ==
    LET w == ws[s] IN
    /\ At(s, "link!") /\ w.ret # "none" /\ w.ev
    /\ Does(s, [w EXCEPT !.pc = AfterFpga(w)], <<Unsub(s, "link")>>, "none")

Finish(s) == At(s, "finish") /\ Does(s, [ws[s] EXCEPT !.st = "DONE", !.pc = "end"], <<>>, "none")

\* close_done
End(s) ==
    /\ At(s, "end")
    /\ Does(s, [ws[s] EXCEPT !.pc = "end!", !.opened = FALSE, !.ret = "none"], <<Unsub(s, "mem"), M("call", s, "close", "")>>, "none")

EndDone(s) ==
    /\ At(s, "end!") /\ ws[s].ret # "none"
    /\ Does(s, [ws[s] EXCEPT !.pc = "leave"], <<>>, IF ws[s].st = "DONE" THEN "DONE" ELSE "none")

\* done
Leave(s) ==
    /\ At(s, "leave")
    /\ Does(s, [ws[s] EXCEPT !.pc = "gone", !.done = TRUE], <<Unsub(s, "add"), Unsub(s, "remove")>>, "none")

\* How long a worker waits in a state, in seconds
Limit(w) ==
    CASE w.pc \in {"ctrl!", "fpga!"} -> 120
      [] w.pc = "mem!" -> IF w.op = 1 THEN 30 ELSE 5
      [] w.pc = "open!" -> 10
      [] w.pc \in {"close!", "end!"} -> 1
      [] w.pc = "link!" -> 11
      [] w.pc = "removing" -> 10
      [] w.pc = "adding" -> 30
      [] OTHER -> 0

InCall(w) == w.pc \in {"open!", "close!", "end!"}

Still(w) ==
    CASE InCall(w) -> w.ret = "none"
      [] w.pc \in {"removing", "adding"} -> ~w.exit
      [] w.pc = "link!" -> ~w.ev \/ w.ret = "none"
      [] OTHER -> ~w.ev

\* Nothing more comes: a wait that nothing ends runs out.
Calm(s) ==
    IF front THEN /\ q = <<>> /\ (dq = <<>> \/ ws[s].pc = "open!")
                  /\ dev.boot \in {"no", "unseen", "stuck"}
                  /\ ws[s].pc = "link!" => dev.link # "coming"
    ELSE fin > N

Sleeps(w) == IF w.pc = "close!" /\ w.st = "SENSOR" THEN 5 ELSE 0

\* The wait of a worker runs out.
Timeout(s) ==
    LET w == [ws[s] EXCEPT !.spent = IF front THEN 0 ELSE @ + Limit(ws[s]) + Sleeps(ws[s])] IN
    /\ w.event /\ Limit(w) > 0 /\ Still(w) /\ Calm(s)
    /\ CASE w.pc \in {"ctrl!", "fpga!"} -> Does(s, Fail(w), <<Unsub(s, "rsp")>>, "ERROR")
         [] w.pc = "mem!" -> MemFail(s, w)
         [] w.pc = "open!" -> Does(s, Fail(w), <<>>, "ERROR")
         [] w.pc = "close!" -> Does(s, [w EXCEPT !.pc = IF w.st = "CTRL_FW" THEN "removing" ELSE "open"], <<>>, "none")
         [] w.pc = "end!" -> Does(s, [w EXCEPT !.pc = "leave"], <<>>, IF w.st = "DONE" THEN "DONE" ELSE "none")
         [] w.pc = "link!" -> Does(s, Fail(w), <<Unsub(s, "link")>>, "ERROR")
         [] w.pc = "removing" -> ~w.removed /\ w.present /\ Does(s, [w EXCEPT !.pc = "adding"], <<>>, "none")
         [] w.pc = "adding" -> ~w.present /\ Does(s, Fail(w), <<>>, "ERROR")

Worker(s) ==
    \/ Begin(s) \/ Extract(s) \/ Open(s) \/ OpenDone(s) \/ CtrlFw(s) \/ CtrlFwDone(s) \/ Close(s) \/ CloseDone(s)
    \/ Removed(s) \/ Added(s) \/ Resources(s) \/ MemOp(s) \/ MemDone(s) \/ MemCancelled(s) \/ Fpga(s) \/ FpgaDone(s)
    \/ Link(s) \/ LinkDone(s) \/ Finish(s) \/ End(s) \/ EndDone(s) \/ Leave(s) \/ Timeout(s)

------------------------------------------------------------------------------
(* The application, the device, and the end                                 *)

Add ==
    /\ front /\ adds < MaxAdds /\ (Settled => q = <<>>)
    /\ Shared \/ \A s \in Slots : ws[s].pc # "none" \/ \A r \in Slots : ws[r].pc = "none" \/ ws[r].done
    /\ \E a \in Adds : q' = Append(q, M("add", 0, "", a))
    /\ adds' = adds + 1 /\ shown' = NoStatus
    /\ UNCHANGED <<ws, nextId, list, front, subs, dq, dev, fin, bad, faults>>

Device(f) ==
    /\ dq # <<>> /\ dq' = Tail(dq)
    /\ faults' = (IF f = "none" THEN faults ELSE faults + 1) /\ faults' <= MaxFaults
    /\ LET m == Head(dq)
           ok == f \in {"none", "lost"} /\ ~(m.t = "s" /\ dev.link # "up")
           done == CASE m.t = "ctrl" -> [dev EXCEPT !.fw = "new", !.boot = "soon"]
                     [] m.t = "fpga" -> [dev EXCEPT !.fpga = "new", !.link = "coming"]
                     [] m.t \in {"c", "s"} -> [dev EXCEPT !.mem[m.t] = IF m.x = 1 THEN {1} ELSE @ \cup {m.x}] IN
       /\ dev' = IF ok THEN done ELSE dev
       /\ q' = IF f = "lost" \/ ~front THEN q
               ELSE Append(q, Event(IF m.t \in {"ctrl", "fpga"} THEN "rsp" ELSE "mem", IF ok THEN "ok" ELSE "err"))
    /\ shown' = NoStatus /\ UNCHANGED <<ws, nextId, list, front, subs, fin, bad, adds>>

\* The controller restarts with its new firmware.
Reboot(f) ==
    /\ dev.boot = "soon" /\ dq = <<>>
    /\ faults' = (IF f = "none" THEN faults ELSE faults + 1) /\ faults' <= MaxFaults
    /\ dev' = [dev EXCEPT !.open = 0, !.here = (f = "silent"),
                          !.boot = CASE f = "none" -> "off" [] f = "silent" -> "unseen" [] f = "stuck" -> "stuck"]
    /\ q' = IF f = "silent" \/ ~front THEN q ELSE Append(q, Event("remove", ""))
    /\ shown' = NoStatus /\ UNCHANGED <<ws, nextId, list, front, subs, dq, fin, bad, adds>>

Attach ==
    /\ dev.boot = "off" /\ dev' = [dev EXCEPT !.here = TRUE, !.boot = "no"]
    /\ q' = IF front THEN Append(q, Event("add", "")) ELSE q
    /\ shown' = NoStatus /\ UNCHANGED <<ws, nextId, list, front, subs, dq, fin, bad, adds, faults>>

\* The sensor's link takes its time after the FPGA is loaded, longer than a call.
LinkUp ==
    /\ dev.link = "coming" /\ q = <<>> /\ \A s \in Slots : ws[s].pc \notin {"fpga!", "link"}
    /\ dev' = [dev EXCEPT !.link = "up"]
    /\ q' = IF front THEN Append(q, Event("link", 1)) ELSE q
    /\ shown' = NoStatus /\ UNCHANGED <<ws, nextId, list, front, subs, dq, fin, bad, adds, faults>>

Other ==
    /\ Foreign /\ front /\ dev.open # 0 /\ q = <<>> /\ q' = <<Event("mem", "ok")>> /\ faults < MaxFaults /\ faults' = faults + 1
    /\ shown' = NoStatus /\ UNCHANGED <<ws, nextId, list, front, subs, dq, dev, fin, bad, adds>>

\* jsdrv_finalize has ended the frontend, and with it the device's thread;
\* jsdrv_fwup_mgr_finalize begins.
Finalize ==
    /\ front /\ \A s \in Slots : ws[s].pc \in ExitWhile \cup {"none", "gone"}
    /\ front' = FALSE /\ fin' = 1 /\ q' = <<>> /\ dq' = <<>> /\ dev' = [dev EXCEPT !.open = 0] /\ shown' = NoStatus
    /\ UNCHANGED <<ws, nextId, list, subs, bad, adds, faults>>

Told(w) == [w EXCEPT !.exit = TRUE, !.ev = TRUE]

\* All workers are told, one by one, then joined one by one for 15 s each.
FinalizeStep ==
    LET s == IF fin > N THEN fin - N ELSE fin
        w == ws[s]
        late == ~w.done /\ Still(w) /\ w.spent + Limit(w) > 15 IN
    /\ fin \in 1..(2 * N) /\ fin' = fin + 1
    /\ IF fin <= N
       THEN ws' = [ws EXCEPT ![s] = IF w.event /\ ~w.done THEN Told(w) ELSE w] /\ UNCHANGED bad
       ELSE /\ w.pc \in {"none", "gone"} \/ late
            /\ ws' = [ws EXCEPT ![s].event = FALSE]
            /\ bad' = IF w.pc \in {"none", "gone"} THEN bad ELSE bad \cup {"thread"}
    /\ shown' = NoStatus /\ UNCHANGED <<nextId, list, front, q, subs, dq, dev, adds, faults>>

Next ==
    \/ Frontend \/ Add \/ Device("none") \/ Reboot("none") \/ Attach \/ LinkUp \/ Other \/ Finalize \/ FinalizeStep
    \/ \E s \in Slots : Worker(s)
    \/ \E f \in Faults \cap {"err", "lost"} : Device(f)
    \/ \E f \in Faults \cap {"silent", "stuck"} : Reboot(f)

Spec == Init /\ [][Next]_vars

\* The threads run, the device works and comes back.
Fairness ==
    /\ WF_vars(Frontend) /\ WF_vars(Device("none")) /\ WF_vars(Reboot("none")) /\ WF_vars(Attach) /\ WF_vars(LinkUp)
    /\ WF_vars(FinalizeStep) /\ \A s \in Slots : WF_vars(Worker(s))

FairSpec == Spec /\ Fairness

------------------------------------------------------------------------------
\* A worker that publishes DONE has done what its flags ask for: the controller runs the
\* new firmware, the FPGA has the new bitstream, and each resource of the ZIP is written,
\* every page of it.  The device is closed again, so that the application may open it.
DoneIsReal ==
    shown.st = "DONE" =>
        LET w == ws[shown.slot] IN
        /\ "ctrl" \in w.parts => dev.fw = "new"
        /\ "fpga" \in w.parts => dev.fpga = "new"
        /\ "res" \in w.parts => \A g \in w.zip \cap {"c", "s"} : dev.mem[g] = 1..MemOps
        /\ dev.open # shown.slot

\* The removal of the device is not missed: the worker gives up waiting for it only when
\* the controller restarted without anyone noticing, although removal and arrival may
\* both come before it waits.
RemovalStep ==
    \A s \in Slots : ws[s].pc = "removing" /\ ws[s]'.pc = "adding" => ws[s].removed \/ ~ws[s].present \/ dev.boot = "unseen"
RemovalSeen == [][RemovalStep]_vars

\* Nothing is freed while it is used: a callback finds its worker's event, and
\* jsdrv_fwup_mgr_finalize frees a worker only when its thread has ended.
NothingFreedInUse == bad = {}

\* Every worker ends, whatever the device does, and finalizing the manager ends.
WorkersEnd == /\ \A s \in 1..N : ws[s].pc # "none" ~> ws[s].pc \in {"gone", "none"}
              /\ fin > 0 ~> fin > 2 * N
==============================================================================

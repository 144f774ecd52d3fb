------------------------------- MODULE Js220 -------------------------------
(* The upper-level driver of the JS220 (src/devices/js220/js220_usb.c): its  *)
(* thread with open, close, stream control and memory operations, each of    *)
(* which waits in ll_await for the lower-level driver, and goes on handling  *)
(* what arrives meanwhile.  The lower-level driver and the instrument are    *)
(* external: Lower handles what is sent to them in order, as slowly as it    *)
(* likes, so that a wait may time out and its answer come late.              *)
(* The samples of a port are Js220Stream's matter.                           *)
EXTENDS Integers, Sequences, FiniteSets

CONSTANTS
    OnInstrument,   \* fw and FPGA >= 1.3.0: has_on_instrument_downsample
    Window,         \* (JS220_PORT3_BUFFER_SIZE + 512) in blocks of a write
    Profiles,       \* sets of commands: the application keeps to one of them
    Overlap,        \* a memory command may come while another one is running
    Orderly,        \* a signal is switched only to change it, and current and voltage stay on
    MaxCmds,        \* bound: commands
    MaxFaults       \* bound: waits that time out and requests that the lower level refuses

Ports == {"i", "v", "p"}
SamplingFrequency == 2000000
FsMinOnInstrument == 1000

\* What the application publishes below u/js220/{serial}
Commands ==
    [cmd : {"open"}, opt : {"defaults", "resume", "raw"}]
    \cup [cmd : {"close", "finalize", "gpi", "reset", "local"}]
    \cup [cmd : {"ctrl"}, port : Ports, on : BOOLEAN]
    \cup [cmd : {"fs"}, fs : {f \in Nat \ {0} : SamplingFrequency % f = 0}]
    \cup [cmd : {"filter"}, filter : {"wideband", "sinc1"}]
    \cup [cmd : {"mem"}, op : {"erase", "write", "read"}, len : 0..3]

VARIABLES
    d,          \* dev_s; shown is the retained value of h/filter
    pc,         \* what the thread waits for, and why
    ulq,        \* ul.cmd_q
    out,        \* ll.cmd_q
    rsp,        \* ll.rsp_q
    ins,        \* the instrument and the lower-level driver
    done,       \* history: the memory commands that the instrument has finished
    ans,        \* history: the memory commands answered with 0
    profile,    \* the application's profile
    cmds, faults

bounds == <<profile, cmds, faults>>
vars == <<d, pc, ulq, out, rsp, ins, done, ans, bounds>>

NoMem == [op |-> "none", id |-> 0, len |-> 0, sent |-> 0, valid |-> 0, status |-> 0]
Loop == [at |-> "loop", opt |-> "none", rc |-> "none"]

Init ==
    /\ d = [state |-> "closed", rx |-> FALSE, en |-> {}, fs |-> SamplingFrequency, filter |-> "wideband",
            has |-> FALSE, shown |-> "wideband",
            break_on |-> "none", mem |-> NoMem, exit |-> FALSE, term |-> FALSE]
    /\ pc = Loop /\ ulq = <<>> /\ out = <<>> /\ rsp = <<>>
    /\ ins = [conn |-> FALSE, en |-> {}, w |-> 0, gone |-> FALSE]
    /\ done = {} /\ ans = {} /\ profile \in Profiles /\ cmds = 0 /\ faults = 0

------------------------------------------------------------------------------
(* Streams                                                                  *)

\* is_on_instrument_downsample_active
OnInstrumentActive(x) == x.has /\ x.fs < SamplingFrequency \div 2 /\ x.filter = "sinc1"

\* is_ivp_enabled, and the host computes the power
HostPower(x) == x.en = Ports /\ ~OnInstrumentActive(x)

Ctrl(S, on) == IF S = {} THEN <<>> ELSE <<[m |-> "ctrl", ports |-> S, on |-> on]>>

\* stream_in_port_enable: the new state, what it sends, and whether the command
\* goes to the instrument
StreamInPortEnable(x, p, on) ==
    LET y == [x EXCEPT !.en = IF on THEN @ \cup {p} ELSE @ \ {p}] IN
    IF (p \in x.en) = on THEN [d |-> x, out |-> <<>>, fwd |-> TRUE]
    ELSE IF HostPower(y) THEN [d |-> y, out |-> Ctrl({"p"}, FALSE) \o Ctrl({"i", "v"}, TRUE), fwd |-> FALSE]
    ELSE [d |-> y, out |-> <<>>, fwd |-> TRUE]

\* Faulty: the instrument streams the power that the host computes.
ResumeAll(x) == Ctrl(x.en, TRUE)

\* stream_suspend and stream_resume around a change of the settings
StreamResume(x) == Ctrl(IF HostPower(x) THEN x.en \ {"p"} ELSE x.en, TRUE)

\* on_sampling_frequency: the factor by which the instrument decimates the signals
SignalN(x) ==
    IF x.filter = "wideband" THEN 1
    ELSE (SamplingFrequency \div (IF x.fs < FsMinOnInstrument THEN FsMinOnInstrument ELSE x.fs)) \div 2

\* The coercion of a factor 2 or 3, which stands below the test for a low rate
Coerced(x) ==
    IF x.filter = "sinc1" /\ x.fs < FsMinOnInstrument /\ SignalN(x) \in {2, 3}
    THEN [d |-> [x EXCEPT !.fs = SamplingFrequency \div 8], n |-> 4] ELSE [d |-> x, n |-> SignalN(x)]

\* on_sampling_frequency: y is x with the new settings
Restream(x, y) ==
    LET c == Coerced(y) IN
    [d |-> c.d,
     out |-> Ctrl(x.en, FALSE) \o (IF x.has THEN <<[m |-> "down", n |-> c.n]>> ELSE <<>>) \o StreamResume(c.d)]

------------------------------------------------------------------------------
(* Memory operations                                                        *)

Mem(x, op) == <<[m |-> "mem", op |-> op, id |-> x.mem.id, off |-> 0, len |-> x.mem.len]>>

\* mem_write_next: blocks up to the window, and the end marker after the last
WriteTo(x) == LET w == x.mem.valid + Window + 1 IN IF w < x.mem.len THEN w ELSE x.mem.len

\* mem_write_end, after the last block
WriteEnd(x, n) == IF n > 0 /\ x.mem.sent + n = x.mem.len THEN Mem(x, "end") ELSE <<>>


WriteNext(x) ==
    LET n == IF WriteTo(x) > x.mem.sent THEN WriteTo(x) - x.mem.sent ELSE 0 IN
    [d |-> [x EXCEPT !.mem.sent = @ + n],
     out |-> [k \in 1..n |-> [m |-> "mem", op |-> "write_data", id |-> x.mem.id, off |-> x.mem.sent + k - 1, len |-> 1]] \o WriteEnd(x, n)]

\* mem_complete
Complete(x, rc) == [d |-> [x EXCEPT !.mem = NoMem], out |-> <<>>,
                    ok |-> IF x.mem.op # "none" /\ rc = 0 THEN {x.mem.id} ELSE {}]

\* d->mem_hdr.op == msg->hdr.arg
AckMatches(x, m) == x.mem.op = m.arg

More(r) == [d |-> r.d, out |-> r.out, ok |-> {}]

\* handle_stream_in_mem
StreamInMem(x, m) ==
    IF m.op = "ack" /\ AckMatches(x, m) THEN
        IF x.mem.status # 0 \/ m.arg \in {"erase", "write_finalize", "read"} THEN Complete(x, x.mem.status)
        ELSE IF m.arg = "write_start" THEN More(WriteNext([x EXCEPT !.mem.op = "write_data"]))
        ELSE IF m.off <= x.mem.valid \/ m.off > x.mem.sent THEN Complete(x, 1)
        ELSE LET y == [x EXCEPT !.mem.valid = m.off] IN
             IF m.off = x.mem.len
             THEN More([d |-> [y EXCEPT !.mem.op = "write_finalize"], out |-> Mem(x, "write_finalize")])
             ELSE More(WriteNext(y))
    ELSE IF m.op = "read_data" /\ x.mem.op = "read" THEN
        [d |-> IF m.off = x.mem.valid THEN [x EXCEPT !.mem.valid = @ + 1] ELSE [x EXCEPT !.mem.status = 1],
         out |-> <<>>, ok |-> {}]
    ELSE Complete(x, 1)

\* handle_cmd_mem
HandleMem(c) ==
    LET x == [d EXCEPT !.mem = [NoMem EXCEPT !.op = IF c.op = "write" THEN "write_start" ELSE c.op,
                                             !.id = c.id, !.len = c.len]] IN
    d' = x /\ out' = out \o Mem(x, x.mem.op)

------------------------------------------------------------------------------
(* open and close                                                           *)

\* d_reset
Reset(x) == [x EXCEPT !.rx = FALSE, !.en = {}, !.break_on = "none", !.mem = NoMem]

\* d_close of a device that is not closed; rc is what the open failed with
StartClose(rc) ==
    /\ d' = [d EXCEPT !.rx = FALSE, !.en = {}]
    /\ out' = Append(out, [m |-> "disconnect"])
    /\ pc' = [at |-> "close_disconnect", opt |-> pc.opt, rc |-> rc]

Wait(at, msgs, x) == out' = out \o msgs /\ pc' = [pc EXCEPT !.at = at] /\ d' = x

Opened(x) == d' = [x EXCEPT !.state = "open"] /\ pc' = Loop /\ UNCHANGED out

\* d_open_ll and d_open after the wait at pc.at, which brought ok or not
OpenStep(x, ok) ==
    CASE pc.at = "open" ->
           IF ok THEN Wait("disconnect", <<[m |-> "disconnect"]>>, [x EXCEPT !.state = "opening"])
           ELSE d' = x /\ pc' = Loop /\ UNCHANGED out
      [] pc.at = "disconnect" ->
           Wait("stream_open", <<[m |-> "stream_open"]>>, [Reset(x) EXCEPT !.rx = TRUE])
      [] pc.at = "stream_open" /\ ok -> Wait("connect_req", <<[m |-> "connect"]>>, x)
      [] pc.at = "connect_req" /\ ok ->
           IF pc.opt = "raw" THEN Opened(x)
           ELSE Wait("connect", <<>>, [x EXCEPT !.break_on = "connect"])
      [] pc.at = "connect" /\ ok ->
           Wait("ping1", <<[m |-> "meta"], [m |-> "ping"]>>, [x EXCEPT !.break_on = "pong"])
      [] pc.at = "ping1" /\ ok ->
           IF pc.opt # "resume" THEN Opened(x)
           ELSE Wait("ping2", <<[m |-> "query"], [m |-> "ping"]>>, [x EXCEPT !.break_on = "pong"])
      [] pc.at = "ping2" /\ ok -> Opened(x)
      [] OTHER -> StartClose("failed")

\* d_close after the wait at pc.at
CloseStep(x) ==
    IF pc.at = "close_disconnect" THEN Wait("close", <<[m |-> "close"]>>, x)
    ELSE /\ d' = [Reset(x) EXCEPT !.state = "closed"] /\ pc' = Loop /\ UNCHANGED out

\* At the end of an open in the resume mode the driver subscribes to h, so that
\* the retained values come back as commands.
Step(x, ok) ==
    /\ IF pc.at \in {"close_disconnect", "close"} THEN CloseStep(x) ELSE OpenStep(x, ok)
    /\ ulq' = IF pc.at = "ping2" /\ ok THEN Append(ulq, [cmd |-> "filter", filter |-> x.shown]) ELSE ulq

\* The response that the wait at pc.at is for
Awaited ==
    [at \in {"open", "disconnect", "stream_open", "connect_req", "close_disconnect", "close"} |->
       CASE at \in {"disconnect", "connect_req", "close_disconnect"} -> "ctrl" [] OTHER -> at]

Waiting == pc.at \notin {"loop", "drain", "gone"}

------------------------------------------------------------------------------
(* The thread                                                               *)

\* handle_cmd
HandleCmd ==
    /\ pc.at = "loop" /\ ~d.exit /\ ulq # <<>>
    /\ LET c == Head(ulq)
           y == [d EXCEPT !.fs = IF c.cmd = "fs" THEN c.fs ELSE @,
                          !.filter = IF c.cmd = "filter" /\ (d.has \/ c.filter # "sinc1") THEN c.filter ELSE @,
                          !.shown = IF c.cmd = "filter" THEN c.filter ELSE @] IN
       /\ ulq' = Tail(ulq)
       /\ \/ /\ c.cmd = "open" /\ d.state = "closed"
             /\ out' = Append(out, [m |-> "open"]) /\ d' = [d EXCEPT !.break_on = "none"]
             /\ pc' = [at |-> "open", opt |-> c.opt, rc |-> "none"]
          \/ c.cmd = "close" /\ d.state # "closed" /\ StartClose("none")
          \/ c.cmd = "finalize" /\ d' = [d EXCEPT !.exit = TRUE] /\ pc' = [pc EXCEPT !.at = "drain"] /\ UNCHANGED out
          \/ /\ c.cmd = "ctrl" /\ d.state = "open"
             /\ LET r == StreamInPortEnable(d, c.port, c.on) IN
                /\ d' = r.d
                /\ out' = out \o r.out \o (IF r.fwd THEN Ctrl({c.port}, c.on) ELSE <<>>)
             /\ UNCHANGED pc
          \/ /\ c.cmd \in {"fs", "filter", "gpi"} /\ d.state = "open"
             /\ LET r == IF c.cmd = "filter" /\ y.filter # c.filter THEN [d |-> y, out |-> <<>>] ELSE Restream(d, y) IN
                /\ d' = r.d
                /\ out' = out \o r.out \o (IF c.cmd = "gpi" THEN <<[m |-> "gpi"]>> ELSE <<>>)
             /\ UNCHANGED pc
          \/ c.cmd = "reset" /\ d.state = "open" /\ out' = Append(out, [m |-> "boot"]) /\ UNCHANGED <<d, pc>>
          \/ c.cmd = "mem" /\ d.state = "open" /\ HandleMem(c) /\ UNCHANGED pc
          \/ /\ \/ c.cmd = "local"
                \/ c.cmd = "open" /\ d.state # "closed"
                \/ c.cmd = "close" /\ d.state = "closed"
                \/ c.cmd \in {"ctrl", "fs", "filter", "gpi", "mem", "reset"} /\ d.state # "open"
             /\ UNCHANGED <<d, pc, out>>
    /\ UNCHANGED <<rsp, ins, done, ans, bounds>>

\* handle_stream_in_port0
Port0(x, m) ==
    CASE m.f = "connect" ->
           [d |-> [x EXCEPT !.has = OnInstrument, !.shown = "wideband",
                            !.break_on = IF @ = "connect" THEN "none" ELSE @],
            out |-> <<>>, ok |-> {}]
      [] m.f = "timesync" -> [d |-> x, out |-> <<[m |-> "timesync"]>>, ok |-> {}]

\* handle_stream_in_pubsub and handle_rsp_ctrl
PubSubIn(x, m) ==
    CASE m.f = "pong" ->
           [d |-> IF x.break_on = "pong" THEN [x EXCEPT !.break_on = "none"] ELSE x,
            out |-> <<>>, ok |-> {}]
      [] m.f = "ctrl?" -> More(StreamInPortEnable(x, m.port, m.on))
      [] OTHER -> [d |-> x, out |-> <<>>, ok |-> {}]

\* handle_stream_in_frame: frames of the ports 0 to 3 are dropped until the stream
\* is open.
Frame(x, m) ==
    CASE ~x.rx -> [d |-> x, out |-> <<>>, ok |-> {}]
      [] x.rx /\ m.f \in {"connect", "timesync"} -> Port0(x, m)
      [] x.rx /\ m.f = "mem" -> StreamInMem(x, m)
      [] OTHER -> PubSubIn(x, m)

\* ll_await and handle_rsp.  The stream buffer goes back to the lower level.
HandleRsp ==
    /\ pc.at # "gone" /\ rsp # <<>> /\ (pc.at = "loop" => ~d.exit)
    /\ LET m == Head(rsp) IN
       /\ rsp' = Tail(rsp)
       /\ \/ m.t = "term" /\ d' = [d EXCEPT !.exit = TRUE, !.term = TRUE] /\ UNCHANGED <<pc, out, ulq, ans>>
          \/ /\ m.t = "in"
             /\ LET r == Frame(d, m)
                    broke == Waiting /\ d.break_on # "none" /\ r.d.break_on = "none" IN
                IF broke THEN Step(r.d, TRUE) /\ UNCHANGED ans
                ELSE d' = r.d /\ out' = out \o r.out /\ ans' = ans \cup r.ok /\ UNCHANGED <<pc, ulq>>
          \/ /\ m.t \notin {"in", "term"}
             /\ IF Waiting /\ pc.at \in DOMAIN Awaited /\ Awaited[pc.at] = m.t
                THEN Step(d, m.rc = 0) ELSE UNCHANGED <<d, pc, out, ulq>>
             /\ UNCHANGED ans
    /\ UNCHANGED <<ins, done, bounds>>

\* ll_await gives up, at once when the thread is to end.
Timeout ==
    /\ Waiting
    /\ d.exit \/ faults < MaxFaults
    /\ faults' = IF d.exit THEN faults ELSE faults + 1
    /\ Step(d, FALSE)
    /\ UNCHANGED <<rsp, ins, done, ans, profile, cmds>>

\* The end of driver_thread
ThreadDone ==
    /\ \/ pc.at = "loop" /\ d.exit
       \/ pc.at = "drain" /\ (rsp = <<>> \/ d.term)
    /\ pc' = [pc EXCEPT !.at = "gone"]
    /\ UNCHANGED <<d, ulq, out, rsp, ins, done, ans, bounds>>

------------------------------------------------------------------------------
(* The application, the lower-level driver and the instrument               *)

\* The thread takes one command at a time, so that the next one may as well come then.
Publish(c) ==
    /\ cmds < MaxCmds /\ ulq = <<>> /\ cmds' = cmds + 1
    /\ c.cmd = "mem" /\ ~Overlap => d.mem.op = "none"
    /\ c.cmd = "ctrl" /\ Orderly => IF c.on THEN c.port \notin d.en ELSE c.port = "p" /\ "p" \in d.en
    /\ ulq' = Append(ulq, IF c.cmd # "mem" THEN c ELSE [cmd |-> "mem", op |-> c.op, len |-> c.len, id |-> cmds + 1])
    /\ UNCHANGED <<d, pc, out, rsp, ins, done, ans, profile, faults>>

In(f) == [t |-> "in", f |-> f]
Ack(m, arg, off) == <<[t |-> "in", f |-> "mem", op |-> "ack", arg |-> arg, off |-> off]>>

\* What the instrument does with a frame, while it is connected
Instrument(m) ==
    CASE m.m = "ping" -> rsp' = Append(rsp, [t |-> "in", f |-> "pong"]) /\ UNCHANGED <<ins, done>>
      [] m.m = "ctrl" ->
           /\ ins' = [ins EXCEPT !.en = IF m.on THEN @ \cup m.ports ELSE @ \ m.ports]
           /\ rsp' = Append(rsp, In("rc")) /\ UNCHANGED done
      [] m.m = "query" ->
           /\ rsp' = rsp \o [k \in 1..3 |-> LET p == <<"i", "v", "p">>[k] IN
                               [t |-> "in", f |-> "ctrl?", port |-> p, on |-> p \in ins.en]]
           /\ UNCHANGED <<ins, done>>
      [] m.m = "mem" ->
          (CASE m.op = "write_start" -> ins' = [ins EXCEPT !.w = 0] /\ rsp' = rsp \o Ack(m, m.op, 0) /\ UNCHANGED done
             [] m.op = "write_data" ->
                  /\ ins' = [ins EXCEPT !.w = IF m.off = @ THEN @ + 1 ELSE @]
                  /\ rsp' = rsp \o Ack(m, m.op, m.off + 1) /\ UNCHANGED done
             [] m.op = "write_finalize" ->
                  /\ done' = IF ins.w = m.len THEN done \cup {m.id} ELSE done
                  /\ rsp' = rsp \o Ack(m, m.op, 0) /\ UNCHANGED ins
             [] m.op = "read" ->
                  /\ rsp' = rsp \o [k \in 1..m.len |-> [t |-> "in", f |-> "mem", op |-> "read_data", off |-> k - 1]]
                            \o Ack(m, m.op, 0)
                  /\ done' = done \cup {m.id} /\ UNCHANGED ins
             [] m.op = "erase" -> done' = done \cup {m.id} /\ rsp' = rsp \o Ack(m, m.op, 0) /\ UNCHANGED ins
             [] OTHER -> UNCHANGED <<ins, done, rsp>>)
      [] OTHER -> UNCHANGED <<ins, done, rsp>>

\* The lower level handles the next request, which it may refuse.
Lower ==
    /\ out # <<>> /\ ~ins.gone
    /\ out' = Tail(out)
    /\ LET m == Head(out)
           reply == CASE m.m \in {"disconnect", "connect"} -> "ctrl" [] OTHER -> m.m IN
       IF m.m \in {"open", "close", "disconnect", "connect", "stream_open"}
       THEN \E rc \in {0} \cup (IF faults < MaxFaults /\ m.m # "close" THEN {1} ELSE {}) :
              /\ faults' = faults + rc
              /\ ins' = [ins EXCEPT !.conn = IF rc = 0 THEN (m.m = "connect") \/ (@ /\ m.m = "stream_open") ELSE @]
              /\ rsp' = rsp \o <<[t |-> reply, rc |-> rc]>>
                            \o (IF rc = 0 /\ m.m = "connect" THEN <<In("connect"), In("timesync")>> ELSE <<>>)
              /\ UNCHANGED done
       ELSE /\ IF ins.conn THEN Instrument(m) ELSE UNCHANGED <<ins, done, rsp>>
            /\ UNCHANGED faults
    /\ UNCHANGED <<d, pc, ulq, ans, profile, cmds>>

\* The device is unplugged: JSDRV_MSG_TYPE_LL_TERMINATED is the last message.
Terminate ==
    /\ ~ins.gone /\ pc.at # "gone" /\ cmds = MaxCmds
    /\ ins' = [ins EXCEPT !.gone = TRUE]
    /\ rsp' = Append(rsp, [t |-> "term"])
    /\ UNCHANGED <<d, pc, ulq, out, done, ans, bounds>>

Next == HandleCmd \/ HandleRsp \/ Timeout \/ ThreadDone \/ Lower \/ Terminate \/ \E c \in profile : Publish(c)

Spec == Init /\ [][Next]_vars

\* The thread runs; the lower level answers or the wait times out.
FairSpec == Spec /\ WF_vars(HandleCmd) /\ WF_vars(HandleRsp) /\ WF_vars(Timeout) /\ WF_vars(Lower) /\ WF_vars(ThreadDone)

------------------------------------------------------------------------------
\* Once everything sent has been handled, every signal that is on arrives: the
\* instrument streams it, or the host computes the power from the other two.
EnabledFlows ==
    d.state = "open" /\ pc.at = "loop" /\ out = <<>> /\ rsp = <<>> /\ ~ins.gone =>
        \A p \in d.en : p \in ins.en \/ (p = "p" /\ HostPower(d))

\* The retained value of the filter is the one in force.
FilterShown == d.state = "open" /\ pc.at = "loop" /\ ulq = <<>> => d.shown = d.filter

\* The host does not ask for power at the rate at which only current and voltage
\* fit, when it computes the power from them.
PowerOnce ==
    d.state = "open" /\ pc.at = "loop" /\ out = <<>> /\ rsp = <<>> /\ HostPower(d) => "p" \notin ins.en

\* The instrument is never asked to decimate by a factor that it does not support.
DownsampleSupported == \A k \in DOMAIN out : out[k].m = "down" => out[k].n \notin {2, 3}

\* A memory command is answered with 0 only when the instrument has finished it:
\* every block of a write is in place.
MemAnswerIsOwn == ans \subseteq done

\* open and close are answered, also when the lower level does not answer or goes.
OpenCloseAnswered == Waiting ~> ~Waiting

\* A memory command is answered, or ends with the session.
MemEnds == d.mem.op # "none" ~> d.mem.op = "none" \/ pc.at = "gone"
==============================================================================

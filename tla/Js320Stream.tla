---------------------------- MODULE Js320Stream -----------------------------
(* The samples of the JS320 in js320_drv.c: frames of the instrument become   *)
(* messages; the rate is changed on the instrument and below a limit on the   *)
(* host; power is computed by whoever can.  A change of the rate takes effect *)
(* on the instrument later, with frames at the old rate still under way: the  *)
(* driver drops frames until the instrument has acknowledged the change.      *)
(* The value of a sample says from which id on it stands, and for how many.   *)
EXTENDS SampleBuffer

CONSTANTS
    Profiles,       \* the channels and the commands that an application uses
    SignalRate,     \* JS320_SIGNAL_RATE_AFTER_DECIMATE
    MinFs,          \* JS320_MIN_ON_INSTRUMENT_FS
    NMax,           \* the largest s/dwnN/N
    Fss, Ns, Gs,    \* the values of h/fs, s/dwnN/N and s/gpi/+/dwnN/N
    Fps,            \* the values of h/fp
    Cap,            \* the elements that fit a message
    FrameLen,            \* samples of a frame; a message with room for less is sent
    IdleAcks,       \* the instrument acknowledges a change while it does not stream
    Timely,         \* JS320_DWNN_ACK_TIMEOUT is over only when nothing is under way
    Settled,        \* a rate, or who computes power, changes while nothing older is under way
    GpiLive,        \* the rate of the inputs changes while they stream
    StaleOpen,      \* a device is closed while it streams
    Span, MaxCmds, MaxFaults

Ivp == <<"i", "v", "p">>
InIvp(c) == c \in {"i", "v", "p"}

VARIABLES
    chans, ops, \* the channels and the commands in use
    drv,        \* js320_drv_s; tx: commands for the instrument, out: messages sent by the step
    tm,         \* there is a time map
    dq,         \* commands on their way to the instrument
    fq,         \* frames on their way to the driver
    aq,         \* acknowledges on their way to the driver
    dev,        \* the instrument: channels that stream, rates, next id of each channel
    want,       \* history: the channels that the application wants
    end,        \* history: channel -> the id after the last one sent
    cmds, faults

vars == <<chans, ops, drv, tm, dq, fq, aq, dev, want, end, cmds, faults>>

NoMsg == [id |-> 0, dec |-> 0, index |-> 0, data |-> <<>>, open |-> FALSE]
NoFilter == [r |-> 1, fed |-> FALSE, win |-> <<>>]
NoPort == [msg |-> NoMsg, next |-> 0, index |-> 0, filt |-> NoFilter, fin |-> 0]
NoAck == [n |-> 0, drop |-> FALSE, until |-> 0]
Bufs == [c \in {"i", "v", "p"} |-> SbufEmpty]

\* A sample that stands for the ids from id on, len of them
Val(id, len) == id * 100 + len

\* js320_drv_factory
Init ==
    /\ \E x \in Profiles : chans = x.chans /\ ops = x.ops
    /\ drv = [n |-> 0, mode |-> 1, host |-> 1, gn |-> Dec, fs |-> SignalRate, fp |-> 1, on |-> {},
              last |-> [c \in {"i", "v", "p"} |-> "unknown"], hostp |-> FALSE, port |-> [c \in chans |-> NoPort],
              buf |-> Bufs, ack |-> [f \in {"signal", "gpi"} |-> NoAck], tx |-> <<>>, out |-> <<>>, fits |-> TRUE]
    /\ tm = FALSE /\ dq = <<>> /\ fq = <<>> /\ aq = <<>>
    /\ dev = [on |-> {}, n |-> 0, mode |-> 1, gn |-> Dec, pos |-> [c \in chans |-> 8]]
    /\ want = {} /\ end = [c \in chans |-> 0] /\ cmds = 0 /\ faults = 0

------------------------------------------------------------------------------
(* Rates; d is the driver or the instrument                                 *)

ExtraFactor(n) == IF n <= 1 THEN 1 ELSE IF n <= 3 THEN 4 ELSE n
DeviceFactor(d) == IF d.mode = 0 THEN 1 ELSE ExtraFactor(d.n)
HostFactor(d) == IF d.mode = 0 THEN 1 ELSE d.host
GpiFactor(n) == IF n <= 1 THEN 1 ELSE n

\* js320_device_decimate, js320_runtime_decimate
DeviceDecimate(d, c) == IF InIvp(c) THEN Dec * DeviceFactor(d) ELSE IF c = "g" THEN GpiFactor(d.gn) ELSE Dec
RuntimeDecimate(d, c) == DeviceDecimate(d, c) * (IF InIvp(c) THEN HostFactor(d) ELSE 1)

\* js320_fs_to_decimation: [n, host], or nothing
FsToDecimation(fs) ==
    IF fs = 0 \/ fs > SignalRate THEN {}
    ELSE IF fs < MinFs THEN (IF MinFs % fs # 0 THEN {} ELSE {[n |-> SignalRate \div MinFs, host |-> MinFs \div fs]})
    ELSE IF SignalRate % fs # 0 \/ SignalRate \div fs \in {2, 3} THEN {}
    ELSE {[n |-> IF fs = SignalRate THEN 0 ELSE SignalRate \div fs, host |-> 1]}

------------------------------------------------------------------------------
(* Messages                                                                 *)

\* js320_port_flush
PortFlush(d, c) ==
    IF c \notin DOMAIN d.port \/ ~d.port[c].msg.open THEN d
    ELSE [d EXCEPT !.out = Append(@, [ch |-> c, m |-> d.port[c].msg]), !.port[c].msg = NoMsg]

\* js320_group_flush
GroupFlush(d, c) == IF InIvp(c) THEN PortFlush(PortFlush(PortFlush(d, "i"), "v"), "p") ELSE PortFlush(d, c)

\* js320_stream_msg_alloc, js320_signal_init
NewMsg(id, dec, index) == [id |-> id, dec |-> dec, index |-> index, data |-> <<>>, open |-> TRUE]

\* js320_port_append
PortAppend(d, c, index, id, vals) ==
    LET e == IF id # d.port[c].next \/ index # d.port[c].index THEN PortFlush(d, c) ELSE d
        dec == RuntimeDecimate(d, c)
        m == IF e.port[c].msg.open THEN e.port[c].msg ELSE NewMsg(id, dec, index) IN
    IF ~e.port[c].msg.open /\ ~tm THEN e
    ELSE [e EXCEPT !.port[c] = [@ EXCEPT !.msg = [m EXCEPT !.data = @ \o vals], !.next = id + Len(vals) * dec, !.index = index],
                   !.fits = @ /\ Len(m.data) + Len(vals) <= Cap]

\* js320_port_evaluate_flush: the message is full, or large enough for h/fp.
EvaluateFlush(d, c) ==
    LET n == Len(d.port[c].msg.data)
        per == ((SignalRate * Dec) \div RuntimeDecimate(d, c)) \div d.fp IN
    IF ~d.port[c].msg.open THEN d
    ELSE IF n > Cap - FrameLen THEN PortFlush(d, c)
    ELSE IF n >= per THEN GroupFlush(d, c) ELSE d

------------------------------------------------------------------------------
(* The filter of the host, downsample_sinc.c                                *)

\* What a filter makes of r samples
Whole(w, step) ==
    IF \A k \in DOMAIN w : w[k] = Val(w[1] \div 100 + (k - 1) * step, step) THEN Val(w[1] \div 100, step * Len(w)) ELSE Bad

\* jsdrv_downsample_sinc_add_f32: samples are left out until the filter is aligned.
\* f: the filter and what it gave, with the id of the first
RECURSIVE SincAdd(_, _, _, _)
SincAdd(f, id, step, vals) ==
    LET skip == ~f.filt.fed /\ (id \div step) % f.filt.r # 0
        win == Append(f.filt.win, Head(vals))
        full == ~skip /\ Len(win) = f.filt.r
        g == [filt |-> IF skip THEN f.filt ELSE [f.filt EXCEPT !.fed = TRUE, !.win = IF full THEN <<>> ELSE win],
              out |-> IF full THEN Append(f.out, Whole(win, step)) ELSE f.out,
              id |-> IF full /\ f.out = <<>> THEN id - (f.filt.r - 1) * step ELSE f.id] IN
    IF vals = <<>> THEN f ELSE SincAdd(g, id + step, step, Tail(vals))

SincClear(filt) == [filt EXCEPT !.fed = FALSE, !.win = <<>>]

\* Samples are missing: the filter starts anew.
FilterGap(d, c) == [PortFlush(d, c) EXCEPT !.port[c].filt = SincClear(@)]

\* js320_signal_append_filtered
AppendFiltered(d, c, id, vals) ==
    LET step == DeviceDecimate(d, c)
        e == IF d.port[c].fin # 0 /\ d.port[c].fin # id THEN FilterGap(d, c) ELSE d
        f == SincAdd([filt |-> e.port[c].filt, out |-> <<>>, id |-> 0], id, step, vals)
        g == [e EXCEPT !.port[c].filt = f.filt, !.port[c].fin = id + Len(vals) * step] IN
    IF d.port[c].filt.r = 1 THEN PortAppend(d, c, 0, id, vals)
    ELSE IF f.out = <<>> THEN g ELSE PortAppend(g, c, 0, f.id, f.out)

\* js320_port_reset
PortReset(d, c) ==
    IF c \notin DOMAIN d.port THEN d ELSE [d EXCEPT !.port[c] = [NoPort EXCEPT !.filt = SincClear(d.port[c].filt)]]
SignalsReset(d) == PortReset(PortReset(PortReset(d, "i"), "v"), "p")

\* js320_signal_filters_update
FiltersUpdate(d) ==
    [d EXCEPT !.port = [c \in DOMAIN @ |-> IF InIvp(c) THEN [@[c] EXCEPT !.filt = [NoFilter EXCEPT !.r = HostFactor(d)], !.fin = 0] ELSE @[c]]]

------------------------------------------------------------------------------
(* Power                                                                    *)

SbufsClear(d) == [d EXCEPT !.buf = Bufs]

\* js320_reconcile_power: what the instrument is to stream, and who computes power
ReconcilePower(d) ==
    LET hostp == d.fs >= SignalRate /\ {"i", "v", "p"} \subseteq d.on
        wanted(c) == IF c \in d.on /\ ~(c = "p" /\ hostp) THEN "on" ELSE "off"
        new == SelectSeq(Ivp, LAMBDA c : d.last[c] # wanted(c))
        e == IF hostp # d.hostp THEN [SbufsClear(d) EXCEPT !.hostp = hostp] ELSE d IN
    [e EXCEPT !.last = [c \in DOMAIN @ |-> wanted(c)],
              !.tx = @ \o [k \in DOMAIN new |-> [k |-> "ctrl", ch |-> new[k], v |-> IF wanted(new[k]) = "on" THEN 1 ELSE 0]]]

\* js320_compute_power
ComputePower(d) ==
    LET b == Mult(d.buf)
        w == b["p"].data IN
    IF ~d.hostp \/ d.buf["i"].data = <<>> \/ d.buf["v"].data = <<>> THEN d
    ELSE IF w = <<>> THEN [d EXCEPT !.buf = b]
    ELSE EvaluateFlush(PortAppend([d EXCEPT !.buf = b], "p", 0, b["p"].head_id - Len(w) * Dec, w), "p")

\* Samples for the buffer of the computation, which starts at the first
Feed(d, c, id, vals) ==
    IF ~d.hostp \/ c \notin {"i", "v"} THEN d
    ELSE [d EXCEPT !.buf[c] = SbufAdd(IF @.head_id = 0 THEN [@ EXCEPT !.head_id = id] ELSE @, id, vals)]

\* js320_handle_stream_ctrl
StreamCtrl(d, c, on) ==
    LET e == PortReset([d EXCEPT !.on = IF on THEN @ \cup {c} ELSE @ \ {c}], c) IN
    ReconcilePower([e EXCEPT !.buf[c] = SbufEmpty])

------------------------------------------------------------------------------
(* The window in which frames are dropped                                   *)

AckBegin(a) == [a EXCEPT !.n = @ + 1, !.drop = TRUE]
AckReceived(a, id) == IF a.n > 0 THEN [a EXCEPT !.n = @ - 1, !.until = id] ELSE a

AckShouldDrop(a, id) == a.drop /\ (a.n > 0 \/ id < a.until)

Family(c) == IF InIvp(c) THEN "signal" ELSE "gpi"

\* js320_signal_dwn_changed
DwnChanged(d) ==
    LET e == SbufsClear(FiltersUpdate(SignalsReset([d EXCEPT !.fs = (SignalRate \div DeviceFactor(d)) \div HostFactor(d)]))) IN
    IF \E c \in d.on : InIvp(c) THEN [e EXCEPT !.ack["signal"] = AckBegin(@)] ELSE e

Tell(d, k, v) == [d EXCEPT !.tx = Append(@, [k |-> k, ch |-> "none", v |-> v])]

\* js320_apply_signal_dwn_n, js320_apply_signal_dwn_mode, js320_apply_gpi_dwn_n; of the
\* digital inputs no port is ever enabled.
ApplyN(d, n, host) == ReconcilePower(Tell(DwnChanged([d EXCEPT !.n = n, !.host = host]), "n", n))
ApplyMode(d, m) == ReconcilePower(Tell(DwnChanged([d EXCEPT !.mode = m]), "mode", m))
ApplyGpi(d, n) ==
    LET e == PortReset([d EXCEPT !.gn = n], "g") IN
    Tell(IF \E c \in d.on : c = "g" THEN [e EXCEPT !.ack["gpi"] = AckBegin(@)] ELSE e, "gn", n)

------------------------------------------------------------------------------
(* The driver's callbacks                                                   *)

Now == [drv EXCEPT !.tx = <<>>, !.out = <<>>]

\* The step leaves the driver in state d
Do(d) ==
    /\ drv' = d /\ dq' = dq \o d.tx
    /\ end' = [c \in chans |-> LET ms == SelectSeq(d.out, LAMBDA x : x.ch = c) IN
                 IF ms = <<>> THEN end[c] ELSE LET m == ms[Len(ms)].m IN m.id + Len(m.data) * m.dec]

\* The newest id of the instrument
Latest == CHOOSE x \in {dev.pos[c] : c \in chans} : \A c \in chans : dev.pos[c] <= x

\* handle_cmd
HandleCmd(k, c, v) ==
    /\ k \in ops /\ cmds < MaxCmds /\ cmds' = cmds + 1 /\ Len(dq) < 2
    /\ Settled /\ k \in {"fs", "n", "mode"} /\ drv.on = {} => dev.on = {} /\ dq \o fq = <<>>
    /\ Settled /\ k = "ctrl" /\ StreamCtrl(Now, c, v = 1).hostp # drv.hostp
         => dq \o fq = <<>> /\ \A o \in dev.on : dev.pos[o] = Latest
    /\ CASE k = "ctrl" /\ InIvp(c) -> Do(StreamCtrl(Now, c, v = 1))
         [] k = "ctrl" /\ ~InIvp(c) -> Do([Now EXCEPT !.tx = <<[k |-> "ctrl", ch |-> c, v |-> v]>>])
         [] k = "fs" -> \E x \in FsToDecimation(v) : Do(ApplyN(Now, x.n, x.host))
         [] k = "n" -> v <= NMax /\ Do(ApplyN(Now, v, 1))
         [] k = "mode" -> Do(ApplyMode(Now, v))
         [] k = "gn" -> (GpiLive \/ ("g" \notin want /\ dq \o fq = <<>>)) /\ Do(ApplyGpi(Now, v))
         [] k = "fp" -> Do([Now EXCEPT !.fp = v])
    /\ want' = (IF k # "ctrl" THEN want ELSE IF v = 1 THEN want \cup {c} ELSE want \ {c})
    /\ UNCHANGED <<chans, ops, tm, fq, aq, dev, faults>>

\* Power from the instrument, of a time at which the host computes it
Superseded(d, c) == c = "p" /\ d.hostp

\* js320_handle_app
HandleApp ==
    /\ fq # <<>> /\ fq' = Tail(fq)
    /\ LET fr == Head(fq)
           c == fr.ch
           a == Now.ack[Family(c)]
           d == [Now EXCEPT !.ack[Family(c)].drop = IF c = "a" THEN @ ELSE @ /\ AckShouldDrop(a, fr.id)] IN
       IF c # "a" /\ AckShouldDrop(a, fr.id) THEN Do(Now)
       ELSE IF Superseded(d, c) THEN Do(d)
       ELSE IF InIvp(c) THEN Do(ComputePower(EvaluateFlush(AppendFiltered(Feed(d, c, fr.id, fr.vals), c, fr.id, fr.vals), c)))
       ELSE Do(EvaluateFlush(PortAppend(d, c, fr.index, fr.id, fr.vals), c))
    /\ UNCHANGED <<chans, ops, tm, aq, dev, want, cmds, faults>>

\* js320_handle_publish
HandleAck ==
    /\ aq # <<>> /\ aq' = Tail(aq)
    /\ Do([Now EXCEPT !.ack[Head(aq).fam] = AckReceived(@, Head(aq).id)])
    /\ UNCHANGED <<chans, ops, tm, fq, dev, want, cmds, faults>>

\* js320_ack_timeout_check
AckTimeout(f) ==
    /\ drv.ack[f].drop /\ (Timely => dq \o fq \o aq = <<>>)
    /\ Do([Now EXCEPT !.ack[f] = NoAck])
    /\ UNCHANGED <<chans, ops, tm, fq, aq, dev, want, cmds, faults>>

\* js320_on_close, and open with the defaults: the instrument starts anew, and
\* js320_on_instance_synced applies its rate.
Reopen ==
    /\ "open" \in ops /\ cmds < MaxCmds /\ cmds' = cmds + 1 /\ (StaleOpen \/ drv.on = {})
    /\ fq' = <<>> /\ aq' = <<>> /\ want' = {}
    /\ LET d == [Now EXCEPT !.port = [c \in chans |-> NoPort], !.buf = Bufs, !.hostp = FALSE, !.n = 0, !.mode = 1, !.host = 1,
                            !.gn = Dec, !.ack = [f \in DOMAIN @ |-> NoAck], !.last = [c \in DOMAIN @ |-> "unknown"]]
           e == ApplyMode(ApplyN(d, 0, 1), 1) IN
       drv' = e /\ dq' = e.tx
    /\ dev' = [dev EXCEPT !.on = {}, !.n = 0, !.mode = 1, !.gn = Dec]
    /\ UNCHANGED <<chans, ops, tm, end, faults>>

------------------------------------------------------------------------------
(* The instrument                                                           *)

\* A channel starts at the present; a change of the rate starts its channels anew.
DevCmd(lost) ==
    LET m == Head(dq)
        fam == IF m.k = "gn" THEN "gpi" ELSE "signal"
        mine == {c \in chans \ {"a"} : Family(c) = fam}
        acks == dev.on \cap mine # {} \/ IdleAcks IN
    /\ dq # <<>> /\ dq' = Tail(dq)
    /\ lost => m.k # "ctrl" /\ acks /\ faults < MaxFaults
    /\ faults' = (IF lost THEN faults + 1 ELSE faults)
    /\ dev' = CASE m.k = "ctrl" /\ m.v = 1 -> [dev EXCEPT !.on = @ \cup {m.ch}, !.pos[m.ch] = IF m.ch \in dev.on THEN @ ELSE Latest]
                [] m.k = "ctrl" /\ m.v = 0 -> [dev EXCEPT !.on = @ \ {m.ch}]
                [] m.k = "n" -> [dev EXCEPT !.n = m.v, !.pos = [c \in chans |-> IF c \in mine THEN Latest ELSE @[c]]]
                [] m.k = "mode" -> [dev EXCEPT !.mode = m.v, !.pos = [c \in chans |-> IF c \in mine THEN Latest ELSE @[c]]]
                [] m.k = "gn" -> [dev EXCEPT !.gn = m.v, !.pos = [c \in chans |-> IF c \in mine THEN Latest ELSE @[c]]]
    /\ aq' = (IF m.k = "ctrl" \/ ~acks \/ lost THEN aq ELSE Append(aq, [fam |-> fam, id |-> Latest]))
    /\ drv' = Now /\ UNCHANGED <<chans, ops, tm, fq, want, end, cmds>>

\* A frame of a channel that streams, which may be lost; channels stay together.
Emit(c, index, lost) ==
    LET step == DeviceDecimate(dev, c) IN
    /\ c \in dev.on /\ Len(fq) < 2 /\ dev.pos[c] <= 8 + Span
    /\ \A o \in dev.on : Family(o) = Family(c) => dev.pos[c] <= dev.pos[o]
    /\ c = "a" \/ index = 0
    /\ lost => faults < MaxFaults
    /\ faults' = (IF lost THEN faults + 1 ELSE faults)
    /\ fq' = (IF lost THEN fq
              ELSE Append(fq, [ch |-> c, index |-> index, id |-> dev.pos[c], vals |-> [k \in 1..FrameLen |-> Val(dev.pos[c] + (k - 1) * step, step)]]))
    /\ dev' = [dev EXCEPT !.pos[c] = @ + FrameLen * step]
    /\ drv' = Now /\ UNCHANGED <<chans, ops, tm, dq, aq, want, end, cmds>>

TimeMap == ~tm /\ tm' = TRUE /\ drv' = Now /\ UNCHANGED <<chans, ops, dq, fq, aq, dev, want, end, cmds, faults>>

Next ==
    \/ \E c \in chans, v \in {0, 1} : HandleCmd("ctrl", c, v)
    \/ \E fs \in Fss : HandleCmd("fs", "i", fs)
    \/ \E n \in Ns : HandleCmd("n", "i", n)
    \/ \E m \in {0, 1} : HandleCmd("mode", "i", m)
    \/ \E n \in Gs : HandleCmd("gn", "g", n)
    \/ \E n \in Fps : HandleCmd("fp", "i", n)
    \/ HandleApp \/ HandleAck \/ Reopen \/ TimeMap
    \/ \E f \in {"signal", "gpi"} : AckTimeout(f)
    \/ \E lost \in BOOLEAN : DevCmd(lost) \/ \E c \in chans, index \in {0, 1} : Emit(c, index, lost)

Spec == Init /\ [][Next]_vars

------------------------------------------------------------------------------
\* What a message says of its elements is so: element k stands for decimate_factor ids
\* from sample_id + k * decimate_factor on, at every rate and across every change of it.
RatesExact ==
    \A i \in DOMAIN drv.out : LET m == drv.out[i].m IN
        \A k \in DOMAIN m.data : m.data[k] \in {NaN, Val(m.id + (k - 1) * m.dec, m.dec)}

\* When the instrument has carried out what it was told, it streams what the application
\* wants, and power comes from exactly one of the two.
EnabledFlows ==
    dq = <<>> => /\ dev.on \ {"p"} = want \ {"p"}
                 /\ ("p" \in want) = ("p" \in dev.on \/ drv.hostp) /\ ~("p" \in dev.on /\ drv.hostp)

\* The messages of a channel go forward: no sample is sent twice.
ForwardStep == \A i \in DOMAIN drv'.out : drv'.out[i].m.id >= end[drv'.out[i].ch]
StreamForward == [][ForwardStep]_vars

\* The samples that are added to a message fit into it (JSDRV_ASSERT in js320_port_append).
AppendFits == drv.fits
==============================================================================

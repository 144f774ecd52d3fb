----------------------------- MODULE Js110Stream -----------------------------
(* The data path of js110_usb.c: the frames of the instrument become samples, *)
(* the samples go through the downsample filter of each port into messages,   *)
(* and into the statistics.  The parameters that switch the ports and set the *)
(* rate come from the application in between.                                 *)
EXTENDS Integers, Sequences, FiniteSets

CONSTANTS
    Fields,         \* the ports of FIELDS
    Bits,           \* element_size_bits of each
    Rates,          \* what h/fs may be set to, as a decimation; 0: not a divisor
    S,              \* samples per frame
    Mod,            \* the packet index counts modulo this, 2^16
    FillMax,        \* PKT_INDEX_SKIP_FILL_MAX
    Block,          \* elements of a message at the full rate
    Scnt,           \* the values of s/stats/scnt
    PartialAt,      \* the rates at which one port is switched while others stream
    ScntIdle,       \* s/stats/scnt changes only while nothing streams
    MaxFrames, MaxLost, MaxCmds

VARIABLES
    on,         \* the parameters s/+/ctrl that are set, "stats" included
    rate,       \* h/fs
    sid,        \* sample_id
    cnt,        \* sample_processor.sample_count
    pkt,        \* packet_index
    ports,      \* msg and downsample of each port
    stats,      \* js110_stats_s: block_sample_count, sample_count, block_sample_id; history: the first sample
    dev,        \* the instrument: streaming, session, frame
    fq,         \* frames that the driver has not handled
    setting,    \* the settings that are on their way to the instrument
    out,        \* history: the messages sent by the last step
    base,       \* history: session and offset of the sample ids at the last frame
    lost, cmds

vars == <<on, rate, sid, cnt, pkt, ports, stats, dev, fq, setting, out, base, lost, cmds>>

NoMsg == [id |-> -1, at |-> <<>>]

------------------------------------------------------------------------------
(* downsample.c, with the filters of a cascade as one                       *)

Alloc(r) == [factor |-> r, fed |-> FALSE, left |-> r]
DecimateFactor(d) == IF d.factor = 0 THEN 1 ELSE d.factor
Clear(d) == [d EXCEPT !.fed = FALSE]

\* jsdrv_downsample_add_i64q30: the filter begins at a multiple of the factor.
Skips(d, i) == d.factor > 0 /\ ~d.fed /\ i % d.factor # 0
AddTo(d, i) ==
    LET left == (IF d.fed THEN d.left ELSE d.factor) - 1 IN
    IF d.factor = 0 \/ Skips(d, i) THEN d ELSE [d EXCEPT !.fed = TRUE, !.left = IF left = 0 THEN d.factor ELSE left]
Yields(d, i) == d.factor = 0 \/ (~Skips(d, i) /\ (IF d.fed THEN d.left ELSE d.factor) = 1)

------------------------------------------------------------------------------
IsStreaming(p) == p # {}

\* jsdrvp_ul_js110_usb_factory
Init ==
    /\ on = {} /\ rate = 1 /\ sid = 0 /\ cnt = 0 /\ pkt = 0
    /\ ports = [f \in Fields |-> [msg |-> NoMsg, ds |-> Alloc(1)]]
    /\ stats = [block |-> CHOOSE b \in Scnt : \A c \in Scnt : b <= c, n |-> 0, id |-> 0, first |-> 0]
    /\ dev = [on |-> FALSE, session |-> 0, frame |-> 0] /\ fq = <<>> /\ setting = FALSE
    /\ out = [msgs |-> <<>>, stats |-> <<>>] /\ base = [session |-> 0, off |-> 0, known |-> FALSE, near |-> TRUE]
    /\ lost = 0 /\ cmds = 0

NoOut == out' = [msgs |-> <<>>, stats |-> <<>>]

\* reset_port
ResetPort(p) == [msg |-> NoMsg, ds |-> Clear(p.ds)]

\* Faulty: the next block keeps the id of the last.
StatsClearKeep(s) == [s EXCEPT !.n = 0]

\* js110_stats_clear
StatsClear(s) == [s EXCEPT !.n = 0, !.id = 0]

Command == ~setting /\ cmds < MaxCmds /\ cmds' = cmds + 1 /\ NoOut

\* on_update_ctrl when streaming ends
StoppedPorts(ps) == [f \in Fields |-> ResetPort(ps[f])]

\* on_update_ctrl: the settings are sent, and frames may come meanwhile.
UpdateCtrl(f, v) ==
    LET p == IF v THEN on \cup {f} ELSE on \ {f}
        change == IsStreaming(on) # IsStreaming(p) IN
    /\ Command /\ on' = p
    /\ change \/ p = on \/ rate \in PartialAt \/ f = "stats"
    /\ sid' = (IF change THEN 0 ELSE sid)
    /\ setting' = change
    /\ cnt' = (IF change /\ IsStreaming(p) THEN 0 ELSE cnt)
    /\ pkt' = (IF change /\ IsStreaming(p) THEN 0 ELSE pkt)
    /\ stats' = (IF change /\ IsStreaming(p) THEN StatsClear(stats) ELSE stats)
    /\ ports' = (IF change /\ ~IsStreaming(p) THEN StoppedPorts(ports) ELSE ports)
    /\ base' = (IF change THEN [base EXCEPT !.known = FALSE] ELSE base)
    /\ UNCHANGED <<rate, dev, fq, lost>>

\* stream_settings_send is done: a stream that starts counts its frames from zero.
SettingsSent ==
    /\ setting /\ setting' = FALSE /\ NoOut
    /\ dev' = [dev EXCEPT !.on = IsStreaming(on),
                          !.session = IF IsStreaming(on) /\ ~dev.on THEN @ + 1 ELSE @,
                          !.frame = IF IsStreaming(on) /\ ~dev.on THEN 0 ELSE @]
    /\ UNCHANGED <<on, rate, sid, cnt, pkt, ports, stats, fq, base, lost, cmds>>

\* on_sampling_frequency
SamplingFrequency(r) ==
    /\ Command /\ rate' = r
    /\ ports' = [f \in Fields |-> [ResetPort(ports[f]) EXCEPT !.ds = Alloc(r)]]
    /\ UNCHANGED <<on, sid, cnt, pkt, stats, dev, fq, setting, base, lost>>

\* on_stats_scnt, js110_stats_sample_count_set
StatsScnt(b) ==
    /\ Command /\ (ScntIdle => ~IsStreaming(on))
    /\ stats' = [StatsClear(stats) EXCEPT !.block = b]
    /\ UNCHANGED <<on, rate, sid, cnt, pkt, ports, dev, fq, setting, base, lost>>

\* d_close, d_open_ll and d_open: d_reset, and the settings are sent again.
Reopen ==
    /\ Command /\ fq' = <<>>
    /\ cnt' = 0 /\ sid' = 0 /\ stats' = StatsClear(stats)
    /\ ports' = StoppedPorts(ports) /\ setting' = TRUE
    /\ base' = [base EXCEPT !.known = FALSE]
    /\ UNCHANGED <<on, rate, pkt, dev, lost>>

------------------------------------------------------------------------------
(* Frames: a state of the data path is [sid, cnt, ports, stats, msgs, blocks] *)

State == [sid |-> sid, cnt |-> cnt, ports |-> ports, stats |-> stats, msgs |-> <<>>, blocks |-> <<>>]

\* field_message_get: the message to add to, if any
MessageGet(s, f) ==
    LET p == s.ports[f] IN
    IF f \notin on THEN NoMsg
    ELSE IF p.msg # NoMsg THEN p.msg
    ELSE IF s.sid % DecimateFactor(p.ds) # 0 THEN NoMsg
    ELSE [id |-> s.sid, at |-> <<>>]

\* field_message_process_end: a message is whole bytes.
MessageFull(f, d, n) == n * Bits[f] % 8 = 0 /\ n >= Block \div DecimateFactor(d)

\* add_f32_field, add_u4_field, add_u1_field
AddField(s, f) ==
    LET m == MessageGet(s, f)
        d == s.ports[f].ds
        e == AddTo(d, s.cnt - 1)
        n == [m EXCEPT !.at = Append(@, s.cnt - 1)] IN
    IF m = NoMsg THEN [s EXCEPT !.ports[f].msg = NoMsg]
    ELSE IF ~Yields(d, s.cnt - 1) THEN [s EXCEPT !.ports[f] = [msg |-> m, ds |-> e]]
    ELSE IF MessageFull(f, d, Len(n.at))
    THEN [s EXCEPT !.ports[f] = [msg |-> NoMsg, ds |-> e],
                   !.msgs = Append(@, [field |-> f, id |-> m.id, factor |-> DecimateFactor(d), at |-> n.at])]
    ELSE [s EXCEPT !.ports[f] = [msg |-> n, ds |-> e]]

RECURSIVE AddFields(_, _)
AddFields(s, fs) == IF fs = {} THEN s ELSE LET f == CHOOSE g \in fs : TRUE IN AddFields(AddField(s, f), fs \ {f})

\* js110_stats_compute, and the message that handle_sample makes of a block
Statistics(s) ==
    LET t == [s.stats EXCEPT !.n = @ + 1, !.first = IF s.stats.n = 0 THEN s.sid - 1 ELSE @] IN
    IF t.n = t.block
    THEN [s EXCEPT !.stats = [t EXCEPT !.n = 0, !.id = s.sid], !.blocks = Append(@, [id |-> t.id, first |-> t.first])]
    ELSE [s EXCEPT !.stats = t]

\* handle_sample: js110_sp_process counts, each port takes the sample.
HandleSample(s) ==
    LET c == AddFields([s EXCEPT !.cnt = @ + 1], Fields) IN Statistics([c EXCEPT !.sid = @ + 1])

RECURSIVE HandleSamples(_, _)
HandleSamples(s, n) == IF n = 0 THEN s ELSE HandleSamples(HandleSample(s), n - 1)

Fill(skip) == IF skip <= FillMax THEN skip ELSE 0

\* handle_stream_in_frame
HandleFrame ==
    /\ fq # <<>> /\ fq' = Tail(fq)
    /\ LET fr == Head(fq)
           skip == (fr.index - pkt) % Mod
           s == HandleSamples(State, S * Fill(skip))
           t == HandleSamples(s, S) IN
       /\ sid' = t.sid /\ cnt' = t.cnt /\ ports' = t.ports /\ stats' = t.stats
       /\ out' = [msgs |-> t.msgs, stats |-> t.blocks]
       /\ pkt' = (fr.index + 1) % Mod
       /\ base' = [session |-> fr.session, off |-> s.sid - S * fr.frame, known |-> TRUE, near |-> skip <= FillMax]
    /\ UNCHANGED <<on, rate, dev, setting, lost, cmds>>

\* The instrument sends a frame, which may be lost.
SendFrame(l) ==
    /\ dev.on /\ dev.frame < MaxFrames /\ Len(fq) < 2 /\ NoOut
    /\ dev' = [dev EXCEPT !.frame = @ + 1]
    /\ IF l THEN lost < MaxLost /\ lost' = lost + 1 /\ UNCHANGED fq
       ELSE fq' = Append(fq, [session |-> dev.session, frame |-> dev.frame, index |-> dev.frame % Mod]) /\ UNCHANGED lost
    /\ UNCHANGED <<on, rate, sid, cnt, pkt, ports, stats, setting, base, cmds>>

Next ==
    \/ \E f \in Fields \cup {"stats"}, v \in BOOLEAN : UpdateCtrl(f, v)
    \/ SettingsSent \/ (\E r \in Rates : SamplingFrequency(r)) \/ (\E b \in Scnt : StatsScnt(b)) \/ Reopen
    \/ HandleFrame \/ \E l \in BOOLEAN : SendFrame(l)

Spec == Init /\ [][Next]_vars

------------------------------------------------------------------------------
\* What a message says of its elements is so: element k is the filter's output for the
\* decimate_factor samples from sample_id + k * decimate_factor on.
MessagesExact ==
    \A i \in DOMAIN out.msgs :
        LET m == out.msgs[i] IN \A k \in DOMAIN m.at : m.at[k] = m.id + k * m.factor - 1

\* Lost frames that the packet index shows are made up for: the sample ids keep their
\* distance to the instrument's, up to PKT_INDEX_SKIP_FILL_MAX frames.
TimeStep == base.known /\ base'.known /\ base'.session = base.session /\ base'.near => base'.off = base.off
TimeKept == [][TimeStep]_vars

\* While something streams, a block of statistics says at which sample it begins.
StatsExact == IsStreaming(on) => \A i \in DOMAIN out.stats : out.stats[i].id = out.stats[i].first

\* The samples of a new stream are numbered from zero.
FreshStart ==
    [][base'.known /\ base'.session # base.session /\ base'.near /\ Head(fq).frame = 0 => base'.off = 0]_vars

\* Statistics are sent only while s/stats/ctrl is set.
StatsOnlyOn == out.stats # <<>> => "stats" \in on
==============================================================================

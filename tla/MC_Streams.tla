----------------------------- MODULE MC_Streams ------------------------------
(* The sample streams of the instruments and the algorithms on plain values   *)
(* for TLC: a behaviour is of one of them, which `which` names; the variables *)
(* of the others are 0 throughout.                                            *)
EXTENDS Js320Stream, TLC

App(cs, os) == [chans |-> cs, ops |-> os]
Power == App({"i", "v", "p"}, {"ctrl", "n"})
Rates == App({"i"}, {"ctrl", "fs", "mode"})
Opens == App({"i"}, {"ctrl", "n", "open"})
Inputs == App({"g", "a"}, {"ctrl", "gn", "fp"})
MCProfiles == {Power, Rates, Opens, Inputs}

\* A float port and a port of nibbles; the windows of samples that are replaced
Fields110 == {"i", "range"}
Window110 ==
    [t \in {"m", "n"} |-> [to \in {0, 1, 7} |-> [from \in {0, 1, 7} |->
        IF to = 7 \/ from = to THEN 0 ELSE IF t = "m" THEN 1 ELSE IF from = 7 THEN 3 ELSE 2]]]

VARIABLES
    which,      \* the part whose behaviour this is
    base_2, cnt_2, prev_2, tm_2, port_2, buf_2, pub_2, got_2, end_2, faults_2, on_1, rate_1, sid_1,
    cnt_1, pkt_1, ports_1, stats_1, dev_1, fq_1, setting_1, out_1, base_1, lost_1, cmds_1, sp_s, out_s,
    win_s, cmds_s, c_v

J220 == INSTANCE Js220Stream WITH
    IdRange <- 64, Dec <- 2, ElementBytes <- 4, Ring <- 4, MaxElements <- 3, Blocks <- {1, 2},
    Starts <- {58}, Overlaps <- TRUE, Gap <- 4, Span <- 8, MaxFaults <- 2, base <- base_2,
    cnt <- cnt_2, prev <- prev_2, tm <- tm_2, port <- port_2, buf <- buf_2, pub <- pub_2, got <- got_2,
    end <- end_2, faults <- faults_2
J220Vars == <<base_2, cnt_2, prev_2, tm_2, port_2, buf_2, pub_2, got_2, end_2, faults_2>>
J220Idle ==
    base_2 = 0 /\ cnt_2 = 0 /\ prev_2 = 0 /\ tm_2 = 0 /\ port_2 = 0 /\ buf_2 = 0 /\ pub_2 = 0 /\
    got_2 = 0 /\ end_2 = 0 /\ faults_2 = 0

J110 == INSTANCE Js110Stream WITH
    Fields <- Fields110, Bits <- [f \in Fields110 |-> IF f = "i" THEN 32 ELSE 4],
    Rates <- {0, 1, 2, 4}, S <- 2, Mod <- 8, FillMax <- 2, Block <- 4, Scnt <- {4, 5},
    PartialAt <- {0, 1}, ScntIdle <- TRUE, MaxFrames <- 5, MaxLost <- 2, MaxCmds <- 3, on <- on_1,
    rate <- rate_1, sid <- sid_1, cnt <- cnt_1, pkt <- pkt_1, ports <- ports_1, stats <- stats_1,
    dev <- dev_1, fq <- fq_1, setting <- setting_1, out <- out_1, base <- base_1, lost <- lost_1,
    cmds <- cmds_1
J110Vars == <<
    on_1, rate_1, sid_1, cnt_1, pkt_1, ports_1, stats_1, dev_1, fq_1, setting_1, out_1, base_1, lost_1,
    cmds_1>>
J110Idle ==
    on_1 = 0 /\ rate_1 = 0 /\ sid_1 = 0 /\ cnt_1 = 0 /\ pkt_1 = 0 /\ ports_1 = 0 /\ stats_1 = 0 /\
    dev_1 = 0 /\ fq_1 = 0 /\ setting_1 = 0 /\ out_1 = 0 /\ base_1 = 0 /\ lost_1 = 0 /\ cmds_1 = 0

Smp == INSTANCE Js110Samples WITH
    Size <- 8, Window <- Window110, Manual <- {3}, Pre <- {0, 2}, Post <- {0, 2}, Calm <- TRUE,
    MaxSamples <- 10, MaxCmds <- 1, sp <- sp_s, out <- out_s, win <- win_s, cmds <- cmds_s
SmpVars == <<sp_s, out_s, win_s, cmds_s>>
SmpIdle ==
    sp_s = 0 /\ out_s = 0 /\ win_s = 0 /\ cmds_s = 0

\* The algorithms on plain values: a state is one algorithm with one input; nothing
\* happens, every input is an initial state.
Sums == INSTANCE Statistics WITH Big <- 99, W <- 4, HalfLow <- FALSE
Txt == INSTANCE Cstr WITH W <- 12, FullRange <- FALSE, JSDRV_TOPIC_LENGTH_MAX <- 6
Widths == [s \in {"8", "16", "32", "64"} |-> CASE s = "8" -> 2 [] s = "16" -> 3 [] s = "32" -> 4 [] s = "64" -> 5]
Uni == INSTANCE UnionValue WITH Bits <- Widths
Jsn == INSTANCE Json WITH DEPTH_MAX <- 2, ExpMax <- 8, W <- 12, ZeroExponent <- FALSE
Mta == INSTANCE Meta WITH
    U8Range <- 4, WideText <- FALSE, FloatDefault <- FALSE, JsonMax <- 40, OPEN_SET_ENTRY_MAX <- 3,
    FrameMax <- 2, LongMeta <- FALSE, TextValues <- FALSE
Flt == INSTANCE TimeMapFilter WITH Points <- 3, Interval <- 2, Rate <- 2

UpTo(n, X) == UNION {[1..k -> X] : k \in 0..n}

Runs == UpTo(4, {-3, 0, 1, 5})
SampleBlocks == UNION {[1..k -> (-2)..2] : k \in 1..3}
NumberTexts == UpTo(4, {"0", "4", "9", "x", "a", " ", ".", "_"})
ShortTexts == UpTo(2, {"a", "A", "x"})
Jsons == UpTo(4, {"{", "}", "[", "]", ",", ":", "s", "n", " "})
TopicTexts == UpTo(4, {"a", "/", "$"})
Places == [type : Uni!Pointer \cup {"null"}, at : {"none", "heap"}, size : {0, 2, 3}, heap : BOOLEAN]
Mem == [heap |-> <<"a", "b", "end">>, buffer |-> <<>>]
Literals == UpTo(4, {"0", "1", "9"})
Rising ==
    {s \in UpTo(4, [utc : {2, 4, 5, 7, 9}, counter : 1..3]) :
        \A k \in 1..(Len(s) - 1) : s[k].utc < s[k + 1].utc /\ s[k].counter <= s[k + 1].counter}

\* Metadata: the fields after "dtype" in any order, options with other names, values of
\* several types
Orders ==
    {s \in UpTo(3, {"options", "default", "range", "flags", "ext"}) : \A i, j \in DOMAIN s : i # j => s[i] # s[j]}
Int32(n) == Mta!Number("i32", n)
Word(s) == Mta!Text(s, -1)
Options(d) ==
    CASE d = "str" -> {<<<<Word("a"), Mta!Text("0", 0)>>, <<Word("b")>>>>}
      [] d = "f64" -> {<<<<Mta!Number("f64", 1)>>, <<Mta!Number("f64", 2), Word("two")>>>>}
      [] OTHER -> {<<<<Int32(0), Word("off")>>, <<Int32(1), Word("on"), Word("off")>>, <<Int32(3), Word("max")>>>>, <<>>}
Settings(d) ==
    IF d = "f64" THEN {Mta!Number("f64", 1), Mta!Number("f64", 3), Int32(1), Word("two")}
    ELSE {Int32(0), Int32(1), Int32(2), Mta!Number("u8", 3), Word("off"), Word("max"), Word("a"), Word("true"),
          Mta!Text("2", 2), Mta!Text("3", 3), Mta!Text("7", 7)}
Metas ==
    UNION {[dtype : {d}, opts : Options(d), flags : {<<"ro", "dev">>},
            default : IF d = "f64" THEN {Mta!Number("f64", 2), Int32(2)} ELSE {Int32(2)}] : d \in {"u8", "i32", "f64", "str", "bool"}}

\* Blobs of a device, and values that the host has
Entries(t) ==
    [topic : {t}, bang : {FALSE}, dtype : {"u8", "f64"}, default : {-1, 2}, flags : {{}, {"ro", "dev"}}, size : {"ok"},
     opts : {<<>>, <<[n |-> 1, names |-> <<"on">>], [n |-> 0, names |-> <<>>]>>}]
    \cup {[topic |-> t, bang |-> TRUE, dtype |-> "str", default |-> -1, flags |-> {}, size |-> "ok", opts |-> <<>>],
          [topic |-> -1, bang |-> FALSE, dtype |-> "u8", default |-> 1, flags |-> {}, size |-> "ok", opts |-> <<>>],
          [topic |-> t, bang |-> FALSE, dtype |-> "u8", default |-> 1, flags |-> {}, size |-> "zero", opts |-> <<>>],
          [topic |-> t, bang |-> FALSE, dtype |-> "u8", default |-> 1, flags |-> {}, size |-> "ok",
           opts |-> [k \in 1..8 |-> [n |-> k % 4, names |-> <<"x">>]]]}
Plain(t) == [topic |-> t, bang |-> FALSE, dtype |-> "u8", default |-> t % 4, flags |-> {}, size |-> "ok", opts |-> <<>>]
BlobsOf(h) == [header : {h}, entries : {<<a, b>> : a \in Entries(1), b \in Entries(2)} \cup {[k \in 1..n |-> Plain(k)] : n \in 0..4}]
Hosts == {<<>>, <<[topic |-> 1, v |-> Int32(3)]>>, <<[topic |-> 2, v |-> Word("on")], [topic |-> 1, v |-> Int32(1)], [topic |-> 1, v |-> Int32(0)]>>}

AlgInit ==
    \/ \E x \in Sums!I128s : c_v = [alg |-> "i128", in |-> x]
    \/ \E x \in SampleBlocks : c_v = [alg |-> "block", in |-> x]
    \/ \E x \in Runs : c_v = [alg |-> "stats", in |-> x]
    \/ \E x \in NumberTexts : c_v = [alg |-> "number", in |-> x]
    \/ \E u \in 0..(2^12 - 1) : c_v = [alg |-> "print", in |-> u]
    \/ \E a, b \in ShortTexts : c_v = [alg |-> "text", in |-> <<a, b>>]
    \/ \E x \in Uni!Values : c_v = [alg |-> "union", in |-> x]
    \/ \E n \in 1..120, d \in 1..12 : c_v = [alg |-> "f64", in |-> <<n, d>>]
    \/ \E x \in Places : c_v = [alg |-> "copy", in |-> x]
    \/ \E x \in Jsons : c_v = [alg |-> "json", in |-> x]
    \/ \E v \in Jsn!Trees(2, 2) : c_v = [alg |-> "tree", in |-> v]
    \/ \E x \in Literals : c_v = [alg |-> "literal", in |-> x]
    \/ \E m \in Metas : \E v \in Settings(m.dtype), o \in Orders : c_v = [alg |-> "meta", in |-> <<m, o, v>>]
    \/ \E b \in BlobsOf("ok") \cup {[header |-> h, entries |-> <<Plain(1)>>] : h \in {"short", "cut", "magic", "check", "strings", "count"}},
          h \in Hosts : c_v = [alg |-> "restore", in |-> <<b, h>>]
    \/ \E x \in TopicTexts : c_v = [alg |-> "topic", in |-> x]
    \/ \E x \in Rising : c_v = [alg |-> "filter", in |-> x]

AlgVars == <<c_v>>
AlgIdle == c_v = 0

J320Idle ==
    chans = 0 /\ ops = 0 /\ drv = 0 /\ tm = 0 /\ dq = 0 /\ fq = 0 /\ aq = 0 /\ dev = 0 /\ want = 0 /\
    end = 0 /\ cmds = 0 /\ faults = 0

AllVars == <<which, vars, J220Vars, J110Vars, SmpVars, AlgVars>>

AllInit ==
    \/ which = "js320" /\ Init /\ J220Idle /\ J110Idle /\ SmpIdle /\ AlgIdle
    \/ which = "js220" /\ J220!Init /\ J320Idle /\ J110Idle /\ SmpIdle /\ AlgIdle
    \/ which = "js110" /\ J110!Init /\ J320Idle /\ J220Idle /\ SmpIdle /\ AlgIdle
    \/ which = "samples" /\ Smp!Init /\ J320Idle /\ J220Idle /\ J110Idle /\ AlgIdle
    \/ which = "values" /\ AlgInit /\ J320Idle /\ J220Idle /\ J110Idle /\ SmpIdle

AllNext ==
    \/ which = "js320" /\ Next /\ UNCHANGED <<which, J220Vars, J110Vars, SmpVars, AlgVars>>
    \/ which = "js220" /\ J220!Next /\ UNCHANGED <<which, vars, J110Vars, SmpVars, AlgVars>>
    \/ which = "js110" /\ J110!Next /\ UNCHANGED <<which, vars, J220Vars, SmpVars, AlgVars>>
    \/ which = "samples" /\ Smp!Next /\ UNCHANGED <<which, vars, J220Vars, J110Vars, AlgVars>>
    \/ which = "values" /\ UNCHANGED c_v /\ UNCHANGED <<which, vars, J220Vars, J110Vars, SmpVars>>

AllSpec == AllInit /\ [][AllNext]_AllVars

------------------------------------------------------------------------------

\* Nothing that was received is missing from what is made of it.  JS320: the channels that
\* are on stream, power from exactly one side.  JS220: a power sample is missing only where
\* current or voltage is.  JS110: a block of statistics begins at the sample that it names,
\* and exactly the samples taken while the range changed are replaced.
NothingMissing ==
    CASE which = "js320" -> EnabledFlows
      [] which = "js220" -> J220!PowerComplete
      [] which = "js110" -> J110!StatsExact
      [] which = "samples" -> Smp!OnlyWindowReplaced
      [] OTHER -> TRUE


Is(alg) == which = "values" /\ c_v.alg = alg


==============================================================================

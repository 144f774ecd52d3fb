------------------------------- MODULE Js320Cal -----------------------------
(* js320_cal.c: reading and copying the calibration slots, and the sweeps     *)
(* that measure the offsets of current and voltage.  Values are abstract: a   *)
(* page of a record is the tag of the record that it belongs to, or blank;    *)
(* a sample is the selection that the ADC had when it was taken.              *)
EXTENDS Js320Part

CONSTANTS
    PagesPerRecord,     \* FLASH_PAGES_PER_RECORD
    Ranges              \* the current ranges, and the multiplexer's positions

Slots == {"ACTIVE", "TRIM2", "TRIM1", "FIELD", "LAB", "FACTORY"}
CfgTopics == <<"mode", "select", "adc0/sel", "adc0/ctrl", "adc1/sel", "adc1/ctrl">>
StreamTopics == <<"i">>
Topics == {CfgTopics[k] : k \in DOMAIN CfgTopics} \cup {StreamTopics[k] : k \in DOMAIN StreamTopics}
Unknown == -1
SettleDelay == 1

NoPrior == [t \in Topics |-> Unknown]

NoCal ==
    [st |-> "IDLE", op |-> "none", id |-> 0, src |-> "ACTIVE", dst |-> "ACTIVE", rec |-> <<>>, mid |-> 0, page |-> 0,
     base |-> "ACTIVE", i |-> 0, mux |-> 0, pass |-> 0, cnt |-> <<0, 0>>, need |-> <<0, 0>>, sum |-> <<{}, {}>>,
     per |-> 0, offs |-> {}, active |-> FALSE, dual |-> FALSE, saved |-> NoPrior, prior |-> NoPrior, pending |-> FALSE]

CalRsp(c, status) == Answer("cal", c.id, status)

Cfg(t, v) == Msg("cal", "cfg", t, v, <<>>, -1)
Host(op, t, v) == Msg("cal", "host", op, v, t, -1)

\* cal_send_mem_op
Flash(c, op, at, data) ==
    Result([c EXCEPT !.mid = @ + 1], <<Msg("cal", "flash", op, <<c.base, at>>, data, c.mid + 1)>>, <<>>, Leave)

ReadPage(c) == Flash(c, "read", c.page, <<>>)
WritePage(c) == Flash(c, "write", c.page, c.rec[c.page + 1])

------------------------------------------------------------------------------
(* The streams: saved, disabled and restored                                *)

SnapshotPrior(c) == [c EXCEPT !.prior = c.saved, !.pending = TRUE]

StreamsDisable == [k \in DOMAIN StreamTopics |-> Host("pub", StreamTopics[k], 0)]


RestorePrior(c) ==
    LET known(t) == c.prior[t] # Unknown
        cfg == SelectSeq(CfgTopics, known)
        stream == SelectSeq(StreamTopics, known) IN
    IF ~c.pending THEN Stay(c)
    ELSE Result([c EXCEPT !.pending = FALSE],
                [k \in DOMAIN cfg |-> Cfg(cfg[k], c.prior[cfg[k]])]
                \o [k \in DOMAIN stream |-> Host("pub", stream[k], c.prior[stream[k]])], <<>>, Leave)

StreamSetup(c, dual) ==
    Result([c EXCEPT !.dual = dual, !.active = TRUE],
           <<Host("sub", 0, 0), Cfg("adc0/ctrl", 1)>>
           \o IF dual THEN <<Cfg("adc1/sel", 1), Host("sub", 1, 0), Cfg("adc1/ctrl", 1)>> ELSE <<>>, <<>>, Leave)

StreamTeardown(c) ==
    IF ~c.active THEN Stay(c)
    ELSE Result([c EXCEPT !.active = FALSE],
                <<Cfg("adc0/ctrl", 0), Cfg("adc0/sel", 0), Host("unsub", 0, 0)>>
                \o IF c.dual THEN <<Cfg("adc1/ctrl", 0), Cfg("adc1/sel", 0), Host("unsub", 1, 0)>> ELSE <<>>, <<>>, Leave)

CalFinish(c, status) ==
    LET a == StreamTeardown(c)
        b == Then(a, RestorePrior(a.s)) IN
    Then(b, Result([b.s EXCEPT !.st = "IDLE", !.op = "none"], <<>>, CalRsp(c, status), 0))

------------------------------------------------------------------------------
(* The phases                                                               *)

BeginRead(c, slot) == ReadPage([c EXCEPT !.st = "READ", !.base = slot, !.page = 0])

BeginErase(c, slot) ==
    LET d == [c EXCEPT !.st = "ERASE", !.base = slot] IN Flash(d, "erase", 0, <<>>)

BeginWrite(c) == WritePage([c EXCEPT !.st = "WRITE", !.page = 0])

BeginVerify(c) == ReadPage([c EXCEPT !.st = "VERIFY", !.page = 0])

ArmSettle(c, dev) == Result([c EXCEPT !.st = "SWEEP_SETTLE"], dev, <<>>, SettleDelay)

BeginCapture(c, slot1) ==
    [c EXCEPT !.st = "SWEEP_CAPTURE", !.sum = <<{}, {}>>, !.cnt = <<0, 0>>, !.need = <<c.per, IF slot1 THEN c.per ELSE 0>>]

CaptureComplete(c) == \A k \in 1..2 : c.cnt[k] >= c.need[k]

\* cal_stamp_signature_and_check, and the record replaces the active one.
Stamped(c) == BeginErase([c EXCEPT !.rec = [k \in 1..PagesPerRecord |-> <<"new">>]], "ACTIVE")

\* The sweep of the current: the upper triangle of range and multiplexer
NextSweepPoint(i, mux) ==
    IF mux + 1 < Ranges THEN <<i, mux + 1>> ELSE IF i + 1 < Ranges THEN <<i + 1, i + 1>> ELSE <<>>

\* The place in CAL_INDEX_MAP
Point(c) == c.i * 6 + c.mux

\* Pass 0 takes ADC 0 and ADC 1, pass 1 takes ADC 2.
CurrentPass(c) == ArmSettle(c, <<Cfg("adc0/sel", IF c.pass = 0 THEN 0 ELSE 2)>>)

CurrentPoint(c) ==
    Then(Result(c, <<Cfg("select", Point(c))>>, <<>>, Leave), CurrentPass([c EXCEPT !.pass = 0]))

\* cal_set_offset: the offset of an ADC at a point, and the samples that it is from
SetOffset(c, adc, k) == [c EXCEPT !.offs = @ \cup {[adc |-> adc, at |-> Point(c), from |-> c.sum[k]]}]

CurrentAfterCapture(c) ==
    LET next == NextSweepPoint(c.i, c.mux)
        d == SetOffset(c, 2, 1) IN
    IF c.pass = 0 THEN CurrentPass([SetOffset(SetOffset(c, 0, 1), 1, 2) EXCEPT !.pass = 1])
    ELSE IF next = <<>> THEN Stamped(d)
    ELSE CurrentPoint([d EXCEPT !.i = next[1], !.mux = next[2]])

CurrentAfterRead(c) ==
    Then(Then(Result(c, <<Cfg("mode", 5)>>, <<>>, Leave), StreamSetup(c, TRUE)),
         CurrentPoint([StreamSetup(c, TRUE).s EXCEPT !.i = 0, !.mux = 0]))

\* The sweep of the voltage: both ranges with ADC 3
VoltagePass(c) == ArmSettle(c, <<Cfg("select", Point(c))>>)

VoltageAfterCapture(c) ==
    LET d == SetOffset(c, 3, 1) IN
    IF c.i = 0 THEN VoltagePass([d EXCEPT !.i = 1]) ELSE Stamped(d)

VoltageAfterRead(c) ==
    Then(Then(Result(c, <<Cfg("mode", 1), Cfg("adc0/sel", 3)>>, <<>>, Leave), StreamSetup(c, FALSE)),
         VoltagePass([StreamSetup(c, FALSE).s EXCEPT !.i = 0, !.mux = 0]))

------------------------------------------------------------------------------
(* The device's answers                                                     *)

Magic(rec) == rec[1] # <<"blank">>

\* cal_validate: magic and check32, which holds when the pages belong together
Valid(rec) == Magic(rec) /\ \A k \in DOMAIN rec : rec[k] = rec[1]

OnReadDone(c, data) ==
    LET d == [c EXCEPT !.rec = Append(IF c.page = 0 THEN <<>> ELSE @, data), !.page = @ + 1] IN
    IF data = <<>> THEN CalFinish(c, "io")
    ELSE IF d.page < PagesPerRecord THEN ReadPage(d)
    ELSE CASE d.op = "read" -> CalFinish(d, "ok")
           [] d.op = "copy" -> IF Magic(d.rec) THEN BeginErase(d, d.dst) ELSE CalFinish(d, "integrity")
           [] d.op = "current" -> IF Valid(d.rec) THEN CurrentAfterRead(d) ELSE CalFinish(d, "integrity")
           [] d.op = "voltage" -> IF Valid(d.rec) THEN VoltageAfterRead(d) ELSE CalFinish(d, "integrity")

OnWriteDone(c) ==
    LET d == [c EXCEPT !.page = @ + 1] IN
    IF d.page < PagesPerRecord THEN WritePage(d) ELSE BeginVerify(d)

WroteActive(c) == c.op \in {"current", "voltage"} \/ (c.op = "copy" /\ c.dst = "ACTIVE")

OnVerifyDone(c, at, data) ==
    LET d == [c EXCEPT !.page = @ + 1] IN
    IF data = <<>> \/ data # c.rec[at + 1] THEN CalFinish(c, "io")
    ELSE IF d.page < PagesPerRecord THEN ReadPage(d)
    ELSE Then(Result(d, IF WroteActive(d) THEN <<Cfg("reload", 1)>> ELSE <<>>, <<>>, Leave), CalFinish(d, "ok"))

CalTakes(c) == c.st # "IDLE"

\* on_mem_response
CalMem(c, rsp) ==
    IF rsp.id # c.mid THEN Stay(c)
    ELSE IF rsp.status # "ok" THEN CalFinish(c, "io")
    ELSE CASE c.st = "READ" -> OnReadDone(c, rsp.data)
           [] c.st = "ERASE" -> BeginWrite(c)
           [] c.st = "WRITE" -> OnWriteDone(c)
           [] c.st = "VERIFY" -> OnVerifyDone(c, rsp.at[2], rsp.data)
           [] OTHER -> Stay(c)

\* on_adc_data
OnAdcData(c, slot, sample) ==
    LET k == slot + 1
        d == [c EXCEPT !.sum[k] = @ \cup {sample}, !.cnt[k] = @ + 1] IN
    IF c.st # "SWEEP_CAPTURE" \/ c.need[k] = 0 \/ c.cnt[k] >= c.need[k] THEN Stay(c)
    ELSE IF ~CaptureComplete(d) THEN Stay(d)
    ELSE IF c.op = "current" THEN CurrentAfterCapture(d) ELSE VoltageAfterCapture(d)

------------------------------------------------------------------------------
(* Commands, timeouts and close                                             *)

\* slot_copy_policy
SlotCopyPolicy(src, dst) == src # dst /\ (dst = "ACTIVE" \/ (dst \in {"TRIM1", "TRIM2"} /\ src = "ACTIVE"))

CalStart(b, cmd) ==
    LET c == [b EXCEPT !.id = cmd.id, !.op = cmd.op, !.src = cmd.src, !.dst = cmd.dst, !.per = cmd.per, !.mid = 0,
                       !.pending = FALSE, !.active = FALSE, !.offs = {}] IN
    CASE cmd.op = "read" -> BeginRead(c, c.src)
      [] cmd.op = "copy" -> IF SlotCopyPolicy(c.src, c.dst) THEN BeginRead(c, c.src) ELSE CalFinish(c, "invalid")
      [] cmd.op \in {"current", "voltage"} ->
           Result([SnapshotPrior(c) EXCEPT !.st = "DISABLE_SETTLE"], StreamsDisable, <<>>, SettleDelay)
      [] OTHER -> CalFinish(c, "invalid")

CalHandleCmd(c, cmd) ==
    IF c.st # "IDLE" THEN Result(c, <<>>, Answer("cal", cmd.id, "busy"), Leave)
    ELSE IF cmd.op = "malformed" THEN Result(c, <<>>, Answer("cal", 0, "invalid"), Leave)
    ELSE CalStart(c, cmd)

\* The values of the topics, as the application sets them or the device publishes them
CalObserve(c, t, v) == IF t \in Topics THEN [c EXCEPT !.saved[t] = v] ELSE c

CalOnTimeout(c) ==
    CASE c.st = "DISABLE_SETTLE" -> BeginRead(c, "ACTIVE")
      [] c.st = "SWEEP_SETTLE" -> Stay(BeginCapture(c, c.op = "current" /\ c.pass = 0))
      [] OTHER -> Stay(c)

CalOnOpen(c) == [c EXCEPT !.st = "IDLE", !.op = "none", !.pending = FALSE, !.active = FALSE, !.saved = NoPrior, !.prior = NoPrior]

CalOnClose(c) ==
    IF c.st = "IDLE" THEN Stay(c)
    ELSE LET r == StreamTeardown(c) IN
         Result([r.s EXCEPT !.st = "IDLE", !.op = "none", !.pending = FALSE], r.dev, <<>>, 0)
==============================================================================

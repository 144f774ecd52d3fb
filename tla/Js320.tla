-------------------------------- MODULE Js320 -------------------------------
(* The JS320 driver (js320_drv.c) with its parts: the firmware update, the    *)
(* calibration and the JTAG state machine run side by side in the device      *)
(* thread.  They share the stream of the device's answers ("h/!rsp"), which   *)
(* goes to the first part that is busy, and the device's only timer; the      *)
(* driver itself uses the timer for the acknowledge of a new sample rate and  *)
(* for the sensor while the device is opened.                                 *)
(* The application publishes to the host's queue, which also carries what the *)
(* calibration publishes; the device works on its commands one by one.        *)
EXTENDS Js320Fwup, Js320Cal, Js320Jtag, FiniteSets

CONSTANTS
    Profiles,       \* sets of commands; an application uses one of them
    Exclusive,      \* the application has one maintenance operation running at a time
    Prompt,         \* what is under way arrives before a delay is over
    Faults,         \* what may go wrong with a command: "err", "flip", "short", "lost"
    MaxCmds,        \* bound: commands published
    MaxFaults       \* bound: faults

AckDelay == 2       \* JS320_DWNN_ACK_TIMEOUT
SensorDelay == 1    \* JS320_SENSOR_READY_TIMEOUT_NS
Off == -1

VARIABLES
    profile,    \* the commands of this application
    opn,        \* "core" (mb_device opens the controller), "opening", "open" or "closed"
    waiting,    \* waiting_for_sensor
    linked,     \* sensor_link_up
    sync,       \* the sensor instance is being synchronized
    fw,         \* js320_fwup_s
    cal,        \* js320_cal_s
    jtag,       \* js320_jtag_s
    ack,        \* signal_ack: acks_outstanding and dropping
    enabled,    \* ports[5].enabled
    timer,      \* time until drv_timeout_utc, or Off
    due,        \* who waits -> time until its own deadline
    host,       \* what is published to the host, in order
    front,      \* stream topic -> the value that the host retains
    subs,       \* the ADC slots whose data is subscribed to
    cmdq,       \* the commands on their way to the device thread
    dnq,        \* the messages on their way to the device
    upq,        \* the answers on their way to the host
    adcq,       \* the ADC data on its way to the subscribers
    dev,        \* the device
    req,        \* history: part -> the command that it works on
    said,       \* history: the answers of the last step
    want,       \* history: the stream state that the application asked for
    cmds, faults

vars == <<profile, opn, waiting, linked, sync, fw, cal, jtag, ack, enabled, timer, due, host, front, subs, cmdq, dnq, upq,
          adcq, dev, req, said, want, cmds, faults>>

Waiters == {"sensor", "ack", "fpga", "cal", "jtag"}
NoReq == [what |-> "none", op |-> "none", id |-> 0, image |-> 0, depth |-> 0, flags |-> {}, src |-> "ACTIVE", dst |-> "ACTIVE", per |-> 1]
Blank == [k \in 0..3 |-> <<0, k>>]

Init ==
    /\ profile \in Profiles
    /\ opn = "core" /\ waiting = FALSE /\ linked = FALSE /\ sync = FALSE
    /\ fw = NoFwup /\ cal = CalOnOpen(NoCal) /\ jtag = NoJtag
    /\ ack = [out |-> 0, drop |-> FALSE] /\ enabled = FALSE
    /\ timer = Off /\ due = [w \in Waiters |-> 0]
    /\ host = <<>> /\ front = [t \in {"i"} |-> 0] /\ subs = {} /\ cmdq = <<>> /\ dnq = <<>> /\ upq = <<>> /\ adcq = <<>>
    /\ dev = [mode |-> 0, sensor |-> 1, open |-> FALSE, stage |-> Blank, slot0 |-> Blank, flash |-> Blank,
              slots |-> [s \in Slots |-> [k \in 1..PagesPerRecord |-> <<s>>]],
              cfg |-> [t \in Topics |-> 0], key |-> "blank", fea |-> <<>>, up |-> FALSE]
    /\ req = [w \in {"ctrl", "fpga", "cal", "jtag"} |-> NoReq] /\ said = <<>> /\ want = 0 /\ cmds = 0 /\ faults = 0

------------------------------------------------------------------------------
(* What a function leaves behind                                            *)

ForHost(m) == m.to = "host"
ForDevice(m) == m.to # "host"

\* r is the result of part w's function, t the timer before it
Timer(t, r) == IF r.tmr = Leave THEN t ELSE IF r.tmr = 0 THEN Off ELSE r.tmr

Due(d, w, r) == IF r.tmr > 0 THEN [d EXCEPT ![w] = r.tmr] ELSE d

Effects(r, w) ==
    /\ dnq' = dnq \o SelectSeq(r.dev, ForDevice)
    /\ host' = host \o SelectSeq(r.dev, ForHost)
    /\ said' = r.rsp
    /\ timer' = Timer(timer, r)
    /\ due' = Due(due, w, r)

Quiet == said' = <<>> /\ UNCHANGED <<timer, due>>

Busy == fw.ctrl # "IDLE" \/ fw.fpga # "IDLE" \/ cal.st # "IDLE" \/ jtag.st # "IDLE"

InFlight == host # <<>> \/ cmdq # <<>> \/ dnq # <<>> \/ upq # <<>> \/ adcq # <<>>

------------------------------------------------------------------------------
(* Open and close                                                           *)


\* js320_sensor_sync_start; mb_device refuses while a sequence runs.
SyncStart(t) ==
    \/ waiting' = FALSE /\ sync' = TRUE /\ timer' = Off
    \/ waiting' = TRUE /\ timer' = t /\ UNCHANGED sync

\* js320_open_children
OpenChildren ==
    /\ opn = "core" /\ opn' = "opening" /\ due' = [due EXCEPT !["sensor"] = SensorDelay]
    /\ IF linked THEN SyncStart(SensorDelay) ELSE waiting' = TRUE /\ timer' = SensorDelay /\ UNCHANGED sync
    /\ said' = <<>>
    /\ UNCHANGED <<profile, linked, fw, cal, jtag, ack, enabled, host, front, subs, cmdq, dnq, upq, adcq, dev, req, want, cmds, faults>>

\* on_instance_synced: the open is complete.
Synced ==
    /\ sync /\ sync' = FALSE /\ opn' = "open" /\ said' = <<>>
    /\ UNCHANGED <<profile, waiting, linked, fw, cal, jtag, ack, enabled, timer, due, host, front, subs, cmdq, dnq, upq, adcq, dev, req, want, cmds, faults>>

\* js320_on_close; the link drops what is under way.
Close ==
    LET f == FwupOnClose(fw)
        j == JtagOnClose(jtag)
        c == CalOnClose(cal) IN
    /\ opn \notin {"core", "closed"} /\ \E d \in profile : d.what = "close"
    /\ opn' = "closed" /\ waiting' = FALSE /\ linked' = FALSE /\ sync' = FALSE
    /\ fw' = f.s /\ jtag' = j.s /\ cal' = c.s
    /\ ack' = [out |-> 0, drop |-> FALSE]
    /\ timer' = Timer(Timer(Timer(timer, f), j), c)
    /\ host' = host \o SelectSeq(c.dev, ForHost)
    /\ dnq' = <<>> /\ upq' = <<>> /\ said' = <<>>
    /\ UNCHANGED <<profile, enabled, due, front, subs, cmdq, adcq, dev, req, want, cmds, faults>>

------------------------------------------------------------------------------
(* Commands                                                                 *)

Publish ==
    /\ opn = "open" /\ cmds < MaxCmds /\ host = <<>> /\ cmdq = <<>>
    /\ \E c \in {d \in profile : d.what # "close"} :
         /\ Exclusive /\ c.what \notin {"dwn"} => ~Busy /\ dnq = <<>> /\ upq = <<>>
         /\ host' = <<IF c.what = "i" THEN Msg("app", "host", "pub", c.depth, "i", -1)
                      ELSE Msg("app", "host", "cmd", [c EXCEPT !.id = cmds + 1], "", -1)>>
         /\ want' = IF c.what = "i" THEN c.depth ELSE want
    /\ cmds' = cmds + 1 /\ Quiet
    /\ UNCHANGED <<profile, opn, waiting, linked, sync, fw, cal, jtag, ack, enabled, front, subs, cmdq, dnq, upq, adcq, dev, req, faults>>

\* The host's thread: a value that it already retains goes no further.
HostStep ==
    /\ host # <<>>
    /\ LET h == Head(host) IN
       /\ host' = Tail(host)
       /\ front' = IF h.op = "pub" THEN [front EXCEPT ![h.data] = h.at] ELSE front
       /\ subs' = CASE h.op = "sub" -> subs \cup {h.data} [] h.op = "unsub" -> subs \ {h.data} [] OTHER -> subs
       /\ cmdq' = IF opn = "open" /\ (h.op = "cmd" \/ (h.op = "pub" /\ front[h.data] # h.at)) THEN Append(cmdq, h) ELSE cmdq
    /\ Quiet
    /\ UNCHANGED <<profile, opn, waiting, linked, sync, fw, cal, jtag, ack, enabled, dnq, upq, adcq, dev, req, want, cmds, faults>>

\* js320_ack_begin
AckBegin ==
    /\ ack' = [out |-> ack.out + 1, drop |-> TRUE]
    /\ timer' = AckDelay /\ due' = [due EXCEPT !["ack"] = AckDelay]

\* js320_signal_dwn_changed and what follows it for h/fs, s/dwnN/N and s/dwnN/mode
Rate ==
    /\ dnq' = Append(dnq, Msg("drv", "dwn", "set", 0, <<>>, -1))
    /\ IF enabled THEN AckBegin ELSE UNCHANGED <<ack, timer, due>>
    /\ said' = <<>> /\ UNCHANGED <<host, fw, cal, jtag, req, enabled>>

\* js320_handle_cmd: calibration, driver, firmware update, JTAG
HandleCmd ==
    /\ opn = "open" /\ cmdq # <<>> /\ cmdq' = Tail(cmdq)
    /\ LET h == Head(cmdq)
           c == h.at
           r == CASE h.op = "pub" -> Result(CalObserve(cal, h.data, h.at), <<Msg("drv", "cfg", h.data, h.at, <<>>, -1)>>, <<>>, Leave)
                  [] h.op = "cmd" /\ c.what = "cal" -> CalHandleCmd(cal, c)
                  [] h.op = "cmd" /\ c.what \in {"ctrl", "fpga"} -> FwupHandleCmd(fw, c)
                  [] h.op = "cmd" /\ c.what = "jtag" -> JtagHandleCmd(jtag, c)
                  [] OTHER -> Stay(cal)
           started == h.op = "cmd" /\ c.what \in DOMAIN req /\ r.rsp = <<>> IN
       IF h.op = "cmd" /\ c.what = "dwn" THEN Rate
       ELSE /\ Effects(r, IF h.op = "cmd" THEN c.what ELSE "ack")
            /\ cal' = IF h.op = "pub" \/ c.what = "cal" THEN r.s ELSE cal
            /\ fw' = IF h.op = "cmd" /\ c.what \in {"ctrl", "fpga"} THEN r.s ELSE fw
            /\ jtag' = IF h.op = "cmd" /\ c.what = "jtag" THEN r.s ELSE jtag
            /\ enabled' = IF h.op = "pub" THEN h.at # 0 ELSE enabled
            /\ req' = IF started THEN [req EXCEPT ![c.what] = c] ELSE req
            /\ UNCHANGED ack
    /\ UNCHANGED <<profile, opn, waiting, linked, sync, front, subs, upq, adcq, dev, want, cmds, faults>>

------------------------------------------------------------------------------
(* The device's answers and the timer                                       *)

\* js320_ack_received
AckReceived == ack' = IF ack.out > 0 THEN [ack EXCEPT !.out = @ - 1] ELSE ack

\* js320_handle_publish
HandlePublish ==
    /\ upq # <<>> /\ upq' = Tail(upq)
    /\ LET a == Head(upq)
           r == IF FwupTakes(fw) THEN FwupRsp(fw, a) ELSE IF JtagTakes(jtag) THEN JtagRsp(jtag, a)
                ELSE IF CalTakes(cal) THEN CalMem(cal, a) ELSE Stay(cal) IN
       CASE a.who = "sensor" ->
              /\ linked' = TRUE
              /\ IF waiting THEN SyncStart(timer) ELSE UNCHANGED <<waiting, sync, timer>>
              /\ said' = <<>> /\ UNCHANGED <<opn, due, fw, cal, jtag, ack, dnq, host>>
         [] a.who = "drv" -> AckReceived /\ Quiet /\ UNCHANGED <<opn, waiting, linked, sync, fw, cal, jtag, dnq, host>>
         [] OTHER ->
              /\ Effects(r, IF FwupTakes(fw) THEN "fpga" ELSE IF JtagTakes(jtag) THEN "jtag" ELSE "cal")
              /\ fw' = IF FwupTakes(fw) THEN r.s ELSE fw
              /\ jtag' = IF ~FwupTakes(fw) /\ JtagTakes(jtag) THEN r.s ELSE jtag
              /\ cal' = IF ~FwupTakes(fw) /\ ~JtagTakes(jtag) THEN r.s ELSE cal
              /\ UNCHANGED <<opn, waiting, linked, sync, ack>>
    /\ UNCHANGED <<profile, enabled, front, subs, cmdq, adcq, dev, req, want, cmds, faults>>

Tick ==
    /\ timer > 0 /\ (Prompt => ~InFlight)
    /\ timer' = timer - 1 /\ due' = [w \in Waiters |-> IF due[w] > 0 THEN due[w] - 1 ELSE 0]
    /\ said' = <<>>
    /\ UNCHANGED <<profile, opn, waiting, linked, sync, fw, cal, jtag, ack, enabled, host, front, subs, cmdq, dnq, upq, adcq, dev, req, want, cmds, faults>>

\* js320_ack_timeout_check: the timer is set again before the deadline.
AckRearm(t) == IF ack.drop /\ due["ack"] > 0 THEN due["ack"] ELSE t

\* js320_on_timeout
Timeout ==
    LET f == IF fw.fpga # "IDLE" THEN FpgaOnTimeout(fw) ELSE Stay(fw)
        j == JtagOnTimeout(jtag)
        c == CalOnTimeout(cal) IN
    /\ timer = 0 /\ opn # "closed" /\ (Prompt => ~InFlight)
    /\ waiting' = FALSE /\ opn' = IF waiting THEN "open" ELSE opn
    /\ ack' = IF ack.drop /\ due["ack"] = 0 THEN [out |-> 0, drop |-> FALSE] ELSE ack
    /\ fw' = f.s /\ jtag' = j.s /\ cal' = c.s
    /\ timer' = Timer(Timer(Timer(AckRearm(Off), f), j), c)
    /\ due' = Due(Due(Due(due, "fpga", f), "jtag", j), "cal", c)
    /\ dnq' = dnq \o f.dev \o j.dev \o SelectSeq(c.dev, ForDevice)
    /\ host' = host \o SelectSeq(c.dev, ForHost)
    /\ said' = f.rsp \o j.rsp \o c.rsp
    /\ UNCHANGED <<profile, linked, sync, enabled, front, subs, cmdq, upq, adcq, dev, req, want, cmds, faults>>

\* js320_ack_should_drop: the first frame of the new rate
FirstFrame ==
    /\ ack.drop /\ ack.out = 0 /\ enabled /\ ack' = [ack EXCEPT !.drop = FALSE] /\ Quiet
    /\ UNCHANGED <<profile, opn, waiting, linked, sync, fw, cal, jtag, enabled, host, front, subs, cmdq, dnq, upq, adcq, dev, req, want, cmds, faults>>

\* on_adc_data, in the thread of the subscribers
AdcData ==
    /\ adcq # <<>> /\ adcq' = Tail(adcq)
    /\ LET a == Head(adcq)
           r == OnAdcData(cal, a.slot, a.sample) IN
       IF a.slot \in subs /\ opn = "open"
       THEN Effects(r, "cal") /\ cal' = r.s
       ELSE Quiet /\ UNCHANGED <<dnq, host, cal>>
    /\ UNCHANGED <<profile, opn, waiting, linked, sync, fw, jtag, ack, enabled, front, subs, cmdq, upq, dev, req, want, cmds, faults>>

------------------------------------------------------------------------------
(* The device                                                               *)

Put(f, k, v) == [f EXCEPT ![k] = v]

\* What a command does to the device when it goes well, and the data of its answer
Done(d, m) ==
    CASE m.to = "fwup" /\ m.op = "allocate" -> [d EXCEPT !.stage = Blank]
      [] m.to = "fwup" /\ m.op = "write" -> [d EXCEPT !.stage = Put(@, m.at, m.data)]
      [] m.to = "fwup" /\ m.op = "update" -> [d EXCEPT !.slot0 = d.stage]
      [] m.to = "jtag" /\ m.op = "open" -> [d EXCEPT !.open = TRUE]
      [] m.to = "jtag" /\ m.op = "close" -> [d EXCEPT !.open = FALSE]
      [] m.to = "jtag" /\ m.op = "write" -> [d EXCEPT !.flash = Put(@, m.at, m.data)]
      [] m.to = "jtag" /\ m.op = "shift" /\ m.data = "burn key" -> [d EXCEPT !.key = "set"]
      [] m.to = "jtag" /\ m.op = "shift" /\ m.data = "burn eo" -> [d EXCEPT !.fea = <<"eo">>]
      [] m.to = "jtag" /\ m.op = "shift" /\ m.data = "burn kl" -> [d EXCEPT !.fea = IF @ = <<"eo">> THEN <<"eo", "kl">> ELSE <<"kl">>]
      [] m.to = "flash" /\ m.op = "erase" -> [d EXCEPT !.slots[m.at[1]] = [k \in 1..PagesPerRecord |-> <<"blank">>]]
      [] m.to = "flash" /\ m.op = "write" -> [d EXCEPT !.slots[m.at[1]] = Put(@, m.at[2] + 1, m.data)]
      [] m.to = "ctl" /\ m.op = "mode" -> [d EXCEPT !.mode = m.at]
      [] m.to = "ctl" /\ m.op = "sensor" -> [d EXCEPT !.sensor = m.at]
      [] m.to = "cfg" /\ m.op \in Topics -> [d EXCEPT !.cfg[m.op] = m.at]
      [] OTHER -> d

DataOf(d, m) ==
    CASE m.to = "fwup" /\ m.op = "read" -> d.stage[m.at]
      [] m.to = "jtag" /\ m.op = "read" -> d.flash[m.at]
      [] m.to = "jtag" /\ m.op = "shift" /\ m.data = "id" -> <<"ecp5">>
      [] m.to = "jtag" /\ m.op = "shift" /\ m.data = "status" -> IF d.fea = <<>> THEN <<"ready">> ELSE <<"otp">>
      [] m.to = "jtag" /\ m.op = "shift" /\ m.data = "key" -> <<d.key>>
      [] m.to = "jtag" /\ m.op = "shift" /\ m.data = "fea" -> d.fea
      [] m.to = "flash" /\ m.op = "read" -> d.slots[m.at[1]][m.at[2] + 1]
      [] OTHER -> <<>>

Answered(m) == m.to \in {"fwup", "jtag", "flash", "dwn"}

Reply(m, status, data) == Append(upq, [who |-> m.who, id |-> m.id, at |-> m.at, status |-> status, data |-> data])

\* The command with a fault: an error, a write or a burn that does not take, an
\* answer without data, an answer that is lost
Device(fault) ==
    /\ dnq # <<>> /\ dnq' = Tail(dnq)
    /\ faults' = IF fault = "none" THEN faults ELSE faults + 1
    /\ faults' <= MaxFaults
    /\ LET m == Head(dnq)
           ok == IF m.to = "jtag" /\ m.who = "fpga" /\ dev.mode # 2 THEN "err" ELSE "ok" IN
       CASE fault = "none" ->
              /\ dev' = IF ok = "ok" THEN Done(dev, m) ELSE dev
              /\ upq' = IF Answered(m) THEN Reply(m, ok, DataOf(dev, m)) ELSE upq
         [] fault = "err" -> Answered(m) /\ m.to # "dwn" /\ m.op # "shift" /\ upq' = Reply(m, "err", <<>>) /\ UNCHANGED dev
         [] fault = "flip" ->
              /\ m.op = "write" \/ (m.op = "shift" /\ m.data \in {"burn key", "burn eo", "burn kl"})
              /\ upq' = Reply(m, "ok", <<>>) /\ UNCHANGED dev
         [] fault = "short" -> m.op = "read" /\ upq' = Reply(m, "ok", <<>>) /\ UNCHANGED dev
         [] fault = "lost" -> Answered(m) /\ dev' = Done(dev, m) /\ UNCHANGED upq
    /\ Quiet
    /\ UNCHANGED <<profile, opn, waiting, linked, sync, fw, cal, jtag, ack, enabled, host, front, subs, cmdq, adcq, req, want, cmds>>

\* The sensor's link comes up.
SensorUp ==
    /\ opn \in {"core", "opening"} /\ ~dev.up /\ dev' = [dev EXCEPT !.up = TRUE]
    /\ upq' = Append(upq, [who |-> "sensor", id |-> -1, at |-> 1, status |-> "ok", data |-> <<>>])
    /\ Quiet
    /\ UNCHANGED <<profile, opn, waiting, linked, sync, fw, cal, jtag, ack, enabled, host, front, subs, cmdq, dnq, adcq, req, want, cmds, faults>>

\* A frame of an ADC stream: the samples have the selection of now.
AdcFrame(slot) ==
    /\ adcq = <<>> /\ dev.cfg[IF slot = 0 THEN "adc0/ctrl" ELSE "adc1/ctrl"] = 1
    /\ cal.st \in {"SWEEP_SETTLE", "SWEEP_CAPTURE"}
    /\ cal.st = "SWEEP_SETTLE" => ~Prompt \/ InFlight
    /\ adcq' = <<[slot |-> slot, sample |-> [adc |-> dev.cfg[IF slot = 0 THEN "adc0/sel" ELSE "adc1/sel"], at |-> dev.cfg["select"]]]>>
    /\ Quiet
    /\ UNCHANGED <<profile, opn, waiting, linked, sync, fw, cal, jtag, ack, enabled, host, front, subs, cmdq, dnq, upq, dev, req, want, cmds, faults>>

Next ==
    \/ Publish \/ HostStep \/ HandleCmd \/ HandlePublish \/ Tick \/ Timeout \/ AdcData
    \/ OpenChildren \/ Synced \/ FirstFrame \/ Close \/ SensorUp \/ AdcFrame(0) \/ AdcFrame(1)
    \/ Device("none") \/ \E x \in Faults : Device(x)

Spec == Init /\ [][Next]_vars

\* The threads run, the device answers, time passes; of two ADC streams neither starves
\* the other, as each has its own frames.
Fairness ==
    /\ WF_vars(HostStep) /\ WF_vars(HandleCmd) /\ WF_vars(HandlePublish) /\ WF_vars(Tick) /\ WF_vars(Timeout)
    /\ WF_vars(AdcData) /\ WF_vars(OpenChildren) /\ WF_vars(Synced) /\ WF_vars(Device("none"))
    /\ SF_vars(AdcFrame(0)) /\ SF_vars(AdcFrame(1))

FairSpec == Spec /\ Fairness

------------------------------------------------------------------------------
Holds(f, image) == \A k \in 0..(Pages[image] - 1) : f[k] = <<image, k>>

\* Each offset is from samples that were taken at its point with its ADC.
OffsetsRight(c) == \A o \in c.offs : o.from = {[adc |-> o.adc, at |-> o.at]}

\* An operation that is answered with success has happened: the controller's slot or
\* the FPGA's flash holds the image and the FPGA is back in its mode, the slot holds
\* the copied or the measured record, every offset of which is from samples of its own
\* point, and the key and the features are burnt.
SuccessStep ==
    \A n \in DOMAIN said' :
        LET a == said'[n]
            q == req[a.who] IN
        a.status = "ok" =>
            /\ a.who = "ctrl" /\ q.op = "update" => Holds(dev.slot0, q.image)
            /\ a.who = "fpga" => Holds(dev.flash, q.image) /\ dev.mode = 0 /\ ~dev.open
            /\ a.who = "cal" /\ q.op = "copy" => dev.slots[q.dst] = dev.slots[q.src]
            /\ a.who = "cal" /\ q.op \in {"current", "voltage"} =>
                  dev.slots["ACTIVE"] = [k \in 1..PagesPerRecord |-> <<"new">>] /\ OffsetsRight(cal)
            /\ a.who = "jtag" => \A x \in q.flags : \E k \in DOMAIN dev.fea : dev.fea[k] = x
SuccessIsReal == [][SuccessStep]_vars

\* What cannot be undone is asked of the device only when it is right: the staged image
\* is committed only when it is the image, the key is burnt only when there is none,
\* and only the active slot and the trim slots are erased.
IrreversibleSafe ==
    dnq # <<>> =>
        LET m == Head(dnq) IN
        /\ m.to = "fwup" /\ m.op = "update" => Holds(dev.stage, req["ctrl"].image)
        /\ m.op = "shift" /\ m.data = "burn key" => dev.key = "blank"
        /\ m.to = "flash" /\ m.op = "erase" => m.at[1] \in {"ACTIVE", "TRIM1", "TRIM2"}

Idle(w) == CASE w = "ctrl" -> fw.ctrl = "IDLE" [] w = "fpga" -> fw.fpga = "IDLE" [] w = "cal" -> cal.st = "IDLE" [] w = "jtag" -> jtag.st = "IDLE"

\* No answer is under way to a part that is idle.  The parts do not look at the
\* transaction that an answer is to, so one that is left over would count for the next
\* operation.
NoStrayAnswer ==
    \A w \in DOMAIN req : Idle(w) =>
        /\ \A k \in DOMAIN upq : upq[k].who # w
        /\ \A k \in DOMAIN dnq : dnq[k].who = w => ~Answered(dnq[k])

\* Who can go on only when the timer runs out
Waits(w) ==
    CASE w = "sensor" -> waiting
      [] w = "ack" -> ack.drop
      [] w = "fpga" -> fw.fpga \in {"MODE_SWITCH", "MODE_RESTORE"}
      [] w = "cal" -> cal.st \in {"DISABLE_SETTLE", "SWEEP_SETTLE"}
      [] w = "jtag" -> jtag.st \in {"KEY_BURN_WAIT", "EO_BURN_WAIT", "KL_BURN_WAIT"}

\* Whoever waits for the timer finds it set, although the parts share it.
WaitsTimed == opn # "closed" => \A w \in Waiters : Waits(w) => timer # Off

\* Nobody's delay is cut short: a wait goes on until its own time is over, whoever the
\* timer was set by.
WaitStep == opn' # "closed" => \A w \in {"fpga", "cal", "jtag"} : Waits(w) /\ due[w] > 0 => Waits(w)'
WaitsHonored == [][WaitStep]_vars

\* When everything is done the streams are as the application asked for them, although
\* the calibration switches them off while it measures.
StreamsRestored == (opn = "open" /\ ~Busy /\ ~InFlight) => front["i"] = want /\ dev.cfg["i"] = want

\* Every operation that is started ends, and opening the device ends.
OperationsEnd == \A w \in {"ctrl", "fpga", "cal", "jtag"} : []<>(Idle(w))
OpenCompletes == <>(opn \in {"open", "closed"})
==============================================================================

------------------------------ MODULE Js320Fwup -----------------------------
(* js320_fwup.c: the controller's firmware update and the programming of the  *)
(* FPGA's flash, which share the image, the pipeline and the error of one     *)
(* js320_fwup_s.  A page of an image is <<image, number>>.                    *)
EXTENDS Js320Part

CONSTANTS
    Pages,      \* image -> its pages
    Blocks      \* image -> the 64 KB blocks that it takes

PIPELINE_DEFAULT == 4
PIPELINE_MAX == 16

NoFwup ==
    [ctrl |-> "IDLE", ctrlId |-> 0, fpga |-> "IDLE", fpgaId |-> 0, image |-> 0, pages |-> 0, depth |-> 0,
     send |-> 0, recv |-> 0, errs |-> FALSE, code |-> FALSE, blocks |-> 0, block |-> 0]

FwCmd(op, at, data) == Msg("ctrl", "fwup", op, at, data, -1)

JtagMemCmd(op, at, data) == Msg("fpga", "jtag", op, at, data, -1)

CtrlRsp(f, status) == Answer("ctrl", f.ctrlId, status)
FpgaRsp(f, status) == Answer("fpga", f.fpgaId, status)

\* fwup_cleanup
Cleanup(f) == [f EXCEPT !.image = 0, !.pages = 0, !.send = 0, !.recv = 0, !.errs = FALSE, !.code = FALSE]

PipelineDepth(depth) == IF depth = 0 THEN PIPELINE_DEFAULT ELSE IF depth > PIPELINE_MAX THEN PIPELINE_MAX ELSE depth

PageData(f, k) == <<f.image, k>>

\* The pages that the pipeline has room for; send_idx - recv_idx is unsigned.
Window(f) ==
    LET room == IF f.recv > f.send THEN 0 ELSE f.depth - (f.send - f.recv)
        rest == IF f.pages > f.send THEN f.pages - f.send ELSE 0 IN
    IF room < rest THEN room ELSE rest

\* The pages that follow, as many as there is room for
SendPages(f, Cmd(_, _, _), op) ==
    LET n == Window(f) IN
    Result([f EXCEPT !.send = @ + n],
           [k \in 1..n |-> Cmd(op, f.send + k - 1, IF op = "write" THEN PageData(f, f.send + k - 1) ELSE <<>>)], <<>>, Leave)

Pipeline(f) == [f EXCEPT !.send = 0, !.recv = 0, !.errs = FALSE]

Failed(f, rsp) ==
    IF rsp.status # "ok" THEN [f EXCEPT !.errs = TRUE, !.code = TRUE] ELSE f


\* The page that was read is compared, unless there was an error before; data
\* that is shorter than a page passes.
Compared(f, rsp) ==
    IF rsp.status = "ok" /\ ~f.code /\ rsp.data # <<>> /\ rsp.data # PageData(f, rsp.at)
    THEN [f EXCEPT !.errs = TRUE, !.code = TRUE] ELSE f

\* After an error the answers to what was sent are awaited.
Drained(f) == f.recv >= f.send

Status(f) == IF f.code THEN "io" ELSE "ok"

------------------------------------------------------------------------------
(* The controller                                                           *)

\* ctrl_send_writes, ctrl_send_reads
CtrlPages(f, op) == SendPages(f, FwCmd, op)

\* ctrl_enter_write, ctrl_enter_verify
CtrlEnter(f, st, op) == CtrlPages([Pipeline(f) EXCEPT !.ctrl = st], op)

CtrlFinish(f) == Result([Cleanup(f) EXCEPT !.ctrl = "IDLE"], <<>>, CtrlRsp(f, Status(f)), Leave)

CtrlOnCmd(f, cmd) ==
    LET g == [f EXCEPT !.ctrlId = cmd.id]
        h == [g EXCEPT !.depth = PipelineDepth(cmd.depth), !.code = FALSE] IN
    IF f.ctrl # "IDLE" THEN Result(g, <<>>, CtrlRsp(g, "busy"), Leave)
    ELSE IF cmd.op = "malformed" THEN Result(f, <<>>, CtrlRsp(f, "invalid"), Leave)
    ELSE CASE cmd.op = "update" /\ cmd.image # 0 ->
                Result([h EXCEPT !.ctrl = "ALLOCATE", !.image = cmd.image, !.pages = Pages[cmd.image]],
                       <<FwCmd("allocate", 0, <<>>)>>, <<>>, Leave)
           [] cmd.op = "launch" -> Result([h EXCEPT !.ctrl = "LAUNCH"], <<FwCmd("launch", 0, <<>>)>>, <<>>, Leave)
           [] cmd.op = "erase" -> Result([h EXCEPT !.ctrl = "ERASE"], <<FwCmd("erase", 0, <<>>)>>, <<>>, Leave)
           [] OTHER -> Result(h, <<>>, CtrlRsp(h, "invalid"), Leave)

CtrlOnDevRsp(f, rsp) ==
    LET g == Failed(f, rsp)
        h == [g EXCEPT !.recv = @ + 1]
        v == IF f.ctrl = "VERIFY" THEN Compared(h, rsp) ELSE h
        drained == IF Drained(v) THEN CtrlFinish(v) ELSE Stay(v) IN
    CASE f.ctrl = "ALLOCATE" ->
           IF g.errs THEN CtrlFinish(g) ELSE CtrlEnter(g, "WRITE", "write")
      [] f.ctrl = "WRITE" ->
           IF h.errs THEN drained
           ELSE IF h.recv >= h.pages THEN CtrlEnter(h, "VERIFY", "read")
           ELSE CtrlPages(h, "write")
      [] f.ctrl = "VERIFY" ->
           IF v.errs THEN drained
           ELSE IF v.recv >= v.pages THEN Result([v EXCEPT !.ctrl = "UPDATE"], <<FwCmd("update", 0, <<>>)>>, <<>>, Leave)
           ELSE CtrlPages(v, "read")
      [] OTHER -> CtrlFinish(g)

------------------------------------------------------------------------------
(* The FPGA                                                                 *)

ModeDelay == 1

\* fpga_send_writes, fpga_send_reads
FpgaPages(f, op) == SendPages(f, JtagMemCmd, op)

\* fpga_enter_write, fpga_enter_verify
FpgaEnter(f, st, op) == FpgaPages([Pipeline(f) EXCEPT !.fpga = st], op)

FpgaFinish(f, dev) == Result([Cleanup(f) EXCEPT !.fpga = "IDLE"], dev, FpgaRsp(f, Status(f)), Leave)

FpgaClose(f) == Result([f EXCEPT !.fpga = "CLOSE"], <<JtagMemCmd("close", 0, <<>>)>>, <<>>, Leave)

SensorReq(on) == Msg("fpga", "ctl", "sensor", on, <<>>, -1)
Mode(m) == Msg("fpga", "ctl", "mode", m, <<>>, -1)

FpgaOnCmd(f, cmd) ==
    LET g == [f EXCEPT !.fpgaId = cmd.id]
        h == [g EXCEPT !.depth = PipelineDepth(cmd.depth), !.code = FALSE] IN
    IF f.fpga # "IDLE" THEN Result(g, <<>>, FpgaRsp(g, "busy"), Leave)
    ELSE IF cmd.op = "malformed" THEN Result(f, <<>>, FpgaRsp(f, "invalid"), Leave)
    ELSE IF cmd.op = "program" /\ cmd.image # 0
    THEN Result([h EXCEPT !.fpga = "MODE_SWITCH", !.image = cmd.image, !.pages = Pages[cmd.image]],
                <<SensorReq(0), Mode(2)>>, <<>>, ModeDelay)
    ELSE Result(h, <<>>, FpgaRsp(h, "invalid"), Leave)

\* fpga_enter_error_cleanup, in the states where it is called
FpgaError(f) == FpgaClose(f)

FpgaErase(f, k) == Result([f EXCEPT !.block = k], <<JtagMemCmd("erase", k, <<>>)>>, <<>>, Leave)

FpgaOnDevRsp(f, rsp) ==
    LET g == Failed(f, rsp)
        h == [g EXCEPT !.recv = @ + 1]
        v == IF f.fpga = "VERIFY" THEN Compared(h, rsp) ELSE h
        drained == IF Drained(v) THEN FpgaError(v) ELSE Stay(v) IN
    CASE f.fpga = "OPEN" ->
           IF g.errs THEN FpgaError(g)
           ELSE FpgaErase([Pipeline(g) EXCEPT !.fpga = "ERASE", !.blocks = IF g.image = 0 THEN 0 ELSE Blocks[g.image]], 0)
      [] f.fpga = "ERASE" ->
           IF g.errs THEN FpgaError(g)
           ELSE IF g.block + 1 >= g.blocks
           THEN FpgaEnter([g EXCEPT !.block = @ + 1], "WRITE", "write")
           ELSE FpgaErase(g, g.block + 1)
      [] f.fpga = "WRITE" ->
           IF h.errs THEN drained
           ELSE IF h.recv >= h.pages THEN FpgaEnter(h, "VERIFY", "read")
           ELSE FpgaPages(h, "write")
      [] f.fpga = "VERIFY" ->
           IF v.errs THEN drained ELSE IF v.recv >= v.pages THEN FpgaClose(v) ELSE FpgaPages(v, "read")
      [] f.fpga = "CLOSE" -> Result([g EXCEPT !.fpga = "MODE_RESTORE"], <<Mode(0)>>, <<>>, ModeDelay)
      [] OTHER -> Stay(g)

FpgaOnTimeout(f) ==
    CASE f.fpga = "MODE_SWITCH" -> Result([f EXCEPT !.fpga = "OPEN"], <<JtagMemCmd("open", 0, <<>>)>>, <<>>, Leave)
      [] f.fpga = "MODE_RESTORE" -> FpgaFinish(f, <<SensorReq(1)>>)
      [] OTHER -> Stay(f)

------------------------------------------------------------------------------
(* js320_fwup_handle_cmd, _handle_publish and _on_close                     *)

FwupHandleCmd(f, cmd) == IF cmd.what = "ctrl" THEN CtrlOnCmd(f, cmd) ELSE FpgaOnCmd(f, cmd)

FwupTakes(f) == f.ctrl # "IDLE" \/ f.fpga # "IDLE"

FwupRsp(f, rsp) == IF f.ctrl # "IDLE" THEN CtrlOnDevRsp(f, rsp) ELSE FpgaOnDevRsp(f, rsp)

FwupOnClose(f) ==
    Result([Cleanup(f) EXCEPT !.ctrl = "IDLE", !.fpga = "IDLE"], <<>>, <<>>, IF f.fpga # "IDLE" THEN 0 ELSE Leave)
==============================================================================

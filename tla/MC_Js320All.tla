----------------------------- MODULE MC_Js320All -----------------------------
(* The JS320's driver and the firmware manager for TLC: a behaviour is one of *)
(* the two, which `which` names; the variables of the other are 0 throughout. *)
EXTENDS Js320

\* One image of three pages, records of two pages, two ranges
MCPages == [image \in 1..1 |-> 3]
MCBlocks == [image \in 1..1 |-> 2]

Cmd(what, op) == [NoReq EXCEPT !.what = what, !.op = op]
Stream(on) == [Cmd("i", "pub") EXCEPT !.depth = on]
Shut == Cmd("close", "close")
Dwn == Cmd("dwn", "set")
Ctrl == [Cmd("ctrl", "update") EXCEPT !.image = 1, !.depth = 2]
Fpga == [Cmd("fpga", "program") EXCEPT !.image = 1, !.depth = 2]
Copy(src, dst) == [Cmd("cal", "copy") EXCEPT !.src = src, !.dst = dst]
Aes(flags) == [Cmd("jtag", "burn") EXCEPT !.flags = flags]

\* Firmware and streams; the calibration; the key
Apart ==
    {{Stream(1), Dwn, Ctrl, Cmd("ctrl", "launch"), Cmd("ctrl", "erase"), Shut},
     {Stream(1), Dwn, Fpga, Cmd("fpga", "malformed")},
     {Stream(1), Stream(0), Cmd("cal", "current")},
     {Stream(1), Cmd("cal", "voltage"), Shut},
     {Copy("ACTIVE", "TRIM1"), Copy("FACTORY", "ACTIVE"), Copy("ACTIVE", "FACTORY"), Cmd("cal", "read"), Cmd("cal", "malformed")},
     {Aes({}), Aes({"eo"}), Aes({"kl"}), Aes({"eo", "kl"}), Cmd("jtag", "malformed")}}

\* A full update, partial ones, a ZIP without the FPGA's image, one without resources of
\* the sensor, and a malformed command
A(parts, zip) == [parts |-> parts, zip |-> zip]
Whole == {"ctrl", "fpga", "c", "s"}
MgrAdds ==
    {A({"ctrl", "fpga", "res"}, Whole), A({"res"}, Whole), A({"ctrl"}, {"ctrl"}), A({"fpga"}, {"ctrl"}),
     A({"fpga", "res"}, {"fpga", "c"}), A({}, {})}

VARIABLES
    which,      \* the part whose behaviour this is
    ws_m, nextId_m, list_m, front_m, q_m, subs_m, dq_m, dev_m, fin_m, shown_m, bad_m, adds_m, faults_m

Mgr == INSTANCE FwupManager WITH
    N <- 1, Adds <- MgrAdds, MemOps <- 3, Faults <- {"err", "lost", "silent", "stuck"},
    ExitWhile <- {"removing", "adding", "ctrl!", "fpga!", "end!"}, Settled <- TRUE, Shared <- FALSE,
    Foreign <- FALSE, MaxAdds <- 3, MaxFaults <- 1, ws <- ws_m, nextId <- nextId_m, list <- list_m,
    front <- front_m, q <- q_m, subs <- subs_m, dq <- dq_m, dev <- dev_m, fin <- fin_m,
    shown <- shown_m, bad <- bad_m, adds <- adds_m, faults <- faults_m
MgrVars == <<
    ws_m, nextId_m, list_m, front_m, q_m, subs_m, dq_m, dev_m, fin_m, shown_m, bad_m, adds_m, faults_m>>
MgrIdle ==
    ws_m = 0 /\ nextId_m = 0 /\ list_m = 0 /\ front_m = 0 /\ q_m = 0 /\ subs_m = 0 /\ dq_m = 0 /\
    dev_m = 0 /\ fin_m = 0 /\ shown_m = 0 /\ bad_m = 0 /\ adds_m = 0 /\ faults_m = 0

J320Idle ==
    profile = 0 /\ opn = 0 /\ waiting = 0 /\ linked = 0 /\ sync = 0 /\ fw = 0 /\ cal = 0 /\ jtag = 0 /\
    ack = 0 /\ enabled = 0 /\ timer = 0 /\ due = 0 /\ host = 0 /\ front = 0 /\ subs = 0 /\ cmdq = 0 /\
    dnq = 0 /\ upq = 0 /\ adcq = 0 /\ dev = 0 /\ req = 0 /\ said = 0 /\ want = 0 /\ cmds = 0 /\
    faults = 0

AllVars == <<which, vars, MgrVars>>

AllInit ==
    \/ which = "js320" /\ Init /\ MgrIdle
    \/ which = "fwup" /\ Mgr!Init /\ J320Idle

AllNext ==
    \/ which = "js320" /\ Next /\ UNCHANGED <<which, MgrVars>>
    \/ which = "fwup" /\ Mgr!Next /\ UNCHANGED <<which, vars>>

AllSpec ==
    /\ AllInit /\ [][AllNext]_AllVars
    /\ WF_vars(which = "js320" /\ HostStep)
    /\ WF_vars(which = "js320" /\ HandleCmd)
    /\ WF_vars(which = "js320" /\ HandlePublish)
    /\ WF_vars(which = "js320" /\ Tick)
    /\ WF_vars(which = "js320" /\ Timeout)
    /\ WF_vars(which = "js320" /\ AdcData)
    /\ WF_vars(which = "js320" /\ OpenChildren)
    /\ WF_vars(which = "js320" /\ Synced)
    /\ WF_vars(which = "js320" /\ Device("none"))
    /\ SF_vars(which = "js320" /\ AdcFrame(0))
    /\ SF_vars(which = "js320" /\ AdcFrame(1))
    /\ WF_MgrVars(which = "fwup" /\ Mgr!Frontend)
    /\ WF_MgrVars(which = "fwup" /\ Mgr!Device("none"))
    /\ WF_MgrVars(which = "fwup" /\ Mgr!Reboot("none"))
    /\ WF_MgrVars(which = "fwup" /\ Mgr!Attach)
    /\ WF_MgrVars(which = "fwup" /\ Mgr!LinkUp)
    /\ WF_MgrVars(which = "fwup" /\ Mgr!FinalizeStep)
    /\ WF_MgrVars(which = "fwup" /\ Mgr!Worker(1))

------------------------------------------------------------------------------

\* What cannot be undone is asked of the device only when it is right: the staged image is
\* committed only when it is the image, the key is burnt only when there is none, and only
\* the active slot and the trim slots are erased (js320_fwup.c, js320_jtag.c, js320_cal.c).
IrreversibleOnlySafe == which = "js320" => IrreversibleSafe


\* Nobody's wait is forgotten or cut short.  Driver: who waits for the timer that the parts
\* share finds it set, and waits its own time.  Manager: the removal of the device is not
\* missed, although the device may be back before the worker waits for it.
WaitsKept ==
    [][CASE which = "js320" -> WaitStep /\ WaitsTimed'
         [] which = "fwup" -> Mgr!RemovalStep]_AllVars

\* What has been started and has not ended
Running(k) ==
    CASE which = "js320" -> \/ ~Idle(k)
                            \/ k = "ctrl" /\ opn \notin {"open", "closed"}
      [] which = "fwup" -> \/ k = "ctrl" /\ ws_m[1].pc \notin {"none", "gone"}
                           \/ k = "fpga" /\ fin_m \in 1..2

==============================================================================

----------------------------- MODULE MC_Devices ------------------------------
(* The threads of the JS220 and the JS110 for TLC: a behaviour is one of the  *)
(* two, which `which` names; the variables of the other are 0 throughout.     *)
EXTENDS Js220, TLC

Open(O) == [cmd : {"open"}, opt : O]
CtrlCommands(P) == [cmd : {"ctrl"}, port : P, on : BOOLEAN]
FsCommands(F) == [cmd : {"fs"}, fs : F]
MemCommands == {[cmd |-> "mem", op |-> "erase", len |-> 0], [cmd |-> "mem", op |-> "write", len |-> 3],
                [cmd |-> "mem", op |-> "read", len |-> 2]}
Plain(S) == [cmd : S]

Streams == Open({"resume"}) \cup CtrlCommands(Ports) \cup FsCommands({100}) \cup [cmd : {"filter"}, filter : {"sinc1"}]
Memory == Open({"defaults"}) \cup Plain({"close"}) \cup MemCommands
Sessions == Open({"defaults", "resume", "raw"}) \cup CtrlCommands({"i"}) \cup FsCommands({1000000})
            \cup Plain({"close", "finalize", "gpi", "reset", "local"})

AllProfiles == {Streams, Memory, Sessions}

C(k, v) == [kind |-> k, value |-> v]
Cmds110 == {C("open", 0), C("open", 1), C("close", 0), C("range", 1), C("ext", 1), C("ctrl", 1), C("ctrl", 0), C("gpi", 0),
            C("sstats", 0), C("local", 1)}
Fails110 == {"open", "cal_hdr", "cal", "set_in", "ext_in", "poll", "stream", "gpi_in", "status"}

VARIABLES
    which,      \* the part whose behaviour this is
    ul_110, job_110, cmdq_110, llq_110, rspq_110, ll_110, front_110, sent_110, cmds_110, faults_110,
    busy_110

J110 == INSTANCE Js110 WITH
    Cmds <- Cmds110, Slow <- {"set_out", "poll", "gpi_in", "ext_out"}, Fails <- Fails110,
    Stuck <- FALSE, Removal <- TRUE, Track <- FALSE, MaxCmds <- 3, MaxFaults <- 1, MaxBusy <- 1,
    ul <- ul_110, job <- job_110, cmdq <- cmdq_110, llq <- llq_110, rspq <- rspq_110, ll <- ll_110,
    front <- front_110, sent <- sent_110, cmds <- cmds_110, faults <- faults_110, busy <- busy_110
J110Vars == <<
    ul_110, job_110, cmdq_110, llq_110, rspq_110, ll_110, front_110, sent_110, cmds_110, faults_110,
    busy_110>>
J110Idle ==
    ul_110 = 0 /\ job_110 = 0 /\ cmdq_110 = 0 /\ llq_110 = 0 /\ rspq_110 = 0 /\ ll_110 = 0 /\
    front_110 = 0 /\ sent_110 = 0 /\ cmds_110 = 0 /\ faults_110 = 0 /\ busy_110 = 0

J220Idle ==
    d = 0 /\ pc = 0 /\ ulq = 0 /\ out = 0 /\ rsp = 0 /\ ins = 0 /\ done = 0 /\ ans = 0 /\
    profile = 0 /\ cmds = 0 /\ faults = 0

AllVars == <<which, vars, J110Vars>>

AllInit ==
    \/ which = "js220" /\ Init /\ J110Idle
    \/ which = "js110" /\ J110!Init /\ J220Idle

AllNext ==
    \/ which = "js220" /\ Next /\ UNCHANGED <<which, J110Vars>>
    \/ which = "js110" /\ J110!Next /\ UNCHANGED <<which, vars>>

AllSpec ==
    /\ AllInit /\ [][AllNext]_AllVars
    /\ WF_vars(which = "js220" /\ HandleCmd)
    /\ WF_vars(which = "js220" /\ HandleRsp)
    /\ WF_vars(which = "js220" /\ Timeout)
    /\ WF_vars(which = "js220" /\ Lower)
    /\ WF_vars(which = "js220" /\ ThreadDone)
    /\ WF_J110Vars(which = "js110" /\ J110!Thread)
    /\ WF_J110Vars(which = "js110" /\ J110!Ll("none"))

------------------------------------------------------------------------------
\* What the instrument has set follows what the application set.  JS220: once everything
\* sent has been handled, every signal that is on arrives, and the power comes from the
\* instrument or from the host, never from both (stream_in_port_enable, stream_resume).
\* JS110: with no request under way the instrument has the current parameters
\* (stream_settings_send).
SettingsFollow ==
    CASE which = "js220" -> EnabledFlows /\ PowerOnce
      [] which = "js110" -> J110!SettingsFollow


\* What a thread owes: an answer to open or close; the end of a memory command or of a
\* poll for statistics; its own end.
Owes(k) ==
    CASE which = "js220" /\ k = 1 -> Waiting
      [] which = "js220" /\ k = 2 -> d.mem.op # "none" /\ pc.at # "gone"
      [] which = "js110" /\ k = 1 -> J110!JobPending
      [] which = "js110" /\ k = 2 -> J110!PollPending
      [] OTHER -> FALSE

==============================================================================

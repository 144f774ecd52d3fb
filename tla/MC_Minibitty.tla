---------------------------- MODULE MC_Minibitty -----------------------------
(* A MiniBitty device for TLC: the link of an open device, and opening,       *)
(* restoring and closing under fairness.  A behaviour is of one of the two,   *)
(* which `which` names; the variables of the other are 0 throughout.          *)
EXTENDS MbLink

CmdsBasic == {<<"set", TRUE>>, <<"event", FALSE>>, <<"ping", TRUE>>, <<"keep", TRUE>>}

VARIABLES
    which,      \* the part whose behaviour this is
    u_m, cmds_m, rsps_m, dev_m, exited_m, loss_m, resets_m, power_m

Mb == INSTANCE MbDevice WITH
    RetryMax <- 1, PingRetries <- 2, Blobs <- 1, Modes <- {"defaults", "raw"}, MaxOpens <- 1,
    MaxQueue <- 2, MaxTxn <- 2, MaxLoss <- 1, MaxResets <- 1, MaxPower <- 0, MaxEvents <- 2, CloseMidRestore <- FALSE,
    Reopens <- FALSE, ShortReplies <- FALSE, u <- u_m, cmds <- cmds_m, rsps <- rsps_m, dev <- dev_m,
    exited <- exited_m, loss <- loss_m, resets <- resets_m, power <- power_m
MbVars == <<u_m, cmds_m, rsps_m, dev_m, exited_m, loss_m, resets_m, power_m>>
MbIdle ==
    u_m = 0 /\ cmds_m = 0 /\ rsps_m = 0 /\ dev_m = 0 /\ exited_m = 0 /\ loss_m = 0 /\ resets_m = 0 /\
    power_m = 0

LinkIdle ==
    st = 0 /\ gathering = 0 /\ ids = 0 /\ maps = 0 /\ cmdq = 0 /\ outq = 0 /\ inq = 0 /\ dev = 0 /\
    wait = 0 /\ ans = 0 /\ gap = 0 /\ cmds = 0 /\ sends = 0 /\ session = 0 /\ resets = 0

AllVars == <<which, vars, MbVars>>

AllInit ==
    \/ which = "link" /\ Init /\ MbIdle
    \/ which = "session" /\ Mb!Init /\ LinkIdle

AllNext ==
    \/ which = "link" /\ Next /\ UNCHANGED <<which, MbVars>>
    \/ which = "session" /\ Mb!Next /\ UNCHANGED <<which, vars>>

AllSpec ==
    /\ AllInit /\ [][AllNext]_AllVars
    /\ WF_vars(which = "link" /\ HandleCmd)
    /\ WF_vars(which = "link" /\ HandleStreamIn)
    /\ WF_vars(which = "link" /\ DeviceReceives)
    /\ WF_vars(which = "link" /\ DeviceHandles)
    /\ WF_vars(which = "link" /\ Replay)
    /\ WF_MbVars(which = "session" /\ Mb!Receive)
    /\ WF_MbVars(which = "session" /\ Mb!Exit)
    /\ WF_MbVars(which = "session" /\ Mb!Advance)
    /\ WF_MbVars(which = "session" /\ Mb!Marker)
    /\ WF_MbVars(which = "session" /\ Mb!Answer)
    /\ SF_MbVars(which = "session" /\ Mb!Timeout)
    /\ SF_MbVars(which = "session" /\ Mb!Silence)
    /\ SF_MbVars(which = "session" /\ Mb!Revalidate)

------------------------------------------------------------------------------
\* The device misses no frame, also when the connection is made again; every reply to a
\* request for the time is for a request of that instance which is not answered; a time map
\* that the driver keeps is one of this session (on_link_request, on_timesync).
LinkKept == which = "link" => LinkExact

\* A return code from the device ends the command that it is about (send_return_code).
AnswersFit == [][which = "link" => AnswerStep]_vars

\* What somebody waits for: the return code of a publish; the end of a restore, of a close, of
\* a silence of the device
Waits(k) ==
    CASE which = "link" -> k = 1 /\ AwaitsAnswer
      [] which = "session" /\ k = 1 -> Mb!Restoring
      [] which = "session" /\ k = 2 -> Mb!Closing
      [] which = "session" /\ k = 3 -> Mb!Silent

==============================================================================

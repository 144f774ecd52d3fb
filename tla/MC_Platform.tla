----------------------------- MODULE MC_Platform -----------------------------
(* What the driver stands on, for TLC: the message queue between threads, the *)
(* linked lists, the log, and the threads of the WinUSB backend.  A behaviour *)
(* is of one of them, which `which` names; the message queue stays in its     *)
(* initial state, and the variables of the others are 0, throughout the       *)
(* behaviours of another.                                                     *)
EXTENDS MsgQueue

VARIABLES
    which,      \* the part whose behaviour this is
    h_l, call_l, it_l, active_g, quit_g, level_g, dropping_g, cnt_g, pend_g, disp_g, cur_g, thr_g,
    pipe_g, lock_g, dlock_g, pub_g, usr_g, refs_g, last_g, untold_g, lost_g, misuse_g, n_g, kinds_d,
    pc_d, cmd_q_d, d_d, in_d, bulk_d, out_d, ctl_d, held_d, usb_d, ul_d, answers_d, misuse_d, cmds_d,
    faults_d, main_w, win_w, ev_w, pending_w, pc_w, present_w, seen_w, active_w, thread_w, told_w,
    since_w, host_w, misuse_w, changes_w, powers_w

Lst == INSTANCE PtrList WITH
    Lists <- {11, 12}, Items <- {21, 22, 23}, Null <- 99, ReplacesList <- FALSE, AppendsEmpty <- FALSE,
    h <- h_l, call <- call_l, it <- it_l
LstVars == <<h_l, call_l, it_l>>
LstIdle ==
    h_l = 0 /\ call_l = 0 /\ it_l = 0

Log == INSTANCE Log WITH
    Publishers <- {"p1", "p2"}, Users <- {"u1"}, Receivers <- {"r1"}, PEND_MAX <- 2, PipeCap <- 8,
    Racy <- TRUE, Late <- FALSE, MaxPublish <- 4, MaxStarts <- 2, active <- active_g, quit <- quit_g,
    level <- level_g, dropping <- dropping_g, cnt <- cnt_g, pend <- pend_g, disp <- disp_g,
    cur <- cur_g, thr <- thr_g, pipe <- pipe_g, lock <- lock_g, dlock <- dlock_g, pub <- pub_g,
    usr <- usr_g, refs <- refs_g, last <- last_g, untold <- untold_g, lost <- lost_g,
    misuse <- misuse_g, n <- n_g
LogVars == <<
    active_g, quit_g, level_g, dropping_g, cnt_g, pend_g, disp_g, cur_g, thr_g, pipe_g, lock_g,
    dlock_g, pub_g, usr_g, refs_g, last_g, untold_g, lost_g, misuse_g, n_g>>
LogIdle ==
    active_g = 0 /\ quit_g = 0 /\ level_g = 0 /\ dropping_g = 0 /\ cnt_g = 0 /\ pend_g = 0 /\
    disp_g = 0 /\ cur_g = 0 /\ thr_g = 0 /\ pipe_g = 0 /\ lock_g = 0 /\ dlock_g = 0 /\ pub_g = 0 /\
    usr_g = 0 /\ refs_g = 0 /\ last_g = 0 /\ untold_g = 0 /\ lost_g = 0 /\ misuse_g = 0 /\ n_g = 0

Dev == INSTANCE WinusbDevice WITH
    Outstanding <- 2, Profiles <- {{"stream", "close"}, {"out", "ctrl", "close"}}, PendFails <- FALSE,
    OutErrors <- FALSE, CtrlQueued <- FALSE, CtrlAtClose <- FALSE, MaxCmds <- 4, MaxHeld <- 1,
    MaxFaults <- 1, kinds <- kinds_d, pc <- pc_d, cmd_q <- cmd_q_d, d <- d_d, in <- in_d,
    bulk <- bulk_d, out <- out_d, ctl <- ctl_d, held <- held_d, usb <- usb_d, ul <- ul_d,
    answers <- answers_d, misuse <- misuse_d, cmds <- cmds_d, faults <- faults_d
DevVars == <<
    kinds_d, pc_d, cmd_q_d, d_d, in_d, bulk_d, out_d, ctl_d, held_d, usb_d, ul_d, answers_d, misuse_d,
    cmds_d, faults_d>>
DevIdle ==
    kinds_d = 0 /\ pc_d = 0 /\ cmd_q_d = 0 /\ d_d = 0 /\ in_d = 0 /\ bulk_d = 0 /\ out_d = 0 /\
    ctl_d = 0 /\ held_d = 0 /\ usb_d = 0 /\ ul_d = 0 /\ answers_d = 0 /\ misuse_d = 0 /\ cmds_d = 0 /\
    faults_d = 0

Win == INSTANCE WinusbBackend WITH
    Devices <- {"d1", "d2"}, MbDevices <- {"d1"}, Replug <- FALSE, PowerPiles <- FALSE,
    JoinSlow <- FALSE, StartSlow <- FALSE, MaxChanges <- 3, MaxPower <- 3, main <- main_w,
    win <- win_w, ev <- ev_w, pending <- pending_w, pc <- pc_w, present <- present_w, seen <- seen_w,
    active <- active_w, thread <- thread_w, told <- told_w, since <- since_w, host <- host_w,
    misuse <- misuse_w, changes <- changes_w, powers <- powers_w
WinVars == <<
    main_w, win_w, ev_w, pending_w, pc_w, present_w, seen_w, active_w, thread_w, told_w, since_w,
    host_w, misuse_w, changes_w, powers_w>>
WinIdle ==
    main_w = 0 /\ win_w = 0 /\ ev_w = 0 /\ pending_w = 0 /\ pc_w = 0 /\ present_w = 0 /\ seen_w = 0 /\
    active_w = 0 /\ thread_w = 0 /\ told_w = 0 /\ since_w = 0 /\ host_w = 0 /\ misuse_w = 0 /\
    changes_w = 0 /\ powers_w = 0

AllVars == <<which, vars, LstVars, LogVars, DevVars, WinVars>>

AllInit ==
    \/ which = "queue" /\ Init /\ LstIdle /\ LogIdle /\ DevIdle /\ WinIdle
    \/ which = "list" /\ Lst!Init /\ Init /\ LogIdle /\ DevIdle /\ WinIdle
    \/ which = "log" /\ Log!Init /\ Init /\ LstIdle /\ DevIdle /\ WinIdle
    \/ which = "device" /\ Dev!Init /\ Init /\ LstIdle /\ LogIdle /\ WinIdle
    \/ which = "backend" /\ Win!Init /\ Init /\ LstIdle /\ LogIdle /\ DevIdle

AllNext ==
    \/ which = "queue" /\ Next /\ UNCHANGED <<which, LstVars, LogVars, DevVars, WinVars>>
    \/ which = "list" /\ Lst!Next /\ UNCHANGED <<which, vars, LogVars, DevVars, WinVars>>
    \/ which = "log" /\ Log!Next /\ UNCHANGED <<which, vars, LstVars, DevVars, WinVars>>
    \/ which = "device" /\ Dev!Next /\ UNCHANGED <<which, vars, LstVars, LogVars, WinVars>>
    \/ which = "backend" /\ Win!Next /\ UNCHANGED <<which, vars, LstVars, LogVars, DevVars>>
    \/ which \in {"log", "device", "backend"} /\ UNCHANGED AllVars      \* these may stop

AllSpec ==
    /\ AllInit /\ [][AllNext]_AllVars
    /\ \A p \in Producers : WF_vars(which = "queue" /\ EventSignal(p))
    /\ WF_vars(which = "queue" /\ PopMessage)
    /\ WF_vars(which = "queue" /\ PopEmpty)
    /\ WF_vars(which = "queue" /\ Wake)
    /\ \A p \in {"p1", "p2"} : WF_LogVars(which = "log" /\ Log!Locked(p))
    /\ \A p \in {"p1", "p2"} : WF_LogVars(which = "log" /\ Log!Add(p))
    /\ \A g \in 1..2 : WF_LogVars(which = "log" /\ Log!Runs(g))
    /\ WF_LogVars(which = "log" /\ Log!Stop("u1"))
    /\ WF_LogVars(which = "log" /\ Log!Join("u1"))
    /\ WF_LogVars(which = "log" /\ Log!FreeLists("u1"))
    /\ WF_DevVars(which = "device" /\ Dev!Thread)
    /\ WF_DevVars(which = "device" /\ Dev!Resume)
    /\ WF_DevVars(which = "device" /\ (Dev!OutDone("done") \/ Dev!OutDone("error")))
    /\ WF_DevVars(which = "device" /\ (Dev!CtrlDone("done") \/ Dev!CtrlDone("error")))
    /\ WF_DevVars(which = "device" /\ usb_d = "gone" /\ Dev!Finalize)
    /\ WF_WinVars(which = "backend" /\ Win!Backend)
    /\ WF_WinVars(which = "backend" /\ Win!Main)
    /\ WF_WinVars(which = "backend" /\ Win!WindowUp)
    /\ WF_WinVars(which = "backend" /\ Win!Timer)
    /\ \A x \in {"d1", "d2"} : WF_WinVars(which = "backend" /\ Win!ThreadEnds(x))

------------------------------------------------------------------------------
\* list.h: the links of the two directions are each other's inverse, a traversal visits the
\* items that were in the list when it began, each once and in order, and every call does to
\* the sequences what its description says.
ListsAreSequences ==
    /\ which = "list" => Lst!Seqs!Init
    /\ [](which = "list" => Lst!Linked /\ Lst!ForeachExact)
    /\ [][which = "list" => Lst!Seqs!Next \/ UNCHANGED Lst!Seqs!vars]_LstVars



\* What has been begun and has not ended
Pending(k) ==
    CASE which = "queue" -> \E p \in Producers : Undelivered(p, k)
      [] which = "log" -> IF k = 1 THEN \E p \in {"p1", "p2"} : pub_g[p].pc # "idle" ELSE usr_g["u1"] # "idle"
      [] which = "device" -> IF k = 1 THEN Dev!Unanswered ELSE Dev!Paused
      [] which = "backend" -> IF k = 1 THEN Win!Finalizing ELSE ~Win!Follows
      [] OTHER -> FALSE

\* What is begun ends: a message that was pushed is popped without help from the poll
\* timeout; calls of the log return; every command of WinUSB's device is answered, and its
\* reads start again after a failure; finalize ends with every thread joined; and, whatever
\* changes during a scan, the device threads become those of the devices on the bus.
PlatformProgress == \A k \in 1..2 : []<>~Pending(k)
==============================================================================

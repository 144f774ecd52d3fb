----------------------------- MODULE MC_Frontend -----------------------------
(* The frontend thread for TLC: as it adds, removes and frees devices, and as *)
(* it answers blocking calls under fairness.  A behaviour is of one of the    *)
(* two, which `which` names; the variables of the other stay as they began.   *)
EXTENDS DeviceLifecycle

VARIABLES
    which,      \* the part whose behaviour this is
    now_a, call_a, msg_cmd_a, msg_backend_a, msg_pend_a, cmd_timeouts_a, subscribers_a, device_a,
    processed_a, frontend_a, finalizer_a, do_exit_a

Api == INSTANCE ApiCmd WITH
    Callers <- {"c1", "c2"}, Ops <- [c \in {"c1", "c2"} |-> {"publish", "query"}], Timeouts <- {1, 2},
    MaxCalls <- 1, MaxTime <- 3, Finalizes <- FALSE, now <- now_a, call <- call_a,
    msg_cmd <- msg_cmd_a, msg_backend <- msg_backend_a, msg_pend <- msg_pend_a,
    cmd_timeouts <- cmd_timeouts_a, subscribers <- subscribers_a, device <- device_a,
    processed <- processed_a, frontend <- frontend_a, finalizer <- finalizer_a, do_exit <- do_exit_a
ApiVars == <<
    now_a, call_a, msg_cmd_a, msg_backend_a, msg_pend_a, cmd_timeouts_a, subscribers_a, device_a,
    processed_a, frontend_a, finalizer_a, do_exit_a>>

AllVars == <<which, vars, ApiVars>>

AllInit == which \in {"devices", "calls"} /\ Init /\ Api!Init

AllNext ==
    \/ which = "devices" /\ Next /\ UNCHANGED <<which, ApiVars>>
    \/ which = "calls" /\ Api!Next /\ UNCHANGED <<which, vars>>
    \/ which = "devices" /\ UNCHANGED AllVars      \* these may stop

AllSpec ==
    /\ AllInit /\ [][AllNext]_AllVars
    /\ WF_vars(which = "devices" /\ Backend)
    /\ WF_vars(which = "devices" /\ Frontend)
    /\ \A l \in Lives : WF_vars(which = "devices" /\ Exit(l))
    /\ WF_ApiVars(which = "calls" /\ Api!Tick)
    /\ WF_ApiVars(which = "calls" /\ Api!FrontendStep)
    /\ \A c \in {"c1", "c2"} : WF_ApiVars(which = "calls" /\ Api!PushCmd(c))
    /\ \A c \in {"c1", "c2"} : WF_ApiVars(which = "calls" /\ Api!Return(c))

------------------------------------------------------------------------------
\* What a caller waits for
Waits(c) ==
    CASE which = "calls" -> Api!Blocked(c)
      [] which = "devices" -> do_exit /\ pc # "done"

\* Every call returns: a blocking call while the driver runs, answered or not; jsdrv_finalize,
\* although device_remove_all waits for every upper driver's thread and no message that these
\* send is received any more.
EveryCallReturns == \A c \in {"c1", "c2"} : []<>~Waits(c)
==============================================================================

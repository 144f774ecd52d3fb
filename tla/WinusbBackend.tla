---------------------------- MODULE WinusbBackend ----------------------------
(* Discovery, power transitions and the end of backend/winusb/backend.c, with *)
(* the window thread of device_change_notifier.c.  The window thread sets the *)
(* events of the backend thread, which scans for devices, starts and stops    *)
(* their threads and forwards the power transitions of the host.              *)
(* A device that is plugged in again is another instance with the same path.  *)
(* devices_free is a FIFO of DEVICES_MAX, so that a slot is not used again    *)
(* while its last life is ending.                                             *)
EXTENDS Integers, FiniteSets

CONSTANTS
    Devices,        \* device paths
    MbDevices,      \* those whose driver understands JSDRV_USBBK_MSG_POWER
    Replug,         \* a device may come back before the backend has seen it leave
    PowerPiles,     \* the host may sleep again before the backend has forwarded its waking
    JoinSlow,       \* stopping a device may last longer than finalize waits, 1 s
    StartSlow,      \* the window may come up after THREAD_START_DELAY
    MaxChanges,     \* bound: arrivals and departures
    MaxPower        \* bound: power transitions

VARIABLES
    main,       \* the thread that calls the factory and finalize
    win,        \* the window: [st, timer, cb: callback_ is set]
    ev,         \* the events that are set: "discovery", "power", "finalize" (of cmd_q)
    pending,    \* power_pending
    pc,         \* the backend thread
    present,    \* device -> its instance on the bus, 0 when there is none
    seen,       \* the scan: what is on the bus
    active,     \* devices_active: device -> the instance its thread was started for, or 0
    thread,     \* device -> the device thread
    told,       \* device -> the last power transition in its rsp_q
    since,      \* devices that are active since before the last transition
    host,       \* the last power transition
    misuse,     \* history: the backend_s is used after it was freed
    changes, powers

vars == <<main, win, ev, pending, pc, present, seen, active, thread, told, since, host, misuse, changes, powers>>
dev == <<active, thread>>
bus == <<present, changes>>
power == <<told, since, host, powers>>

None == [x \in Devices |-> 0]

Init ==
    /\ main = "factory" /\ win = [st |-> "none", timer |-> FALSE, cb |-> FALSE]
    /\ ev = {} /\ pending = {} /\ pc = "none"
    /\ present \in [Devices -> {0, 1}] /\ seen = None /\ active = None
    /\ thread = [x \in Devices |-> "none"]
    /\ told = [x \in Devices |-> "none"] /\ since = {} /\ host = "awake" /\ misuse = FALSE
    /\ changes = 0 /\ powers = 0

------------------------------------------------------------------------------
(* jsdrv_usb_backend_factory, device_change_notifier_initialize             *)

Factory ==
    /\ main = "factory" /\ main' = "starting"
    /\ win' = [st |-> "starting", timer |-> FALSE, cb |-> TRUE]
    /\ UNCHANGED <<ev, pending, pc, bus, seen, dev, power, misuse>>

\* window_create has set running_event_: the backend thread is created.
Started ==
    /\ main = "starting" /\ win.st = "run" /\ main' = "up" /\ pc' = "scan"
    /\ UNCHANGED <<win, ev, pending, bus, seen, dev, power, misuse>>

\* THREAD_START_DELAY is over: the factory calls finalize, and
\* device_change_notifier_finalize does nothing while there is no window.
NotStarted ==
    /\ StartSlow /\ main = "starting" /\ win.st = "starting" /\ main' = "freed"
    /\ UNCHANGED <<win, ev, pending, pc, bus, seen, dev, power, misuse>>

------------------------------------------------------------------------------
(* The window thread                                                        *)

\* window_create
WindowUp == win.st = "starting" /\ win' = [win EXCEPT !.st = "run"] /\ UNCHANGED <<main, ev, pending, pc, bus, seen, dev, power, misuse>>

\* on_device_change
OnDeviceChange == ev' = ev \cup {"discovery"} /\ misuse' = (misuse \/ main = "freed")

\* WM_DEVICECHANGE: the timer starts, or starts anew
DeviceChange == [win EXCEPT !.timer = TRUE]

\* A device leaves or arrives.
Change(x) ==
    /\ changes < MaxChanges /\ changes' = changes + 1
    /\ Replug \/ present[x] # 0 \/ active[x] = 0
    /\ present' = [present EXCEPT ![x] = IF @ # 0 THEN 0 ELSE changes + 2]
    /\ IF win.st = "run"
       THEN \/ win' = DeviceChange /\ UNCHANGED <<ev, misuse>>
            \/ OnDeviceChange /\ UNCHANGED win
       ELSE UNCHANGED <<win, ev, misuse>>
    /\ UNCHANGED <<main, pending, pc, seen, dev, power>>

\* WM_TIMER
Timer ==
    /\ win.st = "run" /\ win.timer /\ win' = [win EXCEPT !.timer = FALSE]
    /\ (IF win.cb THEN OnDeviceChange ELSE UNCHANGED <<ev, misuse>>)
    /\ UNCHANGED <<main, pending, pc, bus, seen, dev, power>>

\* WM_POWERBROADCAST, on_power_event
Power ==
    /\ win.st = "run" /\ win.cb /\ powers < MaxPower /\ powers' = powers + 1
    /\ PowerPiles \/ "resume" \notin pending
    /\ host' = (IF host = "suspend" THEN "resume" ELSE "suspend")
    /\ pending' = pending \cup {host'} /\ ev' = ev \cup {"power"}
    /\ misuse' = (misuse \/ main = "freed")
    /\ since' = {x \in Devices : active[x] # 0}
    /\ UNCHANGED <<main, win, pc, bus, seen, dev, told>>

------------------------------------------------------------------------------
(* The backend thread                                                       *)

Uses == misuse' = (misuse \/ main = "freed")

\* device_scan up to the sweep: device_update, and device_add of what is new.
\* A device whose slot is still being stopped is not in the list of the scan.
Scan ==
    /\ pc = "scan" /\ pc' = "sweep" /\ Uses /\ seen' = present
    /\ active' = [x \in Devices |-> IF present[x] # 0 /\ active[x] = 0 THEN present[x] ELSE active[x]]
    /\ thread' = [x \in Devices |-> IF present[x] # 0 /\ active[x] = 0 THEN "run" ELSE thread[x]]
    /\ told' = [x \in Devices |-> IF present[x] # 0 /\ active[x] = 0 THEN "none" ELSE told[x]]
    /\ UNCHANGED <<main, win, ev, pending, bus, since, host, powers>>

\* device_remove, device_thread_stop: FINALIZE is sent,
Stop(x) ==
    /\ pc = "sweep" /\ active[x] # 0 /\ seen[x] = 0 /\ thread[x] = "run" /\ Uses
    /\ thread' = [thread EXCEPT ![x] = "stopping"]
    /\ UNCHANGED <<main, win, ev, pending, pc, bus, seen, active, power>>

\* and the thread joined.
Joined(x) ==
    /\ pc = "sweep" /\ active[x] # 0 /\ seen[x] = 0 /\ thread[x] = "done" /\ Uses
    /\ active' = [active EXCEPT ![x] = 0] /\ since' = since \ {x}
    /\ UNCHANGED <<main, win, ev, pending, pc, bus, seen, thread, told, host, powers>>

\* The end of device_thread (WinusbDevice has it)
ThreadEnds(x) ==
    /\ thread[x] = "stopping" /\ thread' = [thread EXCEPT ![x] = "done"]
    /\ UNCHANGED <<main, win, ev, pending, pc, bus, seen, active, power, misuse>>

\* Faulty: the event is reset after the scan.
ScanDoneResets ==
    /\ pc = "sweep" /\ (\A x \in Devices : active[x] # 0 => seen[x] # 0) /\ pc' = "cmd"
    /\ ev' = ev \ {"discovery"}
    /\ UNCHANGED <<main, win, pending, bus, seen, dev, power, misuse>>

\* The end of device_scan
ScanDone ==
    /\ pc = "sweep" /\ (\A x \in Devices : active[x] # 0 => seen[x] # 0) /\ pc' = "cmd"
    /\ UNCHANGED <<main, win, ev, pending, bus, seen, dev, power, misuse>>

\* backend_thread: the wait; the event is reset before the scan.
Wait ==
    /\ pc = "wait" /\ ev # {} /\ Uses
    /\ pc' = (IF "discovery" \in ev THEN "scan" ELSE "cmd")
    /\ ev' = ev \ {"discovery"}
    /\ UNCHANGED <<main, win, pending, bus, seen, dev, power>>

\* handle_msg: the thread goes through the pass to its end.
HandleMsg ==
    /\ pc = "cmd" /\ Uses
    /\ pc' = (IF "finalize" \in ev THEN "exit" ELSE "power") /\ ev' = ev \ {"finalize"}
    /\ UNCHANGED <<main, win, pending, bus, seen, dev, power>>

\* power_event_forward: suspend first; the device ends with resume.
Forward(x, p) == IF "resume" \in p THEN "resume" ELSE IF "suspend" \in p THEN "suspend" ELSE told[x]

ForwardPower ==
    /\ pc \in {"power", "exit"} /\ Uses
    /\ told' = [x \in Devices |-> IF "power" \in ev /\ x \in MbDevices /\ active[x] # 0 THEN Forward(x, pending) ELSE told[x]]
    /\ pending' = (IF "power" \in ev THEN {} ELSE pending) /\ ev' = ev \ {"power"}
    /\ pc' = (IF pc = "exit" THEN "done" ELSE "wait")
    /\ UNCHANGED <<main, win, bus, seen, dev, since, host, powers>>

------------------------------------------------------------------------------
(* finalize                                                                 *)

\* device_change_notifier_finalize: WM_CLOSE, and the window thread is joined.
Finalize ==
    /\ main = "up" /\ main' = "closing" /\ win' = [st |-> "none", timer |-> FALSE, cb |-> FALSE]
    /\ ev' = ev \cup {"finalize"}
    /\ UNCHANGED <<pending, pc, bus, seen, dev, power, misuse>>

\* WaitForSingleObject of the backend thread, then device_free of each device
JoinBackend ==
    /\ main = "closing" /\ (pc = "done" \/ (JoinSlow /\ pc = "sweep" /\ \E x \in Devices : thread[x] = "stopping"))
    /\ main' = "freeing" /\ UNCHANGED <<win, ev, pending, pc, bus, seen, dev, power, misuse>>

DeviceFree(x) ==
    /\ main = "freeing" /\ active[x] # 0
    /\ \/ thread[x] = "run" /\ thread' = [thread EXCEPT ![x] = "stopping"] /\ UNCHANGED active
       \/ thread[x] = "done" /\ active' = [active EXCEPT ![x] = 0] /\ UNCHANGED thread
    /\ UNCHANGED <<main, win, ev, pending, pc, bus, seen, power, misuse>>

Free ==
    /\ main = "freeing" /\ active = None /\ main' = "freed"
    /\ UNCHANGED <<win, ev, pending, pc, bus, seen, dev, power, misuse>>

------------------------------------------------------------------------------
Backend == Scan \/ (\E x \in Devices : Stop(x) \/ Joined(x)) \/ ScanDone \/ Wait \/ HandleMsg \/ ForwardPower
Main == Factory \/ Started \/ JoinBackend \/ (\E x \in Devices : DeviceFree(x)) \/ Free

Next ==
    \/ Backend \/ Main \/ NotStarted \/ Finalize
    \/ WindowUp \/ Timer \/ Power \/ \E x \in Devices : Change(x) \/ ThreadEnds(x)

Spec == Init /\ [][Next]_vars

\* Threads run, and timers fire; nothing forces a change or the end.
FairSpec ==
    /\ Spec /\ WF_vars(Backend) /\ WF_vars(Main) /\ WF_vars(WindowUp) /\ WF_vars(Timer)
    /\ \A x \in Devices : WF_vars(ThreadEnds(x))

------------------------------------------------------------------------------
\* Nobody uses the backend_s after finalize has freed it.
NothingAfterFree == ~misuse

\* Whatever changes during a scan, and in whichever order the window and the backend thread
\* run: in the end the device threads are those of the devices on the bus, for their
\* present instance (device_scan "sweeps the device and stops its thread").
Follows == main # "up" \/ active = present
DevicesFollow == <>[]Follows

\* When the backend has nothing to do, every device that was there at the last power
\* transition has been told of it (on_power_event, power_event_forward).
PowerTold == pc = "wait" /\ "power" \notin ev /\ main = "up" => \A x \in MbDevices \cap since : told[x] = host

\* finalize ends, with every thread joined.
Finalizing == main = "closing" \/ (main = "freed" /\ active # None)
FinalizeEnds == []<>~Finalizing
==============================================================================

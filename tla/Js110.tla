-------------------------------- MODULE Js110 --------------------------------
(* js110_usb.c: the thread of a JS110.  It handles the application's commands *)
(* in order.  A command is a list of requests to the backend's device, each   *)
(* of which the thread waits for, handling whatever else comes meanwhile.     *)
EXTENDS Integers, Sequences, FiniteSets

CONSTANTS
    Cmds,           \* the commands of the application: kind and value
    Slow,           \* the requests that may take longer than TIMEOUT_MS
    Fails,          \* the requests that may fail
    Stuck,          \* a request that fails may fail for ever
    Removal,        \* the instrument may be unplugged
    Track,          \* remember what statistics_fwd sent
    MaxCmds, MaxFaults, MaxBusy

VARIABLES
    ul,         \* js110_dev_s: state, parameters, status_msg, do_exit, ll_terminated
    job,        \* the command at work: kind, value, requests to come; what is awaited
    cmdq,       \* ul.cmd_q
    llq, rspq,  \* ll.cmd_q and ll.rsp_q
    ll,         \* the backend's device: alive, open, stream; the instrument's settings
    front,      \* the frontend: join, commands not answered, the values it retains
    sent,       \* history: the answer sent by the last step
    cmds, faults, busy

vars == <<ul, job, cmdq, llq, rspq, ll, front, sent, cmds, faults, busy>>

NoJob == [kind |-> "none", value |-> 0, steps |-> <<>>, ok |-> TRUE]
NoSent == [kind |-> "none", ok |-> TRUE]

\* jsdrvp_ul_js110_usb_factory: the parameters have the defaults of their metadata.
Init ==
    /\ ul = [st |-> "closed", range |-> 0, ext |-> 0, ctrl |-> 0, sstats |-> 1, local |-> 0, status |-> FALSE,
             exit |-> FALSE, term |-> FALSE, phase |-> "cmd"]
    /\ job = NoJob /\ cmdq = <<>> /\ llq = <<>> /\ rspq = <<>>
    /\ ll = [alive |-> TRUE, open |-> FALSE, stream |-> FALSE, range |-> 1, ext |-> 1, on |-> 0, seen |-> FALSE, twice |-> FALSE]
    /\ front = [join |-> FALSE, asked |-> 0, params |-> 0, shown |-> 0]
    /\ sent = NoSent /\ cmds = 0 /\ faults = 0 /\ busy = 0

Running == ul.phase # "gone"
Idle == Running /\ job = NoJob

\* A request: kind, the parameters that it carries, whether its answer is awaited
Request(u, k, own) == [k |-> k, range |-> u.range, ext |-> u.ext, on |-> u.ctrl, own |-> own, a |-> "none"]

------------------------------------------------------------------------------
(* The requests of a command                                                *)

\* d_open_ll, d_open; calibration_get reads a header and the data in parts.
OpenSteps(mode) ==
    <<"open", "loop_out", "loop_in", "cal_hdr", "cal">> \o (IF mode = 0 THEN <<>> ELSE <<"set_in", "ext_in">>)
    \o <<"set_out", "poll", "stream">>

\* stream_settings_send and extio_settings_send, extio_gpi_recv
Steps(c) ==
    CASE c.kind = "open" -> OpenSteps(c.value)
      [] c.kind = "close" -> <<"close">>
      [] c.kind = "range" -> <<"set_out", "poll">>
      [] c.kind = "ext" -> <<"ext_out", "poll">>
      [] c.kind = "ctrl" -> IF c.value = ul.ctrl THEN <<>> ELSE <<"set_out", "poll">>
      [] c.kind = "gpi" -> <<"gpi_in">>
      [] OTHER -> <<>>

\* The parameters that a command sets; the ones that only the driver uses are not
\* among the values that d_open publishes.
Params(c) ==
    CASE c.kind = "range" -> [ul EXCEPT !.range = c.value]
      [] c.kind = "ext" -> [ul EXCEPT !.ext = c.value]
      [] c.kind = "ctrl" -> [ul EXCEPT !.ctrl = c.value]
      [] c.kind = "sstats" -> [ul EXCEPT !.sstats = c.value]
      [] c.kind = "local" -> [ul EXCEPT !.local = c.value]
      [] OTHER -> ul

------------------------------------------------------------------------------
(* The thread                                                               *)

Ends(kind) == IF kind \in {"open", "close"} THEN [front EXCEPT !.asked = @ - 1] ELSE [front EXCEPT !.params = @ - 1]

\* A parameter of a closed device: the error is published on the parameter's own topic
ToClosed(c) == sent' = [kind |-> c.kind, ok |-> FALSE] /\ front' = [front EXCEPT !.shown = IF c.kind = "local" THEN 2 ELSE @]

Ask(u, k) == Request(u, k, TRUE)

\* Ask for the next request of job j, or finish it.
Continue(u, j) ==
    IF j.steps # <<>>
    THEN job' = j /\ ul' = u /\ llq' = Append(llq, Ask(u, Head(j.steps))) /\ sent' = NoSent /\ UNCHANGED front
    ELSE /\ job' = NoJob /\ UNCHANGED llq
         /\ ul' = [u EXCEPT !.st = IF j.kind = "open" /\ j.ok THEN "open" ELSE @]
         /\ sent' = [kind |-> j.kind, ok |-> j.ok]
         /\ front' = [Ends(j.kind) EXCEPT !.shown = IF j.kind = "open" /\ j.ok THEN 0 ELSE @]

\* handle_cmd
HandleCmd ==
    /\ Idle /\ ul.phase = "cmd" /\ cmdq # <<>> /\ cmdq' = Tail(cmdq)
    /\ LET c == Head(cmdq) IN
       CASE c.kind = "finalize" -> ul' = [ul EXCEPT !.exit = TRUE, !.phase = "rsp"] /\ sent' = NoSent /\ UNCHANGED <<job, llq, front>>
         [] c.kind \in {"open", "close"} -> Continue(ul, [NoJob EXCEPT !.kind = c.kind, !.value = c.value, !.steps = Steps(c)])
         [] c.kind \notin {"open", "close", "finalize"} /\ ul.st # "open" -> ToClosed(c) /\ UNCHANGED <<ul, job, llq>>
         [] c.kind \notin {"open", "close", "finalize"} /\ ul.st = "open" ->
              Continue(Params(c), [NoJob EXCEPT !.kind = c.kind, !.value = c.value, !.steps = Steps(c)])
    /\ UNCHANGED <<rspq, ll, cmds, faults, busy>>

CmdsDone == Idle /\ ul.phase = "cmd" /\ cmdq = <<>> /\ ul' = [ul EXCEPT !.phase = "rsp"] /\ sent' = NoSent
            /\ UNCHANGED <<job, cmdq, llq, rspq, ll, front, cmds, faults, busy>>

\* d_status_rsp: the message is the one of the poll.
StatusEnds(m) == m.k = "status"

\* handle_rsp: an answer that nobody waits for, and the end of the backend's device.
Stray(u, m) ==
    IF m.k = "term" THEN [u EXCEPT !.term = TRUE, !.exit = TRUE]
    ELSE IF StatusEnds(m) THEN [u EXCEPT !.status = FALSE] ELSE u

\* statistics_fwd: the instrument has one block of statistics; the next is half a second away.
Forward(m) ==
    IF Track /\ m.k \in {"status", "poll"} /\ m.a = "ok" /\ ul.sstats = 1
    THEN ll' = [ll EXCEPT !.seen = TRUE, !.twice = @ \/ ll.seen] ELSE UNCHANGED ll

HandleRsp ==
    /\ Idle /\ ul.phase = "rsp" /\ rspq # <<>> /\ rspq' = Tail(rspq)
    /\ ul' = Stray(ul, Head(rspq)) /\ Forward(Head(rspq)) /\ sent' = NoSent
    /\ UNCHANGED <<job, cmdq, llq, front, cmds, faults, busy>>

\* driver_thread: the end of its loop and its start, when the poll for statistics may
\* be due, and its end
Loop(due) ==
    LET poll == due /\ ~ul.exit /\ ~ul.status /\ ul.st = "open" /\ ul.sstats = 1 IN
    /\ Idle /\ ul.phase = "rsp" /\ rspq = <<>>
    /\ ul' = [ul EXCEPT !.phase = IF ul.exit THEN "gone" ELSE "cmd", !.status = @ \/ poll]
    /\ llq' = IF poll THEN Append(llq, Request(ul, "status", FALSE)) ELSE llq
    /\ sent' = (IF ul.exit /\ ul.term THEN [kind |-> "remove", ok |-> TRUE] ELSE NoSent)
    /\ UNCHANGED <<job, cmdq, rspq, ll, front, cmds, faults, busy>>

------------------------------------------------------------------------------
(* ll_await_msg, and what follows                                           *)

Awaited == Head(job.steps)

\* The answer is the message that was sent, whatever its kind.
IsMine(m) == m.own

AwaitOther ==
    /\ Running /\ job # NoJob /\ rspq # <<>> /\ ~IsMine(Head(rspq)) /\ rspq' = Tail(rspq)
    /\ ul' = Stray(ul, Head(rspq)) /\ Forward(Head(rspq)) /\ sent' = NoSent
    /\ UNCHANGED <<job, cmdq, llq, front, cmds, faults, busy>>


\* A request failed: an open is closed again; a parameter is answered with success.
Failed(j) ==
    IF j.kind = "open" THEN (IF Head(j.steps) = "open" \/ ~j.ok THEN [j EXCEPT !.ok = FALSE, !.steps = <<>>]
                             ELSE [j EXCEPT !.ok = FALSE, !.steps = <<"close">>])
    ELSE [j EXCEPT !.ok = j.kind \notin {"gpi", "close"}, !.steps = <<>>]

Passed(j) == [j EXCEPT !.steps = Tail(@)]

\* What the thread makes of the answer a: only the size of what was read and the return
\* code of open, close and the stream tell that a request failed.
After(u, j, m) ==
    CASE m.k = "cal" /\ m.a = "err" -> <<u, j>>
      [] m.k = "poll" /\ m.a = "busy" -> <<u, j>>
      [] m.k \in {"open", "cal_hdr", "set_in", "ext_in", "poll", "stream"} /\ m.a = "err" -> <<u, Failed(j)>>
      [] m.k = "set_in" /\ m.a = "ok" -> <<[u EXCEPT !.range = m.range], Passed(j)>>
      [] m.k = "ext_in" /\ m.a = "ok" -> <<[u EXCEPT !.ext = m.ext], Passed(j)>>
      [] m.k = "open" /\ m.a = "ok" -> <<[u EXCEPT !.st = "opening"], Passed(j)>>
      [] m.k = "close" -> <<[u EXCEPT !.st = "closed"], [j EXCEPT !.steps = <<>>]>>
      [] OTHER -> <<u, Passed(j)>>

AwaitMine ==
    /\ Running /\ job # NoJob /\ rspq # <<>> /\ IsMine(Head(rspq)) /\ rspq' = Tail(rspq)
    /\ LET m == Head(rspq)
           n == After(ul, job, m) IN Continue(n[1], n[2]) /\ Forward(m)
    /\ UNCHANGED <<cmdq, cmds, faults, busy>>

\* TIMEOUT_MS is over; the answer may still come, and is then nobody's.
AwaitTimeout ==
    LET late(q) == [i \in DOMAIN q |-> [q[i] EXCEPT !.own = FALSE]] IN
    /\ Running /\ job # NoJob /\ rspq = <<>>
    /\ ~ll.alive \/ (Awaited \in Slow /\ faults < MaxFaults)
    /\ faults' = (IF ll.alive THEN faults + 1 ELSE faults)
    /\ LET j == Failed(job)
           next == IF j.steps = <<>> THEN <<>> ELSE <<Ask(ul, Head(j.steps))>> IN
       /\ llq' = late(llq) \o next
       /\ IF j.steps # <<>> THEN job' = j /\ sent' = NoSent /\ UNCHANGED front
          ELSE job' = NoJob /\ sent' = [kind |-> j.kind, ok |-> j.ok] /\ front' = Ends(j.kind)
    /\ UNCHANGED <<ul, cmdq, rspq, ll, cmds, busy>>

Thread == HandleCmd \/ CmdsDone \/ HandleRsp \/ (\E due \in BOOLEAN : Loop(due)) \/ AwaitOther \/ AwaitMine \/ AwaitTimeout

------------------------------------------------------------------------------
(* The backend's device and the instrument                                  *)

LlAnswer(m, a) ==
    /\ rspq' = Append(rspq, [m EXCEPT !.a = a, !.range = ll.range, !.ext = ll.ext])
    /\ ll' = IF m.k = "open" THEN [ll EXCEPT !.open = a = "ok", !.stream = FALSE] ELSE IF a # "ok" THEN ll
             ELSE CASE m.k = "close" -> [ll EXCEPT !.open = FALSE, !.stream = FALSE]
                    [] m.k = "stream" -> [ll EXCEPT !.stream = TRUE]
                    [] m.k = "set_out" -> [ll EXCEPT !.range = m.range, !.on = m.on]
                    [] m.k = "ext_out" -> [ll EXCEPT !.ext = m.ext]
                    [] OTHER -> ll

\* A request is carried out if the device is open.
Ll(f) ==
    /\ ll.alive /\ llq # <<>> /\ llq' = Tail(llq) /\ sent' = NoSent
    /\ LET m == Head(llq) IN
       CASE f = "none" -> LlAnswer(m, IF ll.open \/ m.k \in {"open", "close"} THEN "ok" ELSE "err") /\ UNCHANGED <<faults, busy>>
         [] f = "busy" -> m.k = "poll" /\ busy < MaxBusy /\ busy' = busy + 1 /\ LlAnswer(m, "busy") /\ UNCHANGED faults
         [] f = "err" -> m.k \in Fails /\ faults < MaxFaults /\ faults' = (IF Stuck THEN faults ELSE faults + 1) /\ LlAnswer(m, "err") /\ UNCHANGED busy
    /\ UNCHANGED <<ul, job, cmdq, front, cmds>>

Unplug ==
    /\ Removal /\ ll.alive /\ ll' = [ll EXCEPT !.alive = FALSE, !.open = FALSE, !.stream = FALSE]
    /\ rspq' = Append(rspq, Request(ul, "term", FALSE)) /\ sent' = NoSent
    /\ UNCHANGED <<ul, job, cmdq, llq, front, cmds, faults, busy>>

------------------------------------------------------------------------------
(* The frontend                                                             *)

Command(c) ==
    /\ ~front.join /\ cmds < MaxCmds /\ cmds' = cmds + 1 /\ Len(cmdq) < 2
    /\ cmdq' = Append(cmdq, c)
    /\ front' = [front EXCEPT !.asked = IF c.kind \in {"open", "close"} THEN @ + 1 ELSE @,
                               !.params = IF c.kind \in {"open", "close"} THEN @ ELSE @ + 1, !.shown = IF c.kind = "local" THEN c.value ELSE @]
    /\ sent' = NoSent /\ UNCHANGED <<ul, job, llq, rspq, ll, faults, busy>>

\* join: when the driver ends or the device is removed
Join ==
    /\ ~front.join /\ front' = [front EXCEPT !.join = TRUE] /\ cmdq' = Append(cmdq, [kind |-> "finalize", value |-> 0])
    /\ sent' = NoSent /\ UNCHANGED <<ul, job, llq, rspq, ll, cmds, faults, busy>>

Next ==
    \/ Thread \/ (\E f \in {"none", "busy", "err"} : Ll(f)) \/ Unplug
    \/ (\E c \in Cmds : Command(c)) \/ Join

Spec == Init /\ [][Next]_vars

\* The threads run.
FairSpec == Spec /\ WF_vars(Thread) /\ WF_vars(Ll("none"))

------------------------------------------------------------------------------

\* With no request under way, the settings of an open instrument are the parameters.
SettingsFollow ==
    ll.open /\ Idle /\ ul.st = "open" /\ (\A i \in DOMAIN llq : llq[i].k # "set_out") =>
        ll.range = ul.range /\ ll.on = ul.ctrl

\* A poll for statistics is out, which holds the next one back.
PollPending == ul.status /\ Running /\ ll.alive

\* An open or a close is not answered, or the thread still runs although it was told to
\* end or the backend's device has gone.
JobPending == Running /\ (front.asked > 0 \/ front.join \/ ~ll.alive)

\* Each command is answered with a return code, unless the thread ends.
ParamsAnswered == []<>(front.params = 0 \/ ~Running)

\* Each open, close and poll ends, unless the thread ends; the thread ends when it is told
\* to, and when the backend's device has gone.
JobsEnd == []<>~JobPending /\ []<>~PollPending

\* With no request under way, the extension settings of an open instrument are the parameters.
ExtFollow == ll.open /\ Idle /\ ul.st = "open" /\ (\A i \in DOMAIN llq : llq[i].k # "ext_out") => ll.ext = ul.ext

\* The values that the frontend retains are the ones in use.
ShownInUse == Idle /\ ul.st = "open" /\ front.params = 0 => front.shown = ul.local

\* Statistics of the instrument are sent once.
StatsOnce == ~ll.twice
==============================================================================

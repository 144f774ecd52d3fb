------------------------------- MODULE MbLink --------------------------------
(* mb_device.c between the application and the device: commands become frames  *)
(* (handle_cmd, publish_to_device_confirmed), frames from the device become     *)
(* answers, time maps and replies (handle_stream_in_frame).  How the connection *)
(* comes up, and what is exchanged before it is open, is in MbDevice; here its  *)
(* start is one frame each way.  The device answers a publish that has a        *)
(* tracking id, handles what it receives in order, and counts the frames.       *)
EXTENDS Integers, Sequences, FiniteSets

CONSTANTS
    FrameIds,       \* MB_FRAME_FRAME_ID_MAX + 1
    TrackIds,       \* 2^16, the range of tracking_id_next
    Instances,      \* the pubsub instances of the device that keep time
    Cmds,           \* the application's commands: kind, and whether it awaits the return code
    Gathers,        \* an open may gather the host's values first
    TimesOut,       \* the application may give up and ask again
    MaxInputs,      \* bound: commands of the application and messages of the device
    MaxConnects     \* bound: sessions and losses of the connection

VARIABLES
    st,         \* "closed", "link", "identify", "open" or "flush"
    gathering,  \* state_fetch.gathering
    ids,        \* out: out_frame_id, trk: tracking_id_next
    maps,       \* time_maps: instance -> the session of its map, 0 for none
    cmdq,       \* ul.cmd_q
    outq, inq,  \* the frames on their way to and from the device, in order
    dev,        \* the device: connected, frame ids, what it has to do, and the requests for the time not answered
    wait,       \* the application: topic -> the command whose return code it awaits, 0 for none
    ans,        \* history: the return code of the last step
    gap,        \* history: the device missed a frame, or got a reply that it did not ask for
    cmds, sends, session, resets

vars == <<st, gathering, ids, maps, cmdq, outq, inq, dev, wait, ans, gap, cmds, sends, session, resets>>
counts == <<cmds, sends, session, resets>>

NoAns == [topic |-> "none", of |-> 0]
NewDev == [up |-> FALSE, in |-> 0, todo |-> <<>>, sync |-> {}]
Frame(k) == [k |-> k, id |-> 0, trk |-> 0, topic |-> "none", of |-> 0, inst |-> "none", n |-> 0]

\* The topics of the application: a value and an event of the device, and one of the
\* host.  A "big" value exceeds PUBLISH_VALUE_SIZE_MAX_U8.
Topics == {"dev", "event", "host"}
TopicOf(kind) == IF kind \in {"set", "big"} THEN "dev" ELSE IF kind = "event" THEN "event" ELSE "host"

Init ==
    /\ st = "closed" /\ gathering = FALSE /\ ids = [out |-> 0, trk |-> 1] /\ maps = [i \in Instances |-> 0]
    /\ cmdq = <<>> /\ outq = <<>> /\ inq = <<>> /\ dev = NewDev
    /\ wait = [t \in Topics |-> 0] /\ ans = NoAns /\ gap = FALSE
    /\ cmds = 0 /\ sends = 0 /\ session = 0 /\ resets = 0

------------------------------------------------------------------------------
(* Frames to the device                                                     *)

\* msg_alloc_send_to_device, send_to_device
Out(f) == [f EXCEPT !.id = ids.out]
NextOut == (ids.out + 1) % FrameIds
SendToDevice(f) == outq' = Append(outq, Out(f)) /\ ids' = [ids EXCEPT !.out = NextOut]

\* 0 says that no answer is wanted.
TrackingIdAlloc(n) ==
    LET id == IF n = 0 THEN 1 ELSE n
        next == (id + 1) % TrackIds IN
    [id |-> id, next |-> IF next = 0 THEN 1 ELSE next]

\* publish_to_device_confirmed: a value that is too large is dropped.
PublishToDevice(c) ==
    LET t == TrackingIdAlloc(ids.trk) IN
    IF c.kind = "big" THEN UNCHANGED <<outq, ids>>
    ELSE /\ outq' = Append(outq, Out([Frame("pub") EXCEPT !.trk = IF c.src THEN t.id ELSE 0, !.topic = TopicOf(c.kind), !.of = c.id]))
         /\ ids' = [out |-> NextOut, trk |-> IF c.src THEN t.next ELSE ids.trk]

\* send_return_code_to_frontend; the application takes it by its topic.
ReturnCode(topic, of) == ans' = [topic |-> topic, of |-> of] /\ wait' = [wait EXCEPT ![topic] = 0]
NoReturnCode == ans' = NoAns /\ UNCHANGED wait

------------------------------------------------------------------------------
(* Commands                                                                 *)

\* Faulty: a publish is answered at once, and by the device, too.
DevicePublishAnswers(c) == PublishToDevice(c) /\ ReturnCode(TopicOf(c.kind), c.id)
DevicePublish(c) == PublishToDevice(c) /\ NoReturnCode

\* handle_cmd: what the gather takes is neither forwarded nor answered.
HandleCmd ==
    /\ cmdq # <<>> /\ cmdq' = Tail(cmdq)
    /\ LET c == Head(cmdq) IN
       CASE gathering /\ c.kind = "gathered" -> gathering' = FALSE /\ NoReturnCode /\ UNCHANGED <<outq, ids>>
         [] gathering /\ c.kind \in {"set", "big"} -> NoReturnCode /\ UNCHANGED <<gathering, outq, ids>>
         [] c.kind = "ping" -> SendToDevice(Frame("ping")) /\ ReturnCode("host", c.id) /\ UNCHANGED gathering
         [] c.kind \in {"keep", "frecord", "unsupported"} -> ReturnCode("host", c.id) /\ UNCHANGED <<gathering, outq, ids>>
         [] c.kind = "event" \/ (~gathering /\ c.kind \in {"set", "big"}) ->
              /\ IF st # "open" THEN ReturnCode(TopicOf(c.kind), c.id) /\ UNCHANGED <<outq, ids>> ELSE DevicePublish(c)
              /\ UNCHANGED gathering
    /\ UNCHANGED <<st, maps, inq, dev, gap, cmds, sends, session, resets>>

------------------------------------------------------------------------------
(* The connection                                                           *)

\* on_ll_open: the maps of the session before go.
OnLlOpen == [i \in Instances |-> 0]

\* Faulty: a connection that is made again goes on counting the frames.
OnLinkRequestCounts == ids.out

\* on_link_request: the frame id starts again.
OnLinkRequest == 0

Open ==
    /\ st = "closed" /\ session + resets < MaxConnects /\ session' = session + 1
    /\ maps' = OnLlOpen
    /\ st' = "link" /\ ids' = [ids EXCEPT !.out = 0] /\ outq' = <<Frame("connect")>> /\ inq' = <<>>
    /\ dev' = NewDev /\ ans' = NoAns
    /\ UNCHANGED <<gathering, cmdq, wait, gap, cmds, sends, resets>>

\* After the host slept, nobody answered: the connection is made again.
Replay ==
    /\ st = "open" /\ ~dev.up /\ ~gathering
    /\ st' = "link" /\ ids' = [ids EXCEPT !.out = OnLinkRequest] /\ outq' = Append(outq, Frame("connect")) /\ ans' = NoAns
    /\ UNCHANGED <<gathering, maps, cmdq, inq, dev, wait, gap>> /\ UNCHANGED counts

\* on_pubsub_flush: what was published before comes back first.
Close ==
    /\ st = "open" /\ ~gathering /\ dev.up /\ st' = "flush" /\ SendToDevice(Frame("flush")) /\ ans' = NoAns
    /\ UNCHANGED <<gathering, maps, cmdq, inq, dev, wait, gap>> /\ UNCHANGED counts

------------------------------------------------------------------------------
(* Frames from the device: handle_stream_in_frame and what it calls          *)

\* handle_in_timesync_sync: only a request, not the device's echo of a reply
IsRequest(f) == f.topic = "req"

\* The reply goes to the instance that asks, with its own count.
SyncReply(f) == [Frame("reply") EXCEPT !.inst = f.inst, !.n = f.n]

\* handle_in_timesync_map
TimeMaps(f) == IF f.k = "map" THEN [maps EXCEPT ![f.inst] = f.n] ELSE maps

\* handle_in_link: a ping comes back as a pong; the identity ends the handshake.
HandleInLink(f) ==
    IF f.k = "ping" THEN SendToDevice(Frame("pong")) /\ UNCHANGED <<st, gathering>>
    ELSE /\ IF f.k = "identity" /\ st = "identify" THEN st' = "open" /\ gathering' \in {FALSE, Gathers} ELSE UNCHANGED <<st, gathering>>
         /\ UNCHANGED <<outq, ids>>

HandleStreamIn ==
    /\ inq # <<>> /\ st # "closed" /\ inq' = Tail(inq)
    /\ LET f == Head(inq) IN
       /\ CASE f.k = "connected" /\ st = "link" -> SendToDevice(Frame("identity")) /\ st' = "identify" /\ gathering' = gathering
            [] f.k \in {"identity", "ping", "pong"} -> HandleInLink(f)
            [] f.k = "flushed" /\ st = "flush" -> st' = "closed" /\ UNCHANGED <<gathering, outq, ids>>
            [] f.k = "sync" /\ IsRequest(f) -> SendToDevice(SyncReply(f)) /\ UNCHANGED <<st, gathering>>
            [] OTHER -> UNCHANGED <<st, gathering, outq, ids>>
       /\ maps' = TimeMaps(f)
       /\ IF f.k = "answer" THEN ReturnCode(f.topic, f.of) ELSE NoReturnCode
       /\ cmdq' = IF f.k = "identity" /\ st = "identify" /\ gathering'
                  THEN Append(cmdq, [kind |-> "gathered", src |-> FALSE, id |-> 0]) ELSE cmdq
    /\ UNCHANGED <<dev, gap>> /\ UNCHANGED counts

------------------------------------------------------------------------------
(* The device                                                               *)

\* A frame reaches the device: a connect restarts it, other frames count.
DeviceReceives ==
    /\ outq # <<>> /\ outq' = Tail(outq)
    /\ LET f == Head(outq) IN
       /\ inq' = IF f.k = "connect" THEN Append(inq, Frame("connected"))
                 ELSE IF f.k = "identity" /\ dev.up THEN Append(inq, Frame("identity")) ELSE inq
       /\ dev' = IF f.k = "connect" THEN [NewDev EXCEPT !.up = TRUE]
                 ELSE IF ~dev.up THEN dev
                 ELSE [dev EXCEPT !.in = (f.id + 1) % FrameIds,
                                  !.todo = IF f.k \in {"pub", "flush", "reply", "ping"} THEN Append(@, f) ELSE @,
                                  !.sync = IF f.k = "reply" THEN @ \ {<<f.inst, f.n>>} ELSE @]
       /\ gap' = (gap \/ (dev.up /\ f.k # "connect" /\ f.id # dev.in)
                      \/ (dev.up /\ f.k = "reply" /\ <<f.inst, f.n>> \notin dev.sync))
    /\ ans' = NoAns /\ UNCHANGED <<st, gathering, ids, maps, cmdq, wait>> /\ UNCHANGED counts

\* It handles the next message: a publish is answered when it has a tracking id; a
\* reply is published on its own topic, too.
DeviceHandles ==
    /\ dev.todo # <<>> /\ dev.up
    /\ LET f == Head(dev.todo) IN
       inq' = CASE f.k = "pub" /\ f.trk # 0 -> Append(inq, [Frame("answer") EXCEPT !.topic = f.topic, !.of = f.of])
                [] f.k = "flush" -> Append(inq, Frame("flushed"))
                [] f.k = "reply" -> Append(inq, [Frame("sync") EXCEPT !.topic = "rsp", !.inst = f.inst, !.n = f.n])
                [] f.k = "ping" -> Append(inq, Frame("pong"))
                [] f.k = "pub" /\ f.trk = 0 -> inq
    /\ dev' = [dev EXCEPT !.todo = Tail(@)]
    /\ ans' = NoAns /\ UNCHANGED <<st, gathering, ids, maps, cmdq, outq, wait, gap>> /\ UNCHANGED counts

\* It asks for the time, publishes a time map, or pings.
DeviceSends(k, i) ==
    /\ dev.up /\ st # "closed" /\ cmds + sends < MaxInputs /\ sends' = sends + 1
    /\ inq' = Append(inq, CASE k = "sync" -> [Frame(k) EXCEPT !.topic = "req", !.inst = i, !.n = sends]
                            [] k = "map" -> [Frame(k) EXCEPT !.inst = i, !.n = session]
                            [] k = "ping" -> Frame(k))
    /\ dev' = IF k = "sync" THEN [dev EXCEPT !.sync = @ \cup {<<i, sends>>}] ELSE dev
    /\ ans' = NoAns /\ UNCHANGED <<st, gathering, ids, maps, cmdq, outq, wait, gap, cmds, session, resets>>

\* The connection is lost while the host sleeps, with what was on its way.
DeviceResets ==
    /\ st = "open" /\ dev.up /\ session + resets < MaxConnects /\ resets' = resets + 1
    /\ dev' = NewDev /\ inq' = <<>> /\ outq' = <<>> /\ ans' = NoAns
    /\ UNCHANGED <<st, gathering, ids, maps, cmdq, wait, gap, cmds, sends, session>>

------------------------------------------------------------------------------
\* The application publishes; with a source, it waits for the return code.
Command(kind, src) ==
    /\ cmds + sends < MaxInputs /\ (src => wait[TopicOf(kind)] = 0)
    /\ cmds' = cmds + 1
    /\ cmdq' = Append(cmdq, [kind |-> kind, src |-> src, id |-> cmds + 1])
    /\ wait' = IF src THEN [wait EXCEPT ![TopicOf(kind)] = cmds + 1] ELSE wait
    /\ ans' = NoAns /\ UNCHANGED <<st, gathering, ids, maps, outq, inq, dev, gap, sends, session, resets>>

\* Its time is over: when the command or its answer was lost, or at any time.
OnItsWay(n) == 
    \/ \E k \in DOMAIN cmdq : cmdq[k].id = n
    \/ \E q \in {outq, dev.todo, inq} : \E k \in DOMAIN q : q[k].of = n

GiveUp(t) ==
    /\ wait[t] # 0 /\ (TimesOut \/ (resets > 0 /\ ~OnItsWay(wait[t])))
    /\ wait' = [wait EXCEPT ![t] = 0] /\ ans' = NoAns
    /\ UNCHANGED <<st, gathering, ids, maps, cmdq, outq, inq, dev, gap>> /\ UNCHANGED counts

Next ==
    \/ Open \/ Replay \/ Close \/ HandleCmd \/ HandleStreamIn \/ DeviceReceives \/ DeviceHandles \/ DeviceResets
    \/ \E k \in {"sync", "map", "ping"}, i \in Instances : DeviceSends(k, i)
    \/ \E c \in Cmds : Command(c[1], c[2])
    \/ \E t \in Topics : GiveUp(t)

Spec == Init /\ [][Next]_vars
FairSpec == Spec /\ WF_vars(HandleCmd) /\ WF_vars(HandleStreamIn) /\ WF_vars(DeviceReceives) /\ WF_vars(DeviceHandles) /\ WF_vars(Replay)

------------------------------------------------------------------------------
\* The device misses no frame, also when the connection is made again; every reply
\* to a request for the time is for a request of that instance which is not answered;
\* a time map that the driver keeps is one of this session.
LinkExact == ~gap /\ \A i \in Instances : maps[i] \in {0, session}

\* A return code ends the command that it is about.
AnswerStep == ans'.topic # "none" => wait[ans'.topic] \in {0, ans'.of}
AnswersOwn == [][AnswerStep]_vars

AwaitsAnswer == resets = 0 /\ \E t \in Topics : wait[t] # 0

\* A command whose return code is awaited is answered, or the connection was lost.
PublishesAnswered == []<>~AwaitsAnswer
==============================================================================

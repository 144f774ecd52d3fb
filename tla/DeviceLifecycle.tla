--------------------------- MODULE DeviceLifecycle ---------------------------
(***************************************************************************)
(* The lives of one device prefix, across the three threads that know it:  *)
(* the USB backend that finds it on the bus, the upper-level (UL) driver   *)
(* thread of each life, and the frontend thread that owns frontend_dev_s   *)
(* and the subscriptions to the prefix.                                    *)
(*                                                                         *)
(* A device that is plugged in again, or that resets, is a new life with   *)
(* the same prefix, and so the same topics.                                *)
(***************************************************************************)
EXTENDS Integers, Sequences, TLAPS

CONSTANTS MaxLives,    \* times the device is plugged in (bound)
          MaxPublish,  \* publishes of the application (bound)
          Subscribes,  \* does the UL thread fetch retained values on open?
          FastReplug,  \* may it return before its removal is complete?
          Finalizes    \* may the application finalize the driver?

ASSUME LifecycleAssumption ==
    /\ MaxLives \in Nat \ {0} /\ MaxPublish \in Nat
    /\ Subscribes \in BOOLEAN /\ FastReplug \in BOOLEAN /\ Finalizes \in BOOLEAN

Lives == 1..MaxLives
Responder == 0     \* device_removed_responder_fn as a subscriber

VARIABLES bus,         \* the life present on the bus, 0 when none
          plugged,     \* lives so far
          ll,          \* ll[l]: the backend's dev_s of life l
          ul,          \* ul[l]: its UL thread
          gather,      \* gather[l]: its subscription to the retained values
          finalize,    \* lives whose UL thread was sent FINALIZE by join
          msg_backend, \* c->msg_backend
          msg_pend,    \* pubsub->msg_pend
          devices,     \* c->devices, the frontend_dev_s of lives
          freed,       \* lives whose UL device and cmd_q were freed
          subs,        \* subs[t]: the subscribers of topic t
          retained,    \* is a configuration value retained under the prefix?
          list,        \* the retained value of @/list: how many entries
          view,        \* what @/!add and @/!remove last told the application
          published,   \* publishes of the application so far
          pc,          \* where the frontend thread is
          target,      \* the life that device_remove works on
          do_exit,     \* c->do_exit
          called,      \* lives whose device_subscriber was called when freed
          echoed       \* lives that were sent their own data

vars == <<bus, plugged, ll, ul, gather, finalize, msg_backend, msg_pend, devices,
          freed, subs, retained, list, view, published, pc, target, do_exit, called, echoed>>

usb == <<bus, plugged, ll>>
threads == <<ul, gather, finalize>>
loop == <<published, pc, target, do_exit>>
pubsub == <<subs, retained, list, view, called, echoed>>

Init ==
    /\ bus = 0 /\ plugged = 0
    /\ ll = [l \in Lives |-> "none"] /\ ul = [l \in Lives |-> "none"]
    /\ gather = [l \in Lives |-> "idle"] /\ finalize = {}
    /\ msg_backend = <<>> /\ msg_pend = <<>>
    /\ devices = <<>> /\ freed = {}
    /\ subs = [t \in {"dev", "cfg"} |-> {}]
    /\ retained = FALSE /\ list = 0 /\ view = "absent" /\ published = 0
    /\ pc = "backend" /\ target = 0 /\ do_exit = FALSE
    /\ called = {} /\ echoed = {}

\* device_lookup finds the first entry with the prefix: lives share it.
DeviceLookup == IF devices = <<>> THEN 0 ELSE Head(devices)

------------------------------------------------------------------------------
(* The bus and the USB backend                                              *)

RemovalsComplete ==
    /\ devices = <<>> /\ msg_backend = <<>> /\ msg_pend = <<>> /\ pc = "backend"
    /\ \A l \in Lives : ll[l] \in {"none", "retired"}

Plug ==
    /\ bus = 0 /\ plugged < MaxLives
    /\ FastReplug \/ RemovalsComplete
    /\ plugged' = plugged + 1 /\ bus' = plugged + 1
    /\ UNCHANGED <<ll, threads, msg_backend, msg_pend, devices, freed, pubsub,
                   loop>>

Unplug ==
    /\ bus # 0 /\ bus' = 0
    /\ UNCHANGED <<plugged, ll, threads, msg_backend, msg_pend, devices, freed, pubsub,
                   loop>>

\* handle_hotplug: announce what is new on the bus, then begin to remove
\* what is gone from it
Hotplug ==
    LET added == {l \in Lives : l = bus /\ ll[l] = "none"}
        gone == {l \in Lives : l # bus /\ ll[l] = "active"}
    IN  /\ added \cup gone # {}
        /\ ll' = [l \in Lives |-> IF l \in added THEN "active"
                                  ELSE IF l \in gone THEN "removing" ELSE ll[l]]
        /\ msg_backend' = IF added = {} THEN msg_backend
                          ELSE Append(msg_backend, [op |-> "add", life |-> bus])
        /\ UNCHANGED <<bus, plugged, threads, msg_pend, devices, freed, pubsub,
                       loop>>

\* process_removing: the transfers have drained, LL_TERMINATED goes to rsp_q
ProcessRemoving(l) ==
    /\ ll[l] = "removing"
    /\ ll' = [ll EXCEPT ![l] = "retired"]
    /\ UNCHANGED <<bus, plugged, threads, msg_backend, msg_pend, devices, freed,
                   pubsub, loop>>

------------------------------------------------------------------------------
(* The UL thread of a life                                                  *)

\* The bound on data: one message of a life at a time in the two queues
InFlight(l) ==
    LET q == msg_backend \o msg_pend
    IN  \E i \in 1..Len(q) : q[i].op = "data" /\ q[i].life = l

\* Samples, statistics or values: any publish under the device's prefix
SendData(l) ==
    /\ ul[l] = "run" /\ ~InFlight(l)
    /\ msg_backend' = Append(msg_backend, [op |-> "data", life |-> l])
    /\ UNCHANGED <<usb, threads, msg_pend, devices, freed, pubsub, loop>>

\* jsdrvp_device_subscribe with RETAIN: open_seq_start_gather, and the first
\* half of a replay; once in a life, a bound
Subscribe(l) ==
    /\ Subscribes
    /\ ul[l] = "run" /\ gather[l] = "idle" /\ DeviceLookup # 0
    /\ gather' = [gather EXCEPT ![l] = "held"]
    /\ msg_backend' = Append(msg_backend, [op |-> "sub", topic |-> "cfg", who |-> DeviceLookup])
    /\ UNCHANGED <<usb, ul, finalize, msg_pend, devices, freed, pubsub, loop>>

Unsubscribe(l) ==
    /\ ul[l] = "run" /\ gather[l] = "held" /\ DeviceLookup # 0
    /\ gather' = [gather EXCEPT ![l] = "done"]
    /\ msg_backend' = Append(msg_backend, [op |-> "unsub", topic |-> "cfg", who |-> DeviceLookup])
    /\ UNCHANGED <<usb, ul, finalize, msg_pend, devices, freed, pubsub, loop>>

\* Faulty: DEVICE_REMOVE is sent by the backend when removal begins.
TerminateEarly(l) ==
    /\ ul[l] = "run" /\ ll[l] \in {"removing", "retired"}
    /\ \A i \in 1..Len(msg_backend) : msg_backend[i].op # "remove"
    /\ msg_backend' = Append(msg_backend, [op |-> "remove", life |-> l])
    /\ ul' = [ul EXCEPT ![l] = IF ll[l] = "retired" THEN "done" ELSE "run"]
    /\ UNCHANGED <<usb, gather, finalize, msg_pend, devices, freed, pubsub,
                   loop>>

\* Faulty: the thread ends without DEVICE_REMOVE.
TerminateSilent(l) ==
    /\ ul[l] = "run" /\ ll[l] = "retired"
    /\ ul' = [ul EXCEPT ![l] = "done"]
    /\ UNCHANGED <<usb, gather, finalize, msg_backend, msg_pend, devices, freed,
                   pubsub, loop>>

\* LL_TERMINATED ends the thread; DEVICE_REMOVE is its last message, unless
\* the frontend thread is already joining it
Terminate(l) ==
    /\ ul[l] = "run" /\ ll[l] = "retired"
    /\ ul' = [ul EXCEPT ![l] = "done"]
    /\ msg_backend' = IF l \in finalize THEN msg_backend
                      ELSE Append(msg_backend, [op |-> "remove", life |-> l])
    /\ UNCHANGED <<usb, gather, finalize, msg_pend, devices, freed, pubsub,
                   loop>>

\* FINALIZE ends it as well, without DEVICE_REMOVE.
Finalize(l) ==
    /\ ul[l] = "run" /\ l \in finalize
    /\ ul' = [ul EXCEPT ![l] = "done"]
    /\ UNCHANGED <<usb, gather, finalize, msg_backend, msg_pend, devices, freed,
                   pubsub, loop>>

------------------------------------------------------------------------------
(* The frontend thread: handle_backend_msg                                  *)

Pend(msgs) == msg_pend' = msg_pend \o msgs
SubMsg(op, who) == [op |-> op, topic |-> "dev", who |-> who]

\* device_list_publish: one entry for each frontend_dev_s
ListMsg == [op |-> "list", n |-> Len(devices')]

\* device_add_msg, device_list_publish
AddMsg(l) ==
    /\ devices' = Append(devices, l)
    /\ ul' = [ul EXCEPT ![l] = "run"]
    /\ Pend(<<[op |-> "add"], SubMsg("unsub", Responder), SubMsg("sub", l), ListMsg>>)
    /\ UNCHANGED <<finalize, pc, target>>

\* The factory failed: the device is not listed.
AddFails ==
    /\ UNCHANGED <<devices, ul, finalize, pc, target>>
    /\ Pend(<<ListMsg>>)

\* device_remove_msg up to the join, which sends FINALIZE
RemoveMsg ==
    /\ target' = DeviceLookup
    /\ IF DeviceLookup = 0
       THEN Pend(<<ListMsg>>) /\ UNCHANGED <<finalize, pc>>
       ELSE /\ finalize' = finalize \cup {DeviceLookup}
            /\ pc' = "join"
            /\ UNCHANGED msg_pend
    /\ UNCHANGED <<devices, ul>>

\* Anything else is passed on, data with the device that device_lookup finds
\* as its origin
ForwardMsg(m) ==
    /\ Pend(<<IF m.op = "data" THEN [op |-> "data", life |-> m.life, origin |-> DeviceLookup]
              ELSE m>>)
    /\ UNCHANGED <<devices, ul, finalize, pc, target>>

HandleBackendMsg ==
    /\ pc = "backend" /\ msg_backend # <<>>
    /\ msg_backend' = Tail(msg_backend)
    /\ LET m == Head(msg_backend) IN
         \/ m.op = "add"    /\ (AddMsg(m.life) \/ AddFails)
         \/ m.op = "remove" /\ RemoveMsg
         \/ m.op \notin {"add", "remove"} /\ ForwardMsg(m)
    /\ UNCHANGED <<usb, gather, freed, pubsub, published, do_exit>>

\* The application publishes to the prefix, or configures the device (a
\* retained value), or finalizes the driver, while no backend message is
\* left: handle_cmd_msg
HandleCmdMsg ==
    /\ pc = "backend" /\ msg_backend = <<>>
    /\ pc' = "process"
    /\ \/ UNCHANGED <<msg_pend, published, do_exit>>
       \/ /\ Finalizes /\ do_exit' = TRUE
          /\ UNCHANGED <<msg_pend, published>>
       \/ /\ published < MaxPublish
          /\ published' = published + 1
          /\ \E t \in {"dev", "cfg"} : Pend(<<[op |-> "pub", topic |-> t]>>)
          /\ UNCHANGED do_exit
    /\ UNCHANGED <<usb, threads, msg_backend, devices, freed, pubsub, target>>

------------------------------------------------------------------------------
(* The frontend thread: device_remove                                       *)

\* join returned: it freed the UL device with its cmd_q
Join ==
    /\ pc = "join" /\ ul[target] = "done"
    /\ freed' = freed \cup {target}
    /\ pc' = "drain"
    /\ UNCHANGED <<usb, threads, msg_backend, msg_pend, devices, pubsub, published, target, do_exit>>

\* The first jsdrv_pubsub_process is done: swap the subscriber
Swap ==
    /\ pc = "drain" /\ msg_pend = <<>>
    /\ Pend(<<SubMsg("sub", Responder), SubMsg("unsub", target)>>)
    /\ pc' = "flush"
    /\ UNCHANGED <<usb, threads, msg_backend, devices, freed, pubsub, published, target, do_exit>>

\* jsdrv_list_remove(&d->item); device_remove_all has already taken d off
Without(l) ==
    IF \E i \in 1..Len(devices) : devices[i] = l
    THEN LET i == CHOOSE i \in 1..Len(devices) : devices[i] = l
         IN  SubSeq(devices, 1, i - 1) \o SubSeq(devices, i + 1, Len(devices))
    ELSE devices

\* Faulty: @/list is not published again.
FreeDeviceUnlisted ==
    /\ pc = "flush" /\ msg_pend = <<>>
    /\ devices' = Without(target)
    /\ IF do_exit THEN pc' = "exit" /\ UNCHANGED msg_pend
       ELSE pc' = "backend" /\ Pend(<<[op |-> "remove"]>>)
    /\ target' = 0
    /\ UNCHANGED <<usb, threads, msg_backend, freed, pubsub, published, do_exit>>

\* The second one is done: free d.  device_remove_msg then publishes
\* DEVICE_REMOVE and the list, device_remove_all goes on with its loop.
FreeDevice ==
    /\ pc = "flush" /\ msg_pend = <<>>
    /\ devices' = Without(target)
    /\ IF do_exit THEN pc' = "exit" /\ UNCHANGED msg_pend
       ELSE pc' = "backend" /\ Pend(<<[op |-> "remove"], ListMsg>>)
    /\ target' = 0
    /\ UNCHANGED <<usb, threads, msg_backend, freed, pubsub, published, do_exit>>

\* device_remove_all at the exit of the frontend thread
RemoveAll ==
    /\ pc = "exit" /\ devices # <<>>
    /\ target' = Head(devices)
    /\ devices' = Tail(devices)
    /\ finalize' = finalize \cup {Head(devices)}
    /\ pc' = "join"
    /\ UNCHANGED <<usb, ul, gather, msg_backend, msg_pend, freed, pubsub, published, do_exit>>

\* backends_finalize and the end of the thread: nothing is received any more
ExitDone ==
    /\ pc = "exit" /\ devices = <<>>
    /\ pc' = "done"
    /\ UNCHANGED <<usb, threads, msg_backend, msg_pend, devices, freed, pubsub,
                   published, target, do_exit>>

------------------------------------------------------------------------------
(* The frontend thread: jsdrv_pubsub_process                                *)

\* device_subscriber pushes to d->device->cmd_q
Call(S) == called' = called \cup (S \cap freed)

ProcessSub(m) ==
    /\ subs' = [subs EXCEPT ![m.topic] = @ \cup {m.who}]
    /\ Call(IF m.topic = "cfg" /\ retained THEN {m.who} ELSE {})
    /\ UNCHANGED <<retained, list, view, echoed>>

ProcessUnsub(m) ==
    /\ subs' = [subs EXCEPT ![m.topic] = @ \ {m.who}]
    /\ UNCHANGED <<retained, list, view, called, echoed>>

\* publish: the topic's subscribers and those of its parents, without the
\* origin; "cfg" is below "dev"
ProcessPub(m) ==
    /\ retained' = (retained \/ m.topic = "cfg")
    /\ Call((subs["dev"] \cup (IF m.topic = "cfg" THEN subs["cfg"] ELSE {})) \ {Responder})
    /\ UNCHANGED <<subs, list, view, echoed>>

ProcessData(m) ==
    /\ Call(subs["dev"] \ {m.origin, Responder})
    /\ echoed' = echoed \cup (subs["dev"] \cap ({m.life} \ {m.origin}))
    /\ UNCHANGED <<subs, retained, list, view>>

ProcessNews(m) ==
    /\ view' = CASE m.op = "add" -> "present" [] m.op = "remove" -> "absent" [] OTHER -> view
    /\ list' = IF m.op = "list" THEN m.n ELSE list
    /\ UNCHANGED <<subs, retained, called, echoed>>

ProcessMsg ==
    /\ pc \in {"process", "drain", "flush"} /\ msg_pend # <<>>
    /\ msg_pend' = Tail(msg_pend)
    /\ LET m == Head(msg_pend) IN
         \/ m.op = "sub"   /\ ProcessSub(m)
         \/ m.op = "unsub" /\ ProcessUnsub(m)
         \/ m.op = "pub"   /\ ProcessPub(m)
         \/ m.op = "data"  /\ ProcessData(m)
         \/ m.op \in {"add", "remove", "list"} /\ ProcessNews(m)
    /\ UNCHANGED <<usb, threads, msg_backend, devices, freed, loop>>

ProcessDone ==
    /\ pc = "process" /\ msg_pend = <<>>
    /\ pc' = IF do_exit THEN "exit" ELSE "backend"
    /\ UNCHANGED <<usb, threads, msg_backend, msg_pend, devices, freed, pubsub,
                   published, target, do_exit>>

------------------------------------------------------------------------------
Backend == Hotplug \/ \E l \in Lives : ProcessRemoving(l)
Exit(l) == Terminate(l) \/ Finalize(l)
Frontend == \/ HandleBackendMsg \/ HandleCmdMsg \/ Join \/ Swap \/ FreeDevice
            \/ ProcessMsg \/ ProcessDone \/ RemoveAll \/ ExitDone

Next ==
    \/ Plug \/ Unplug \/ Backend \/ Frontend
    \/ \E l \in Lives : SendData(l) \/ Subscribe(l) \/ Unsubscribe(l) \/ Exit(l)

Spec == Init /\ [][Next]_vars

\* The threads run.  Nobody need plug, unplug, publish or send data.
FairSpec ==
    /\ Spec
    /\ WF_vars(Backend) /\ WF_vars(Frontend)
    /\ \A l \in Lives : WF_vars(Exit(l))

------------------------------------------------------------------------------
FromThreads ==
    [op : {"add", "remove", "data"}, life : Lives] \cup
    [op : {"sub", "unsub"}, topic : {"cfg"}, who : Lives]
ToProcess ==
    [op : {"sub", "unsub"}, topic : {"dev", "cfg"}, who : {Responder} \cup Lives] \cup
    [op : {"data"}, life : Lives, origin : {0} \cup Lives] \cup
    [op : {"add", "remove"}] \cup [op : {"list"}, n : Nat] \cup
    [op : {"pub"}, topic : {"dev", "cfg"}]

TypeOK ==
    /\ bus \in {0} \cup Lives /\ plugged \in 0..MaxLives
    /\ ll \in [Lives -> {"none", "active", "removing", "retired"}]
    /\ ul \in [Lives -> {"none", "run", "done"}]
    /\ gather \in [Lives -> {"idle", "held", "done"}]
    /\ finalize \subseteq Lives /\ freed \subseteq Lives
    /\ msg_backend \in Seq(FromThreads) /\ msg_pend \in Seq(ToProcess)
    /\ devices \in Seq(Lives)
    /\ subs \in [{"dev", "cfg"} -> SUBSET ({Responder} \cup Lives)]
    /\ retained \in BOOLEAN /\ list \in Nat /\ view \in {"absent", "present"}
    /\ published \in 0..MaxPublish
    /\ pc \in {"backend", "process", "join", "drain", "flush", "exit", "done"}
    /\ target \in (IF pc \in {"join", "drain", "flush"} THEN Lives ELSE {0} \cup Lives)
    /\ do_exit \in BOOLEAN
    /\ called \subseteq Lives /\ echoed \subseteq Lives

\* "guarantees no callback with user_data==d remains in flight after this
\* call returns": device_subscriber never pushes to a queue that join freed.
NoCallAfterFree == called = {}

\* The swap of subscribers in device_remove leaves only one way to such a call:
\* the subscriptions that the device's own gather made.
OnlyGathersOutlive == \A l \in called : gather[l] # "idle"

\* "publishes under the device prefix are tagged with the device as origin
\* and suppressed from echoing back"
NoEcho == echoed = {}

\* The frontend thread is between two passes of its loop.
AtRest == pc = "backend" /\ msg_pend = <<>> /\ msg_backend = <<>>

\* The "device removed" responder answers for the prefix only while no
\* device has it, and otherwise exactly the device does.
OneOwner ==
    AtRest /\ plugged > 0 /\ subs["dev"] # {} =>
      subs["dev"] = IF devices = <<>> THEN {Responder} ELSE {DeviceLookup}

\* "inserts a responder in case the application attempts to call the device
\* again": no responder while a device with that prefix is listed.
ResponderMeansGone == AtRest /\ devices # <<>> => Responder \notin subs["dev"]

\* What the application was told last by @/!add or @/!remove is what @/list
\* says, and both are what the frontend has.
ViewMatchesList ==
    AtRest => list = Len(devices) /\ (view = "present") = (devices # <<>>)

\* "the frontend sees every prior message before this one and can safely
\* free the frontend_dev_s when it processes DEVICE_REMOVE": the device that
\* device_remove joins is the one that sent DEVICE_REMOVE, so its thread has
\* already ended.
JoinsTheSender == pc = "join" /\ ~do_exit => ul[target] = "done"

\* What is known of the devices agrees whenever the frontend is between two
\* passes: what the application was told last, @/list, and the frontend's own
\* list; and the prefix is answered for by the device, or by the "device
\* removed" responder while no device has it.
DevicesAgree == ViewMatchesList /\ OneOwner

\* device_remove frees safely: it joins the device whose thread has ended,
\* and only subscriptions that the device's own gather made can still call a
\* freed device.
FreedSafely == JoinsTheSender /\ OnlyGathersOutlive

OffTheList == do_exit \/ (devices = <<>> /\ view = "absent")

\* A device that stays away is eventually off the list.
GoneIsNoticed == <>[](bus = 0) => <>[]OffTheList

\* Finalizing ends, although device_remove_all waits for every UL thread and
\* no message that these send is received any more.
ExitCompletes == []<>(~do_exit \/ pc = "done")

------------------------------------------------------------------------------
(* Why they hold, when the device does not return before its removal is     *)
(* complete: only the life that was plugged in last is ever in flight.      *)

\* No device has been taken off the list for the exit of the thread.
Serving == ~do_exit \/ pc \in {"backend", "process"}

\* Lives before the last are over, lives after it have not begun.
LivesInv ==
    /\ bus \in {0, plugged}
    /\ \A l \in Lives :
         /\ l # plugged => ll[l] \in {"none", "retired"} /\ ul[l] # "run"
         /\ l > plugged => ll[l] = "none" /\ ul[l] = "none"
         /\ ll[l] = "none" => ul[l] = "none"
    /\ devices # <<>> => plugged > 0 /\ devices = <<plugged>> /\ ul[plugged] # "none"

\* In msg_backend DEVICE_ADD is alone and DEVICE_REMOVE is last.
QueueInv ==
    /\ msg_backend # <<>> => plugged > 0 /\ ll[plugged] # "none"
    /\ \A i \in 1..Len(msg_backend) : LET m == msg_backend[i] IN
         /\ m.op \in {"add", "remove", "data"} => m.life = plugged
         /\ m.op \in {"sub", "unsub"} => m.who = plugged /\ gather[plugged] # "idle"
         /\ m.op = "add" => Len(msg_backend) = 1 /\ ul[plugged] = "none"
         /\ m.op # "add" => ul[plugged] # "none" /\
                            (pc \in {"backend", "process"} => devices # <<>>)
         /\ m.op = "remove" => i = Len(msg_backend) /\ ul[plugged] = "done"

\* device_remove works on that life, whose messages have all been received
\* unless the driver exits.
PhaseInv ==
    /\ do_exit => pc # "backend"
    /\ pc \in {"exit", "done"} => do_exit
    /\ pc \in {"join", "drain", "flush"} =>
         /\ target = plugged /\ plugged > 0 /\ ul[plugged] # "none"
         /\ do_exit => devices = <<>>
         /\ ~do_exit => devices # <<>> /\ ul[plugged] = "done" /\ msg_backend = <<>>
    /\ \A l \in Lives : ul[l] = "run" /\ pc \in {"backend", "process"} => devices # <<>>
    /\ \A l \in freed : ul[l] = "done" /\ (pc \in {"backend", "process"} => devices # <<l>>)

\* Data carries its sender p as origin, and only gathers (by g) subscribe below
\* the device.
Proper(m, p, g) ==
    /\ m.op = "data" => m.life = p /\ m.origin = p
    /\ m.op \in {"sub", "unsub"} =>
         IF m.topic = "dev" THEN m.who \in {Responder, p} ELSE m.who \in Lives /\ g[m.who] # "idle"

\* The application's publish is the last message of a pass.
PendInv ==
    /\ subs["dev"] \subseteq {Responder, plugged}
    /\ \A l \in subs["cfg"] : l \in Lives /\ gather[l] # "idle"
    /\ \A i \in 1..Len(msg_pend) :
         /\ Proper(msg_pend[i], plugged, gather)
         /\ msg_pend[i].op = "pub" => pc = "process" /\ i = Len(msg_pend)

\* The last message of kind K in q, if it has one, is in V; if it has none, d.
LastOf(q, K, V, d) ==
    \/ \E i \in 1..Len(q) : q[i] \in K /\ q[i] \in V /\ \A j \in i+1..Len(q) : q[j] \notin K
    \/ d /\ \A j \in 1..Len(q) : q[j] \notin K

\* What the messages of msg_pend will have made of subs["dev"], list and view
SubOf(ops, w) == [op : ops, topic : {"dev"}, who : {w}]
WillHave(w) == LastOf(msg_pend, SubOf({"sub", "unsub"}, w), SubOf({"sub"}, w), w \in subs["dev"])
WillList(n) == LastOf(msg_pend, [op : {"list"}, n : Nat], [op : {"list"}, n : {n}], list = n)
WillTell(op, v) == LastOf(msg_pend, [op : {"add", "remove"}], [op : {op}], view = v)

\* When msg_pend has been processed, all agree with the list of devices.
SettledInv ==
    Serving =>
      /\ \A l \in Lives : WillHave(l) <=> (devices = <<l>> /\ pc # "flush")
      /\ WillHave(Responder) => (devices = <<>> \/ pc = "flush")
      /\ WillList(Len(devices))
      /\ IF devices = <<>> THEN WillTell("remove", "absent") ELSE WillTell("add", "present")

CallInv == echoed = {} /\ \A l \in called : gather[l] # "idle"

IInv == /\ TypeOK /\ LivesInv /\ QueueInv /\ PhaseInv
        /\ PendInv /\ SettledInv /\ CallInv

------------------------------------------------------------------------------
(* Lemmas about queues                                                      *)

\* An element of a longer or a shorter queue
LEMMA AppendElems ==
    ASSUME NEW T, NEW q \in Seq(T), NEW m \in T
    PROVE  /\ Append(q, m) \in Seq(T) /\ Len(Append(q, m)) = Len(q) + 1
           /\ \A i \in 1..Len(q) : Append(q, m)[i] = q[i]
           /\ Append(q, m)[Len(q) + 1] = m
OBVIOUS

LEMMA TailElems ==
    ASSUME NEW T, NEW q \in Seq(T), q # <<>>
    PROVE  /\ Tail(q) \in Seq(T) /\ Len(Tail(q)) = Len(q) - 1 /\ Len(q) \in Nat \ {0}
           /\ \A i \in 1..Len(Tail(q)) : i + 1 \in 1..Len(q) /\ Tail(q)[i] = q[i + 1]
           /\ Head(q) = q[1] /\ Head(q) \in T /\ 1 \in 1..Len(q)
OBVIOUS

\* What is pended at the end of msg_pend decides what it will have made.
LEMMA LastAppend ==
    ASSUME NEW T, NEW q \in Seq(T), NEW m \in T, NEW K, NEW V, NEW d
    PROVE  LastOf(Append(q, m), K, V, d) <=> IF m \in K THEN m \in V ELSE LastOf(q, K, V, d)
<1> DEFINE a == Append(q, m)
<1> HIDE DEF a
<1>1. /\ Len(a) = Len(q) + 1 /\ a[Len(q) + 1] = m /\ Len(q) \in Nat
      /\ \A i \in 1..Len(q) : a[i] = q[i]
  BY AppendElems DEF a
<1>2. CASE m \in K
  <2>1. \A i \in 1..Len(a) : (\A j \in i+1..Len(a) : a[j] \notin K) => i = Len(q) + 1
    BY <1>1, <1>2
  <2>2. LastOf(a, K, V, d) => m \in V
    BY <1>1, <1>2, <2>1 DEF LastOf
  <2>3. ASSUME m \in V PROVE LastOf(a, K, V, d)
    <3>1. Len(q) + 1 \in 1..Len(a) /\ (Len(q)+1)+1..Len(a) = {}
      BY <1>1
    <3> QED BY <1>1, <1>2, <2>3, <3>1 DEF LastOf
  <2> QED BY <1>2, <2>2, <2>3 DEF a
<1>3. CASE m \notin K
  <2>1. ASSUME NEW i \in 1..Len(q)
        PROVE  (\A j \in i+1..Len(a) : a[j] \notin K) <=> (\A j \in i+1..Len(q) : q[j] \notin K)
    BY <1>1, <1>3
  <2>2. (\A j \in 1..Len(a) : a[j] \notin K) <=> (\A j \in 1..Len(q) : q[j] \notin K)
    BY <1>1, <1>3
  <2>3. 1..Len(a) = 1..Len(q) \cup {Len(q) + 1}
    BY <1>1
  <2> QED BY <1>1, <1>3, <2>1, <2>2, <2>3, Zenon DEF LastOf, a
<1> QED BY <1>2, <1>3

\* Processing the first message leaves what the queue will have made.
LEMMA LastTail ==
    ASSUME NEW T, NEW q \in Seq(T), q # <<>>, NEW K, NEW V, NEW d, NEW e,
           e <=> IF Head(q) \in K THEN Head(q) \in V ELSE d
    PROVE  LastOf(Tail(q), K, V, e) <=> LastOf(q, K, V, d)
<1> DEFINE t == Tail(q)
           Later(s, i) == \A j \in i+1..Len(s) : s[j] \notin K
           Fixed(s, i) == s[i] \in K /\ s[i] \in V /\ Later(s, i)
<1> HIDE DEF t
<1>1. /\ Len(t) = Len(q) - 1 /\ Len(q) \in Nat \ {0} /\ Head(q) = q[1]
      /\ \A i \in 1..Len(t) : t[i] = q[i + 1]
  BY TailElems DEF t
<1>2. \A i \in 0..Len(t) : Later(t, i) <=> Later(q, i + 1)
  <2> TAKE i \in 0..Len(t)
  <2>1. ASSUME Later(t, i), NEW j \in i+2..Len(q) PROVE q[j] \notin K
    <3>1. j - 1 \in i+1..Len(t) /\ j - 1 \in 1..Len(t) /\ (j - 1) + 1 = j
      BY <1>1
    <3> QED BY <1>1, <2>1, <3>1, Zenon
  <2>2. ASSUME Later(q, i + 1), NEW j \in i+1..Len(t) PROVE t[j] \notin K
    <3>1. j + 1 \in (i+1)+1..Len(q) /\ j \in 1..Len(t)
      BY <1>1
    <3> QED BY <1>1, <2>2, <3>1
  <2>3. (i + 1) + 1 = i + 2
    OBVIOUS
  <2> QED BY <2>1, <2>2, <2>3
<1>3. \A i \in 1..Len(t) : Fixed(t, i) <=> Fixed(q, i + 1)
  BY <1>1, <1>2
<1>4. (\E i \in 1..Len(q) : Fixed(q, i)) <=> (Fixed(q, 1) \/ \E i \in 1..Len(t) : Fixed(t, i))
  <2>1. ASSUME NEW i \in 1..Len(q), Fixed(q, i), i # 1 PROVE \E k \in 1..Len(t) : Fixed(t, k)
    <3>1. i - 1 \in 1..Len(t) /\ (i - 1) + 1 = i
      BY <1>1, <2>1
    <3>2. Fixed(t, i - 1)
      BY <1>3, <2>1, <3>1, Zenon
    <3> QED BY <3>1, <3>2
  <2>2. ASSUME NEW i \in 1..Len(t), Fixed(t, i) PROVE \E k \in 1..Len(q) : Fixed(q, k)
    <3>1. i + 1 \in 1..Len(q)
      BY <1>1
    <3> QED BY <1>3, <2>2, <3>1
  <2>3. 1 \in 1..Len(q)
    BY <1>1
  <2> HIDE DEF Fixed
  <2> QED BY <2>1, <2>2, <2>3
<1>5. Later(t, 0) <=> Later(q, 1)
  <2>1. 0 \in 0..Len(t) /\ 0 + 1 = 1
    BY <1>1
  <2> QED BY <1>2, <2>1
<1>6. Later(q, 0) <=> Later(q, 1) /\ q[1] \notin K
  <2>1. 0+1..Len(q) = 1+1..Len(q) \cup {1}
    BY <1>1
  <2> QED BY <2>1
<1>7. 0+1..Len(q) = 1..Len(q) /\ 0+1..Len(t) = 1..Len(t)
  BY <1>1
<1>8. LastOf(q, K, V, d) <=> (\E i \in 1..Len(q) : Fixed(q, i)) \/ (d /\ Later(q, 0))
  BY <1>7 DEF LastOf
<1>9. LastOf(t, K, V, e) <=> (\E i \in 1..Len(t) : Fixed(t, i)) \/ (e /\ Later(t, 0))
  BY <1>7 DEF LastOf
<1> QED
  <2>1. Fixed(q, 1) <=> q[1] \in K /\ q[1] \in V /\ Later(q, 1)
    OBVIOUS
  <2> HIDE DEF Fixed, Later
  <2> QED BY <1>1, <1>4, <1>5, <1>6, <1>8, <1>9, <2>1 DEF t

------------------------------------------------------------------------------
(* Types                                                                    *)

LEMMA LookupType ==
    ASSUME devices \in Seq(Lives)
    PROVE  /\ DeviceLookup \in {0} \cup Lives
           /\ DeviceLookup # 0 => devices # <<>> /\ DeviceLookup = Head(devices)
           /\ devices # <<>> => DeviceLookup \in Lives
BY LifecycleAssumption DEF DeviceLookup, Lives

LEMMA WithoutType ==
    ASSUME devices \in Seq(Lives), NEW l
    PROVE  Without(l) \in Seq(Lives)
<1>1. CASE \E i \in 1..Len(devices) : devices[i] = l
  <2> DEFINE i == CHOOSE i \in 1..Len(devices) : devices[i] = l
  <2>1. i \in 1..Len(devices)
    BY <1>1
  <2> HIDE DEF i
  <2>2. SubSeq(devices, 1, i - 1) \in Seq(Lives) /\ SubSeq(devices, i + 1, Len(devices)) \in Seq(Lives)
    BY <2>1
  <2> QED BY <1>1, <2>2 DEF Without, i
<1>2. CASE ~\E i \in 1..Len(devices) : devices[i] = l
  BY <1>2 DEF Without
<1> QED BY <1>1, <1>2

\* What is pended is of the type of msg_pend.
LEMMA PendType ==
    ASSUME msg_pend \in Seq(ToProcess), NEW s \in Seq(ToProcess), Pend(s)
    PROVE  msg_pend' \in Seq(ToProcess)
BY DEF Pend

LEMMA PendOne ==
    ASSUME msg_pend \in Seq(ToProcess), NEW m \in ToProcess, Pend(<<m>>)
    PROVE  msg_pend' \in Seq(ToProcess) /\ msg_pend' = Append(msg_pend, m)
BY DEF Pend

LEMMA SubMsgType ==
    ASSUME NEW op \in {"sub", "unsub"}, NEW who \in {Responder} \cup Lives
    PROVE  SubMsg(op, who) \in ToProcess
BY DEF SubMsg, ToProcess

LEMMA ListMsgType ==
    ASSUME devices' \in Seq(Lives)
    PROVE  ListMsg \in ToProcess
<1>1. Len(devices') \in Nat
  OBVIOUS
<1> QED BY <1>1 DEF ListMsg, ToProcess

LEMMA HandleBackendMsgType ==
    ASSUME TypeOK, HandleBackendMsg
    PROVE  TypeOK'
<1> DEFINE m == Head(msg_backend)
<1>0. m \in FromThreads /\ Tail(msg_backend) \in Seq(FromThreads) /\ msg_backend' = Tail(msg_backend)
  BY DEF HandleBackendMsg, TypeOK
<1>1. /\ UNCHANGED <<bus, plugged, ll, gather, freed, subs, retained, list, view, called, echoed,
                     published, do_exit>>
  BY DEF HandleBackendMsg, usb, pubsub
<1>a. \/ m.op = "add" /\ (AddMsg(m.life) \/ AddFails)
      \/ m.op = "remove" /\ RemoveMsg
      \/ m.op \notin {"add", "remove"} /\ ForwardMsg(m)
  BY DEF HandleBackendMsg
<1> HIDE DEF m
<1>2. CASE m.op = "add" /\ AddMsg(m.life)
  <2>1. m.life \in Lives
    BY <1>0, <1>2 DEF FromThreads
  <2>2. devices' \in Seq(Lives)
    BY <1>2, <2>1 DEF AddMsg, TypeOK
  <2>3. <<[op |-> "add"], SubMsg("unsub", Responder), SubMsg("sub", m.life), ListMsg>> \in Seq(ToProcess)
    <3>1. [op |-> "add"] \in ToProcess
      BY DEF ToProcess
    <3> QED BY <2>1, <2>2, <3>1, SubMsgType, ListMsgType
  <2>4. msg_pend' \in Seq(ToProcess)
    BY <1>2, <2>3, PendType, Zenon DEF AddMsg, TypeOK
  <2> QED BY <1>0, <1>1, <1>2, <2>1, <2>2, <2>4 DEF AddMsg, TypeOK
<1>3. CASE m.op = "add" /\ AddFails
  <2>1. devices' \in Seq(Lives)
    BY <1>3 DEF AddFails, TypeOK
  <2>2. msg_pend' \in Seq(ToProcess)
    BY <1>3, <2>1, ListMsgType, PendOne DEF AddFails, TypeOK
  <2> QED BY <1>0, <1>1, <1>3, <2>2 DEF AddFails, TypeOK
<1>4. CASE m.op = "remove" /\ RemoveMsg
  <2>1. devices' \in Seq(Lives)
    BY <1>4 DEF RemoveMsg, TypeOK
  <2>2. DeviceLookup \in {0} \cup Lives
    BY LookupType DEF TypeOK
  <2>3. CASE DeviceLookup = 0
    <3>1. msg_pend' \in Seq(ToProcess)
      BY <1>4, <2>1, <2>3, ListMsgType, PendOne DEF RemoveMsg, TypeOK
    <3>2. pc = "backend"
      BY DEF HandleBackendMsg
    <3> QED BY <1>0, <1>1, <1>4, <2>3, <3>1, <3>2 DEF RemoveMsg, TypeOK
  <2>4. CASE DeviceLookup # 0
    BY <1>0, <1>1, <1>4, <2>2, <2>4 DEF RemoveMsg, TypeOK
  <2> QED BY <2>3, <2>4
<1>5. CASE m.op \notin {"add", "remove"} /\ ForwardMsg(m)
  <2>1. CASE m.op = "data"
    <3>1. m.life \in Lives /\ DeviceLookup \in {0} \cup Lives
      BY <1>0, <2>1, LookupType DEF FromThreads, TypeOK
    <3>2. [op |-> "data", life |-> m.life, origin |-> DeviceLookup] \in ToProcess
      BY <3>1 DEF ToProcess
    <3>3. msg_pend' \in Seq(ToProcess)
      BY <1>5, <2>1, <3>2, PendOne DEF ForwardMsg, TypeOK
    <3> QED BY <1>0, <1>1, <1>5, <3>3 DEF ForwardMsg, TypeOK
  <2>2. CASE m.op # "data"
    <3>1. m \in ToProcess
      BY <1>0, <1>5, <2>2 DEF ToProcess, FromThreads
    <3>2. msg_pend' \in Seq(ToProcess)
      BY <1>5, <2>2, <3>1, PendOne DEF ForwardMsg, TypeOK
    <3> QED BY <1>0, <1>1, <1>5, <3>2 DEF ForwardMsg, TypeOK
  <2> QED BY <2>1, <2>2
<1> QED BY <1>a, <1>2, <1>3, <1>4, <1>5

LEMMA ProcessMsgType ==
    ASSUME TypeOK, ProcessMsg
    PROVE  TypeOK'
<1> DEFINE m == Head(msg_pend)
<1>0. m \in ToProcess /\ Tail(msg_pend) \in Seq(ToProcess) /\ msg_pend' = Tail(msg_pend)
  BY DEF ProcessMsg, TypeOK
<1>1. UNCHANGED <<bus, plugged, ll, ul, gather, finalize, msg_backend, devices, freed,
                  published, pc, target, do_exit>>
  BY DEF ProcessMsg, usb, threads, loop
<1>a. \/ m.op = "sub" /\ ProcessSub(m)
      \/ m.op = "unsub" /\ ProcessUnsub(m)
      \/ m.op = "pub" /\ ProcessPub(m)
      \/ m.op = "data" /\ ProcessData(m)
      \/ m.op \in {"add", "remove", "list"} /\ ProcessNews(m)
  BY DEF ProcessMsg
<1> HIDE DEF m
<1>2. CASE m.op = "sub" /\ ProcessSub(m)
  <2>1. m.topic \in {"dev", "cfg"} /\ m.who \in {Responder} \cup Lives
    BY <1>0, <1>2 DEF ToProcess
  <2> QED BY <1>0, <1>1, <1>2, <2>1 DEF ProcessSub, Call, TypeOK
<1>3. CASE m.op = "unsub" /\ ProcessUnsub(m)
  <2>1. m.topic \in {"dev", "cfg"}
    BY <1>0, <1>3 DEF ToProcess
  <2> QED BY <1>0, <1>1, <1>3, <2>1 DEF ProcessUnsub, TypeOK
<1>4. CASE m.op = "pub" /\ ProcessPub(m)
  BY <1>0, <1>1, <1>4 DEF ProcessPub, Call, TypeOK
<1>5. CASE m.op = "data" /\ ProcessData(m)
  <2>1. m.life \in Lives
    BY <1>0, <1>5 DEF ToProcess
  <2> QED BY <1>0, <1>1, <1>5, <2>1 DEF ProcessData, Call, TypeOK
<1>6. CASE m.op \in {"add", "remove", "list"} /\ ProcessNews(m)
  <2>1. m.op = "list" => m.n \in Nat
    BY <1>0 DEF ToProcess
  <2>2. list' \in Nat
    BY <1>6, <2>1 DEF ProcessNews, TypeOK
  <2>3. view' \in {"absent", "present"}
    BY <1>6 DEF ProcessNews, TypeOK
  <2> QED BY <1>0, <1>1, <1>6, <2>2, <2>3 DEF ProcessNews, TypeOK
<1> QED BY <1>a, <1>2, <1>3, <1>4, <1>5, <1>6

LEMMA InitType == Init => TypeOK
<1> SUFFICES ASSUME Init PROVE TypeOK
  OBVIOUS
<1>1. devices \in Seq(Lives) /\ msg_backend \in Seq(FromThreads) /\ msg_pend \in Seq(ToProcess)
  BY DEF Init
<1>2. /\ bus \in {0} \cup Lives /\ plugged \in 0..MaxLives /\ published \in 0..MaxPublish
      /\ list \in Nat
  BY LifecycleAssumption DEF Init
<1>3. subs \in [{"dev", "cfg"} -> SUBSET ({Responder} \cup Lives)]
  BY DEF Init
<1> QED BY <1>1, <1>2, <1>3, Zenon DEF Init, TypeOK

LEMMA NextType == TypeOK /\ [Next]_vars => TypeOK'
<1> SUFFICES ASSUME TypeOK, [Next]_vars PROVE TypeOK'
  OBVIOUS
<1> USE DEF usb, threads, loop, pubsub
<1>1. CASE Plug
  BY <1>1, LifecycleAssumption DEF Plug, TypeOK, Lives
<1>2. CASE Unplug
  BY <1>2 DEF Unplug, TypeOK
<1>3. CASE Hotplug
  <2> DEFINE added == {l \in Lives : l = bus /\ ll[l] = "none"}
  <2>1. ll' \in [Lives -> {"none", "active", "removing", "retired"}]
    BY <1>3 DEF Hotplug, TypeOK
  <2>2. added # {} => bus \in Lives
    BY DEF TypeOK
  <2>3. msg_backend' = IF added = {} THEN msg_backend
                       ELSE Append(msg_backend, [op |-> "add", life |-> bus])
    BY <1>3 DEF Hotplug
  <2>4. bus \in Lives => [op |-> "add", life |-> bus] \in FromThreads
    BY DEF FromThreads
  <2> HIDE DEF added
  <2>5. msg_backend' \in Seq(FromThreads)
    BY <2>2, <2>3, <2>4 DEF TypeOK
  <2> QED BY <1>3, <2>1, <2>5 DEF Hotplug, TypeOK
<1>4. ASSUME NEW l \in Lives, ProcessRemoving(l) PROVE TypeOK'
  BY <1>4 DEF ProcessRemoving, TypeOK
<1>5. ASSUME NEW l \in Lives, SendData(l) PROVE TypeOK'
  <2>1. [op |-> "data", life |-> l] \in FromThreads
    BY DEF FromThreads
  <2> QED BY <1>5, <2>1 DEF SendData, TypeOK
<1>6. ASSUME NEW l \in Lives, Subscribe(l) PROVE TypeOK'
  <2>1. DeviceLookup \in Lives
    BY <1>6, LookupType DEF Subscribe, TypeOK
  <2>2. [op |-> "sub", topic |-> "cfg", who |-> DeviceLookup] \in FromThreads
    BY <2>1 DEF FromThreads
  <2> QED BY <1>6, <2>2 DEF Subscribe, TypeOK
<1>7. ASSUME NEW l \in Lives, Unsubscribe(l) PROVE TypeOK'
  <2>1. DeviceLookup \in Lives
    BY <1>7, LookupType DEF Unsubscribe, TypeOK
  <2>2. [op |-> "unsub", topic |-> "cfg", who |-> DeviceLookup] \in FromThreads
    BY <2>1 DEF FromThreads
  <2> QED BY <1>7, <2>2 DEF Unsubscribe, TypeOK
<1>8. ASSUME NEW l \in Lives, Terminate(l) PROVE TypeOK'
  <2>1. [op |-> "remove", life |-> l] \in FromThreads
    BY DEF FromThreads
  <2> QED BY <1>8, <2>1 DEF Terminate, TypeOK
<1>9. ASSUME NEW l \in Lives, Finalize(l) PROVE TypeOK'
  BY <1>9 DEF Finalize, TypeOK
<1>10. CASE HandleBackendMsg
  BY <1>10, HandleBackendMsgType
<1>11. CASE HandleCmdMsg
  <2>1. ASSUME NEW t \in {"dev", "cfg"} PROVE [op |-> "pub", topic |-> t] \in ToProcess
    BY DEF ToProcess
  <2>2. msg_pend' \in Seq(ToProcess)
    BY <1>11, <2>1, PendOne DEF HandleCmdMsg, TypeOK
  <2>3. published' \in 0..MaxPublish
    BY <1>11, LifecycleAssumption DEF HandleCmdMsg, TypeOK
  <2> QED BY <1>11, <2>2, <2>3, Zenon DEF HandleCmdMsg, TypeOK
<1>12. CASE Join
  BY <1>12 DEF Join, TypeOK
<1>13. CASE Swap
  <2>0. target \in Lives
    BY <1>13 DEF Swap, TypeOK
  <2>1. <<SubMsg("sub", Responder), SubMsg("unsub", target)>> \in Seq(ToProcess)
    BY <2>0, SubMsgType
  <2>2. msg_pend' \in Seq(ToProcess)
    BY <1>13, <2>1, PendType, Zenon DEF Swap, TypeOK
  <2> QED BY <1>13, <2>2 DEF Swap, TypeOK
<1>14. CASE FreeDevice
  <2>1. devices' \in Seq(Lives)
    BY <1>14, WithoutType DEF FreeDevice, TypeOK
  <2>2. <<[op |-> "remove"], ListMsg>> \in Seq(ToProcess)
    <3>1. [op |-> "remove"] \in ToProcess
      BY DEF ToProcess
    <3> QED BY <2>1, <3>1, ListMsgType
  <2>3. msg_pend' \in Seq(ToProcess)
    BY <1>14, <2>2, PendType, Zenon DEF FreeDevice, TypeOK
  <2> QED BY <1>14, <2>1, <2>3 DEF FreeDevice, TypeOK
<1>15. CASE ProcessMsg
  BY <1>15, ProcessMsgType
<1>16. CASE ProcessDone
  BY <1>16 DEF ProcessDone, TypeOK
<1>17. CASE RemoveAll
  BY <1>17 DEF RemoveAll, TypeOK
<1>18. CASE ExitDone
  BY <1>18 DEF ExitDone, TypeOK
<1>19. CASE UNCHANGED vars
  BY <1>19 DEF vars, TypeOK
<1> QED
  BY <1>1, <1>2, <1>3, <1>4, <1>5, <1>6, <1>7, <1>8, <1>9, <1>10, <1>11, <1>12, <1>13, <1>14,
     <1>15, <1>16, <1>17, <1>18, <1>19 DEF Next, Backend, Frontend, Exit

------------------------------------------------------------------------------
(* Only the last life is in flight                                          *)

\* device_remove leaves no device on the list.
LEMMA WithoutTarget ==
    ASSUME TypeOK, LivesInv, PhaseInv, pc = "flush"
    PROVE  Without(target) = <<>>
<1>1. target = plugged /\ (devices = <<>> \/ devices = <<plugged>>)
  BY DEF LivesInv, PhaseInv
<1>2. CASE devices = <<>>
  BY <1>2 DEF Without
<1>3. CASE devices = <<plugged>>
  <2>1. Len(devices) = 1 /\ devices[1] = target
    BY <1>1, <1>3
  <2>2. (CHOOSE i \in 1..Len(devices) : devices[i] = target) = 1
    BY <2>1
  <2>3. SubSeq(devices, 1, 1 - 1) = <<>> /\ SubSeq(devices, 1 + 1, Len(devices)) = <<>>
    BY <1>3, <2>1 DEF TypeOK
  <2> QED BY <2>1, <2>2, <2>3 DEF Without
<1> QED BY <1>1, <1>2, <1>3

\* While a device is listed, device_lookup finds the last life.
LEMMA LookupLive ==
    ASSUME TypeOK, LivesInv
    PROVE  /\ devices = <<>> => DeviceLookup = 0
           /\ devices # <<>> => DeviceLookup = plugged /\ plugged \in Lives
           /\ Len(devices) = IF devices = <<>> THEN 0 ELSE 1
BY DEF DeviceLookup, TypeOK, LivesInv, Lives

\* What handle_backend_msg finds when it receives a message
LEMMA Received ==
    ASSUME TypeOK, LivesInv, QueueInv, PhaseInv, HandleBackendMsg, NEW m, m = Head(msg_backend)
    PROVE  /\ m \in FromThreads /\ plugged \in Lives /\ ll[plugged] # "none" /\ ~do_exit
           /\ msg_backend \in Seq(FromThreads) /\ msg_backend # <<>>
           /\ m = msg_backend[1] /\ 1 \in 1..Len(msg_backend)
           /\ m.op \in {"add", "remove", "data"} => m.life = plugged
           /\ m.op \in {"sub", "unsub"} => m.who = plugged /\ gather[plugged] # "idle"
           /\ m.op = "add" => Tail(msg_backend) = <<>> /\ ul[plugged] = "none" /\ devices = <<>>
           /\ m.op # "add" => devices = <<plugged>> /\ DeviceLookup = plugged
           /\ m.op = "remove" => Tail(msg_backend) = <<>> /\ ul[plugged] = "done"
<1>1. pc = "backend" /\ msg_backend # <<>> /\ msg_backend \in Seq(FromThreads)
  BY DEF HandleBackendMsg, TypeOK
<1>2. m \in FromThreads /\ m = msg_backend[1] /\ 1 \in 1..Len(msg_backend)
  BY <1>1, TailElems
<1>3. plugged \in Lives /\ ll[plugged] # "none"
  BY <1>1 DEF QueueInv, TypeOK, Lives
<1>4. ~do_exit
  BY <1>1 DEF PhaseInv
<1>5. /\ m.op \in {"add", "remove", "data"} => m.life = plugged
      /\ m.op \in {"sub", "unsub"} => m.who = plugged /\ gather[plugged] # "idle"
      /\ m.op = "add" => Len(msg_backend) = 1 /\ ul[plugged] = "none"
      /\ m.op # "add" => devices # <<>>
      /\ m.op = "remove" => Len(msg_backend) = 1 /\ ul[plugged] = "done"
  BY <1>1, <1>2, Zenon DEF QueueInv
<1>6. Len(msg_backend) = 1 => Tail(msg_backend) = <<>>
  <2>1. Tail(msg_backend) \in Seq(FromThreads) /\ Len(Tail(msg_backend)) = Len(msg_backend) - 1
    BY <1>1, TailElems
  <2>2. Tail(msg_backend) # <<>> => Len(Tail(msg_backend)) \in Nat \ {0}
    BY <2>1
  <2> QED BY <2>1, <2>2
<1>7. m.op = "add" => devices = <<>>
  BY <1>3, <1>5 DEF LivesInv
<1>8. m.op # "add" => devices = <<plugged>> /\ DeviceLookup = plugged
  BY <1>5, LookupLive DEF LivesInv
<1> QED BY <1>1, <1>2, <1>3, <1>4, <1>5, <1>6, <1>7, <1>8

LEMMA NextLives ==
    ASSUME ~FastReplug, TypeOK, LivesInv, QueueInv, PhaseInv, [Next]_vars
    PROVE  LivesInv'
<1> USE DEF usb, threads, loop, pubsub
<1>1. CASE Plug
  <2>1. /\ devices = <<>> /\ devices' = <<>> /\ UNCHANGED <<ll, ul>> /\ pc = "backend"
        /\ \A l \in Lives : ll[l] \in {"none", "retired"}
        /\ plugged' = plugged + 1 /\ bus' = plugged + 1
    BY <1>1 DEF Plug, RemovalsComplete
  <2>2. \A l \in Lives : ul[l] # "run"
    BY <2>1 DEF PhaseInv
  <2>3. \A l \in Lives : l > plugged + 1 => l > plugged
    BY DEF TypeOK, Lives
  <2> QED BY <2>1, <2>2, <2>3 DEF LivesInv, TypeOK
<1>2. CASE Unplug
  BY <1>2 DEF Unplug, LivesInv
<1>3. CASE Hotplug
  <2>1. \A l \in Lives : ll'[l] = IF l = bus /\ ll[l] = "none" THEN "active"
                                  ELSE IF l # bus /\ ll[l] = "active" THEN "removing" ELSE ll[l]
    BY <1>3 DEF Hotplug
  <2>2. UNCHANGED <<bus, plugged, ul, devices>>
    BY <1>3 DEF Hotplug
  <2> QED BY <2>1, <2>2 DEF LivesInv, TypeOK, Lives
<1>4. ASSUME NEW k \in Lives, ProcessRemoving(k) PROVE LivesInv'
  BY <1>4 DEF ProcessRemoving, LivesInv, TypeOK
<1>5. ASSUME NEW k \in Lives, SendData(k) PROVE LivesInv'
  BY <1>5 DEF SendData, LivesInv
<1>6. ASSUME NEW k \in Lives, Subscribe(k) PROVE LivesInv'
  BY <1>6 DEF Subscribe, LivesInv
<1>7. ASSUME NEW k \in Lives, Unsubscribe(k) PROVE LivesInv'
  BY <1>7 DEF Unsubscribe, LivesInv
<1>8. ASSUME NEW k \in Lives, Exit(k) PROVE LivesInv'
  <2>1. /\ ul[k] = "run" /\ ul' = [ul EXCEPT ![k] = "done"]
        /\ UNCHANGED <<bus, plugged, ll, devices>>
    BY <1>8 DEF Exit, Terminate, Finalize
  <2> QED BY <2>1 DEF LivesInv, TypeOK
<1>9. CASE HandleBackendMsg
  <2> DEFINE m == Head(msg_backend)
  <2>1. UNCHANGED <<bus, plugged, ll>>
    BY <1>9 DEF HandleBackendMsg
  <2>2. CASE m.op = "add" /\ AddMsg(m.life)
    <3>0. m.life = plugged /\ devices = <<>>
      BY <1>9, <2>2, Received
    <3>a. Append(<<>>, plugged) = <<plugged>>
      OBVIOUS
    <3>b. plugged \in Lives /\ ll[plugged] # "none"
      BY <1>9, Received
    <3>1. /\ plugged \in Lives /\ ll[plugged] # "none"
          /\ devices' = <<plugged>> /\ ul' = [ul EXCEPT ![plugged] = "run"]
      BY <2>2, <3>0, <3>a, <3>b, Zenon DEF AddMsg
    <3> QED BY <2>1, <3>1 DEF LivesInv, TypeOK, Lives
  <2>3. CASE UNCHANGED <<devices, ul>>
    BY <2>1, <2>3 DEF LivesInv
  <2> QED BY <1>9, <2>2, <2>3 DEF HandleBackendMsg, AddFails, RemoveMsg, ForwardMsg
<1>10. CASE FreeDevice
  <2>1. devices' = <<>> /\ UNCHANGED <<bus, plugged, ll, ul>>
    BY <1>10, WithoutTarget DEF FreeDevice
  <2> QED BY <2>1 DEF LivesInv
<1>11. CASE RemoveAll
  <2>1. devices' = <<>> /\ UNCHANGED <<bus, plugged, ll, ul>>
    BY <1>11 DEF RemoveAll, LivesInv
  <2> QED BY <2>1 DEF LivesInv
<1>12. CASE UNCHANGED <<bus, plugged, ll, ul, devices>>
  BY <1>12 DEF LivesInv
<1>13. HandleCmdMsg \/ Join \/ Swap \/ ProcessMsg \/ ProcessDone \/ ExitDone \/ UNCHANGED vars
       => UNCHANGED <<bus, plugged, ll, ul, devices>>
  BY DEF HandleCmdMsg, Join, Swap, ProcessMsg, ProcessDone, ExitDone, vars
<1> QED BY <1>1, <1>2, <1>3, <1>4, <1>5, <1>6, <1>7, <1>8, <1>9, <1>10, <1>11, <1>12, <1>13
        DEF Next, Backend, Frontend

\* A message that the UL thread of the last life sends goes behind its others.
LEMMA Sent ==
    ASSUME TypeOK, LivesInv, QueueInv, PhaseInv, NEW k \in Lives, ul[k] = "run",
           NEW m \in FromThreads, msg_backend' = Append(msg_backend, m),
           UNCHANGED <<plugged, ll, devices, pc>>,
           gather'[plugged] = "idle" => gather[plugged] = "idle",
           m.op \in {"data", "remove"} => m.life = k,
           m.op \in {"sub", "unsub"} => m.who = plugged /\ gather'[plugged] # "idle",
           m.op # "add",
           ul'[plugged] = IF m.op = "remove" THEN "done" ELSE "run"
    PROVE  QueueInv'
<1> DEFINE q == msg_backend'
<1>1. k = plugged /\ plugged > 0 /\ ul[plugged] = "run" /\ ll[plugged] # "none"
  BY DEF LivesInv, Lives
<1>2. /\ Len(q) = Len(msg_backend) + 1 /\ q[Len(msg_backend) + 1] = m /\ Len(msg_backend) \in Nat
      /\ \A i \in 1..Len(msg_backend) : q[i] = msg_backend[i]
  BY AppendElems DEF TypeOK
<1>3. pc \in {"backend", "process"} => devices # <<>>
  BY DEF PhaseInv
<1> SUFFICES ASSUME NEW i \in 1..Len(q)
             PROVE  /\ q[i].op \in {"add", "remove", "data"} => q[i].life = plugged
                    /\ q[i].op \in {"sub", "unsub"} => q[i].who = plugged /\ gather'[plugged] # "idle"
                    /\ q[i].op # "add"
                    /\ q[i].op = "remove" => i = Len(q) /\ ul'[plugged] = "done"
  BY <1>1, <1>3 DEF QueueInv
<1> HIDE DEF q
<1>4. CASE i \in 1..Len(msg_backend)
  <2>1. q[i] = msg_backend[i]
    BY <1>2, <1>4
  <2> QED BY <1>1, <1>4, <2>1 DEF QueueInv
<1>5. CASE i = Len(msg_backend) + 1
  BY <1>1, <1>2, <1>5
<1> QED BY <1>2, <1>4, <1>5

LEMMA NextQueue ==
    ASSUME ~FastReplug, TypeOK, LivesInv, QueueInv, PhaseInv, [Next]_vars
    PROVE  QueueInv'
<1> USE DEF usb, threads, loop, pubsub
<1>0. ASSUME msg_backend' = <<>> PROVE QueueInv'
  <2>1. Len(msg_backend') = 0
    BY <1>0
  <2> QED BY <1>0, <2>1 DEF QueueInv
<1>1. CASE Plug
  BY <1>0, <1>1 DEF Plug, RemovalsComplete
<1>2. CASE Unplug
  BY <1>2 DEF Unplug, QueueInv
<1>3. CASE Hotplug
  <2> DEFINE added == {l \in Lives : l = bus /\ ll[l] = "none"}
  <2>1. \A l \in Lives : ll'[l] = IF l = bus /\ ll[l] = "none" THEN "active"
                                  ELSE IF l # bus /\ ll[l] = "active" THEN "removing" ELSE ll[l]
    BY <1>3 DEF Hotplug
  <2>2. UNCHANGED <<plugged, ul, gather, devices, pc>>
    BY <1>3 DEF Hotplug
  <2>3. msg_backend' = IF added = {} THEN msg_backend
                       ELSE Append(msg_backend, [op |-> "add", life |-> bus])
    BY <1>3 DEF Hotplug
  <2>4. CASE added = {}
    <3>1. plugged > 0 /\ ll[plugged] # "none" => ll'[plugged] # "none"
      BY <2>1 DEF TypeOK, Lives
    <3> QED BY <2>2, <2>3, <2>4, <3>1 DEF QueueInv
  <2>5. CASE added # {}
    <3>1. bus = plugged /\ plugged \in Lives /\ plugged > 0 /\ ll[plugged] = "none"
      BY <2>5 DEF LivesInv, Lives
    <3>2. msg_backend = <<>> /\ ul[plugged] = "none" /\ ll'[plugged] # "none"
      BY <2>1, <3>1 DEF QueueInv, LivesInv
    <3>3. msg_backend' = <<[op |-> "add", life |-> plugged]>>
      BY <2>3, <2>5, <3>1, <3>2
    <3> DEFINE q == msg_backend'
    <3>4. Len(q) = 1 /\ q[1] = [op |-> "add", life |-> plugged]
      BY <3>3
    <3> HIDE DEF q
    <3>5. \A i \in 1..Len(q) : q[i].op = "add" /\ q[i].life = plugged
      BY <3>4
    <3> QED BY <2>2, <3>1, <3>2, <3>4, <3>5 DEF QueueInv, q
  <2> QED BY <2>4, <2>5
<1>4. ASSUME NEW k \in Lives, ProcessRemoving(k) PROVE QueueInv'
  <2>1. plugged > 0 /\ ll[plugged] # "none" => ll'[plugged] # "none"
    BY <1>4 DEF ProcessRemoving, TypeOK, Lives
  <2> QED BY <1>4, <2>1 DEF ProcessRemoving, QueueInv
<1>5. ASSUME NEW k \in Lives, SendData(k) PROVE QueueInv'
  <2>1. [op |-> "data", life |-> k] \in FromThreads
    BY DEF FromThreads
  <2>2. k = plugged
    BY <1>5 DEF SendData, LivesInv
  <2> QED BY <1>5, <2>1, <2>2, Sent DEF SendData
<1>6. ASSUME NEW k \in Lives, Subscribe(k) PROVE QueueInv'
  <2>1. k = plugged /\ DeviceLookup = plugged
    BY <1>6, LookupLive DEF Subscribe, LivesInv
  <2>2. [op |-> "sub", topic |-> "cfg", who |-> DeviceLookup] \in FromThreads
    BY <2>1 DEF FromThreads
  <2>3. gather'[plugged] # "idle"
    BY <1>6, <2>1 DEF Subscribe, TypeOK
  <2> QED BY <1>6, <2>1, <2>2, <2>3, Sent DEF Subscribe
<1>7. ASSUME NEW k \in Lives, Unsubscribe(k) PROVE QueueInv'
  <2>1. k = plugged /\ DeviceLookup = plugged
    BY <1>7, LookupLive DEF Unsubscribe, LivesInv
  <2>2. [op |-> "unsub", topic |-> "cfg", who |-> DeviceLookup] \in FromThreads
    BY <2>1 DEF FromThreads
  <2>3. gather'[plugged] # "idle"
    BY <1>7, <2>1 DEF Unsubscribe, TypeOK
  <2> QED BY <1>7, <2>1, <2>2, <2>3, Sent DEF Unsubscribe
<1>8. ASSUME NEW k \in Lives, Exit(k) PROVE QueueInv'
  <2>1. k = plugged /\ ul[plugged] = "run" /\ ul'[plugged] = "done" /\ UNCHANGED <<plugged, ll, gather, devices, pc>>
    BY <1>8 DEF Exit, Terminate, Finalize, LivesInv, TypeOK
  <2>2. CASE msg_backend' = msg_backend
    BY <2>1, <2>2 DEF QueueInv
  <2>3. CASE msg_backend' = Append(msg_backend, [op |-> "remove", life |-> k])
    <3>1. [op |-> "remove", life |-> k] \in FromThreads
      BY DEF FromThreads
    <3> QED BY <2>1, <2>3, <3>1, Sent
  <2> QED BY <1>8, <2>2, <2>3 DEF Exit, Terminate, Finalize
<1>9. CASE HandleBackendMsg
  <2> DEFINE m == Head(msg_backend)
             q == Tail(msg_backend)
  <2>1. msg_backend' = q /\ UNCHANGED <<plugged, ll, gather>>
    BY <1>9 DEF HandleBackendMsg
  <2>2. CASE m.op \in {"add", "remove"}
    <3>1. q = <<>>
      BY <1>9, <2>2, Received
    <3> QED BY <1>0, <2>1, <3>1
  <2>3. CASE m.op \notin {"add", "remove"}
    <3>1. UNCHANGED <<ul, devices, pc>>
      BY <1>9, <2>3 DEF HandleBackendMsg, ForwardMsg
    <3>2. /\ Len(q) = Len(msg_backend) - 1 /\ Len(msg_backend) \in Nat /\ plugged > 0 /\ ll[plugged] # "none"
          /\ \A i \in 1..Len(q) : i + 1 \in 1..Len(msg_backend) /\ q[i] = msg_backend[i + 1]
      BY <1>9, Received, TailElems DEF Lives
    <3> HIDE DEF q
    <3>3. ASSUME NEW i \in 1..Len(q)
          PROVE  /\ q[i].op \in {"add", "remove", "data"} => q[i].life = plugged
                 /\ q[i].op \in {"sub", "unsub"} => q[i].who = plugged /\ gather[plugged] # "idle"
                 /\ q[i].op # "add"
                 /\ ul[plugged] # "none" /\ (pc \in {"backend", "process"} => devices # <<>>)
                 /\ q[i].op = "remove" => i = Len(q) /\ ul[plugged] = "done"
      <4>1. i + 1 \in 1..Len(msg_backend) /\ q[i] = msg_backend[i + 1] /\ Len(msg_backend) # 1
        BY <3>2
      <4>2. q[i].op # "add"
        BY <4>1 DEF QueueInv
      <4>3. q[i].op = "remove" => i + 1 = Len(msg_backend)
        BY <4>1 DEF QueueInv
      <4> QED BY <3>2, <4>1, <4>2, <4>3 DEF QueueInv
    <3> QED BY <2>1, <3>1, <3>2, <3>3 DEF QueueInv
  <2> QED BY <2>2, <2>3
<1>10. CASE HandleCmdMsg
  BY <1>0, <1>10 DEF HandleCmdMsg
<1>11. CASE FreeDevice
  <2>1. ~do_exit => msg_backend = <<>>
    BY <1>11 DEF FreeDevice, PhaseInv
  <2>2. do_exit => pc' = "exit"
    BY <1>11 DEF FreeDevice
  <2>3. UNCHANGED <<msg_backend, plugged, ll, ul, gather>>
    BY <1>11 DEF FreeDevice
  <2> QED BY <1>0, <2>1, <2>2, <2>3 DEF QueueInv
<1>12. CASE ProcessDone
  BY <1>12 DEF ProcessDone, QueueInv
<1>13. CASE RemoveAll
  BY <1>13 DEF RemoveAll, QueueInv
<1>14. CASE Join \/ Swap \/ ExitDone
  BY <1>14 DEF Join, Swap, ExitDone, QueueInv
<1>15. CASE ProcessMsg
  BY <1>15 DEF ProcessMsg, QueueInv
<1>16. CASE UNCHANGED vars
  BY <1>16 DEF vars, QueueInv
<1> QED BY <1>1, <1>2, <1>3, <1>4, <1>5, <1>6, <1>7, <1>8, <1>9, <1>10, <1>11, <1>12, <1>13,
           <1>14, <1>15, <1>16 DEF Next, Backend, Frontend

LEMMA NextPhase ==
    ASSUME ~FastReplug, TypeOK, LivesInv, QueueInv, PhaseInv, [Next]_vars
    PROVE  PhaseInv'
<1> USE DEF usb, threads, loop, pubsub
<1>1. CASE Plug
  BY <1>1 DEF Plug, RemovalsComplete, PhaseInv
<1>2. CASE Unplug
  BY <1>2 DEF Unplug, PhaseInv
<1>3. CASE Hotplug
  <2>1. UNCHANGED <<plugged, ul, devices, freed, pc, target, do_exit>>
    BY <1>3 DEF Hotplug
  <2>2. ASSUME ~do_exit, pc \in {"join", "drain", "flush"} PROVE msg_backend' = msg_backend
    <3>1. ul[plugged] = "done" /\ plugged \in Lives
      BY <2>2 DEF PhaseInv, TypeOK, Lives
    <3>2. ll[plugged] # "none"
      BY <3>1 DEF LivesInv
    <3>3. \A l \in Lives : l = bus => l = plugged
      BY DEF LivesInv, Lives
    <3>4. {l \in Lives : l = bus /\ ll[l] = "none"} = {}
      BY <3>2, <3>3
    <3> QED BY <1>3, <3>4 DEF Hotplug
  <2> QED BY <2>1, <2>2 DEF PhaseInv
<1>4. ASSUME NEW k \in Lives, ProcessRemoving(k) PROVE PhaseInv'
  BY <1>4 DEF ProcessRemoving, PhaseInv
<1>5. ASSUME NEW k \in Lives, SendData(k) \/ Subscribe(k) \/ Unsubscribe(k) PROVE PhaseInv'
  <2>1. ul[k] = "run" /\ UNCHANGED <<plugged, ul, devices, freed, pc, target, do_exit>>
    BY <1>5 DEF SendData, Subscribe, Unsubscribe
  <2>2. ul[plugged] = "run"
    BY <2>1 DEF LivesInv
  <2> QED BY <2>1, <2>2 DEF PhaseInv
<1>6. ASSUME NEW k \in Lives, Exit(k) PROVE PhaseInv'
  <2>1. /\ ul[k] = "run" /\ ul' = [ul EXCEPT ![k] = "done"] /\ k = plugged
        /\ UNCHANGED <<plugged, devices, freed, pc, target, do_exit>>
    BY <1>6 DEF Exit, Terminate, Finalize, LivesInv
  <2>2. ul'[plugged] = "done" /\ \A l \in Lives : ul'[l] = "run" => ul[l] = "run"
    BY <2>1 DEF TypeOK
  <2>3. ~(~do_exit /\ pc \in {"join", "drain", "flush"})
    BY <2>1 DEF PhaseInv
  <2>4. \A l \in freed : ul'[l] = "done"
    BY <2>1 DEF PhaseInv, TypeOK
  <2> QED BY <2>1, <2>2, <2>3, <2>4 DEF PhaseInv
<1>7. CASE HandleBackendMsg
  <2> DEFINE m == Head(msg_backend)
  <2>1. UNCHANGED <<plugged, freed, do_exit>> /\ pc = "backend" /\ msg_backend' = Tail(msg_backend)
    BY <1>7 DEF HandleBackendMsg
  <2>2. ~do_exit /\ plugged \in Lives /\ plugged > 0
    BY <1>7, Received DEF Lives
  <2>3. CASE m.op = "add" /\ AddMsg(m.life)
    <3>1. m.life = plugged /\ ul[plugged] = "none"
      BY <1>7, <2>3, Received
    <3>2. devices = <<>>
      BY <1>7, <2>3, Received
    <3>3. devices' = Append(devices, plugged) /\ ul' = [ul EXCEPT ![plugged] = "run"] /\ pc' = pc
      BY <2>3, <3>1, Zenon DEF AddMsg
    <3>4. devices' = <<plugged>> /\ devices' # <<>>
      BY <3>2, <3>3
    <3>5. \A l \in freed : l # plugged /\ ul'[l] = "done" /\ devices' # <<l>>
      BY <3>1, <3>3, <3>4 DEF PhaseInv, TypeOK
    <3> QED BY <2>1, <2>2, <3>3, <3>4, <3>5 DEF PhaseInv
  <2>4. CASE m.op = "remove" /\ RemoveMsg
    <3>0. /\ DeviceLookup = plugged /\ devices = <<plugged>> /\ ul[plugged] = "done"
          /\ Tail(msg_backend) = <<>>
      BY <1>7, <2>4, Received
    <3>1. DeviceLookup # 0 /\ devices # <<>>
      BY <2>2, <3>0
    <3>2. target' = plugged /\ pc' = "join" /\ UNCHANGED <<devices, ul>>
      BY <2>4, <3>0, <3>1 DEF RemoveMsg
    <3> QED BY <2>1, <2>2, <3>0, <3>1, <3>2 DEF PhaseInv
  <2>5. CASE UNCHANGED <<devices, ul, pc, target>>
    BY <2>1, <2>5 DEF PhaseInv
  <2> QED BY <1>7, <2>3, <2>4, <2>5 DEF HandleBackendMsg, AddFails, ForwardMsg
<1>8. CASE HandleCmdMsg
  <2>1. /\ UNCHANGED <<plugged, ul, devices, freed, target>> /\ pc = "backend" /\ pc' = "process"
    BY <1>8 DEF HandleCmdMsg
  <2> QED BY <2>1 DEF PhaseInv
<1>9. CASE Join
  <2>1. /\ pc = "join" /\ pc' = "drain" /\ ul[target] = "done" /\ freed' = freed \cup {target}
        /\ UNCHANGED <<plugged, ul, devices, target, do_exit, msg_backend>>
    BY <1>9 DEF Join
  <2> QED BY <2>1 DEF PhaseInv
<1>10. CASE Swap
  BY <1>10 DEF Swap, PhaseInv
<1>11. CASE FreeDevice
  <2>1. /\ UNCHANGED <<plugged, ul, freed, do_exit>> /\ devices' = <<>> /\ pc = "flush"
        /\ pc' = IF do_exit THEN "exit" ELSE "backend"
    BY <1>11, WithoutTarget DEF FreeDevice
  <2>2. ~do_exit => ul[plugged] = "done"
    BY <2>1 DEF PhaseInv
  <2>3. ~do_exit => \A l \in Lives : ul[l] # "run"
    BY <2>2 DEF LivesInv
  <2>4. \A l : <<>> # <<l>>
    OBVIOUS
  <2> QED BY <2>1, <2>3, <2>4 DEF PhaseInv
<1>12. CASE RemoveAll
  <2>1. /\ pc = "exit" /\ devices # <<>> /\ target' = Head(devices) /\ pc' = "join"
        /\ UNCHANGED <<plugged, ul, freed, do_exit>> /\ devices' = Tail(devices)
    BY <1>12 DEF RemoveAll
  <2>2. do_exit
    BY <2>1 DEF PhaseInv
  <2>3. devices = <<plugged>> /\ plugged > 0 /\ ul[plugged] # "none"
    BY <2>1 DEF LivesInv
  <2>4. Head(devices) = plugged /\ Tail(devices) = <<>>
    BY <2>3
  <2> QED BY <2>1, <2>2, <2>3, <2>4 DEF PhaseInv
<1>13. CASE ExitDone
  BY <1>13 DEF ExitDone, PhaseInv
<1>14. CASE ProcessDone
  BY <1>14 DEF ProcessDone, PhaseInv
<1>15. CASE ProcessMsg
  BY <1>15 DEF ProcessMsg, PhaseInv
<1>16. CASE UNCHANGED vars
  BY <1>16 DEF vars, PhaseInv
<1> QED BY <1>1, <1>2, <1>3, <1>4, <1>5, <1>6, <1>7, <1>8, <1>9, <1>10, <1>11, <1>12, <1>13,
           <1>14, <1>15, <1>16 DEF Next, Backend, Frontend

\* Types hold however fast the device returns.
THEOREM TypeCorrect == Spec => []TypeOK
<1>1. Init => TypeOK
  BY InitType
<1>2. TypeOK /\ [Next]_vars => TypeOK'
  BY NextType
<1> QED BY <1>1, <1>2, PTL DEF Spec
==============================================================================

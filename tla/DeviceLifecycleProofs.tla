------------------------ MODULE DeviceLifecycleProofs ------------------------
(* Why the lists, the subscribers and the application agree on a device,   *)
(* when it does not return before its removal is complete.                 *)
EXTENDS DeviceLifecycle

------------------------------------------------------------------------------
(* What is pended, and what it will have made                               *)

\* The kinds of messages
LEMMA Kinds ==
    ASSUME NEW m \in ToProcess
    PROVE  /\ \A w : /\ m \in SubOf({"sub", "unsub"}, w) <=>
                          m.op \in {"sub", "unsub"} /\ m.topic = "dev" /\ m.who = w
                     /\ m \in SubOf({"sub"}, w) <=> m.op = "sub" /\ m.topic = "dev" /\ m.who = w
           /\ m \in [op : {"list"}, n : Nat] <=> m.op = "list"
           /\ \A k : m \in [op : {"list"}, n : {k}] <=> m.op = "list" /\ m.n = k
           /\ m \in [op : {"add", "remove"}] <=> m.op \in {"add", "remove"}
           /\ m \in [op : {"add"}] <=> m.op = "add"
           /\ m \in [op : {"remove"}] <=> m.op = "remove"
<1>1. ASSUME NEW w
      PROVE  /\ m \in SubOf({"sub", "unsub"}, w) <=>
                  m.op \in {"sub", "unsub"} /\ m.topic = "dev" /\ m.who = w
             /\ m \in SubOf({"sub"}, w) <=> m.op = "sub" /\ m.topic = "dev" /\ m.who = w
  BY DEF ToProcess, SubOf
<1>2. ASSUME NEW k PROVE m \in [op : {"list"}, n : {k}] <=> m.op = "list" /\ m.n = k
  BY DEF ToProcess
<1>3. m \in [op : {"list"}, n : Nat] <=> m.op = "list"
  BY DEF ToProcess
<1>4. /\ m \in [op : {"add", "remove"}] <=> m.op \in {"add", "remove"}
      /\ m \in [op : {"add"}] <=> m.op = "add"
      /\ m \in [op : {"remove"}] <=> m.op = "remove"
  BY DEF ToProcess
<1> QED BY <1>1, <1>2, <1>3, <1>4

\* No publish is pended, and every message is proper.
Quiet(q, p, g) == \A i \in 1..Len(q) : Proper(q[i], p, g) /\ q[i].op # "pub"

LEMMA QuietAppend ==
    ASSUME NEW q \in Seq(ToProcess), NEW m \in ToProcess, NEW p, NEW g,
           Quiet(q, p, g), Proper(m, p, g), m.op # "pub"
    PROVE  Append(q, m) \in Seq(ToProcess) /\ Quiet(Append(q, m), p, g)
<1> DEFINE a == Append(q, m)
<1> HIDE DEF a
<1>1. /\ a \in Seq(ToProcess) /\ Len(a) = Len(q) + 1 /\ Len(q) \in Nat /\ a[Len(q) + 1] = m
      /\ \A i \in 1..Len(q) : a[i] = q[i]
  BY AppendElems DEF a
<1>2. \A i \in 1..Len(a) : i \in 1..Len(q) \/ i = Len(q) + 1
  BY <1>1
<1>3. Quiet(a, p, g)
  BY <1>1, <1>2 DEF Quiet
<1> QED BY <1>1, <1>3 DEF a

LEMMA PendTwo ==
    ASSUME NEW q \in Seq(ToProcess), NEW a \in ToProcess, NEW b \in ToProcess
    PROVE  q \o <<a, b>> = Append(Append(q, a), b)
OBVIOUS

LEMMA PendFour ==
    ASSUME NEW q \in Seq(ToProcess), NEW a \in ToProcess, NEW b \in ToProcess, NEW c \in ToProcess,
           NEW d \in ToProcess
    PROVE  q \o <<a, b, c, d>> = Append(Append(Append(Append(q, a), b), c), d)
OBVIOUS

\* What device_add_msg pends
LEMMA AddPends ==
    ASSUME TypeOK, NEW l \in Lives, AddMsg(l), devices = <<>>
    PROVE  /\ devices' = <<l>> /\ Len(devices') = 1
           /\ [op |-> "add"] \in ToProcess /\ SubMsg("unsub", Responder) \in ToProcess
           /\ SubMsg("sub", l) \in ToProcess /\ [op |-> "list", n |-> 1] \in ToProcess
           /\ msg_pend' = Append(Append(Append(Append(msg_pend, [op |-> "add"]),
                SubMsg("unsub", Responder)), SubMsg("sub", l)), [op |-> "list", n |-> 1])
<1>1. devices' = <<l>> /\ Len(devices') = 1
  BY DEF AddMsg
<1>2. [op |-> "add"] \in ToProcess /\ [op |-> "list", n |-> 1] \in ToProcess
  BY DEF ToProcess
<1>3. SubMsg("unsub", Responder) \in ToProcess /\ SubMsg("sub", l) \in ToProcess
  BY SubMsgType
<1>4. ListMsg = [op |-> "list", n |-> 1]
  BY <1>1 DEF ListMsg
<1>5. msg_pend' = msg_pend \o <<[op |-> "add"], SubMsg("unsub", Responder), SubMsg("sub", l),
                                [op |-> "list", n |-> 1]>>
  BY <1>4 DEF AddMsg, Pend
<1>6. msg_pend \in Seq(ToProcess)
  BY DEF TypeOK
<1> QED BY <1>1, <1>2, <1>3, <1>5, <1>6, PendFour

\* jsdrv_pubsub_process, as seen by one subscriber of the prefix
LEMMA ProcessSubs ==
    ASSUME TypeOK, ProcessMsg, NEW m, m = Head(msg_pend)
    PROVE  /\ m \in ToProcess /\ msg_pend' = Tail(msg_pend) /\ msg_pend # <<>>
           /\ \A w : w \in subs'["dev"] <=>
                IF m \in SubOf({"sub", "unsub"}, w) THEN m \in SubOf({"sub"}, w) ELSE w \in subs["dev"]
           /\ \A w \in subs'["cfg"] :
                w \in subs["cfg"] \/ (m.op = "sub" /\ m.topic = "cfg" /\ m.who = w)
           /\ UNCHANGED <<bus, plugged, ll, ul, gather, finalize, msg_backend, devices, freed,
                          published, pc, target, do_exit>>
<1>0. /\ m \in ToProcess /\ msg_pend' = Tail(msg_pend) /\ msg_pend # <<>>
      /\ UNCHANGED <<bus, plugged, ll, ul, gather, finalize, msg_backend, devices, freed,
                     published, pc, target, do_exit>>
  BY DEF ProcessMsg, TypeOK, usb, threads, loop
<1>1. \A w : /\ m \in SubOf({"sub", "unsub"}, w) <=>
                  m.op \in {"sub", "unsub"} /\ m.topic = "dev" /\ m.who = w
             /\ m \in SubOf({"sub"}, w) <=> m.op = "sub" /\ m.topic = "dev" /\ m.who = w
  BY <1>0, Kinds
<1>2. subs \in [{"dev", "cfg"} -> SUBSET ({Responder} \cup Lives)]
  BY DEF TypeOK
<1>3. CASE m.op = "sub"
  <2>1. m.topic \in {"dev", "cfg"} /\ subs' = [subs EXCEPT ![m.topic] = @ \cup {m.who}]
    BY <1>0, <1>3, Zenon DEF ProcessMsg, ProcessSub, ToProcess
  <2>2. subs'["dev"] = IF m.topic = "dev" THEN subs["dev"] \cup {m.who} ELSE subs["dev"]
    BY <1>2, <2>1
  <2>3. subs'["cfg"] = IF m.topic = "cfg" THEN subs["cfg"] \cup {m.who} ELSE subs["cfg"]
    BY <1>2, <2>1
  <2> QED BY <1>0, <1>1, <1>3, <2>2, <2>3, Zenon
<1>4. CASE m.op = "unsub"
  <2>1. m.topic \in {"dev", "cfg"} /\ subs' = [subs EXCEPT ![m.topic] = @ \ {m.who}]
    BY <1>0, <1>4 DEF ProcessMsg, ProcessUnsub, ToProcess
  <2>2. subs'["dev"] = IF m.topic = "dev" THEN subs["dev"] \ {m.who} ELSE subs["dev"]
    BY <1>2, <2>1
  <2>3. subs'["cfg"] \subseteq subs["cfg"]
    BY <1>2, <2>1
  <2> QED BY <1>0, <1>1, <1>4, <2>2, <2>3
<1>5. CASE m.op \notin {"sub", "unsub"}
  <2>1. subs' = subs
    BY <1>5 DEF ProcessMsg, ProcessPub, ProcessData, ProcessNews
  <2> QED BY <1>0, <1>1, <1>5, <2>1
<1> QED BY <1>3, <1>4, <1>5

\* At pc = "backend", nothing published by the application is pended.
LEMMA PendQuiet ==
    ASSUME TypeOK, PendInv, pc # "process"
    PROVE  msg_pend \in Seq(ToProcess) /\ Quiet(msg_pend, plugged, gather)
BY DEF TypeOK, PendInv, Quiet

LEMMA NextPend ==
    ASSUME ~FastReplug, TypeOK, LivesInv, QueueInv, PhaseInv, PendInv, SettledInv, [Next]_vars
    PROVE  PendInv'
<1> USE DEF usb, threads, loop, pubsub
<1>0. ASSUME Quiet(msg_pend', plugged', gather'), UNCHANGED <<plugged, gather, subs>>
      PROVE  PendInv'
  BY <1>0, Zenon DEF PendInv, Quiet
<1>1. CASE Plug
  <2>1. /\ devices = <<>> /\ msg_pend = <<>> /\ pc = "backend" /\ UNCHANGED <<msg_pend, subs, gather, pc>>
    BY <1>1 DEF Plug, RemovalsComplete
  <2>2. \A l \in Lives : l \notin subs["dev"]
    <3>1. Len(msg_pend) = 0
      BY <2>1
    <3>2. \A l \in Lives : ~WillHave(l)
      BY <2>1 DEF SettledInv, Serving
    <3> QED BY <3>1, <3>2 DEF WillHave, LastOf
  <2>3. subs["dev"] \subseteq {Responder}
    BY <2>2 DEF TypeOK
  <2>4. Len(msg_pend') = 0
    BY <2>1
  <2> QED BY <2>1, <2>3, <2>4 DEF PendInv
<1>2. ASSUME NEW k \in Lives, Subscribe(k) \/ Unsubscribe(k) PROVE PendInv'
  <2>1. UNCHANGED <<plugged, msg_pend, subs, pc>> /\ \A l \in Lives : gather[l] # "idle" => gather'[l] # "idle"
    BY <1>2 DEF Subscribe, Unsubscribe, TypeOK
  <2>2. \A m : Proper(m, plugged, gather) => Proper(m, plugged, gather')
    BY <2>1 DEF Proper
  <2> QED BY <2>1, <2>2 DEF PendInv
<1>3. CASE HandleBackendMsg
  <2> DEFINE m == Head(msg_backend)
  <2>1. UNCHANGED <<plugged, gather, subs>> /\ pc # "process"
    BY <1>3 DEF HandleBackendMsg
  <2>2. msg_pend \in Seq(ToProcess) /\ Quiet(msg_pend, plugged, gather) /\ plugged \in Lives
    BY <1>3, <2>1, PendQuiet, Received
  <2> SUFFICES Quiet(msg_pend', plugged, gather)
    BY <1>0, <2>1
  <2>3. CASE m.op = "add" /\ AddMsg(m.life)
    <3>1. m.life = plugged /\ devices = <<>>
      BY <1>3, <2>3, Received
    <3> DEFINE a == [op |-> "add"]
               b == SubMsg("unsub", Responder)
               c == SubMsg("sub", plugged)
               d == [op |-> "list", n |-> 1]
    <3>2. /\ a \in ToProcess /\ b \in ToProcess /\ c \in ToProcess /\ d \in ToProcess
          /\ msg_pend' = Append(Append(Append(Append(msg_pend, a), b), c), d)
      BY <2>2, <2>3, <3>1, AddPends
    <3>3. /\ a.op = "add" /\ b.op = "unsub" /\ b.topic = "dev" /\ b.who = Responder
          /\ c.op = "sub" /\ c.topic = "dev" /\ c.who = plugged /\ d.op = "list"
      BY DEF SubMsg
    <3> HIDE DEF a, b, c, d
    <3>4. \A x \in {a, b, c, d} : Proper(x, plugged, gather) /\ x.op # "pub"
      BY <3>3 DEF Proper
    <3>5. Append(msg_pend, a) \in Seq(ToProcess) /\ Quiet(Append(msg_pend, a), plugged, gather)
      BY <2>2, <3>2, <3>4, QuietAppend
    <3>6. Append(Append(msg_pend, a), b) \in Seq(ToProcess) /\ Quiet(Append(Append(msg_pend, a), b), plugged, gather)
      BY <3>2, <3>4, <3>5, QuietAppend, Zenon
    <3>7. /\ Append(Append(Append(msg_pend, a), b), c) \in Seq(ToProcess)
          /\ Quiet(Append(Append(Append(msg_pend, a), b), c), plugged, gather)
      BY <3>2, <3>4, <3>6, QuietAppend, Zenon
    <3> QED BY <3>2, <3>4, <3>7, QuietAppend, Zenon
  <2>4. CASE m.op = "add" /\ AddFails
    <3>1. ListMsg \in ToProcess /\ ListMsg.op = "list"
      BY <2>4, ListMsgType DEF AddFails, TypeOK, ListMsg
    <3>2. msg_pend' = Append(msg_pend, ListMsg)
      BY <2>2, <2>4, <3>1, PendOne DEF AddFails
    <3> QED BY <2>2, <3>1, <3>2, QuietAppend DEF Proper
  <2>5. CASE m.op = "remove" /\ RemoveMsg
    <3>1. DeviceLookup # 0
      BY <1>3, <2>2, <2>5, Received DEF Lives
    <3> QED BY <2>2, <2>5, <3>1 DEF RemoveMsg
  <2>6. CASE m.op \notin {"add", "remove"} /\ ForwardMsg(m)
    <3> DEFINE n == IF m.op = "data" THEN [op |-> "data", life |-> m.life, origin |-> DeviceLookup] ELSE m
    <3>1. /\ m \in FromThreads /\ DeviceLookup = plugged
          /\ m.op = "data" => m.life = plugged
          /\ m.op \in {"sub", "unsub"} => m.who = plugged /\ gather[plugged] # "idle"
      BY <1>3, <2>6, Received, Zenon
    <3>2. n \in ToProcess /\ n.op # "pub" /\ Proper(n, plugged, gather)
      <4>1. CASE m.op = "data"
        <5>1. n = [op |-> "data", life |-> plugged, origin |-> plugged]
          BY <3>1, <4>1
        <5> HIDE DEF n
        <5> QED BY <2>2, <5>1 DEF ToProcess, Proper
      <4>2. CASE m.op # "data"
        <5>1. n = m /\ m.op \in {"sub", "unsub"} /\ m.topic = "cfg" /\ m \in ToProcess
          BY <2>6, <3>1, <4>2 DEF FromThreads, ToProcess
        <5> HIDE DEF n, m
        <5> QED BY <2>2, <3>1, <5>1 DEF Proper
      <4> QED BY <4>1, <4>2
    <3>3. Pend(<<n>>)
      BY <2>6 DEF ForwardMsg
    <3> HIDE DEF n
    <3>4. msg_pend' = Append(msg_pend, n)
      BY <2>2, <3>2, <3>3, PendOne
    <3> QED BY <2>2, <3>2, <3>4, QuietAppend
  <2> QED BY <1>3, <2>3, <2>4, <2>5, <2>6 DEF HandleBackendMsg
<1>4. CASE HandleCmdMsg
  <2>1. /\ UNCHANGED <<plugged, gather, subs>> /\ pc = "backend" /\ pc' = "process"
    BY <1>4 DEF HandleCmdMsg
  <2>2. msg_pend \in Seq(ToProcess) /\ Quiet(msg_pend, plugged, gather)
    BY <2>1, PendQuiet
  <2>3. CASE UNCHANGED msg_pend
    BY <1>0, <2>1, <2>2, <2>3
  <2>4. ASSUME NEW t \in {"dev", "cfg"}, Pend(<<[op |-> "pub", topic |-> t]>>) PROVE PendInv'
    <3> DEFINE n == [op |-> "pub", topic |-> t]
    <3>1. n \in ToProcess /\ Proper(n, plugged, gather)
      BY DEF ToProcess, Proper
    <3> HIDE DEF n
    <3>2. msg_pend' = Append(msg_pend, n)
      BY <2>2, <2>4, <3>1, PendOne DEF n
    <3>3. /\ Len(msg_pend') = Len(msg_pend) + 1 /\ msg_pend'[Len(msg_pend) + 1] = n
          /\ \A i \in 1..Len(msg_pend) : msg_pend'[i] = msg_pend[i]
          /\ Len(msg_pend) \in Nat
      BY <2>2, <3>1, <3>2, AppendElems
    <3>4. \A i \in 1..Len(msg_pend') : i \in 1..Len(msg_pend) \/ i = Len(msg_pend')
      BY <3>3
    <3>5. \A i \in 1..Len(msg_pend) : Proper(msg_pend[i], plugged, gather) /\ msg_pend[i].op # "pub"
      BY <2>2 DEF Quiet
    <3> QED BY <2>1, <3>1, <3>3, <3>4, <3>5 DEF PendInv
  <2> QED BY <1>4, <2>3, <2>4 DEF HandleCmdMsg
<1>5. CASE Swap
  <2> DEFINE a == SubMsg("sub", Responder)
             b == SubMsg("unsub", target)
  <2>1. UNCHANGED <<plugged, gather, subs>> /\ pc # "process" /\ target = plugged /\ target \in Lives
    BY <1>5 DEF Swap, PhaseInv, TypeOK
  <2>2. msg_pend \in Seq(ToProcess) /\ Quiet(msg_pend, plugged, gather)
    BY <2>1, PendQuiet
  <2>3. a \in ToProcess /\ b \in ToProcess
    BY <2>1, SubMsgType
  <2>4. Proper(a, plugged, gather) /\ Proper(b, plugged, gather) /\ a.op # "pub" /\ b.op # "pub"
    BY <2>1 DEF SubMsg, Proper
  <2>5. msg_pend' = msg_pend \o <<a, b>>
    BY <1>5 DEF Swap, Pend
  <2> HIDE DEF a, b
  <2>6. msg_pend' = Append(Append(msg_pend, a), b)
    BY <2>2, <2>3, <2>5, PendTwo
  <2>7. Append(msg_pend, a) \in Seq(ToProcess) /\ Quiet(Append(msg_pend, a), plugged, gather)
    BY <2>2, <2>3, <2>4, QuietAppend
  <2>8. Quiet(msg_pend', plugged, gather)
    BY <2>3, <2>4, <2>6, <2>7, QuietAppend, Zenon
  <2> QED BY <1>0, <2>1, <2>8
<1>6. CASE FreeDevice
  <2> DEFINE a == [op |-> "remove"]
             b == ListMsg
  <2>1. UNCHANGED <<plugged, gather, subs>> /\ pc # "process"
    BY <1>6 DEF FreeDevice
  <2>2. msg_pend \in Seq(ToProcess) /\ Quiet(msg_pend, plugged, gather)
    BY <2>1, PendQuiet
  <2>3. a \in ToProcess /\ b \in ToProcess
    <3>1. devices' \in Seq(Lives)
      BY <1>6, WithoutType DEF FreeDevice, TypeOK
    <3> QED BY <3>1, ListMsgType DEF ToProcess
  <2>4. Proper(a, plugged, gather) /\ Proper(b, plugged, gather) /\ a.op # "pub" /\ b.op # "pub"
    BY DEF ListMsg, Proper
  <2>5. CASE UNCHANGED msg_pend
    BY <1>0, <2>1, <2>2, <2>5
  <2>6. CASE msg_pend' = msg_pend \o <<a, b>>
    <3> HIDE DEF a, b
    <3>1. msg_pend' = Append(Append(msg_pend, a), b)
      BY <2>2, <2>3, <2>6, PendTwo
    <3>2. Append(msg_pend, a) \in Seq(ToProcess) /\ Quiet(Append(msg_pend, a), plugged, gather)
      BY <2>2, <2>3, <2>4, QuietAppend
    <3>3. Quiet(msg_pend', plugged, gather)
      BY <2>3, <2>4, <3>1, <3>2, QuietAppend, Zenon
    <3> QED BY <1>0, <2>1, <3>3
  <2> QED BY <1>6, <2>5, <2>6 DEF FreeDevice, Pend
<1>7. CASE ProcessMsg
  <2> DEFINE m == Head(msg_pend)
             q == Tail(msg_pend)
  <2>1. /\ msg_pend' = q /\ msg_pend # <<>> /\ msg_pend \in Seq(ToProcess)
        /\ UNCHANGED <<plugged, gather, pc>>
    BY <1>7, ProcessSubs DEF TypeOK
  <2>2. /\ Len(q) = Len(msg_pend) - 1 /\ Len(msg_pend) \in Nat /\ m = msg_pend[1] /\ 1 \in 1..Len(msg_pend)
        /\ \A i \in 1..Len(q) : i + 1 \in 1..Len(msg_pend) /\ q[i] = msg_pend[i + 1]
    BY <2>1, TailElems
  <2>3. Proper(m, plugged, gather) /\ m \in ToProcess
    BY <1>7, <2>2, ProcessSubs DEF PendInv
  <2>4. subs'["dev"] \subseteq {Responder, plugged}
    <3>1. \A w : w \in subs'["dev"] => w \in subs["dev"] \/ m \in SubOf({"sub"}, w)
      BY <1>7, ProcessSubs
    <3>2. \A w : m \in SubOf({"sub"}, w) => w \in {Responder, plugged}
      BY <2>3, Kinds DEF Proper
    <3> QED BY <3>1, <3>2, Zenon DEF PendInv
  <2>5. \A l \in subs'["cfg"] : l \in Lives /\ gather[l] # "idle"
    <3>1. \A w \in subs'["cfg"] : w \in subs["cfg"] \/ (m.op = "sub" /\ m.topic = "cfg" /\ m.who = w)
      BY <1>7, ProcessSubs
    <3> HIDE DEF m
    <3> QED BY <2>3, <3>1 DEF PendInv, Proper
  <2> HIDE DEF m, q
  <2>6. \A i \in 1..Len(q) : Proper(q[i], plugged, gather) /\ (q[i].op = "pub" => pc = "process" /\ i = Len(q))
    BY <2>2 DEF PendInv
  <2> QED BY <2>1, <2>4, <2>5, <2>6 DEF PendInv
<1>8. CASE ProcessDone
  <2>1. UNCHANGED <<plugged, gather, subs>> /\ Len(msg_pend') = 0
    BY <1>8 DEF ProcessDone
  <2> QED BY <1>0, <2>1 DEF Quiet
<1>9. CASE Join \/ RemoveAll \/ ExitDone
  <2>1. UNCHANGED <<plugged, gather, subs, msg_pend>> /\ pc # "process"
    BY <1>9 DEF Join, RemoveAll, ExitDone
  <2> QED BY <1>0, <2>1, PendQuiet
<1>10. CASE UNCHANGED <<plugged, gather, subs, msg_pend, pc>>
  BY <1>10 DEF PendInv
<1>11. ASSUME \/ Unplug \/ Hotplug \/ UNCHANGED vars
              \/ \E k \in Lives : ProcessRemoving(k) \/ SendData(k) \/ Exit(k)
       PROVE  UNCHANGED <<plugged, gather, subs, msg_pend, pc>>
  BY <1>11, Zenon DEF Unplug, Hotplug, vars, ProcessRemoving, SendData, Exit, Terminate, Finalize
<1> QED BY <1>1, <1>2, <1>3, <1>4, <1>5, <1>6, <1>7, <1>8, <1>9, <1>10, <1>11
        DEF Next, Backend, Frontend

\* What one more pended message makes of the three
HaveIn(q, w, d) == LastOf(q, SubOf({"sub", "unsub"}, w), SubOf({"sub"}, w), d)
ListIn(q, k, d) == LastOf(q, [op : {"list"}, n : Nat], [op : {"list"}, n : {k}], d)
TellIn(q, op, d) == LastOf(q, [op : {"add", "remove"}], [op : {op}], d)

LEMMA PendMakes ==
    ASSUME NEW q \in Seq(ToProcess), NEW m \in ToProcess
    PROVE  /\ Append(q, m) \in Seq(ToProcess)
           /\ \A w, d : HaveIn(Append(q, m), w, d) <=>
                IF m.op \in {"sub", "unsub"} /\ m.topic = "dev" /\ m.who = w THEN m.op = "sub"
                ELSE HaveIn(q, w, d)
           /\ \A k, d : ListIn(Append(q, m), k, d) <=> IF m.op = "list" THEN m.n = k ELSE ListIn(q, k, d)
           /\ \A op \in {"add", "remove"} : \A d : TellIn(Append(q, m), op, d) <=>
                IF m.op \in {"add", "remove"} THEN m.op = op ELSE TellIn(q, op, d)
<1>1. ASSUME NEW w, NEW d
      PROVE  HaveIn(Append(q, m), w, d) <=>
               IF m.op \in {"sub", "unsub"} /\ m.topic = "dev" /\ m.who = w THEN m.op = "sub"
               ELSE HaveIn(q, w, d)
  <2>1. HaveIn(Append(q, m), w, d) <=> IF m \in SubOf({"sub", "unsub"}, w) THEN m \in SubOf({"sub"}, w)
                                       ELSE HaveIn(q, w, d)
    BY LastAppend DEF HaveIn
  <2> QED BY <2>1, Kinds
<1>2. ASSUME NEW k, NEW d
      PROVE  ListIn(Append(q, m), k, d) <=> IF m.op = "list" THEN m.n = k ELSE ListIn(q, k, d)
  <2> DEFINE K == [op : {"list"}, n : Nat]
             V == [op : {"list"}, n : {k}]
  <2>1. m \in K <=> m.op = "list"
    BY Kinds
  <2>2. m \in V <=> m.op = "list" /\ m.n = k
    BY Kinds
  <2> HIDE DEF K, V
  <2>3. LastOf(Append(q, m), K, V, d) <=> IF m \in K THEN m \in V ELSE LastOf(q, K, V, d)
    BY LastAppend
  <2> QED BY <2>1, <2>2, <2>3 DEF ListIn, K, V
<1>3. ASSUME NEW op \in {"add", "remove"}, NEW d
      PROVE  TellIn(Append(q, m), op, d) <=>
               IF m.op \in {"add", "remove"} THEN m.op = op ELSE TellIn(q, op, d)
  <2> DEFINE K == [op : {"add", "remove"}]
             V == [op : {op}]
  <2>1. m \in K <=> m.op \in {"add", "remove"}
    BY Kinds
  <2>2. m \in V <=> m.op = op
    BY Kinds
  <2> HIDE DEF K, V
  <2>3. LastOf(Append(q, m), K, V, d) <=> IF m \in K THEN m \in V ELSE LastOf(q, K, V, d)
    BY LastAppend
  <2> QED BY <2>1, <2>2, <2>3 DEF TellIn, K, V
<1>4. Append(q, m) \in Seq(ToProcess)
  OBVIOUS
<1> QED BY <1>1, <1>2, <1>3, <1>4

\* Processing the first message makes no difference to what will be.
LEMMA ProcessKeeps ==
    ASSUME TypeOK, ProcessMsg
    PROVE  /\ \A w : WillHave(w)' <=> WillHave(w)
           /\ \A k : WillList(k)' <=> WillList(k)
           /\ WillTell("add", "present")' <=> WillTell("add", "present")
           /\ WillTell("remove", "absent")' <=> WillTell("remove", "absent")
<1> DEFINE m == Head(msg_pend)
<1>1. m \in ToProcess /\ msg_pend' = Tail(msg_pend) /\ msg_pend # <<>> /\ msg_pend \in Seq(ToProcess)
  BY ProcessSubs, Zenon DEF TypeOK
<1>2. ASSUME NEW w PROVE WillHave(w)' <=> WillHave(w)
  <2>1. w \in subs'["dev"] <=> IF m \in SubOf({"sub", "unsub"}, w) THEN m \in SubOf({"sub"}, w) ELSE w \in subs["dev"]
    BY ProcessSubs, Zenon
  <2>2. LastOf(Tail(msg_pend), SubOf({"sub", "unsub"}, w), SubOf({"sub"}, w), w \in subs'["dev"]) <=>
        LastOf(msg_pend, SubOf({"sub", "unsub"}, w), SubOf({"sub"}, w), w \in subs["dev"])
    BY <1>1, <2>1, LastTail, Zenon
  <2>3. SubOf({"sub", "unsub"}, w)' = SubOf({"sub", "unsub"}, w) /\ SubOf({"sub"}, w)' = SubOf({"sub"}, w)
    BY DEF SubOf
  <2> QED BY <1>1, <2>2, <2>3 DEF WillHave
<1>3. /\ m \in [op : {"list"}, n : Nat] <=> m.op = "list"
      /\ \A k : m \in [op : {"list"}, n : {k}] <=> m.op = "list" /\ m.n = k
      /\ m \in [op : {"add", "remove"}] <=> m.op \in {"add", "remove"}
      /\ m \in [op : {"add"}] <=> m.op = "add"
      /\ m \in [op : {"remove"}] <=> m.op = "remove"
  BY <1>1, Kinds
<1>4. /\ list' = IF m.op = "list" THEN m.n ELSE list
      /\ view' = CASE m.op = "add" -> "present" [] m.op = "remove" -> "absent" [] OTHER -> view
  BY DEF ProcessMsg, ProcessSub, ProcessUnsub, ProcessPub, ProcessData, ProcessNews
<1>5. ASSUME NEW k PROVE WillList(k)' <=> WillList(k)
  <2>1. list' = k <=> IF m \in [op : {"list"}, n : Nat] THEN m \in [op : {"list"}, n : {k}] ELSE list = k
    BY <1>3, <1>4
  <2> QED BY <1>1, <2>1, LastTail, Zenon DEF WillList
<1>6. WillTell("add", "present")' <=> WillTell("add", "present")
  <2>1. view' = "present" <=> IF m \in [op : {"add", "remove"}] THEN m \in [op : {"add"}] ELSE view = "present"
    BY <1>3, <1>4
  <2> QED BY <1>1, <2>1, LastTail, Zenon DEF WillTell
<1>7. WillTell("remove", "absent")' <=> WillTell("remove", "absent")
  <2>1. view' = "absent" <=> IF m \in [op : {"add", "remove"}] THEN m \in [op : {"remove"}] ELSE view = "absent"
    BY <1>3, <1>4
  <2> QED BY <1>1, <2>1, LastTail, Zenon DEF WillTell
<1> QED BY <1>2, <1>5, <1>6, <1>7

LEMMA NextSettled ==
    ASSUME ~FastReplug, TypeOK, LivesInv, QueueInv, PhaseInv, PendInv, SettledInv, [Next]_vars
    PROVE  SettledInv'
<1> USE DEF usb, threads, loop, pubsub
<1>a. /\ \A w : WillHave(w) <=> HaveIn(msg_pend, w, w \in subs["dev"])
      /\ \A k : WillList(k) <=> ListIn(msg_pend, k, list = k)
      /\ \A op, v : WillTell(op, v) <=> TellIn(msg_pend, op, view = v)
  BY DEF WillHave, WillList, WillTell, HaveIn, ListIn, TellIn
<1>b. ASSUME UNCHANGED <<subs, list, view>>
      PROVE  /\ \A w : WillHave(w)' <=> HaveIn(msg_pend', w, w \in subs["dev"])
             /\ \A k : WillList(k)' <=> ListIn(msg_pend', k, list = k)
             /\ \A op, v : WillTell(op, v)' <=> TellIn(msg_pend', op, view = v)
  BY <1>b DEF WillHave, WillList, WillTell, HaveIn, ListIn, TellIn
<1>c. msg_pend \in Seq(ToProcess)
  BY DEF TypeOK
\* A message that is none of the three kinds makes no difference.
<1>d. ASSUME NEW m \in ToProcess, m.op \notin {"list", "add", "remove"},
             m.op \in {"sub", "unsub"} => m.topic # "dev",
             msg_pend' = Append(msg_pend, m), UNCHANGED <<subs, list, view, devices>>,
             Serving, pc # "flush", pc' # "flush"
      PROVE  SettledInv'
  <2>1. \A w : WillHave(w)' <=> WillHave(w)
    BY <1>a, <1>b, <1>c, <1>d, PendMakes, Zenon
  <2>2. \A k : WillList(k)' <=> WillList(k)
    BY <1>a, <1>b, <1>c, <1>d, PendMakes, Zenon
  <2>3. ASSUME NEW op \in {"add", "remove"}, NEW v PROVE WillTell(op, v)' <=> WillTell(op, v)
    <3>1. m.op \notin {"add", "remove"}
      BY <1>d
    <3>2. TellIn(Append(msg_pend, m), op, view = v) <=> TellIn(msg_pend, op, view = v)
      BY <1>c, <3>1, PendMakes, Zenon
    <3>3. WillTell(op, v)' <=> TellIn(msg_pend', op, view = v)
      BY <1>b, <1>d, Zenon
    <3> QED BY <1>a, <1>d, <3>2, <3>3, Zenon
  <2> QED BY <1>d, <2>1, <2>2, <2>3 DEF SettledInv
<1>e. ASSUME UNCHANGED <<msg_pend, subs, list, view, devices>>,
             Serving' => Serving, (pc' = "flush") <=> (pc = "flush")
      PROVE  SettledInv'
  <2>1. \A w : WillHave(w)' <=> WillHave(w)
    BY <1>a, <1>b, <1>e, Zenon
  <2>2. \A k : WillList(k)' <=> WillList(k)
    BY <1>a, <1>b, <1>e, Zenon
  <2>3. \A op, v : WillTell(op, v)' <=> WillTell(op, v)
    BY <1>a, <1>b, <1>e, Zenon
  <2> QED BY <1>e, <2>1, <2>2, <2>3 DEF SettledInv
<1>1. ASSUME \/ Plug \/ Unplug \/ Hotplug \/ UNCHANGED vars
             \/ \E k \in Lives : ProcessRemoving(k) \/ SendData(k) \/ Subscribe(k) \/ Unsubscribe(k) \/ Exit(k)
      PROVE  SettledInv'
  <2>1. UNCHANGED <<msg_pend, subs, list, view, devices, pc, do_exit>>
    BY <1>1, Zenon DEF Plug, Unplug, Hotplug, vars, ProcessRemoving, SendData, Subscribe, Unsubscribe,
                Exit, Terminate, Finalize
  <2> QED BY <1>e, <2>1 DEF Serving
<1>2. CASE HandleBackendMsg
  <2> DEFINE m == Head(msg_backend)
  <2>1. UNCHANGED <<subs, list, view, do_exit>> /\ pc = "backend" /\ Serving
    BY <1>2 DEF HandleBackendMsg, Serving
  <2>2. plugged \in Lives
    BY <1>2, Received
  <2>3. CASE m.op = "add" /\ AddMsg(m.life)
    <3>1. m.life = plugged /\ devices = <<>>
      BY <1>2, <2>3, Received
    <3> DEFINE a == [op |-> "add"]
               b == SubMsg("unsub", Responder)
               c == SubMsg("sub", plugged)
               d == [op |-> "list", n |-> 1]
               q1 == Append(msg_pend, a)
               q2 == Append(q1, b)
               q3 == Append(q2, c)
    <3>2. /\ a \in ToProcess /\ b \in ToProcess /\ c \in ToProcess /\ d \in ToProcess
          /\ msg_pend' = Append(q3, d) /\ devices' = <<plugged>> /\ Len(devices') = 1
      BY <2>2, <2>3, <3>1, AddPends
    <3>3. /\ a.op = "add" /\ b.op = "unsub" /\ b.topic = "dev" /\ b.who = Responder
          /\ c.op = "sub" /\ c.topic = "dev" /\ c.who = plugged /\ d.op = "list" /\ d.n = 1
      BY DEF SubMsg
    <3>4. pc' = "backend"
      BY <2>1, <2>3 DEF AddMsg
    <3> HIDE DEF a, b, c, d
    <3>5. q1 \in Seq(ToProcess) /\ q2 \in Seq(ToProcess) /\ q3 \in Seq(ToProcess)
      BY <1>c, <3>2, PendMakes
    <3>6. Responder # plugged /\ \A l \in Lives : l # Responder
      BY <2>2 DEF Responder, Lives
    <3>7. \A l \in Lives : WillHave(l)' <=> IF l = plugged THEN TRUE ELSE WillHave(l)
      <4> TAKE l \in Lives
      <4> DEFINE e == l \in subs["dev"]
      <4> HIDE DEF e
      <4>1. HaveIn(q1, l, e) <=> HaveIn(msg_pend, l, e)
        BY <1>c, <3>2, <3>3, PendMakes
      <4> HIDE DEF q1
      <4>2. HaveIn(q2, l, e) <=> HaveIn(q1, l, e)
        BY <3>2, <3>3, <3>5, <3>6, PendMakes
      <4> HIDE DEF q2
      <4>3. HaveIn(q3, l, e) <=> IF l = plugged THEN TRUE ELSE HaveIn(q2, l, e)
        BY <3>2, <3>3, <3>5, PendMakes
      <4> HIDE DEF q3
      <4>4. HaveIn(msg_pend', l, e) <=> HaveIn(q3, l, e)
        BY <3>2, <3>3, <3>5, PendMakes
      <4> QED BY <1>a, <1>b, <2>1, <4>1, <4>2, <4>3, <4>4, Zenon DEF e
    <3>8. ~WillHave(Responder)'
      <4> DEFINE e == Responder \in subs["dev"]
      <4> HIDE DEF e
      <4>1. ~HaveIn(q2, Responder, e)
        BY <3>2, <3>3, <3>5, PendMakes, Zenon
      <4> HIDE DEF q2
      <4>2. ~HaveIn(q3, Responder, e)
        BY <3>2, <3>3, <3>5, <3>6, <4>1, PendMakes
      <4> HIDE DEF q3
      <4>3. ~HaveIn(msg_pend', Responder, e)
        BY <3>2, <3>3, <3>5, <4>2, PendMakes
      <4> QED BY <1>b, <2>1, <4>3, Zenon DEF e
    <3>9. WillList(1)'
      <4> HIDE DEF q3
      <4> QED BY <1>b, <2>1, <3>2, <3>3, <3>5, PendMakes, Zenon
    <3>10. WillTell("add", "present")'
      <4> DEFINE e == view = "present"
      <4> HIDE DEF e
      <4>1. TellIn(q1, "add", e)
        BY <1>c, <3>2, <3>3, PendMakes
      <4> HIDE DEF q1
      <4>2. TellIn(q2, "add", e)
        BY <3>2, <3>3, <3>5, <4>1, PendMakes
      <4> HIDE DEF q2
      <4>3. TellIn(q3, "add", e)
        BY <3>2, <3>3, <3>5, <4>2, PendMakes
      <4> HIDE DEF q3
      <4>4. TellIn(msg_pend', "add", e)
        BY <3>2, <3>3, <3>5, <4>3, PendMakes
      <4> QED BY <1>b, <2>1, <4>4 DEF e
    <3>11. \A l \in Lives : ~WillHave(l)
      BY <2>1, <3>1 DEF SettledInv
    <3>12. devices' # <<>> /\ \A l \in Lives : devices' = <<l>> <=> l = plugged
      BY <3>2
    <3> QED BY <3>2, <3>4, <3>7, <3>8, <3>9, <3>10, <3>11, <3>12 DEF SettledInv
  <2>4. CASE m.op = "add" /\ AddFails
    <3>1. /\ ListMsg \in ToProcess /\ ListMsg.op = "list" /\ ListMsg.n = Len(devices)
          /\ UNCHANGED <<devices, pc>>
      BY <2>4, ListMsgType DEF AddFails, TypeOK, ListMsg
    <3>2. msg_pend' = Append(msg_pend, ListMsg)
      BY <1>c, <2>4, <3>1, PendOne DEF AddFails
    <3> DEFINE k == ListMsg
    <3> HIDE DEF k
    <3>3. k \in ToProcess /\ k.op = "list" /\ k.n = Len(devices) /\ msg_pend' = Append(msg_pend, k)
      BY <3>1, <3>2 DEF k
    <3>4. \A w : WillHave(w)' <=> WillHave(w)
      BY <1>a, <1>b, <1>c, <2>1, <3>3, PendMakes, Zenon
    <3>5. ASSUME NEW op \in {"add", "remove"}, NEW v PROVE WillTell(op, v)' <=> WillTell(op, v)
      <4>1. k \in ToProcess /\ k.op \notin {"add", "remove"}
        BY <3>3
      <4>2. TellIn(Append(msg_pend, k), op, view = v) <=> TellIn(msg_pend, op, view = v)
        BY <1>c, <4>1, PendMakes, Zenon
      <4>3. WillTell(op, v)' <=> TellIn(msg_pend', op, view = v)
        BY <1>b, <2>1, Zenon
      <4> QED BY <1>a, <3>3, <4>2, <4>3, Zenon
    <3>6. WillList(Len(devices))'
      <4>1. ListIn(msg_pend', Len(devices), list = Len(devices))
        BY <1>c, <3>3, PendMakes
      <4>2. WillList(Len(devices))' <=> ListIn(msg_pend', Len(devices'), list' = Len(devices'))
        BY DEF WillList, ListIn
      <4> QED BY <2>1, <3>1, <4>1, <4>2
    <3> QED BY <2>1, <3>1, <3>4, <3>5, <3>6 DEF SettledInv
  <2>5. CASE m.op = "remove" /\ RemoveMsg
    <3>1. DeviceLookup # 0
      BY <1>2, <2>2, <2>5, Received DEF Lives
    <3>2. UNCHANGED <<msg_pend, devices>> /\ pc' = "join"
      BY <2>5, <3>1 DEF RemoveMsg
    <3> QED BY <1>e, <2>1, <3>2
  <2>6. CASE m.op \notin {"add", "remove"} /\ ForwardMsg(m)
    <3> DEFINE n == IF m.op = "data" THEN [op |-> "data", life |-> m.life, origin |-> DeviceLookup] ELSE m
    <3>1. /\ m \in FromThreads /\ DeviceLookup = plugged
          /\ m.op = "data" => m.life = plugged
      BY <1>2, <2>6, Received
    <3>2. n \in ToProcess /\ n.op \notin {"list", "add", "remove"} /\ (n.op \in {"sub", "unsub"} => n.topic # "dev")
      <4>1. CASE m.op = "data"
        <5>1. n = [op |-> "data", life |-> plugged, origin |-> plugged]
          BY <3>1, <4>1
        <5> HIDE DEF n
        <5> QED BY <2>2, <5>1 DEF ToProcess
      <4>2. CASE m.op # "data"
        <5>1. n = m /\ m.op \in {"sub", "unsub"} /\ m.topic = "cfg" /\ m \in ToProcess
          BY <2>6, <3>1, <4>2 DEF FromThreads, ToProcess
        <5> HIDE DEF n, m
        <5> QED BY <5>1
      <4> QED BY <4>1, <4>2, Zenon
    <3>3. Pend(<<n>>) /\ UNCHANGED <<devices, pc>>
      BY <2>6 DEF ForwardMsg
    <3> HIDE DEF n
    <3>4. msg_pend' = Append(msg_pend, n)
      BY <1>c, <3>2, <3>3, PendOne
    <3> QED BY <1>d, <2>1, <3>2, <3>3, <3>4
  <2> QED BY <1>2, <2>3, <2>4, <2>5, <2>6 DEF HandleBackendMsg
<1>3. CASE HandleCmdMsg
  <2>1. /\ UNCHANGED <<subs, list, view, devices>> /\ pc = "backend" /\ pc' = "process" /\ Serving
    BY <1>3 DEF HandleCmdMsg, Serving
  <2>2. CASE UNCHANGED msg_pend
    BY <1>e, <2>1, <2>2
  <2>3. ASSUME NEW t \in {"dev", "cfg"}, Pend(<<[op |-> "pub", topic |-> t]>>) PROVE SettledInv'
    <3> DEFINE n == [op |-> "pub", topic |-> t]
    <3>1. n \in ToProcess /\ n.op = "pub"
      BY DEF ToProcess
    <3> HIDE DEF n
    <3>2. msg_pend' = Append(msg_pend, n)
      BY <1>c, <2>3, <3>1, PendOne DEF n
    <3> QED BY <1>d, <2>1, <3>1, <3>2
  <2> QED BY <1>3, <2>2, <2>3 DEF HandleCmdMsg
<1>4. CASE Join
  <2>1. UNCHANGED <<msg_pend, subs, list, view, devices, do_exit>> /\ pc = "join" /\ pc' = "drain"
    BY <1>4 DEF Join
  <2> QED BY <1>e, <2>1 DEF Serving
<1>5. CASE Swap
  <2> DEFINE a == SubMsg("sub", Responder)
             b == SubMsg("unsub", target)
             q1 == Append(msg_pend, a)
  <2>1. /\ UNCHANGED <<subs, list, view, devices, do_exit>> /\ pc = "drain" /\ pc' = "flush"
        /\ target = plugged /\ target \in Lives
    BY <1>5 DEF Swap, PhaseInv, TypeOK
  <2>2. a \in ToProcess /\ b \in ToProcess
    BY <2>1, SubMsgType
  <2>3. /\ a.op = "sub" /\ a.topic = "dev" /\ a.who = Responder
        /\ b.op = "unsub" /\ b.topic = "dev" /\ b.who = plugged
    BY <2>1 DEF SubMsg
  <2>4. msg_pend' = msg_pend \o <<a, b>>
    BY <1>5 DEF Swap, Pend
  <2> HIDE DEF a, b
  <2>5. msg_pend' = Append(q1, b)
    BY <1>c, <2>2, <2>4, PendTwo
  <2>6. q1 \in Seq(ToProcess)
    BY <1>c, <2>2, PendMakes
  <2>7. \A l \in Lives : l # Responder
    BY DEF Responder, Lives
  <2>8. \A l \in Lives : WillHave(l)' <=> IF l = plugged THEN FALSE ELSE WillHave(l)
    <3> TAKE l \in Lives
    <3> DEFINE e == l \in subs["dev"]
    <3> HIDE DEF e
    <3>1. HaveIn(q1, l, e) <=> HaveIn(msg_pend, l, e)
      BY <1>c, <2>2, <2>3, <2>7, PendMakes
    <3> HIDE DEF q1
    <3>2. HaveIn(msg_pend', l, e) <=> IF l = plugged THEN FALSE ELSE HaveIn(q1, l, e)
      BY <2>2, <2>3, <2>5, <2>6, PendMakes
    <3> QED BY <1>a, <1>b, <2>1, <3>1, <3>2, Zenon DEF e
  <2>9. \A k : WillList(k)' <=> WillList(k)
    <3> TAKE k
    <3> DEFINE e == list = k
    <3> HIDE DEF e
    <3>1. ListIn(q1, k, e) <=> ListIn(msg_pend, k, e)
      BY <1>c, <2>2, <2>3, PendMakes
    <3> HIDE DEF q1
    <3>2. ListIn(msg_pend', k, e) <=> ListIn(q1, k, e)
      BY <2>2, <2>3, <2>5, <2>6, PendMakes
    <3> QED BY <1>a, <1>b, <2>1, <3>1, <3>2, Zenon DEF e
  <2>10. \A op \in {"add", "remove"} : \A v : WillTell(op, v)' <=> WillTell(op, v)
    <3> TAKE op \in {"add", "remove"}
    <3> TAKE v
    <3> DEFINE e == view = v
    <3> HIDE DEF e
    <3>1. TellIn(q1, op, e) <=> TellIn(msg_pend, op, e)
      BY <1>c, <2>2, <2>3, PendMakes
    <3> HIDE DEF q1
    <3>2. TellIn(msg_pend', op, e) <=> TellIn(q1, op, e)
      BY <2>2, <2>3, <2>5, <2>6, PendMakes
    <3> QED BY <1>a, <1>b, <2>1, <3>1, <3>2, Zenon DEF e
  <2>11. Serving' => Serving /\ devices = <<plugged>>
    BY <2>1 DEF Serving, PhaseInv, LivesInv
  <2>12. devices = <<plugged>> => \A l \in Lives : devices = <<l>> => l = plugged
    OBVIOUS
  <2> QED BY <2>1, <2>8, <2>9, <2>10, <2>11, <2>12 DEF SettledInv
<1>6. CASE FreeDevice
  <2> DEFINE a == [op |-> "remove"]
             b == [op |-> "list", n |-> 0]
             q1 == Append(msg_pend, a)
  <2>1. UNCHANGED <<subs, list, view, do_exit>> /\ pc = "flush" /\ devices' = <<>> /\ Len(devices') = 0
    BY <1>6, WithoutTarget DEF FreeDevice
  <2>2. CASE do_exit
    <3>1. pc' = "exit" /\ do_exit'
      BY <1>6, <2>1, <2>2 DEF FreeDevice
    <3> QED BY <3>1 DEF SettledInv, Serving
  <2>3. CASE ~do_exit
    <3>1. a \in ToProcess /\ b \in ToProcess /\ a.op = "remove" /\ b.op = "list" /\ b.n = 0
      BY DEF ToProcess
    <3>2. msg_pend' = msg_pend \o <<a, b>> /\ pc' = "backend"
      BY <1>6, <2>1, <2>3 DEF FreeDevice, Pend, ListMsg
    <3> HIDE DEF a, b
    <3>3. msg_pend' = Append(q1, b) /\ q1 \in Seq(ToProcess)
      BY <1>c, <3>1, <3>2, PendTwo
    <3>4. Serving
      BY <2>3 DEF Serving
    <3>5. \A l \in Lives : ~WillHave(l)'
      <4> TAKE l \in Lives
      <4> DEFINE e == l \in subs["dev"]
      <4>0. ~HaveIn(msg_pend, l, e)
        BY <1>a, <2>1, <3>4, Zenon DEF SettledInv
      <4> HIDE DEF e
      <4>1. HaveIn(q1, l, e) <=> HaveIn(msg_pend, l, e)
        BY <1>c, <3>1, PendMakes
      <4> HIDE DEF q1
      <4>2. HaveIn(msg_pend', l, e) <=> HaveIn(q1, l, e)
        BY <3>1, <3>3, PendMakes
      <4> QED BY <1>b, <2>1, <4>0, <4>1, <4>2, Zenon DEF e
    <3>6. WillList(0)'
      <4> HIDE DEF q1
      <4> QED BY <1>b, <2>1, <3>1, <3>3, PendMakes, Zenon
    <3>7. WillTell("remove", "absent")'
      <4> DEFINE e == view = "absent"
      <4> HIDE DEF e
      <4>1. TellIn(q1, "remove", e)
        BY <1>c, <3>1, PendMakes
      <4> HIDE DEF q1
      <4>2. TellIn(msg_pend', "remove", e)
        BY <3>1, <3>3, <4>1, PendMakes
      <4> QED BY <1>b, <2>1, <4>2, Zenon DEF e
    <3>8. \A l : <<>> # <<l>>
      OBVIOUS
    <3> QED BY <2>1, <3>2, <3>5, <3>6, <3>7, <3>8 DEF SettledInv
  <2> QED BY <2>2, <2>3
<1>7. CASE ProcessMsg
  <2>1. UNCHANGED <<devices, pc, do_exit>>
    BY <1>7 DEF ProcessMsg
  <2> QED BY <1>7, <2>1, ProcessKeeps DEF SettledInv, Serving
<1>8. CASE ProcessDone
  <2>1. UNCHANGED <<msg_pend, subs, list, view, devices>> /\ pc = "process" /\ pc' # "flush"
    BY <1>8 DEF ProcessDone
  <2> QED BY <1>e, <2>1 DEF Serving
<1>9. CASE RemoveAll \/ ExitDone
  <2>1. do_exit /\ do_exit' = do_exit /\ pc' \in {"join", "done"}
    BY <1>9 DEF RemoveAll, ExitDone, PhaseInv
  <2> QED BY <2>1 DEF SettledInv, Serving
<1> QED BY <1>1, <1>2, <1>3, <1>4, <1>5, <1>6, <1>7, <1>8, <1>9 DEF Next, Backend, Frontend

------------------------------------------------------------------------------
(* Who is called                                                            *)

LEMMA NextCall ==
    ASSUME ~FastReplug, TypeOK, PhaseInv, PendInv, SettledInv, CallInv, [Next]_vars
    PROVE  CallInv'
<1> USE DEF usb, threads, loop, pubsub
<1>1. ASSUME UNCHANGED <<called, echoed>>, \A l \in Lives : gather[l] # "idle" => gather'[l] # "idle"
      PROVE  CallInv'
  BY <1>1 DEF CallInv, TypeOK
<1>2. ASSUME NEW k \in Lives, Subscribe(k) \/ Unsubscribe(k) PROVE CallInv'
  <2>1. UNCHANGED <<called, echoed>> /\ \A l \in Lives : gather[l] # "idle" => gather'[l] # "idle"
    BY <1>2 DEF Subscribe, Unsubscribe, TypeOK
  <2> QED BY <1>1, <2>1
<1>3. CASE ProcessMsg
  <2> DEFINE m == Head(msg_pend)
  <2>1. /\ msg_pend \in Seq(ToProcess) /\ msg_pend # <<>> /\ m \in ToProcess /\ gather' = gather
        /\ pc \in {"process", "drain", "flush"}
    BY <1>3, ProcessSubs, Zenon DEF ProcessMsg, TypeOK
  <2>2. m = msg_pend[1] /\ 1 \in 1..Len(msg_pend) /\ Len(msg_pend) \in Nat
    BY <2>1, TailElems
  <2>3. Proper(m, plugged, gather) /\ (m.op = "pub" => pc = "process" /\ Len(msg_pend) = 1)
    BY <2>2, Zenon DEF PendInv
  <2>a. \/ m.op = "sub" /\ ProcessSub(m)
        \/ m.op = "unsub" /\ ProcessUnsub(m)
        \/ m.op = "pub" /\ ProcessPub(m)
        \/ m.op = "data" /\ ProcessData(m)
        \/ m.op \in {"add", "remove", "list"} /\ ProcessNews(m)
    BY <1>3 DEF ProcessMsg
  <2> HIDE DEF m
  <2>4. CASE m.op = "sub" /\ ProcessSub(m)
    BY <2>1, <2>3, <2>4 DEF ProcessSub, Call, Proper, CallInv
  <2>5. CASE m.op = "unsub" /\ ProcessUnsub(m)
    BY <2>1, <2>5 DEF ProcessUnsub, CallInv
  <2>6. CASE m.op = "pub" /\ ProcessPub(m)
    <3>1. ASSUME NEW l \in subs["dev"], l \in freed PROVE FALSE
      <4>1. l \in Lives
        BY <3>1 DEF TypeOK
      <4>2. m \notin SubOf({"sub", "unsub"}, l)
        BY <2>1, <2>6, Kinds
      <4>3. \A j \in 1..Len(msg_pend) : msg_pend[j] \notin SubOf({"sub", "unsub"}, l)
        <5>0. Len(msg_pend) = 1
          BY <2>3, <2>6
        <5>1. \A j \in 1..Len(msg_pend) : j = 1
          BY <5>0
        <5> QED BY <2>2, <4>2, <5>1
      <4>4. WillHave(l)
        BY <3>1, <4>3 DEF WillHave, LastOf
      <4>5. devices = <<l>> /\ pc = "process"
        BY <2>3, <2>6, <4>1, <4>4 DEF SettledInv, Serving
      <4> QED BY <3>1, <4>5 DEF PhaseInv
    <3>2. \A l \in subs["cfg"] : gather[l] # "idle"
      BY DEF PendInv
    <3> QED BY <2>1, <2>6, <3>1, <3>2 DEF ProcessPub, Call, CallInv
  <2>7. CASE m.op = "data" /\ ProcessData(m)
    <3>1. m.life = plugged /\ m.origin = plugged
      BY <2>3, <2>7 DEF Proper
    <3>2. subs["dev"] \ {m.origin, Responder} = {} /\ {m.life} \ {m.origin} = {}
      BY <3>1 DEF PendInv
    <3> QED BY <2>1, <2>7, <3>2 DEF ProcessData, Call, CallInv
  <2>8. CASE m.op \in {"add", "remove", "list"} /\ ProcessNews(m)
    BY <2>1, <2>8 DEF ProcessNews, CallInv
  <2> QED BY <2>a, <2>4, <2>5, <2>6, <2>7, <2>8
<1>4. ASSUME \/ Plug \/ Unplug \/ Hotplug \/ UNCHANGED vars
             \/ \E k \in Lives : ProcessRemoving(k) \/ SendData(k) \/ Exit(k)
             \/ HandleBackendMsg \/ HandleCmdMsg \/ Join \/ Swap \/ FreeDevice \/ ProcessDone
             \/ RemoveAll \/ ExitDone
      PROVE  UNCHANGED <<called, echoed, gather>>
  BY <1>4, Zenon DEF Plug, Unplug, Hotplug, vars, ProcessRemoving, SendData, Exit, Terminate, Finalize,
              HandleBackendMsg, HandleCmdMsg, Join, Swap, FreeDevice, ProcessDone, RemoveAll, ExitDone
<1> QED BY <1>1, <1>2, <1>3, <1>4 DEF Next, Backend, Frontend

------------------------------------------------------------------------------
(* The theorems                                                             *)

LEMMA InitIInv == Init => IInv
<1> SUFFICES ASSUME Init PROVE IInv
  OBVIOUS
<1>1. TypeOK
  BY InitType
<1>2. Len(msg_pend) = 0 /\ Len(msg_backend) = 0 /\ Len(devices) = 0
  BY DEF Init
<1>3. LivesInv
  BY DEF Init, LivesInv
<1>4. QueueInv /\ PhaseInv /\ CallInv
  BY <1>2 DEF Init, QueueInv, PhaseInv, CallInv
<1>5. subs["dev"] = {} /\ subs["cfg"] = {}
  BY DEF Init
<1>6. PendInv
  BY <1>2, <1>5 DEF PendInv
<1>7. SettledInv
  <2>1. \A w : ~WillHave(w)
    BY <1>2, <1>5 DEF WillHave, LastOf
  <2>2. WillList(0) /\ WillTell("remove", "absent")
    BY <1>2 DEF Init, WillList, WillTell, LastOf
  <2>3. devices = <<>> /\ \A l : <<>> # <<l>>
    BY DEF Init
  <2> QED BY <1>2, <2>1, <2>2, <2>3 DEF SettledInv
<1> QED BY <1>1, <1>3, <1>4, <1>6, <1>7 DEF IInv

LEMMA NextIInv == ~FastReplug /\ IInv /\ [Next]_vars => IInv'
BY NextType, NextLives, NextQueue, NextPhase, NextPend, NextSettled, NextCall DEF IInv

\* When no message is left, what will be is what is.
LEMMA IInvAgrees == IInv => DevicesAgree /\ FreedSafely /\ NoEcho /\ ResponderMeansGone
<1> SUFFICES ASSUME IInv PROVE DevicesAgree /\ FreedSafely /\ NoEcho /\ ResponderMeansGone
  OBVIOUS
<1> USE DEF IInv
<1>1. ASSUME AtRest
      PROVE  /\ list = Len(devices) /\ (view = "present") = (devices # <<>>)
             /\ devices = <<>> => subs["dev"] \subseteq {Responder}
             /\ devices # <<>> => subs["dev"] = {plugged} /\ plugged # Responder
  <2>1. Len(msg_pend) = 0 /\ Serving /\ pc # "flush"
    BY <1>1 DEF AtRest, Serving
  <2>2. \A w : WillHave(w) <=> w \in subs["dev"]
    BY <2>1 DEF WillHave, LastOf
  <2>3. /\ \A l \in Lives : l \in subs["dev"] <=> devices = <<l>>
        /\ Responder \in subs["dev"] => devices = <<>>
        /\ WillList(Len(devices))
        /\ IF devices = <<>> THEN WillTell("remove", "absent") ELSE WillTell("add", "present")
    BY <2>1, <2>2 DEF SettledInv
  <2>4. list = Len(devices)
    BY <2>1, <2>3 DEF WillList, LastOf
  <2>5. view = IF devices = <<>> THEN "absent" ELSE "present"
    BY <2>1, <2>3 DEF WillTell, LastOf
  <2>6. (view = "present") = (devices # <<>>)
    BY <2>5
  <2>7. devices = <<>> => subs["dev"] \subseteq {Responder}
    <3>1. \A l : <<>> # <<l>>
      OBVIOUS
    <3> QED BY <2>3, <3>1 DEF TypeOK
  <2>8. ASSUME devices # <<>> PROVE subs["dev"] = {plugged} /\ plugged # Responder
    <3>1. devices = <<plugged>> /\ plugged \in Lives /\ plugged # Responder
      BY <2>8 DEF LivesInv, TypeOK, Lives, Responder
    <3>2. subs["dev"] \subseteq {Responder, plugged}
      BY DEF PendInv
    <3> QED BY <2>3, <2>8, <3>1, <3>2
  <2> QED BY <2>4, <2>6, <2>7, <2>8
<1>2. DevicesAgree
  <2>1. devices # <<>> => DeviceLookup = plugged
    BY LookupLive
  <2> QED BY <1>1, <2>1, Zenon DEF DevicesAgree, ViewMatchesList, OneOwner
<1>3. FreedSafely
  BY DEF FreedSafely, JoinsTheSender, OnlyGathersOutlive, PhaseInv, CallInv
<1>4. NoEcho /\ ResponderMeansGone
  BY <1>1 DEF NoEcho, ResponderMeansGone, CallInv
<1> QED BY <1>2, <1>3, <1>4

\* When a device returns only after its removal is complete, however often it
\* is plugged in: between two passes of frontend_thread, @/list, the last
\* @/!add or @/!remove, the frontend's list and the subscribers of the prefix
\* agree.
THEOREM ListsAgree == ~FastReplug => (Spec => []DevicesAgree)
<1> SUFFICES ASSUME ~FastReplug PROVE Spec => []DevicesAgree
  OBVIOUS
<1>1. Init => IInv
  BY InitIInv
<1>2. IInv /\ [Next]_vars => IInv'
  BY NextIInv
<1>3. IInv => DevicesAgree
  BY IInvAgrees
<1> QED BY <1>1, <1>2, <1>3, PTL DEF Spec

\* Under the same assumption device_remove joins a thread that has ended, and
\* nothing but a subscription of the device's own gather can call it once freed.
THEOREM RemovesSafely == ~FastReplug => (Spec => []FreedSafely)
<1> SUFFICES ASSUME ~FastReplug PROVE Spec => []FreedSafely
  OBVIOUS
<1>1. Init => IInv
  BY InitIInv
<1>2. IInv /\ [Next]_vars => IInv'
  BY NextIInv
<1>3. IInv => FreedSafely
  BY IInvAgrees
<1> QED BY <1>1, <1>2, <1>3, PTL DEF Spec

\* Under the same assumption no device is sent its own data: device_subscriber
\* is never called with what the device published.
THEOREM OriginSuppressed == ~FastReplug => (Spec => []NoEcho)
<1> SUFFICES ASSUME ~FastReplug PROVE Spec => []NoEcho
  OBVIOUS
<1>1. Init => IInv
  BY InitIInv
<1>2. IInv /\ [Next]_vars => IInv'
  BY NextIInv
<1>3. IInv => NoEcho
  BY IInvAgrees
<1> QED BY <1>1, <1>2, <1>3, PTL DEF Spec
==============================================================================

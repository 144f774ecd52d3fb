------------------------------- MODULE PubSub -------------------------------
(***************************************************************************)
(* The topic tree of pubsub.c: retained values and metadata, hierarchical  *)
(* subscriptions, and the queue msg_pend that the frontend thread works    *)
(* off.  The owner is the subscriber that is a device: it acts on a        *)
(* publish later, on its own thread, and answers with a return code.       *)
(*                                                                         *)
(* A metadata is what it allows: a set of values.                          *)
(***************************************************************************)
EXTENDS Integers, Sequences, FiniteSets, TLAPS

CONSTANTS Topics, Root,   \* Root \in Topics
          Parent,         \* Parent[t] for every topic but Root
          Commands,       \* topics whose name starts with '!'
          Subscribers,    \* callbacks with their user data
          Owner,          \* the one that is a device driver
          Values, Metas,  \* values, and sets of values
          FlagSets,       \* the subscription flags that are used
          None,
          MaxPend,        \* requests in msg_pend (bound)
          MaxSubs         \* subscriptions to one topic (bound)

ASSUME PubSubAssumption ==
    /\ Root \in Topics /\ Commands \subseteq Topics \ {Root}
    /\ Parent \in [Topics \ {Root} -> Topics]
    /\ Owner \in Subscribers
    /\ Metas \subseteq SUBSET Values
    /\ None \notin Values \cup Metas
    /\ FlagSets \subseteq SUBSET {"pub", "meta", "retain"}
    /\ MaxPend \in Nat \ {0} /\ MaxSubs \in Nat \ {0}

\* A tree of topics directly below Root: one device prefix and its settings.
Flat == [t \in Topics \ {Root} |-> Root]

VARIABLES subs,     \* subs[t]: t->subscribers, without their order
          value,    \* value[t]: t->value, or None
          meta,     \* meta[t]: t->meta, or None
          msg_pend, \* self->msg_pend
          seen,     \* seen[s][t]: the value of t that s heard last, or sent
          seenMeta, \* seenMeta[s][t]: the metadata of t that s heard last
          verdict,  \* verdict[t]: what the owner made of the value it got last
          answer    \* the last return code: its topic and code

vars == <<subs, value, meta, msg_pend, seen, seenMeta, verdict, answer>>

Init ==
    /\ subs = [t \in Topics |-> {}]
    /\ value = [t \in Topics |-> None] /\ meta = [t \in Topics |-> None]
    /\ msg_pend = <<>>
    /\ seen = [s \in Subscribers |-> [t \in Topics |-> None]]
    /\ seenMeta = [s \in Subscribers |-> [t \in Topics |-> None]]
    /\ verdict = [t \in Topics |-> "none"]
    /\ answer = [topic |-> Root, rc |-> "none"]

------------------------------------------------------------------------------
(* The tree                                                                 *)

\* t and the topics above it
AtOrAbove[t \in Topics] == {t} \cup (IF t = Root THEN {} ELSE AtOrAbove[Parent[t]])

AtOrBelow(t) == {u \in Topics : t \in AtOrAbove[u]}

\* Faulty: publish does not walk up to the root.
HeardOnlyAt(t, flag, origin) ==
    {s \in Subscribers \ {origin} : \E e \in subs[t] : e.who = s /\ flag \in e.flags}

\* publish: whom a message at t reaches, which is every subscriber at or
\* above t that asked for that kind of message, except its origin
Heard(t, flag, origin) ==
    {s \in Subscribers \ {origin} :
        \E u \in Topics : u \in AtOrAbove[t] /\ \E e \in subs[u] : e.who = s /\ flag \in e.flags}

Learn(known, S, t, v) == [s \in Subscribers |-> IF s \in S THEN [known[s] EXCEPT ![t] = v] ELSE known[s]]

Answer(t, rc) == answer' = [topic |-> t, rc |-> rc]

------------------------------------------------------------------------------
(* process_msg, by the kind of message                                      *)

\* subscribe, subscribe_traverse: the new subscriber hears every retained
\* value and every metadata at or below the topic, of the kinds it asked for
ProcessSub(m) ==
    LET told(flag, content, known) ==
          IF {flag, "retain"} \subseteq m.flags
          THEN [known EXCEPT ![m.who] =
                  [u \in Topics |-> IF u \in AtOrBelow(m.topic) /\ content[u] # None
                                    THEN content[u] ELSE @[u]]]
          ELSE known
    IN  /\ subs' = [subs EXCEPT ![m.topic] = @ \cup {[who |-> m.who, flags |-> m.flags]}]
        /\ seen' = told("pub", value, seen)
        /\ seenMeta' = told("meta", meta, seenMeta)
        /\ Answer(m.topic, "ok")
        /\ UNCHANGED <<value, meta, verdict>>

Others(S, who) == {e \in S : e.who # who}

\* unsubscribe: every subscription of that callback to the topic
ProcessUnsub(m) ==
    /\ subs' = [subs EXCEPT ![m.topic] = Others(@, m.who)]
    /\ Answer(m.topic, IF Others(subs[m.topic], m.who) = subs[m.topic] THEN "not_found" ELSE "ok")
    /\ UNCHANGED <<value, meta, seen, seenMeta, verdict>>

\* unsubscribe_from_all
ProcessUnsubAll(m) ==
    /\ subs' = [t \in Topics |-> Others(subs[t], m.who)]
    /\ Answer(Root, "ok")
    /\ UNCHANGED <<value, meta, seen, seenMeta, verdict>>

\* publish_meta
ProcessMeta(m) ==
    /\ meta' = [meta EXCEPT ![m.topic] = m.meta]
    /\ seenMeta' = Learn(seenMeta, Heard(m.topic, "meta", m.origin) \cup {m.origin}, m.topic, m.meta)
    /\ UNCHANGED <<subs, value, seen, verdict, answer>>

\* publish_return_code
ProcessReturnCode(m) ==
    /\ Answer(m.topic, m.rc)
    /\ UNCHANGED <<subs, value, meta, seen, seenMeta, verdict>>

Invalid(m) == meta[m.topic] # None /\ m.value \notin meta[m.topic]

\* publish_normal, jsdrv_meta_value refuses: nobody hears it
ProcessInvalid(m) ==
    /\ Invalid(m)
    /\ Answer(m.topic, "invalid")
    /\ UNCHANGED <<subs, value, meta, seen, seenMeta, verdict>>

\* publish_normal, the retained value already is this one: success, and
\* nobody hears it again
ProcessDuplicate(m) ==
    /\ ~Invalid(m) /\ value[m.topic] = m.value
    /\ Answer(m.topic, "ok")
    /\ UNCHANGED <<subs, value, meta, seen, seenMeta, verdict>>

\* publish_normal, a new value: kept when it asks to be, and delivered
ProcessNew(m) ==
    /\ ~Invalid(m) /\ value[m.topic] # m.value
    /\ value' = [value EXCEPT ![m.topic] =
                    IF m.retain /\ m.topic \notin Commands THEN m.value ELSE None]
    /\ LET heard == Heard(m.topic, "pub", m.origin) IN
         /\ seen' = Learn(seen, heard \cup {m.origin}, m.topic, m.value)
         /\ verdict' = [verdict EXCEPT ![m.topic] = IF Owner \in heard THEN "pending"
                                                    ELSE IF m.origin = Owner THEN "none" ELSE @]
    /\ UNCHANGED <<subs, meta, seenMeta, answer>>

\* jsdrv_pubsub_process takes the next message
Process ==
    /\ msg_pend # <<>>
    /\ msg_pend' = Tail(msg_pend)
    /\ LET m == Head(msg_pend) IN
         \/ m.op = "sub"      /\ ProcessSub(m)
         \/ m.op = "unsub"    /\ ProcessUnsub(m)
         \/ m.op = "unsuball" /\ ProcessUnsubAll(m)
         \/ m.op = "meta"     /\ ProcessMeta(m)
         \/ m.op = "rc"       /\ ProcessReturnCode(m)
         \/ m.op = "pub"      /\ (ProcessInvalid(m) \/ ProcessDuplicate(m) \/ ProcessNew(m))

------------------------------------------------------------------------------
(* What the clients do                                                      *)

Requests ==
    [op : {"sub"}, topic : Topics, who : Subscribers, flags : FlagSets] \cup
    [op : {"unsub"}, topic : Topics, who : Subscribers] \cup
    [op : {"unsuball"}, who : Subscribers] \cup
    [op : {"meta"}, topic : Topics \ {Root}, meta : Metas, origin : {Owner}] \cup
    [op : {"pub"}, topic : Topics \ {Root}, value : Values, retain : BOOLEAN,
     origin : {None, Owner}]

ReturnCodes == [op : {"rc"}, topic : Topics, rc : {"ok", "rejected"}]

\* jsdrv_pubsub_publish of any request of an application or a device
Send(m) ==
    /\ Len(msg_pend) < MaxPend
    /\ m.op = "sub" => Cardinality(subs[m.topic]) < MaxSubs
    /\ msg_pend' = Append(msg_pend, m)
    /\ UNCHANGED <<subs, value, meta, seen, seenMeta, verdict, answer>>

\* The device has processed the publish that it heard last.
OwnerAnswers(t) ==
    /\ verdict[t] = "pending"
    /\ \E rc \in {"ok", "rejected"} :
         /\ verdict' = [verdict EXCEPT ![t] = rc]
         /\ msg_pend' = Append(msg_pend, [op |-> "rc", topic |-> t, rc |-> rc])
    /\ UNCHANGED <<subs, value, meta, seen, seenMeta, answer>>

Next ==
    \/ Process
    \/ \E m \in Requests : Send(m)
    \/ \E t \in Topics : OwnerAnswers(t)

Spec == Init /\ [][Next]_vars

------------------------------------------------------------------------------
TypeOK ==
    /\ subs \in [Topics -> SUBSET [who : Subscribers, flags : FlagSets]]
    /\ value \in [Topics -> Values \cup {None}]
    /\ meta \in [Topics -> Metas \cup {None}]
    /\ msg_pend \in Seq(Requests \cup ReturnCodes)
    /\ seen \in [Subscribers -> [Topics -> Values \cup {None}]]
    /\ seenMeta \in [Subscribers -> [Topics -> Metas \cup {None}]]
    /\ verdict \in [Topics -> {"none", "pending", "ok", "rejected"}]
    /\ answer \in [topic : Topics, rc : {"none", "ok", "invalid", "not_found", "rejected"}]

\* Subscribers that asked at or above t for this kind and what is retained
Following(t, flag) ==
    {s \in Subscribers : \E u \in Topics : u \in AtOrAbove[t] /\
        \E e \in subs[u] : e.who = s /\ {flag, "retain"} \subseteq e.flags}

\* Whoever follows a topic with its retained value knows that value, however
\* subscriptions, publishes and duplicates were interleaved, and so it is with
\* the metadata.
RetainedSeen ==
    \A t \in Topics :
        /\ value[t] # None => \A s \in Following(t, "pub") : seen[s][t] = value[t]
        /\ meta[t] # None => \A s \in Following(t, "meta") : seenMeta[s][t] = meta[t]

\* jsdrv_publish: "the call blocks until the topic owner (if any) has
\* processed the publish, and the return value reflects that processing."
\* A publish never succeeds while the owner rejects the value it asks for.
AnswerReflectsOwner ==
    answer.rc = "ok" => verdict[answer.topic] # "rejected"

\* jsdrv_unsubscribe: "A mismatch is not an error; the operation succeeds but
\* the subscription remains active."
MismatchSucceeds == answer.rc # "not_found"
------------------------------------------------------------------------------
(* Proofs, for any tree, any subscribers and values, and queues of any length *)

\* The queue that jsdrv_pubsub_process takes from: its head and its rest
LEMMA TakeNext ==
    ASSUME NEW S, NEW q \in Seq(S), q # <<>>
    PROVE  Head(q) \in S /\ Tail(q) \in Seq(S)
OBVIOUS

LEMMA AddLast ==
    ASSUME NEW S, NEW q \in Seq(S), NEW m \in S
    PROVE  Append(q, m) \in Seq(S)
OBVIOUS

\* process_msg keeps the types, whatever the kind of message.
LEMMA ProcessType == TypeOK /\ Process => TypeOK'
<1> SUFFICES ASSUME TypeOK, Process PROVE TypeOK'
  OBVIOUS
<1> USE PubSubAssumption
<1> DEFINE m == Head(msg_pend)
<1>1. m \in Requests \cup ReturnCodes /\ msg_pend' \in Seq(Requests \cup ReturnCodes)
  BY TakeNext DEF Process, TypeOK
<1> HIDE DEF m
<1>2. CASE m.op = "sub" /\ ProcessSub(m)
  <2>1. m.topic \in Topics /\ m.who \in Subscribers /\ m.flags \in FlagSets
    BY <1>1, <1>2 DEF Requests, ReturnCodes
  <2> QED BY <1>1, <1>2, <2>1 DEF TypeOK, ProcessSub, Answer
<1>3. CASE m.op = "unsub" /\ ProcessUnsub(m)
  <2>1. m.topic \in Topics /\ m.who \in Subscribers
    BY <1>1, <1>3 DEF Requests, ReturnCodes
  <2> QED BY <1>1, <1>3, <2>1 DEF TypeOK, ProcessUnsub, Answer, Others
<1>4. CASE m.op = "unsuball" /\ ProcessUnsubAll(m)
  BY <1>1, <1>4 DEF TypeOK, ProcessUnsubAll, Answer, Others
<1>5. CASE m.op = "meta" /\ ProcessMeta(m)
  <2>1. m.topic \in Topics /\ m.meta \in Metas
    BY <1>1, <1>5 DEF Requests, ReturnCodes
  <2> QED BY <1>1, <1>5, <2>1 DEF TypeOK, ProcessMeta, Learn
<1>6. CASE m.op = "rc" /\ ProcessReturnCode(m)
  <2>1. m.topic \in Topics /\ m.rc \in {"ok", "rejected"}
    BY <1>1, <1>6 DEF Requests, ReturnCodes
  <2> QED BY <1>1, <1>6, <2>1 DEF TypeOK, ProcessReturnCode, Answer
<1>7. CASE m.op = "pub" /\ (ProcessInvalid(m) \/ ProcessDuplicate(m) \/ ProcessNew(m))
  <2>1. m.topic \in Topics /\ m.value \in Values
    BY <1>1, <1>7 DEF Requests, ReturnCodes
  <2>2. CASE ProcessInvalid(m) \/ ProcessDuplicate(m)
    BY <1>1, <2>1, <2>2 DEF TypeOK, ProcessInvalid, ProcessDuplicate, Answer
  <2>3. CASE ProcessNew(m)
    BY <1>1, <2>1, <2>3 DEF TypeOK, ProcessNew, Learn
  <2> QED BY <1>7, <2>2, <2>3
<1> QED BY <1>2, <1>3, <1>4, <1>5, <1>6, <1>7 DEF Process, m

LEMMA TypeInductive == TypeOK /\ [Next]_vars => TypeOK'
<1> SUFFICES ASSUME TypeOK, [Next]_vars PROVE TypeOK'
  OBVIOUS
<1>1. CASE Process
  BY <1>1, ProcessType
<1>2. ASSUME NEW m \in Requests, Send(m) PROVE TypeOK'
  BY <1>2, AddLast DEF TypeOK, Send
<1>3. ASSUME NEW t \in Topics, OwnerAnswers(t) PROVE TypeOK'
  <2>1. PICK rc \in {"ok", "rejected"} :
          /\ verdict' = [verdict EXCEPT ![t] = rc]
          /\ msg_pend' = Append(msg_pend, [op |-> "rc", topic |-> t, rc |-> rc])
    BY <1>3 DEF OwnerAnswers
  <2>2. [op |-> "rc", topic |-> t, rc |-> rc] \in Requests \cup ReturnCodes
    BY DEF ReturnCodes
  <2> QED BY <1>3, <2>1, <2>2, AddLast DEF TypeOK, OwnerAnswers
<1>4. CASE UNCHANGED vars
  BY <1>4 DEF TypeOK, vars
<1> QED BY <1>1, <1>2, <1>3, <1>4 DEF Next

\* Every message names topics and subscribers that exist, and what is retained has
\* the type of what is published.
THEOREM TypeCorrect == Spec => []TypeOK
<1>1. Init => TypeOK
  <2> SUFFICES ASSUME Init PROVE TypeOK
    OBVIOUS
  <2>1. msg_pend \in Seq(Requests \cup ReturnCodes)
    BY DEF Init
  <2> QED BY <2>1, PubSubAssumption DEF Init, TypeOK
<1> QED BY <1>1, TypeInductive, PTL DEF Spec

\* A subscriber follows a topic because of a subscription that was there before,
\* or because of the one that is being made at the topic or above it.
LEMMA FollowsNewOrOld ==
    ASSUME TypeOK, NEW m, m.topic \in Topics, ProcessSub(m),
           NEW t \in Topics, NEW flag, NEW s \in Following(t, flag)'
    PROVE  \/ s \in Following(t, flag)
           \/ s = m.who /\ {flag, "retain"} \subseteq m.flags /\ t \in AtOrBelow(m.topic)
<1>1. s \in Subscribers /\ \E u \in Topics : u \in AtOrAbove[t] /\
        \E e \in subs'[u] : e.who = s /\ {flag, "retain"} \subseteq e.flags
  BY DEF Following
<1>2. PICK u \in Topics : u \in AtOrAbove[t] /\
        \E e \in subs'[u] : e.who = s /\ {flag, "retain"} \subseteq e.flags
  BY <1>1
<1>3. PICK e \in subs'[u] : e.who = s /\ {flag, "retain"} \subseteq e.flags
  BY <1>2
<1>4. subs'[u] = IF u = m.topic THEN subs[u] \cup {[who |-> m.who, flags |-> m.flags]} ELSE subs[u]
  BY DEF TypeOK, ProcessSub
<1>5. CASE e \in subs[u]
  BY <1>1, <1>2, <1>3, <1>5 DEF Following
<1>6. CASE u = m.topic /\ e = [who |-> m.who, flags |-> m.flags]
  BY <1>2, <1>3, <1>6 DEF AtOrBelow
<1> QED BY <1>3, <1>4, <1>5, <1>6

\* Without new subscriptions nobody begins to follow a topic.
LEMMA FollowsLess ==
    ASSUME NEW t \in Topics, NEW flag,
           \A u \in Topics : subs'[u] \subseteq subs[u]
    PROVE  Following(t, flag)' \subseteq Following(t, flag)
BY DEF Following

\* Whoever follows a topic hears what is published there, unless it sent it.
LEMMA FollowersHear ==
    ASSUME NEW t, NEW flag, NEW origin
    PROVE  Following(t, flag) \subseteq Heard(t, flag, origin) \cup {origin}
BY DEF Following, Heard

\* Values and metadata stay as they are, nobody forgets any, and there are no new
\* subscriptions.
LEMMA NothingNew ==
    ASSUME RetainedSeen, UNCHANGED <<value, meta, seen, seenMeta>>,
           \A u \in Topics : subs'[u] \subseteq subs[u]
    PROVE  RetainedSeen'
<1>1. \A t \in Topics : Following(t, "pub")' \subseteq Following(t, "pub")
  BY FollowsLess
<1>2. \A t \in Topics : Following(t, "meta")' \subseteq Following(t, "meta")
  BY FollowsLess
<1> QED BY <1>1, <1>2, Zenon DEF RetainedSeen

LEMMA ProcessSubSeen ==
    ASSUME TypeOK, RetainedSeen, NEW m \in Requests \cup ReturnCodes, m.op = "sub", ProcessSub(m)
    PROVE  RetainedSeen'
<1>1. m.topic \in Topics /\ m.who \in Subscribers /\ m.flags \in FlagSets
  BY DEF Requests, ReturnCodes
<1>2. value' = value /\ meta' = meta
  BY DEF ProcessSub
<1>3. ASSUME NEW t \in Topics, value[t] # None, NEW s \in Following(t, "pub")'
      PROVE  seen'[s][t] = value[t]
  <2>1. s \in Subscribers
    BY DEF Following
  <2>2. CASE s = m.who /\ {"pub", "retain"} \subseteq m.flags /\ t \in AtOrBelow(m.topic)
    BY <1>1, <1>3, <2>1, <2>2 DEF ProcessSub, TypeOK
  <2>3. CASE s \in Following(t, "pub")
    <3>1. seen[s][t] = value[t]
      BY <1>3, <2>3 DEF RetainedSeen
    <3> QED BY <1>1, <1>3, <2>1, <3>1 DEF ProcessSub, TypeOK
  <2> QED BY <1>1, <2>2, <2>3, FollowsNewOrOld
<1>4. ASSUME NEW t \in Topics, meta[t] # None, NEW s \in Following(t, "meta")'
      PROVE  seenMeta'[s][t] = meta[t]
  <2>1. s \in Subscribers
    BY DEF Following
  <2>2. CASE s = m.who /\ {"meta", "retain"} \subseteq m.flags /\ t \in AtOrBelow(m.topic)
    BY <1>1, <1>4, <2>1, <2>2 DEF ProcessSub, TypeOK
  <2>3. CASE s \in Following(t, "meta")
    <3>1. seenMeta[s][t] = meta[t]
      BY <1>4, <2>3 DEF RetainedSeen
    <3> QED BY <1>1, <1>4, <2>1, <3>1 DEF ProcessSub, TypeOK
  <2> QED BY <1>1, <2>2, <2>3, FollowsNewOrOld
<1> QED BY <1>2, <1>3, <1>4 DEF RetainedSeen

LEMMA ProcessMetaSeen ==
    ASSUME TypeOK, RetainedSeen, NEW m \in Requests \cup ReturnCodes, m.op = "meta", ProcessMeta(m)
    PROVE  RetainedSeen'
<1>1. m.topic \in Topics /\ m.meta \in Metas
  BY DEF Requests, ReturnCodes
<1>2. subs' = subs /\ value' = value /\ seen' = seen
  BY DEF ProcessMeta
<1>3. \A t \in Topics : Following(t, "pub")' = Following(t, "pub") /\ Following(t, "meta")' = Following(t, "meta")
  BY <1>2 DEF Following
<1>4. ASSUME NEW t \in Topics, meta'[t] # None, NEW s \in Following(t, "meta")
      PROVE  seenMeta'[s][t] = meta'[t]
  <2>1. s \in Subscribers
    BY DEF Following
  <2>2. CASE t = m.topic
    <3>1. s \in Heard(m.topic, "meta", m.origin) \cup {m.origin}
      BY <2>2, FollowersHear
    <3>2. meta'[t] = m.meta
      BY <1>1, <2>2 DEF ProcessMeta, TypeOK
    <3>3. seenMeta'[s] = [seenMeta[s] EXCEPT ![t] = m.meta]
      BY <2>1, <2>2, <3>1 DEF ProcessMeta, Learn
    <3> QED BY <2>1, <3>2, <3>3 DEF TypeOK
  <2>3. CASE t # m.topic
    <3>1. meta'[t] = meta[t] /\ seenMeta'[s][t] = seenMeta[s][t]
      BY <1>1, <2>1, <2>3 DEF ProcessMeta, Learn, TypeOK
    <3> QED BY <1>4, <3>1 DEF RetainedSeen
  <2> QED BY <2>2, <2>3
<1> QED BY <1>2, <1>3, <1>4 DEF RetainedSeen

LEMMA ProcessNewSeen ==
    ASSUME TypeOK, RetainedSeen, NEW m \in Requests \cup ReturnCodes, m.op = "pub", ProcessNew(m)
    PROVE  RetainedSeen'
<1>1. m.topic \in Topics /\ m.value \in Values
  BY DEF Requests, ReturnCodes
<1>2. subs' = subs /\ meta' = meta /\ seenMeta' = seenMeta
  BY DEF ProcessNew
<1>3. \A t \in Topics : Following(t, "pub")' = Following(t, "pub") /\ Following(t, "meta")' = Following(t, "meta")
  BY <1>2 DEF Following
<1>4. ASSUME NEW t \in Topics, value'[t] # None, NEW s \in Following(t, "pub")
      PROVE  seen'[s][t] = value'[t]
  <2>1. s \in Subscribers
    BY DEF Following
  <2>2. CASE t = m.topic
    <3>1. s \in Heard(m.topic, "pub", m.origin) \cup {m.origin}
      BY <2>2, FollowersHear
    <3>2. value'[t] = m.value
      BY <1>1, <1>4, <2>2 DEF ProcessNew, TypeOK
    <3>3. seen'[s] = [seen[s] EXCEPT ![t] = m.value]
      BY <2>1, <2>2, <3>1 DEF ProcessNew, Learn
    <3> QED BY <2>1, <3>2, <3>3 DEF TypeOK
  <2>3. CASE t # m.topic
    <3>1. value'[t] = value[t] /\ seen'[s][t] = seen[s][t]
      BY <1>1, <2>1, <2>3 DEF ProcessNew, Learn, TypeOK
    <3> QED BY <1>4, <3>1 DEF RetainedSeen
  <2> QED BY <2>2, <2>3
<1> QED BY <1>2, <1>3, <1>4 DEF RetainedSeen

\* A step of jsdrv_pubsub_process, by the kind of message
LEMMA ProcessSeen == TypeOK /\ RetainedSeen /\ Process => RetainedSeen'
<1> SUFFICES ASSUME TypeOK, RetainedSeen, Process PROVE RetainedSeen'
  OBVIOUS
<1> DEFINE m == Head(msg_pend)
<1>1. m \in Requests \cup ReturnCodes
  BY TakeNext DEF Process, TypeOK
<1> HIDE DEF m
<1>2. CASE m.op = "sub" /\ ProcessSub(m)
  BY <1>1, <1>2, ProcessSubSeen
<1>3. CASE m.op = "unsub" /\ ProcessUnsub(m)
  <2>1. m.topic \in Topics
    BY <1>1, <1>3 DEF Requests, ReturnCodes
  <2>2. \A u \in Topics : subs'[u] \subseteq subs[u]
    BY <1>3, <2>1 DEF TypeOK, ProcessUnsub, Others
  <2> QED BY <1>3, <2>2, NothingNew DEF ProcessUnsub
<1>4. CASE m.op = "unsuball" /\ ProcessUnsubAll(m)
  <2>1. \A u \in Topics : subs'[u] \subseteq subs[u]
    BY <1>4 DEF ProcessUnsubAll, Others
  <2> QED BY <1>4, <2>1, NothingNew DEF ProcessUnsubAll
<1>5. CASE m.op = "meta" /\ ProcessMeta(m)
  BY <1>1, <1>5, ProcessMetaSeen
<1>6. CASE m.op = "rc" /\ ProcessReturnCode(m)
  BY <1>6, NothingNew DEF ProcessReturnCode
<1>7. CASE m.op = "pub" /\ (ProcessInvalid(m) \/ ProcessDuplicate(m))
  BY <1>7, NothingNew DEF ProcessInvalid, ProcessDuplicate
<1>8. CASE m.op = "pub" /\ ProcessNew(m)
  BY <1>1, <1>8, ProcessNewSeen
<1> QED BY <1>2, <1>3, <1>4, <1>5, <1>6, <1>7, <1>8 DEF Process, m

\* Whoever follows a topic knows its retained value and its metadata: subscribe
\* tells what is retained at that moment, publish_normal and publish_meta tell every
\* follower but the origin, which knows what it sent, and publish_normal leaves out
\* only a duplicate of what is retained.
THEOREM FollowersKnow == Spec => []RetainedSeen
<1>1. Init => RetainedSeen
  BY DEF Init, RetainedSeen
<1>2. TypeOK /\ RetainedSeen /\ [Next]_vars => RetainedSeen'
  <2> SUFFICES ASSUME TypeOK, RetainedSeen, [Next]_vars PROVE RetainedSeen'
    OBVIOUS
  <2>1. CASE Process
    BY <2>1, ProcessSeen
  <2>2. ASSUME NEW m \in Requests, Send(m) PROVE RetainedSeen'
    BY <2>2, NothingNew DEF Send
  <2>3. ASSUME NEW t \in Topics, OwnerAnswers(t) PROVE RetainedSeen'
    BY <2>3, NothingNew DEF OwnerAnswers
  <2>4. CASE UNCHANGED vars
    BY <2>4, NothingNew DEF vars
  <2> QED BY <2>1, <2>2, <2>3, <2>4 DEF Next
<1> QED BY <1>1, <1>2, TypeCorrect, PTL DEF Spec
==============================================================================

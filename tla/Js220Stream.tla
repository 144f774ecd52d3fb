---------------------------- MODULE Js220Stream -----------------------------
(* The samples of the JS220 in the driver: handle_stream_in_port, which puts  *)
(* the blocks of a port into messages, and compute_power, which multiplies    *)
(* current and voltage at the full rate through the sample buffers of         *)
(* src/sample_buffer_f32.c.                                                   *)
(* A sample's value is its own sample id, so that a sample in the wrong place *)
(* shows.  Blocks carry the id modulo 2^32 (IdRange here); the driver's own   *)
(* ids have 64 bits.                                                          *)
EXTENDS SampleBuffer

CONSTANTS
    IdRange,        \* 2^32, the range of the sample ids on the wire
    ElementBytes,   \* bytes of a sample: 4
    MaxElements,    \* element_count_max: a message with so many elements is sent
    Blocks,         \* the numbers of samples of a block
    Starts,         \* the instrument's sample id when the stream starts
    Overlaps,       \* a block sent again may be one that overlaps the next
    Gap,            \* ids lost at once, or 0
    Span,           \* bound: ids after the start
    MaxFaults       \* bound: blocks lost or sent again

Quarter == IdRange \div 4

VARIABLES
    base,       \* the first sample id
    cnt,        \* port -> the next sample id that the instrument sends
    prev,       \* port -> the last block sent
    tm,         \* time_map.offset_counter; 0 while there is none
    port,       \* port -> [next: sample_id_next, msg: msg_in]
    buf,        \* port -> sbuf_f32_s: the samples, and the id after the newest
    pub,        \* the messages sent in the last step
    got,        \* history: port -> the sample ids received
    end,        \* history: port -> the sample id after the last one published
    faults

vars == <<base, cnt, prev, tm, port, buf, pub, got, end, faults>>

NoMsg == [id |-> 0, data |-> <<>>, open |-> FALSE]

Init ==
    /\ base \in Starts /\ cnt = [p \in {"i", "v"} |-> base]
    /\ prev = [p \in {"i", "v"} |-> [sid |-> base, n |-> 0]]
    /\ tm = 0
    /\ port = [p \in {"i", "v", "p"} |-> [next |-> 0, msg |-> NoMsg]]
    /\ buf = [p \in {"i", "v", "p"} |-> [head_id |-> 0, data |-> <<>>]]
    /\ pub = {} /\ got = [p \in {"i", "v"} |-> {}] /\ end = [p \in {"i", "v", "p"} |-> 0] /\ faults = 0

------------------------------------------------------------------------------
(* handle_stream_in_port                                                    *)

Sent(m) == IF m.open THEN {m} ELSE {}

\* The second half: the samples join the message, which is sent when it is full.
Accept(P, vals) ==
    LET m == IF P.msg.open THEN P.msg ELSE [id |-> P.next, data |-> <<>>, open |-> TRUE]
        m2 == [m EXCEPT !.data = @ \o vals]
        full == Len(m2.data) >= MaxElements IN
    [next |-> P.next + Len(vals) * Dec, msg |-> IF full THEN NoMsg ELSE m2,
     out |-> P.out \cup (IF full THEN {m2} ELSE {}), at |-> P.next, vals |-> vals]

Dropped(P) == [next |-> P.next, msg |-> P.msg, out |-> {}, at |-> P.next, vals |-> <<>>]

\* The id of a block from the time map, which is at most a quarter away
Resync(P, sid, vals) ==
    LET fwd == (sid - tm) % IdRange
        bwd == (tm - sid) % IdRange IN
    IF tm = 0 \/ (fwd >= Quarter /\ bwd >= Quarter) THEN Dropped(P)
    ELSE Accept([P EXCEPT !.next = IF fwd < Quarter THEN tm + fwd ELSE tm - bwd], vals)

\* Samples are missing: the partial message is sent.
Skip(P, skip, vals) == Accept([P EXCEPT !.out = Sent(P.msg), !.msg = NoMsg, !.next = @ + skip], vals)


\* Part of the block is there already.
Overlap(P, dup, vals) ==
    LET o == dup \div Dec IN
    Accept([P EXCEPT !.next = IF o * ElementBytes < Dec THEN @ - dup ELSE @], SubSeq(vals, o + 1, Len(vals)))

HandleStreamInPort(x, sid, vals) ==
    LET P == [next |-> x.next, msg |-> x.msg, out |-> {}]
        skip == (sid - x.next) % IdRange
        dup == (x.next - sid) % IdRange IN
    CASE x.next = 0 \/ (skip >= Quarter /\ dup >= Quarter) -> Resync(P, sid, vals)
      [] x.next # 0 /\ skip = 0 -> Accept(P, vals)
      [] x.next # 0 /\ 0 < skip /\ skip < Quarter -> Skip(P, skip, vals)
      [] x.next # 0 /\ 0 < dup /\ dup < Quarter ->
           IF Len(vals) * Dec < dup THEN Dropped(P) ELSE Overlap(P, dup, vals)

PortOf(r) == [next |-> r.next, msg |-> r.msg]

\* A block of current or voltage; with voltage comes the power (compute_power).
Receive(p, sid, n) ==
    \E r \in {HandleStreamInPort(port[p], sid % IdRange, [k \in 1..n |-> sid + (k - 1) * Dec])} :
    \E b \in {[buf EXCEPT ![p] = SbufAdd(@, r.at, r.vals)]} :
    \E c \in {IF p = "v" THEN Mult(b) ELSE b} :
    \E q \in {IF p = "v" /\ c["p"].data # <<>>
              THEN HandleStreamInPort(port["p"], TailId(c["p"]) % IdRange, c["p"].data)
              ELSE Dropped(port["p"])} :
    /\ port' = [port EXCEPT ![p] = PortOf(r), !["p"] = PortOf(q)]
    /\ buf' = c
    /\ pub' = {[port |-> p, id |-> m.id, data |-> m.data] : m \in r.out}
              \cup {[port |-> "p", id |-> m.id, data |-> m.data] : m \in q.out}
    /\ got' = [got EXCEPT ![p] = @ \cup {r.vals[k] : k \in DOMAIN r.vals}]
    /\ end' = [x \in DOMAIN end |->
                 LET M == {m \in pub' : m.port = x} IN
                 IF M = {} THEN end[x] ELSE LET m == CHOOSE m \in M : \A o \in M : o.id <= m.id IN m.id + Len(m.data) * Dec]

------------------------------------------------------------------------------
(* The instrument: both ports count alike, and blocks may be lost or come    *)
(* twice.                                                                    *)

Other(p) == IF p = "i" THEN "v" ELSE "i"

Emit(p, n) ==
    /\ cnt[p] + n * Dec <= base + Span /\ cnt[p] <= cnt[Other(p)] + 2 * Dec
    /\ cnt' = [cnt EXCEPT ![p] = @ + n * Dec]
    /\ prev' = [prev EXCEPT ![p] = [sid |-> cnt[p], n |-> n]]
    /\ UNCHANGED <<base, tm>>

Block(p, n) == Emit(p, n) /\ Receive(p, cnt[p], n) /\ UNCHANGED faults

Fault == faults < MaxFaults /\ faults' = faults + 1

Lost(p, n) == Fault /\ Emit(p, n) /\ pub' = {} /\ UNCHANGED <<port, buf, got, end>>

\* The last block again, or one that starts with it and goes on
Again(p, n) ==
    /\ Fault /\ prev[p].n > 0
    /\ (n = prev[p].n) \/ (Overlaps /\ n > prev[p].n /\ cnt[p] < base + Span)
    /\ cnt' = [cnt EXCEPT ![p] = prev[p].sid + n * Dec]
    /\ prev' = [prev EXCEPT ![p].n = n]
    /\ Receive(p, prev[p].sid, n)
    /\ UNCHANGED <<base, tm>>

\* JS220_PORT0_OP_TIMEMAP
TimeMap == tm = 0 /\ tm' = cnt["i"] /\ pub' = {} /\ UNCHANGED <<base, cnt, prev, port, buf, got, end, faults>>

\* A long gap, after which the time map is current
LongGap ==
    /\ Gap > 0 /\ cnt["i"] < base + Gap
    /\ cnt' = [p \in {"i", "v"} |-> MaxOf(cnt["i"], cnt["v"]) + Gap]
    /\ tm' = cnt'["i"] /\ pub' = {}
    /\ UNCHANGED <<base, prev, port, buf, got, end, faults>>

Next ==
    \/ \E p \in {"i", "v"}, n \in Blocks : Block(p, n) \/ Lost(p, n)
    \/ \E p \in {"i", "v"}, n \in Blocks : Again(p, n)
    \/ TimeMap \/ LongGap

Spec == Init /\ [][Next]_vars

------------------------------------------------------------------------------
\* Every element of a published message is the sample whose id the message gives
\* it, whatever is lost or comes twice, across the wrap of the ids on the wire; the
\* power is the product of the two samples of that id.
StreamExact ==
    \A m \in pub : \A k \in DOMAIN m.data : m.data[k] \in {NaN, m.id + (k - 1) * Dec}

\* A power sample is missing only when the current or the voltage was not received.
PowerComplete ==
    \A m \in pub : \A k \in DOMAIN m.data :
        m.data[k] = NaN => m.port = "p" /\ m.id + (k - 1) * Dec \notin got["i"] \cap got["v"]

\* The messages of a port go forward: no sample is published twice.
ForwardStep == \A m \in pub' : m.data # <<>> => m.id >= end[m.port]
StreamForward == [][ForwardStep]_vars
==============================================================================

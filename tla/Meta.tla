--------------------------------- MODULE Meta ---------------------------------
(* The readers of a topic's metadata in src/meta.c.  Each is a callback of the    *)
(* JSON parser: a state that goes from token to token until the callback stops.   *)
(* A value is [type, n, s]: for a string s is its text and n the number that it   *)
(* denotes, or None.  The widths of the integers are small.                       *)
EXTENDS Integers, Sequences, FiniteSets

CONSTANTS
    U8Range,        \* 2^8
    WideText,       \* the text of a value may be a number that its type has not
    FloatDefault,   \* the default of a floating point topic may be written as an integer
    JsonMax,        \* tokens that the text of an entry has room for: 2048 characters
    OPEN_SET_ENTRY_MAX,
    FrameMax,       \* entries that a frame has room for: PUBLISH_VALUE_SIZE_MAX_U8
    LongMeta,       \* the text of an entry may be longer
    TextValues      \* the host's value may be a text of at most OPEN_SET_VALUE_CAP bytes

None == -1
Ints == {"u8", "i32"}
Floats == {"f64"}
Dtypes == Ints \cup Floats \cup {"str"}
Number(type, n) == [type |-> type, n |-> n, s |-> ""]
Text(s, n) == [type |-> "str", n |-> n, s |-> s]
Tok(op, val) == [op |-> op, val |-> val]
Delim(op) == Tok(op, Number("null", 0))

Highest(t) == IF t = "u8" THEN U8Range - 1 ELSE 100 * U8Range

\* src/union.c: equivalent values, and the conversion to a type
Equiv(a, b) ==
    \/ a.type = "str" /\ b.type = "str" /\ a.s = b.s
    \/ a.n = b.n /\ ((a.type \in Ints /\ b.type \in Ints) \/ (a.type \in Floats /\ b.type \in Floats))
Converts(v, t) == IF t = "str" \/ v.type = "str" THEN v.type = t ELSE t \in Floats \/ (0 <= v.n /\ v.n <= Highest(t))

\* The tokens of a whole text; another one is a syntax error at its end.
Complete(tokens) ==
    tokens # <<>> /\ Cardinality({k \in DOMAIN tokens : tokens[k].op \in {"obj_start", "array_start"}})
                     = Cardinality({k \in DOMAIN tokens : tokens[k].op \in {"obj_end", "array_end"}})

\* The callback fn over the tokens, until it returns something
Run(fn(_, _), tokens, init) ==
    LET at[k \in 0..Len(tokens)] ==
            IF k = 0 THEN init ELSE LET s == at[k - 1] IN IF s.rc # "OK" THEN s ELSE fn(s, tokens[k])
        r == at[Len(tokens)] IN
    [r EXCEPT !.rc = IF @ = "ABORTED" THEN "OK" ELSE IF @ = "OK" /\ ~Complete(tokens) THEN "SYNTAX_ERROR" ELSE @]

Opens(op) == op \in {"obj_start", "array_start"}
Closes(op) == op \in {"obj_end", "array_end"}

\* jsdrv_meta_syntax_check
SyntaxCheck(tokens) == IF ~Complete(tokens) \/ tokens[1].op # "obj_start" THEN "SYNTAX_ERROR" ELSE "OK"

\* dtype_lookup: "bool" is a u8.
DtypeOf(v) == IF v.s = "bool" THEN "u8" ELSE v.s
KnownDtype(v) == v.type = "str" /\ DtypeOf(v) \in Dtypes

------------------------------------------------------------------------------
\* on_dtype: the value after the first "dtype", at any depth
OnDtype(s, t) ==
    CASE t.op = "value" /\ s.found -> IF KnownDtype(t.val) THEN [s EXCEPT !.dtype = DtypeOf(t.val), !.rc = "ABORTED"] ELSE [s EXCEPT !.rc = "PARAMETER_INVALID"]
      [] t.op = "key" /\ t.val.s = "dtype" -> [s EXCEPT !.found = TRUE]
      [] OTHER -> s

MetaDtype(tokens) ==
    LET r == Run(OnDtype, tokens, [rc |-> "OK", found |-> FALSE, dtype |-> "null"]) IN
    [rc |-> IF r.rc = "OK" /\ ~r.found THEN "NOT_FOUND" ELSE r.rc, dtype |-> r.dtype]

\* The bytes of a number that was written as one type and is read as another
Reread(v, t) == IF (v.type \in Floats) = (t \in Floats) THEN v.n ELSE None

\* on_default
OnDefault(s, t) ==
    CASE t.op = "value" /\ s.state = "dtype_key" ->
           [s EXCEPT !.value.type = IF KnownDtype(t.val) THEN DtypeOf(t.val) ELSE @,
                     !.rc = IF KnownDtype(t.val) THEN "OK" ELSE "PARAMETER_INVALID", !.state = "default_search"]
      [] t.op = "value" /\ s.state = "default_key" ->
           [s EXCEPT !.found = TRUE, !.value.n = Reread(t.val, s.value.type), !.value.s = t.val.s, !.rc = "ABORTED"]
      [] t.op = "key" /\ s.depth = 1 /\ s.state = "dtype_search" /\ t.val.s = "dtype" -> [s EXCEPT !.state = "dtype_key"]
      [] t.op = "key" /\ s.depth = 1 /\ s.state = "default_search" /\ t.val.s = "default" -> [s EXCEPT !.state = "default_key"]
      [] Opens(t.op) -> [s EXCEPT !.depth = @ + 1]
      [] Closes(t.op) -> [s EXCEPT !.depth = @ - 1]
      [] OTHER -> s

MetaDefault(tokens) ==
    LET r == Run(OnDefault, tokens, [rc |-> "OK", state |-> "dtype_search", depth |-> 0, found |-> FALSE, value |-> Number("null", 0)]) IN
    [rc |-> r.rc, value |-> IF r.found \/ r.rc # "OK" THEN r.value ELSE [r.value EXCEPT !.type = "null"]]

------------------------------------------------------------------------------
\* maybe_convert_str_to_type: the number of a text, cut to the type's width
FromText(v, t) ==
    IF v.type = "str" /\ t \in Ints /\ v.n # None THEN Number(t, IF t = "u8" THEN v.n % U8Range ELSE v.n) ELSE v

ToBool(v) == IF v.type = "str" THEN v.s \in {"true", "false"} ELSE TRUE

\* A match: the value becomes the option.
OptionMatch(s, v) ==
    [s EXCEPT !.value = [v EXCEPT !.type = s.type, !.n = s.option.n, !.s = s.option.s], !.state = "options_match"]

OptionValue(s, v) ==
    LET first == s.idx = 0
        s1 == [s EXCEPT !.idx = @ + 1, !.option = IF first THEN v ELSE @] IN
    IF first /\ ~Converts(v, s.type) THEN [s EXCEPT !.idx = 1, !.rc = "PARAMETER_INVALID"]
    ELSE IF Equiv(s.value, v) THEN OptionMatch(s1, s.value) ELSE s1

OnValueDtype(s, v) ==
    IF v.s = "bool"
    THEN IF ToBool(s.value)
         THEN [s EXCEPT !.rc = "ABORTED", !.value = Number("u8", IF s.value.s = "true" \/ s.value.n > 0 THEN 1 ELSE 0)]
         ELSE [s EXCEPT !.rc = "PARAMETER_INVALID"]
    ELSE LET t == IF KnownDtype(v) THEN DtypeOf(v) ELSE s.type IN
         [s EXCEPT !.type = t, !.value = FromText(@, t), !.state = "search", !.rc = IF KnownDtype(v) THEN "OK" ELSE "PARAMETER_INVALID"]

\* The end of an array; the options are over without a match, or with one.
OnArrayEnd(s) ==
    LET s1 == [s EXCEPT !.depth = @ - 1] IN
    CASE s.state = "options_val" /\ s.depth = 3 -> [s1 EXCEPT !.state = "options"]
      [] s.state = "options" /\ s.depth = 2 -> [s1 EXCEPT !.rc = "PARAMETER_INVALID"]
      [] s.state \in {"options_match", "range_val"} /\ s.depth = 2 -> [s1 EXCEPT !.state = "search"]
      [] OTHER -> s1

OnArrayStart(s) ==
    LET s1 == [s EXCEPT !.depth = @ + 1] IN
    IF s.state = "options" /\ s1.depth = 3 THEN [s1 EXCEPT !.idx = 0, !.state = "options_val"]
    ELSE IF s.state = "range_key" THEN [s1 EXCEPT !.idx = 0, !.state = "range_val"] ELSE s1

\* on_value
OnValue(s, t) ==
    CASE t.op = "value" /\ s.state = "dtype_key" -> OnValueDtype(s, t.val)
      [] t.op = "value" /\ s.state = "range_val" ->
           IF s.idx >= 3 THEN [s EXCEPT !.rc = "PARAMETER_INVALID"] ELSE [s EXCEPT !.idx = @ + 1]
      [] t.op = "value" /\ s.state = "options_val" -> OptionValue(s, t.val)
      [] t.op = "key" /\ s.depth = 1 /\ s.state = "dtype_search" /\ t.val.s = "dtype" -> [s EXCEPT !.state = "dtype_key"]
      [] t.op = "key" /\ s.depth = 1 /\ s.state = "search" /\ t.val.s = "range" -> [s EXCEPT !.state = "range_key"]
      [] t.op = "key" /\ s.depth = 1 /\ s.state = "search" /\ t.val.s = "options" -> [s EXCEPT !.state = "options"]
      [] t.op = "array_start" -> OnArrayStart(s)
      [] t.op = "array_end" -> OnArrayEnd(s)
      [] t.op = "obj_start" -> [s EXCEPT !.depth = @ + 1]
      [] t.op = "obj_end" -> [s EXCEPT !.depth = @ - 1]
      [] OTHER -> s

MetaValue(tokens, v) ==
    LET r == Run(OnValue, tokens, [rc |-> "OK", state |-> "dtype_search", type |-> "null", depth |-> 0, idx |-> 0,
                                   value |-> v, option |-> Number("null", 0)]) IN
    [rc |-> r.rc, value |-> r.value]

\* on_flags: only objects count for the depth.
OnFlags(s, t) ==
    CASE t.op = "value" /\ s.state \in {"key", "array"} ->
           [s EXCEPT !.flags = @ \cup ({t.val.s} \cap {"ro", "hide", "dev"}), !.rc = IF s.state = "key" THEN "ABORTED" ELSE @]
      [] t.op = "key" /\ s.depth = 1 /\ t.val.s = "flags" -> [s EXCEPT !.state = "key"]
      [] t.op = "obj_start" -> [s EXCEPT !.depth = @ + 1]
      [] t.op = "obj_end" -> [s EXCEPT !.depth = @ - 1]
      [] t.op = "array_start" /\ s.state = "key" -> [s EXCEPT !.state = "array"]
      [] t.op = "array_end" /\ s.state = "array" -> [s EXCEPT !.rc = "ABORTED"]
      [] OTHER -> s

MetaFlags(tokens) == Run(OnFlags, tokens, [rc |-> "OK", state |-> "search", depth |-> 0, flags |-> {}]).flags

------------------------------------------------------------------------------
(* A metadata object: "dtype" first, then other fields in any order.          *)

Key(k) == <<Tok("key", Text(k, None))>>
Val(v) == <<Tok("value", v)>>
ArrayOf(s) == <<Delim("array_start")>> \o s \o <<Delim("array_end")>>
RowTokens(row) == ArrayOf([k \in DOMAIN row |-> Tok("value", row[k])])
Rows(opts) ==
    LET all[k \in 0..Len(opts)] == IF k = 0 THEN <<>> ELSE all[k - 1] \o RowTokens(opts[k]) IN ArrayOf(all[Len(opts)])

\* m = [dtype, opts, default, flags]; field is one of those that may follow.
FieldTokens(m, field) ==
    Key(field) \o
    CASE field = "options" -> Rows(m.opts)
      [] field = "default" -> Val(m.default)
      [] field = "range" -> RowTokens(<<Number("i32", 0), Number("i32", 2)>>)
      [] field = "flags" -> RowTokens([k \in DOMAIN m.flags |-> Text(m.flags[k], None)])
      [] field = "ext" -> <<Delim("obj_start")>> \o Key("default") \o Val(Number("i32", 1)) \o Key("dtype") \o Val(Text("u8", None)) \o <<Delim("obj_end")>>

Object(m, order) ==
    LET all[k \in 0..Len(order)] == IF k = 0 THEN <<>> ELSE all[k - 1] \o FieldTokens(m, order[k]) IN
    <<Delim("obj_start")>> \o Key("dtype") \o Val(Text(m.dtype, None)) \o all[Len(order)] \o <<Delim("obj_end")>>

\* The fields have their effect in any order: a value is accepted exactly if an option
\* has it, or one of its other names, and becomes the first of these options in the
\* topic's type; a topic without options takes any value.  The default, the type and
\* the flags are those of the object itself, not of an object in it.
MetaExact(m, order, v) ==
    LET tokens == Object(m, order)
        has(f) == \E k \in DOMAIN order : order[k] = f
        r == MetaValue(tokens, v)
        w == IF v.type = "str" /\ v.n # None /\ m.dtype \in Ints THEN Number(m.dtype, v.n) ELSE v
        hits == {k \in DOMAIN m.opts : \E j \in DOMAIN m.opts[k] : Equiv(w, m.opts[k][j])}
        hit == CHOOSE k \in hits : \A j \in hits : k <= j
        fits == v.type = "str" /\ v.n # None => WideText \/ v.n <= Highest(DtypeOf(Text(m.dtype, None)))
        d == MetaDefault(tokens).value IN
    /\ SyntaxCheck(tokens) = "OK" /\ MetaDtype(tokens) = [rc |-> "OK", dtype |-> DtypeOf(Text(m.dtype, None))]
    /\ m.dtype # "bool" /\ has("options") /\ fits =>
         IF hits = {} THEN r.rc # "OK"
         ELSE r.rc = "OK" /\ r.value.type = m.dtype /\ r.value.n = m.opts[hit][1].n /\ r.value.s = m.opts[hit][1].s
    /\ m.dtype # "bool" /\ ~has("options") /\ fits => r.rc = "OK" /\ r.value.n = v.n
    /\ m.dtype = "bool" /\ r.rc = "OK" => r.value.n \in {0, 1}
    /\ IF ~has("default") THEN d.type = "null"
       ELSE FloatDefault \/ m.dtype \notin Floats \/ m.default.type \in Floats => d.type = DtypeOf(Text(m.dtype, None)) /\ d.n = m.default.n
    /\ MetaFlags(tokens) = IF has("flags") THEN {m.flags[k] : k \in DOMAIN m.flags} ELSE {}
------------------------------------------------------------------------------
(* What an open with DEFAULTS writes to a MiniBitty device: the metadata blob *)
(* of the device becomes one JSON text for each topic (src/meta_binary.c),    *)
(* the defaults in these texts become the target state, values that the host  *)
(* has replace them, and the result goes out in frames (mb_device.c).  A blob *)
(* is its header and a sequence of entries.                                   *)

\* An entry: topic (None: not in the string table), bang (its last level begins with
\* "!"), dtype, default and flags, options and names for each; size is one of
\* "ok", "zero", "over".
Scalar(t) == t \in Ints \cup Floats

\* format_default: %g prints a whole number as an integer, other types print 0.
FormatDefault(dtype, n) == Number("i32", IF Scalar(dtype) THEN n ELSE 0)

\* The text of an entry, cut at the end of its array
EntryTokens(e) ==
    LET row(o) == ArrayOf(Val(FormatDefault(e.dtype, o.n)) \o [k \in DOMAIN o.names |-> Tok("value", Text(o.names[k], None))])
        rows[k \in 0..Len(e.opts)] == IF k = 0 THEN <<>> ELSE rows[k - 1] \o row(e.opts[k])
        flags == SelectSeq(<<"ro", "hide", "dev">>, LAMBDA f : f \in e.flags)
        all == <<Delim("obj_start")>> \o Key("dtype") \o Val(Text(e.dtype, None))
               \o Key("brief") \o Val(Text("default", None))
               \o (IF e.default = None THEN <<>> ELSE Key("default") \o Val(FormatDefault(e.dtype, e.default)))
               \o (IF e.opts = <<>> THEN <<>> ELSE Key("options") \o ArrayOf(rows[Len(e.opts)]))
               \o Key("range") \o ArrayOf(Val(FormatDefault(e.dtype, 0)) \o Val(FormatDefault(e.dtype, 3)))
               \o (IF flags = <<>> THEN <<>> ELSE Key("flags") \o ArrayOf([k \in DOMAIN flags |-> Tok("value", Text(flags[k], None))]))
               \o <<Delim("obj_end")>> IN
    SubSeq(all, 1, IF Len(all) > JsonMax THEN JsonMax ELSE Len(all))

\* meta_binary_parse: [rc, topics] are the return code and what on_topic gets.
MetaBinaryParse(blob) ==
    LET at[k \in 0..Len(blob.entries)] ==
            IF k = 0 THEN [rc |-> "OK", topics |-> <<>>]
            ELSE LET r == at[k - 1]  e == blob.entries[k] IN
                 IF r.rc # "OK" THEN r
                 ELSE IF e.size # "ok" THEN [r EXCEPT !.rc = "MESSAGE_INTEGRITY"]
                 ELSE IF e.topic = None THEN r
                 ELSE [r EXCEPT !.topics = Append(@, [topic |-> e.topic, bang |-> e.bang, json |-> EntryTokens(e)])] IN
    CASE blob.header = "short" -> [rc |-> "PARAMETER_INVALID", topics |-> <<>>]
      [] blob.header = "cut" -> [rc |-> "TOO_SMALL", topics |-> <<>>]
      [] blob.header \in {"magic", "check", "strings", "count"} -> [rc |-> "MESSAGE_INTEGRITY", topics |-> <<>>]
      [] blob.header = "ok" -> at[Len(blob.entries)]


NeverPush(flags, bang) == "ro" \in flags \/ bang

\* open_set_record; jsdrv_meta_flags reports no error.
OpenSetRecord(set, t) ==
    LET d == MetaDefault(t.json) IN
    IF NeverPush(MetaFlags(t.json), t.bang) \/ d.rc # "OK" \/ d.value.type = "null" \/ ~Scalar(d.value.type)
       \/ Len(set) >= OPEN_SET_ENTRY_MAX
    THEN set
    ELSE Append(set, [topic |-> t.topic, type |-> d.value.type, n |-> d.value.n])

\* The entries of the topics in their order (meta_fetch_on_topic)
Recorded(topics) ==
    LET at[k \in 0..Len(topics)] == IF k = 0 THEN <<>> ELSE LET s == at[k - 1] IN OpenSetRecord(s, topics[k]) IN at[Len(topics)]

\* What the eight bytes of a value that is a pointer say
Address == -2

\* open_seq_gather_add: the bytes of the value, which for a text are its address
GatherAdd(set, topic, v) ==
    LET hits == {k \in DOMAIN set : set[k].topic = topic} IN
    IF v.type \notin Ints \cup Floats \cup {"str"} \/ hits = {} THEN set
    ELSE [set EXCEPT ![CHOOSE k \in hits : \A j \in hits : k <= j] =
            [topic |-> topic, type |-> v.type, n |-> IF v.type = "str" THEN Address ELSE v.n]]

Gathered(set, host) ==
    LET at[k \in 0..Len(host)] == IF k = 0 THEN set ELSE LET s == at[k - 1] IN GatherAdd(s, host[k].topic, host[k].v) IN at[Len(host)]

\* state_set_send_chunk: the entries from the cursor on that fit
Chunk(set, cursor, first) ==
    LET n == IF Len(set) - cursor < FrameMax THEN Len(set) - cursor ELSE FrameMax IN
    [start |-> first, end |-> cursor + n >= Len(set), entries |-> SubSeq(set, cursor + 1, cursor + n)]

\* state_set_send_next: all frames
Frames(set) ==
    [k \in 1..((Len(set) + FrameMax - 1) \div FrameMax) |-> Chunk(set, (k - 1) * FrameMax, k = 1)]

------------------------------------------------------------------------------
Settable(blob, i) ==
    LET e == blob.entries[i] IN
    /\ blob.header = "ok" /\ \A k \in 1..i : blob.entries[k].size = "ok"
    /\ e.topic # None /\ ~e.bang /\ "ro" \notin e.flags /\ e.default # None /\ Scalar(e.dtype)

\* The frames write every settable topic of the blob exactly once, with the host's value
\* where there is one and the default of the metadata otherwise, and nothing else;
\* the first frame begins and the last one ends the transaction.  What the host's
\* metadata says of a topic is what the blob says.
RestoreExact(blob, host) ==
    LET r == MetaBinaryParse(blob)
        f == Frames(Gathered(Recorded(r.topics), host))
        all[k \in 0..Len(f)] == IF k = 0 THEN <<>> ELSE all[k - 1] \o f[k].entries
        sent == all[Len(f)]
        want == {i \in DOMAIN blob.entries : Settable(blob, i)}
        long(e) == Len(EntryTokens(e)) >= JsonMax
        hosts(t) == {k \in DOMAIN host : host[k].topic = t}
        value(i) ==
            LET e == blob.entries[i]  H == hosts(e.topic) IN
            IF H = {} THEN [topic |-> e.topic, type |-> e.dtype, n |-> e.default]
            ELSE LET v == host[CHOOSE k \in H : \A j \in H : k >= j].v IN [topic |-> e.topic, type |-> v.type, n |-> v.n] IN
    (\A i \in DOMAIN blob.entries :
        /\ LongMeta \/ ~long(blob.entries[i])
        /\ FloatDefault \/ blob.entries[i].dtype \notin Floats)
    /\ (TextValues \/ \A k \in DOMAIN host : host[k].v.type # "str") =>
        /\ {sent[k] : k \in DOMAIN sent} \subseteq {value(i) : i \in want}
        /\ Len(sent) = (IF Cardinality(want) < OPEN_SET_ENTRY_MAX THEN Cardinality(want) ELSE OPEN_SET_ENTRY_MAX)
        /\ \A k \in DOMAIN f : /\ f[k].start <=> k = 1
                               /\ f[k].end <=> k = Len(f)
                               /\ Len(f[k].entries) \in 1..FrameMax
        /\ \A k \in DOMAIN r.topics : \E e \in {blob.entries[i] : i \in DOMAIN blob.entries} :
               /\ e.topic = r.topics[k].topic
               /\ MetaFlags(r.topics[k].json) = e.flags /\ MetaDtype(r.topics[k].json).dtype = e.dtype
               /\ \A o \in {e.opts[j] : j \in DOMAIN e.opts} :
                    Scalar(e.dtype) => MetaValue(r.topics[k].json, Number(e.dtype, o.n)) = [rc |-> "OK", value |-> Number(e.dtype, o.n)]
==============================================================================

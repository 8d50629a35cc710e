------------------------------- MODULE Schema -------------------------------
(* data/schema.ts and data/codec.ts: schemas that parse what comes from      *)
(* outside, and codecs that also encode it again.                            *)
(*                                                                           *)
(* A schema is a tree.  Numbers are counted in halves, so that there are     *)
(* some that are not integers.  An answer is [ok |-> value], [path |-> keys, *)
(* expected |-> what] or [throws |-> TRUE].  What was received is only for   *)
(* the message.                                                              *)
EXTENDS Values

CONSTANTS Inputs,     \* what is parsed
          Schemas,    \* the schemas it is parsed by
          Codecs,     \* the codecs it is decoded by
          Lazies,     \* what the factories of lazy() return, by name
          OwnKeys,    \* the keys of objects, in the order they are set
          Inherited,  \* some keys that every object inherits, with functions
          Blank       \* the strings that trim() leaves nothing of

VARIABLE parsed  \* the call that was made, with its answer

schemaVars == <<parsed>>

Value(a) == [ok |-> a]
SchemaErr(expected) == [path |-> <<>>, expected |-> expected]
Parsed(r) == "ok" \in DOMAIN r
Refused(r) == "path" \in DOMAIN r
Throws == [throws |-> TRUE]

\* input[key], also where there is none.  A key that is inherited gives a function.
Field(v, key) ==
  IF key \notin DOMAIN v.object /\ key \in Inherited THEN [function |-> TRUE] ELSE Item(v, key)

KeysOf(v) == SelectSeq(OwnKeys, LAMBDA key : key \in DOMAIN v.object)

PrependPath(r, key) == IF Refused(r) THEN [r EXCEPT !.path = <<key>> \o @] ELSE r

\* The loops of object(), array(), tuple() and record(): the first answer that is no
\* value, under its key, or what is built of the values.
InTurn(keys, answers, Build(_)) ==
  LET bad == {i \in DOMAIN answers : ~Parsed(answers[i])}
  IN  IF bad = {} THEN Value(Build([i \in DOMAIN answers |-> answers[i].ok]))
      ELSE PrependPath(answers[Min(bad)], keys[Min(bad)])

FromKeys(keys, values) ==
  Object([key \in ToSet(keys) |-> values[CHOOSE i \in DOMAIN keys : keys[i] = key]])

\* The refinements that are built in.
Holds(p, v) ==
  CASE p.is = "nonEmpty" -> v.string \notin Blank
    [] p.is = "minLength" -> Len(v.string) >= p.n
    [] p.is = "maxLength" -> Len(v.string) <= p.n
    [] p.is = "int" -> v.number % 2 = 0
    [] p.is = "min" -> v.number >= p.n
    [] p.is = "max" -> v.number <= p.n
    [] p.is = "range" -> v.number \in p.n .. p.m
    [] p.is = "positive" -> v.number > 0
    [] p.is = "nonNegative" -> v.number >= 0
    [] p.is = "size" -> Cardinality(DOMAIN v.object) <= p.n

\* Object.freeze() refuses a typed array that is not empty, at any depth of what is frozen.
RECURSIVE Freezable(_)
Freezable(v) ==
  CASE IsA(v, "bytes") -> v.bytes = <<>>
    [] IsA(v, "list") \/ IsA(v, "object") -> \A key \in Keys(v) : Freezable(Item(v, key))
    [] OTHER -> TRUE

\* What the functions given to transform() do: a caller's, and those of the composers.
Transformed(by, v) ==
  CASE by = "double" -> Value(Num(2 * v.number))
    [] by = "freeze" -> IF Freezable(v) THEN Value(v) ELSE Throws
    [] by = "some" -> Value([some |-> v.object["value"]])
    [] by = "none" -> Value([none |-> TRUE])

\* { ...a, ...b }
Merged(a, b) == Object(Spread(b) @@ Spread(a))

RECURSIVE Parse(_, _), Decode(_, _), Encode(_, _)

\* guard(), of a type.
Guards == {"bytes", "null", "undefined"}

ParsePrimitive(s, v) == IF IsA(v, s.is) THEN Value(v) ELSE SchemaErr(s.is)

\* createSchema(): refine(), transform(), optional() and default() around a parse.
ParseWrapped(s, v) ==
  CASE s.is = "refine" ->
         LET r == Parse(s.of, v)
         IN  IF Parsed(r) /\ ~Holds(s.by, r.ok) THEN SchemaErr(s.by.is) ELSE r
    [] s.is = "transform" ->
         LET r == Parse(s.of, v) IN IF Parsed(r) THEN Transformed(s.by, r.ok) ELSE r
    [] s.is = "optional" -> IF IsA(v, "undefined") THEN Value(v) ELSE Parse(s.of, v)
    [] s.is = "default" ->
         IF IsA(v, "undefined") \/ IsA(v, "null") THEN Value(s.fallback) ELSE Parse(s.of, v)

ParseObject(s, v) ==
  IF ~IsA(v, "object") THEN SchemaErr("object")
  ELSE InTurn(s.keys, [i \in DOMAIN s.keys |-> Parse(s.shape[s.keys[i]], Field(v, s.keys[i]))],
              LAMBDA values : FromKeys(s.keys, values))

ParseArray(s, v) ==
  IF ~IsA(v, "list") THEN SchemaErr("array")
  ELSE InTurn(Positions(v.list), [i \in DOMAIN v.list |-> Parse(s.of, v.list[i])], List)

ParseTuple(s, v) ==
  IF ~IsA(v, "list") \/ Len(v.list) # Len(s.items) THEN SchemaErr("tuple")
  ELSE InTurn(Positions(v.list), [i \in DOMAIN v.list |-> Parse(s.items[i], v.list[i])], List)

ParseRecord(s, v) ==
  IF ~IsA(v, "object") THEN SchemaErr("record")
  ELSE LET keys == KeysOf(v)
       IN  InTurn(keys, [i \in DOMAIN keys |-> Parse(s.of, v.object[keys[i]])],
                  LAMBDA values : FromKeys(keys, values))

\* literal() and enum().
ParseOneOf(s, v) == IF v \in s.values THEN Value(v) ELSE SchemaErr("enum")

\* The first that parses; one that throws before it is not survived.
ParseUnion(s, v) ==
  LET answers == [i \in DOMAIN s.items |-> Parse(s.items[i], v)]
      end == {i \in DOMAIN answers : ~Refused(answers[i])}
  IN  IF end = {} THEN SchemaErr("union") ELSE answers[Min(end)]

\* mapping[tag] finds what the mapping inherits, too, and that has no parse().
ParseTagged(s, v) ==
  IF ~IsA(v, "object") THEN SchemaErr("object with discriminant")
  ELSE LET tag == Field(v, s.on)
       IN  IF ~IsA(tag, "string") THEN PrependPath(SchemaErr("string discriminant"), s.on)
           ELSE IF tag.string \in DOMAIN s.mapping THEN Parse(s.mapping[tag.string], v)
           ELSE IF tag.string \in Inherited THEN Throws
           ELSE PrependPath(SchemaErr("tag"), s.on)

\* intersection(): both parse the input, and the second wins.
ParseBoth(s, v) ==
  LET a == Parse(s.first, v)
      b == Parse(s.second, v)
  IN  IF ~Parsed(a) THEN a ELSE IF ~Parsed(b) THEN b ELSE Value(Merged(a.ok, b.ok))

Parse(s, v) ==
  CASE s.is \in {"string", "number", "boolean"} \cup Guards -> ParsePrimitive(s, v)
    [] s.is \in {"refine", "transform", "optional", "default"} -> ParseWrapped(s, v)
    [] s.is = "object" -> ParseObject(s, v)
    [] s.is = "array" -> ParseArray(s, v)
    [] s.is = "tuple" -> ParseTuple(s, v)
    [] s.is = "record" -> ParseRecord(s, v)
    [] s.is = "enum" -> ParseOneOf(s, v)
    [] s.is = "union" -> ParseUnion(s, v)
    [] s.is = "tagged" -> ParseTagged(s, v)
    [] s.is = "both" -> ParseBoth(s, v)
    [] s.is = "lazy" -> Parse(Lazies[s.name], v)
    [] s.is = "codec" -> Decode(s.codec, v)

DecodeObject(c, v) ==
  IF ~IsA(v, "object") THEN SchemaErr("object")
  ELSE InTurn(c.keys, [i \in DOMAIN c.keys |-> Decode(c.shape[c.keys[i]], Field(v, c.keys[i]))],
              LAMBDA values : FromKeys(c.keys, values))

EncodeObject(c, o) == Object([key \in ToSet(c.keys) |-> Encode(c.shape[key], Field(o, key))])

DecodeArray(c, v) ==
  IF ~IsA(v, "list") THEN SchemaErr("array")
  ELSE InTurn(Positions(v.list), [i \in DOMAIN v.list |-> Decode(c.of, v.list[i])], List)

EncodeArray(c, o) == List([i \in DOMAIN o.list |-> Encode(c.of, o.list[i])])

DecodeNullable(c, v) == IF IsA(v, "null") THEN Value(v) ELSE Decode(c.of, v)
EncodeNullable(c, o) == IF IsA(o, "null") THEN o ELSE Encode(c.of, o)

\* Two codecs of a caller: from().
DecodeOwn(c, v) ==
  IF ~IsA(v, "number") THEN SchemaErr("number")
  ELSE Value(IF c.is = "plus" THEN Num(v.number + 1) ELSE Num(2 * v.number))
EncodeOwn(c, o) == IF c.is = "plus" THEN Num(o.number - 1) ELSE Num(o.number \div 2)

\* The primitive codecs encode a value as it is, and so does fromSchema() here.
Decode(c, v) ==
  CASE c.is \in {"string", "number", "boolean"} -> ParsePrimitive(c, v)
    [] c.is \in {"plus", "times"} -> DecodeOwn(c, v)
    [] c.is = "object" -> DecodeObject(c, v)
    [] c.is = "array" -> DecodeArray(c, v)
    [] c.is = "nullable" -> DecodeNullable(c, v)
    [] c.is = "schema" -> Parse(c.schema, v)
    [] c.is = "pipe" -> LET r == Decode(c.first, v) IN IF Parsed(r) THEN Decode(c.second, r.ok) ELSE r

Encode(c, o) ==
  CASE c.is \in {"string", "number", "boolean", "schema"} -> o
    [] c.is \in {"plus", "times"} -> EncodeOwn(c, o)
    [] c.is = "object" -> EncodeObject(c, o)
    [] c.is = "array" -> EncodeArray(c, o)
    [] c.is = "nullable" -> EncodeNullable(c, o)
    [] c.is = "pipe" -> Encode(c.first, Encode(c.second, o))

-----------------------------------------------------------------------------
\* types/runtime/composers.ts: the schemas of the types that are made of others.
Frozen(schema) == [is |-> "transform", by |-> "freeze", of |-> schema]
Tagged(tag, inner) ==
  [is |-> "object", keys |-> <<"tag", "value">>,
   shape |-> [tag |-> [is |-> "enum", values |-> {Str(tag)}], value |-> inner]]

Vec(inner) == Frozen([is |-> "array", of |-> inner])
Pair(a, b) == Frozen([is |-> "tuple", items |-> <<a, b>>])
Tuple(items) == Frozen([is |-> "tuple", items |-> items])
\* The type of the keys is not looked at.
Dict(value) == Frozen([is |-> "record", of |-> value])

Maybe(inner) ==
  LET to(by, schema) == [is |-> "transform", by |-> by, of |-> schema]
      noneShape == [is |-> "object", keys |-> <<"tag">>, shape |-> [tag |-> [is |-> "enum", values |-> {Str("None")}]]]
  IN  [is |-> "union",
       items |-> <<to("some", Tagged("Some", inner)), to("none", noneShape),
                   to("none", [is |-> "null"]), to("none", [is |-> "undefined"])>>]

Either(left, right) == Frozen([is |-> "union", items |-> <<Tagged("Left", left), Tagged("Right", right)>>])

\* types/runtime/scalars.ts.
Scalar(name) ==
  CASE name = "Str" -> [is |-> "string"]
    [] name = "Num" -> [is |-> "number"]
    [] name = "Int" -> [is |-> "refine", of |-> [is |-> "number"], by |-> [is |-> "int"]]
    [] name = "UInt" -> [is |-> "refine", of |-> [is |-> "refine", of |-> [is |-> "number"], by |-> [is |-> "int"]],
                         by |-> [is |-> "nonNegative"]]
    [] name = "Bool" -> [is |-> "boolean"]
    [] name = "Bytes" -> [is |-> "bytes"]
    [] name = "Nil" -> [is |-> "null"]
-----------------------------------------------------------------------------
SchemaInit == parsed = <<>>

Calls(s, v) == parsed' = [schema |-> s, input |-> v, answer |-> Parse(s, v)]
Reads(c, v) == parsed' = [codec |-> c, input |-> v, answer |-> Decode(c, v)]

\* A value that was decoded is encoded, and decoded again.
Returns ==
  /\ parsed # <<>>
  /\ "codec" \in DOMAIN parsed /\ "back" \notin DOMAIN parsed /\ Parsed(parsed.answer)
  /\ LET sent == Encode(parsed.codec, parsed.answer.ok)
     IN  parsed' = parsed @@ [back |-> Decode(parsed.codec, sent)]

SchemaNext ==
  \/ parsed = <<>> /\ \E s \in Schemas, v \in Inputs : Calls(s, v)
  \/ parsed = <<>> /\ \E c \in Codecs, v \in Inputs : Reads(c, v)
  \/ Returns

SchemaSpec == SchemaInit /\ [][SchemaNext]_schemaVars

-----------------------------------------------------------------------------
\* The schema and the input one key further down.
RECURSIVE Leads(_, _, _)
Below(s, key) ==
  CASE s.is = "object" -> s.shape[key]
    [] s.is = "tuple" -> s.items[IndexOf(key)]
    [] s.is \in {"array", "record"} -> s.of
Inner(v, key) ==
  IF IsA(v, "list") THEN Item(v, key) ELSE Field(v, key)

\* A path leads through the input and the schema alike to where a schema refuses what is
\* there by itself, and everything before it on the way parses.
Leads(s, v, path) ==
  CASE s.is \in {"refine", "transform", "optional", "default"} -> Leads(s.of, v, path) \/ path = <<>>
    [] s.is = "lazy" -> Leads(Lazies[s.name], v, path)
    [] s.is = "both" -> Leads(s.first, v, path) \/ Leads(s.second, v, path)
    [] s.is = "tagged" -> path \in {<<>>, <<s.on>>} \/ \E tag \in DOMAIN s.mapping : Leads(s.mapping[tag], v, path)
    [] path = <<>> -> ~Parsed(Parse(s, v))
    [] s.is = "object" -> path[1] \in DOMAIN s.shape /\ Leads(Below(s, path[1]), Inner(v, path[1]), Tail(path))
    [] OTHER -> s.is \in {"tuple", "array", "record"} /\ Leads(Below(s, path[1]), Inner(v, path[1]), Tail(path))

\* What a schema accepts it returns as it is, or without what it does not know, so that
\* the value it returns is one that it accepts and returns as it is.
RECURSIVE Plain(_)
Plain(s) ==
  CASE s.is \in {"string", "number", "boolean", "enum", "lazy"} -> TRUE
    [] s.is \in {"refine", "optional", "default", "array", "record"} -> Plain(s.of)
    [] s.is = "transform" -> s.by = "freeze" /\ Plain(s.of)
    [] s.is = "object" -> \A key \in DOMAIN s.shape : Plain(s.shape[key])
    [] s.is \in {"tuple", "union"} -> \A i \in DOMAIN s.items : Plain(s.items[i])
    [] s.is = "tagged" -> \A tag \in DOMAIN s.mapping : Plain(s.mapping[tag])
    [] s.is = "both" -> /\ s.first.is = "object" /\ s.second.is = "object"
                        /\ Plain(s.first) /\ Plain(s.second)
    [] OTHER -> FALSE

IsParse == parsed # <<>> /\ "schema" \in DOMAIN parsed

\* schema.ts: "Object/array/tuple schemas validate recursively, prepending field names to
\* the error path for precise diagnostics": the path of an error leads to where the input
\* and the schema disagree, however the schema is composed.
PathsLead ==
  IsParse /\ Refused(parsed.answer) => Leads(parsed.schema, parsed.input, parsed.answer.path)

\* Parsing what was parsed changes nothing, unless a schema transforms; of intersections
\* this is so of two objects only.
ParsedIsSettled ==
  IsParse /\ Parsed(parsed.answer) /\ Plain(parsed.schema) => Parse(parsed.schema, parsed.answer.ok) = parsed.answer

\* codec.ts: what a codec has decoded, it encodes to something that it decodes to the same.
CodecsReturn ==
  (parsed # <<>> /\ "back" \in DOMAIN parsed) => parsed.back = parsed.answer

SchemasAreFaithful == PathsLead /\ ParsedIsSettled /\ CodecsReturn
=============================================================================

---------------------------- MODULE ZmqTagHeader -----------------------------
(***************************************************************************)
(* ZmqTagHeaders, over a chain of ZeroMQ blocks: a sink collects the tags  *)
(* of its input span and puts them before the payload of the message, a    *)
(* source parses the header and publishes the tags, and a sink behind that *)
(* source sends the same span on.                                          *)
(*                                                                         *)
(* A tag is its position in the span, negative for one before it, and a    *)
(* map from names to values.                                               *)
(***************************************************************************)
EXTENDS LegacyPmt

CONSTANTS
  FirstTags, LaterTags,  \* tags a span may have, the first and those behind it
  MaxTags,               \* bound: tags of a span
  MaxHops,               \* bound: messages sent
  Payload                \* bytes of a message behind the header

ASSUME HeaderAssumption == MaxTags \in Nat /\ MaxHops \in Nat /\ Payload \in Seq(0 .. Radix - 1)

VARIABLES
  span,     \* tags of the input span of the next sink
  message,  \* what was sent and not received, <<>> if there is nothing
  sent,     \* history: the message before this one,
  hops,     \* and how many there were
  rest      \* payload of the message received last

vars == <<span, message, sent, hops, rest>>

Init == span = <<>> /\ message = <<>> /\ sent = <<>> /\ hops = 0 /\ rest = <<>>

\* kTagHeaderMagic and kTagHeaderVersion.
Magic   == <<15, 5>>
Version == <<1>>

\* tag_record_from_property_map: none for a map without key or value.
HasRecord(t) == t.at >= 0 /\ {"key", "value"} \subseteq DOMAIN t.map
Record(t) ==
  [offset |-> t.at, key |-> t.map["key"], value |-> t.map["value"],
   srcid |-> IF "srcid" \in DOMAIN t.map THEN t.map["srcid"] ELSE Null]

collect_tag_records(tags) ==
  LET kept == SelectSeq(tags, HasRecord) IN [i \in DOMAIN kept |-> Record(kept[i])]

serialize_tag_header(offset, records) ==
  Magic \o Version \o Native(offset, 8) \o Native(Len(records), 8)
  \o FlattenSeq([i \in DOMAIN records |->
       Native(records[i].offset, 8) \o serialize_to_legacy(records[i].key)
       \o serialize_to_legacy(records[i].value) \o serialize_to_legacy(records[i].srcid)])

RECURSIVE read_records(_, _)
read_records(n, s) ==
  IF n = 0 THEN Read(<<>>, s)
  ELSE IF Len(s) < 8 THEN Throws
  ELSE Then(deserialize_all(3, Beyond(s, 8)), LAMBDA v, r :
         Then(read_records(n - 1, r), LAMBDA more, q :
           Read(<<[offset |-> Number(SubSeq(s, 1, 8)), key |-> v[1], value |-> v[2], srcid |-> v[3]]>>
                \o more, q)))

\* Mutant: a header that has its fixed part is taken to be whole.
parse_tag_header_NoCount(s) ==
  IF Len(s) < 19 \/ SubSeq(s, 1, 3) # Magic \o Version THEN Throws
  ELSE LET all == read_records(Number(SubSeq(s, 12, 19)), Beyond(s, 19)) IN
       IF all.ok THEN all ELSE Read(<<>>, Beyond(s, 19))

parse_tag_header(s) ==
  IF Len(s) < 19 \/ SubSeq(s, 1, 3) # Magic \o Version THEN Throws
  ELSE read_records(Number(SubSeq(s, 12, 19)), Beyond(s, 19))

\* Mutant: the source of a tag is not published.
Published_NoSource(records) ==
  [i \in DOMAIN records |->
     [at |-> records[i].offset, map |-> [n \in {"key", "value"} |-> records[i][n]]]]

\* tag_map_from_record and publish_tag_records for a message published at once.
Published(records) ==
  [i \in DOMAIN records |->
     [at |-> records[i].offset,
      map |-> [n \in {"key", "value", "srcid"} |-> records[i][n]]]]

Tag ==
  /\ hops = 0 /\ Len(span) < MaxTags
  /\ \E t \in IF span = <<>> THEN FirstTags ELSE LaterTags : span' = Append(span, t)
  /\ UNCHANGED <<message, sent, hops, rest>>

Send ==
  /\ message = <<>> /\ hops < MaxHops
  /\ message' = serialize_tag_header(0, collect_tag_records(span))
                \o (IF hops = 0 THEN Payload ELSE rest)
  /\ hops' = hops + 1
  /\ UNCHANGED <<span, sent, rest>>

Receive ==
  /\ message # <<>>
  /\ \E header \in {parse_tag_header(message)} :
       /\ header.ok
       /\ span' = Published(header.value) /\ rest' = header.rest
  /\ sent' = message /\ message' = <<>>
  /\ UNCHANGED hops

Next == Tag \/ Send \/ Receive

Spec == Init /\ [][Next]_vars

-----------------------------------------------------------------------------
\* What the format makes of a value: the types it has no tag for are widened, a
\* container of 0 entries has no type, and everything else stays.
RECURSIVE Normal(_)
Normal(v) ==
  CASE v.type \in {"int8", "int16", "int32"} ->
         [type |-> "int32", parts |-> <<SignExtended(v.parts[1], 4)>>]
    [] v.type \in {"uint8", "uint16", "uint32", "uint64"} ->
         [type |-> "uint64", parts |-> <<ZeroExtended(v.parts[1], 8)>>]
    [] v.type \in {"float", "double"} -> [type |-> "double", parts |-> <<AsDouble(v.parts[1])>>]
    [] v.type \in Complex ->
         [type |-> "complexd", parts |-> <<AsDouble(v.parts[1]), AsDouble(v.parts[2])>>]
    [] v.type = "tensor" -> [v EXCEPT !.elems = [i \in DOMAIN v.elems |-> Normal(v.elems[i])]]
    [] v.type = "map"    -> IF DOMAIN v.entries = {} THEN Null
                            ELSE [v EXCEPT !.entries = [k \in DOMAIN v.entries |-> Normal(v.entries[k])]]
    [] OTHER -> v

\* What is received are the span's tags that can be sent, in their order and at
\* their positions, and the payload: no header takes bytes from the payload, or
\* leaves bytes to it.
HeaderRoundTrip ==
  message # <<>> =>
    LET records == collect_tag_records(span) IN
    parse_tag_header(message) =
      Read([i \in DOMAIN records |->
              [records[i] EXCEPT !.key = Normal(@), !.value = Normal(@), !.srcid = Normal(@)]],
           Payload)

\* A header cut short anywhere is refused, and never taken for one of fewer tags.
PartRefused ==
  message # <<>> =>
    \A n \in 0 .. Len(message) - Len(Payload) - 1 : ~ parse_tag_header(SubSeq(message, 1, n)).ok

\* A relay sends every message on byte for byte.
RelayUnchanged == [][Send /\ hops > 0 => message' = sent]_vars
=============================================================================

------------------------------ MODULE LegacyPmt ------------------------------
(***************************************************************************)
(* The legacy PMT format: pmt_legacy_codec.  A byte is a number below      *)
(* Radix.  A number of w bytes is the sequence of its bytes in memory, the *)
(* least significant first.  A value is a record with its type:            *)
(*   null;  bool, is;  a type of Codes, parts (the number, or the real and *)
(*   the imaginary part);  string, chars;  uniform, of, elems (the parts   *)
(*   of each element);  tensor, elems;  map, entries.                      *)
(***************************************************************************)
EXTENDS Integers, Sequences, SequencesExt

CONSTANT Radix  \* 256

ASSUME RadixAssumption == Radix \in 14 .. 256

\* legacy_tag
PMT_TRUE       == 0
PMT_FALSE      == 1
SYMBOL         == 2
INT32          == 3
DOUBLE         == 4
COMPLEX        == 5
NULL           == 6
PAIR           == 7
DICT           == 9
UNIFORM_VECTOR == 10
UINT64         == 11
TUPLE          == 12
INT64          == 13

\* legacy_uniform_type and the size of a part.
Codes ==
  [uint8 |-> 0, int8 |-> 1, uint16 |-> 2, int16 |-> 3, uint32 |-> 4, int32 |-> 5,
   uint64 |-> 6, int64 |-> 7, float |-> 8, double |-> 9, complexf |-> 10, complexd |-> 11]
Complex == {"complexf", "complexd"}
Size(t) ==
  CASE t \in {"uint8", "int8"}                        -> 1
    [] t \in {"uint16", "int16"}                      -> 2
    [] t \in {"uint32", "int32", "float", "complexf"} -> 4
    [] t \in {"uint64", "int64", "double", "complexd"} -> 8

\* The low w bytes of a number, as in memory.
Native(n, w) == [i \in 1 .. w |-> (n \div Radix ^ (i - 1)) % Radix]

\* The number of some bytes; what is more than any buffer holds is all the same.
Number(bytes) ==
  FoldRight(LAMBDA b, n : IF n * Radix + b > Radix ^ 4 THEN Radix ^ 4 ELSE n * Radix + b, bytes, 0)

\* write_*, to_big_endian_integral and their inverses: the other way round.
BigEndian(bytes) == Reverse(bytes)

\* static_cast to a wider type.  That of float is only known to lose nothing.
Pad(bytes, w, b) == bytes \o [i \in 1 .. w - Len(bytes) |-> b]
ZeroExtended(bytes, w) == Pad(bytes, w, 0)
SignExtended(bytes, w) == Pad(bytes, w, IF 2 * bytes[Len(bytes)] >= Radix THEN Radix - 1 ELSE 0)
AsDouble(bytes) == [i \in 1 .. 8 - Len(bytes) |-> 0] \o bytes

-----------------------------------------------------------------------------
\* serialize_string keeps the low two bytes of the length.
serialize_string(s) == <<SYMBOL>> \o BigEndian(Native(Len(s), 2)) \o s

serialize_parts(parts) == FlattenSeq([i \in DOMAIN parts |-> BigEndian(parts[i])])

\* Mutant: the bytes of an element are turned round as one number.
serialize_uniform_vector_Whole(of, elems) ==
  <<UNIFORM_VECTOR, Codes[of]>> \o BigEndian(Native(Len(elems), 4)) \o <<1, 0>>
  \o FlattenSeq([i \in DOMAIN elems |-> BigEndian(FlattenSeq(elems[i]))])

serialize_uniform_vector(of, elems) ==
  <<UNIFORM_VECTOR, Codes[of]>> \o BigEndian(Native(Len(elems), 4)) \o <<1, 0>>
  \o FlattenSeq([i \in DOMAIN elems |-> serialize_parts(elems[i])])

\* The order of std::string.
Before(a, b) ==
  \E i \in 0 .. Len(a) :
    /\ i < Len(b) /\ SubSeq(a, 1, i) = SubSeq(b, 1, i)
    /\ i = Len(a) \/ a[i + 1] < b[i + 1]

RECURSIVE serialize_to_legacy(_)

serialize_dict(entries) ==
  LET keys == SetToSortSeq(DOMAIN entries, Before) IN
  FlattenSeq([i \in DOMAIN keys |->
    <<DICT, PAIR>> \o serialize_string(keys[i]) \o serialize_to_legacy(entries[keys[i]])])
  \o <<NULL>>

serialize_all(elems) == FlattenSeq([i \in DOMAIN elems |-> serialize_to_legacy(elems[i])])

serialize_to_legacy(v) ==
  CASE v.type = "null"    -> <<NULL>>
    [] v.type = "bool"    -> <<IF v.is THEN PMT_TRUE ELSE PMT_FALSE>>
    [] v.type \in {"int8", "int16", "int32"} -> <<INT32>> \o BigEndian(SignExtended(v.parts[1], 4))
    [] v.type = "int64"   -> <<INT64>> \o BigEndian(v.parts[1])
    [] v.type \in {"uint8", "uint16", "uint32", "uint64"} ->
         <<UINT64>> \o BigEndian(ZeroExtended(v.parts[1], 8))
    [] v.type \in {"float", "double"} -> <<DOUBLE>> \o BigEndian(AsDouble(v.parts[1]))
    [] v.type \in Complex ->
         <<COMPLEX>> \o BigEndian(AsDouble(v.parts[1])) \o BigEndian(AsDouble(v.parts[2]))
    [] v.type = "string"  -> serialize_string(v.chars)
    [] v.type = "uniform" -> serialize_uniform_vector(v.of, v.elems)
    [] v.type = "tensor"  ->
         (IF Len(v.elems) = 2 THEN <<PAIR>> ELSE <<TUPLE>> \o BigEndian(Native(Len(v.elems), 4)))
         \o serialize_all(v.elems)
    [] v.type = "map"     -> serialize_dict(v.entries)

-----------------------------------------------------------------------------
\* A reader returns what it read and the bytes that are left, or throws.
Throws == [ok |-> FALSE]
Read(value, rest) == [ok |-> TRUE, value |-> value, rest |-> rest]
Then(read, next(_, _)) == IF read.ok THEN next(read.value, read.rest) ELSE Throws
Beyond(s, n) == SubSeq(s, n + 1, Len(s))

\* Null, the value monostate.
Null == [type |-> "null"]

\* deserialize_from_big_endian of one part, and of all n of a value.
RECURSIVE read_parts(_, _, _)
read_parts(n, w, s) ==
  IF n = 0 THEN Read(<<>>, s)
  ELSE IF Len(s) < w THEN Throws
  ELSE Then(read_parts(n - 1, w, Beyond(s, w)),
            LAMBDA more, r : Read(<<BigEndian(SubSeq(s, 1, w))>> \o more, r))

PartsOf(t) == IF t \in Complex THEN 2 ELSE 1

read_number(t, s) ==
  Then(read_parts(PartsOf(t), Size(t), s), LAMBDA p, r : Read([type |-> t, parts |-> p], r))

RECURSIVE create_vector_from_big_endian(_, _, _)
create_vector_from_big_endian(t, n, s) ==
  IF n = 0 THEN Read(<<>>, s)
  ELSE Then(read_parts(PartsOf(t), Size(t), s), LAMBDA e, r :
         Then(create_vector_from_big_endian(t, n - 1, r), LAMBDA more, q : Read(<<e>> \o more, q)))

read_string(s) ==
  IF Len(s) < 2 THEN Throws
  ELSE LET n == Number(BigEndian(SubSeq(s, 1, 2))) IN
       IF Len(s) < 2 + n THEN Throws
       ELSE Read([type |-> "string", chars |-> SubSeq(s, 3, 2 + n)], Beyond(s, 2 + n))

\* The type, the length and the padding, which is as long as it says.
read_uniform(s) ==
  IF Len(s) < 6 THEN Throws
  ELSE IF Len(s) < 6 + s[6] \/ \A t \in DOMAIN Codes : Codes[t] # s[1] THEN Throws
  ELSE LET of == CHOOSE t \in DOMAIN Codes : Codes[t] = s[1] IN
       Then(create_vector_from_big_endian(of, Number(BigEndian(SubSeq(s, 2, 5))), Beyond(s, 6 + s[6])),
            LAMBDA elems, r : Read([type |-> "uniform", of |-> of, elems |-> elems], r))

RECURSIVE deserialize_value(_)

RECURSIVE deserialize_all(_, _)
deserialize_all(n, s) ==
  IF n = 0 THEN Read(<<>>, s)
  ELSE Then(deserialize_value(s), LAMBDA v, r :
         Then(deserialize_all(n - 1, r), LAMBDA more, q : Read(<<v>> \o more, q)))

read_tensor(n, s) ==
  Then(deserialize_all(n, s), LAMBDA elems, r : Read([type |-> "tensor", elems |-> elems], r))

EntriesOf(tail) == IF tail.type = "map" THEN tail.entries ELSE <<>>

\* A pair of key and value, and the rest of the entries: a map, or null.  An
\* entry that comes first is the one that counts.
Entry(key, value, tail, s) ==
  IF key.type # "string" \/ tail.type \notin {"map", "null"} THEN Throws
  ELSE Read([type |-> "map",
             entries |-> [k \in {key.chars} \cup DOMAIN EntriesOf(tail) |->
                            IF k = key.chars THEN value ELSE EntriesOf(tail)[k]]], s)

deserialize_dict(s) ==
  IF s = <<>> THEN Throws
  ELSE IF Head(s) = NULL THEN Read([type |-> "map", entries |-> <<>>], Tail(s))
  ELSE IF Head(s) # PAIR THEN Throws
  ELSE Then(deserialize_all(3, Tail(s)), LAMBDA e, r : Entry(e[1], e[2], e[3], r))

deserialize_value(s) ==
  IF s = <<>> THEN Throws
  ELSE LET tag == Head(s)  r == Tail(s) IN
    CASE tag = NULL    -> Read(Null, r)
      [] tag = PMT_TRUE   -> Read([type |-> "bool", is |-> TRUE], r)
      [] tag = PMT_FALSE  -> Read([type |-> "bool", is |-> FALSE], r)
      [] tag = INT32   -> read_number("int32", r)
      [] tag = INT64   -> read_number("int64", r)
      [] tag = UINT64  -> read_number("uint64", r)
      [] tag = DOUBLE  -> read_number("double", r)
      [] tag = COMPLEX -> read_number("complexd", r)
      [] tag = SYMBOL  -> read_string(r)
      [] tag = UNIFORM_VECTOR -> read_uniform(r)
      [] tag = TUPLE   ->
           IF Len(r) < 4 THEN Throws
           ELSE read_tensor(Number(BigEndian(SubSeq(r, 1, 4))), Beyond(r, 4))
      [] tag = PAIR    -> read_tensor(2, r)
      [] tag = DICT    -> deserialize_dict(r)
      [] OTHER         -> Throws
=============================================================================

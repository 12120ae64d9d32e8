--------------------------- MODULE MCZmqTagHeader ----------------------------
(***************************************************************************)
(* Spans of up to two tags, the first with a value of any kind: every      *)
(* scalar type, uniform vectors of every type, and containers of these two *)
(* deep.  A byte has 16 values, so that a string of 255 bytes is the       *)
(* longest its two bytes of length can say.                                *)
(***************************************************************************)
EXTENDS ZmqTagHeader

Scalar(t) == [type |-> t, parts |-> [p \in 1 .. PartsOf(t) |->
                [i \in 1 .. Size(t) |-> (8 + 7 * p + 3 * i) % Radix]]]
Small(t)  == [type |-> t, parts |-> [p \in 1 .. PartsOf(t) |-> Native(p, Size(t))]]
Scalars   == {Scalar(t) : t \in DOMAIN Codes} \cup {Small(t) : t \in DOMAIN Codes}

Uniform(t, n) ==
  [type |-> "uniform", of |-> t, elems |-> [e \in 1 .. n |-> IF e = 1 THEN Scalar(t).parts ELSE Small(t).parts]]
Uniforms == {Uniform(t, n) : t \in DOMAIN Codes, n \in {0, 2}}

Text(chars) == [type |-> "string", chars |-> chars]
Keys    == {<<>>, <<6>>, <<6, 0>>, <<9>>}
Strings == {Text(k) : k \in Keys} \cup {Text([i \in 1 .. 255 |-> 7])}

True  == [type |-> "bool", is |-> TRUE]
False == [type |-> "bool", is |-> FALSE]

Leaves == {Null, True, Text(<<6>>), Small("int16"), Uniform("complexf", 2)}
Tensors(of) == {[type |-> "tensor", elems |-> e] : e \in UNION {[1 .. n -> of] : n \in 0 .. 3}}
Maps(of)    == {[type |-> "map", entries |-> e] : e \in UNION {[d -> of] : d \in SUBSET Keys}}

Inner == {[type |-> "tensor", elems |-> <<>>], [type |-> "tensor", elems |-> <<Null, True>>],
          [type |-> "map", entries |-> <<>>],
          [type |-> "map", entries |-> [k \in {<<6>>, <<9>>} |-> Text(k)]], False}

Values == Scalars \cup Uniforms \cup Strings \cup {Null, True, False}
          \cup Tensors(Leaves) \cup Maps(Leaves) \cup Tensors(Inner) \cup Maps(Inner)

TagMap(k, v) == [n \in {"key", "value"} |-> IF n = "key" THEN k ELSE v]

MCFirstTags == {[at |-> 1, map |-> TagMap(Text(<<6>>), v)] : v \in Values}

\* With a source, without a value, before the span, and plain.
MCLaterTags ==
  {[at |-> 2, map |-> [n \in {"key", "value", "srcid"} |-> IF n = "srcid" THEN Text(<<>>) ELSE Small("int8")]],
   [at |-> 2, map |-> [n \in {"key"} |-> True]],
   [at |-> -1, map |-> TagMap(Null, True)]}

MCPayload == <<6, 2, 0, 0>>
=============================================================================

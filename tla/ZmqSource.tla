----------------------------- MODULE ZmqSource ------------------------------
(***************************************************************************)
(* What ZmqPullSource, ZmqSubSource and ZmqReqSource have in common: a     *)
(* call of processBulk fills an output span from the items retained by an  *)
(* earlier call and from the messages it receives, and publishes it when   *)
(* it returns.  Of a message that does not fit, the rest is retained.      *)
(*                                                                         *)
(* A message carries items (stream positions) and the tags of its header.  *)
(* A vector or a PMT is one item, and a message of its own.  The setting   *)
(* pass_tags is on, which adds the headers.                                *)
(***************************************************************************)
EXTENDS Tags

CONSTANTS
  Kinds,      \* item types T that are instantiated: "scalar", "vector", "pmt"
  StreamTags, \* the tags of the input stream, [offset, tag], in its order
  MaxRoom     \* bound: size of an output span

ASSUME SourceAssumption ==
  /\ Kinds \subseteq {"scalar", "vector", "pmt"}
  /\ MaxRoom \in Nat \ {0}
  /\ StreamTags \in Seq([offset : Nat, tag : {StreamTags[i].tag : i \in DOMAIN StreamTags}])
  /\ \A i, j \in DOMAIN StreamTags : i <= j => StreamTags[i].offset <= StreamTags[j].offset

VARIABLES
  kind,           \* the item type of both blocks
  pending_items,  \* _pending_items
  pending_tags,   \* _pending_tags, offsets relative to pending_items
  span,           \* output span of the call in progress; room 0 between calls
  out, outTags    \* what the block has published

sourceVars == <<kind, pending_items, pending_tags, span, out, outTags>>

NoSpan == [room |-> 0, items |-> <<>>, tags |-> <<>>]

\* collect_tag_records(): the tags of the n items from first, relative to first.
Collected(first, n) == Shift(Within(StreamTags, first .. first + n - 1), - first)

\* A message, and the defects one from elsewhere may have.
Message(items, tags, header_offset) ==
  [items |-> items, tags |-> tags, header_offset |-> header_offset, defect |-> "none"]
Defective(d) == [items |-> <<>>, tags |-> <<>>, header_offset |-> 0, defect |-> d]

Items(first, n) == [i \in 1 .. n |-> first + i - 1]

\* parse_tag_header() does not find what it needs.
BadHeader(m) == m.defect = "header"

\* The payload is not a whole number of items, or does not decode.
BadPayload(m) == m.defect = "payload"

\* The tags of m by the item of m they are on.
Rebased(m) == Rebase(m.tags, m.header_offset)

roomLeft == span.room - Len(span.items)

SourceInit ==
  /\ kind \in Kinds
  /\ pending_items = <<>> /\ pending_tags = <<>>
  /\ span = NoSpan /\ out = <<>> /\ outTags = <<>>

\* Mutant: retained items wait for another message.
OpenSpan_NoFlush(n) ==
  /\ span.room = 0
  /\ span' = [room |-> n, items |-> <<>>, tags |-> <<>>]
  /\ UNCHANGED <<kind, pending_items, pending_tags, out, outTags>>

\* A call begins: retained items first.
OpenSpan(n) ==
  LET k == IF n < Len(pending_items) THEN n ELSE Len(pending_items)
  IN  /\ span.room = 0
      /\ span' = [room |-> n, items |-> SubSeq(pending_items, 1, k), tags |-> Below(pending_tags, k)]
      /\ pending_items' = SubSeq(pending_items, k + 1, Len(pending_items))
      /\ pending_tags' = Beyond(pending_tags, k)
      /\ UNCHANGED <<kind, out, outTags>>

\* Mutant: the retained tags keep the offsets they had in the message.
TakeScalars_TagsNotRebased(m) ==
  LET at   == Len(span.items)
      n    == IF Len(m.items) < roomLeft THEN Len(m.items) ELSE roomLeft
  IN  /\ span' = [room  |-> span.room,
                  items |-> span.items \o SubSeq(m.items, 1, n),
                  tags  |-> span.tags \o Shift(Below(Rebased(m), n), at)]
      /\ pending_items' = pending_items \o SubSeq(m.items, n + 1, Len(m.items))
      /\ pending_tags' = Within(Rebased(m), Nat \ (0 .. n - 1))

TakeScalars(m) ==
  LET at   == Len(span.items)
      n    == IF Len(m.items) < roomLeft THEN Len(m.items) ELSE roomLeft
  IN  /\ span' = [room  |-> span.room,
                  items |-> span.items \o SubSeq(m.items, 1, n),
                  tags  |-> span.tags \o Shift(Below(pending_tags, n) \o Below(Rebased(m), n), at)]
      /\ pending_items' = pending_items \o SubSeq(m.items, n + 1, Len(m.items))
      /\ pending_tags' = IF n < Len(m.items) THEN Beyond(Rebased(m), n) ELSE Beyond(pending_tags, n)

\* A vector or a PMT: every tag of the header goes to it.
TakeOne(m) ==
  LET at == Len(span.items)
  IN  /\ span' = [room  |-> span.room,
                  items |-> span.items \o m.items,
                  tags  |-> span.tags \o OnItem(m.tags, at)]
      /\ UNCHANGED <<pending_items, pending_tags>>

\* A received message goes into the span.
Take(m) ==
  /\ IF kind = "scalar" THEN TakeScalars(m) ELSE TakeOne(m)
  /\ UNCHANGED <<kind, out, outTags>>

\* The call returns: the span is full, nothing arrived in time, or an error is
\* reported after what there is was published.
Return ==
  /\ span.room > 0
  /\ out' = out \o span.items
  /\ outTags' = outTags \o Shift(span.tags, Len(out))
  /\ span' = NoSpan
  /\ UNCHANGED <<kind, pending_items, pending_tags>>

\* The call ends by an exception: its span is never published.
Throw ==
  /\ span.room > 0
  /\ span' = NoSpan
  /\ UNCHANGED <<kind, pending_items, pending_tags, out, outTags>>

-----------------------------------------------------------------------------
\* Items in the source's hands, published or not, in order.
Received == out \o span.items \o pending_items
=============================================================================

---------------------------- MODULE TaggedStream ----------------------------
(***************************************************************************)
(* What a stream carried from one flowgraph to another promises: the items *)
(* come out in the order they went in, each once at most, and every tag    *)
(* comes out once, on the item it was on.  Item k is the number k.         *)
(***************************************************************************)
EXTENDS Tags

CONSTANTS
  StreamTags,  \* the tags of the input, [offset, tag], in the stream's order
  MayLose      \* items may be left out

VARIABLES out, outTags

vars == <<out, outTags>>

\* The tags of items, when the first of them is item number base of the output.
TagsOn(items, base) == CarriedBy(StreamTags, items, base)

InOrder(items) ==
  \A i \in 1 .. Len(items) - 1 :
    IF MayLose THEN items[i] < items[i + 1] ELSE items[i] + 1 = items[i + 1]

Init == out = <<>> /\ outTags = <<>>

Deliver ==
  /\ IsStrictPrefix(out, out')
  /\ InOrder(out') /\ (~ MayLose => out'[1] = 0)
  /\ outTags' = outTags \o TagsOn(SubSeq(out', Len(out) + 1, Len(out')), Len(out))

Spec == Init /\ [][Deliver]_vars
=============================================================================

-------------------------------- MODULE Tags --------------------------------
(***************************************************************************)
(* Tags of a stream in a row: each is a record [offset, tag], its offset   *)
(* the number of the item it is on.                                        *)
(***************************************************************************)
EXTENDS Integers, Sequences, SequencesExt

MovedTo(t, o) == [offset |-> o, tag |-> t.tag]

\* The tags seen from d items before; and all of them on item o.
Shift(tags, d)  == [i \in DOMAIN tags |-> MovedTo(tags[i], tags[i].offset + d)]
OnItem(tags, o) == [i \in DOMAIN tags |-> MovedTo(tags[i], o)]

\* The tags of a message that counts its items from n; what is below n is left.
Rebase(tags, n) ==
  [i \in DOMAIN tags |->
    LET o == tags[i].offset IN MovedTo(tags[i], IF o >= n THEN o - n ELSE o)]

\* Those on an item with one of the numbers.
Within(tags, numbers) ==
  FlattenSeq([i \in DOMAIN tags |-> IF tags[i].offset \in numbers THEN <<tags[i]>> ELSE <<>>])

\* The tags in front of item n, and the others seen from there.
Below(tags, n)  == Within(tags, 0 .. n - 1)
Beyond(tags, n) == Shift(Within(tags, Nat \ (0 .. n - 1)), -n)

TagsAt(tags, item) == Within(tags, {item})

Names(tags) == [i \in DOMAIN tags |-> tags[i].tag]

\* What items carry, item k being the number k, when the first of them is item
\* number base elsewhere.
CarriedBy(tags, items, base) ==
  FlattenSeq([i \in DOMAIN items |-> OnItem(TagsAt(tags, items[i]), base + i - 1)])
=============================================================================

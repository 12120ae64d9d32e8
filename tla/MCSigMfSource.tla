--------------------------- MODULE MCSigMfSource ---------------------------
(***************************************************************************)
(* A recording of four samples with a capture at its start and three       *)
(* events later, two of them on one sample.                                *)
(***************************************************************************)
EXTENDS SigMfSource

MCEvents == <<[offset |-> 0, tag |-> "capture"], [offset |-> 3, tag |-> "late"],
              [offset |-> 1, tag |-> "a"], [offset |-> 1, tag |-> "b"]>>

\* Sorting by offset; tags with the same offset keep their order.
MCStableSort(tags) ==
  FoldLeft(LAMBDA acc, p : acc \o SelectSeq(tags, LAMBDA t : t.offset = p), <<>>, [p \in 1 .. FileLen + 1 |-> p - 1])
=============================================================================

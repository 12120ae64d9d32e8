----------------------------- MODULE AudioEdge ------------------------------
(***************************************************************************)
(* The connection between a source of interleaved audio and its sink: the  *)
(* samples published and not consumed yet, each with the format of the     *)
(* tag it carries, if any.                                                 *)
(***************************************************************************)
EXTENDS Integers, Sequences, SequencesExt

CONSTANTS
  Silence,  \* what the callback plays when it has no sample
  NoTag,
  EdgeSize  \* samples the connection holds

ASSUME EdgeAssumption == EdgeSize \in Nat \ {0}

VARIABLE edge

Format == [channels : Nat, rate : Nat]

ASSUME TagAssumption == NoTag \notin Format

room == EdgeSize - Len(edge)

Smaller(a, b) == IF a < b THEN a ELSE b

From(n)  == SubSeq(edge, n + 1, Len(edge))
=============================================================================

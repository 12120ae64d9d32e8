-------------------------- MODULE MCBlockingBackoff --------------------------
(* Small instances of BlockingBackoff for TLC. *)
EXTENDS BlockingBackoff, TLC

CONSTANTS b1, b2, b3

TwoBlocks == <<b1, b2>>

\* A step treats all blocks alike; the first graph is one of those it may be.
BlockSymmetry == Permutations({b1, b2, b3})
=============================================================================

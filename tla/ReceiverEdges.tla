---------------------------- MODULE ReceiverEdges ----------------------------
(***************************************************************************)
(* The connections of a receiver: samples received and not decimated yet,  *)
(* decimated and not resampled yet, and the resampled output.  Received    *)
(* sample k is the number k.                                               *)
(***************************************************************************)
EXTENDS Integers, Sequences, SequencesExt

VARIABLES rf, quad, audio

edges == <<rf, quad, audio>>

AtMost(a, b) == IF a < b THEN a ELSE b
=============================================================================

----------------------------- MODULE MCReceiver ------------------------------
(***************************************************************************)
(* A receiver with every one of its three blocks reconfigured in turn.     *)
(***************************************************************************)
EXTENDS Receiver
=============================================================================

--------------------------- MODULE MCAudioPlayback ---------------------------
(* A stereo and a mono file, each of two frames. *)
EXTENDS AudioPlayback

MCFiles == {[channels |-> 2, rate |-> 1, frames |-> 2], [channels |-> 1, rate |-> 1, frames |-> 2]}

\* Nothing, or stereo.
MCFallbacks == {[channels |-> 0, rate |-> 1], [channels |-> 2, rate |-> 1]}
=============================================================================

----------------------------- MODULE AudioQueue -----------------------------
(***************************************************************************)
(* What an audio sink promises: while it is open, samples leave in the     *)
(* order they came, none twice and none left out, silence is played only   *)
(* when there is nothing else, and what waits is given up only for another *)
(* format.  The steps are conditions on how the state may change.          *)
(***************************************************************************)
EXTENDS Integers, Sequences, SequencesExt

CONSTANT Silence

VARIABLES
  input,   \* samples the sink has not consumed
  queue,   \* samples consumed and not played
  sound,   \* the last buffer played
  format,  \* number of channels and sample rate
  on       \* the stream is open

vars == <<input, queue, sound, format, on>>

Init == input = <<>> /\ queue = <<>> /\ sound = <<>> /\ on = FALSE

DataOf(samples) == [i \in DOMAIN samples |-> samples[i].data]

Feed == IsStrictPrefix(input, input') /\ UNCHANGED <<queue, sound, format, on>>

Take ==
  \E k \in 1 .. Len(input) :
    /\ input' = SubSeq(input, k + 1, Len(input))
    /\ queue' = IF on THEN queue \o DataOf(SubSeq(input, 1, k)) ELSE queue
    /\ UNCHANGED <<sound, format, on>>

Play ==
  /\ on
  /\ \E k \in 0 .. Len(queue) :
       /\ queue' = SubSeq(queue, k + 1, Len(queue))
       /\ Len(sound') >= k /\ SubSeq(sound', 1, k) = SubSeq(queue, 1, k)
       /\ Len(sound') > k => k = Len(queue)
  /\ \A i \in Len(queue) + 1 .. Len(sound') : sound'[i] = Silence
  /\ UNCHANGED <<input, format, on>>

Open ==
  /\ on => format' # format
  /\ on' = TRUE /\ queue' = <<>>
  /\ UNCHANGED <<input, sound>>

Close ==
  /\ on' = FALSE /\ queue' = <<>>
  /\ UNCHANGED <<input, sound>>

Next == Feed \/ Take \/ Play \/ Open \/ Close

Spec == Init /\ [][Next]_vars
=============================================================================

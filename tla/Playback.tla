------------------------------ MODULE Playback ------------------------------
(***************************************************************************)
(* What playing a recording promises: the samples of the selected window,  *)
(* in order, pass after pass while repeat is on, each with the events of   *)
(* the recording that are on it; the end comes after a whole pass.         *)
(***************************************************************************)
EXTENDS Tags

CONSTANTS
  Events,      \* captures, then annotations: a sequence of [offset, tag]
  StartEvent   \* the event on the first sample of every pass

VARIABLES
  settings,    \* [offset, length, repeat]
  file,        \* number of samples in the data file
  window,      \* the samples being played
  played,      \* [sample, tags] so far
  ended

vars == <<settings, file, window, played, ended>>

Selected(s, size) ==
  {n \in 0 .. size - 1 : s.offset <= n /\ (s.length = 0 \/ n < s.offset + s.length)}

First == CHOOSE n \in window : \A m \in window : n <= m
Pass  == Cardinality(window)

EventsOn(n) == (IF n = First THEN <<StartEvent>> ELSE <<>>) \o Names(TagsAt(Events, n))

Item(i) == LET n == First + ((i - 1) % Pass) IN [sample |-> n, tags |-> EventsOn(n)]

Init == played = <<>> /\ ended = FALSE /\ window = {}

Select ==
  /\ window' \in {Selected(settings, file), {}}
  /\ played' = <<>> /\ ended' = FALSE
  /\ UNCHANGED <<settings, file>>

\* Without repeat the pass that has begun is the last one.
Deliver ==
  /\ ~ ended
  /\ LET new == Len(played') - Len(played)
         done == Len(played)
     IN /\ new >= 0
        /\ new > 0 =>
             /\ window # {}
             /\ played' = played \o [i \in 1 .. new |-> Item(done + i)]
             /\ ~ settings.repeat =>
                  /\ done = 0 \/ done % Pass # 0
                  /\ (done % Pass) + new <= Pass
  /\ ended' => \/ window = {}
               \/ ~ settings.repeat /\ played' # <<>> /\ Len(played') % Pass = 0
  /\ UNCHANGED <<settings, file, window>>

Adjust == UNCHANGED <<window, played, ended>>

Spec == Init /\ [][Select \/ Deliver \/ Adjust]_vars
=============================================================================

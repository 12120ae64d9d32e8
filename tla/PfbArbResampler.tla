--------------------------- MODULE PfbArbResampler ---------------------------
(***************************************************************************)
(* The polyphase resampler: PfbArbResampler with its kernel.  The history  *)
(* buffer holds consecutive samples, so that it is known by the position   *)
(* of its oldest and by its size; the zeros it is filled up with have      *)
(* positions like any other.  An output is known by the newest sample of   *)
(* its window, the filter used and the fraction to the next filter.        *)
(*                                                                         *)
(* The rate is RateUp / down, so that the fraction the kernel accumulates  *)
(* counts in units of 1 / RateUp.  The framework gives the block spans of  *)
(* whole chunks, input_chunk_size to output_chunk_size.                    *)
(***************************************************************************)
EXTENDS ReceiverEdges

CONSTANTS
  RateUp, RateDowns,  \* the setting "rate" is RateUp / down
  NumFilters,         \* the setting "num_filters"
  TapTotals,          \* numbers of taps of the whole bank
  Base,               \* 1024: samples of the smaller chunk
  Guard,              \* 128: history kept beyond what a call needs
  MaxPfbChunks,       \* bound: chunks in one call
  MaxAudio            \* bound: outputs

ASSUME PfbAssumption ==
  /\ RateUp \in Nat \ {0} /\ RateDowns \subseteq Nat \ {0}
  /\ NumFilters \in Nat \ {0} /\ TapTotals \subseteq Nat \ {0}
  /\ Base \in Nat \ {0} /\ Guard \in Nat /\ MaxPfbChunks \in Nat \ {0} /\ MaxAudio \in Nat

CeilDiv(a, b) == (a + b - 1) \div b

\* The filters are longer than what one output may move on by.
ASSUME LongFilters ==
  \A d \in RateDowns, t \in TapTotals : CeilDiv(d, RateUp) <= CeilDiv(t, NumFilters)

VARIABLES
  down,            \* the rate
  tapTotal,        \* size of "taps"
  gone, size, room,  \* _historyBuffer: samples before its oldest, its size and capacity
  filter, acc,     \* d_last_filter, d_acc
  lost,            \* history: samples overwritten before they were used, and what was
  backlog          \* left over in the buffer, since and at the last change of settings

pfbVars == <<down, tapTotal, gone, size, room, filter, acc, lost, backlog>>

TapsPerFilter(t) == CeilDiv(t, NumFilters)

\* _choose_chunk_sizes for the rate RateUp / d: the floor of a quotient, at least 1.
AtLeastOne(n) == IF n > 0 THEN n ELSE 1
InChunk(d)  == IF RateUp < d THEN AtLeastOne((Base * d) \div RateUp) ELSE Base
OutChunk(d) == IF RateUp < d THEN Base ELSE AtLeastOne((Base * RateUp) \div d)

\* set_taps starts with the filter in the middle of the bank.
FirstFilter(t) == (t \div 2) % NumFilters

\* _resize_history_buffer() of a buffer of n samples: the newest are kept, and
\* zeros added for what a window lacks.
Kept(n, d, t) == AtMost(n, TapsPerFilter(t) + InChunk(d) + Guard)
Filled(n, t)  == IF n < TapsPerFilter(t) - 1 THEN TapsPerFilter(t) - 1 ELSE n

PfbInit ==
  /\ down \in RateDowns /\ tapTotal \in TapTotals
  /\ gone = 0 /\ size = Filled(0, tapTotal)
  /\ room = TapsPerFilter(tapTotal) + InChunk(down) + Guard
  /\ filter = FirstFilter(tapTotal) /\ acc = 0
  /\ lost = 0 /\ backlog = 0

\* Every setting goes back to the first filter; the accumulated fraction stays.
PfbSettingsChanged ==
  /\ down' \in RateDowns /\ tapTotal' \in TapTotals
  /\ filter' = FirstFilter(tapTotal')
  /\ LET kept == Kept(size, down', tapTotal') IN
       /\ gone' = gone + size - kept
       /\ size' = Filled(kept, tapTotal')
  /\ room' = TapsPerFilter(tapTotal') + InChunk(down') + Guard
  /\ audio' = <<>> /\ lost' = 0 /\ backlog' = size' - (TapsPerFilter(tapTotal') - 1)
  /\ UNCHANGED <<rf, quad, acc>>

\* set_rate: filters from one output to the next, and the rest of them.
dec_rate == (NumFilters * down) \div RateUp
flt_rate == (NumFilters * down) % RateUp

\* Mutant: the fraction moves the output on by a filter without being reduced.
Step_FractionLost(k, available, from) ==
  IF k.read >= available THEN k
  ELSE LET t == k.acc + flt_rate
           j == k.filter + dec_rate + (t \div RateUp)
       IN  [read |-> k.read + (j \div NumFilters), filter |-> j % NumFilters, acc |-> 0,
            out |-> Append(k.out, [newest |-> from + k.read, filter |-> k.filter, acc |-> k.acc])]

\* One output of the kernel's filter().
Step(k, available, from) ==
  IF k.read >= available THEN k
  ELSE LET t == k.acc + flt_rate
           j == k.filter + dec_rate + (t \div RateUp)
       IN  [read |-> k.read + (j \div NumFilters), filter |-> j % NumFilters, acc |-> t % RateUp,
            out |-> Append(k.out, [newest |-> from + k.read, filter |-> k.filter, acc |-> k.acc])]

\* filter() up to the nout-th output, as far as the samples go.
Kernel(available, from, nout) ==
  LET k[n \in 0 .. nout] ==
        IF n = 0 THEN [read |-> 0, filter |-> filter, acc |-> acc, out |-> <<>>]
        ELSE Step(k[n - 1], available, from)
  IN  k[nout]

\* Mutant: the history has room for what the call brings and no more.
Target_NoGuard(nin) == TapsPerFilter(tapTotal) - 1 + nin

\* What the history has room for from a call on that brings nin samples.
Target(nin) == TapsPerFilter(tapTotal) - 1 + nin + Guard

PfbWork ==
  \E chunks \in 1 .. MaxPfbChunks :
    LET nin      == chunks * InChunk(down)
        nout     == chunks * OutChunk(down)
        holds    == IF Target(nin) > size THEN Target(nin) ELSE room
        pushed   == AtMost(size + nin, holds)
        over     == size + nin - pushed
        k        == Kernel(pushed - TapsPerFilter(tapTotal) + 1,
                           gone + over + TapsPerFilter(tapTotal), nout)
    IN
    /\ nin <= Len(quad) /\ Len(audio) + nout <= MaxAudio
    /\ room' = holds
    /\ lost' = lost + over
    /\ gone' = gone + over + k.read /\ size' = pushed - k.read
    /\ filter' = k.filter /\ acc' = k.acc
    /\ audio' = audio \o [i \in DOMAIN k.out |-> [k.out[i] EXCEPT !.newest = @ - lost']]
    /\ quad' = SubSeq(quad, nin + 1, Len(quad))
    /\ UNCHANGED <<rf, down, tapTotal, backlog>>

-----------------------------------------------------------------------------
Time(o) == (o.newest * NumFilters + o.filter) * RateUp + o.acc

\* Over all the calls the samples come in and over the ends of the filter bank,
\* the outputs are one period of the output rate apart.  Where samples were
\* overwritten, those are missing.
EvenlySpaced ==
  \A i \in 1 .. Len(audio) - 1 : Time(audio[i + 1]) - Time(audio[i]) = NumFilters * down

\* Samples are overwritten in the history only when interpolating at a rate the
\* chunks round, which leaves over a part of every call's samples, or after a
\* change of settings that found more left over than the guard holds.
LosesOnlyIfRounded ==
  lost > 0 => \/ RateUp > down /\ (Base * RateUp) % down # 0
              \/ backlog > Guard

\* Every sample is used: a resampler passes over none.
NothingSkipped == lost = 0
=============================================================================

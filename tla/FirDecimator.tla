---------------------------- MODULE FirDecimator -----------------------------
(***************************************************************************)
(* The decimating FIR filter.  An output is known by its number and by the *)
(* samples it is computed from, the newest first.  The framework gives the *)
(* block spans of whole chunks, input_chunk_size to output_chunk_size.     *)
(***************************************************************************)
EXTENDS ReceiverEdges

CONSTANTS
  Decims,          \* values of the setting "decim"
  TapCounts,       \* numbers of taps, configured or designed
  InitialCapacity, \* of the history
  MaxChunks,       \* bound: chunks in one call
  QuadSize         \* outputs the connection holds

ASSUME FirAssumption ==
  /\ Decims \subseteq Nat /\ TapCounts \subseteq Nat \ {0}
  /\ InitialCapacity \in Nat \ {0} /\ MaxChunks \in Nat \ {0} /\ QuadSize \in Nat \ {0}

VARIABLES
  decim,     \* the setting
  chunk,     \* input_chunk_size
  filtering, \* the block was started, and nothing has thrown since
  taps,      \* size of _taps
  history, capacity,  \* _history, newest first
  phase,     \* _decimPhase
  consumed, filtered, \* samples taken in and outputs made
  begun      \* history: what was consumed and filtered when the decimation began,
             \* and consumed when the history was cleared

firVars == <<decim, chunk, filtering, taps, history, capacity, phase, consumed, filtered, begun>>

FirInit ==
  /\ decim \in Decims \ {0} /\ chunk = decim
  /\ filtering = FALSE /\ taps = 1
  /\ history = <<>> /\ capacity = InitialCapacity /\ phase = 0
  /\ consumed = 0 /\ filtered = 0
  /\ begun = [consumed |-> 0, filtered |-> 0, cleared |-> 0]

PowerOfTwo[k \in Nat] == IF k = 0 THEN 1 ELSE 2 * PowerOfTwo[k - 1]

\* std::bit_ceil
BitCeil(k) == Min({p \in {PowerOfTwo[i] : i \in 0 .. k} : p >= k})

\* Mutant: a history that is large enough is not cleared.
updateFilter_KeepHistory(t) ==
  /\ taps' = t
  /\ capacity' = IF t > capacity THEN BitCeil(t) ELSE capacity
  /\ history' = IF t > capacity THEN <<>> ELSE history
  /\ phase' = 0
  /\ begun' = [consumed |-> consumed, filtered |-> filtered, cleared |-> consumed]

\* updateFilter() with taps that are configured or could be designed.
updateFilter(t) ==
  /\ taps' = t
  /\ capacity' = IF t > capacity THEN BitCeil(t) ELSE capacity
  /\ history' = <<>> /\ phase' = 0
  /\ begun' = [consumed |-> consumed, filtered |-> filtered, cleared |-> consumed]

\* No taps can be designed for the settings: nothing is replaced.
KeepFilter ==
  /\ UNCHANGED <<taps, history, capacity, phase>>
  /\ begun' = [consumed |-> consumed, filtered |-> filtered, cleared |-> begun.cleared]

FirStart ==
  /\ ~ filtering
  /\ \/ /\ decim > 0 /\ \E t \in TapCounts : updateFilter(t)
        /\ filtering' = TRUE /\ chunk' = decim
     \/ decim > 0 /\ KeepFilter /\ filtering' = FALSE /\ chunk' = decim
     \/ decim = 0 /\ KeepFilter /\ filtering' = FALSE /\ UNCHANGED chunk
  /\ UNCHANGED <<edges, decim, consumed, filtered>>

FirStop ==
  /\ filtering
  /\ filtering' = FALSE
  /\ UNCHANGED <<edges, decim, chunk, taps, history, capacity, phase, consumed, filtered, begun>>

\* Filter settings that cannot be met, or of which some are still to come, leave
\* the filter as it is, without an exception; so does the sample rate alone.
FirSettingsChanged ==
  /\ decim' \in Decims
  /\ \/ /\ decim' = 0 /\ KeepFilter
        /\ filtering' = FALSE /\ UNCHANGED chunk
     \/ /\ decim' > 0 /\ chunk' = decim'
        /\ KeepFilter \/ \E t \in TapCounts : updateFilter(t)
        /\ UNCHANGED filtering
  /\ UNCHANGED <<edges, consumed, filtered>>

\* The history after i samples of a call, and what filterCurrent() takes of it.
After(i) ==
  LET h == Reverse(SubSeq(rf, 1, i)) \o history
  IN  SubSeq(h, 1, AtMost(Len(h), capacity))
Window(i) == SubSeq(After(i), 1, AtMost(taps, Len(After(i))))

\* The samples of a call that make an output.
Outputs(n) ==
  LET upto[i \in 0 .. n] ==
        IF i = 0 THEN <<>>
        ELSE IF (phase + i - 1) % decim = 0 THEN Append(upto[i - 1], i) ELSE upto[i - 1]
  IN  upto[n]

FirWork ==
  /\ filtering
  /\ \E k \in 1 .. MaxChunks :
       LET n == k * chunk IN
       /\ n <= Len(rf) /\ k <= QuadSize - Len(quad)
       /\ quad' = quad \o [j \in DOMAIN Outputs(n) |->
                            [number |-> filtered + j, window |-> Window(Outputs(n)[j])]]
       /\ filtered' = filtered + Len(Outputs(n))
       /\ history' = After(n)
       /\ phase' = (phase + n) % decim
       /\ rf' = SubSeq(rf, n + 1, Len(rf)) /\ consumed' = consumed + n
  /\ UNCHANGED <<audio, decim, chunk, filtering, taps, capacity, begun>>

-----------------------------------------------------------------------------
\* The newest k samples at sample s, without those from before a reset.
Newest(s, k) == [i \in 1 .. AtMost(k, s - begun.cleared) |-> s - i + 1]

\* However the samples are cut into calls, and whatever settings were tried in
\* vain, the filter runs over consecutive samples and every decim-th of them
\* makes an output, one for each element of the output span.
DecimatesRegularly ==
  [][consumed' > consumed =>
       /\ filtered' - filtered = (consumed' - consumed) \div chunk
       /\ \A j \in 1 .. filtered' - filtered :
            quad'[Len(quad) + j] =
              [number |-> filtered + j,
               window |-> Newest(begun.consumed + 1 + (filtered + j - 1 - begun.filtered) * decim, taps)]]_firVars
=============================================================================

-------------------------- MODULE TimeSeriesWindow --------------------------
(***************************************************************************)
(* detail::TimeSeriesWindow of the HTTP sink: the newest _windowSize       *)
(* frames of an interleaved stream, one ring per channel.  Every operation *)
(* holds _mutex throughout, so each is one step.                           *)
(*                                                                         *)
(* A sample is its position in the stream.                                 *)
(***************************************************************************)
EXTENDS Integers, Sequences, FiniteSetsExt

CONSTANTS
  DefaultChannels, DefaultWindow,  \* 1 and 1024 in the code
  MaxChunk,   \* bound: samples in one call of processBulk
  MaxSamples  \* bound: samples in a behaviour

ASSUME WindowBounds == MaxChunk \in Nat /\ MaxSamples \in Nat
ASSUME DefaultsAssumption == DefaultChannels \in Nat \ {0} /\ DefaultWindow \in Nat \ {0}

VARIABLES channels, windowSize, ring, pending, writeIndex, filled,
          position,  \* samples the stream has delivered
          received   \* history: samples pushed since the last configure

windowVars == <<channels, windowSize, ring, pending, writeIndex, filled, position, received>>

AtLeastOne(n) == IF n = 0 THEN 1 ELSE n

EmptyRing(c, w) == [ch \in 0 .. c - 1 |-> [i \in 0 .. w - 1 |-> 0]]

\* A window as constructed.
WindowInit ==
  /\ channels = DefaultChannels /\ windowSize = DefaultWindow
  /\ ring = EmptyRing(DefaultChannels, DefaultWindow)
  /\ pending = <<>> /\ writeIndex = 0 /\ filled = 0
  /\ position = 0 /\ received = <<>>

configure(c, w) ==
  /\ channels' = AtLeastOne(c) /\ windowSize' = AtLeastOne(w)
  /\ ring' = EmptyRing(channels', windowSize')
  /\ pending' = <<>> /\ writeIndex' = 0 /\ filled' = 0
  /\ received' = <<>>
  /\ UNCHANGED position

\* The ring after the whole frames of s were written, frame 0 at writeIndex.
\* Of the frames that fall on one slot the last stays.
Written(s) ==
  LET frames == Len(s) \div channels
      on(i)  == {f \in 0 .. frames - 1 : (writeIndex + f) % windowSize = i}
  IN  [ch \in 0 .. channels - 1 |->
        [i \in 0 .. windowSize - 1 |->
          IF on(i) = {} THEN ring[ch][i] ELSE s[Max(on(i)) * channels + ch + 1]]]

\* What is left of s when its whole frames are taken.
Rest(s) == SubSeq(s, (Len(s) \div channels) * channels + 1, Len(s))

pushInterleaved(input) ==
  LET all == pending \o input
      frames == Len(all) \div channels
  IN  /\ ring' = Written(all)
      /\ writeIndex' = (writeIndex + frames) % windowSize
      /\ filled' = Min({filled + frames, windowSize})
      /\ pending' = Rest(all)
      /\ received' = received \o input
      /\ UNCHANGED <<channels, windowSize>>

\* The next n samples of the stream.
NextSamples(n) == [i \in 1 .. n |-> position + i - 1]

\* processBulk: nothing for an empty span, everything is consumed.
processBulk ==
  \E n \in 1 .. MaxChunk :
    /\ position + n <= MaxSamples
    /\ pushInterleaved(NextSamples(n))
    /\ position' = position + n

\* Mutant: the oldest frame is looked for at slot 0.
oldest_Zero == 0

oldest == IF filled = windowSize THEN writeIndex ELSE 0

\* What snapshotJson() writes, channels first.
snapshot ==
  [ch \in 0 .. channels - 1 |->
    [i \in 1 .. filled |-> ring[ch][(oldest + i - 1) % windowSize]]]

-----------------------------------------------------------------------------
\* "Returned samples are oldest-to-newest in the current retained window": a
\* snapshot is exactly the newest whole frames pushed since configure(), oldest
\* first, however the stream was cut into calls.
SnapshotIsNewestFrames ==
  LET frames == Len(received) \div channels
      kept   == Min({frames, windowSize})
  IN  snapshot =
        [ch \in 0 .. channels - 1 |->
          [i \in 1 .. kept |-> received[(frames - kept + i - 1) * channels + ch + 1]]]

\* "Input is interpreted as interleaved multi-channel samples": while the
\* channel count stays, sample k of the stream is shown under channel k modulo
\* the channels.
SamplesOnTheirChannel ==
  \A ch \in DOMAIN snapshot : \A i \in DOMAIN snapshot[ch] : snapshot[ch][i] % channels = ch
=============================================================================

---------------------------- MODULE RtAudioSink -----------------------------
(***************************************************************************)
(* The sound card sink.  processBulk, in the flowgraph's thread, finds the *)
(* format in the tags of its span, opens or reopens the stream and pushes  *)
(* the span into a FIFO; the callback of RtAudio, in a thread of its own,  *)
(* pops what it plays.  Both hold the FIFO's mutex for one push or pop, so *)
(* that those are steps; the callback may run between opening and pushing. *)
(*                                                                         *)
(* processBulk is noexcept: an exception of opening ends the program.      *)
(***************************************************************************)
EXTENDS AudioEdge

CONSTANTS
  Fallbacks,      \* formats the settings may name, channels 0 for none
  IgnoreTagRate,  \* the setting ignore_tag_sample_rate
  FifoFrames,     \* frames the FIFO holds: target_latency_s or 4 frames_per_buf
  CallbackFrames, \* frames_per_buf
  MaxSinkStarts   \* bound: starts of the sink

ASSUME SinkAssumption ==
  /\ Fallbacks \subseteq Format
  /\ IgnoreTagRate \in BOOLEAN
  /\ FifoFrames \in Nat \ {0} /\ CallbackFrames \in Nat \ {0}
  /\ MaxSinkStarts \in Nat

VARIABLES
  started,        \* the block runs
  sinkStarts,
  fallback,       \* settings channels and sample_rate
  pending,        \* _pending_channels, _pending_sr
  format,         \* _channels, _sr
  stream_open,    \* _stream_open
  running,        \* RtAudio calls the callback
  buf, r, w, n,   \* _fifo
  span,           \* samples of the call of processBulk in progress, 0 between calls
  sound,          \* what the callback put out last
  crashed         \* std::terminate

fifoVars == <<buf, r, w, n>>
sinkVars == <<started, sinkStarts, fallback, pending, format, stream_open, running, fifoVars, span, sound, crashed>>

NoFormat == [channels |-> 0, rate |-> 0]

capacity == FifoFrames * format.channels
Wrap(i, size) == IF i >= size THEN i - size ELSE i

SinkInit ==
  /\ started = FALSE /\ sinkStarts = 0
  /\ fallback \in Fallbacks
  /\ pending = NoFormat /\ format = NoFormat
  /\ stream_open = FALSE /\ running = FALSE
  /\ buf = <<>> /\ r = 0 /\ w = 0 /\ n = 0
  /\ span = 0 /\ sound = <<>> /\ crashed = FALSE

SinkStart ==
  /\ ~ started /\ sinkStarts < MaxSinkStarts
  /\ started' = TRUE /\ sinkStarts' = sinkStarts + 1
  /\ stream_open' = FALSE /\ running' = FALSE
  /\ format' = NoFormat /\ pending' = fallback
  /\ UNCHANGED <<edge, fallback, fifoVars, span, sound, crashed>>

\* stop(): close_stream().
SinkStop ==
  /\ started /\ span = 0
  /\ started' = FALSE
  /\ stream_open' = FALSE /\ running' = FALSE
  /\ UNCHANGED <<edge, sinkStarts, fallback, pending, format, fifoVars, span, sound, crashed>>

\* What the tags of the first k samples leave in the pending format.
Tagged(k) == {i \in 1 .. k : edge[i].tag # NoTag}
Scanned(k) ==
  IF Tagged(k) = {} THEN pending
  ELSE LET last == CHOOSE i \in Tagged(k) : \A j \in Tagged(k) : j <= i
       IN  [edge[last].tag EXCEPT !.rate = IF IgnoreTagRate THEN pending.rate ELSE @]

ready_to_open(p) == p.channels > 0 /\ p.rate > 0

MustOpen(p) == IF stream_open THEN p # format ELSE ready_to_open(p)

\* A call begins: scan_format_tags_, and no need to open.
Scan ==
  /\ started /\ span = 0
  /\ \E k \in 1 .. Len(edge) :
       /\ ~ MustOpen(Scanned(k))
       /\ pending' = Scanned(k)
       /\ span' = k
  /\ UNCHANGED <<edge, started, sinkStarts, fallback, format, stream_open, running, fifoVars, sound, crashed>>

\* The same with open_or_reopen_stream_.  RtAudio may not open the stream, and
\* says so by an exception or, in its newer versions, by a value nobody reads.
ScanAndOpen ==
  /\ started /\ span = 0
  /\ \E k \in 1 .. Len(edge) :
       /\ MustOpen(Scanned(k))
       /\ pending' = Scanned(k) /\ format' = Scanned(k)
       /\ span' = k
       /\ buf' = [i \in 0 .. FifoFrames * Scanned(k).channels - 1 |-> Silence]
  /\ r' = 0 /\ w' = 0 /\ n' = 0
  /\ \/ stream_open' = TRUE /\ running' \in BOOLEAN /\ crashed' = FALSE
     \/ stream_open' = FALSE /\ running' = FALSE /\ crashed' = TRUE
  /\ UNCHANGED <<edge, started, sinkStarts, fallback, sound>>

Drop ==
  /\ span > 0 /\ ~ stream_open
  /\ edge' = From(span)
  /\ span' = 0
  /\ UNCHANGED <<started, sinkStarts, fallback, pending, format, stream_open, running, fifoVars, sound, crashed>>

\* Sample j of a push goes to index w + j - 1, around the end.
Slot(i) == IF i >= w THEN i - w + 1 ELSE i - w + capacity + 1

\* Mutant: the whole span is consumed.
Push_ConsumeAll ==
  /\ span > 0 /\ stream_open
  /\ LET k == Smaller(capacity - n, span) IN
       /\ buf' = [i \in DOMAIN buf |-> IF Slot(i) <= k THEN edge[Slot(i)].data ELSE buf[i]]
       /\ w' = Wrap(w + k, capacity) /\ n' = n + k
       /\ edge' = From(span)
  /\ span' = 0
  /\ UNCHANGED <<started, sinkStarts, fallback, pending, format, stream_open, running, r, sound, crashed>>

\* FIFO::push: what does not fit stays in the input.
Push ==
  /\ span > 0 /\ stream_open
  /\ LET k == Smaller(capacity - n, span) IN
       /\ buf' = [i \in DOMAIN buf |-> IF Slot(i) <= k THEN edge[Slot(i)].data ELSE buf[i]]
       /\ w' = Wrap(w + k, capacity) /\ n' = n + k
       /\ edge' = From(k)
  /\ span' = 0
  /\ UNCHANGED <<started, sinkStarts, fallback, pending, format, stream_open, running, r, sound, crashed>>

\* Mutant: frames are taken for samples.
need_Frames == CallbackFrames

need == CallbackFrames * format.channels

\* rtaudio_cb, with FIFO::pop.
Callback ==
  /\ running
  /\ LET got == Smaller(n, need) IN
       /\ sound' = [i \in 1 .. need |-> IF i <= got THEN buf[Wrap(r + i - 1, capacity)] ELSE Silence]
       /\ r' = Wrap(r + got, capacity) /\ n' = n - got
  /\ UNCHANGED <<edge, started, sinkStarts, fallback, pending, format, stream_open, running, buf, w, span, crashed>>

processBulk == Scan \/ ScanAndOpen \/ Drop \/ Push

-----------------------------------------------------------------------------
\* The samples in the FIFO, the next to be played first.
Contents == IF stream_open THEN [i \in 1 .. n |-> buf[Wrap(r + i - 1, capacity)]] ELSE <<>>

Queue == INSTANCE AudioQueue WITH input <- edge, queue <- Contents, on <- stream_open
=============================================================================

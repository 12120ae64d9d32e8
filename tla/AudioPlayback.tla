---------------------------- MODULE AudioPlayback ----------------------------
(***************************************************************************)
(* The flowgraph of examples/audio_playback.cpp: an AudioFileSource        *)
(* connected to an RtAudioSink.  One thread calls the blocks, another the  *)
(* callback; either block may be stopped, and the source started again     *)
(* with another file.                                                      *)
(***************************************************************************)
EXTENDS AudioFileSource, RtAudioSink

vars == <<edge, sourceVars, sinkVars>>

Init == edge = <<>> /\ SourceInit /\ SinkInit

\* The scheduler makes one call at a time, and between the calls changes states
\* and settings.
BetweenCalls == span = 0

Source == SourceStart \/ SourceStop \/ SetSettings \/ SourceWork

Sink == SinkStart \/ SinkStop \/ processBulk \/ Callback

Next ==
  /\ ~ crashed
  /\ \/ BetweenCalls /\ Source /\ UNCHANGED sinkVars
     \/ Sink /\ UNCHANGED sourceVars

Spec == Init /\ [][Next]_vars

WorkOfSource == ~ crashed /\ BetweenCalls /\ SourceWork /\ UNCHANGED sinkVars
WorkOfSink == ~ crashed /\ processBulk /\ UNCHANGED sourceVars
CallbackRuns == ~ crashed /\ Callback /\ UNCHANGED sourceVars

\* The thread calls the blocks in turn, again and again; the callback is called
\* while the stream runs.
FairSpec == Spec /\ SF_vars(WorkOfSource) /\ WF_vars(WorkOfSink) /\ WF_vars(CallbackRuns)

-----------------------------------------------------------------------------
\* Whatever the two threads do, and however often the FIFO wraps, fills up or
\* runs empty: samples are played in order, once each, and those that wait are
\* given up for another format only, not for the start tag of every pass.
QueueSafety == Queue!Spec

\* The samples in the connection are consecutive but for the first of a pass, which
\* has the tag, and the count compared with the length is that of the pass.
PassesJoin ==
  /\ \A i \in 2 .. Len(edge) :
       edge[i].tag = NoTag => edge[i].data = [edge[i - 1].data EXCEPT !.position = @ + 1]
  /\ \A i \in DOMAIN edge : edge[i].tag # NoTag =>
       /\ edge[i].tag = FormatOf(edge[i].data.file)
       /\ edge[i].data.position % edge[i].data.file.channels = 0
       /\ (\A j \in i + 1 .. Len(edge) : edge[j].tag = NoTag) /\ emittedStart
             => Len(edge) - i + 1 = totalSamplesFile
  /\ reader # NoFile /\ emittedStart /\ edge # <<>> =>
       edge[Len(edge)].data = [file |-> reader, position |-> frame * reader.channels - 1]

\* A pass is published from the frame the offset of the start is in, or, when the
\* file is played again, from its beginning.
PassBegins ==
  \A i \in Len(edge) + 1 .. Len(edge') : edge'[i].tag # NoTag =>
    /\ edge'[i].data.file = reader
    /\ IF passes = 0 THEN startOffset - edge'[i].data.position \in 0 .. reader.channels - 1
       ELSE edge'[i].data.position = 0

\* What the source publishes are passes of its file, each tagged on its first
\* sample and there only: the first from the offset, the others from the
\* beginning, however they are cut into calls and whatever settings change.
PassesInOrder == [][PassesJoin' /\ PassBegins]_vars

\* What is to be played without reopening: the FIFO and the input up to a tag
\* with another format.
Following ==
  LET others == {i \in DOMAIN edge : edge[i].tag \notin {NoTag, format}}
      k      == IF others = {} THEN Len(edge) ELSE (CHOOSE i \in others : \A j \in others : i <= j) - 1
  IN  Contents \o [i \in 1 .. k |-> edge[i].data]

OfFormat(d) == FormatOf(d.file) = format
ChannelOf(d) == d.position % d.file.channels

\* The samples in the stream's format will be played on their channels.
InStep ==
  stream_open => \A i \in DOMAIN Following :
    OfFormat(Following[i]) => ChannelOf(Following[i]) = (i - 1) % format.channels

\* The callback finds a part of a frame, and fills the frame up.
TornUnderrun == n < need /\ n % format.channels # 0 /\ n' = 0

\* The stream opens at a sample that does not begin a frame: samples before the
\* tag that opens it, or after those dropped before.
OpensInsideFrame == span = 0 /\ span' > 0 /\ n' = 0 /\ ChannelOf(edge[1].data) # 0

\* Samples from before the tag that opened the stream are played in its format.
HoldsOtherFormat == \E i \in DOMAIN Following : ~ OfFormat(Following[i])

\* Channels are exchanged by these three events and nothing else; no pass, stop,
\* full FIFO or end of a length does it.
FallsOutOfStepOnly ==
  [][InStep /\ ~ InStep' => TornUnderrun \/ OpensInsideFrame \/ HoldsOtherFormat']_vars

\* A source that does not repeat comes to its end, unless its length is no
\* multiple of the channels, and a sink that runs plays out or drops everything.
Completes ==
  <>[](started /\ (stream_open => running)) =>
    <>[](crashed \/ /\ edge = <<>> /\ Contents = <<>>
                    /\ settings.repeat \/ reader = NoFile \/ Stuck)
=============================================================================

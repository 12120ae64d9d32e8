# gr4-incubator in TLA+

TLA+ modules for the stateful parts of gr4-incubator, TLC configurations that
check them on small instances, and TLAPS proofs of what holds for every
instance. Every definition is translated from the source; `PROJECT.json`
("map") names the lines each one stands for.

Check a module with `tlc -config X.cfg M.tla`, the proofs with
`tlapm M_proofs.tla`. The configuration of each run is in [Runs](#runs).

## The system

gr4-incubator is a collection of header-only blocks for GNU Radio 4, a
scheduler, a PMT codec and example flowgraphs. A *block* has settings, a
lifecycle (`start`, `stop`, `settingsChanged`) and a work function
(`processBulk` or `processOne`) which the scheduler calls with spans of input
and output and which consumes and publishes a part of them. All calls into a
block come from one worker at a time. Between the blocks there are only streams
of items with tags on some of them, so the blocks interact through the
scheduler and, across processes, through ZeroMQ.

The run-time library (`gr::Block`, ports, `gr::SchedulerBase`, settings),
libzmq, cpp-httplib, RtAudio, SoapySDR and the standard library are other
projects. Where a module needs what they do, it has actions for it, modelled
from how the code here uses them.

Concurrency is in four places: the worker threads of the scheduler and whoever
edits the graph (`BlockingBackoff`), the request threads of the HTTP sink, the
audio callback of `RtAudioSink`, and the processes at the two ends of a ZeroMQ
socket. The rest of the difficulty is in how one stream is cut up: into calls,
chunks, messages, frames and passes that never line up.

### Components

*BlockingBackoff scheduler* (`schedulers/.../BlockingBackoff.hpp`).
State: a list of job lists, and of each worker its block list, message cycle
count, inactive cycle count and sleep; shared with `SchedulerBase` the
lifecycle state, the message ports, `_nRunningJobs`, `_nWorkersInWork`,
`_workQuiescenceRequested`, the adoption and zombie lists. Operations:
`customInit`, `poolWorker`, `updateBackoff`. Hard: every access of N workers
interleaves with the others and with an editor that quiesces them; workers act
on a lifecycle state read a while ago; restarts deal the graph anew. Correct
if: an edit excludes every traversal and is granted; one worker reads the
scheduler's messages and reads them all; a block belongs to one worker; stopped
workers return; the sleep follows its schedule.

*HttpTimeSeriesSink* (`blocks/http`). State: a ring per channel, a pending
partial frame, the listening server with its thread. Operations: `configure`,
`pushInterleaved`, `snapshotJson`; `start`, `stop`, `settingsChanged`,
`processBulk`; of the service `start`, `stop` and the request handler. Hard:
snapshots are taken by request threads between any two operations; frames are
split over calls; a rebind waits for requests and may fail. Correct if: a
snapshot is the newest whole frames, oldest first, with channels aligned; no
request outlives the server; the server is the one the settings ask for.

*ZeroMQ blocks* (`blocks/zeromq`): push/pull, pub/sub and req/rep. State: items
and tags retained from one call to the next, a pending request, sockets.
Operations: `start`, `stop`, `processBulk` of six blocks. Hard: messages and
spans of different sizes, tags counted from an item, refused sends, dropped
messages, malformed messages, replies that come after their call timed out.
Correct if: items come out in order, once, each with its tags; requests are
answered.

*SigMF source* (`blocks/sigmf`). State: window and position in the data file, a
tag schedule and its index. Operations: `start`, `stop`, `processBulk` with
`emitReadyTags`, `nextReadSize` and `seekToSample`. Hard: windows, spans and
tags cut each other; the index has to stay in step with the position over
passes; the file may change. Correct if: the selected window is played pass
after pass, each tag once a pass, on its sample.

*RtAudio sink* (`blocks/audio/.../RtAudioSink.hpp`). State: the sample FIFO, the
stream, the pending and the current format. Operations: `start`, `stop`,
`processBulk` with `scan_format_tags_` and `open_or_reopen_stream_`, the callback
`rtaudio_cb`. Hard: the callback runs between any two steps of `processBulk`;
the FIFO fills up and runs empty inside frames; a tag reopens the stream while
samples wait. Correct if: samples are played in order and once, and on their
channels.

*Audio file source* (`blocks/audio/.../AudioFileSource.hpp`). State: the open
decoder and its position, the count of the pass, whether the start tag is out.
Operations: `start`, `stop`, `processBulk`, `handle_eof_or_length`. Hard: the
end of a span, of the length and of the file cut each other; settings change
inside a pass. Correct if: it plays passes, each tagged once, and ends.

*SoapySDR source* (`blocks/soapysdr`). State: device, stream, overflow count.
Operations: `start`, `stop`, `settingsChanged`, `processBulk`. Hard: every call
into the driver may throw, with the opening half done. Correct if: no device is
lost or closed twice and overflows are counted to their limit.

*FIR decimator* (`blocks/filter`). State: taps, history, phase. Operations:
`start`, `settingsChanged` with `updateFilter`, `processBulk`. Hard: settings
that come one by one and cannot all be met; reconfiguration between chunks.
Correct if: the output does not depend on the chunks.

*PFB arbitrary resampler* (`blocks/pfb`). State: filter index, accumulator,
history buffer. Operations: `settingsChanged`, `processBulk`, `filter` of the
kernel. Hard: a call stops for want of input or of output, anywhere in the bank;
the history has to hold what is left over. Correct if: outputs are evenly spaced
in time and no sample is skipped.

*PMT codec* (`algorithm/pmt_converter`). No state; nesting, widening and lengths.
Correct if: it is a round trip up to the widening, and refuses what is cut short.

*Small blocks* (`VectorSource`, `VectorSink`, `PeakDetector`, `MovingAverage`,
`StreamToPmt`, `SNRSteppedAWGN`, `HistogramSink`, ...): counters and buffers.

`PROJECT.json` lists all of them with what is modelled, and the hazards, each
at its line with the properties that are about it.

## Modules

| Module | What it is |
|---|---|
| `BlockingBackoff` | the scheduler, one action per access to shared state |
| `MCBlockingBackoff` | instances for TLC |
| `BlockingBackoff_proofs` | proofs about `BlockingBackoff` |
| `TimeSeriesWindow` | the window of the HTTP sink |
| `HttpTimeSeriesSink` | the block and its service, EXTENDS the window |
| `HttpTimeSeriesSink_proofs` | proofs about the service and the window |
| `Tags` | the tags of a stream in a row: shifted, cut, re-based, carried by items |
| `TaggedStream` | abstract: items in order, tags on their items |
| `ZmqSource` | what the three sources have in common |
| `ZmqStream` | push/pull and pub/sub, EXTENDS `ZmqSource` |
| `ZmqReqRep` | req/rep with other clients, EXTENDS `ZmqSource` |
| `MCZmqStream`, `MCZmqReqRep` | instances for TLC |
| `ZmqStream_proofs`, `ZmqReqRep_proofs` | proofs: no item is lost, both implement `TaggedStream` |
| `Playback` | abstract: playing a recording |
| `SigMfSource` | the SigMF source |
| `MCSigMfSource`, `SigMfSource_proofs` | instance for TLC; proofs: the source implements `Playback` |
| `LegacyPmt` | the PMT codec, as operators |
| `ZmqTagHeader` | the tag header of a message, over a chain of relays, EXTENDS `LegacyPmt` |
| `MCZmqTagHeader` | instance for TLC: values of every type |
| `AudioEdge` | the connection between an audio source and its sink |
| `AudioQueue` | abstract: what is played, in order |
| `AudioFileSource`, `RtAudioSink` | the two audio blocks, over `AudioEdge` |
| `AudioPlayback` | the flowgraph of the two, EXTENDS both |
| `AudioPlayback_proofs` | proofs: the FIFO implements `AudioQueue`, the source plays passes, channels are kept |
| `MCAudioPlayback` | instance for TLC |
| `ReceiverEdges` | the connections of a receiver |
| `SoapyRx`, `FirDecimator`, `PfbArbResampler` | the blocks of a receiver, over `ReceiverEdges` |
| `Receiver` | the three in a row, EXTENDS them |
| `MCReceiver` | instances for TLC |
| `Receiver_proofs` | proofs about the source, the resampler and the decimator |
| `CommonLemmas` | lemmas the proof modules share |

### Scheduler

A worker's `pc` is the place in `poolWorker()`; each action is one access to
what it shares, in the order of the code:

| pc | action | code |
|---|---|---|
| enter, copy | `Enter`, `CopyJobList` | `_nRunningJobs` up, the job list copied, the state read |
| poll | `PollMessages`, `SkipMessages` | `hasMessagesToProcess`; if not, the cycle count goes on |
| serve, adopt, refresh | `ProcessScheduledMessages`, `AdoptBlocks`, `RefreshState` | the poll |
| gate | `CheckQuiescence`, `SleepNotRunning` | RUNNING and no quiescence, or a sleep |
| enterWork, recheck | `EnterWork`, `BackOut`, `BeginTraverse` | counted in, the flag read again |
| traverse, leaveWork | `EndTraverse`, `LeaveWork` | `traverseBlockListOnce`, `updateBackoff` |
| backOut | `LeaveBackOut` | counted out without a traversal |
| fail, exit | `Fail`, `Exit` | ERROR; the worker returns |
| tail | `Continue` | sleep, reload the state, loop while it is active |

The environment is `SchedulerBase` and its users: `ChangeState`, `Restart`
(the scheduler is initialised again and `customInit` deals the graph as it is
now), `PostMessage`, `RequestQuiescence`, `AwaitQuiescence`,
`ReleaseQuiescence`, and edits under quiescence, `EmplaceBlock` and
`RemoveBlock`. The constant `Environment` says which of them a run has. What
blocks do in a traversal is its result alone.

Memory accesses are taken to be sequentially consistent. In the code the looks at
the flag are acquire loads, and the count is raised by a `fetch_add` of
`gr::atomic_ref`, whose order, like the editor's store of the flag and look at the
count, is in the run-time library. The mutual exclusion needs each side's write
to be seen before its own look at the other's variable; that these accesses
are ordered so is assumed, not checked. The message cycle count is unbounded in the code while messages keep coming;
it is only reduced modulo the ratio and compared with 0, so the model keeps a
representative in `1 .. MessageRatio`. `late` is history: the traversals a
worker has begun since RUNNING was left.

### HTTP sink

A sample is its position in the stream. All operations of the window hold its
mutex from beginning to end and are one step each; `snapshot` is what
`snapshotJson` writes. The service is not atomic: `stop()` refuses new requests
(`StopListening`) and joins the thread, which waits for the handlers
(`FinishStop`, `Bind`, `BindFails` have the guard `joined`); meanwhile handlers
take their time in the provider (`Get`, `Respond`). The settings may be
changed before the block is started, as the library does with those a block is
made with, so that a server can be there before `start()`; `stop` stands for the
destructor too. As the model has the handler's snapshot at any moment, a property of `snapshot` in every state is a
property of every response. The text of the JSON is left out.

### ZeroMQ

An item is its position in the input stream, a message carries its items and the
tags of its header. A call of a source is `OpenSpan` (the retained items first),
any number of receives (`Take`), and `Return` or, for an exception, `Throw`: the
other side runs in between. `TakeScalars` cuts a message that does not fit and
retains the rest with its tags re-based; `TakeOne` is for vectors and PMTs.

`ZmqStream` has one pipe. The sink sends a span of scalars as one message
(`SendScalars`) and vectors and PMTs one by one, with the header made for the
whole span (`BeginSpan`, `SendItem`, `SendRefused`). PUSH and PUB differ in what
a socket without room or without a peer does (`writable`, `Sends`, `Send`).
Malformed messages come from elsewhere (`Stranger`); which of them a source
reports as an error after publishing, and which end it by an exception, differs
between the sources (`ReportsError`).

`ZmqReqRep` has the request that stays pending over calls, replies that come in
a later call with less room, the alternation of the REP socket (`owes`) and
other clients of the same sink. `SinkRestart` ends the process of the sink and
puts another in its place, at any point of either side's call: the request, the
reply on its way and the items the sink held are gone, the source knows nothing
of it.

`LegacyPmt` writes and reads values byte by byte, for that is what the codec is.
A byte has `Radix` values, so that the limits of a length of two bytes are within
reach. A reader returns its value and the rest of the bytes, or `Throws`; `Then`
puts two readers in sequence. `ZmqTagHeader` sends the tags of a span
(`collect_tag_records`, `serialize_tag_header`) to a source that publishes them
(`parse_tag_header`, `Published`) for a sink that sends them on: `Send` and
`Receive`, `hops` times.

### SigMF source

Sample n is the number n. `Start` measures the file, chooses the window and
sorts the events in it into a schedule. `ProcessBulk`, `Finish`, `ReadChunk`,
`ShortRead` and `Publish` are the work function, an iteration of its loop a
step: the rewind at the end of the window (`From`, `FromTag`), the tags due at
the position (`EmitReadyTags`), the read up to the next tag (`NextReadSize`).
In between, `CutShort` makes the file shorter. A read behind its end fails or
may still be served from the stream's buffer. Settings change between calls
(`SetSettings`). `out` is what was published since `start()`, each sample with
its tags. Decoding and the contents of tags are left out. `std::stable_sort` is
the constant operator `StableSort`: in the instance it takes the tags one offset
after the other, for the proofs it is any that orders the tags by offset and keeps the
order of those with the same offset (`SortAssumption`).

The exception of `SigMfSource.hpp:81-83` for an offset behind the end of the
file has no action: the start of the window is the minimum of offset and size
two lines before, so it is never thrown, and such an offset gives an empty
window.

### Audio

A sample is a file and a position in it. `AudioEdge` holds what the source has
published and the sink has not consumed. The source's calls are one step each:
`LengthReached` and `Read`, which end in `Rewind` or `Finish`. The library calls a source
only with room for output (`Called`), so that it is the length that leaves nothing to
deliver. `startOffset` is history: the offset `start()` read. The sink's calls are
several steps, as the callback may come in between:

| step | code |
|---|---|
| `Scan`, `ScanAndOpen` | the tags of the span, and the stream opened or reopened; RtAudio may throw, which ends the program, or open nothing that ever calls back |
| `Drop` | no stream: the span is consumed |
| `Push` | what fits goes into the FIFO and is consumed |
| `Callback` | `rtaudio_cb`: what is there is played, filled up with zeros |

The FIFO is the ring of the code (`buf`, `r`, `w`, `n`). It is protected by a
mutex, so that a push and a pop are steps. The decoder of the file delivers whole
frames; that the three decoders do so, and stop at the end of the file, is how the
code uses them.

### Receiver

`Receiver` is the chain of `fm_demodulator_cli` with the blocks that take one
sample at a time left out. Received sample k is the number k. `SoapyRx` counts the
devices and streams that exist beside the pointers the block has to them; each of
the driver's calls in `openDevice` and `closeDevice` may throw, which leaves the block in an
error state that `Reset` ends, without a `stop`; a call that throws is taken to have done nothing. `FirDecimator` knows an output by its
number and the samples it is computed from; `updateFilter` is the case where taps
can be had for the settings, `KeepFilter` the one where not. `PfbArbResampler`
knows an output by the newest sample of its window, the filter and the fraction:
all of the kernel's control and none of its products. The rate is
`RateUp / down`, so that the fraction is a whole number of `1 / RateUp`; the code
adds up a double, whose rounding is left out. The history buffer holds
consecutive samples, so its contents are its first position and its size.

## Runs

| Run | Instance | Shows |
|---|---|---|
| `scheduler_sync` | `MCBlockingBackoff_sync.cfg`: 2 workers, 2 blocks, an editor, lifecycle changes, messages | `QuiescedExclusive`, `SingleMessageReader`, `AtMostOneLateTraversal`, the invariant of the proofs; `QuiescenceGranted`, `WorkersDrain`, `MessagesServed` |
| `scheduler_edits` | `MCBlockingBackoff_edits.cfg`: 2 workers, 3 blocks, 2 of them in the graph at first, edits, failures and restarts, sleeps of 2, 4 and 5 | `BlocksRunOnce`: no block is in two workers' hands; `EveryBlockHasRunner`: none is forgotten; `BackoffSchedule`: the sleep is a function of the run of idle cycles; `PollBoundsBackoff`: the message poll bounds that run |
| `http_sink` | `HttpTimeSeriesSink.cfg`: channels 0, 1 (the default), 2, 3, windows of 1, 2 (for the default) and 3, pushes of up to 4 samples, 2 addresses, 2 requests at a time | `SnapshotIsNewestFrames`, `NoHandlerWithoutServer`, `ServesItsSettings`, `CallsReturn` |
| `http_reconfigure` | `HttpTimeSeriesSink_reconfigure.cfg` | *violated*: `SamplesOnTheirChannel` |
| `zmq_stream` | `MCZmqStream.cfg`: push and pub, three kinds of item, 5 items with 3 tags, both sides up to 3 items a call, a pipe of 2 messages, one malformed message | `NothingLost`, `TaggedStreamSafety`, `EverythingArrives` |
| `zmq_tags` | `MCZmqStream_tags.cfg` | *violated*: `TagsOnTheirItems` |
| `zmq_req_rep` | `MCZmqReqRep.cfg`: the same stream, one request of another client, for 0 or 4 items, two ends of the sink | `OneRequestOutstanding`, `SplitAmongClients`, `TaggedStreamSafety`, `RequestsAnswered` |
| `zmq_tag_header` | `MCZmqTagHeader.cfg`: values of every type, containers two deep, up to two tags, three messages in a row | `HeaderRoundTrip`, `PartRefused`, `RelayUnchanged` |
| `sigmf_source` | `MCSigMfSource.cfg`: a file of 4 samples, events at 0, 1 (two) and 3, offsets 0, 1 and 4, lengths all, 1 and 2, spans up to 3 | `TagsWithTheirSamples`, `OkFillsSpan`, `FailsOnlyIfCutShort`, `PlaysSelectedWindow`, `Completes` |
| `audio_playback` | `MCAudioPlayback.cfg`: a stereo and a mono file of 2 frames, offset 1, length none and 3, a FIFO of 2 frames, a connection of 3 samples, two starts of each block | `PassesInOrder`: passes are consecutive and begin where they should; `QueueSafety`: the sink implements `AudioQueue`; `FallsOutOfStepOnly`: channels are exchanged in three named events only; `Completes` |
| `receiver` | `MCReceiver.cfg`: 8 samples, decimations 0, 1, 2, filters of 1 and 3 taps, rates 2, 4/3 and 4/5, 4 changes of any kind | `OneDevice`, `GivesUpAtLimit`, `DecimatesRegularly`, `EvenlySpaced`, `LosesOnlyIfRounded` |
| `pfb_backlog` | `MCReceiver_backlog.cfg`: 14 samples at the rate 4/3 | *violated*: `NothingSkipped` |

Deadlock is checked in the runs of the scheduler, the HTTP sink, the streams of
ZeroMQ items and the SigMF source, where the blocks are called again and settings
change for ever. The runs of audio, receiver and tag headers stop at their bounds
and at the end of the program.

### The bounds

*Scheduler.* Two workers give every pair of accesses in every order; a third
adds no new kind of pair, and the properties that quantify over workers are
proved for any number. The backoff is turned off (0 settings) in
`scheduler_sync`, as a sleep is a step that takes any time anyhow. In
`scheduler_edits` the limit, 5, is no doubling of 2, so that it cuts a step short.
A block is removed, comes back and is dealt to the other worker; a third block
lets a running worker adopt one while both lists are taken. A step treats blocks
alike and the properties do not name one, so that states which differ in the names
of blocks are explored once (`BlockSymmetry`).

*HTTP.* A window of 3 frames of 2 or 3 channels and pushes of 4 samples over 11
samples: pushes end inside frames, fill the window, wrap, and overwrite the
whole of a window of 1 within one push. 0 channels is raised to 1 by the code.
Two handlers: one in the provider while another comes.

*ZeroMQ.* Messages of up to 3 items against spans of 1 to 3: a message fits,
is cut, and is cut twice; retained items fill a span whole. Two tags on one
item and one on the last. A pipe of 2 messages fills up within a span.

*SigMF.* Spans of 3 and windows of 1, 2, 3, 4 and 0 samples give spans that hold
several passes and passes that take several spans. Events lie at the first and
last sample of windows, just outside them, and inside a window of an offset.
`MaxOut` bounds the history of a repeating source, nothing else: with repeat off
the source comes to its own end.

*Tag headers.* A byte has 16 values: the longest string, 255, is the longest that
two bytes can say, and numbers of two bytes already have a sign to extend. Two tags
and a payload show whether one header eats from what follows it. Containers nest
two deep: the readers call themselves, so that deeper adds the same call again.

*Audio.* A FIFO of 2 frames wraps within a push and is filled by one span; a
connection of 3 samples makes spans that end inside a stereo frame; a length of 3
is no whole number of stereo frames and an offset of 1 begins inside one. The
second start of a block, and the second file, give every change between formats.

*Receiver.* The chunks of the resampler (1024 in the code) are 2 and its guard
(128) is 1, which keeps their order: a chunk is more than the guard and less than
two chunks. Rates on both sides of 1, whole and rounded by the chunks. `MaxChanges`
allows four of start, stop, reset and changed settings, so that a failed start, a
reset, a start that goes on with what is left and a change of settings are all in
one behaviour. The model assumes filters no shorter than what one output moves on
by (`LongFilters`), as the designed taps are.

### Fairness

*Scheduler:* weak fairness of every worker (pool threads run, and a traversal
returns) and of `AwaitQuiescence` and `ReleaseQuiescence` (an editor
waits for the count to be 0, and releases the workers when it has edited). `AwaitQuiescence` has
weak fairness although workers may count themselves in and out meanwhile: that
they stop to do so once the flag is up is what `QuiescenceGranted` shows.
`MessagesServed` has the escape that runner 0 has returned: then nobody reads
the scheduler's messages, which the run would otherwise show.

*HTTP:* handlers return, and the block's thread goes on after a join. Nothing is
assumed of requests coming or of settings changing.

*ZeroMQ:* the schedulers keep calling both blocks and a call returns (weak). A source is
called until a call of it fails: an error it reports puts its scheduler into ERROR as an exception
does (`ended`), and what comes after is excepted by `EverythingArrives`. A
message in the pipe is received, and a request made and answered, within one of
the polls: strong fairness, as a single poll may time out. Nothing is assumed of
restarts, which are bounded; `RequestsAnswered` excepts the source whose request or
reply was lost with a sink, which the code leaves waiting.

*SigMF:* the scheduler calls the block again and again with room for output.
`Completes` asks for repeat to be off for good, and lets a failure or a stop
come first.

*Audio:* the thread of `examples/audio_playback.cpp` calls both blocks in turn for
ever, so that the sink works (weak). The source works strongly fairly: that it
cannot while a call of the sink is under way does not keep it from its turn. The
callback is called while the stream runs (weak). `Completes` asks for a sink that
runs and a stream that calls back, in the end.

The receiver and the tag headers have safety properties only.

## Proofs

`tlapm` checks them for every value of the constants under the assumptions the
modules name: at least one thread, distinct blocks in the graph, a message ratio
that is not 0 (the code computes modulo it), natural numbers for the settings
(`ThreadsAssumption`, `GraphAssumption`, `SettingsAssumption`,
`BoundsAssumption`); an address that stands for none and defaults that are not 0
(`SinkAssumption` of the HTTP sink, `DefaultsAssumption`);
audio files with a channel and a rate, FIFO and callback of at least a frame, and
a connection that holds a frame (`EdgeAssumption`, `TagAssumption`,
`FilesAssumption`, `SinkAssumption` of the audio sink);
sizes that are natural numbers (`WindowBounds`, `SizesAssumption`,
`SourceAssumption`, `OthersAssumption`, `SoapyAssumption`, `FirAssumption`); of the
resampler rates, filters and chunks that are not 0 (`PfbAssumption`); tags of the
input stream with offsets that are natural numbers and ascend (`SourceAssumption`),
as a port publishes them; events of a recording with such offsets, in any order
(`SizesAssumption` of the SigMF source); and that `std::stable_sort` is a stable sort
(`SortAssumption`). That filters are long enough (`LongFilters`) is assumed by the model and used by no proof.

`BlockingBackoff_proofs`:
- `TypeCorrect`: `Spec => []TypeOK`, and `Invariance`: `Spec => []IInv`.
  Mutual exclusion is not inductive: that an editor has the graph says
  nothing of a worker that is just about to begin. `IInv` adds that the flag is
  up exactly while an editor wants or has the graph, so that a worker at its
  second look backs out, and that `_nWorkersInWork` is the number of workers in
  the counted section (`CountersExact`), so that the editor's 0 means that
  nobody is there. That `_nRunningJobs` is exact gives the one reader: a worker
  at the poll is counted itself, so it never sees 0.
- `QuiescenceExcludesWorkers`, `OneReaderOfMessages`: from `IInv`.
- `LateTraversals`: by `LateInv`, which adds to the bound where a worker with a
  late traversal can be: it has yet to pass the point that reloads the state, or
  has, and the state it holds is not RUNNING.
- `OneRunnerPerBlock`: that two workers never have the same block says nothing of
  the block one of them is about to take. `ShareInv` adds where else a block can
  be: the job lists are disjoint, a runner that has yet to copy its list has
  nothing, and no job list or adoption list has what another runner has. A removal
  and a new deal of the graph keep it, since a graph has each block once.
- `NoBlockForgotten`: that every block has a runner (`EveryBlockHasRunner`) needs that
  what a runner is about to drop is not in the graph (`RunnerInv`), since a block
  that was removed may come back only when nobody holds it; and that the lists
  `customInit` deals cover the graph (`JobListsCover`).
- `CyclesCounted`, `RunsAreBounded`, `SleepsAsScheduled`: `CycleInv` ties the count of
  idle cycles to the count of message cycles at each place of the loop, one more
  behind a traversal than before it, so that the poll comes in time; and the sleep to
  the count. Doubling is a recursive function (`PowerOfTwo`), and the schedule is
  shown to be followed by induction over the count.

`HttpTimeSeriesSink_proofs`: `HandlersHaveServer` and `ListensAsConfigured` for
any number of requests and addresses, by `ServiceInv`, which adds that the
server takes requests only between calls and that the window always has the shape
of the settings. `SnapshotsAreNewest` is about the window, for every number of
channels, size and cut of the stream: what a snapshot shows is not inductive, as it
forgets at which slot the next frame goes and what is pending. `WindowInv` is
`HoldsNewest`: frame `f` of the samples received is in slot `f` modulo the window,
the write index is the number of frames modulo the window, and the pending samples
are the rest of the division by the channels. A push of more frames than there are
slots writes some slots several times; that the last frame written to a slot is the
one that belongs there needs that two frames less than a window apart never meet
(`Apart`), and the order in which the slots are read that a full turn changes
nothing (`FullTurn`).

`ZmqStream_proofs`: `EveryItemKept`, for every pipe, span and cut into messages. The
items published, in the span, retained and on their way are one run of consecutive
positions (`StreamInv`). For a step of the source it matters where the retained
items go: `StreamInv` adds that while there is room in the span nothing is retained,
so that what is received goes behind what is there. `ScalarsKeepTheirTags`: with scalars the
sink and the source implement `TaggedStream`. `TagInv` says of every place where
items are, that the tags kept beside them are those the items had in the input
(`CarriedBy`), counted from where that place counts from: 0 for the span and for
what is retained, `header_offset` for a message. With that a step is a law about tags in a
row: cutting items cuts their tags, joining joins them, re-basing only moves them.
The order of `publish_pending_tags`, the retained tags before those of the
message, would be wrong if both could be there; `StreamInv` says that they cannot.

`ZmqReqRep_proofs`: `AnswersWillFit` by `LinkInv`: the request of the source, its
reply and the duty to answer it exclude each other, and one of them is there exactly
while the source waits for what has not been lost with a sink. `ItemsAreSplit` by
`SplitInv`, which adds up what was delivered, given to others, lost and held, and
keeps what is held the newest of the input and what is delivered ascending.
`AnswersKeepTheirTags`: what the source publishes is a `TaggedStream` with gaps, for
scalars, vectors and PMTs, by a `TagInv` like the one above, of which the sink's
retained items are one more place.

`Receiver_proofs`: `OneDeviceAlways` by `RadioInv`, for every sequence of lifecycle
calls with any call of the driver throwing, at closing too. `OverflowsTolerated` (`GivesUpAtLimit`): an
overflow ends the reception exactly if it is one too many since the last data. `CountInv`: where there
is a limit, the count of the block is that of the overflows since then, which no start, reset,
reopening or timeout may change; where there is none, none ends it.
`OutputsEvenlySpaced`: that two outputs are a period apart is not
inductive, as the next one is computed from a filter index, a fraction and a history
buffer; `SpacingInv` says where in time the output that is due lies, and a call of
the kernel, which makes any number of outputs, is an iteration that keeps it.
`NoSampleLost`: where the chunks do not round the rate, no more is left over after a
call than the guard holds (`LossInv`), so that the next chunk fits.
`FilterDecimates` (`DecimatesRegularly`), for every decimation, number of taps and cut
into calls: what an output is computed from depends on the history, on the chunks
before and on what replaced the filter. `FilterInv` says that the history holds the
newest of the samples consumed since it was cleared, as many as fit, that it fits as
many as there are taps, for which `std::bit_ceil` must return enough (`CapacityCovers`),
and that every call begins at phase 0, as the filter is given whole chunks.

`SigMfSource_proofs`: `TypeCorrect`, `TagsCorrect`, `ReadsInsideFile`,
`CallsFillSpans` for every recording, window, span and change of the settings.
`IInv` adds `IndexSplits`, that the tag index splits the schedule at the sample
position between iterations: with it the tags due are exactly those after the
index, up to the first one further on, the chunk reaches no further than that
one, and the next tag is never behind the position, which would make a read of
0. `CallState` says what a span holds at each place of a call. `PlaysTheWindow`: the
source implements `Playback`, every step being a `Select`, a `Deliver` or an
`Adjust`. That a published span goes on with the window depends on all the reads since
`start()`: `PlayInv` says that what is published and what is in the span are one
row of passes (`InPasses`), that the window is the selected one (`OneWindow`),
that a span without repeat has no sample of a second pass and none behind
a pass that is over (`NoOtherPass`), and that the end is reported once and after a whole pass
(`EndsOnce`). That a sample has its events in the order of the recording is where the
sort has to be stable, and that no event is missing where the filter of
`buildSigMfTagSchedule` has to have the window's ends right.

`AudioPlayback_proofs`: `RingInvariant` and `QueueRefinement` for every file,
format, FIFO, callback and connection. That a pop takes what was pushed first
is not inductive: it needs `Ring`, that while the stream is open `n` samples lie
from index `r` on, around the end of a buffer of the stream's size, and that `w`
is the index behind them. `SinkInv` adds that the span of a call in progress is
still in the connection, so that what a push copies is there, and `SourceInv` that
the tags found are formats, so that the buffer has a size. Then a push appends the
first samples of the span, a callback takes a prefix, and a reopening is one for
another format. `PassesAreInOrder` by `PassInv`: the last published sample is the one
before the decoder's position, and the count is that of the pass from its tag
on, or 0 before the tag. Where a pass starts (`PassBegins`) is by `StartInv`: until its tag is
out the decoder stands in the frame of the offset that `start()` read, or, after a repeat, at the
beginning; a call that reads no frame ends the pass, so that none can put it elsewhere. That the span has a last tag (`ScannedFormat`) needs that a set of indices has
a greatest member (`Largest`): by well-foundedness of the subsets of a finite set.
`StepsKeepChannels` (`FallsOutOfStepOnly`): a step that leaves the samples waiting
for the stream on other channels than theirs is one of three named events. By
`FrameInv`: a tag comes behind a whole frame only, what is in the connection ends
with a whole frame, and so does the FIFO when the connection is empty, so that a new
pass goes on with channel 0. That the source publishes whole frames comes from
`PassInv`.

`CommonLemmas` has what these share: sequences cut, joined and flattened, quotients
and remainders, messages in a pipe, and tags in a row: what `Within`, `Shift`,
`Rebase` and `CarriedBy` return for tags that are joined, cut, sorted or moved. Induction over the natural numbers and
definition by recursion are stated there with a set and a function in place of a
predicate and an operator (`Induction`, `Iteration`), so that a step can cite them:
from them follows what `FlattenSeq` and the loops of the model compute.

Only model-checked:
- what happens in the end (`QuiescenceGranted`, `WorkersDrain`, `MessagesServed`,
  `CallsReturn`, `EverythingArrives`, `RequestsAnswered`, `Completes`), as the prover
  does not reason about fairness;
- `HeaderRoundTrip`, `PartRefused` and `RelayUnchanged`: the codec calls itself on the
  parts of a value, with RECURSIVE operators, which the prover does not take.

## Findings

1. `http_reconfigure`: `configure()` drops the beginning of a frame while the
   stream goes on with the rest of it. From then on the channels are rotated.
2. `zmq_tags`: all the tags of a span go out with every vector or PMT of it, so
   that they arrive on items that never had them.
3. `pfb_backlog`: when interpolating at a rate that the chunks round, every call
   leaves a part of its input in the history, and at last samples are overwritten
   before they were used: the output jumps in time.

The passing runs keep away from these by what they say, not by leaving the
behaviour out: `LosesOnlyIfRounded` names exactly that case, and
`TaggedStreamSafety` of `ZmqStream` is about scalars.

### Observations

What the code does where a reader may expect otherwise. The first four are in the
models; the properties except them by name.

- The message poll resets the count of idle cycles, message or not
  (`BlockingBackoff.hpp:102`), so an idle worker goes back to its
  `active_spin_count` traversals without a sleep again and again.
- A malformed message makes `ZmqSubSource` throw (line 218) after retained items
  were moved into its span: they are lost. `NothingLost` excepts such a call.
- A request for 0 items is taken and never answered (`ZmqRepSink.hpp:113`); the REP
  socket then serves nobody. A REQ source whose request or reply was lost with its
  sink waits for ever. `RequestsAnswered` excepts both.
- A length that is no whole number of frames leaves `AudioFileSource` with less than
  a frame to read: it neither ends nor repeats (`Stuck`). A repeat goes back to
  frame 0, not to the offset.
- The tag that opens or reopens the audio stream takes effect for the samples before
  it in the span, and a tag with 0 channels opens a FIFO that holds nothing.
- Newer versions of RtAudio return error codes, which `RtAudioSink` does not look at.
- Starting a ZeroMQ block again binds or connects the same socket again
  (`ZmqCommon.hpp:28-32`); `ZmqRepSink` takes in all its input, asked for or not.
- A setter that throws in `SoapyRx::openDevice`, or `unmake` in `closeDevice`, leaves a
  device without a stream, which the next call reads from; the overflow count goes on over restarts.
- A decimation of 0 stays set in `FirDecimator` after the exception it causes.
- `PfbArbResampler` starts with the filter in the middle of the bank after any change
  of settings, and does not design its taps anew for a new rate.
- `serialize_string` keeps two bytes of a length and all of the string, so that a
  longer one breaks the rest of its message.

## Not modelled

- Opening and closing of the ZeroMQ sockets, topics and malformed replies. The pipe
  keeps order and loses only what the socket types lose.
- Of the resampler: derivative filters, group delay, the tags with the new sample
  rate, `set_phase`, and a change of settings before there are taps.
- SigMF metadata, the contents of samples and tags, the JSON of the HTTP sink:
  pure functions of their input.
- Filter design (`PfbRemez`, `PfbFirdes`, `PfbOptfir`), the arithmetic of filters,
  channel models and measurements: floating point, which neither TLC nor the prover
  has.
- The decoders `dr_wav.h`, `dr_mp3.h` and `dr_flac.h`: third-party code, and with
  27,000 lines nearly three quarters of the repository. The blocks use three of
  their functions, to open, seek and read.
- Examples, except for the flowgraphs the compositions are taken from; benchmarks,
  build files, the schema linter.

## Plan

Done: the scheduler, the HTTP sink, the ZeroMQ patterns with their tag headers and
the PMT codec, the SigMF source, the audio blocks and the receiver; proofs of every
invariant and action property a run checks and of every refinement, except those about
tag headers. Next:

1. The PMT codec with recursive functions over trees of bounded depth, so that
   `HeaderRoundTrip` can be proved by induction over the depth.
2. The small blocks that count: `VectorSource`, `PeakDetector`, `StreamToPmt`,
   `SNRSteppedAWGN`, `HistogramSink`.

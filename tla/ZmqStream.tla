----------------------------- MODULE ZmqStream ------------------------------
(***************************************************************************)
(* The one-way patterns: ZmqPushSink with ZmqPullSource, and ZmqPubSink    *)
(* with ZmqSubSource.  Each block is called by a scheduler of its own; the *)
(* pipe of their sockets keeps order, holds as many messages as the        *)
(* high-water marks say, and is there once they are connected.             *)
(*                                                                         *)
(* A PUSH socket without room is not writable.  A PUB socket always polls  *)
(* writable: without a subscriber a message is gone, without room it is    *)
(* dropped or, if drop_on_hwm is off, refused.  A key makes the message    *)
(* two frames that travel as one, the payload being the last.              *)
(***************************************************************************)
EXTENDS ZmqSource

CONSTANTS
  Patterns,   \* "push", "pub"
  MaxItems,   \* bound: items of the input stream
  MaxSpan,    \* bound: items in one call of the sink
  HighWater,  \* messages the pipe holds
  Defects,    \* what may be wrong with a message from elsewhere
  MaxDefects  \* bound: messages from elsewhere

VARIABLES
  pattern,     \* "push" or "pub"
  drop_on_hwm, \* the setting of ZmqPubSink
  absolute,    \* the sender counts tag offsets from the start, as GNU Radio 3 does
  position,    \* items the sink has consumed
  sinkSpan,    \* items left and header of the sink's call in progress
  joined,      \* position when the sockets were connected, -1 before
  pipe,        \* messages on their way
  strangers,   \* messages sent from elsewhere
  ended        \* history: how calls of the source failed, by "error" or "exception"

fixedVars == <<pattern, drop_on_hwm, absolute>>
sinkVars == <<position, sinkSpan>>
vars == <<sourceVars, fixedVars, sinkVars, joined, pipe, strangers, ended>>

NoItems == [left |-> 0, tags |-> <<>>]

Init ==
  /\ SourceInit
  /\ pattern \in Patterns
  /\ drop_on_hwm \in BOOLEAN /\ (pattern = "push" => ~ drop_on_hwm)
  /\ absolute \in BOOLEAN /\ (absolute => kind = "scalar")
  /\ position = 0 /\ sinkSpan = NoItems /\ joined = -1
  /\ pipe = <<>> /\ strangers = 0 /\ ended = {}

\* start() of both sides, and of ZmqSubSource the subscription.
Join ==
  /\ joined = -1
  /\ joined' = position
  /\ UNCHANGED <<sourceVars, fixedVars, sinkVars, pipe, strangers, ended>>

room == joined >= 0 /\ Len(pipe) < HighWater

writable == pattern = "push" => room

\* The send succeeds, although a published message may go nowhere.
Sends == writable /\ (room \/ joined = -1 \/ drop_on_hwm)

Send(m) == pipe' = IF room THEN Append(pipe, m) ELSE pipe

\* GNU Radio 4 numbers the tags of a message from its first item, GNU Radio 3
\* from the start of the stream.
ScalarMessage(n) ==
  IF absolute
  THEN Message(Items(position, n), Shift(Collected(position, n), position), position)
  ELSE Message(Items(position, n), Collected(position, n), 0)

\* Scalars: the span is one message, consumed when it was sent.
SendScalars ==
  \E n \in 1 .. MaxSpan :
    /\ kind = "scalar" /\ Sends /\ position + n <= MaxItems
    /\ Send(ScalarMessage(n))
    /\ position' = position + n
    /\ UNCHANGED <<sourceVars, fixedVars, sinkSpan, joined, strangers, ended>>

\* Vectors and PMTs: a message for each item, with the header of the span.
BeginSpan ==
  \E n \in 1 .. MaxSpan :
    /\ kind # "scalar" /\ sinkSpan.left = 0 /\ writable /\ position + n <= MaxItems
    /\ sinkSpan' = [left |-> n, tags |-> Collected(position, n)]
    /\ UNCHANGED <<sourceVars, fixedVars, position, joined, pipe, strangers, ended>>

SendItem ==
  /\ sinkSpan.left > 0 /\ Sends
  /\ Send(Message(Items(position, 1), sinkSpan.tags, 0))
  /\ position' = position + 1
  /\ sinkSpan' = IF sinkSpan.left = 1 THEN NoItems ELSE [sinkSpan EXCEPT !.left = @ - 1]
  /\ UNCHANGED <<sourceVars, fixedVars, joined, strangers, ended>>

\* Mutant: all of the span is consumed.
SendRefused_ConsumeAll ==
  /\ sinkSpan.left > 0 /\ ~ Sends
  /\ sinkSpan' = NoItems
  /\ position' = position + sinkSpan.left
  /\ UNCHANGED <<sourceVars, fixedVars, joined, pipe, strangers, ended>>

\* The send would block: the rest of the span is not consumed.
SendRefused ==
  /\ sinkSpan.left > 0 /\ ~ Sends
  /\ sinkSpan' = NoItems
  /\ UNCHANGED <<sourceVars, fixedVars, position, joined, pipe, strangers, ended>>

Stranger ==
  \E d \in Defects :
    /\ room /\ strangers < MaxDefects
    /\ pipe' = Append(pipe, Defective(d))
    /\ strangers' = strangers + 1
    /\ UNCHANGED <<sourceVars, fixedVars, sinkVars, joined, ended>>

BeginCall ==
  /\ \E n \in 1 .. MaxRoom : OpenSpan(n)
  /\ UNCHANGED <<fixedVars, sinkVars, joined, pipe, strangers, ended>>

\* wait_readable() and recv() of all frames.
Incoming(m) ==
  /\ roomLeft > 0 /\ pipe # <<>> /\ m = Head(pipe)
  /\ pipe' = Tail(pipe)
  /\ UNCHANGED <<fixedVars, sinkVars, joined, strangers>>

Receive ==
  \E m \in ToSet(pipe) :
    Incoming(m) /\ ~ BadHeader(m) /\ ~ BadPayload(m) /\ Take(m) /\ UNCHANGED ended

\* What ZmqPullSource checks, and what is caught for PMTs.
ReportsError(m) == kind = "pmt" \/ (pattern = "push" /\ ~ BadHeader(m))

ReceiveBad ==
  \E m \in ToSet(pipe) :
    /\ Incoming(m) /\ (BadHeader(m) \/ BadPayload(m))
    /\ IF ReportsError(m)
       THEN Return /\ ended' = ended \cup {"error"}
       ELSE Throw /\ ended' = ended \cup {"exception"}

EndCall == Return /\ UNCHANGED <<fixedVars, sinkVars, joined, pipe, strangers, ended>>

Poll == Receive \/ ReceiveBad

Sink == SendScalars \/ BeginSpan \/ SendItem \/ SendRefused

Next == Join \/ Sink \/ Stranger \/ BeginCall \/ Poll \/ EndCall

Spec == Init /\ [][Next]_vars

\* The schedulers keep calling both blocks, that of the source until a call fails:
\* an error or an exception ends its run.  A message in the pipe reaches the
\* socket within one of the polls.
FairSpec == Spec /\ WF_vars(ended = {} /\ BeginCall) /\ WF_vars(EndCall) /\ SF_vars(Poll)

-----------------------------------------------------------------------------
\* A call of the source ended by an exception.
thrown == "exception" \in ended

\* Unless messages may be dropped, every item consumed since the sockets are
\* connected is in the source's hands or on its way, once and in order, wherever
\* spans and messages are cut, whichever send was refused and whatever malformed
\* message came in between; only an exception loses what its call had taken.
NothingLost ==
  joined >= 0 /\ ~ drop_on_hwm /\ ~ thrown =>
    Received \o FlattenSeq([i \in DOMAIN pipe |-> pipe[i].items]) = Items(joined, position - joined)

\* For scalars the blocks implement the tagged stream: what is dropped is
\* dropped with its tags, and nothing is repeated, reordered or mistagged.
Promise == INSTANCE TaggedStream WITH
  MayLose <- TRUE,
  out     <- IF kind = "scalar" THEN out ELSE <<>>,
  outTags <- IF kind = "scalar" THEN outTags ELSE <<>>
TaggedStreamSafety == Promise!Spec

\* "Messages larger than the scheduler output span are retained and flushed
\* across later work calls": unless it may be dropped, all is published in the
\* end, although no later message may come; or else the source has reported a
\* malformed message, by an error or an exception, and its run has ended.
EverythingArrives ==
  \A k \in 1 .. MaxItems :
    joined >= 0 /\ ~ drop_on_hwm /\ position - joined >= k ~> Len(out) >= k \/ ended # {}

\* "Multiple tags at the same item offset are preserved": what is published
\* carries the tags of its items and no others, for any kind of item.
TagsOnTheirItems == outTags = Promise!TagsOn(out, 0)
=============================================================================

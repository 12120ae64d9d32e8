----------------------------- MODULE ZmqReqRep ------------------------------
(***************************************************************************)
(* ZmqReqSource and ZmqRepSink.  A REP socket alternates between receiving *)
(* a request and sending its reply, whoever asks; a REQ socket has one     *)
(* request outstanding.  Other clients may ask the same sink.              *)
(***************************************************************************)
EXTENDS ZmqSource

CONSTANTS
  MaxItems,      \* bound: items of the input stream
  MaxSpan,       \* bound: items in one call of the sink
  OtherCounts,   \* counts other clients ask for
  MaxOthers,     \* bound: requests of other clients
  MaxRestarts    \* bound: restarts of the sink

ASSUME OthersAssumption == OtherCounts \subseteq Nat /\ MaxOthers \in Nat /\ MaxRestarts \in Nat

VARIABLES
  _req_pending,   \* the source has asked and not yet received
  position,       \* items the sink has consumed
  rep_items,      \* _pending_items of the sink
  rep_tags,       \* _pending_tags of the sink
  serving,        \* a call of the sink is in progress
  owes,           \* client whose request the REP socket has received and not answered
  requests,       \* [client, count] on their way to the sink
  reply,          \* replies on their way to the source, at most one
  others,         \* requests other clients have made
  elsewhere,      \* items other clients have got
  restarts,       \* of the sink
  lost            \* history: the items that were lost with a sink, and whether the
                  \* source's last request, or the answer to it, was
sinkVars == <<position, rep_items, rep_tags, serving, owes>>
faultVars == <<restarts, lost>>
linkVars == <<requests, reply, others, elsewhere, faultVars>>
vars == <<sourceVars, _req_pending, sinkVars, linkVars>>

Init ==
  /\ SourceInit /\ _req_pending = FALSE
  /\ position = 0 /\ rep_items = <<>> /\ rep_tags = <<>> /\ serving = FALSE /\ owes = "nobody"
  /\ requests = <<>> /\ reply = <<>> /\ others = 0 /\ elsewhere = <<>>
  /\ restarts = 0 /\ lost = [items |-> <<>>, answer |-> FALSE]

-----------------------------------------------------------------------------
(* The source *)

request_count_for(room) == IF kind = "pmt" THEN 1 ELSE room

BeginReq ==
  /\ \E n \in 1 .. MaxRoom : OpenSpan(n)
  /\ UNCHANGED <<_req_pending, sinkVars, linkVars>>

\* Mutant: a call asks again though the last request is unanswered.
Request_Again ==
  /\ roomLeft > 0
  /\ requests' = Append(requests, [client |-> "source", count |-> request_count_for(roomLeft)])
  /\ _req_pending' = TRUE
  /\ UNCHANGED <<sourceVars, sinkVars, reply, others, elsewhere, faultVars>>

Request ==
  /\ roomLeft > 0 /\ ~ _req_pending
  /\ requests' = Append(requests, [client |-> "source", count |-> request_count_for(roomLeft)])
  /\ _req_pending' = TRUE
  /\ UNCHANGED <<sourceVars, sinkVars, reply, others, elsewhere, faultVars>>

\* The answer may be to a request of an earlier call, with more room then.
Receive ==
  /\ roomLeft > 0 /\ _req_pending /\ reply # <<>>
  /\ Take(Head(reply))
  /\ reply' = Tail(reply)
  /\ _req_pending' = FALSE
  /\ UNCHANGED <<sinkVars, requests, others, elsewhere, faultVars>>

EndReq == Return /\ UNCHANGED <<_req_pending, sinkVars, linkVars>>

-----------------------------------------------------------------------------
(* The sink *)

\* A call takes in all of its span, which may be empty while items wait.
BeginRep ==
  \E n \in 0 .. MaxSpan :
    /\ ~ serving /\ position + n <= MaxItems
    /\ n > 0 \/ rep_items # <<>>
    /\ rep_items' = rep_items \o Items(position, n)
    /\ rep_tags' = rep_tags \o Shift(Collected(position, n), Len(rep_items))
    /\ position' = position + n
    /\ serving' = TRUE
    /\ UNCHANGED <<sourceVars, _req_pending, owes, linkVars>>

\* A REP socket is readable when it is not in the middle of a request.
readable == owes = "nobody" /\ requests # <<>>

\* Mutant: the tags of what is left keep their offsets.
SendReply_KeepOffsets(client, n) ==
  LET tags == Below(rep_tags, n)
      m    == Message(SubSeq(rep_items, 1, n), tags, 0)
  IN  /\ IF client = "source"
         THEN reply' = Append(reply, m) /\ UNCHANGED elsewhere
         ELSE elsewhere' = elsewhere \o m.items /\ UNCHANGED reply
      /\ rep_tags' = Within(rep_tags, Nat \ (0 .. n - 1))
      /\ rep_items' = SubSeq(rep_items, n + 1, Len(rep_items))

\* Mutant: the items sent stay at hand.
SendReply_NotErased(client, n) ==
  LET m == Message(SubSeq(rep_items, 1, n), Below(rep_tags, n), 0)
  IN  /\ IF client = "source"
         THEN reply' = Append(reply, m) /\ UNCHANGED elsewhere
         ELSE elsewhere' = elsewhere \o m.items /\ UNCHANGED reply
      /\ rep_tags' = Beyond(rep_tags, n)
      /\ UNCHANGED rep_items

\* Items go out with their tags, to whom asked.
SendReply(client, n) ==
  LET tags == Below(rep_tags, n)
      m    == Message(SubSeq(rep_items, 1, n), tags, 0)
  IN  /\ IF client = "source"
         THEN reply' = Append(reply, m) /\ UNCHANGED elsewhere
         ELSE elsewhere' = elsewhere \o m.items /\ UNCHANGED reply
      /\ rep_tags' = Beyond(rep_tags, n)
      /\ rep_items' = SubSeq(rep_items, n + 1, Len(rep_items))

\* Mutant: all that was asked for or nothing.
nsend_AllOrNothing(count) ==
  IF kind # "scalar" THEN 1 ELSE IF count <= Len(rep_items) THEN count ELSE 0

\* Scalars: as many as were asked for, as far as there are; otherwise one.
nsend(count) ==
  IF kind # "scalar" THEN 1 ELSE IF count < Len(rep_items) THEN count ELSE Len(rep_items)

Serve ==
  /\ serving /\ rep_items # <<>> /\ readable
  /\ nsend(Head(requests).count) > 0
  /\ requests' = Tail(requests)
  /\ SendReply(Head(requests).client, nsend(Head(requests).count))
  /\ UNCHANGED <<sourceVars, _req_pending, position, serving, owes, others, faultVars>>

\* Nothing was asked for: the call ends there, and the socket owes a reply.
ServeNothing ==
  /\ serving /\ rep_items # <<>> /\ readable
  /\ nsend(Head(requests).count) = 0
  /\ requests' = Tail(requests)
  /\ owes' = Head(requests).client
  /\ serving' = FALSE
  /\ UNCHANGED <<sourceVars, _req_pending, position, rep_items, rep_tags, reply, others, elsewhere, faultVars>>

\* All is sent, or no request came in time.
EndRep ==
  /\ serving
  /\ serving' = FALSE
  /\ UNCHANGED <<sourceVars, _req_pending, position, rep_items, rep_tags, owes, linkVars>>

-----------------------------------------------------------------------------
InReply == FlattenSeq([i \in DOMAIN reply |-> reply[i].items])
Asked(r) == \E i \in DOMAIN r : r[i].client = "source"

\* Another client asks.
OtherRequest ==
  \E n \in OtherCounts :
    /\ others < MaxOthers
    /\ requests' = Append(requests, [client |-> "other", count |-> n])
    /\ others' = others + 1
    /\ UNCHANGED <<sourceVars, _req_pending, sinkVars, reply, elsewhere, faultVars>>

\* The sink ends, at any point, and another takes its place, which goes on with
\* the input and has nothing else: requests that had reached the old one are
\* lost, and a reply on its way may be.  The source's socket connects again, and
\* waits for its answer still.
SinkRestart ==
  /\ restarts < MaxRestarts
  /\ restarts' = restarts + 1
  /\ serving' = FALSE /\ rep_items' = <<>> /\ rep_tags' = <<>> /\ owes' = "nobody"
  /\ \E k \in 0 .. Len(requests) : requests' = SubSeq(requests, k + 1, Len(requests))
  /\ reply' \in {reply, <<>>}
  /\ lost' = [items  |-> lost.items \o (IF reply' = <<>> THEN InReply ELSE <<>>) \o rep_items,
              answer |-> _req_pending /\ reply' = <<>> /\ ~ Asked(requests')]
  /\ UNCHANGED <<sourceVars, _req_pending, position, others, elsewhere>>

Next ==
  \/ BeginReq \/ Request \/ Receive \/ EndReq
  \/ BeginRep \/ Serve \/ ServeNothing \/ EndRep \/ OtherRequest \/ SinkRestart

Spec == Init /\ [][Next]_vars

\* Both blocks are called again and again, the sink also with an empty span
\* while it has items, and requests and replies arrive within one of the polls.
FairSpec ==
  /\ Spec
  /\ WF_vars(BeginReq) /\ SF_vars(Request) /\ SF_vars(Receive) /\ WF_vars(EndReq)
  /\ WF_vars(BeginRep) /\ WF_vars(EndRep) /\ SF_vars(Serve \/ ServeNothing)

-----------------------------------------------------------------------------
\* Every request of the source is in exactly one place: on its way, received,
\* or answered by the reply on its way.  Without one the source does not wait,
\* unless the sink took it, or the reply, with it when it ended.
OneRequestOutstanding ==
  Cardinality({i \in DOMAIN requests : requests[i].client = "source"}) + Len(reply)
    + (IF owes = "source" THEN 1 ELSE 0) = (IF _req_pending /\ ~ lost.answer THEN 1 ELSE 0)

\* Of what the sinks have consumed, the source and the other clients get each
\* item once, and the sink keeps the newest; only what a sink held when it ended
\* is missing.
SplitAmongClients ==
  LET taken == Received \o InReply
      all   == taken \o elsewhere \o lost.items \o rep_items
  IN  /\ Len(all) = position /\ ToSet(all) = 0 .. position - 1
      /\ rep_items = Items(position - Len(rep_items), Len(rep_items))
      /\ \A i \in 1 .. Len(taken) - 1 : taken[i] < taken[i + 1]

\* The source gets a tagged stream, with gaps where others were served.
Promise == INSTANCE TaggedStream WITH MayLose <- TRUE
TaggedStreamSafety == Promise!Spec

\* A source that waits while the sink has items gets its answer, unless others
\* get all the items, another client's request for nothing has blocked the sink,
\* or the request was lost with a sink, which the source never finds out.
RequestsAnswered ==
  _req_pending /\ rep_items # <<>> ~>
    ~ _req_pending \/ rep_items = <<>> \/ owes = "other" \/ lost.answer
=============================================================================

---------------------------- MODULE SigMfSource ----------------------------
(***************************************************************************)
(* SigMFSource (blocks/sigmf): plays the window of a SigMF recording that  *)
(* the settings select and puts the recording's events on the samples they *)
(* belong to.  processBulk fills its span chunk by chunk, a chunk reaching *)
(* up to the next tag, and goes back to the start of the window when it    *)
(* repeats.  The data file is read while it is played: another program may *)
(* cut it short between any two reads.                                     *)
(*                                                                         *)
(* Sample n of the file is the number n.  Decoding and the contents of the *)
(* tag maps are left out.                                                  *)
(***************************************************************************)
EXTENDS Tags

CONSTANTS
  Events,        \* metadata.captures, then metadata.annotations: [offset, tag]
  StartEvent,    \* the tag made from metadata.global
  FileLen,       \* samples in the data file, before it is cut short
  Offsets, Lengths,
  MaxSpan,       \* longest output span
  MaxOut,        \* bound: a repeating source is not called beyond it
  StableSort(_)  \* std::stable_sort by offset

ASSUME SizesAssumption ==
  /\ FileLen \in Nat /\ MaxSpan \in Nat \ {0} /\ MaxOut \in Nat
  /\ Offsets \subseteq Nat /\ Lengths \subseteq Nat
  /\ Events \in Seq([offset : Nat, tag : {Events[i].tag : i \in DOMAIN Events}])

VARIABLES
  file,          \* number of samples in the data file
  settings,      \* [offset, length, repeat]
  open,          \* _open
  done,          \* _done
  rangeStart, rangeEnd, cursor,
  sched,         \* _scheduled_tags, [offset, tag]
  nextTag,       \* _next_tag_index
  size, span,    \* the output span of the call and what is in it
  pc,            \* "stopped", "idle", "bulk", "publish", "error"
  status,        \* what the last call returned
  out            \* published since start(): [sample, tags]

playback == <<open, done, rangeStart, rangeEnd, sched>>
vars == <<file, settings, playback, cursor, nextTag, size, span, pc, status, out>>

Smaller(a, b) == IF a <= b THEN a ELSE b

(***************************************************************************)
(* start() and stop().                                                     *)
(***************************************************************************)
UnsortedTags(from, to) ==
  <<[offset |-> 0, tag |-> StartEvent]>> \o Shift(Within(Events, from .. to - 1), - from)

TagSchedule(from, to) == StableSort(UnsortedTags(from, to))

ScheduledTag == [offset : Nat, tag : {StartEvent} \cup {Events[i].tag : i \in DOMAIN Events}]

IsSchedule(tags) ==
  /\ tags \in Seq(ScheduledTag)
  /\ \A i, j \in 1 .. Len(tags) : i <= j => tags[i].offset <= tags[j].offset

\* What the model takes from std::stable_sort: the result is in order, and what
\* has the same offset keeps its order.
ASSUME SortAssumption ==
  \A from, to \in 0 .. FileLen : from <= to =>
    /\ IsSchedule(TagSchedule(from, to))
    /\ \A o \in 0 .. to - from : TagsAt(TagSchedule(from, to), o) = TagsAt(UnsortedTags(from, to), o)

Close ==
  /\ open' = FALSE /\ done' = FALSE /\ cursor' = 0 /\ nextTag' = 0
  /\ rangeStart' = 0 /\ rangeEnd' = 0 /\ sched' = <<>>

Start ==
  /\ pc \in {"stopped", "error"}
  /\ rangeStart' = Smaller(settings.offset, file)
  /\ LET available == file - rangeStart'
         selected  == IF settings.length = 0 THEN available ELSE Smaller(settings.length, available)
     IN  rangeEnd' = rangeStart' + selected /\ done' = (selected = 0)
  /\ cursor' = rangeStart' /\ sched' = TagSchedule(rangeStart', rangeEnd') /\ nextTag' = 0
  /\ open' = TRUE
  /\ out' = <<>> /\ span' = <<>> /\ pc' = "idle" /\ status' = "OK"
  /\ UNCHANGED <<file, settings, size>>

Stop ==
  /\ pc \in {"idle", "error"}
  /\ Close
  /\ out' = <<>> /\ pc' = "stopped" /\ status' = "OK"
  /\ UNCHANGED <<file, settings, size, span>>

(***************************************************************************)
(* processBulk(output).                                                    *)
(***************************************************************************)
ProcessBulk(n) ==
  /\ pc = "idle"
  /\ settings.repeat => Len(out) + n <= MaxOut
  /\ IF ~ open \/ done
     THEN status' = "DONE" /\ UNCHANGED <<pc, size>>
     ELSE IF n = 0
     THEN status' = "INSUFFICIENT_OUTPUT_ITEMS" /\ UNCHANGED <<pc, size>>
     ELSE pc' = "bulk" /\ size' = n /\ UNCHANGED status
  /\ UNCHANGED <<file, settings, playback, cursor, nextTag, span, out>>

InLoop == pc = "bulk" /\ Len(span) < size
AtEnd  == cursor >= rangeEnd

\* Mutant: repeat is not looked at.
EndsNow_Always == AtEnd

EndsNow == AtEnd /\ (~ settings.repeat \/ rangeStart = rangeEnd)

\* Mutant: the end of the window leaves the loop without being noted.
Finish_NotDone ==
  /\ InLoop /\ EndsNow
  /\ pc' = "publish"
  /\ UNCHANGED <<file, settings, playback, cursor, nextTag, size, span, status, out>>

Finish ==
  /\ InLoop /\ EndsNow
  /\ done' = TRUE /\ pc' = "publish"
  /\ UNCHANGED <<file, settings, open, rangeStart, rangeEnd, sched, cursor, nextTag, size, span, status, out>>

\* Where the iteration plays from: the start of the window again, once its end is reached.
From == IF AtEnd THEN rangeStart ELSE cursor

\* Mutant: the tag index is not reset for the next pass.
FromTag_NotReset == nextTag

FromTag == IF AtEnd THEN 0 ELSE nextTag
LoopPos == From - rangeStart

\* Mutant: if instead of while, one tag an iteration.
EmitReadyTags_One(t) ==
  /\ t \in FromTag .. Len(sched) /\ t <= FromTag + 1
  /\ IF FromTag < Len(sched) /\ sched[FromTag + 1].offset = LoopPos THEN t = FromTag + 1 ELSE t = FromTag

\* emitReadyTags publishes the tags FromTag + 1 .. t of the schedule.
EmitReadyTags(t) ==
  /\ t \in FromTag .. Len(sched)
  /\ \A j \in FromTag + 1 .. t : sched[j].offset = LoopPos
  /\ t < Len(sched) => sched[t + 1].offset # LoopPos

\* Mutant: the rest of the window is no limit.
NextReadSize_PastWindow(t) ==
  IF t = Len(sched) THEN size - Len(span)
  ELSE IF sched[t + 1].offset <= LoopPos THEN 0
  ELSE Smaller(size - Len(span), sched[t + 1].offset - LoopPos)

NextReadSize(t) ==
  LET remaining == Smaller(rangeEnd - From, size - Len(span))
  IN  IF t = Len(sched) THEN remaining
      ELSE IF sched[t + 1].offset <= LoopPos THEN 0
      ELSE Smaller(remaining, sched[t + 1].offset - LoopPos)

Chunk(t) ==
  [i \in 1 .. NextReadSize(t) |->
     [sample |-> From + i - 1, tags |-> IF i = 1 THEN SubSeq(sched, FromTag + 1, t) ELSE <<>>]]

\* What the stream has buffered can still be read after the file was cut short.
ReadChunk ==
  /\ InLoop /\ ~ EndsNow
  /\ \E t \in 0 .. Len(sched) :
       /\ EmitReadyTags(t)
       /\ span' = span \o Chunk(t) /\ cursor' = From + NextReadSize(t) /\ nextTag' = t
       /\ pc' = IF NextReadSize(t) = 0 THEN "publish" ELSE "bulk"
  /\ UNCHANGED <<file, settings, playback, size, status, out>>

\* The exception: the span is given up with what was read before.
ShortRead ==
  /\ InLoop /\ ~ EndsNow
  /\ \E t \in 0 .. Len(sched) :
       /\ EmitReadyTags(t)
       /\ From + NextReadSize(t) > file
       /\ cursor' = From /\ nextTag' = t
  /\ span' = <<>> /\ pc' = "error"
  /\ UNCHANGED <<file, settings, playback, size, status, out>>

Publish ==
  /\ pc = "publish" \/ (pc = "bulk" /\ Len(span) = size)
  /\ out' = out \o span /\ span' = <<>> /\ pc' = "idle"
  /\ IF done THEN open' = FALSE /\ status' = "DONE" ELSE status' = "OK" /\ UNCHANGED open
  /\ UNCHANGED <<file, settings, done, rangeStart, rangeEnd, sched, cursor, nextTag, size>>

(***************************************************************************)
(* The flowgraph and the file system.                                      *)
(***************************************************************************)
Settings == [offset : Offsets, length : Lengths, repeat : BOOLEAN]

SetSettings ==
  /\ pc \in {"stopped", "idle", "error"}
  /\ settings' \in Settings \ {settings}
  /\ UNCHANGED <<file, playback, cursor, nextTag, size, span, pc, status, out>>

CutShort ==
  /\ file' \in 0 .. file - 1
  /\ UNCHANGED <<settings, playback, cursor, nextTag, size, span, pc, status, out>>

Init ==
  /\ file = FileLen /\ settings \in Settings
  /\ open = FALSE /\ done = FALSE /\ rangeStart = 0 /\ rangeEnd = 0 /\ cursor = 0
  /\ sched = <<>> /\ nextTag = 0
  /\ size = 0 /\ span = <<>> /\ pc = "stopped" /\ status = "OK" /\ out = <<>>

Work == (\E n \in 1 .. MaxSpan : ProcessBulk(n)) \/ Finish \/ ReadChunk \/ ShortRead \/ Publish

Next == Work \/ ProcessBulk(0) \/ Start \/ Stop \/ SetSettings \/ CutShort

Spec == Init /\ [][Next]_vars

\* The scheduler calls the block again and again, with room for output.
FairSpec == Spec /\ WF_vars(Work)
(***************************************************************************)
(* Properties.                                                             *)
(***************************************************************************)
Item == [sample : Nat, tags : Seq(ScheduledTag)]

\* Every variable has its type; a position is inside the window, or at its end.
TypeOK ==
  /\ file \in 0 .. FileLen /\ settings \in Settings
  /\ open \in BOOLEAN /\ done \in BOOLEAN
  /\ rangeStart \in Nat /\ rangeEnd \in Nat
  /\ cursor \in rangeStart .. rangeEnd
  /\ IsSchedule(sched) /\ nextTag \in 0 .. Len(sched)
  /\ size \in 0 .. MaxSpan
  /\ span \in Seq(Item) /\ out \in Seq(Item)
  /\ pc \in {"stopped", "idle", "bulk", "publish", "error"}
  /\ status \in {"OK", "DONE", "INSUFFICIENT_OUTPUT_ITEMS"}

\* The tags of the schedule that belong on sample n.
TagsOf(n) == {j \in 1 .. Len(sched) : sched[j].offset = n - rangeStart}

\* Every sample comes with the tags scheduled for it, wherever the chunks,
\* the spans and the passes of processBulk are cut, and with no other.
TagsWithTheirSamples ==
  \A s \in {out, span} : \A i \in 1 .. Len(s) :
    {s[i].tags[j] : j \in 1 .. Len(s[i].tags)} = {sched[j] : j \in TagsOf(s[i].sample)}

\* A call that reports OK has filled its span: processBulk is never stuck on
\* a tag that is behind the sample position (to_read == 0).
OkFillsSpan ==
  [][(status' = "OK" /\ pc \in {"bulk", "publish"} /\ pc' = "idle") => Len(out') = Len(out) + size]_vars

\* Reading fails only if the file was cut short after start() measured it.
FailsOnlyIfCutShort == pc = "error" => file < rangeEnd

\* The block plays the window as its documentation says: once, or again and
\* again with the tags replayed.
PlaysWindow ==
  INSTANCE Playback WITH
    window <- rangeStart .. rangeEnd - 1,
    played <- [i \in DOMAIN out |-> [sample |-> out[i].sample, tags |-> Names(out[i].tags)]],
    ended  <- status = "DONE"
PlaysSelectedWindow == PlaysWindow!Spec

\* With repeat off for good, the source reports DONE, unless it fails.
Completes ==
  (<>[](pc \notin {"stopped", "error"} /\ ~ settings.repeat)) => <>(status = "DONE")
=============================================================================

------------------------- MODULE SigMfSource_proofs -------------------------
(***************************************************************************)
(* What holds of SigMFSource for every recording, window and span, and     *)
(* that it plays the selected window as Playback says.                     *)
(***************************************************************************)
EXTENDS SigMfSource, CommonLemmas

\* Between iterations the tag index splits the schedule at the sample position.
IndexSplits ==
  pc # "error" =>
    /\ \A j \in 1 .. nextTag : sched[j].offset < cursor - rangeStart
    /\ \A j \in nextTag + 1 .. Len(sched) : sched[j].offset >= cursor - rangeStart

\* Only a call has samples in its span, and it ends early only at the end of
\* the window.
CallState ==
  /\ pc \notin {"bulk", "publish"} => span = <<>>
  /\ pc = "publish" => done
  /\ pc = "bulk" => Len(span) <= size

IInv == TypeOK /\ IndexSplits /\ CallState /\ TagsWithTheirSamples /\ FailsOnlyIfCutShort

TagSet(tags) == {tags[j] : j \in 1 .. Len(tags)}

ScheduledAt(schedule, offset) ==
  {schedule[j] : j \in {k \in 1 .. Len(schedule) : schedule[k].offset = offset}}

TaggedBy(s, schedule, start) ==
  \A i \in 1 .. Len(s) : TagSet(s[i].tags) = ScheduledAt(schedule, s[i].sample - start)

LEMMA TaggedDef == TagsWithTheirSamples <=> TaggedBy(out, sched, rangeStart) /\ TaggedBy(span, sched, rangeStart)
  BY DEF TagsWithTheirSamples, TaggedBy, TagsOf, TagSet, ScheduledAt

LEMMA TaggedDefNext ==
  TagsWithTheirSamples' <=> TaggedBy(out', sched', rangeStart') /\ TaggedBy(span', sched', rangeStart')
<1>1. ASSUME TagsWithTheirSamples' PROVE TaggedBy(out', sched', rangeStart') /\ TaggedBy(span', sched', rangeStart')
  BY <1>1, Zenon DEF TagsWithTheirSamples, TaggedBy, TagsOf, TagSet, ScheduledAt
<1>2. ASSUME TaggedBy(out', sched', rangeStart'), TaggedBy(span', sched', rangeStart') PROVE TagsWithTheirSamples'
  <2> SUFFICES ASSUME NEW s \in {out', span'}, NEW i \in 1 .. Len(s)
               PROVE {s[i].tags[j] : j \in 1 .. Len(s[i].tags)} = {sched'[j] : j \in TagsOf(s[i].sample)'}
    BY Zenon DEF TagsWithTheirSamples
  <2>1. TaggedBy(s, sched', rangeStart') BY <1>2
  <2> QED BY <2>1 DEF TaggedBy, TagsOf, TagSet, ScheduledAt
<1> QED BY <1>1, <1>2

LEMMA TaggedConcat ==
  ASSUME NEW S, NEW s \in Seq(S), NEW t \in Seq(S), NEW schedule, NEW start,
         TaggedBy(s, schedule, start), TaggedBy(t, schedule, start)
  PROVE  TaggedBy(s \o t, schedule, start)
<1> SUFFICES ASSUME NEW i \in 1 .. Len(s \o t)
             PROVE TagSet((s \o t)[i].tags) = ScheduledAt(schedule, (s \o t)[i].sample - start)
  BY DEF TaggedBy
<1>1. CASE i <= Len(s)
  <2>1. i \in 1 .. Len(s) /\ (s \o t)[i] = s[i] BY <1>1
  <2> QED BY <2>1, Zenon DEF TaggedBy
<1>2. CASE ~ (i <= Len(s))
  <2>1. i - Len(s) \in 1 .. Len(t) /\ (s \o t)[i] = t[i - Len(s)] BY <1>2
  <2> QED BY <2>1, Zenon DEF TaggedBy
<1> QED BY <1>1, <1>2

\* Nothing is tagged in an empty sequence.
LEMMA TaggedEmpty ==
  ASSUME NEW schedule, NEW start PROVE TaggedBy(<<>>, schedule, start)
  BY DEF TaggedBy

\* The facts about types that arithmetic needs.
LEMMA Positions ==
  ASSUME TypeOK
  PROVE  /\ rangeStart \in Nat /\ rangeEnd \in Nat /\ cursor \in Nat /\ rangeStart <= cursor /\ cursor <= rangeEnd
         /\ nextTag \in 0 .. Len(sched) /\ Len(sched) \in Nat /\ size \in Nat /\ Len(span) \in Nat
         /\ sched \in Seq(ScheduledTag)
         /\ \A j \in 1 .. Len(sched) : sched[j].offset \in Nat
         /\ \A i, j \in 1 .. Len(sched) : i <= j => sched[i].offset <= sched[j].offset
<1>1. /\ sched \in Seq(ScheduledTag)
      /\ \A i, j \in 1 .. Len(sched) : i <= j => sched[i].offset <= sched[j].offset
  BY DEF TypeOK, IsSchedule
<1>2. rangeStart \in Nat /\ rangeEnd \in Nat /\ cursor \in rangeStart .. rangeEnd BY DEF TypeOK
<1>3. nextTag \in 0 .. Len(sched) /\ size \in 0 .. MaxSpan /\ span \in Seq(Item) BY DEF TypeOK
<1>4. ASSUME NEW j \in 1 .. Len(sched) PROVE sched[j].offset \in Nat
  <2>1. sched[j] \in ScheduledTag BY <1>1
  <2> QED BY <2>1 DEF ScheduledTag
<1>5. Len(sched) \in Nat /\ Len(span) \in Nat BY <1>1, <1>3
<1>6. size \in Nat BY <1>3, SizesAssumption
<1> QED BY <1>1, <1>2, <1>3, <1>4, <1>5, <1>6

\* An iteration that does not end the playback reads at least one sample and
\* stays inside the window, up to the next tag.
LEMMA ChunkSize ==
  ASSUME TypeOK, IndexSplits, InLoop, ~ EndsNow, NEW t \in 0 .. Len(sched), EmitReadyTags(t)
  PROVE  /\ From \in rangeStart .. rangeEnd /\ From < rangeEnd /\ FromTag \in 0 .. Len(sched)
         /\ NextReadSize(t) \in 1 .. size - Len(span)
         /\ From + NextReadSize(t) <= rangeEnd
         /\ \A j \in 1 .. t : sched[j].offset <= LoopPos
         /\ \A j \in 1 .. FromTag : sched[j].offset < LoopPos
         /\ \A j \in t + 1 .. Len(sched) : sched[j].offset >= LoopPos + NextReadSize(t)
<1>1. /\ rangeStart \in Nat /\ rangeEnd \in Nat /\ cursor \in Nat /\ rangeStart <= cursor /\ cursor <= rangeEnd
      /\ nextTag \in 0 .. Len(sched) /\ Len(sched) \in Nat /\ size \in Nat /\ Len(span) \in Nat
      /\ \A j \in 1 .. Len(sched) : sched[j].offset \in Nat
      /\ \A i, j \in 1 .. Len(sched) : i <= j => sched[i].offset <= sched[j].offset
  BY Positions, Zenon
<1>2. From \in rangeStart .. rangeEnd /\ From < rangeEnd /\ FromTag \in 0 .. Len(sched)
  BY <1>1 DEF From, FromTag, EndsNow, AtEnd
<1>0. LoopPos = From - rangeStart /\ LoopPos \in Nat BY <1>1, <1>2 DEF LoopPos
<1>3. /\ \A j \in 1 .. FromTag : sched[j].offset < LoopPos
      /\ \A j \in FromTag + 1 .. Len(sched) : sched[j].offset >= LoopPos
  <2>1. CASE AtEnd
    <3>1. FromTag = 0 /\ LoopPos = 0 BY <2>1, <1>0, <1>1 DEF FromTag, From
    <3> QED BY <3>1, <1>1
  <2>2. CASE ~ AtEnd
    <3>1. FromTag = nextTag /\ LoopPos = cursor - rangeStart BY <2>2, <1>0, <1>1 DEF FromTag, From
    <3> QED BY <3>1, Zenon DEF IndexSplits, InLoop
  <2> QED BY <2>1, <2>2
<1>4. t \in FromTag .. Len(sched) /\ \A j \in 1 .. t : sched[j].offset <= LoopPos
  BY <1>0, <1>1, <1>2, <1>3 DEF EmitReadyTags
<1>5. ASSUME t < Len(sched) PROVE sched[t + 1].offset \in Nat /\ sched[t + 1].offset > LoopPos
  <2>1. t + 1 \in FromTag + 1 .. Len(sched) /\ t + 1 \in 1 .. Len(sched) BY <1>1, <1>2, <1>4, <1>5
  <2>2. sched[t + 1].offset \in Nat /\ sched[t + 1].offset >= LoopPos BY <2>1, <1>1, <1>3
  <2> QED BY <2>2, <1>0, <1>5 DEF EmitReadyTags
<1>6. /\ NextReadSize(t) \in 1 .. size - Len(span) /\ From + NextReadSize(t) <= rangeEnd
      /\ t < Len(sched) => NextReadSize(t) <= sched[t + 1].offset - LoopPos
  <2>1. size - Len(span) \in Nat \ {0} /\ rangeEnd - From \in Nat \ {0} BY <1>1, <1>2 DEF InLoop
  <2> DEFINE room == size - Len(span)  left == rangeEnd - From
  <2>a. Smaller(left, room) \in 1 .. room /\ Smaller(left, room) <= left
    <3> HIDE DEF room, left
    <3> QED BY <2>1 DEF Smaller, room, left
  <2>b. From \in Nat /\ rangeEnd \in Nat BY <1>1, <1>2
  <2>2. CASE t = Len(sched)
    <3>1. NextReadSize(t) = Smaller(left, room) BY <2>2 DEF NextReadSize
    <3> QED BY ONLY <3>1, <2>2, <2>a, <2>b, <1>1, <2>1
  <2>3. CASE t < Len(sched)
    <3> DEFINE gap == sched[t + 1].offset - LoopPos
    <3>1. gap \in Nat \ {0} BY <2>3, <1>0, <1>5
    <3>2. NextReadSize(t) = Smaller(Smaller(left, room), gap) BY <2>3, <1>0, <1>1, <1>5 DEF NextReadSize
    <3> HIDE DEF gap
    <3>3. NextReadSize(t) \in 1 .. room /\ NextReadSize(t) <= left /\ NextReadSize(t) <= gap
      BY <3>1, <3>2, <2>a, <2>1 DEF Smaller
    <3> QED BY <3>3, <2>b DEF gap
  <2> QED BY <2>2, <2>3, <1>1
<1>7. ASSUME NEW j \in t + 1 .. Len(sched) PROVE sched[j].offset >= LoopPos + NextReadSize(t)
  <2>1. sched[t + 1].offset <= sched[j].offset /\ sched[j].offset \in Nat BY <1>1, <1>4
  <2>2. t < Len(sched) BY <1>1
  <2> QED BY <2>1, <2>2, <1>0, <1>1, <1>5, <1>6
<1> QED BY <1>2, <1>3, <1>4, <1>6, <1>7

LEMMA ChunkTagged ==
  ASSUME TypeOK, IndexSplits, InLoop, ~ EndsNow, NEW t \in 0 .. Len(sched), EmitReadyTags(t)
  PROVE  /\ Chunk(t) \in Seq(Item) /\ Len(Chunk(t)) = NextReadSize(t)
         /\ TaggedBy(Chunk(t), sched, rangeStart)
<1> DEFINE k == NextReadSize(t)  c == Chunk(t)  ready == SubSeq(sched, FromTag + 1, t)
<1>1. /\ rangeStart \in Nat /\ rangeEnd \in Nat /\ Len(sched) \in Nat /\ sched \in Seq(ScheduledTag)
      /\ \A j \in 1 .. Len(sched) : sched[j].offset \in Nat
  BY Positions, Zenon
<1>2. /\ From \in Nat /\ rangeStart <= From /\ FromTag \in 0 .. Len(sched) /\ k \in Nat \ {0}
      /\ \A j \in 1 .. t : sched[j].offset <= LoopPos
      /\ \A j \in 1 .. FromTag : sched[j].offset < LoopPos
      /\ \A j \in t + 1 .. Len(sched) : sched[j].offset >= LoopPos + k
  BY <1>1, ChunkSize DEF TypeOK
<1>3. t \in FromTag .. Len(sched) /\ \A j \in FromTag + 1 .. t : sched[j].offset = LoopPos
  BY DEF EmitReadyTags
<1>4. /\ ready \in Seq(ScheduledTag) /\ Len(ready) = t - FromTag
      /\ \A j \in 1 .. t - FromTag : ready[j] = sched[FromTag + j]
  BY <1>1, <1>2, <1>3
<1>5. c = [i \in 1 .. k |-> [sample |-> From + i - 1, tags |-> IF i = 1 THEN ready ELSE <<>>]]
  BY DEF Chunk
<1> HIDE DEF c, k, ready
<1>6. c \in Seq(Item) /\ Len(c) = k
  <2>1. ASSUME NEW i \in 1 .. k PROVE [sample |-> From + i - 1, tags |-> IF i = 1 THEN ready ELSE <<>>] \in Item
    BY <1>2, <1>4 DEF Item
  <2>2. c \in [1 .. k -> Item] BY <1>5, <2>1, Zenon
  <2> QED BY <1>2, <2>2
<1>7. ASSUME NEW i \in 1 .. Len(c)
      PROVE TagSet(c[i].tags) = ScheduledAt(sched, c[i].sample - rangeStart)
  <2>1. CASE i = 1
    <3>1. c[i].tags = ready /\ c[i].sample - rangeStart = LoopPos
      BY <2>1, <1>1, <1>2, <1>5, <1>6 DEF LoopPos
    <3>2. {n \in 1 .. Len(sched) : sched[n].offset = LoopPos} = FromTag + 1 .. t
      BY <1>1, <1>2, <1>3 DEF LoopPos
    <3>3. TagSet(ready) = {sched[j] : j \in FromTag + 1 .. t}
      <4>1. ASSUME NEW j \in FromTag + 1 .. t PROVE j - FromTag \in 1 .. Len(ready) /\ ready[j - FromTag] = sched[j]
        BY <1>2, <1>3, <1>4
      <4>2. ASSUME NEW j \in 1 .. Len(ready) PROVE FromTag + j \in FromTag + 1 .. t /\ ready[j] = sched[FromTag + j]
        <5>1. j \in 1 .. t - FromTag BY <1>4
        <5>2. FromTag + j \in FromTag + 1 .. t BY <5>1, <1>2, <1>3
        <5> QED BY <5>1, <5>2, <1>4, Zenon
      <4>3. ASSUME NEW e \in TagSet(ready) PROVE e \in {sched[j] : j \in FromTag + 1 .. t} BY <4>2 DEF TagSet
      <4>4. ASSUME NEW j \in FromTag + 1 .. t PROVE sched[j] \in TagSet(ready) BY <4>1 DEF TagSet
      <4> QED BY <4>3, <4>4
    <3> QED BY <3>1, <3>2, <3>3, Zenon DEF ScheduledAt
  <2>2. CASE i # 1
    <3>1. c[i].tags = <<>> /\ c[i].sample - rangeStart = LoopPos + i - 1 /\ i - 1 \in 1 .. k - 1
      BY <2>2, <1>1, <1>2, <1>5, <1>6 DEF LoopPos
    <3>2. ASSUME NEW n \in 1 .. Len(sched) PROVE sched[n].offset # LoopPos + i - 1
      <4> DEFINE pos == LoopPos
      <4>0. pos \in Int /\ sched[n].offset \in Nat /\ t \in Nat /\ i \in Int BY <1>1, <1>2, <3>1 DEF LoopPos
      <4>1. CASE n <= t
        <5>1. n \in 1 .. t BY <4>1, <4>0
        <5>2. sched[n].offset <= pos BY <5>1, <1>2, Zenon
        <5> HIDE DEF pos
        <5>3. sched[n].offset # pos + i - 1 BY <5>2, <4>0, <3>1, <1>2
        <5> QED BY <5>3 DEF pos
      <4>2. CASE ~ (n <= t)
        <5>1. n \in t + 1 .. Len(sched) BY <4>2, <4>0, <1>1
        <5>2. sched[n].offset >= pos + k BY <5>1, <1>2, Zenon
        <5> HIDE DEF pos
        <5>3. sched[n].offset # pos + i - 1 BY <5>2, <4>0, <3>1, <1>2
        <5> QED BY <5>3 DEF pos
      <4> QED BY <4>1, <4>2
    <3>3. TagSet(<<>>) = {} BY DEF TagSet
    <3>4. ScheduledAt(sched, LoopPos + i - 1) = {} BY <3>2, Zenon DEF ScheduledAt
    <3> QED BY <3>1, <3>3, <3>4, Zenon
  <2> QED BY <2>1, <2>2
<1>8. TaggedBy(c, sched, rangeStart) BY <1>7 DEF TaggedBy
<1> QED BY <1>6, <1>8 DEF c, k

LEMMA InitIInv == Init => IInv
<1> SUFFICES ASSUME Init PROVE IInv OBVIOUS
<1>1. sched = <<>> /\ out = <<>> /\ span = <<>> /\ nextTag = 0 /\ pc = "stopped" BY DEF Init
<1>2. TypeOK
  <2>1. open \in BOOLEAN /\ done \in BOOLEAN BY Zenon DEF Init
  <2>2. IsSchedule(<<>>) BY DEF IsSchedule
  <2> QED BY <2>1, <2>2, SizesAssumption DEF Init, TypeOK
<1> QED BY <1>1, <1>2, TaggedDef, TaggedEmpty DEF IInv, IndexSplits, CallState, FailsOnlyIfCutShort

LEMMA SelectedRange ==
  ASSUME NEW a \in Nat, NEW l \in Nat PROVE (IF l = 0 THEN a ELSE Smaller(l, a)) \in 0 .. a
  BY DEF Smaller

\* start(): the window lies inside the file, its schedule is in order.
LEMMA StartTypes ==
  ASSUME TypeOK, Start
  PROVE  /\ rangeStart' \in 0 .. file /\ rangeEnd' \in rangeStart' .. file /\ cursor' = rangeStart'
         /\ IsSchedule(sched') /\ done' \in BOOLEAN
<1>1. file \in 0 .. FileLen /\ settings.offset \in Nat /\ settings.length \in Nat
  BY SizesAssumption DEF TypeOK, Settings
<1>2. rangeStart' \in 0 .. file BY <1>1, SizesAssumption DEF Start, Smaller
<1>3. file - rangeStart' \in Nat /\ file \in Nat
  <2>1. file \in Nat BY <1>1, SizesAssumption
  <2>2. rangeStart' \in Nat /\ rangeStart' <= file BY <2>1, <1>2
  <2>3. \A a, b \in Nat : b <= a => a - b \in Nat OBVIOUS
  <2> QED BY ONLY <2>1, <2>2, <2>3, Zenon
<1>4. PICK sel \in 0 .. file - rangeStart' : rangeEnd' = rangeStart' + sel /\ done' = (sel = 0)
  <2> DEFINE available == file - rangeStart'
             selected == IF settings.length = 0 THEN available ELSE Smaller(settings.length, available)
  <2>1. selected \in 0 .. available BY ONLY <1>1, <1>3, SelectedRange, Zenon
  <2>2. rangeEnd' = rangeStart' + selected /\ done' = (selected = 0) BY Zenon DEF Start
  <2> HIDE DEF selected
  <2>3. \E sel \in 0 .. available : rangeEnd' = rangeStart' + sel /\ done' = (sel = 0) BY <2>1, <2>2, Zenon
  <2> QED BY <2>3
<1>5. rangeEnd' \in rangeStart' .. file
  <2>1. \A a, b : \A c \in 0 .. a - b : (a \in Nat /\ b \in 0 .. a) => b + c \in b .. a OBVIOUS
  <2> QED BY ONLY <2>1, <1>2, <1>3, <1>4, Zenon
<1>6. rangeStart' \in 0 .. FileLen /\ rangeEnd' \in 0 .. FileLen /\ rangeStart' <= rangeEnd'
  BY <1>1, <1>2, <1>5, SizesAssumption
<1>7. IsSchedule(sched') BY <1>6, SortAssumption, Zenon DEF Start
<1>8. cursor' = rangeStart' BY DEF Start
<1>9. done' \in BOOLEAN BY <1>4, Zenon
<1> QED BY <1>2, <1>5, <1>7, <1>8, <1>9

LEMMA StartIInv == IInv /\ Start => IInv'
<1> SUFFICES ASSUME IInv, Start PROVE IInv' OBVIOUS
<1>1. TypeOK BY DEF IInv
<1>2. /\ sched' \in Seq(ScheduledTag) /\ nextTag' = 0 /\ out' = <<>> /\ span' = <<>> /\ pc' = "idle" /\ cursor' = rangeStart'
  BY <1>1, StartTypes DEF Start, IsSchedule
<1>3. TypeOK'
  <2>1. file' \in 0 .. FileLen /\ settings' \in Settings /\ size' \in 0 .. MaxSpan /\ open' \in BOOLEAN
    BY <1>1 DEF Start, TypeOK
  <2>2. rangeStart' \in Nat /\ rangeEnd' \in Nat /\ cursor' \in rangeStart' .. rangeEnd'
    BY <1>1, StartTypes DEF TypeOK
  <2>3. status' \in {"OK", "DONE", "INSUFFICIENT_OUTPUT_ITEMS"} BY DEF Start
  <2> QED BY <1>1, <1>2, <2>1, <2>2, <2>3, StartTypes DEF TypeOK
<1>4. IndexSplits'
  <2>1. \A j \in 1 .. Len(sched') : sched'[j].offset \in Nat
    <3> SUFFICES ASSUME NEW j \in 1 .. Len(sched') PROVE sched'[j].offset \in Nat OBVIOUS
    <3>1. sched'[j] \in ScheduledTag BY <1>2
    <3> QED BY <3>1 DEF ScheduledTag
  <2>2. cursor' - rangeStart' = 0 BY <1>1, <1>2, StartTypes DEF TypeOK
  <2> QED BY <1>2, <2>1, <2>2 DEF IndexSplits
<1>5. TagsWithTheirSamples' BY <1>2 DEF TagsWithTheirSamples
<1> QED BY <1>2, <1>3, <1>4, <1>5 DEF IInv, CallState, FailsOnlyIfCutShort

LEMMA StopIInv == IInv /\ Stop => IInv'
<1> SUFFICES ASSUME IInv, Stop PROVE IInv' OBVIOUS
<1>1. sched' = <<>> /\ nextTag' = 0 /\ out' = <<>> /\ span' = span /\ pc' = "stopped" /\ span = <<>>
  BY DEF Stop, Close, IInv, CallState
<1>2. TypeOK'
  <2>1. open' \in BOOLEAN /\ done' \in BOOLEAN BY Zenon DEF Stop, Close
  <2>2. IsSchedule(<<>>) BY DEF IsSchedule
  <2> QED BY <1>1, <2>1, <2>2 DEF Stop, Close, TypeOK, IInv
<1> QED BY <1>1, <1>2 DEF IInv, IndexSplits, CallState, FailsOnlyIfCutShort, TagsWithTheirSamples

\* Everything that the invariant says of the played samples depends on out,
\* span and the schedule only.
LEMMA TaggedSame ==
  ASSUME TagsWithTheirSamples, UNCHANGED <<out, span, sched, rangeStart>>
  PROVE  TagsWithTheirSamples'
  BY TaggedDef, TaggedDefNext

LEMMA ProcessBulkIInv == ASSUME IInv, NEW n \in 0 .. MaxSpan, ProcessBulk(n) PROVE IInv'
<1>1. /\ UNCHANGED <<file, settings, open, done, rangeStart, rangeEnd, sched, cursor, nextTag, span, out>>
      /\ pc = "idle" /\ pc' \in {"idle", "bulk"} /\ size' \in 0 .. MaxSpan
      /\ status' \in {"OK", "DONE", "INSUFFICIENT_OUTPUT_ITEMS"}
  BY DEF ProcessBulk, playback, IInv, TypeOK
<1>2. TypeOK'
  <2>1. TypeOK BY DEF IInv
  <2> QED BY <1>1, <2>1 DEF TypeOK
<1>3. span = <<>> BY <1>1 DEF IInv, CallState
<1>4. CallState' BY <1>1, <1>3, SizesAssumption DEF CallState
<1> QED BY <1>1, <1>2, <1>4, TaggedSame DEF IInv, IndexSplits, FailsOnlyIfCutShort

LEMMA FinishIInv == IInv /\ Finish => IInv'
<1> SUFFICES ASSUME IInv, Finish PROVE IInv' OBVIOUS
<1>1. /\ UNCHANGED <<file, settings, open, rangeStart, rangeEnd, sched, cursor, nextTag, size, span, status, out>>
      /\ pc = "bulk" /\ pc' = "publish" /\ done' = TRUE
  BY DEF Finish, InLoop
<1>2. TypeOK'
  <2>1. TypeOK BY DEF IInv
  <2> QED BY <1>1, <2>1 DEF TypeOK
<1>3. CallState' BY <1>1 DEF CallState
<1> QED BY <1>1, <1>2, <1>3, TaggedSame DEF IInv, IndexSplits, FailsOnlyIfCutShort

LEMMA ReadChunkIInv == IInv /\ ReadChunk => IInv'
<1> SUFFICES ASSUME IInv, ReadChunk PROVE IInv' OBVIOUS
<1>1. TypeOK /\ IndexSplits /\ CallState /\ TagsWithTheirSamples BY DEF IInv
<1>2. PICK t \in 0 .. Len(sched) :
        /\ EmitReadyTags(t)
        /\ span' = span \o Chunk(t) /\ cursor' = From + NextReadSize(t) /\ nextTag' = t
        /\ pc' = IF NextReadSize(t) = 0 THEN "publish" ELSE "bulk"
  BY DEF ReadChunk
<1>3. InLoop /\ ~ EndsNow /\ UNCHANGED <<file, settings, open, done, rangeStart, rangeEnd, sched, size, status, out>>
  BY DEF ReadChunk, playback
<1> DEFINE k == NextReadSize(t)
<1>4. /\ From \in rangeStart .. rangeEnd /\ k \in 1 .. size - Len(span) /\ From + k <= rangeEnd
      /\ \A j \in 1 .. t : sched[j].offset <= LoopPos
      /\ \A j \in t + 1 .. Len(sched) : sched[j].offset >= LoopPos + k
  BY <1>1, <1>2, <1>3, ChunkSize, Zenon
<1>5. Chunk(t) \in Seq(Item) /\ Len(Chunk(t)) = k /\ TaggedBy(Chunk(t), sched, rangeStart)
  BY <1>1, <1>2, <1>3, ChunkTagged, Zenon
<1> HIDE DEF k
<1>6. span \in Seq(Item) /\ out \in Seq(Item) BY <1>1 DEF TypeOK
<1>7. span' \in Seq(Item) /\ Len(span') = Len(span) + k BY <1>2, <1>5, <1>6, ConcatProperties
<1>8. cursor' = From + k /\ pc' = "bulk" /\ nextTag' = t BY <1>2, <1>4 DEF k
<1>9. TypeOK'
  <2>1. cursor' \in rangeStart' .. rangeEnd' BY <1>1, <1>3, <1>4, <1>8, Positions
  <2>2. nextTag' \in 0 .. Len(sched') BY <1>3, <1>8
  <2> QED BY <1>1, <1>3, <1>7, <1>8, <2>1, <2>2 DEF TypeOK
<1>10. IndexSplits'
  <2>1. cursor' - rangeStart' = LoopPos + k /\ LoopPos \in Int /\ k \in Nat \ {0}
    BY <1>1, <1>3, <1>4, <1>8, Positions DEF LoopPos
  <2>2. \A j \in 1 .. Len(sched) : sched[j].offset \in Nat BY <1>1, Positions
  <2>3. ASSUME NEW j \in 1 .. t PROVE sched[j].offset < LoopPos + k
    <3>1. sched[j].offset <= LoopPos /\ sched[j].offset \in Nat BY <1>1, <1>4, <2>2, Positions
    <3> QED BY <3>1, <2>1
  <2> QED BY <1>3, <1>4, <1>8, <2>1, <2>3 DEF IndexSplits
<1>11. CallState'
  <2>1. Len(span') <= size' BY <1>1, <1>3, <1>4, <1>7, Positions
  <2> QED BY <1>8, <2>1 DEF CallState
<1>12. TagsWithTheirSamples'
  <2>1. TaggedBy(out, sched, rangeStart) /\ TaggedBy(span, sched, rangeStart) BY <1>1, TaggedDef
  <2>2. TaggedBy(span \o Chunk(t), sched, rangeStart) BY <1>5, <1>6, <2>1, TaggedConcat
  <2>3. TaggedBy(out', sched', rangeStart') /\ TaggedBy(span', sched', rangeStart') BY <1>2, <1>3, <2>1, <2>2
  <2> QED BY <2>3, TaggedDefNext
<1> QED BY <1>8, <1>9, <1>10, <1>11, <1>12 DEF IInv, FailsOnlyIfCutShort

LEMMA ShortReadIInv == IInv /\ ShortRead => IInv'
<1> SUFFICES ASSUME IInv, ShortRead PROVE IInv' OBVIOUS
<1>1. TypeOK /\ IndexSplits /\ TagsWithTheirSamples BY DEF IInv
<1>2. PICK t \in 0 .. Len(sched) :
        EmitReadyTags(t) /\ From + NextReadSize(t) > file /\ cursor' = From /\ nextTag' = t
  BY DEF ShortRead
<1>3. /\ InLoop /\ ~ EndsNow /\ span' = <<>> /\ pc' = "error"
      /\ UNCHANGED <<file, settings, open, done, rangeStart, rangeEnd, sched, size, status, out>>
  BY DEF ShortRead, playback
<1> DEFINE k == NextReadSize(t)
<1>4. From \in rangeStart .. rangeEnd /\ From + k <= rangeEnd /\ k \in 1 .. size - Len(span)
  BY <1>1, <1>2, <1>3, ChunkSize, Zenon
<1> HIDE DEF k
<1>5. file' < rangeEnd'
  <2>1. file \in Nat BY <1>1, SizesAssumption DEF TypeOK
  <2> QED BY <1>1, <1>2, <1>3, <1>4, <2>1, Positions DEF k
<1>6. TypeOK' BY <1>1, <1>2, <1>3, <1>4 DEF TypeOK
<1>7. TagsWithTheirSamples' BY <1>1, <1>3, TaggedDef, TaggedDefNext, TaggedEmpty
<1> QED BY <1>3, <1>5, <1>6, <1>7 DEF IInv, IndexSplits, CallState, FailsOnlyIfCutShort

LEMMA PublishIInv == IInv /\ Publish => IInv'
<1> SUFFICES ASSUME IInv, Publish PROVE IInv' OBVIOUS
<1>1. /\ UNCHANGED <<file, settings, done, rangeStart, rangeEnd, sched, cursor, nextTag, size>>
      /\ out' = out \o span /\ span' = <<>> /\ pc' = "idle" /\ pc \in {"bulk", "publish"}
      /\ status' \in {"OK", "DONE"}
  BY DEF Publish
<1>2. out \in Seq(Item) /\ span \in Seq(Item) /\ open \in BOOLEAN BY DEF IInv, TypeOK
<1>3. open' \in BOOLEAN BY <1>2, Zenon DEF Publish
<1>4. out' \in Seq(Item) BY <1>1, <1>2
<1>5. TypeOK'
  <2>1. TypeOK BY DEF IInv
  <2> QED BY <1>1, <1>3, <1>4, <2>1 DEF TypeOK
<1>6. TagsWithTheirSamples'
  <2>1. TaggedBy(out, sched, rangeStart) /\ TaggedBy(span, sched, rangeStart) BY TaggedDef DEF IInv
  <2>2. TaggedBy(out \o span, sched, rangeStart) BY <1>2, <2>1, TaggedConcat
  <2>3. TaggedBy(out', sched', rangeStart') /\ span' = <<>> BY <1>1, <2>2
  <2> QED BY <2>3, TaggedDefNext, TaggedEmpty
<1> QED BY <1>1, <1>5, <1>6 DEF IInv, IndexSplits, CallState, FailsOnlyIfCutShort

LEMMA SetSettingsIInv == IInv /\ SetSettings => IInv'
<1> SUFFICES ASSUME IInv, SetSettings PROVE IInv' OBVIOUS
<1>1. /\ UNCHANGED <<file, open, done, rangeStart, rangeEnd, sched, cursor, nextTag, size, span, pc, status, out>>
      /\ settings' \in Settings
  BY DEF SetSettings, playback
<1>2. TypeOK'
  <2>1. TypeOK BY DEF IInv
  <2> QED BY <1>1, <2>1 DEF TypeOK
<1> QED BY <1>1, <1>2, TaggedSame DEF IInv, IndexSplits, CallState, FailsOnlyIfCutShort

LEMMA CutShortIInv == IInv /\ CutShort => IInv'
<1> SUFFICES ASSUME IInv, CutShort PROVE IInv' OBVIOUS
<1>1. /\ UNCHANGED <<settings, open, done, rangeStart, rangeEnd, sched, cursor, nextTag, size, span, pc, status, out>>
      /\ file' \in 0 .. file - 1
  BY DEF CutShort, playback
<1>2. file \in 0 .. FileLen /\ file' \in 0 .. FileLen /\ file' < file
  BY <1>1, SizesAssumption DEF IInv, TypeOK
<1>3. TypeOK'
  <2>1. TypeOK BY DEF IInv
  <2> QED BY <1>1, <1>2, <2>1 DEF TypeOK
<1>4. FailsOnlyIfCutShort'
  <2>1. rangeEnd \in Nat BY DEF IInv, TypeOK
  <2> QED BY <1>1, <1>2, <2>1, SizesAssumption DEF IInv, FailsOnlyIfCutShort
<1> QED BY <1>1, <1>3, <1>4, TaggedSame DEF IInv, IndexSplits, CallState

LEMMA NextIInv == IInv /\ [Next]_vars => IInv'
<1> SUFFICES ASSUME IInv, [Next]_vars PROVE IInv' OBVIOUS
<1>1. ASSUME NEW n \in 1 .. MaxSpan, ProcessBulk(n) PROVE IInv'
  BY <1>1, ProcessBulkIInv, SizesAssumption
<1>2. CASE ProcessBulk(0) BY <1>2, ProcessBulkIInv, SizesAssumption
<1>3. CASE UNCHANGED vars
  <2>1. UNCHANGED <<file, settings, open, done, rangeStart, rangeEnd, sched, cursor, nextTag, size, span, pc, status, out>>
    BY <1>3 DEF vars, playback
  <2>2. TypeOK'
    <3>1. TypeOK BY DEF IInv
    <3> QED BY <2>1, <3>1 DEF TypeOK
  <2> QED BY <2>1, <2>2, TaggedSame DEF IInv, IndexSplits, CallState, FailsOnlyIfCutShort
<1> QED
  BY <1>1, <1>2, <1>3, StartIInv, StopIInv, FinishIInv, ReadChunkIInv, ShortReadIInv, PublishIInv,
     SetSettingsIInv, CutShortIInv, Zenon DEF Next, Work

\* The conjunction is inductive: a sample's tags need the index to be in step
\* with the position, the reads need both inside the window.
THEOREM Invariance == Spec => []IInv
  BY InitIInv, NextIInv, PTL DEF Spec

\* Types: positions stay inside the window that start() chose.
THEOREM TypeCorrect == Spec => []TypeOK
<1>1. IInv => TypeOK BY DEF IInv
<1> QED BY <1>1, Invariance, PTL

\* However the spans, the chunks and the passes are cut, each sample has the
\* tags that the schedule puts on it, and only those.
THEOREM TagsCorrect == Spec => []TagsWithTheirSamples
<1>1. IInv => TagsWithTheirSamples BY DEF IInv
<1> QED BY <1>1, Invariance, PTL

\* The block never reads outside the window it measured.
THEOREM ReadsInsideFile == Spec => []FailsOnlyIfCutShort
<1>1. IInv => FailsOnlyIfCutShort BY DEF IInv
<1> QED BY <1>1, Invariance, PTL

\* A call that reports OK has filled its span.
THEOREM CallsFillSpans == Spec => OkFillsSpan
<1> DEFINE Fills == (status' = "OK" /\ pc \in {"bulk", "publish"} /\ pc' = "idle") => Len(out') = Len(out) + size
<1>1. ASSUME IInv, [Next]_vars PROVE [Fills]_vars
  <2> SUFFICES ASSUME status' = "OK", pc \in {"bulk", "publish"}, pc' = "idle", Next PROVE Len(out') = Len(out) + size
    BY <1>1
  <2>1. Publish
    <3>1. ASSUME ReadChunk PROVE pc' # "idle" BY <3>1 DEF ReadChunk
    <3>2. ~ Finish /\ ~ ShortRead /\ ~ SetSettings /\ ~ Start /\ ~ Stop /\ ~ CutShort
      BY DEF Finish, ShortRead, SetSettings, Start, Stop, CutShort
    <3>3. \A n \in 0 .. MaxSpan : ~ ProcessBulk(n) BY DEF ProcessBulk
    <3> QED BY <3>1, <3>2, <3>3, SizesAssumption DEF Next, Work
  <2>2. ~ done /\ out' = out \o span BY <2>1 DEF Publish
  <2>3. Len(span) = size BY <2>1, <2>2, <1>1 DEF Publish, IInv, CallState
  <2>4. out \in Seq(Item) /\ span \in Seq(Item) BY <1>1 DEF IInv, TypeOK
  <2> QED BY <2>2, <2>3, <2>4, ConcatProperties
<1> QED BY <1>1, Invariance, PTL DEF Spec, OkFillsSpan

EventNames == {StartEvent} \cup {Events[i].tag : i \in DOMAIN Events}

LEMMA EventsTyped ==
  /\ ScheduledTag = [offset : Nat, tag : EventNames] /\ Seq(ScheduledTag) \subseteq Seq(TagsWith(EventNames))
  /\ Events \in Seq(TagsWith(EventNames))
<1>1. ScheduledTag = [offset : Nat, tag : EventNames] BY DEF ScheduledTag, EventNames
<1>2. ScheduledTag \subseteq TagsWith(EventNames)
  <2>1. Nat \subseteq Int OBVIOUS
  <2> QED BY <1>1, <2>1 DEF TagsWith
<1>3. Seq(ScheduledTag) \subseteq Seq(TagsWith(EventNames))
  <2> SUFFICES ASSUME NEW s \in Seq(ScheduledTag) PROVE s \in Seq(TagsWith(EventNames)) OBVIOUS
  <2>1. \A i \in 1 .. Len(s) : s[i] \in TagsWith(EventNames) BY <1>2
  <2> QED BY <2>1
<1>4. Events \in Seq(TagsWith(EventNames))
  <2> DEFINE E == [offset : Nat, tag : {Events[i].tag : i \in DOMAIN Events}]
  <2>1. Events \in Seq(E) BY SizesAssumption
  <2>2. E \subseteq TagsWith(EventNames)
    <3>1. Nat \subseteq Int OBVIOUS
    <3> QED BY <3>1 DEF TagsWith, EventNames
  <2> HIDE DEF E
  <2>3. \A i \in 1 .. Len(Events) : Events[i] \in TagsWith(EventNames) BY <2>1, <2>2
  <2> QED BY <2>1, <2>3
<1> QED BY <1>1, <1>3, <1>4

\* What the schedule has for a sample of the window are the events on it.
LEMMA ScheduleNames ==
  ASSUME NEW from \in 0 .. FileLen, NEW to \in 0 .. FileLen, from <= to, NEW n \in from .. to - 1
  PROVE  Names(TagsAt(TagSchedule(from, to), n - from))
           = (IF n = from THEN <<StartEvent>> ELSE <<>>) \o Names(TagsAt(Events, n))
<1> DEFINE first == [offset |-> 0, tag |-> StartEvent]
           E == EventNames
           a == <<first>>
           A == from .. to - 1
           b == Shift(Within(Events, A), - from)
           o == n - from
<1>1. from \in Nat /\ to \in Nat /\ n \in A /\ n \in Int /\ - from \in Int /\ o \in 0 .. to - from /\ n + (- from) = o
      /\ (o = 0 <=> n = from)
  BY SizesAssumption
<1>2. first \in TagsWith(E) /\ a \in Seq(TagsWith(E)) /\ first.offset = 0 /\ first.tag = StartEvent
  BY DEF TagsWith, EventNames
<1>3. Within(Events, A) \in Seq(TagsWith(E)) BY EventsTyped, WithinType
<1>4. b \in Seq(TagsWith(E))
  <2> HIDE DEF A
  <2> QED BY <1>1, <1>3, Shifted
<1>5. TagsAt(TagSchedule(from, to), o) = TagsAt(a \o b, o)
  <2>1. UnsortedTags(from, to) = a \o b BY DEF UnsortedTags
  <2> HIDE DEF o, a, b
  <2> QED BY <1>1, <2>1, SortAssumption
<1>6. Names(TagsAt(b, o)) = Names(TagsAt(Events, n))
  <2>1. n \in A /\ n \in Int /\ - from \in Int BY <1>1
  <2>2. Events \in Seq(TagsWith(E)) BY EventsTyped
  <2> HIDE DEF A
  <2>3. Names(TagsAt(Shift(Within(Events, A), - from), n + (- from))) = Names(TagsAt(Events, n))
    BY ONLY <2>1, <2>2, NamesShifted
  <2> QED BY <1>1, <2>3
<1> HIDE DEF b
<1>7. Names(TagsAt(a, o)) = IF n = from THEN <<StartEvent>> ELSE <<>>
  <2>1. a = Append(<<>>, first) /\ <<>> \in Seq(TagsWith(E)) OBVIOUS
  <2> HIDE DEF a, first
  <2>2. /\ first.offset \in {o} => TagsAt(Append(<<>>, first), o) = Append(TagsAt(<<>>, o), first)
        /\ first.offset \notin {o} => TagsAt(Append(<<>>, first), o) = TagsAt(<<>>, o)
    <3> DEFINE D == {o}
    <3>1. <<>> \in Seq(TagsWith(E)) /\ first \in TagsWith(E) BY <1>2, <2>1
    <3> HIDE DEF D, E, A, o
    <3>2. /\ first.offset \in D => Within(Append(<<>>, first), D) = Append(Within(<<>>, D), first)
          /\ first.offset \notin D => Within(Append(<<>>, first), D) = Within(<<>>, D)
      BY ONLY <3>1, WithinAppend
    <3> QED BY <3>2, Zenon DEF TagsAt, D
  <2>3. TagsAt(<<>>, o) = <<>> BY WithinEmpty DEF TagsAt
  <2>4. Names(<<>>) = <<>> BY <2>1, NamesOf
  <2>5. CASE n = from
    <3>1. TagsAt(a, o) = Append(<<>>, first) BY <1>1, <1>2, <2>1, <2>2, <2>3, <2>5
    <3>2. Names(Append(<<>>, first)) = Append(Names(<<>>), first.tag) BY <1>2, <2>1, NamesAppend
    <3>3. Append(<<>>, StartEvent) = <<StartEvent>> OBVIOUS
    <3> QED BY <1>2, <2>4, <2>5, <3>1, <3>2, <3>3
  <2>6. CASE n # from
    <3>1. TagsAt(a, o) = <<>> BY <1>1, <1>2, <2>1, <2>2, <2>3, <2>6
    <3> QED BY <2>4, <2>6, <3>1
  <2> QED BY <2>5, <2>6
<1> HIDE DEF a
<1>8. TagsAt(a \o b, o) = TagsAt(a, o) \o TagsAt(b, o)
  <2> HIDE DEF o
  <2> QED BY <1>2, <1>4, WithinApart DEF TagsAt
<1>9. TagsAt(a, o) \in Seq(TagsWith(E)) /\ TagsAt(b, o) \in Seq(TagsWith(E))
  <2> HIDE DEF o, E
  <2> QED BY <1>2, <1>4, ThoseAt DEF AllTags
<1>10. Names(TagsAt(a, o) \o TagsAt(b, o)) = Names(TagsAt(a, o)) \o Names(TagsAt(b, o))
  <2> HIDE DEF o
  <2> QED BY ONLY <1>9, NamesApart
<1> HIDE DEF o
<1> QED BY <1>5, <1>6, <1>7, <1>8, <1>10, Zenon DEF o

\* The samples of s, the first of them number base of those played.
Plays(s, base, start, pass, schedule) ==
  \A i \in 1 .. Len(s) :
    /\ s[i].sample = start + ((base + i - 1) % pass)
    /\ s[i].tags = TagsAt(schedule, s[i].sample - start)

\* How far into the pass the position is after n samples.
After(n, pass) == IF n = 0 THEN 0 ELSE ((n - 1) % pass) + 1

LEMMA PlaysConcat ==
  ASSUME NEW s \in Seq(Item), NEW t \in Seq(Item), NEW base \in Nat, NEW start, NEW pass, NEW schedule,
         Plays(s, base, start, pass, schedule), Plays(t, base + Len(s), start, pass, schedule)
  PROVE  Plays(s \o t, base, start, pass, schedule)
<1> DEFINE z == s \o t
           Right(e, n) == e.sample = start + (n % pass) /\ e.tags = TagsAt(schedule, e.sample - start)
<1>1. /\ z \in Seq(Item) /\ Len(z) = Len(s) + Len(t) /\ \A i \in 1 .. Len(s) : z[i] = s[i]
      /\ \A i \in Len(s) + 1 .. Len(s) + Len(t) : z[i] = t[i - Len(s)]
  BY Concatenation
<1>2. Len(s) \in Nat /\ Len(t) \in Nat OBVIOUS
<1>3. \A i \in 1 .. Len(s) : Right(s[i], base + i - 1) BY Zenon DEF Plays
<1>4. \A i \in 1 .. Len(t) : Right(t[i], base + Len(s) + i - 1) BY Zenon DEF Plays
<1> HIDE DEF z, Right
<1>5. ASSUME NEW i \in 1 .. Len(z) PROVE Right(z[i], base + i - 1)
  <2>1. CASE i <= Len(s)
    <3>1. i \in 1 .. Len(s) BY <1>1, <1>2, <2>1
    <3> QED BY <1>1, <1>3, <3>1
  <2>2. CASE ~ (i <= Len(s))
    <3> DEFINE k == i - Len(s)
    <3>1. i \in Len(s) + 1 .. Len(s) + Len(t) /\ k \in 1 .. Len(t) /\ base + Len(s) + k - 1 = base + i - 1
      BY <1>1, <1>2, <2>2
    <3>2. z[i] = t[k] BY <1>1, <3>1
    <3> HIDE DEF k
    <3> QED BY <1>4, <3>1, <3>2
  <2> QED BY <2>1, <2>2
<1> QED BY <1>5, Zenon DEF Plays, Right, z

LEMMA PlaysNothing == ASSUME NEW b, NEW start, NEW pass, NEW schedule PROVE Plays(<<>>, b, start, pass, schedule)
  BY DEF Plays

\* A number within a pass is its own remainder.
LEMMA WithinPass ==
  ASSUME NEW p \in Nat \ {0}, NEW r \in 0 .. p - 1 PROVE r % p = r
<1>1. r \in Nat /\ 0 \in Int /\ r = 0 * p + r OBVIOUS
<1> QED BY <1>1, DivisionIs

\* How the position goes on, and where it is at the end of a pass.
LEMMA AfterMore ==
  ASSUME NEW p \in Nat \ {0}, NEW n \in Nat
  PROVE  /\ After(n, p) \in 0 .. p /\ (n = 0 <=> After(n, p) = 0)
         /\ n % p = IF After(n, p) = p THEN 0 ELSE After(n, p)
         /\ \A k \in Nat \ {0} : (n % p) + k <= p => After(n + k, p) = (n % p) + k
<1>1. n % p \in 0 .. p - 1 BY Division
<1>2. ASSUME NEW k \in Nat \ {0}, (n % p) + k <= p PROVE After(n + k, p) = (n % p) + k
  <2> DEFINE r == n % p
  <2>1. n + k # 0 /\ n + k - 1 = n + (k - 1) /\ k - 1 \in Nat OBVIOUS
  <2>2. (r + (k - 1)) % p = (n + (k - 1)) % p BY <2>1, RemainderOfSum
  <2>3. r \in 0 .. p - 1 BY <1>1
  <2> HIDE DEF r
  <2>4. r + (k - 1) \in 0 .. p - 1 BY <1>2, <2>1, <2>3 DEF r
  <2>5. (r + (k - 1)) % p = r + (k - 1) BY <2>4, WithinPass
  <2>6. After(n + k, p) = ((n + (k - 1)) % p) + 1 BY <2>1 DEF After
  <2>7. After(n + k, p) = r + (k - 1) + 1 BY <2>2, <2>5, <2>6
  <2> QED BY <2>3, <2>7 DEF r
<1>3. CASE n = 0
  <2>1. n % p = 0 BY <1>3, WithinPass
  <2> QED BY <1>2, <1>3, <2>1 DEF After
<1>4. CASE n # 0
  <2> DEFINE m == n - 1
             r == m % p
  <2>1. m \in Nat /\ n = m + 1 BY <1>4
  <2>2. r \in 0 .. p - 1 BY <2>1, Division
  <2>3. After(n, p) = r + 1 BY <1>4 DEF After
  <2>4. (r + 1) % p = n % p
    <3>1. 1 \in Nat OBVIOUS
    <3> QED BY <2>1, <3>1, RemainderOfSum
  <2> HIDE DEF r, m
  <2>5. CASE r + 1 = p
    <3>1. 0 \in Nat /\ p = 0 + p OBVIOUS
    <3>2. p % p = 0
      <4>1. (0 + p) % p = 0 % p BY <3>1, FullTurn
      <4>2. 0 % p = 0 BY WithinPass
      <4> QED BY <3>1, <4>1, <4>2
    <3> QED BY <1>2, <1>4, <2>2, <2>3, <2>4, <2>5, <3>2
  <2>6. CASE r + 1 # p
    <3>1. r + 1 \in 0 .. p - 1 BY <2>2, <2>6
    <3>2. (r + 1) % p = r + 1 BY <3>1, WithinPass
    <3> QED BY <1>2, <1>4, <2>2, <2>3, <2>4, <2>6, <3>1, <3>2
  <2> QED BY <2>5, <2>6
<1> QED BY <1>3, <1>4

\* The window start() chose is the one being played, by its own schedule.
OneWindow ==
  /\ rangeEnd <= FileLen
  /\ pc # "stopped" => sched = TagSchedule(rangeStart, rangeEnd)
  /\ rangeStart = rangeEnd \/ pc = "stopped" => out = <<>> /\ span = <<>>
  /\ pc = "stopped" => rangeStart = rangeEnd

\* What is out and what is in the span follow each other, and the position them.
InPasses ==
  /\ Plays(out, 0, rangeStart, rangeEnd - rangeStart, sched)
  /\ Plays(span, Len(out), rangeStart, rangeEnd - rangeStart, sched)
  /\ pc # "error" => cursor - rangeStart = After(Len(out) + Len(span), rangeEnd - rangeStart)

\* Without repeat a span has no sample of another pass, nor one after a pass.
NoOtherPass ==
  ~ settings.repeat /\ span # <<>> =>
    /\ out = <<>> \/ Len(out) % (rangeEnd - rangeStart) # 0
    /\ cursor - rangeStart = (Len(out) % (rangeEnd - rangeStart)) + Len(span)

\* DONE is reported at the end only, and kept.
EndsOnce ==
  /\ pc = "stopped" \/ open \/ done
  /\ status = "DONE" => done
  /\ done /\ pc # "publish" => rangeStart = rangeEnd \/ status = "DONE"
  /\ pc \in {"bulk", "publish"} => status # "DONE"
  /\ pc \in {"bulk", "error"} => ~ done
  /\ pc = "publish" => EndsNow

PlayInv == OneWindow /\ InPasses /\ NoOtherPass /\ EndsOnce

\* An iteration goes on where the samples so far end.
LEMMA FromPlace ==
  ASSUME TypeOK, IndexSplits, InPasses, InLoop, ~ EndsNow, NEW t \in 0 .. Len(sched), EmitReadyTags(t)
  PROVE  /\ rangeEnd - rangeStart \in Nat \ {0} /\ Len(out) \in Nat /\ Len(span) \in Nat
         /\ LoopPos = (Len(out) + Len(span)) % (rangeEnd - rangeStart) /\ LoopPos \in Nat
         /\ NextReadSize(t) \in Nat \ {0} /\ LoopPos + NextReadSize(t) <= rangeEnd - rangeStart
         /\ From = rangeStart + LoopPos /\ rangeStart \in Nat
<1> DEFINE p == rangeEnd - rangeStart
           n == Len(out) + Len(span)
<1>1. /\ From \in rangeStart .. rangeEnd /\ From < rangeEnd /\ NextReadSize(t) \in 1 .. size - Len(span)
      /\ From + NextReadSize(t) <= rangeEnd
  BY ChunkSize, Zenon
<1>2. /\ rangeStart \in Nat /\ rangeEnd \in Nat /\ cursor \in Nat /\ rangeStart <= cursor /\ cursor <= rangeEnd
      /\ Len(span) \in Nat /\ size \in Nat
  BY Positions, Zenon
<1>3. Len(out) \in Nat BY DEF TypeOK
<1>4. p \in Nat \ {0} /\ n \in Nat BY <1>1, <1>2, <1>3
<1>5. cursor - rangeStart = After(n, p) BY Zenon DEF InPasses, InLoop
<1> HIDE DEF p, n
<1>6. After(n, p) \in 0 .. p /\ n % p = IF After(n, p) = p THEN 0 ELSE After(n, p) BY <1>4, AfterMore
<1>7. From - rangeStart = n % p
  <2>1. CASE AtEnd
    <3>1. From = rangeStart /\ cursor = rangeEnd BY <1>2, <2>1 DEF From, AtEnd
    <3> QED BY <1>2, <1>5, <1>6, <3>1 DEF p
  <2>2. CASE ~ AtEnd
    <3>1. From = cursor /\ cursor < rangeEnd BY <1>2, <2>2 DEF From, AtEnd
    <3> QED BY <1>2, <1>5, <1>6, <3>1 DEF p
  <2> QED BY <2>1, <2>2
<1>8. LoopPos = n % p /\ LoopPos \in Nat /\ From = rangeStart + LoopPos BY <1>1, <1>2, <1>7 DEF LoopPos
<1>9. NextReadSize(t) \in Nat \ {0} BY <1>1, <1>2
<1>10. LoopPos + NextReadSize(t) <= p BY <1>1, <1>2, <1>8, <1>9 DEF p
<1> QED BY <1>2, <1>3, <1>4, <1>8, <1>9, <1>10 DEF p, n

\* A chunk continues the samples so far, each with its tags.
LEMMA ChunkPlays ==
  ASSUME TypeOK, IndexSplits, InPasses, InLoop, ~ EndsNow, NEW t \in 0 .. Len(sched), EmitReadyTags(t)
  PROVE  Plays(Chunk(t), Len(out) + Len(span), rangeStart, rangeEnd - rangeStart, sched)
<1> DEFINE p == rangeEnd - rangeStart
           n == Len(out) + Len(span)
           k == NextReadSize(t)
           c == Chunk(t)
           ready == SubSeq(sched, FromTag + 1, t)
           r == LoopPos
<1>1. /\ p \in Nat \ {0} /\ n \in Nat /\ r = n % p /\ r \in Nat /\ k \in Nat \ {0} /\ r + k <= p
      /\ From = rangeStart + r /\ rangeStart \in Nat
  BY FromPlace
<1>2. /\ FromTag \in 0 .. Len(sched)
      /\ \A j \in 1 .. FromTag : sched[j].offset < r
      /\ \A j \in t + 1 .. Len(sched) : sched[j].offset >= r + k
      /\ \A j \in 1 .. t : sched[j].offset <= r
  BY ChunkSize, Zenon
<1>3. t \in FromTag .. Len(sched) /\ \A j \in FromTag + 1 .. t : sched[j].offset = r
  BY DEF EmitReadyTags
<1>4. /\ sched \in Seq(ScheduledTag) /\ Len(sched) \in Nat /\ \A j \in 1 .. Len(sched) : sched[j].offset \in Nat
  BY Positions, Zenon
<1>5. sched \in Seq(TagsWith(EventNames)) BY <1>4, EventsTyped
<1>6. c = [i \in 1 .. k |-> [sample |-> From + i - 1, tags |-> IF i = 1 THEN ready ELSE <<>>]]
  BY DEF Chunk
<1> HIDE DEF c, k, r, p, n
<1>7. TagsAt(sched, r) = ready
  <2>1. ASSUME NEW j \in 1 .. FromTag PROVE sched[j].offset # r
    <3>1. sched[j].offset \in Nat /\ sched[j].offset < r BY <1>2, <1>4
    <3> QED BY <1>1, <3>1
  <2>2. ASSUME NEW j \in t + 1 .. Len(sched) PROVE sched[j].offset # r
    <3>1. j \in 1 .. Len(sched) BY <1>2, <1>3, <1>4
    <3>2. sched[j].offset \in Nat /\ sched[j].offset >= r + k BY <1>2, <1>4, <3>1
    <3> QED BY <1>1, <3>2
  <2> HIDE DEF ready
  <2>3. TagsAt(sched, r) = SubSeq(sched, FromTag + 1, t) BY ONLY <1>2, <1>3, <1>5, <2>1, <2>2, TagsBetween
  <2> QED BY <2>3 DEF ready
<1> HIDE DEF ready
<1>8. Len(c) = k
  <2>1. c = [i \in 1 .. k |-> c[i]] BY <1>6
  <2> QED BY <1>1, <2>1
<1>9. ASSUME NEW i \in 1 .. Len(c)
      PROVE c[i].sample = rangeStart + ((n + i - 1) % p) /\ c[i].tags = TagsAt(sched, c[i].sample - rangeStart)
  <2>1. i \in 1 .. k /\ i - 1 \in Nat /\ n + (i - 1) = n + i - 1 BY <1>1, <1>8
  <2>2. c[i].sample = From + i - 1 /\ c[i].tags = IF i = 1 THEN ready ELSE <<>> BY <1>6, <2>1
  <2>3. r + (i - 1) \in 0 .. p - 1 BY <1>1, <2>1
  <2>4. (r + (i - 1)) % p = r + (i - 1) BY <1>1, <2>3, WithinPass
  <2>5. (r + (i - 1)) % p = (n + (i - 1)) % p BY <1>1, <2>1, RemainderOfSum
  <2>6. (n + i - 1) % p = r + (i - 1) BY <2>1, <2>4, <2>5
  <2>7. c[i].sample = rangeStart + (r + (i - 1)) /\ c[i].sample - rangeStart = r + (i - 1) BY <1>1, <2>1, <2>2
  <2>8. c[i].tags = TagsAt(sched, c[i].sample - rangeStart)
    <3>1. CASE i = 1
      <4>1. c[i].sample - rangeStart = r /\ c[i].tags = ready BY <1>1, <2>2, <2>7, <3>1
      <4> QED BY <1>7, <4>1, Zenon
    <3>2. CASE i # 1
      <4> DEFINE x == r + (i - 1)
      <4>0. r < x /\ x < r + k /\ x \in Nat BY <1>1, <2>1, <3>2
      <4> HIDE DEF x
      <4>1. ASSUME NEW j \in 1 .. Len(sched) PROVE sched[j].offset # x
        <5>1. CASE j <= t
          <6>1. j \in 1 .. t BY <5>1
          <6>2. sched[j].offset <= r /\ sched[j].offset \in Nat BY <1>2, <1>4, <6>1
          <6> QED BY <1>1, <4>0, <6>2
        <5>2. CASE ~ (j <= t)
          <6>1. j \in t + 1 .. Len(sched) BY <5>2, <1>2, <1>3, <1>4
          <6>2. sched[j].offset >= r + k /\ sched[j].offset \in Nat BY <1>2, <1>4, <6>1
          <6> QED BY <1>1, <4>0, <6>2
        <5> QED BY <5>1, <5>2
      <4> DEFINE D == {x}
      <4>2. \A j \in 1 .. Len(sched) : sched[j].offset \notin D BY <4>1
      <4> HIDE DEF D
      <4>3. Within(sched, D) = <<>> BY <1>5, <4>2, WithinType
      <4>4. TagsAt(sched, x) = <<>> BY <4>3, Zenon DEF TagsAt, D
      <4> QED BY <2>2, <2>7, <3>2, <4>4, Zenon DEF x
    <3> QED BY <3>1, <3>2
  <2> QED BY <2>6, <2>7, <2>8
<1>10. Plays(c, n, rangeStart, p, sched) BY <1>9, Zenon DEF Plays
<1> QED BY <1>10 DEF c, n, p

LEMMA InitPlay == Init => PlayInv
<1> SUFFICES ASSUME Init PROVE PlayInv OBVIOUS
<1>1. /\ rangeStart = 0 /\ rangeEnd = 0 /\ cursor = 0 /\ out = <<>> /\ span = <<>> /\ pc = "stopped" /\ status = "OK"
      /\ done = FALSE
  BY DEF Init
<1>2. OneWindow BY <1>1, SizesAssumption DEF OneWindow
<1>3. InPasses
  <2>1. Len(out) + Len(span) = 0 /\ cursor - rangeStart = 0 BY <1>1
  <2>2. cursor - rangeStart = After(Len(out) + Len(span), rangeEnd - rangeStart) BY <2>1 DEF After
  <2> QED BY <1>1, <2>2, PlaysNothing, Zenon DEF InPasses
<1>4. NoOtherPass BY <1>1 DEF NoOtherPass
<1>5. EndsOnce BY <1>1 DEF EndsOnce
<1> QED BY <1>2, <1>3, <1>4, <1>5 DEF PlayInv

\* A window is chosen, or none: everything starts again.
LEMMA FromStart ==
  ASSUME out' = <<>>, span' = <<>>, cursor' = rangeStart', rangeStart' \in Nat PROVE InPasses' /\ NoOtherPass'
<1>1. Len(out') + Len(span') = 0 /\ cursor' - rangeStart' = 0
  <2>1. Len(<<>>) = 0 OBVIOUS
  <2>2. Len(out') = 0 /\ Len(span') = 0 BY <2>1
  <2>3. \A x \in Nat : x - x = 0 OBVIOUS
  <2>4. cursor' - rangeStart' = 0 BY ONLY <2>3, cursor' = rangeStart', rangeStart' \in Nat, Zenon
  <2>5. 0 + 0 = 0 OBVIOUS
  <2> QED BY <2>2, <2>4, <2>5, Zenon
<1>2. cursor' - rangeStart' = After(Len(out') + Len(span'), rangeEnd' - rangeStart') BY <1>1 DEF After
<1>3. Plays(out', 0, rangeStart', rangeEnd' - rangeStart', sched') BY PlaysNothing
<1>4. Plays(span', Len(out'), rangeStart', rangeEnd' - rangeStart', sched') BY PlaysNothing
<1>5. NoOtherPass' BY DEF NoOtherPass
<1> QED BY <1>2, <1>3, <1>4, <1>5 DEF InPasses

LEMMA StartPlay == IInv /\ PlayInv /\ Start => PlayInv'
<1> SUFFICES ASSUME IInv, PlayInv, Start PROVE PlayInv' OBVIOUS
<1>1. TypeOK BY DEF IInv
<1>2. /\ rangeStart' \in 0 .. file /\ rangeEnd' \in rangeStart' .. file /\ cursor' = rangeStart' BY <1>1, StartTypes
<1>3. /\ out' = <<>> /\ span' = <<>> /\ pc' = "idle" /\ status' = "OK" /\ open' = TRUE
      /\ sched' = TagSchedule(rangeStart', rangeEnd')
  BY DEF Start
<1>4. file \in 0 .. FileLen /\ file \in Nat /\ FileLen \in Nat BY <1>1, SizesAssumption DEF TypeOK
<1>5. OneWindow'
  <2>1. rangeEnd' <= FileLen BY <1>2, <1>4
  <2> QED BY <1>3, <2>1 DEF OneWindow
<1>6. InPasses' /\ NoOtherPass'
  <2>1. rangeStart' \in Nat BY <1>2, <1>4
  <2> QED BY <1>2, <1>3, <2>1, FromStart
<1>7. EndsOnce'
  <2>1. done' => rangeStart' = rangeEnd'
    <3> DEFINE available == file - rangeStart'
               selected == IF settings.length = 0 THEN available ELSE Smaller(settings.length, available)
    <3>1. rangeEnd' = rangeStart' + selected /\ done' = (selected = 0) BY Zenon DEF Start
    <3> DEFINE s == selected
    <3>2. rangeEnd' = rangeStart' + s /\ done' = (s = 0) BY <3>1
    <3>3. rangeStart' \in Nat BY <1>2, <1>4
    <3> HIDE DEF s
    <3>4. ASSUME done' PROVE s = 0 BY <3>2, <3>4, Zenon
    <3>6. \A x \in Nat : x + 0 = x OBVIOUS
    <3>5. s = 0 => rangeStart' + s = rangeStart' BY ONLY <3>3, <3>6, Zenon
    <3> QED BY <3>2, <3>4, <3>5, Zenon
  <2> QED BY <1>3, <2>1 DEF EndsOnce
<1> QED BY <1>5, <1>6, <1>7 DEF PlayInv

LEMMA StopPlay == IInv /\ PlayInv /\ Stop => PlayInv'
<1> SUFFICES ASSUME IInv, PlayInv, Stop PROVE PlayInv' OBVIOUS
<1>1. /\ span' = <<>> /\ out' = <<>> /\ pc' = "stopped" /\ status' = "OK" /\ done' = FALSE
      /\ rangeStart' = 0 /\ rangeEnd' = 0 /\ cursor' = 0
  BY DEF Stop, Close, IInv, CallState
<1>2. InPasses' /\ NoOtherPass'
  <2>1. cursor' = rangeStart' /\ rangeStart' \in Nat BY <1>1
  <2> QED BY <1>1, <2>1, FromStart
<1>3. OneWindow' BY <1>1, SizesAssumption DEF OneWindow
<1>4. EndsOnce' BY <1>1 DEF EndsOnce
<1> QED BY <1>2, <1>3, <1>4 DEF PlayInv

\* A step that plays nothing.
Still == UNCHANGED <<rangeStart, rangeEnd, cursor, sched, span, out>>

LEMMA StillInPasses ==
  ASSUME PlayInv, Still, pc' # "error" => pc # "error", pc' # "stopped" <=> pc # "stopped" PROVE OneWindow' /\ InPasses'
<1>1. OneWindow' BY DEF PlayInv, OneWindow, Still
<1>2. InPasses' BY DEF PlayInv, InPasses, Still
<1> QED BY <1>1, <1>2

LEMMA ProcessBulkPlay == ASSUME IInv, PlayInv, NEW n \in 0 .. MaxSpan, ProcessBulk(n) PROVE PlayInv'
<1>1. /\ Still /\ UNCHANGED <<settings, open, done>> /\ pc = "idle" /\ pc' \in {"idle", "bulk"} /\ span = <<>>
  BY DEF ProcessBulk, playback, Still, IInv, CallState
<1>2. OneWindow' /\ InPasses' BY <1>1, StillInPasses
<1>3. NoOtherPass' BY <1>1 DEF NoOtherPass, Still
<1>4. EndsOnce'
  <2>0. EndsOnce /\ UNCHANGED <<rangeStart, rangeEnd>> BY <1>1 DEF PlayInv, Still
  <2>1. CASE ~ open \/ done
    <3>1. status' = "DONE" /\ pc' = "idle" BY <1>1, <2>1 DEF ProcessBulk
    <3> QED BY <1>1, <2>0, <2>1, <3>1 DEF EndsOnce
  <2>2. CASE ~ (~ open \/ done) /\ n = 0
    <3>1. status' = "INSUFFICIENT_OUTPUT_ITEMS" /\ pc' = "idle" BY <1>1, <2>2 DEF ProcessBulk
    <3> QED BY <1>1, <2>0, <2>2, <3>1 DEF EndsOnce
  <2>3. CASE ~ (~ open \/ done) /\ n # 0
    <3>1. status' = status /\ pc' = "bulk" BY <1>1, <2>3 DEF ProcessBulk
    <3> QED BY <1>1, <2>0, <2>3, <3>1 DEF EndsOnce
  <2> QED BY <2>1, <2>2, <2>3
<1> QED BY <1>2, <1>3, <1>4 DEF PlayInv

LEMMA FinishPlay == IInv /\ PlayInv /\ Finish => PlayInv'
<1> SUFFICES ASSUME IInv, PlayInv, Finish PROVE PlayInv' OBVIOUS
<1>1. /\ Still /\ UNCHANGED <<settings, open, status>> /\ pc = "bulk" /\ pc' = "publish" /\ done' = TRUE /\ EndsNow
  BY DEF Finish, InLoop, Still
<1>2. OneWindow' /\ InPasses' BY <1>1, StillInPasses
<1>3. NoOtherPass' BY <1>1 DEF NoOtherPass, PlayInv, Still
<1>4. EndsNow' BY <1>1 DEF EndsNow, AtEnd, Still
<1>5. EndsOnce' BY <1>1, <1>4 DEF EndsOnce, PlayInv
<1> QED BY <1>2, <1>3, <1>5 DEF PlayInv

LEMMA ReadChunkPlay == IInv /\ PlayInv /\ ReadChunk => PlayInv'
<1> SUFFICES ASSUME IInv, PlayInv, ReadChunk PROVE PlayInv' OBVIOUS
<1>1. TypeOK /\ IndexSplits /\ OneWindow /\ InPasses /\ NoOtherPass /\ EndsOnce BY DEF IInv, PlayInv
<1>2. PICK t \in 0 .. Len(sched) :
        /\ EmitReadyTags(t)
        /\ span' = span \o Chunk(t) /\ cursor' = From + NextReadSize(t)
        /\ pc' = IF NextReadSize(t) = 0 THEN "publish" ELSE "bulk"
  BY DEF ReadChunk
<1>3. /\ InLoop /\ ~ EndsNow /\ UNCHANGED <<settings, open, done, rangeStart, rangeEnd, sched, status, out>> /\ pc = "bulk"
  BY DEF ReadChunk, playback, InLoop
<1> DEFINE p == rangeEnd - rangeStart
           n == Len(out) + Len(span)
           k == NextReadSize(t)
           c == Chunk(t)
           r == LoopPos
<1>4. /\ p \in Nat \ {0} /\ n \in Nat /\ r = n % p /\ r \in Nat /\ k \in Nat \ {0} /\ r + k <= p
      /\ From = rangeStart + r /\ rangeStart \in Nat /\ Len(out) \in Nat /\ Len(span) \in Nat
  BY <1>1, <1>2, <1>3, FromPlace
<1>5. Plays(c, n, rangeStart, p, sched) BY <1>1, <1>2, <1>3, ChunkPlays
<1>6. c \in Seq(Item) /\ Len(c) = k BY <1>1, <1>2, <1>3, ChunkTagged
<1>7. span \in Seq(Item) /\ out \in Seq(Item) BY <1>1 DEF TypeOK
<1> HIDE DEF c, k, r
<1>8. span' = span \o c /\ Len(span') = Len(span) + k /\ span' \in Seq(Item)
  BY <1>2, <1>6, <1>7, ConcatProperties DEF c
<1>9. cursor' - rangeStart' = r + k /\ pc' = "bulk" BY <1>2, <1>3, <1>4 DEF k
<1>10. OneWindow' BY <1>1, <1>3, <1>4, <1>9 DEF OneWindow
<1>11. InPasses'
  <2>1. Plays(out', 0, rangeStart', rangeEnd' - rangeStart', sched') BY <1>1, <1>3 DEF InPasses
  <2>2. Plays(span, Len(out), rangeStart, p, sched) BY <1>1, Zenon DEF InPasses
  <2>3. Plays(span \o c, Len(out), rangeStart, p, sched)
    <3> HIDE DEF p
    <3> QED BY <1>4, <1>5, <1>6, <1>7, <2>2, PlaysConcat
  <2>4. Plays(span', Len(out'), rangeStart', rangeEnd' - rangeStart', sched') BY <1>3, <1>8, <2>3
  <2>5. After(n + k, p) = r + k
    <3> HIDE DEF p, n
    <3>1. p \in Nat \ {0} /\ n \in Nat /\ k \in Nat \ {0} /\ (n % p) + k <= p BY <1>4
    <3>3. \A j \in Nat \ {0} : (n % p) + j <= p => After(n + j, p) = (n % p) + j BY ONLY <3>1, AfterMore
    <3>2. After(n + k, p) = (n % p) + k BY ONLY <3>1, <3>3, Zenon
    <3> QED BY <1>4, <3>2
  <2>6. Len(out') + Len(span') = n + k /\ rangeEnd' - rangeStart' = p BY <1>3, <1>4, <1>8
  <2> HIDE DEF p, n
  <2> QED BY <1>9, <2>1, <2>4, <2>5, <2>6 DEF InPasses
<1>12. NoOtherPass'
  <2> SUFFICES ASSUME ~ settings.repeat
               PROVE  (out = <<>> \/ Len(out) % p # 0) /\ r + k = (Len(out) % p) + Len(span')
    BY <1>3, <1>9 DEF NoOtherPass
  <2>1. cursor < rangeEnd /\ From = cursor /\ cursor \in Nat /\ rangeEnd \in Nat
    <3>1. ~ AtEnd BY <1>3 DEF EndsNow
    <3> QED BY <1>1, <3>1, Positions DEF AtEnd, From
  <2>2. r = cursor - rangeStart BY <1>4, <2>1
  <2>3. CASE span = <<>>
    <3>1. n = Len(out) /\ Len(span') = k BY <1>4, <1>8, <2>3
    <3>2. r = After(n, p) BY <1>1, <1>3, <2>2 DEF InPasses
    <3>3. n = 0 <=> After(n, p) = 0
      <4> HIDE DEF p, n
      <4> QED BY <1>4, AfterMore
    <3>4. n = 0 => out = <<>> BY <1>7, <3>1, EmptySeq
    <3> HIDE DEF p, n
    <3> QED BY <1>4, <3>1, <3>2, <3>3, <3>4
  <2>4. CASE span # <<>>
    <3>1. (out = <<>> \/ Len(out) % p # 0) /\ r = (Len(out) % p) + Len(span) BY <1>1, <2>2, <2>4 DEF NoOtherPass
    <3>2. Len(out) % p \in Nat
      <4> HIDE DEF p
      <4> QED BY <1>4, Division
    <3> DEFINE x == Len(out) % p
    <3>3. r = x + Len(span) /\ x \in Nat /\ (out = <<>> \/ x # 0) BY <3>1, <3>2
    <3>4. Len(span') = Len(span) + k /\ Len(span) \in Nat /\ k \in Nat BY <1>4, <1>8
    <3> HIDE DEF x
    <3>5. r + k = x + Len(span') BY ONLY <3>3, <3>4
    <3> QED BY <3>3, <3>5 DEF x
  <2> QED BY <2>3, <2>4
<1>13. EndsOnce' BY <1>1, <1>3, <1>9 DEF EndsOnce
<1> QED BY <1>10, <1>11, <1>12, <1>13 DEF PlayInv

LEMMA ShortReadPlay == IInv /\ PlayInv /\ ShortRead => PlayInv'
<1> SUFFICES ASSUME IInv, PlayInv, ShortRead PROVE PlayInv' OBVIOUS
<1>1. /\ InLoop /\ ~ EndsNow /\ span' = <<>> /\ pc' = "error" /\ pc = "bulk"
      /\ UNCHANGED <<settings, open, done, rangeStart, rangeEnd, sched, status, out>>
  BY DEF ShortRead, playback, InLoop
<1>2. OneWindow' BY <1>1 DEF PlayInv, OneWindow
<1>3. InPasses'
  <2>1. Plays(span', Len(out'), rangeStart', rangeEnd' - rangeStart', sched') BY <1>1, PlaysNothing
  <2> QED BY <1>1, <2>1 DEF PlayInv, InPasses
<1>4. NoOtherPass' BY <1>1 DEF NoOtherPass
<1>5. EndsOnce' BY <1>1 DEF PlayInv, EndsOnce
<1> QED BY <1>2, <1>3, <1>4, <1>5 DEF PlayInv

LEMMA PublishPlay == IInv /\ PlayInv /\ Publish => PlayInv'
<1> SUFFICES ASSUME IInv, PlayInv, Publish PROVE PlayInv' OBVIOUS
<1>1. /\ UNCHANGED <<settings, done, rangeStart, rangeEnd, sched, cursor>>
      /\ out' = out \o span /\ span' = <<>> /\ pc' = "idle" /\ pc \in {"bulk", "publish"}
  BY DEF Publish
<1>2. out \in Seq(Item) /\ span \in Seq(Item) BY DEF IInv, TypeOK
<1>3. Len(out') = Len(out) + Len(span) /\ Len(span') = 0 /\ Len(out) \in Nat /\ Len(span) \in Nat
  BY <1>1, <1>2
<1>4. OneWindow /\ InPasses /\ EndsOnce BY DEF PlayInv
<1>5. OneWindow'
  <2>1. out = <<>> /\ span = <<>> => out' = <<>> BY <1>1, <1>2, ConcatEmptySeq
  <2> QED BY <1>1, <1>4, <2>1 DEF OneWindow
<1>6. InPasses'
  <2>1. Plays(span', Len(out'), rangeStart', rangeEnd' - rangeStart', sched') BY <1>1, PlaysNothing
  <2>2. Plays(out', 0, rangeStart', rangeEnd' - rangeStart', sched')
    <3> DEFINE p == rangeEnd - rangeStart
    <3>1. Plays(out, 0, rangeStart, p, sched) /\ Plays(span, 0 + Len(out), rangeStart, p, sched)
      BY <1>3, <1>4 DEF InPasses
    <3> HIDE DEF p
    <3>2. 0 \in Nat OBVIOUS
    <3>3. Plays(out \o span, 0, rangeStart, p, sched) BY <1>2, <3>1, <3>2, PlaysConcat
    <3> QED BY <1>1, <3>3 DEF p
  <2>3. Len(out') + Len(span') = Len(out) + Len(span) BY <1>3
  <2> QED BY <1>1, <1>4, <2>1, <2>2, <2>3 DEF InPasses
<1>7. NoOtherPass' BY <1>1 DEF NoOtherPass
<1>8. EndsOnce'
  <2>1. CASE done
    <3>1. open' = FALSE /\ status' = "DONE" BY <2>1 DEF Publish
    <3> QED BY <1>1, <1>4, <2>1, <3>1 DEF EndsOnce
  <2>2. CASE ~ done
    <3>1. open' = open /\ status' = "OK" BY <2>2 DEF Publish
    <3> QED BY <1>1, <1>4, <2>2, <3>1 DEF EndsOnce
  <2> QED BY <2>1, <2>2
<1> QED BY <1>5, <1>6, <1>7, <1>8 DEF PlayInv

LEMMA OthersPlay == IInv /\ PlayInv /\ (SetSettings \/ CutShort \/ UNCHANGED vars) => PlayInv'
<1> SUFFICES ASSUME IInv, PlayInv, SetSettings \/ CutShort \/ UNCHANGED vars PROVE PlayInv' OBVIOUS
<1>1. Still /\ UNCHANGED <<open, done, pc, status>>
  BY DEF SetSettings, CutShort, vars, playback, Still
<1>2. UNCHANGED settings \/ pc \in {"stopped", "idle", "error"}
  BY DEF SetSettings, CutShort, vars
<1>3. OneWindow' /\ InPasses' BY <1>1, StillInPasses
<1>4. NoOtherPass'
  <2>1. CASE UNCHANGED settings BY <1>1, <2>1 DEF PlayInv, NoOtherPass, Still
  <2>2. CASE pc \in {"stopped", "idle", "error"}
    <3>1. span = <<>> BY <2>2 DEF IInv, CallState
    <3> QED BY <1>1, <3>1 DEF NoOtherPass, Still
  <2> QED BY <1>2, <2>1, <2>2
<1>5. EndsOnce'
  <2>1. pc = "publish" => EndsNow' BY <1>1, <1>2 DEF PlayInv, EndsOnce, EndsNow, AtEnd, Still
  <2> QED BY <1>1, <2>1 DEF PlayInv, EndsOnce, Still
<1> QED BY <1>3, <1>4, <1>5 DEF PlayInv

LEMMA NextPlay == IInv /\ PlayInv /\ [Next]_vars => PlayInv'
<1> SUFFICES ASSUME IInv, PlayInv, [Next]_vars PROVE PlayInv' OBVIOUS
<1>1. ASSUME NEW n \in 1 .. MaxSpan, ProcessBulk(n) PROVE PlayInv'
  BY <1>1, ProcessBulkPlay, SizesAssumption
<1>2. CASE ProcessBulk(0) BY <1>2, ProcessBulkPlay, SizesAssumption
<1> QED
  BY <1>1, <1>2, StartPlay, StopPlay, FinishPlay, ReadChunkPlay, ShortReadPlay, PublishPlay, OthersPlay, Zenon
  DEF Next, Work

LEMMA CardinalityIs == ASSUME NEW S PROVE PlaysWindow!Cardinality(S) = Cardinality(S)
  BY Zenon DEF PlaysWindow!Cardinality, Cardinality

LEMMA FirstIs == ASSUME rangeStart \in Nat, rangeEnd \in Nat, rangeStart < rangeEnd PROVE PlaysWindow!First = rangeStart
<1> DEFINE W == rangeStart .. rangeEnd - 1
           Low(n) == \A m \in W : n <= m
<1>1. PlaysWindow!First = CHOOSE n \in W : Low(n) BY DEF PlaysWindow!First
<1>2. rangeStart \in W /\ Low(rangeStart) OBVIOUS
<1>3. \A n \in W : Low(n) => n = rangeStart OBVIOUS
<1> HIDE DEF W, Low
<1>4. (CHOOSE n \in W : Low(n)) = rangeStart BY <1>2, <1>3
<1> QED BY <1>1, <1>4

LEMMA PassIs == ASSUME rangeStart \in Nat, rangeEnd \in Nat, rangeStart < rangeEnd PROVE PlaysWindow!Pass = rangeEnd - rangeStart
<1>1. Cardinality(rangeStart .. rangeEnd - 1) = rangeEnd - 1 - rangeStart + 1 BY FS_Interval
<1>2. PlaysWindow!Pass = Cardinality(rangeStart .. rangeEnd - 1) BY CardinalityIs, Zenon DEF PlaysWindow!Pass
<1> QED BY <1>1, <1>2

LEMMA EventsOnIs ==
  ASSUME NEW n PROVE PlaysWindow!EventsOn(n)
    = (IF n = PlaysWindow!First THEN <<StartEvent>> ELSE <<>>) \o Names(TagsAt(Events, n))
<1>1. PlaysWindow!TagsAt(Events, n) = TagsAt(Events, n)
  BY Zenon DEF PlaysWindow!TagsAt, PlaysWindow!Within, PlaysWindow!FlattenSeq, TagsAt, Within, FlattenSeq
<1>2. PlaysWindow!Names(TagsAt(Events, n)) = Names(TagsAt(Events, n)) BY Zenon DEF PlaysWindow!Names, Names
<1> QED BY <1>1, <1>2, Zenon DEF PlaysWindow!EventsOn

\* What is published, as the promise sees it.
SeenAs(s) == [i \in DOMAIN s |-> [sample |-> s[i].sample, tags |-> Names(s[i].tags)]]
Seen == [sample : Nat, tags : Seq(EventNames)]

LEMMA SeenAsIs ==
  ASSUME NEW s \in Seq(Item)
  PROVE  /\ SeenAs(s) \in Seq(Seen) /\ Len(SeenAs(s)) = Len(s)
         /\ \A i \in 1 .. Len(s) : SeenAs(s)[i] = [sample |-> s[i].sample, tags |-> Names(s[i].tags)]
<1>1. DOMAIN s = 1 .. Len(s) /\ Len(s) \in Nat OBVIOUS
<1>2. ASSUME NEW i \in 1 .. Len(s) PROVE [sample |-> s[i].sample, tags |-> Names(s[i].tags)] \in Seen
  <2>1. s[i] \in Item OBVIOUS
  <2>2. s[i].sample \in Nat /\ s[i].tags \in Seq(ScheduledTag) BY <2>1 DEF Item
  <2>3. s[i].tags \in Seq(TagsWith(EventNames)) BY <2>2, EventsTyped
  <2>4. Names(s[i].tags) \in Seq(EventNames) BY <2>3, NamesOf
  <2> QED BY <2>2, <2>4 DEF Seen
<1>3. SeenAs(s) = [i \in 1 .. Len(s) |-> [sample |-> s[i].sample, tags |-> Names(s[i].tags)]] BY <1>1 DEF SeenAs
<1> QED BY <1>1, <1>2, <1>3

\* A sample that is played is the promised one, with the promised events.
LEMMA PlaysPromised ==
  ASSUME IInv, PlayInv, pc # "stopped", rangeStart < rangeEnd, NEW i \in 1 .. Len(span)
  PROVE  [sample |-> span[i].sample, tags |-> Names(span[i].tags)] = PlaysWindow!Item(Len(out) + i)
<1> DEFINE p == rangeEnd - rangeStart
           j == Len(out) + i
           x == rangeStart + ((j - 1) % p)
<1>1. /\ rangeStart \in Nat /\ rangeEnd \in Nat /\ Len(out) \in Nat /\ Len(span) \in Nat
      /\ rangeEnd <= FileLen /\ FileLen \in Nat /\ sched = TagSchedule(rangeStart, rangeEnd)
  BY SizesAssumption DEF IInv, TypeOK, PlayInv, OneWindow
<1>2. span[i].sample = x /\ span[i].tags = TagsAt(sched, x - rangeStart)
  <2>1. Plays(span, Len(out), rangeStart, p, sched) BY Zenon DEF PlayInv, InPasses
  <2> QED BY <2>1 DEF Plays
<1>3. p \in Nat \ {0} /\ j - 1 \in Nat BY <1>1
<1>4. (j - 1) % p \in 0 .. p - 1
  <2> HIDE DEF p, j
  <2> QED BY <1>3, Division
<1>5. x \in rangeStart .. rangeEnd - 1 /\ rangeStart \in 0 .. FileLen /\ rangeEnd \in 0 .. FileLen /\ rangeStart <= rangeEnd
  BY <1>1, <1>4
<1>6. PlaysWindow!First = rangeStart /\ PlaysWindow!Pass = p BY <1>1, FirstIs, PassIs
<1> HIDE DEF x
<1>7. Names(span[i].tags) = PlaysWindow!EventsOn(x)
  <2>1. Names(TagsAt(TagSchedule(rangeStart, rangeEnd), x - rangeStart))
          = (IF x = rangeStart THEN <<StartEvent>> ELSE <<>>) \o Names(TagsAt(Events, x))
    BY ONLY <1>5, ScheduleNames
  <2> QED BY <1>1, <1>2, <1>6, <2>1, EventsOnIs, Zenon
<1>8. PlaysWindow!Item(j) = [sample |-> x, tags |-> PlaysWindow!EventsOn(x)] BY <1>6, Zenon DEF PlaysWindow!Item, x
<1> QED BY <1>2, <1>7, <1>8, Zenon DEF j

\* What a call publishes continues what was published, as promised.
LEMMA SeenGrows ==
  ASSUME IInv, PlayInv, pc # "stopped", span # <<>>, out' = out \o span
  PROVE  /\ rangeStart < rangeEnd
         /\ SeenAs(out') = SeenAs(out) \o [i \in 1 .. Len(span) |-> PlaysWindow!Item(Len(SeenAs(out)) + i)]
<1> DEFINE n == Len(out)
           m == Len(span)
           a == SeenAs(out)
           b == [i \in 1 .. m |-> PlaysWindow!Item(Len(a) + i)]
           c == SeenAs(span)
           d == SeenAs(out')
           e == a \o b
<1>1. out \in Seq(Item) /\ span \in Seq(Item) BY DEF IInv, TypeOK
<1>2. /\ out' \in Seq(Item) /\ Len(out') = n + m /\ n \in Nat /\ m \in Nat /\ \A i \in 1 .. n : out'[i] = out[i]
      /\ \A i \in n + 1 .. n + m : out'[i] = span[i - n]
  BY <1>1, Concatenation
<1>3. rangeStart < rangeEnd
  <2>1. rangeStart \in Nat /\ rangeEnd \in Nat /\ rangeStart <= rangeEnd BY Positions DEF IInv
  <2> QED BY <2>1 DEF PlayInv, OneWindow
<1>4. a \in Seq(Seen) /\ Len(a) = n /\ \A i \in 1 .. n : a[i] = [sample |-> out[i].sample, tags |-> Names(out[i].tags)]
  BY <1>1, SeenAsIs
<1>5. c \in Seq(Seen) /\ Len(c) = m /\ \A i \in 1 .. m : c[i] = [sample |-> span[i].sample, tags |-> Names(span[i].tags)]
  BY <1>1, SeenAsIs
<1>6. d \in Seq(Seen) /\ Len(d) = n + m
      /\ \A i \in 1 .. n + m : d[i] = [sample |-> out'[i].sample, tags |-> Names(out'[i].tags)]
  BY <1>2, SeenAsIs
<1>7. b = c
  <2>1. ASSUME NEW i \in 1 .. m PROVE c[i] = PlaysWindow!Item(Len(a) + i) BY <1>3, <1>4, <1>5, PlaysPromised
  <2> HIDE DEF a, c, m
  <2>2. c = [i \in 1 .. m |-> c[i]] BY <1>5
  <2> QED BY <2>1, <2>2
<1> HIDE DEF a, b, c, d
<1>8. /\ e \in Seq(Seen) /\ Len(e) = n + m /\ \A i \in 1 .. n : e[i] = a[i]
      /\ \A i \in n + 1 .. n + m : e[i] = c[i - n]
  <2>1. a \in Seq(Seen) /\ c \in Seq(Seen) /\ e = a \o c BY <1>4, <1>5, <1>7
  <2>2. /\ a \o c \in Seq(Seen) /\ Len(a \o c) = Len(a) + Len(c) /\ \A i \in 1 .. Len(a) : (a \o c)[i] = a[i]
        /\ \A i \in Len(a) + 1 .. Len(a) + Len(c) : (a \o c)[i] = c[i - Len(a)]
    BY ONLY <2>1, Concatenation
  <2> QED BY <1>4, <1>5, <2>1, <2>2, Zenon
<1> HIDE DEF e, m, n
<1>9. ASSUME NEW i \in 1 .. Len(d) PROVE d[i] = e[i]
  <2>1. CASE i <= n
    <3>1. i \in 1 .. n /\ i \in 1 .. n + m BY <1>2, <1>6, <2>1
    <3> QED BY <1>2, <1>4, <1>6, <1>8, <3>1, Zenon
  <2>2. CASE ~ (i <= n)
    <3> DEFINE k == i - n
    <3>1. i \in n + 1 .. n + m /\ i \in 1 .. n + m /\ k \in 1 .. m BY <1>2, <1>6, <2>2
    <3>2. out'[i] = span[k] /\ e[i] = c[k] BY <1>2, <1>8, <3>1
    <3> HIDE DEF k
    <3> QED BY <1>5, <1>6, <3>1, <3>2, Zenon
  <2> QED BY <2>1, <2>2
<1>10. d \in Seq(Seen) /\ e \in Seq(Seen) /\ Len(d) = Len(e) /\ \A i \in 1 .. Len(d) : d[i] = e[i]
  BY <1>6, <1>8, <1>9
<1>11. d = e BY ONLY <1>10, SeqEqual
<1> QED BY <1>3, <1>11 DEF d, e, a, b, m, n

LEMMA InitMaps == Init => PlaysWindow!Init
<1> SUFFICES ASSUME Init PROVE PlaysWindow!Init OBVIOUS
<1>1. out = <<>> /\ status = "OK" /\ rangeStart = 0 /\ rangeEnd = 0 BY DEF Init
<1>2. SeenAs(<<>>) = <<>> BY DEF SeenAs
<1>3. SeenAs(out) = <<>> BY <1>1, <1>2
<1>4. rangeStart .. rangeEnd - 1 = {} BY <1>1
<1>5. status # "DONE" BY <1>1
<1> QED BY <1>3, <1>4, <1>5 DEF PlaysWindow!Init, SeenAs

\* start() plays the window the settings select of the file as it is.
LEMMA StartSelects == IInv /\ Start => PlaysWindow!Select
<1> SUFFICES ASSUME IInv, Start PROVE PlaysWindow!Select OBVIOUS
<1> DEFINE offset == settings.offset
           length == settings.length
           a == rangeStart'
           b == rangeEnd'
           available == file - a
           selected == IF length = 0 THEN available ELSE Smaller(length, available)
<1>1. file \in Nat /\ offset \in Nat /\ length \in Nat
  <2>1. file \in 0 .. FileLen /\ settings \in Settings BY DEF IInv, TypeOK
  <2>2. settings.offset \in Nat /\ settings.length \in Nat BY <2>1, SizesAssumption DEF Settings
  <2> QED BY <2>1, <2>2, SizesAssumption
<1>2. a = Smaller(offset, file) /\ b = a + selected /\ out' = <<>> /\ status' = "OK" /\ UNCHANGED <<settings, file>>
  BY Zenon DEF Start
<1>3. a .. b - 1 = PlaysWindow!Selected(settings, file)
  <2>1. PlaysWindow!Selected(settings, file) = {n \in 0 .. file - 1 : offset <= n /\ (length = 0 \/ n < offset + length)}
    BY DEF PlaysWindow!Selected
  <2> HIDE DEF offset, length, a, b
  <2>2. CASE offset <= file
    <3>1. a = offset BY <1>2, <2>2 DEF Smaller
    <3>2. CASE length = 0
      <4>1. b = file BY <1>1, <1>2, <3>1, <3>2
      <4> QED BY <1>1, <2>1, <3>1, <3>2, <4>1
    <3>3. CASE length # 0
      <4>1. b = IF length <= file - offset THEN offset + length ELSE file BY <1>1, <1>2, <3>1, <3>3 DEF Smaller
      <4> QED BY <1>1, <2>1, <2>2, <3>1, <3>3, <4>1
    <3> QED BY <3>2, <3>3
  <2>3. CASE ~ (offset <= file)
    <3>1. a = file /\ available = 0 BY <1>1, <1>2, <2>3 DEF Smaller
    <3>2. selected = 0 BY <1>1, <3>1 DEF Smaller
    <3>3. b = file BY <1>1, <1>2, <3>1, <3>2
    <3> QED BY <1>1, <2>1, <2>3, <3>1, <3>3
  <2> QED BY <2>2, <2>3
<1>4. SeenAs(out') = <<>>
  <2>1. SeenAs(<<>>) = <<>> BY DEF SeenAs
  <2> QED BY <1>2, <2>1
<1>5. status' # "DONE" BY <1>2
<1> HIDE DEF a, b
<1> QED BY <1>2, <1>3, <1>4, <1>5 DEF PlaysWindow!Select, SeenAs, a, b

LEMMA StopSelects == Stop => PlaysWindow!Select
<1> SUFFICES ASSUME Stop PROVE PlaysWindow!Select OBVIOUS
<1>1. out' = <<>> /\ status' = "OK" /\ rangeStart' = 0 /\ rangeEnd' = 0 /\ UNCHANGED <<settings, file>>
  BY DEF Stop, Close
<1>2. SeenAs(out') = <<>>
  <2>1. SeenAs(<<>>) = <<>> BY DEF SeenAs
  <2> QED BY <1>1, <2>1
<1>3. rangeStart' .. rangeEnd' - 1 = {} BY <1>1
<1>4. status' # "DONE" BY <1>1
<1> QED BY <1>1, <1>2, <1>3, <1>4 DEF PlaysWindow!Select, SeenAs

\* The end is reported after a whole pass.
LEMMA EndsAfterPass ==
  ASSUME IInv, PlayInv, Publish, done, rangeStart # rangeEnd
  PROVE  /\ ~ settings.repeat /\ SeenAs(out') # <<>> /\ rangeStart < rangeEnd
         /\ Len(SeenAs(out')) % (rangeEnd - rangeStart) = 0
<1> DEFINE p == rangeEnd - rangeStart
           n == Len(out) + Len(span)
<1>1. pc = "publish" /\ AtEnd /\ ~ settings.repeat BY DEF Publish, PlayInv, EndsOnce, EndsNow
<1>2. rangeStart \in Nat /\ rangeEnd \in Nat /\ cursor \in Nat /\ rangeStart <= cursor /\ cursor <= rangeEnd
  BY Positions DEF IInv
<1>3. out \in Seq(Item) /\ span \in Seq(Item) /\ out' = out \o span BY DEF IInv, TypeOK, Publish
<1>4. p \in Nat \ {0} /\ n \in Nat /\ cursor - rangeStart = p BY <1>1, <1>2, <1>3 DEF AtEnd
<1>5. After(n, p) = p BY <1>1, <1>4 DEF PlayInv, InPasses
<1>6. out' \in Seq(Item) /\ Len(out') = n BY <1>3
<1>7. SeenAs(out') \in Seq(Seen) /\ Len(SeenAs(out')) = n BY <1>6, SeenAsIs
<1> HIDE DEF p, n
<1>8. (n = 0 <=> After(n, p) = 0) /\ n % p = IF After(n, p) = p THEN 0 ELSE After(n, p) BY <1>4, AfterMore
<1>9. n # 0 /\ n % p = 0 BY <1>4, <1>5, <1>8
<1>10. SeenAs(out') # <<>>
  <2>1. Len(<<>>) = 0 OBVIOUS
  <2> QED BY <1>7, <1>9, <2>1
<1>11. Len(SeenAs(out')) % p = 0 BY <1>7, <1>9, Zenon
<1> QED BY <1>1, <1>2, <1>10, <1>11 DEF p

\* What the promise asks of a step that plays or ends.
Delivered(seen, seenNext, n) ==
  /\ status # "DONE" /\ UNCHANGED <<settings, file, rangeStart, rangeEnd>>
  /\ seen = SeenAs(out) /\ seenNext = SeenAs(out')
  /\ n \in Nat /\ Len(seenNext) - Len(seen) = n
  /\ n > 0 =>
       /\ rangeStart < rangeEnd
       /\ seenNext = seen \o [i \in 1 .. n |-> PlaysWindow!Item(Len(seen) + i)]
       /\ ~ settings.repeat =>
            /\ Len(seen) = 0 \/ Len(seen) % (rangeEnd - rangeStart) # 0
            /\ (Len(seen) % (rangeEnd - rangeStart)) + n <= rangeEnd - rangeStart
  /\ status' = "DONE" =>
       \/ rangeStart = rangeEnd
       \/ /\ ~ settings.repeat /\ seenNext # <<>> /\ rangeStart < rangeEnd
          /\ Len(seenNext) % (rangeEnd - rangeStart) = 0

LEMMA DeliveredIs ==
  ASSUME NEW seen, NEW seenNext, NEW n, Delivered(seen, seenNext, n), rangeStart \in Nat, rangeEnd \in Nat
  PROVE  PlaysWindow!Deliver
<1> DEFINE W == rangeStart .. rangeEnd - 1
<1>1. rangeStart < rangeEnd => W # {} /\ PlaysWindow!Pass = rangeEnd - rangeStart BY PassIs
<1>2. rangeStart = rangeEnd => W = {} OBVIOUS
<1>3. W' = W BY DEF Delivered
<1>4. n >= 0 BY DEF Delivered
<1>5. n > 0 =>
        /\ W # {}
        /\ seenNext = seen \o [i \in 1 .. n |-> PlaysWindow!Item(Len(seen) + i)]
        /\ ~ settings.repeat =>
             /\ Len(seen) = 0 \/ Len(seen) % PlaysWindow!Pass # 0
             /\ (Len(seen) % PlaysWindow!Pass) + n <= PlaysWindow!Pass
  BY <1>1, Zenon DEF Delivered
<1>6. status' = "DONE" =>
        W = {} \/ (~ settings.repeat /\ seenNext # <<>> /\ Len(seenNext) % PlaysWindow!Pass = 0)
  <2> SUFFICES ASSUME status' = "DONE"
               PROVE  W = {} \/ (~ settings.repeat /\ seenNext # <<>> /\ Len(seenNext) % PlaysWindow!Pass = 0)
    OBVIOUS
  <2>1. CASE rangeStart = rangeEnd BY <1>2, <2>1
  <2>2. CASE rangeStart # rangeEnd
    <3>1. ~ settings.repeat /\ seenNext # <<>> /\ rangeStart < rangeEnd /\ Len(seenNext) % (rangeEnd - rangeStart) = 0
      BY <2>2, Zenon DEF Delivered
    <3> QED BY <1>1, <3>1, Zenon
  <2> QED BY <2>1, <2>2
<1>7. /\ seen = [i \in DOMAIN out |-> [sample |-> out[i].sample, tags |-> Names(out[i].tags)]]
      /\ seenNext = [i \in DOMAIN out' |-> [sample |-> out'[i].sample, tags |-> Names(out'[i].tags)]]
  BY Zenon DEF Delivered, SeenAs
<1>8. Len(seenNext) - Len(seen) = n /\ status # "DONE" /\ UNCHANGED <<settings, file, rangeStart, rangeEnd>>
  BY DEF Delivered
<1> HIDE DEF W
<1> QED BY <1>3, <1>4, <1>5, <1>6, <1>7, <1>8, Zenon DEF PlaysWindow!Deliver, W

LEMMA PublishDelivers == IInv /\ PlayInv /\ Publish => PlaysWindow!Deliver
<1> SUFFICES ASSUME IInv, PlayInv, Publish PROVE PlaysWindow!Deliver OBVIOUS
<1> DEFINE p == rangeEnd - rangeStart
           m == Len(span)
           seen == SeenAs(out)
           seenNext == SeenAs(out')
<1>1. /\ UNCHANGED <<settings, file, rangeStart, rangeEnd>> /\ out' = out \o span /\ pc \in {"bulk", "publish"}
  BY DEF Publish
<1>2. /\ rangeStart \in Nat /\ rangeEnd \in Nat /\ cursor \in Nat /\ rangeStart <= cursor /\ cursor <= rangeEnd
  BY Positions DEF IInv
<1>3. out \in Seq(Item) /\ span \in Seq(Item) BY DEF IInv, TypeOK
<1>4. out' \in Seq(Item) /\ Len(out') = Len(out) + m /\ Len(out) \in Nat /\ m \in Nat BY <1>1, <1>3
<1>5. Len(seen) = Len(out) /\ Len(seenNext) = Len(out) + m BY <1>3, <1>4, SeenAsIs
<1>6. status # "DONE" BY <1>1 DEF PlayInv, EndsOnce
<1>7. ASSUME m > 0
      PROVE  /\ rangeStart < rangeEnd
             /\ seenNext = seen \o [i \in 1 .. m |-> PlaysWindow!Item(Len(seen) + i)]
             /\ ~ settings.repeat => /\ Len(seen) = 0 \/ Len(seen) % p # 0
                                     /\ (Len(seen) % p) + m <= p
  <2>1. span # <<>> BY <1>3, <1>7
  <2>2. rangeStart < rangeEnd /\ seenNext = seen \o [i \in 1 .. m |-> PlaysWindow!Item(Len(seen) + i)]
    <3>1. pc # "stopped" BY <1>1
    <3> QED BY <1>1, <2>1, <3>1, SeenGrows
  <2>3. ASSUME ~ settings.repeat PROVE (Len(seen) = 0 \/ Len(seen) % p # 0) /\ (Len(seen) % p) + m <= p
    <3>1. (out = <<>> \/ Len(out) % p # 0) /\ cursor - rangeStart = (Len(out) % p) + m
      BY <2>1, <2>3 DEF PlayInv, NoOtherPass
    <3>2. cursor - rangeStart <= p BY <1>2
    <3>3. out = <<>> => Len(out) = 0 OBVIOUS
    <3>4. (Len(out) % p) + m <= p BY <3>1, <3>2
    <3> HIDE DEF p, m, seen
    <3> QED BY <1>5, <3>1, <3>3, <3>4, Zenon
  <2> QED BY <2>2, <2>3
<1>8. ASSUME status' = "DONE"
      PROVE  \/ rangeStart = rangeEnd
             \/ /\ ~ settings.repeat /\ seenNext # <<>> /\ rangeStart < rangeEnd
                /\ Len(seenNext) % p = 0
  <2>1. done BY <1>8 DEF Publish
  <2> QED BY <2>1, EndsAfterPass
<1>9. Len(seenNext) - Len(seen) = m BY <1>4, <1>5
<1> HIDE DEF m, seen, seenNext
<1>10. Delivered(seen, seenNext, m)
  BY <1>1, <1>4, <1>6, <1>7, <1>8, <1>9, Zenon DEF Delivered, seen, seenNext
<1> QED BY <1>2, <1>10, DeliveredIs

\* A call when all is done reports the end, at once if there is nothing to play.
LEMMA ProcessBulkDelivers ==
  ASSUME IInv, PlayInv, NEW n, ProcessBulk(n) PROVE PlaysWindow!Deliver \/ UNCHANGED PlaysWindow!vars
<1>1. UNCHANGED <<settings, file, rangeStart, rangeEnd, out>> /\ pc = "idle" /\ pc # "stopped" BY DEF ProcessBulk, playback
<1>2. out \in Seq(Item) /\ rangeStart \in Nat /\ rangeEnd \in Nat BY DEF IInv, TypeOK
<1>3. EndsOnce BY DEF PlayInv
<1>4. status = "DONE" => status' = "DONE" BY <1>1, <1>3 DEF ProcessBulk, EndsOnce
<1>5. CASE (status' = "DONE") <=> (status = "DONE")
  <2>1. (status' = "DONE") = (status = "DONE") BY <1>5
  <2> QED BY <1>1, <2>1, Zenon DEF PlaysWindow!vars
<1>6. CASE status # "DONE" /\ status' = "DONE"
  <2>1. ~ open \/ done BY <1>6 DEF ProcessBulk
  <2>2. rangeStart = rangeEnd BY <1>1, <1>3, <1>6, <2>1 DEF EndsOnce
  <2> DEFINE seen == SeenAs(out)
             seenNext == SeenAs(out')
  <2>3. seenNext = seen BY <1>1
  <2>4. Len(seen) \in Nat BY <1>2, SeenAsIs
  <2> HIDE DEF seen, seenNext
  <2>5. 0 \in Nat /\ Len(seenNext) - Len(seen) = 0 /\ ~ (0 > 0) BY <2>3, <2>4
  <2>6. Delivered(seen, seenNext, 0) BY <1>1, <1>6, <2>2, <2>5, Zenon DEF Delivered, seen, seenNext
  <2> QED BY <1>2, <2>6, DeliveredIs
<1> QED BY <1>4, <1>5, <1>6

LEMMA NextMaps ==
  IInv /\ PlayInv /\ [Next]_vars
    => [PlaysWindow!Select \/ PlaysWindow!Deliver \/ PlaysWindow!Adjust]_(PlaysWindow!vars)
<1> SUFFICES ASSUME IInv, PlayInv, [Next]_vars
             PROVE  PlaysWindow!Select \/ PlaysWindow!Deliver \/ PlaysWindow!Adjust \/ UNCHANGED PlaysWindow!vars
  OBVIOUS
<1>1. CASE Start \/ Stop BY <1>1, StartSelects, StopSelects
<1>2. ASSUME NEW n, ProcessBulk(n) PROVE PlaysWindow!Deliver \/ UNCHANGED PlaysWindow!vars BY <1>2, ProcessBulkDelivers
<1>3. CASE Publish BY <1>3, PublishDelivers
<1>4. CASE Finish \/ ReadChunk \/ ShortRead \/ SetSettings \/ CutShort \/ UNCHANGED vars
  <2>1. UNCHANGED <<rangeStart, rangeEnd, out, status>>
    BY <1>4 DEF Finish, ReadChunk, ShortRead, SetSettings, CutShort, vars, playback
  <2> QED BY <2>1, Zenon DEF PlaysWindow!Adjust
<1> QED BY <1>1, <1>2, <1>3, <1>4, Zenon DEF Next, Work

\* The block plays the window its settings select, pass after pass, each sample
\* with the events on it, and reports the end after a whole pass.
THEOREM PlaysTheWindow == Spec => PlaysSelectedWindow
<1> QED BY Invariance, InitPlay, NextPlay, InitMaps, NextMaps, PTL DEF Spec, PlaysSelectedWindow, PlaysWindow!Spec
=============================================================================

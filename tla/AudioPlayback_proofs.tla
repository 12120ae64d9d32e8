------------------------ MODULE AudioPlayback_proofs ------------------------
(***************************************************************************)
(* The FIFO of the sink implements AudioQueue, for files, formats and      *)
(* sizes of any kind: what waits in its ring is the queue.                 *)
(***************************************************************************)
EXTENDS AudioPlayback, CommonLemmas

Position == [file : Files, position : Nat]
Sample == [data : Position, tag : Format \cup {NoTag}]
Sound == Position \cup {Silence}

\* What the source publishes is a sequence of samples.
SourceInv ==
  /\ settings \in Settings
  /\ reader \in Files \cup {NoFile}
  /\ frame \in Nat /\ totalSamplesFile \in Nat
  /\ reader # NoFile => frame <= reader.frames
  /\ edge \in Seq(Sample)

\* The ring: n samples from index r on, up to index w.
Ring ==
  /\ n <= capacity
  /\ r < capacity \/ r = 0
  /\ w = Wrap(r + n, capacity)
  /\ buf \in [0 .. capacity - 1 -> Sound]

\* The call in progress has its span, and who plays has a stream.
SinkInv ==
  /\ stream_open \in BOOLEAN /\ running \in BOOLEAN
  /\ fallback \in Format /\ pending \in Format /\ format \in Format
  /\ span \in Nat /\ span <= Len(edge)
  /\ r \in Nat /\ w \in Nat /\ n \in Nat
  /\ running => stream_open
  /\ stream_open => Ring

IInv == SourceInv /\ SinkInv

-----------------------------------------------------------------------------
\* A number of frames is a number of samples.
LEMMA Product == ASSUME NEW a \in Nat, NEW b \in Nat PROVE a * b \in Nat
  BY SMT

LEMMA ProductInt == ASSUME NEW a \in Int, NEW b \in Int PROVE a * b \in Int
  BY SMT

LEMMA CapacityNat == ASSUME format \in Format PROVE capacity \in Nat
<1>1. format.channels \in Nat /\ FifoFrames \in Nat BY SinkAssumption DEF Format
<1> QED BY <1>1, Product DEF capacity

LEMMA NeedNat == ASSUME format \in Format PROVE need \in Nat
<1>1. format.channels \in Nat /\ CallbackFrames \in Nat BY SinkAssumption DEF Format
<1> QED BY <1>1, Product DEF need

\* Frames(k) is a sequence of samples, empty if k is not positive.
LEMMA FramesAreSamples ==
  ASSUME SourceInv, reader \in Files, NEW k \in Int
  PROVE  Frames(k) \in Seq(Sample)
<1> DEFINE m == k * reader.channels
<1>1. reader.channels \in Nat \ {0} /\ reader.rate \in Nat BY FilesAssumption
<1>2. m \in Int BY <1>1, ProductInt
<1>3. FormatOf(reader) \in Format BY <1>1 DEF FormatOf, Format
<1>4. frame * reader.channels \in Nat BY <1>1, Product DEF SourceInv
<1>5. ASSUME NEW i \in 1 .. m
      PROVE  [data |-> [file |-> reader, position |-> frame * reader.channels + i - 1],
              tag  |-> IF i = 1 /\ ~ emittedStart THEN FormatOf(reader) ELSE NoTag] \in Sample
  <2>1. frame * reader.channels + i - 1 \in Nat BY <1>2, <1>4
  <2>2. [file |-> reader, position |-> frame * reader.channels + i - 1] \in Position BY <2>1 DEF Position
  <2>3. (IF i = 1 /\ ~ emittedStart THEN FormatOf(reader) ELSE NoTag) \in Format \cup {NoTag} BY <1>3
  <2> QED BY <2>2, <2>3 DEF Sample
<1> HIDE DEF m
<1>6. \E l \in Nat : 1 .. m = 1 .. l
  <2>1. CASE m >= 0 BY <2>1, <1>2
  <2>2. CASE m < 0
    <3>1. 1 .. m = 1 .. 0 BY <2>2, <1>2
    <3> QED BY <3>1
  <2> QED BY <2>1, <2>2, <1>2
<1>7. PICK l \in Nat : 1 .. m = 1 .. l BY <1>6
<1>8. Frames(k) \in [1 .. l -> Sample] BY <1>5, <1>7 DEF Frames, m
<1> QED BY <1>8, <1>7

-----------------------------------------------------------------------------
LEMMA SourceInitial == Init => SourceInv
  BY DEF Init, SourceInit, SourceInv

\* The counts of a call, in frames and in samples.
LEMMA Counts ==
  ASSUME SourceInv, reader \in Files
  PROVE  /\ frames_req \in Int /\ frames_read \in Int
         /\ frames_req > 0 => /\ frames_read \in Nat /\ frames_read * reader.channels \in Nat
                              /\ frame + frames_read <= reader.frames
<1>1. reader.channels \in Nat \ {0} /\ reader.frames \in Nat /\ reader # NoFile BY FilesAssumption
<1>2. settings.length \in Nat BY FilesAssumption DEF SourceInv, Settings
<1>3. left \in Nat BY <1>2 DEF left, SourceInv
<1>4. room \in Int BY EdgeAssumption DEF room, SourceInv
<1>5. frames_req \in Int
  <2> DEFINE s == IF settings.length # 0 THEN Smaller(room, left) ELSE room
  <2>1. s \in Int BY <1>3, <1>4 DEF Smaller
  <2> HIDE DEF s
  <2>2. s \div reader.channels \in Int BY <2>1, <1>1
  <2> QED BY <2>2 DEF frames_req, out_samples, s
<1>6. /\ frames_read \in Int
      /\ frames_req > 0 => frames_read \in Nat /\ frame + frames_read <= reader.frames
  BY <1>1, <1>5 DEF frames_read, Smaller, SourceInv
<1>7. frames_req > 0 => frames_read * reader.channels \in Nat BY <1>1, <1>6, Product
<1> QED BY <1>5, <1>6, <1>7

\* Playing the file again, or closing it, keeps the types.
LEMMA PassEnds ==
  ASSUME SourceInv, reader \in Files, NEW at \in Nat, NEW total \in Nat, NEW tagged,
         Rewind \/ Finish(at, total, tagged)
  PROVE  /\ reader' \in Files \cup {NoFile} /\ frame' \in Nat /\ totalSamplesFile' \in Nat
         /\ reader' # NoFile => frame' <= reader'.frames
<1>1. reader.frames \in Nat BY FilesAssumption
<1>2. CASE Rewind BY <1>1, <1>2 DEF Rewind
<1>3. CASE Finish(at, total, tagged) BY <1>3 DEF Finish
<1> QED BY <1>2, <1>3

\* Between calls the source puts samples behind those of the connection.
LEMMA SourceSteps ==
  ASSUME SourceInv, Source
  PROVE  SourceInv' /\ \E s \in Seq(Sample) : edge' = edge \o s
<1> DEFINE Extends == \E s \in Seq(Sample) : edge' = edge \o s
<1>1. ASSUME edge' = edge PROVE Extends /\ edge' \in Seq(Sample)
  <2>1. <<>> \in Seq(Sample) /\ edge \o <<>> = edge BY DEF SourceInv
  <2> QED BY <1>1, <2>1 DEF SourceInv
<1>2. CASE SourceStart
  <2>1. settings.file \in Files /\ settings.offset \in Nat BY FilesAssumption DEF SourceInv, Settings
  <2>2. settings.file.channels \in Nat \ {0} /\ settings.file.frames \in Nat BY <2>1, FilesAssumption
  <2>3. settings.offset \div settings.file.channels \in Nat BY <2>1, <2>2
  <2>4. frame' \in Nat /\ frame' <= settings.file.frames BY <1>2, <2>2, <2>3 DEF SourceStart, Smaller
  <2>5. Extends /\ edge' \in Seq(Sample) BY <1>1, <1>2 DEF SourceStart
  <2> QED BY <1>2, <2>1, <2>4, <2>5 DEF SourceStart, SourceInv
<1>3. CASE SourceStop BY <1>1, <1>3 DEF SourceStop, SourceInv
<1>4. CASE SetSettings BY <1>1, <1>4 DEF SetSettings, SourceInv
<1>5. CASE LengthReached
  <2>1. reader \in Files BY <1>5 DEF LengthReached, Called, SourceInv
  <2>2. Rewind \/ Finish(frame, totalSamplesFile, emittedStart) BY <1>5 DEF LengthReached
  <2>3. frame \in Nat /\ totalSamplesFile \in Nat BY DEF SourceInv
  <2>4. /\ reader' \in Files \cup {NoFile} /\ frame' \in Nat /\ totalSamplesFile' \in Nat
        /\ reader' # NoFile => frame' <= reader'.frames
    BY <2>1, <2>2, <2>3, PassEnds
  <2> QED BY <1>1, <1>5, <2>4 DEF LengthReached, SourceInv
<1>6. CASE Read
  <2>1. reader \in Files /\ frames_req > 0 BY <1>6 DEF Read, Called, SourceInv
  <2> DEFINE total  == totalSamplesFile + frames_read * reader.channels
             tagged == emittedStart \/ frames_read > 0
  <2>2. frame + frames_read \in Nat /\ frame + frames_read <= reader.frames /\ total \in Nat
    BY <2>1, Counts DEF SourceInv
  <2>3. \/ /\ frame' = frame + frames_read /\ totalSamplesFile' = total
           /\ UNCHANGED reader
        \/ Rewind \/ Finish(frame + frames_read, total, tagged)
    BY <1>6 DEF Read
  <2> HIDE DEF total, tagged
  <2>4. /\ reader' \in Files \cup {NoFile} /\ frame' \in Nat /\ totalSamplesFile' \in Nat
        /\ reader' # NoFile => frame' <= reader'.frames
    BY <2>1, <2>2, <2>3, PassEnds
  <2>5. Frames(frames_read) \in Seq(Sample) BY <2>1, Counts, FramesAreSamples
  <2>6. edge' = edge \o Frames(frames_read) BY <1>6 DEF Read
  <2>7. Extends /\ edge' \in Seq(Sample) BY <2>5, <2>6 DEF SourceInv
  <2> QED BY <1>6, <2>4, <2>7 DEF Read, SourceInv
<1> QED BY <1>2, <1>3, <1>4, <1>5, <1>6 DEF Source, SourceWork

-----------------------------------------------------------------------------
\* What a span's tags leave in the pending format is a format.
LEMMA ScannedFormat ==
  ASSUME IInv, NEW k \in 1 .. Len(edge)
  PROVE  Scanned(k) \in Format
<1>1. CASE Tagged(k) = {} BY <1>1 DEF Scanned, IInv, SinkInv
<1>2. CASE Tagged(k) # {}
  <2> DEFINE last == CHOOSE i \in Tagged(k) : \A j \in Tagged(k) : j <= i
  <2>1. \E i \in Tagged(k) : \A j \in Tagged(k) : j <= i
    <3>1. Tagged(k) \subseteq 0 .. k /\ k \in Nat BY DEF Tagged, IInv, SourceInv
    <3> QED BY <1>2, <3>1, Largest
  <2>2. last \in Tagged(k) BY <2>1
  <2> HIDE DEF last
  <2>3. last \in 1 .. Len(edge) /\ edge[last].tag # NoTag BY <2>2 DEF Tagged
  <2>4. edge[last] \in Sample BY <2>3 DEF IInv, SourceInv
  <2>5. edge[last].tag \in Format BY <2>3, <2>4 DEF Sample
  <2>6. [edge[last].tag EXCEPT !.rate = IF IgnoreTagRate THEN pending.rate ELSE @] \in Format
    BY <2>5 DEF Format, IInv, SinkInv
  <2> QED BY <1>2, <2>6 DEF Scanned, last
<1> QED BY <1>1, <1>2

LEMMA SinkInitial == Init => SinkInv
<1> SUFFICES ASSUME Init PROVE SinkInv OBVIOUS
<1>1. NoFormat \in Format BY DEF NoFormat, Format
<1>2. edge = <<>> /\ stream_open = FALSE /\ running = FALSE /\ span = 0 /\ r = 0 /\ w = 0 /\ n = 0
  BY Zenon DEF Init, SinkInit
<1>3. fallback \in Format /\ pending \in Format /\ format \in Format
  BY <1>1, SinkAssumption DEF Init, SinkInit
<1>4. span \in Nat /\ span <= Len(edge) /\ r \in Nat /\ w \in Nat /\ n \in Nat BY <1>2
<1> QED BY <1>2, <1>3, <1>4, Zenon DEF SinkInv

\* The span of a call stays where it is when the source works, as there is none.
LEMMA SinkInvKept ==
  ASSUME SinkInv, UNCHANGED sinkVars, Len(edge') >= Len(edge), Len(edge) \in Nat, Len(edge') \in Nat
  PROVE  SinkInv'
<1>1. capacity' = capacity BY DEF capacity, sinkVars
<1>2. Ring' = Ring BY <1>1 DEF Ring, sinkVars, fifoVars
<1> QED BY <1>2 DEF SinkInv, sinkVars, fifoVars

\* A call that opens the stream leaves an empty ring of the new size.
LEMMA OpensEmpty ==
  ASSUME IInv, ScanAndOpen PROVE SinkInv' /\ Contents' = <<>>
<1>1. PICK k \in 1 .. Len(edge) :
        /\ MustOpen(Scanned(k))
        /\ pending' = Scanned(k) /\ format' = Scanned(k)
        /\ span' = k
        /\ buf' = [i \in 0 .. FifoFrames * Scanned(k).channels - 1 |-> Silence]
  BY DEF ScanAndOpen
<1>2. Scanned(k) \in Format BY ScannedFormat
<1>3. capacity' = FifoFrames * Scanned(k).channels BY <1>1 DEF capacity
<1>4. capacity' \in Nat
  <2>1. Scanned(k).channels \in Nat /\ FifoFrames \in Nat BY <1>2, SinkAssumption DEF Format
  <2> QED BY <1>3, <2>1, Product
<1>5. r' = 0 /\ w' = 0 /\ n' = 0 /\ edge' = edge /\ fallback' = fallback BY DEF ScanAndOpen
<1>6. Ring'
  <2>1. buf' \in [0 .. capacity' - 1 -> Sound] BY <1>1, <1>3 DEF Sound
  <2>2. n' <= capacity' /\ r' = 0 BY <1>4, <1>5
  <2>3. w' = Wrap(r' + n', capacity')
    <3>1. ASSUME NEW c \in Nat PROVE Wrap(0 + 0, c) = 0 BY DEF Wrap
    <3> QED BY <1>4, <1>5, <3>1
  <2> QED BY <2>1, <2>2, <2>3 DEF Ring
<1>7. stream_open' \in BOOLEAN /\ running' \in BOOLEAN /\ (running' => stream_open')
  BY DEF ScanAndOpen
<1>8. SinkInv' BY <1>1, <1>2, <1>5, <1>6, <1>7 DEF SinkInv, IInv, SourceInv
<1>9. Contents' = <<>> BY <1>5 DEF Contents
<1> QED BY <1>8, <1>9

-----------------------------------------------------------------------------
\* The samples that wait in the FIFO.
LEMMA ContentsSeq ==
  ASSUME IInv, stream_open
  PROVE  /\ capacity \in Nat /\ Contents \in Seq(Sound) /\ Len(Contents) = n
         /\ \A i \in 1 .. n : Contents[i] = buf[Wrap(r + i - 1, capacity)]
<1>1. capacity \in Nat BY CapacityNat DEF IInv, SinkInv
<1>2. n \in Nat /\ r \in Nat /\ Ring BY DEF IInv, SinkInv
<1>3. ASSUME NEW i \in 1 .. n PROVE Wrap(r + i - 1, capacity) \in 0 .. capacity - 1
  <2>1. n <= capacity /\ (r < capacity \/ r = 0) BY <1>2 DEF Ring
  <2> DEFINE c == capacity
  <2>2. c \in Nat /\ n <= c /\ (r < c \/ r = 0) BY <1>1, <2>1
  <2> HIDE DEF c
  <2>3. Wrap(r + i - 1, c) \in 0 .. c - 1 BY <1>2, <2>2 DEF Wrap
  <2> QED BY <2>3 DEF c
<1>4. \A i \in 1 .. n : buf[Wrap(r + i - 1, capacity)] \in Sound BY <1>2, <1>3 DEF Ring
<1>5. Contents = [i \in 1 .. n |-> buf[Wrap(r + i - 1, capacity)]] BY DEF Contents
<1> QED BY <1>1, <1>2, <1>4, <1>5

\* A push puts the first samples of the span behind those that wait.
LEMMA Pushes ==
  ASSUME IInv, Push
  PROVE  SinkInv' /\ (Queue!Take \/ UNCHANGED Queue!vars)
<1> DEFINE k == Smaller(capacity - n, span)
           c == capacity
<1>1. span > 0 /\ stream_open BY DEF Push
<1>2. /\ buf' = [i \in DOMAIN buf |-> IF Slot(i) <= k THEN edge[Slot(i)].data ELSE buf[i]]
      /\ w' = Wrap(w + k, c) /\ n' = n + k /\ edge' = From(k) /\ span' = 0
      /\ r' = r /\ stream_open' = stream_open /\ running' = running /\ sound' = sound
      /\ format' = format /\ pending' = pending /\ fallback' = fallback
  BY DEF Push
<1>3. c \in Nat /\ c' = c BY <1>2, CapacityNat DEF IInv, SinkInv, capacity
<1>4. /\ n \in Nat /\ r \in Nat /\ span \in Nat /\ span <= Len(edge) /\ edge \in Seq(Sample)
      /\ n <= c /\ (r < c \/ r = 0) /\ w = Wrap(r + n, c) /\ buf \in [0 .. c - 1 -> Sound]
  BY <1>1 DEF IInv, SinkInv, SourceInv, Ring
<1>5. k \in Nat /\ n + k <= c /\ k <= Len(edge) BY <1>3, <1>4 DEF Smaller
<1>6. \A i : Slot(i) = IF i >= w THEN i - w + 1 ELSE i - w + c + 1 BY DEF Slot
<1> HIDE DEF k, c
<1>7. w \in Nat /\ w' = Wrap(r + (n + k), c)
  <2>1. Wrap(r + n, c) \in Nat /\ Wrap(Wrap(r + n, c) + k, c) = Wrap(r + (n + k), c)
    BY <1>3, <1>4, <1>5 DEF Wrap
  <2> QED BY <1>2, <1>4, <2>1, Zenon
<1> DEFINE Spot(i) == Wrap(r + i - 1, c)
<1>8. ASSUME NEW i \in 1 .. n + k
      PROVE  /\ Spot(i) \in 0 .. c - 1
             /\ i <= n => ~ (Slot(Spot(i)) <= k)
             /\ i > n => Slot(Spot(i)) = i - n
  <2> DEFINE x == Spot(i)
             s == Slot(x)
  <2>1. s = IF x >= w THEN x - w + 1 ELSE x - w + c + 1 BY <1>6
  <2>2. x = Wrap(r + i - 1, c) OBVIOUS
  <2> HIDE DEF x, s
  <2>3. x \in 0 .. c - 1 /\ (i <= n => ~ (s <= k)) /\ (i > n => s = i - n)
    BY <1>3, <1>4, <1>5, <2>1, <2>2 DEF Wrap
  <2> QED BY <2>3 DEF x, s
<1>9. ASSUME NEW i \in 1 .. n + k
      PROVE  buf'[Spot(i)] = IF i <= n THEN buf[Spot(i)] ELSE edge[i - n].data
  <2>1. buf'[Spot(i)] = IF Slot(Spot(i)) <= k THEN edge[Slot(Spot(i))].data ELSE buf[Spot(i)]
    BY <1>2, <1>4, <1>8
  <2>2. CASE i <= n
    <3>1. ~ (Slot(Spot(i)) <= k) BY <1>8, <2>2
    <3> QED BY <2>1, <2>2, <3>1, Zenon
  <2>3. CASE i > n
    <3>1. Slot(Spot(i)) = i - n BY <1>8, <2>3
    <3>2. i - n <= k /\ ~ (i <= n) BY <1>4, <1>5, <2>3
    <3> QED BY <2>1, <3>1, <3>2, Zenon
  <2> QED BY <2>2, <2>3, <1>4, <1>5
<1>10. buf' \in [0 .. c - 1 -> Sound]
  <2>1. ASSUME NEW x \in 0 .. c - 1, Slot(x) <= k PROVE edge[Slot(x)].data \in Sound
    <3> DEFINE s == Slot(x)
    <3>1. s = (IF x >= w THEN x - w + 1 ELSE x - w + c + 1) /\ s <= k BY <1>6, <2>1
    <3> HIDE DEF s
    <3>2. w < c BY <1>3, <1>4 DEF Wrap
    <3>3. s \in 1 .. Len(edge) BY <1>3, <1>4, <1>5, <1>7, <3>1, <3>2
    <3>4. edge[s] \in Sample BY <1>4, <3>3
    <3>5. edge[s].data \in Sound BY <3>4 DEF Sample, Sound
    <3> QED BY <3>5 DEF s
  <2> QED BY <1>2, <1>4, <2>1
<1>11. edge' = SubSeq(edge, k + 1, Len(edge)) BY <1>2 DEF From
<1>12. SinkInv'
  <2>1. Len(edge') \in Nat BY <1>4, <1>5, <1>11
  <2>2. n' \in Nat /\ w' \in Nat BY <1>2, <1>3, <1>4, <1>5, <1>7 DEF Wrap
  <2>3. Ring'
    <3>1. n' <= capacity' /\ (r' < capacity' \/ r' = 0) BY <1>2, <1>3, <1>4, <1>5 DEF c
    <3>2. w' = Wrap(r' + n', capacity') BY <1>2, <1>3, <1>7 DEF c
    <3>3. buf' \in [0 .. capacity' - 1 -> Sound] BY <1>3, <1>10 DEF c
    <3> QED BY <3>1, <3>2, <3>3 DEF Ring
  <2> QED BY <1>1, <1>2, <1>4, <2>1, <2>2, <2>3 DEF SinkInv, IInv
<1> DEFINE data == Queue!DataOf(SubSeq(edge, 1, k))
<1>13. data = [j \in 1 .. k |-> edge[j].data]
  <2>1. SubSeq(edge, 1, k) = [j \in 1 .. k |-> edge[j]] BY <1>4, <1>5
  <2> QED BY <2>1, <1>5 DEF Queue!DataOf
<1>14. Contents' = [i \in 1 .. n + k |-> buf'[Spot(i)]]
  BY <1>1, <1>2, <1>3 DEF Contents, c
<1>15. Contents' = Contents \o data
  <2>1. Contents \in Seq(Sound) /\ Len(Contents) = n /\ \A i \in 1 .. n : Contents[i] = buf[Spot(i)]
    BY <1>1, ContentsSeq DEF c
  <2>2. data \in Seq(Position) /\ Len(data) = k /\ \A j \in 1 .. k : data[j] = edge[j].data
    <3>1. ASSUME NEW j \in 1 .. k PROVE edge[j].data \in Position
      <4>1. edge[j] \in Sample BY <1>4, <1>5
      <4> QED BY <4>1 DEF Sample
    <3> HIDE DEF data
    <3>2. data \in [1 .. k -> Position] BY <1>13, <3>1
    <3> QED BY <1>5, <1>13, <3>2
  <2> HIDE DEF data, Spot
  <2>3. Contents \o data = [i \in 1 .. n + k |-> IF i <= n THEN Contents[i] ELSE data[i - n]]
    <3>1. ASSUME NEW T, NEW a \in Seq(T), NEW b \in Seq(T)
          PROVE  a \o b = [i \in 1 .. Len(a) + Len(b) |-> IF i <= Len(a) THEN a[i] ELSE b[i - Len(a)]]
      <4>1. a \o b \in Seq(T) /\ Len(a \o b) = Len(a) + Len(b) OBVIOUS
      <4>2. \A i \in 1 .. Len(a) + Len(b) : (a \o b)[i] = IF i <= Len(a) THEN a[i] ELSE b[i - Len(a)]
        OBVIOUS
      <4> DEFINE q == a \o b
      <4>3. q = [i \in 1 .. Len(q) |-> q[i]]
        <5>1. q \in Seq(T) BY <4>1
        <5> HIDE DEF q
        <5> QED BY <5>1
      <4> QED BY <4>1, <4>2, <4>3
    <3>2. data \in Seq(Sound) BY <2>2 DEF Sound
    <3> HIDE DEF Contents
    <3>3. Contents \o data = [i \in 1 .. Len(Contents) + Len(data) |->
                               IF i <= Len(Contents) THEN Contents[i] ELSE data[i - Len(Contents)]]
      BY <2>1, <3>1, <3>2
    <3> QED BY <2>1, <2>2, <3>3
  <2>4. ASSUME NEW i \in 1 .. n + k
        PROVE  buf'[Spot(i)] = IF i <= n THEN Contents[i] ELSE data[i - n]
    <3>1. CASE i <= n BY <1>4, <1>5, <1>9, <2>1, <3>1
    <3>2. CASE ~ (i <= n)
      <4>1. i - n \in 1 .. k BY <1>4, <1>5, <3>2
      <4> QED BY <1>9, <2>2, <3>2, <4>1
    <3> QED BY <3>1, <3>2
  <2> QED BY <1>14, <2>3, <2>4
<1>16. CASE k = 0
  <2>1. edge' = edge BY <1>4, <1>11, <1>16
  <2>2. Contents' = Contents
    <3>1. data = <<>> BY <1>13, <1>16
    <3> HIDE DEF data
    <3> QED BY <1>1, <1>15, <3>1, ContentsSeq
  <2> QED BY <1>2, <1>12, <2>1, <2>2 DEF Queue!vars
<1>17. CASE k # 0
  <2>1. k \in 1 .. Len(edge) BY <1>4, <1>5, <1>17
  <2>2. Queue!Take BY <1>1, <1>2, <1>11, <1>15, <2>1 DEF Queue!Take
  <2> QED BY <1>12, <2>2
<1> QED BY <1>16, <1>17

\* The callback plays the first samples that wait, and silence if they are not enough.
LEMMA Pops ==
  ASSUME IInv, Callback
  PROVE  SinkInv' /\ Queue!Play
<1> DEFINE got == Smaller(n, need)
           c == capacity
           Spot(i) == Wrap(r + i - 1, c)
<1>1. running /\ stream_open BY DEF Callback, IInv, SinkInv
<1>2. /\ sound' = [i \in 1 .. need |-> IF i <= got THEN buf[Spot(i)] ELSE Silence]
      /\ r' = Wrap(r + got, c) /\ n' = n - got
      /\ edge' = edge /\ span' = span /\ buf' = buf /\ w' = w
      /\ stream_open' = stream_open /\ running' = running
      /\ format' = format /\ pending' = pending /\ fallback' = fallback
  BY DEF Callback, fifoVars
<1>3. c \in Nat /\ c' = c BY <1>2, CapacityNat DEF IInv, SinkInv, capacity
<1>4. /\ n \in Nat /\ r \in Nat /\ n <= c /\ (r < c \/ r = 0) /\ w = Wrap(r + n, c)
      /\ buf \in [0 .. c - 1 -> Sound]
  BY <1>1 DEF IInv, SinkInv, Ring
<1>5. need \in Nat /\ got \in Nat /\ got <= n /\ got <= need /\ (got < need => got = n)
  <2>1. need \in Nat BY NeedNat DEF IInv, SinkInv
  <2> QED BY <2>1, <1>4 DEF Smaller
<1>6. /\ Contents \in Seq(Sound) /\ Len(Contents) = n
      /\ \A i \in 1 .. n : Contents[i] = buf[Spot(i)]
  BY <1>1, ContentsSeq
<1> HIDE DEF got, c
<1>7. r' \in Nat /\ n' \in Nat /\ n' <= c /\ (r' < c \/ r' = 0)
  <2>1. Wrap(r + got, c) \in Nat /\ (Wrap(r + got, c) < c \/ Wrap(r + got, c) = 0)
    BY <1>3, <1>4, <1>5 DEF Wrap
  <2> QED BY <1>2, <1>3, <1>4, <1>5, <2>1
<1>8. w' = Wrap(r' + n', c)
  <2>1. Wrap(Wrap(r + got, c) + (n - got), c) = Wrap(r + n, c) BY <1>3, <1>4, <1>5 DEF Wrap
  <2> QED BY <1>2, <1>4, <2>1, Zenon
<1>9. SinkInv'
  <2>1. Ring'
    <3>1. n' <= capacity' /\ (r' < capacity' \/ r' = 0) BY <1>3, <1>7 DEF c
    <3>2. w' = Wrap(r' + n', capacity') BY <1>3, <1>8 DEF c
    <3>3. buf' \in [0 .. capacity' - 1 -> Sound] BY <1>2, <1>3, <1>4 DEF c
    <3> QED BY <3>1, <3>2, <3>3 DEF Ring
  <2>2. w' \in Nat BY <1>2 DEF IInv, SinkInv
  <2> QED BY <1>2, <1>7, <2>1, <2>2 DEF SinkInv, IInv
<1>10. ASSUME NEW i \in 1 .. n - got
       PROVE  Wrap(r' + i - 1, c) = Spot(got + i)
  <2>1. Wrap(Wrap(r + got, c) + i - 1, c) = Wrap(r + (got + i) - 1, c)
    BY <1>3, <1>4, <1>5 DEF Wrap
  <2> QED BY <1>2, <2>1
<1> HIDE DEF Spot
<1>11. Contents' = SubSeq(Contents, got + 1, n)
  <2>1. Contents' = [i \in 1 .. n' |-> buf'[Wrap(r' + i - 1, c')]]
    BY <1>1, <1>2 DEF Contents, c
  <2>2. Contents' = [i \in 1 .. n - got |-> buf[Spot(got + i)]]
    BY <1>2, <1>3, <1>10, <2>1
  <2>3. ASSUME NEW i \in 1 .. n - got PROVE buf[Spot(got + i)] = Contents[got + i]
    <3>1. got + i \in 1 .. n BY <1>4, <1>5
    <3> QED BY <1>6, <3>1
  <2> HIDE DEF Contents
  <2>4. SubSeq(Contents, got + 1, n) = [i \in 1 .. n - got |-> Contents[got + i]]
    BY <1>4, <1>5, <1>6
  <2> QED BY <2>2, <2>3, <2>4
<1>12. Len(sound') = need /\ SubSeq(sound', 1, got) = SubSeq(Contents, 1, got)
  <2> DEFINE f == [i \in 1 .. need |-> IF i <= got THEN buf[Spot(i)] ELSE Silence]
  <2> HIDE DEF Contents
  <2>1. Len(f) = need BY <1>5
  <2>2. SubSeq(f, 1, got) = [i \in 1 .. got |-> f[i]] BY <1>5, <2>1
  <2>3. SubSeq(Contents, 1, got) = [i \in 1 .. got |-> Contents[i]] BY <1>4, <1>5, <1>6
  <2>4. ASSUME NEW i \in 1 .. got PROVE f[i] = Contents[i]
    <3>1. i \in 1 .. need /\ i \in 1 .. n /\ i <= got BY <1>4, <1>5
    <3> QED BY <1>6, <3>1
  <2> QED BY <1>2, <2>1, <2>2, <2>3, <2>4
<1>13. \A i \in n + 1 .. Len(sound') : sound'[i] = Silence
  <2> SUFFICES ASSUME NEW i \in n + 1 .. Len(sound') PROVE sound'[i] = Silence OBVIOUS
  <2>1. i \in 1 .. need /\ ~ (i <= got) BY <1>4, <1>5, <1>12
  <2> QED BY <1>2, <2>1
<1>14. Queue!Play
  <2>1. got \in 0 .. Len(Contents) BY <1>4, <1>5, <1>6
  <2>2. Len(sound') >= got /\ (Len(sound') > got => got = Len(Contents)) BY <1>5, <1>6, <1>12
  <2> HIDE DEF Contents
  <2> QED BY <1>1, <1>2, <1>6, <1>11, <1>12, <1>13, <2>1, <2>2 DEF Queue!Play
<1> QED BY <1>9, <1>14

\* A span for which there is no stream is consumed, and nothing of it is kept.
LEMMA Drops ==
  ASSUME IInv, Drop
  PROVE  SinkInv' /\ Queue!Take
<1>1. span \in 1 .. Len(edge) /\ edge \in Seq(Sample) /\ stream_open = FALSE
  BY DEF Drop, IInv, SinkInv, SourceInv
<1>2. /\ edge' = SubSeq(edge, span + 1, Len(edge)) /\ span' = 0
      /\ UNCHANGED <<started, sinkStarts, fallback, pending, format, stream_open, running, buf, r, w, n, sound, crashed>>
  BY DEF Drop, From, fifoVars
<1>3. SinkInv'
  <2>1. Len(edge') \in Nat BY <1>1, <1>2
  <2> QED BY <1>1, <1>2, <2>1 DEF SinkInv, IInv
<1>4. Contents = <<>> /\ Contents' = <<>> BY <1>1, <1>2 DEF Contents
<1>5. Queue!Take
  <2> HIDE DEF Contents
  <2> QED BY <1>1, <1>2, <1>4 DEF Queue!Take
<1> QED BY <1>3, <1>5

\* What waits stays when nothing of the FIFO, the stream and its format changes.
LEMMA SameContents ==
  ASSUME UNCHANGED <<buf, r, n, format, stream_open>> PROVE Contents' = Contents
<1>1. capacity' = capacity BY DEF capacity
<1> QED BY <1>1 DEF Contents

\* Every step of the sink is one of the queue's, or does not show.
LEMMA SinkSteps ==
  ASSUME IInv, Sink
  PROVE  SinkInv' /\ [Queue!Next]_(Queue!vars)
<1>1. CASE SinkStart
  <2>1. NoFormat \in Format BY DEF NoFormat, Format
  <2>2. SinkInv' BY <1>1, <2>1, Zenon DEF SinkStart, SinkInv, IInv, fifoVars
  <2>3. Contents' = <<>> /\ stream_open' = FALSE /\ UNCHANGED <<edge, sound>>
    BY <1>1 DEF SinkStart, Contents
  <2> QED BY <2>2, <2>3, Zenon DEF Queue!Next, Queue!Close
<1>2. CASE SinkStop
  <2>1. SinkInv' BY <1>2, Zenon DEF SinkStop, SinkInv, IInv, fifoVars
  <2>2. Contents' = <<>> /\ stream_open' = FALSE /\ UNCHANGED <<edge, sound>>
    BY <1>2 DEF SinkStop, Contents
  <2> QED BY <2>1, <2>2, Zenon DEF Queue!Next, Queue!Close
<1>3. CASE Scan
  <2>1. PICK k \in 1 .. Len(edge) : pending' = Scanned(k) /\ span' = k BY <1>3 DEF Scan
  <2>2. Scanned(k) \in Format /\ k \in Nat /\ k <= Len(edge) BY ScannedFormat DEF IInv, SourceInv
  <2>3. UNCHANGED <<edge, fallback, format, stream_open, running, buf, r, w, n, sound>>
    BY <1>3 DEF Scan, fifoVars
  <2>4. Ring' = Ring
    <3>1. capacity' = capacity BY <2>3 DEF capacity
    <3> QED BY <2>3, <3>1 DEF Ring
  <2>5. SinkInv' BY <2>1, <2>2, <2>3, <2>4 DEF SinkInv, IInv
  <2>6. Contents' = Contents BY <2>3, SameContents
  <2> QED BY <2>3, <2>5, <2>6, Zenon DEF Queue!vars
<1>4. CASE ScanAndOpen
  <2>1. PICK k \in 1 .. Len(edge) : MustOpen(Scanned(k)) /\ format' = Scanned(k)
    BY <1>4 DEF ScanAndOpen
  <2>2. stream_open => format' # format BY <2>1 DEF MustOpen
  <2>3. stream_open' \in BOOLEAN /\ UNCHANGED <<edge, sound>> BY <1>4 DEF ScanAndOpen
  <2>4. SinkInv' /\ Contents' = <<>> BY <1>4, OpensEmpty
  <2>5. CASE stream_open' = TRUE BY <2>2, <2>3, <2>4, <2>5, Zenon DEF Queue!Next, Queue!Open
  <2>6. CASE stream_open' = FALSE BY <2>3, <2>4, <2>6, Zenon DEF Queue!Next, Queue!Close
  <2> QED BY <2>3, <2>5, <2>6
<1>5. CASE Drop BY <1>5, Drops DEF Queue!Next
<1>6. CASE Push BY <1>6, Pushes DEF Queue!Next
<1>7. CASE Callback BY <1>7, Pops DEF Queue!Next
<1> QED BY <1>1, <1>2, <1>3, <1>4, <1>5, <1>6, <1>7 DEF Sink, processBulk

\* The sink leaves a sequence of samples in the connection.
LEMMA SinkConsumes ==
  ASSUME IInv, Sink, UNCHANGED sourceVars
  PROVE  SourceInv'
<1>1. edge \in Seq(Sample) /\ span \in Nat /\ n \in Nat BY DEF IInv, SourceInv, SinkInv
<1>2. edge' \in Seq(Sample)
  <2>1. ASSUME NEW k \in Nat, k <= Len(edge), edge' = From(k) PROVE edge' \in Seq(Sample)
    BY <1>1, <2>1 DEF From
  <2>2. CASE edge' = edge BY <1>1, <2>2
  <2>3. CASE Drop BY <1>1, <2>1, <2>3 DEF Drop, IInv, SinkInv
  <2>4. CASE Push
    <3> DEFINE k == Smaller(capacity - n, span)
    <3>1. k \in Nat /\ k <= Len(edge)
      <4>1. n <= capacity /\ capacity \in Nat BY <2>4, CapacityNat DEF Push, IInv, SinkInv, Ring
      <4>2. span <= Len(edge) BY DEF IInv, SinkInv
      <4> QED BY <1>1, <4>1, <4>2 DEF Smaller
    <3>2. edge' = From(k) BY <2>4 DEF Push
    <3> HIDE DEF k
    <3> QED BY <2>1, <3>1, <3>2
  <2>5. edge' = edge \/ Drop \/ Push
    BY DEF Sink, processBulk, SinkStart, SinkStop, Scan, ScanAndOpen, Callback
  <2> QED BY <2>2, <2>3, <2>4, <2>5
<1> QED BY <1>2 DEF sourceVars, IInv, SourceInv

\* What the source does feeds the queue, or does not show.
LEMMA SourceFeeds ==
  ASSUME IInv, Source, UNCHANGED sinkVars
  PROVE  IInv' /\ [Queue!Next]_(Queue!vars)
<1>1. PICK s \in Seq(Sample) : edge' = edge \o s BY SourceSteps DEF IInv
<1>2. edge \in Seq(Sample) /\ SourceInv' BY SourceSteps DEF IInv, SourceInv
<1>3. /\ edge' \in Seq(Sample) /\ Len(edge') >= Len(edge)
      /\ SubSeq(edge', 1, Len(edge)) = SubSeq(edge, 1, Len(edge))
  BY <1>1, <1>2
<1>4. Len(edge) \in Nat /\ Len(edge') \in Nat BY <1>2, <1>3
<1>5. IInv' BY <1>2, <1>3, <1>4, SinkInvKept DEF IInv
<1>6. UNCHANGED <<buf, r, n, format, stream_open, sound>> BY DEF sinkVars, fifoVars
<1>7. Contents' = Contents BY <1>6, SameContents
<1>8. CASE edge' = edge BY <1>5, <1>6, <1>7, <1>8, Zenon DEF Queue!vars
<1>9. CASE edge' # edge
  <2>1. Queue!IsStrictPrefix(edge, edge') BY <1>3, <1>4, <1>9 DEF Queue!IsStrictPrefix, Queue!IsPrefix
  <2>2. Queue!Feed BY <1>6, <1>7, <2>1, Zenon DEF Queue!Feed
  <2> QED BY <1>5, <2>2 DEF Queue!Next
<1> QED BY <1>8, <1>9

LEMMA Step ==
  ASSUME IInv, [Next]_vars
  PROVE  IInv' /\ [Queue!Next]_(Queue!vars)
<1>1. CASE UNCHANGED vars
  <2>1. UNCHANGED sourceVars /\ UNCHANGED sinkVars /\ edge' = edge BY <1>1 DEF vars
  <2>2. SourceInv' BY <2>1 DEF sourceVars, IInv, SourceInv
  <2>3. SinkInv' BY <2>1, SinkInvKept DEF IInv, SourceInv
  <2>4. UNCHANGED <<buf, r, n, format, stream_open, sound>> BY <2>1 DEF sinkVars, fifoVars
  <2>5. Contents' = Contents BY <2>4, SameContents
  <2> QED BY <2>1, <2>2, <2>3, <2>4, <2>5, Zenon DEF IInv, Queue!vars
<1>2. CASE Source /\ UNCHANGED sinkVars BY <1>2, SourceFeeds
<1>3. CASE Sink /\ UNCHANGED sourceVars BY <1>3, SinkSteps, SinkConsumes DEF IInv
<1> QED BY <1>1, <1>2, <1>3 DEF Next

-----------------------------------------------------------------------------
\* The parts of PassesJoin, of any sequence of samples: untagged samples
\* follow the one before, tags are on the first sample of a frame, the samples
\* since the last tag are as many as were counted, and the last one is d.
Consecutive(e) ==
  \A i \in 2 .. Len(e) : e[i].tag = NoTag => e[i].data = [e[i - 1].data EXCEPT !.position = @ + 1]

TagsBeginPasses(e) ==
  \A i \in DOMAIN e : e[i].tag # NoTag =>
    e[i].tag = FormatOf(e[i].data.file) /\ e[i].data.position % e[i].data.file.channels = 0

CountsFromTag(e, total) ==
  \A i \in DOMAIN e : e[i].tag # NoTag /\ (\A j \in i + 1 .. Len(e) : e[j].tag = NoTag) =>
    Len(e) - i + 1 = total

EndsWith(e, d) == e # <<>> => e[Len(e)].data = d

\* The count is that of the pass as long as its tag is out; before, it is 0.
PassInv ==
  /\ emittedStart \in BOOLEAN
  /\ Consecutive(edge) /\ TagsBeginPasses(edge)
  /\ emittedStart => CountsFromTag(edge, totalSamplesFile)
  /\ ~ emittedStart => totalSamplesFile = 0
  /\ reader # NoFile /\ emittedStart =>
       EndsWith(edge, [file |-> reader, position |-> frame * reader.channels - 1])

\* What is consumed is consumed at the front.
LEMMA PassesFrom ==
  ASSUME NEW e \in Seq(Sample), NEW k \in 0 .. Len(e), NEW total, NEW d
  PROVE  LET t == SubSeq(e, k + 1, Len(e)) IN
           /\ Consecutive(e) => Consecutive(t)
           /\ TagsBeginPasses(e) => TagsBeginPasses(t)
           /\ CountsFromTag(e, total) => CountsFromTag(t, total)
           /\ EndsWith(e, d) => EndsWith(t, d)
<1> DEFINE t == SubSeq(e, k + 1, Len(e))
           m == Len(t)
           l == Len(e)
<1>1. /\ l \in Nat /\ DOMAIN e = 1 .. l /\ t \in Seq(Sample) /\ m = l - k /\ DOMAIN t = 1 .. m
      /\ \A i \in 1 .. m : t[i] = e[i + k]
  <2>1. l \in Nat /\ DOMAIN e = 1 .. l /\ k \in Nat /\ k <= l OBVIOUS
  <2>2. t \in Seq(Sample) /\ m = l - k BY Cut
  <2>3. ASSUME NEW i \in 1 .. l - k PROVE t[i] = e[i + k]
    <3>1. t = [j \in 1 .. l - k |-> e[k + 1 + j - 1]] BY <2>1
    <3>2. k + 1 + i - 1 = i + k BY <2>1
    <3> HIDE DEF t
    <3> QED BY <3>1, <3>2
  <2> HIDE DEF t, l
  <2>4. DOMAIN t = 1 .. m BY <2>2
  <2> HIDE DEF m
  <2>5. \A i \in 1 .. m : t[i] = e[i + k] BY <2>2, <2>3
  <2> QED BY <2>1, <2>2, <2>4, <2>5
<1>2. k \in Int /\ 0 <= k /\ k <= l
  <2>1. l \in Nat OBVIOUS
  <2> QED BY <2>1
<1> HIDE DEF t, m, l
<1>3. ASSUME Consecutive(e) PROVE Consecutive(t)
  <2> SUFFICES ASSUME NEW i \in 2 .. m, t[i].tag = NoTag
               PROVE  t[i].data = [t[i - 1].data EXCEPT !.position = @ + 1]
    BY DEF Consecutive, m
  <2> DEFINE x == i + k
             y == i - 1
             z == x - 1
  <2>1. x \in 2 .. l /\ y + k = z /\ y \in 1 .. m /\ i \in 1 .. m BY <1>1, <1>2
  <2>2. t[i] = e[x] /\ t[y] = e[z] BY <1>1, <2>1
  <2>3. \A j \in 2 .. l : e[j].tag = NoTag => e[j].data = [e[j - 1].data EXCEPT !.position = @ + 1]
    BY <1>3 DEF Consecutive, l
  <2> HIDE DEF x
  <2>4. e[x].data = [e[z].data EXCEPT !.position = @ + 1] BY <2>1, <2>2, <2>3
  <2> QED BY <2>2, <2>4
<1>4. ASSUME TagsBeginPasses(e) PROVE TagsBeginPasses(t)
  <2> SUFFICES ASSUME NEW i \in 1 .. m, t[i].tag # NoTag
               PROVE  t[i].tag = FormatOf(t[i].data.file) /\ t[i].data.position % t[i].data.file.channels = 0
    BY <1>1 DEF TagsBeginPasses
  <2> DEFINE x == i + k
  <2>1. x \in DOMAIN e /\ t[i] = e[x] BY <1>1, <1>2
  <2> HIDE DEF x
  <2> QED BY <1>4, <2>1 DEF TagsBeginPasses
<1>5. ASSUME CountsFromTag(e, total) PROVE CountsFromTag(t, total)
  <2> SUFFICES ASSUME NEW i \in 1 .. m, t[i].tag # NoTag, \A j \in i + 1 .. m : t[j].tag = NoTag
               PROVE  m - i + 1 = total
    BY <1>1 DEF CountsFromTag, m
  <2> DEFINE x == i + k
  <2>1. x \in DOMAIN e /\ t[i] = e[x] BY <1>1, <1>2
  <2>2. ASSUME NEW j \in x + 1 .. l PROVE e[j].tag = NoTag
    <3> DEFINE y == j - k
    <3>1. y \in i + 1 .. m /\ y \in 1 .. m /\ y + k = j BY <1>1, <1>2
    <3> HIDE DEF y
    <3> QED BY <1>1, <3>1
  <2>3. l - x + 1 = m - i + 1 BY <1>1, <1>2
  <2> HIDE DEF x
  <2>4. l - x + 1 = total BY <1>5, <2>1, <2>2 DEF CountsFromTag, l
  <2> QED BY <2>3, <2>4
<1>6. ASSUME EndsWith(e, d) PROVE EndsWith(t, d)
  <2> SUFFICES ASSUME t # <<>> PROVE t[m].data = d BY DEF EndsWith, m
  <2>1. m \in 1 .. m /\ m + k = l /\ e # <<>>
    <3>1. m # 0 BY <1>1, EmptySeq DEF m
    <3>2. l # 0 BY <1>1, <1>2, <3>1
    <3>3. e # <<>> BY <3>2 DEF l
    <3> QED BY <1>1, <1>2, <3>1, <3>3
  <2>2. t[m] = e[l] BY <1>1, <2>1
  <2> QED BY <1>6, <2>1, <2>2 DEF EndsWith, l
<1> QED BY <1>3, <1>4, <1>5, <1>6 DEF t

\* The samples of a file from position p go on where the connection ends, or
\* begin a pass with a tag.
LEMMA PassesOnward ==
  ASSUME NEW e \in Seq(Sample), NEW s \in Seq(Sample), s # <<>>,
         NEW f, FormatOf(f) # NoTag, NEW p \in Int, p % f.channels = 0,
         NEW tagged \in BOOLEAN, NEW total \in Int,
         \A i \in 1 .. Len(s) : /\ s[i].data = [file |-> f, position |-> p + i - 1]
                                /\ s[i].tag = IF i = 1 /\ ~ tagged THEN FormatOf(f) ELSE NoTag,
         Consecutive(e), TagsBeginPasses(e),
         tagged => CountsFromTag(e, total) /\ EndsWith(e, [file |-> f, position |-> p - 1]),
         ~ tagged => total = 0
  PROVE  LET g == e \o s IN
           /\ Consecutive(g) /\ TagsBeginPasses(g) /\ CountsFromTag(g, total + Len(s))
           /\ EndsWith(g, [file |-> f, position |-> p + Len(s) - 1])
<1> DEFINE g == e \o s
           l == Len(e)
           m == Len(s)
           q == l + m
<1>1. /\ l \in Nat /\ DOMAIN e = 1 .. l /\ m \in Nat \ {0} /\ q = l + m
      /\ g \in Seq(Sample) /\ Len(g) = q /\ DOMAIN g = 1 .. q
      /\ (\A i \in 1 .. l : g[i] = e[i])
      /\ (\A i \in l + 1 .. q : g[i] = s[i - l])
  <2>1. l \in Nat /\ DOMAIN e = 1 .. l /\ m \in Nat \ {0} BY EmptySeq
  <2>2. g \in Seq(Sample) /\ Len(g) = q /\ (\A i \in 1 .. l : g[i] = e[i]) /\ (\A i \in l + 1 .. q : g[i] = s[i - l])
    BY Concatenation
  <2> HIDE DEF g
  <2>3. DOMAIN g = 1 .. q BY <2>2
  <2> QED BY <2>1, <2>2, <2>3
<1>2. \A i \in 1 .. m : /\ s[i].data = [file |-> f, position |-> p + i - 1]
                        /\ s[i].tag = IF i = 1 /\ ~ tagged THEN FormatOf(f) ELSE NoTag
  OBVIOUS
<1> HIDE DEF g, l, m, q
<1>3. ASSUME NEW i \in l + 1 .. q
      PROVE  /\ g[i].data = [file |-> f, position |-> p + (i - l) - 1]
             /\ g[i].tag = IF i = l + 1 /\ ~ tagged THEN FormatOf(f) ELSE NoTag
  <2> DEFINE x == i - l
  <2>1. x \in 1 .. m /\ g[i] = s[x] /\ (i = l + 1 <=> x = 1) BY <1>1
  <2> HIDE DEF x
  <2>2. s[x].data = [file |-> f, position |-> p + x - 1] /\ s[x].tag = IF x = 1 /\ ~ tagged THEN FormatOf(f) ELSE NoTag
    BY <1>2, <2>1
  <2> QED BY <2>1, <2>2 DEF x
<1>4. Consecutive(g)
  <2> SUFFICES ASSUME NEW i \in 2 .. q, g[i].tag = NoTag
               PROVE  g[i].data = [g[i - 1].data EXCEPT !.position = @ + 1]
    BY <1>1 DEF Consecutive
  <2> DEFINE y == i - 1
  <2>0. i \in Int /\ y \in Int /\ y = i - 1 OBVIOUS
  <2>1. CASE i <= l
    <3>1. i \in 2 .. l /\ i \in 1 .. l /\ y \in 1 .. l BY <1>1, <2>1
    <3>2. g[i] = e[i] /\ g[y] = e[y] BY <1>1, <3>1
    <3>3. e[i].data = [e[y].data EXCEPT !.position = @ + 1] BY <3>1, <3>2 DEF Consecutive, l
    <3> QED BY <3>2, <3>3
  <2>2. CASE i = l + 1
    <3>1. i \in l + 1 .. q /\ y \in 1 .. l /\ y = l /\ l # 0 BY <1>1, <2>2
    <3>2. tagged
      <4>1. g[i].tag = IF ~ tagged THEN FormatOf(f) ELSE NoTag BY <1>3, <2>2, <3>1
      <4> QED BY <4>1
    <3>3. e # <<>> BY <3>1 DEF l
    <3>4. e[l].data = [file |-> f, position |-> p - 1] BY <3>2, <3>3 DEF EndsWith, l
    <3>5. g[y] = e[l] BY <1>1, <3>1
    <3>6. g[i].data = [file |-> f, position |-> p + (i - l) - 1] BY <1>3, <3>1
    <3>7. p + (i - l) - 1 = p - 1 + 1 BY <1>1, <2>2
    <3>8. g[i].data = [file |-> f, position |-> p - 1 + 1] BY <3>6, <3>7
    <3> QED BY <3>4, <3>5, <3>8
  <2>3. CASE i > l + 1
    <3>1. i \in l + 1 .. q /\ y \in l + 1 .. q BY <1>1, <2>0, <2>3
    <3> DEFINE u == p + (i - l) - 1
               v == p + (y - l) - 1
    <3>2. g[i].data = [file |-> f, position |-> u] BY <1>3, <3>1
    <3> HIDE DEF y
    <3>3. g[y].data = [file |-> f, position |-> v] BY <1>3, <3>1
    <3>4. u = v + 1 BY <1>1, <2>0
    <3> HIDE DEF u, v
    <3>5. g[i].data = [g[y].data EXCEPT !.position = @ + 1] BY <3>2, <3>3, <3>4
    <3> QED BY <3>5 DEF y
  <2> QED BY <1>1, <2>0, <2>1, <2>2, <2>3
<1>5. TagsBeginPasses(g)
  <2> SUFFICES ASSUME NEW i \in 1 .. q, g[i].tag # NoTag
               PROVE  g[i].tag = FormatOf(g[i].data.file) /\ g[i].data.position % g[i].data.file.channels = 0
    BY <1>1 DEF TagsBeginPasses
  <2>1. CASE i <= l
    <3>1. i \in DOMAIN e /\ g[i] = e[i] BY <1>1, <2>1
    <3> QED BY <3>1 DEF TagsBeginPasses
  <2>2. CASE ~ (i <= l)
    <3>1. i \in l + 1 .. q BY <1>1, <2>2
    <3>2. i = l + 1 /\ g[i].tag = FormatOf(f) BY <1>3, <3>1
    <3>3. g[i].data = [file |-> f, position |-> p + (i - l) - 1] BY <1>3, <3>1
    <3>4. p + (i - l) - 1 = p BY <1>1, <3>2
    <3>5. g[i].data.file = f /\ g[i].data.position = p BY <3>3, <3>4
    <3> QED BY <3>2, <3>5
  <2> QED BY <2>1, <2>2
<1>6. CountsFromTag(g, total + m)
  <2> SUFFICES ASSUME NEW i \in 1 .. q, g[i].tag # NoTag, \A j \in i + 1 .. q : g[j].tag = NoTag
               PROVE  q - i + 1 = total + m
    BY <1>1 DEF CountsFromTag
  <2> DEFINE o == l + 1
  <2>0. o \in l + 1 .. q /\ o \in Int /\ o = l + 1 BY <1>1
  <2>1. CASE i <= l
    <3>1. i \in DOMAIN e /\ g[i] = e[i] /\ o \in i + 1 .. q BY <1>1, <2>1
    <3>2. tagged
      <4>1. g[o].tag = IF ~ tagged THEN FormatOf(f) ELSE NoTag BY <1>3, <2>0
      <4>2. g[o].tag = NoTag
        <5> HIDE DEF o
        <5> QED BY <3>1
      <4> QED BY <4>1, <4>2
    <3>3. ASSUME NEW j \in i + 1 .. l PROVE e[j].tag = NoTag
      <4>1. j \in i + 1 .. q /\ j \in 1 .. l BY <1>1
      <4> QED BY <1>1, <4>1
    <3>4. l - i + 1 = total BY <3>1, <3>2, <3>3 DEF CountsFromTag, l
    <3> QED BY <1>1, <3>4
  <2>2. CASE ~ (i <= l)
    <3>1. i \in l + 1 .. q BY <1>1, <2>2
    <3>2. i = l + 1 /\ ~ tagged BY <1>3, <3>1
    <3> QED BY <1>1, <3>2
  <2> QED BY <2>1, <2>2
<1>7. EndsWith(g, [file |-> f, position |-> p + m - 1])
  <2>1. q \in l + 1 .. q /\ q - l = m BY <1>1
  <2>2. g[q].data = [file |-> f, position |-> p + (q - l) - 1] BY <1>3, <2>1
  <2> QED BY <1>1, <2>1, <2>2 DEF EndsWith
<1> QED BY <1>4, <1>5, <1>6, <1>7 DEF g, m

\* The first sample of a frame is on channel 0.
LEMMA FrameBegins == ASSUME NEW a \in Nat, NEW b \in Nat \ {0} PROVE (a * b) % b = 0
  BY SMT

LEMMA FrameAfter ==
  ASSUME NEW a \in Int, NEW b \in Int, NEW c \in Int PROVE (a + b) * c = a * c + b * c
  BY SMT

LEMMA PassInit == Init => PassInv
<1> SUFFICES ASSUME Init PROVE PassInv OBVIOUS
<1>1. edge = <<>> /\ emittedStart = FALSE /\ totalSamplesFile = 0 BY Zenon DEF Init, SourceInit
<1>2. Len(<<>>) = 0 /\ DOMAIN <<>> = {} OBVIOUS
<1>3. Consecutive(<<>>) BY <1>2 DEF Consecutive
<1>4. TagsBeginPasses(<<>>) BY <1>2 DEF TagsBeginPasses
<1> QED BY <1>1, <1>3, <1>4, Zenon DEF PassInv

\* A pass that ends leaves a count of 0 and a tag to come, or nothing open.
LEMMA PassEndsInOrder ==
  ASSUME PassInv, reader # NoFile, NEW at, NEW total, NEW tagged \in BOOLEAN, NEW e,
         Consecutive(e), TagsBeginPasses(e), tagged => CountsFromTag(e, total), ~ tagged => total = 0,
         edge' = e, Rewind \/ Finish(at, total, tagged)
  PROVE  PassInv'
<1>1. CASE Rewind
  <2>1. emittedStart' = FALSE /\ totalSamplesFile' = 0 BY <1>1 DEF Rewind
  <2>2. Consecutive(edge') /\ TagsBeginPasses(edge') OBVIOUS
  <2> QED BY <2>1, <2>2, Zenon DEF PassInv
<1>2. CASE Finish(at, total, tagged)
  <2>1. emittedStart' = tagged /\ totalSamplesFile' = total /\ reader' = NoFile BY <1>2 DEF Finish
  <2>2. Consecutive(edge') /\ TagsBeginPasses(edge') OBVIOUS
  <2>3. emittedStart' => CountsFromTag(edge', totalSamplesFile') BY <2>1
  <2> QED BY <2>1, <2>2, <2>3, Zenon DEF PassInv
<1> QED BY <1>1, <1>2

\* The source reads on where it stands.
LEMMA ReadsOnward ==
  ASSUME SourceInv, PassInv, Read PROVE PassInv'
<1> DEFINE k == frames_read
           ch == reader.channels
           s == Frames(k)
           p == frame * ch
           m == k * ch
           total == totalSamplesFile + m
           tagged == emittedStart \/ k > 0
           g == edge \o s
           at == frame + k
<1>1. reader \in Files /\ reader # NoFile /\ frames_req > 0 BY FilesAssumption DEF Read, Called, SourceInv
<1>2. k \in Nat /\ m \in Nat BY <1>1, Counts
<1>3. ch \in Nat \ {0} /\ reader.rate \in Nat /\ frame \in Nat /\ totalSamplesFile \in Nat
  BY <1>1, FilesAssumption DEF SourceInv
<1>4. edge \in Seq(Sample) /\ s \in Seq(Sample) BY <1>1, <1>2, FramesAreSamples DEF SourceInv
<1>5. /\ edge' = g
      /\ \/ frame' = at /\ totalSamplesFile' = total /\ emittedStart' = tagged /\ reader' = reader
         \/ Rewind \/ Finish(at, total, tagged)
  BY DEF Read
<1>6. p \in Int /\ p % ch = 0
  <2>1. p \in Nat BY <1>3, Product
  <2>2. p % ch = 0
    <3> HIDE DEF ch
    <3> QED BY <1>3, FrameBegins, Zenon
  <2> QED BY <2>1, <2>2
<1>7. at * ch = p + m BY <1>2, <1>3, FrameAfter
<1>8. FormatOf(reader) # NoTag
  <2>1. FormatOf(reader) \in Format BY <1>3 DEF FormatOf, Format
  <2> QED BY <2>1, TagAssumption
<1>9. /\ emittedStart \in BOOLEAN /\ Consecutive(edge) /\ TagsBeginPasses(edge)
      /\ emittedStart => /\ CountsFromTag(edge, totalSamplesFile)
                         /\ EndsWith(edge, [file |-> reader, position |-> p - 1])
      /\ ~ emittedStart => totalSamplesFile = 0
  BY <1>1, Zenon DEF PassInv
<1>10. /\ Consecutive(g) /\ TagsBeginPasses(g)
       /\ tagged \in BOOLEAN
       /\ tagged => /\ CountsFromTag(g, total)
                    /\ EndsWith(g, [file |-> reader, position |-> at * ch - 1])
       /\ ~ tagged => total = 0
  <2>1. s = [i \in 1 .. m |-> [data |-> [file |-> reader, position |-> p + i - 1],
                               tag  |-> IF i = 1 /\ ~ emittedStart THEN FormatOf(reader) ELSE NoTag]]
    BY DEF Frames
  <2>2. Len(s) = m
    <3> HIDE DEF m, p
    <3> QED BY <1>2, <2>1
  <2>3. CASE k = 0
    <3>1. m = 0 BY <1>3, <2>3
    <3>2. g = edge /\ total = totalSamplesFile /\ at * ch = p /\ (tagged <=> emittedStart)
      <4>1. s = <<>> BY <1>4, <2>2, <3>1, EmptySeq
      <4>2. g = edge BY <1>4, <4>1, ConcatEmptySeq
      <4>3. total = totalSamplesFile BY <1>3, <3>1
      <4>4. at * ch = p BY <1>6, <1>7, <3>1
      <4>5. tagged <=> emittedStart BY <2>3
      <4> QED BY <4>2, <4>3, <4>4, <4>5
    <3>3. tagged \in BOOLEAN BY <1>9
    <3> HIDE DEF g, total, at, tagged
    <3> QED BY <1>9, <3>2, <3>3, Zenon
  <2>4. CASE k # 0
    <3>1. tagged = TRUE BY <1>2, <2>4
    <3>2. m # 0
      <4> DEFINE x == k
      <4>1. x \in Nat \ {0} BY <1>2, <2>4
      <4> HIDE DEF x
      <4>2. x * ch # 0
        <5>1. ASSUME NEW a \in Nat \ {0}, NEW b \in Nat \ {0} PROVE a * b # 0 BY SMT
        <5> QED BY <1>3, <4>1, <5>1
      <4> QED BY <4>2 DEF x
    <3>3. s # <<>>
      <4> HIDE DEF s, m
      <4>1. Len(s) # 0 BY <2>2, <3>2
      <4> QED BY <4>1
    <3> HIDE DEF p, m, s
    <3>4. \A i \in 1 .. Len(s) :
            /\ s[i].data = [file |-> reader, position |-> p + i - 1]
            /\ s[i].tag = IF i = 1 /\ ~ emittedStart THEN FormatOf(reader) ELSE NoTag
      BY <2>1, <2>2
    <3>5. totalSamplesFile \in Int BY <1>3
    <3>6. p % reader.channels = 0 /\ p \in Int BY <1>6 DEF p
    <3>7. /\ emittedStart => CountsFromTag(edge, totalSamplesFile) /\ EndsWith(edge, [file |-> reader, position |-> p - 1])
      BY <1>9 DEF p
    <3>8. /\ Consecutive(g) /\ TagsBeginPasses(g) /\ CountsFromTag(g, totalSamplesFile + Len(s))
          /\ EndsWith(g, [file |-> reader, position |-> p + Len(s) - 1])
      BY <1>4, <1>8, <1>9, <3>3, <3>4, <3>5, <3>6, <3>7, PassesOnward
    <3> HIDE DEF g
    <3>9. CountsFromTag(g, total) /\ EndsWith(g, [file |-> reader, position |-> at * ch - 1])
      <4>1. at * ch = p + m BY <1>7 DEF p, m
      <4> DEFINE x == at * ch - 1
                 y == p + Len(s) - 1
      <4>2. x = y
        <5>1. p \in Int /\ m \in Int BY <1>2, <1>6
        <5> HIDE DEF at
        <5> QED BY <2>2, <4>1, <5>1
      <4>3. total = totalSamplesFile + Len(s) BY <2>2
      <4> HIDE DEF x
      <4>4. EndsWith(g, [file |-> reader, position |-> x]) BY <3>8, <4>2
      <4> QED BY <3>8, <4>3, <4>4 DEF x
    <3> HIDE DEF total, at, tagged
    <3> QED BY <3>1, <3>8, <3>9, Zenon
  <2> QED BY <2>3, <2>4
<1> HIDE DEF k, ch, s, p, m, total, tagged, g, at
<1>11. CASE Rewind \/ Finish(at, total, tagged)
  <2>1. edge' = g BY <1>5
  <2> QED BY <1>1, <1>10, <1>11, <2>1, PassEndsInOrder
<1>12. CASE frame' = at /\ totalSamplesFile' = total /\ emittedStart' = tagged /\ reader' = reader
  <2>1. frame' * reader'.channels - 1 = at * ch - 1 BY <1>12 DEF ch
  <2>2. emittedStart' => EndsWith(edge', [file |-> reader', position |-> frame' * reader'.channels - 1])
    BY <1>5, <1>10, <1>12, <2>1
  <2> QED BY <1>5, <1>10, <1>12, <2>2, Zenon DEF PassInv
<1> QED BY <1>5, <1>11, <1>12

LEMMA PassesOfSource ==
  ASSUME SourceInv, PassInv, Source PROVE PassInv'
<1>1. /\ emittedStart \in BOOLEAN /\ Consecutive(edge) /\ TagsBeginPasses(edge)
      /\ emittedStart => CountsFromTag(edge, totalSamplesFile)
      /\ ~ emittedStart => totalSamplesFile = 0
  BY Zenon DEF PassInv
<1>2. CASE SourceStart
  <2>1. emittedStart' = FALSE /\ totalSamplesFile' = 0 /\ edge' = edge BY <1>2 DEF SourceStart
  <2> QED BY <1>1, <2>1, Zenon DEF PassInv
<1>3. CASE SourceStop
  <2>1. reader' = NoFile /\ UNCHANGED <<edge, emittedStart, totalSamplesFile>> BY <1>3 DEF SourceStop
  <2> QED BY <1>1, <2>1, Zenon DEF PassInv
<1>4. CASE SetSettings
  <2>1. UNCHANGED <<edge, reader, frame, emittedStart, totalSamplesFile>> BY <1>4 DEF SetSettings
  <2> QED BY <2>1, Zenon DEF PassInv
<1>5. CASE LengthReached
  <2>1. reader # NoFile /\ edge' = edge /\ (Rewind \/ Finish(frame, totalSamplesFile, emittedStart))
    BY <1>5 DEF LengthReached, Called
  <2> QED BY <1>1, <2>1, PassEndsInOrder
<1>6. CASE Read BY <1>6, ReadsOnward
<1> QED BY <1>2, <1>3, <1>4, <1>5, <1>6 DEF Source, SourceWork

\* The sink only takes samples from the front of the connection.
LEMMA SinkTakes ==
  ASSUME IInv, Sink
  PROVE  \E k \in 0 .. Len(edge) : edge' = SubSeq(edge, k + 1, Len(edge))
<1>0. edge \in Seq(Sample) /\ span \in Nat /\ n \in Nat BY DEF IInv, SourceInv, SinkInv
<1>1. CASE edge' = edge
  <2>1. 0 \in 0 .. Len(edge) /\ edge = SubSeq(edge, 0 + 1, Len(edge)) BY <1>0
  <2> QED BY <1>1, <2>1
<1>2. CASE Drop
  <2>1. span \in 0 .. Len(edge) /\ edge' = SubSeq(edge, span + 1, Len(edge))
    BY <1>0, <1>2 DEF Drop, From, IInv, SinkInv
  <2> QED BY <2>1
<1>3. CASE Push
  <2> DEFINE k == Smaller(capacity - n, span)
  <2>1. k \in 0 .. Len(edge)
    <3>1. n <= capacity /\ capacity \in Nat BY <1>3, CapacityNat DEF Push, IInv, SinkInv, Ring
    <3>2. span <= Len(edge) BY DEF IInv, SinkInv
    <3> QED BY <1>0, <3>1, <3>2 DEF Smaller
  <2>2. edge' = SubSeq(edge, k + 1, Len(edge)) BY <1>3 DEF Push, From
  <2> HIDE DEF k
  <2> QED BY <2>1, <2>2
<1>4. edge' = edge \/ Drop \/ Push
  BY DEF Sink, processBulk, SinkStart, SinkStop, Scan, ScanAndOpen, Callback
<1> QED BY <1>1, <1>2, <1>3, <1>4

LEMMA PassesOfSink ==
  ASSUME IInv, PassInv, Sink, UNCHANGED sourceVars PROVE PassInv'
<1>1. edge \in Seq(Sample) BY DEF IInv, SourceInv
<1>2. \E k \in 0 .. Len(edge) : edge' = SubSeq(edge, k + 1, Len(edge)) BY SinkTakes
<1>3. PICK k \in 0 .. Len(edge) : edge' = SubSeq(edge, k + 1, Len(edge)) BY <1>2
<1>4. UNCHANGED <<reader, frame, emittedStart, totalSamplesFile>> BY DEF sourceVars
<1> DEFINE d == [file |-> reader, position |-> frame * reader.channels - 1]
<1>5. /\ Consecutive(edge) => Consecutive(edge')
      /\ TagsBeginPasses(edge) => TagsBeginPasses(edge')
      /\ CountsFromTag(edge, totalSamplesFile) => CountsFromTag(edge', totalSamplesFile)
      /\ EndsWith(edge, d) => EndsWith(edge', d)
  BY <1>1, <1>3, PassesFrom
<1> QED BY <1>4, <1>5, Zenon DEF PassInv

LEMMA PassStep ==
  ASSUME IInv, PassInv, [Next]_vars PROVE PassInv'
<1>1. CASE UNCHANGED vars
  <2>1. UNCHANGED <<edge, reader, frame, emittedStart, totalSamplesFile>> BY <1>1 DEF vars, sourceVars
  <2> QED BY <2>1, Zenon DEF PassInv
<1>2. CASE Source BY <1>2, PassesOfSource DEF IInv
<1>3. CASE Sink /\ UNCHANGED sourceVars BY <1>3, PassesOfSink
<1> QED BY <1>1, <1>2, <1>3 DEF Next

-----------------------------------------------------------------------------
\* A sample that ends a frame.
EndsFrame(d) == ChannelOf(d) = d.file.channels - 1

\* The parts of InStep and HoldsOtherFormat, of any sequence and format.
OnChannels(q, fm) ==
  \A i \in 1 .. Len(q) : FormatOf(q[i].file) = fm => ChannelOf(q[i]) = (i - 1) % fm.channels

AllOfFormat(q, fm) == \A i \in 1 .. Len(q) : FormatOf(q[i].file) = fm

\* The last of the samples of a frame is followed by the first of another.
LEMMA NextChannel ==
  ASSUME NEW x \in Nat, NEW y \in Nat, NEW c \in Nat \ {0}, x % c = y % c
  PROVE  (x + 1) % c = (y + 1) % c
<1>1. ((x % c) + 1) % c = (x + 1) % c BY RemainderOfSum
<1>2. ((y % c) + 1) % c = (y + 1) % c BY RemainderOfSum
<1> QED BY <1>1, <1>2

LEMMA LastChannel ==
  ASSUME NEW x \in Nat, NEW c \in Nat \ {0}, x % c = c - 1
  PROVE  (x + 1) % c = 0
<1>1. ((x % c) + 1) % c = (x + 1) % c BY RemainderOfSum
<1>2. c - 1 + 1 = c OBVIOUS
<1>3. c % c = 0
  <2>1. c = 1 * c + 0 /\ 0 \in 0 .. c - 1 OBVIOUS
  <2> QED BY <2>1, DivisionIs
<1> QED BY <1>1, <1>2, <1>3

LEMMA WholeFramesSkipped ==
  ASSUME NEW x \in Nat, NEW y \in Nat, NEW c \in Nat \ {0}, x % c = 0
  PROVE  (x + y) % c = y % c
<1>1. ((x % c) + y) % c = (x + y) % c BY RemainderOfSum
<1> QED BY <1>1

\* Samples of one file from the start of a frame go on after the end of one.
LEMMA GoesOn ==
  ASSUME NEW fm \in Format, fm.channels # 0,
         NEW q \in Seq(Position), OnChannels(q, fm), AllOfFormat(q, fm),
         q # <<>> => EndsFrame(q[Len(q)]),
         NEW f \in Files, NEW p \in Nat, p % f.channels = 0,
         NEW s \in Seq(Position), \A j \in 1 .. Len(s) : s[j] = [file |-> f, position |-> p + j - 1]
  PROVE  OnChannels(q \o s, fm)
<1> DEFINE l == Len(q)
           m == Len(s)
           c == fm.channels
           g == q \o s
<1>1. l \in Nat /\ m \in Nat /\ c \in Nat \ {0} BY DEF Format
<1>2. Len(g) = l + m /\ (\A i \in 1 .. l : g[i] = q[i]) /\ (\A i \in l + 1 .. l + m : g[i] = s[i - l])
  BY Concatenation
<1>3. l % c = 0
  <2>1. CASE l = 0
    <3> HIDE DEF c, l
    <3>1. 0 = 0 * c + 0 /\ 0 \in 0 .. c - 1 BY <1>1
    <3>2. 0 % c = 0 BY <1>1, <3>1, DivisionIs
    <3> QED BY <2>1, <3>2
  <2>2. CASE l # 0
    <3> DEFINE k == l - 1
    <3>1. l \in 1 .. l /\ q # <<>> /\ k \in Nat /\ k + 1 = l BY <1>1, <2>2
    <3>2. q[l] \in Position /\ FormatOf(q[l].file) = fm /\ ChannelOf(q[l]) = k % c /\ EndsFrame(q[l])
      BY <3>1 DEF OnChannels, AllOfFormat
    <3>3. q[l].file.channels = c BY <3>2 DEF FormatOf
    <3> HIDE DEF c, k, l
    <3>4. k % c = c - 1 BY <3>2, <3>3 DEF EndsFrame
    <3>5. (k + 1) % c = 0 BY <1>1, <3>1, <3>4, LastChannel
    <3> QED BY <3>1, <3>5
  <2> QED BY <2>1, <2>2
<1>4. ASSUME NEW i \in 1 .. l, FormatOf(g[i].file) = fm PROVE ChannelOf(g[i]) = (i - 1) % c
  <2>1. FormatOf(q[i].file) = fm => ChannelOf(q[i]) = (i - 1) % c BY DEF OnChannels
  <2>2. g[i] = q[i] BY <1>2
  <2> HIDE DEF g, c
  <2> QED BY <1>4, <2>1, <2>2
<1>5. ASSUME NEW i \in l + 1 .. l + m, FormatOf(g[i].file) = fm PROVE ChannelOf(g[i]) = (i - 1) % c
  <2> DEFINE j == i - l
             x == j - 1
             pos == p + x
  <2>1. j \in 1 .. m /\ x \in Nat /\ i - 1 = l + x /\ p + j - 1 = pos BY <1>1
  <2>2. s[j] = [file |-> f, position |-> p + j - 1] BY <2>1
  <2>3. g[i] = s[j] BY <1>2
  <2> HIDE DEF g, c, l, m, j, x
  <2>4. s[j].file = f /\ s[j].position = pos BY <2>1, <2>2
  <2>5. FormatOf(f) = fm BY <1>5, <2>3, <2>4
  <2>6. f.channels = c BY <2>5 DEF FormatOf, c
  <2>7. ChannelOf(g[i]) = pos % c BY <2>3, <2>4, <2>6 DEF ChannelOf
  <2>8. pos % c = x % c BY <1>1, <2>1, <2>6, WholeFramesSkipped
  <2>9. (l + x) % c = x % c BY <1>1, <1>3, <2>1, WholeFramesSkipped
  <2> QED BY <2>1, <2>7, <2>8, <2>9
<1> HIDE DEF g, c, l, m
<1>6. \A i \in 1 .. l + m : FormatOf(g[i].file) = fm => ChannelOf(g[i]) = (i - 1) % c BY <1>1, <1>4, <1>5
<1> QED BY <1>2, <1>6 DEF OnChannels, g, c

\* What is left when whole frames are gone is on the same channels.
LEMMA ChannelsShifted ==
  ASSUME NEW fm \in Format, fm.channels # 0, NEW q, OnChannels(q, fm), Len(q) \in Nat,
         NEW k \in Nat, k % fm.channels = 0,
         NEW t, Len(t) = Len(q) - k, \A i \in 1 .. Len(t) : t[i] = q[i + k]
  PROVE  OnChannels(t, fm)
<1> SUFFICES ASSUME NEW i \in 1 .. Len(t), FormatOf(t[i].file) = fm
             PROVE  ChannelOf(t[i]) = (i - 1) % fm.channels
  BY DEF OnChannels
<1> DEFINE j == i + k
           x == i - 1
           y == j - 1
           c == fm.channels
<1>1. c \in Nat \ {0} BY DEF Format
<1>2. j \in 1 .. Len(q) /\ x \in Nat /\ y = k + x OBVIOUS
<1>3. t[i] = q[j] OBVIOUS
<1>4. FormatOf(q[j].file) = fm => ChannelOf(q[j]) = y % c BY <1>2 DEF OnChannels
<1> HIDE DEF j, x, y, c
<1>5. (k + x) % c = x % c BY <1>1, <1>2, WholeFramesSkipped DEF c
<1> QED BY <1>2, <1>3, <1>4, <1>5 DEF x, c

\* Passes that begin and end with whole frames stay on the channels they begin on.
LEMMA ChannelsOfPasses ==
  ASSUME NEW e \in Seq(Sample), Consecutive(e), TagsBeginPasses(e),
         \A i \in 2 .. Len(e) : e[i].tag # NoTag => EndsFrame(e[i - 1].data),
         NEW fm \in Format, fm.channels # 0,
         NEW m \in 0 .. Len(e), \A i \in 1 .. m : FormatOf(e[i].data.file) = fm,
         ChannelOf(e[1].data) = 0
  PROVE  \A i \in 1 .. m : ChannelOf(e[i].data) = (i - 1) % fm.channels
<1> DEFINE c == fm.channels
           S == {k \in Nat : k + 1 \in 1 .. m => ChannelOf(e[k + 1].data) = k % c}
<1>1. c \in Nat \ {0} BY DEF Format
<1>2. \A i \in 1 .. m : e[i] \in Sample /\ e[i].data.file.channels = c /\ e[i].data.position \in Nat
  <2> SUFFICES ASSUME NEW i \in 1 .. m PROVE e[i] \in Sample /\ e[i].data.file.channels = c /\ e[i].data.position \in Nat
    OBVIOUS
  <2>1. e[i] \in Sample /\ FormatOf(e[i].data.file) = fm OBVIOUS
  <2> QED BY <2>1 DEF FormatOf, Sample, Position
<1>3. 0 \in S
  <2>1. 0 = 0 * c + 0 /\ 0 \in 0 .. c - 1 BY <1>1
  <2>2. 0 % c = 0 BY <1>1, <2>1, DivisionIs
  <2> QED BY <2>2
<1>4. ASSUME NEW k \in Nat, k \in S PROVE k + 1 \in S
  <2> SUFFICES ASSUME k + 1 + 1 \in 1 .. m PROVE ChannelOf(e[k + 1 + 1].data) = (k + 1) % c OBVIOUS
  <2> DEFINE a == k + 1
             b == a + 1
  <2>1. a \in 1 .. m /\ b \in 1 .. m /\ b \in 2 .. Len(e) /\ b \in DOMAIN e /\ b - 1 = a OBVIOUS
  <2>2. ChannelOf(e[a].data) = k % c BY <1>4
  <2>3. /\ e[a].data.file.channels = c /\ e[b].data.file.channels = c
        /\ e[a].data.position \in Nat /\ e[a].data \in Position
    BY <1>2, <2>1 DEF Sample
  <2>4. e[b].tag = NoTag => e[b].data = [e[b - 1].data EXCEPT !.position = @ + 1] BY <2>1 DEF Consecutive
  <2>5. e[b].tag # NoTag => EndsFrame(e[b - 1].data) /\ e[b].data.position % e[b].data.file.channels = 0
    BY <2>1 DEF TagsBeginPasses
  <2> HIDE DEF b, S, c
  <2>6. CASE e[b].tag = NoTag
    <3> DEFINE x == e[a].data.position
    <3>1. e[b].data.position = x + 1
      <4>1. e[b].data = [e[a].data EXCEPT !.position = @ + 1] BY <2>1, <2>4, <2>6
      <4> QED BY <2>3, <4>1 DEF Position
    <3>2. x % c = k % c BY <2>2, <2>3 DEF ChannelOf
    <3> HIDE DEF x
    <3>3. (x + 1) % c = (k + 1) % c BY <1>1, <2>3, <3>2, NextChannel DEF x
    <3> QED BY <2>3, <3>1, <3>3 DEF ChannelOf, b, a
  <2>7. CASE e[b].tag # NoTag
    <3>1. ChannelOf(e[b].data) = 0 BY <2>5, <2>7 DEF ChannelOf
    <3>2. k % c = c - 1 BY <2>1, <2>2, <2>3, <2>5, <2>7 DEF EndsFrame
    <3>3. (k + 1) % c = 0 BY <1>1, <3>2, LastChannel
    <3> QED BY <3>1, <3>3 DEF b, a
  <2> QED BY <2>6, <2>7
<1>5. Nat \subseteq S
  <2> HIDE DEF S
  <2> QED BY <1>3, <1>4, Induction
<1>6. ASSUME NEW i \in 1 .. m PROVE ChannelOf(e[i].data) = (i - 1) % c
  <2> DEFINE k == i - 1
  <2>1. k \in Nat /\ k + 1 = i OBVIOUS
  <2>2. k \in S BY <1>5, <2>1
  <2> HIDE DEF k, c
  <2> QED BY <2>1, <2>2 DEF k
<1> QED BY <1>6

-----------------------------------------------------------------------------
\* The samples of a connection before the first tag with another format.
Others(e, fm) == {i \in DOMAIN e : e[i].tag \notin {NoTag, fm}}

Upto(e, fm) ==
  IF Others(e, fm) = {} THEN Len(e)
  ELSE (CHOOSE i \in Others(e, fm) : \A j \in Others(e, fm) : i <= j) - 1

Data(s) == [i \in 1 .. Len(s) |-> s[i].data]

Ahead(e, fm) == [i \in 1 .. Upto(e, fm) |-> e[i].data]

LEMMA FollowingIs == Following = Contents \o Ahead(edge, format)
  BY DEF Following, Ahead, Upto, Others

LEMMA FollowingIsNext == Following' = Contents' \o Ahead(edge', format')
<1>1. Following = Contents \o Ahead(edge, format) BY FollowingIs
<1>2. (Following = Contents \o Ahead(edge, format))' BY <1>1, PTL
<1> QED BY <1>2

LEMMA UptoBounds ==
  ASSUME NEW e \in Seq(Sample), NEW fm
  PROVE  /\ Upto(e, fm) \in 0 .. Len(e)
         /\ \A i \in 1 .. Upto(e, fm) : e[i].tag \in {NoTag, fm}
         /\ Upto(e, fm) < Len(e) => e[Upto(e, fm) + 1].tag \notin {NoTag, fm}
<1> DEFINE S == Others(e, fm)
           u == Upto(e, fm)
           l == Len(e)
<1>1. l \in Nat /\ DOMAIN e = 1 .. l OBVIOUS
<1>2. CASE S = {}
  <2>1. u = l BY <1>2 DEF Upto
  <2>2. ASSUME NEW i \in 1 .. l PROVE e[i].tag \in {NoTag, fm} BY <1>1, <1>2 DEF Others
  <2> HIDE DEF u, l
  <2> QED BY <1>1, <2>1, <2>2 DEF u, l
<1>3. CASE S # {}
  <2> DEFINE x == CHOOSE i \in S : \A j \in S : i <= j
  <2>1. \E i \in S : \A j \in S : i <= j
    <3>1. S \subseteq Nat BY DEF Others
    <3> HIDE DEF S
    <3> QED BY <1>3, <3>1, Least
  <2>2. x \in S /\ \A j \in S : x <= j
    <3> HIDE DEF S
    <3> QED BY <2>1
  <2>3. u = x - 1 BY <1>3 DEF Upto
  <2> HIDE DEF x
  <2>4. x \in 1 .. l /\ e[x].tag \notin {NoTag, fm} BY <2>2 DEF Others
  <2>5. ASSUME NEW i \in 1 .. u PROVE e[i].tag \in {NoTag, fm}
    <3> HIDE DEF u
    <3>1. i \in DOMAIN e /\ ~ (x <= i) BY <1>1, <2>3, <2>4
    <3>2. i \notin S BY <2>2, <3>1
    <3> QED BY <3>1, <3>2 DEF Others
  <2>6. u + 1 = x
    <3> HIDE DEF u
    <3> QED BY <2>3, <2>4
  <2> HIDE DEF u, l
  <2>7. u \in 0 .. l BY <1>1, <2>3, <2>4
  <2> QED BY <2>4, <2>5, <2>6, <2>7 DEF u, l
<1> QED BY <1>2, <1>3

LEMMA UptoIs ==
  ASSUME NEW e \in Seq(Sample), NEW fm, NEW k \in 0 .. Len(e),
         \A i \in 1 .. k : e[i].tag \in {NoTag, fm},
         k < Len(e) => e[k + 1].tag \notin {NoTag, fm}
  PROVE  Upto(e, fm) = k
<1> DEFINE u == Upto(e, fm)
           l == Len(e)
<1>1. l \in Nat /\ u \in 0 .. l /\ (\A i \in 1 .. u : e[i].tag \in {NoTag, fm})
      /\ (u < l => e[u + 1].tag \notin {NoTag, fm})
  BY UptoBounds
<1>2. k \in 0 .. l /\ (k < l => e[k + 1].tag \notin {NoTag, fm}) OBVIOUS
<1> HIDE DEF u, l
<1>3. ~ (u < k)
  <2> SUFFICES ASSUME u < k PROVE FALSE OBVIOUS
  <2>1. u + 1 \in 1 .. k /\ u < l BY <1>1, <1>2
  <2> QED BY <1>1, <2>1
<1>4. ~ (k < u)
  <2> SUFFICES ASSUME k < u PROVE FALSE OBVIOUS
  <2>1. k + 1 \in 1 .. u /\ k < l BY <1>1, <1>2
  <2> QED BY <1>1, <1>2, <2>1
<1> QED BY <1>1, <1>2, <1>3, <1>4 DEF u

LEMMA AheadIs ==
  ASSUME NEW e \in Seq(Sample), NEW fm
  PROVE  /\ Ahead(e, fm) \in Seq(Position) /\ Len(Ahead(e, fm)) = Upto(e, fm)
         /\ \A i \in 1 .. Upto(e, fm) : Ahead(e, fm)[i] = e[i].data
<1> DEFINE u == Upto(e, fm)
           l == Len(e)
<1>1. l \in Nat /\ u \in 0 .. l BY UptoBounds
<1>2. \A i \in 1 .. l : e[i].data \in Position
  <2>1. \A i \in 1 .. l : e[i] \in Sample OBVIOUS
  <2> QED BY <2>1 DEF Sample
<1>3. Ahead(e, fm) = [i \in 1 .. u |-> e[i].data] BY DEF Ahead
<1> HIDE DEF u, l
<1>4. u \in Nat /\ \A i \in 1 .. u : e[i].data \in Position BY <1>1, <1>2
<1> QED BY <1>3, <1>4 DEF u

\* None but the first may have a tag.
FirstTagged(s, tg) == \A j \in 1 .. Len(s) : s[j].tag = IF j = 1 THEN tg ELSE NoTag

\* What is put behind a connection comes ahead when no other format does before.
LEMMA AheadOf ==
  ASSUME NEW e \in Seq(Sample), NEW s \in Seq(Sample), NEW fm, NEW tg, FirstTagged(s, tg)
  PROVE  \/ Ahead(e \o s, fm) = Ahead(e, fm)
         \/ Ahead(e, fm) = Data(e) /\ Ahead(e \o s, fm) = Ahead(e, fm) \o Data(s)
<1> DEFINE l == Len(e)
           m == Len(s)
           g == e \o s
           u == Upto(e, fm)
           data == [j \in 1 .. m |-> s[j].data]
<1>1. l \in Nat /\ m \in Nat /\ g \in Seq(Sample) /\ Len(g) = l + m
      /\ (\A i \in 1 .. l : g[i] = e[i]) /\ (\A i \in l + 1 .. l + m : g[i] = s[i - l])
  BY Concatenation
<1>2. u \in 0 .. l /\ (\A i \in 1 .. u : e[i].tag \in {NoTag, fm})
      /\ (u < l => e[u + 1].tag \notin {NoTag, fm})
  BY UptoBounds
<1>3. \A j \in 1 .. m : s[j].tag = IF j = 1 THEN tg ELSE NoTag BY DEF FirstTagged
<1>4. \A k \in 0 .. l + m : Upto(g, fm) = k => Ahead(g, fm) = [i \in 1 .. k |-> g[i].data] BY DEF Ahead
<1>5. Ahead(e, fm) = [i \in 1 .. u |-> e[i].data] BY DEF Ahead
<1>6. Ahead(e, fm) \in Seq(Position) /\ Len(Ahead(e, fm)) = u
      /\ \A i \in 1 .. u : Ahead(e, fm)[i] = e[i].data
  BY AheadIs
<1>7. \A j \in 1 .. m : s[j].data \in Position
  <2>1. \A j \in 1 .. m : s[j] \in Sample OBVIOUS
  <2> QED BY <2>1 DEF Sample
<1>8. data \in Seq(Position) /\ Len(data) = m /\ \A j \in 1 .. m : data[j] = s[j].data
  <2> HIDE DEF m
  <2> QED BY <1>1, <1>7
<1> HIDE DEF g, l, m, u, data
<1>9. CASE u < l \/ (m # 0 /\ tg \notin {NoTag, fm})
  <2>1. \A i \in 1 .. u : g[i] = e[i] BY <1>1, <1>2
  <2>2. g[u + 1].tag \notin {NoTag, fm}
    <3>1. CASE u < l
      <4>1. u + 1 \in 1 .. l BY <1>1, <1>2, <3>1
      <4> QED BY <1>1, <1>2, <3>1, <4>1
    <3>2. CASE ~ (u < l)
      <4> DEFINE x == l + 1
      <4>1. u = l /\ x - l = 1 /\ 1 \in 1 .. m /\ x \in l + 1 .. l + m BY <1>1, <1>2, <1>9, <3>2
      <4>2. s[1].tag = tg BY <1>3, <4>1
      <4> HIDE DEF x
      <4>3. g[x] = s[1] BY <1>1, <4>1
      <4> QED BY <1>9, <3>2, <4>1, <4>2, <4>3 DEF x
    <3> QED BY <3>1, <3>2
  <2>3. \A i \in 1 .. u : g[i].tag \in {NoTag, fm} BY <1>2, <2>1
  <2>4. u \in 0 .. Len(g) BY <1>1, <1>2
  <2>5. Upto(g, fm) = u BY <1>1, <2>2, <2>3, <2>4, UptoIs
  <2>6. Ahead(g, fm) = [i \in 1 .. u |-> g[i].data] BY <2>5 DEF Ahead
  <2>7. Ahead(g, fm) = Ahead(e, fm) BY <1>5, <2>1, <2>6
  <2> QED BY <2>7 DEF g
<1>10. CASE ~ (u < l) /\ (m = 0 \/ tg \in {NoTag, fm})
  <2> DEFINE q == l + m
  <2>1. u = l /\ q \in 0 .. Len(g) /\ q = Len(g) BY <1>1, <1>2, <1>10
  <2>2. ASSUME NEW i \in 1 .. q PROVE g[i].tag \in {NoTag, fm}
    <3>1. CASE i <= l
      <4>1. i \in 1 .. l /\ i \in 1 .. u BY <1>1, <2>1, <3>1
      <4> QED BY <1>1, <1>2, <4>1
    <3>2. CASE ~ (i <= l)
      <4> DEFINE j == i - l
      <4>1. j \in 1 .. m /\ i \in l + 1 .. l + m /\ m # 0 BY <1>1, <3>2
      <4>2. g[i] = s[j] BY <1>1, <4>1
      <4> HIDE DEF j
      <4>3. s[j].tag \in {NoTag, tg} BY <1>3, <4>1
      <4> QED BY <1>10, <4>1, <4>2, <4>3
    <3> QED BY <3>1, <3>2
  <2> HIDE DEF q
  <2>3. Upto(g, fm) = q
    <3>1. ~ (q < Len(g)) BY <1>1, <2>1
    <3> QED BY <1>1, <2>1, <2>2, <3>1, UptoIs
  <2>4. Ahead(g, fm) \in Seq(Position) /\ Len(Ahead(g, fm)) = q /\ \A i \in 1 .. q : Ahead(g, fm)[i] = g[i].data
    BY <1>1, <2>3, AheadIs
  <2> DEFINE a == Ahead(g, fm)
             b == Ahead(e, fm)
             y == b \o data
  <2>5. y \in Seq(Position) /\ Len(y) = l + m
        /\ (\A i \in 1 .. l : y[i] = b[i]) /\ (\A i \in l + 1 .. l + m : y[i] = data[i - l])
    <3> HIDE DEF b
    <3>1. b \in Seq(Position) /\ Len(b) = l BY <1>6, <2>1 DEF b
    <3> QED BY <1>8, <3>1, Concatenation
  <2>6. ASSUME NEW i \in 1 .. q PROVE a[i] = y[i]
    <3>0. a[i] = g[i].data BY <2>4
    <3>1. CASE i <= l
      <4>1. i \in 1 .. l /\ i \in 1 .. u BY <1>1, <2>1, <3>1
      <4> HIDE DEF a, b, y
      <4> QED BY <1>1, <1>6, <2>5, <3>0, <4>1 DEF b
    <3>2. CASE ~ (i <= l)
      <4> DEFINE j == i - l
      <4>1. j \in 1 .. m /\ i \in l + 1 .. l + m BY <1>1, <3>2 DEF q
      <4> HIDE DEF a, b, y
      <4>2. g[i] = s[j] /\ y[i] = data[j] BY <1>1, <2>5, <4>1
      <4> HIDE DEF j
      <4> QED BY <1>8, <3>0, <4>1, <4>2
    <3> QED BY <3>1, <3>2
  <2>7. a \in Seq(Position) /\ y \in Seq(Position) /\ Len(a) = q /\ Len(y) = q /\ \A i \in 1 .. q : a[i] = y[i]
    BY <2>4, <2>5, <2>6 DEF q
  <2> HIDE DEF a, b, y
  <2>8. a = y BY ONLY <2>7, SeqEqual
  <2>9. b = [i \in 1 .. l |-> e[i].data] BY <1>5, <2>1 DEF b
  <2> QED BY <2>8, <2>9 DEF a, b, y, g, data, l, m, Data
<1> QED BY <1>9, <1>10

\* What is taken from the front of a connection, before another format comes, was ahead.
LEMMA AheadCut ==
  ASSUME NEW e \in Seq(Sample), NEW fm, NEW k \in 0 .. Upto(e, fm)
  PROVE  [j \in 1 .. k |-> e[j].data] \o Ahead(SubSeq(e, k + 1, Len(e)), fm) = Ahead(e, fm)
<1> DEFINE l == Len(e)
           t == SubSeq(e, k + 1, l)
           u == Upto(e, fm)
           v == u - k
           data == [j \in 1 .. k |-> e[j].data]
<1>1. /\ l \in Nat /\ u \in 0 .. l /\ (\A i \in 1 .. u : e[i].tag \in {NoTag, fm})
      /\ (u < l => e[u + 1].tag \notin {NoTag, fm})
  BY UptoBounds
<1>2. k \in Nat /\ k <= u /\ k \in 0 .. l /\ v \in Nat /\ v = u - k
  <2> HIDE DEF u, l
  <2>1. k \in 0 .. u BY DEF u
  <2> QED BY <1>1, <2>1
<1>3. t \in Seq(Sample) /\ Len(t) = l - k BY <1>2, Cut
<1>4. ASSUME NEW i \in 1 .. l - k PROVE t[i] = e[i + k]
  <2>1. t = [j \in 1 .. l - k |-> e[k + 1 + j - 1]] BY <1>1, <1>2
  <2>2. k + 1 + i - 1 = i + k BY <1>2
  <2> HIDE DEF t, l
  <2> QED BY <2>1, <2>2
<1>5. \A i \in 1 .. u : Ahead(e, fm)[i] = e[i].data BY AheadIs
<1>6. Ahead(e, fm) \in Seq(Position) /\ Len(Ahead(e, fm)) = u BY AheadIs
<1>7. data \in Seq(Position) /\ Len(data) = k /\ \A j \in 1 .. k : data[j] = e[j].data
  <2>1. \A j \in 1 .. l : e[j] \in Sample OBVIOUS
  <2> HIDE DEF l, u
  <2>2. \A j \in 1 .. k : e[j].data \in Position
    <3>1. \A j \in 1 .. k : j \in 1 .. l BY <1>1, <1>2
    <3> QED BY <2>1, <3>1 DEF Sample
  <2> QED BY <1>2, <2>2
<1> HIDE DEF t, u, v, data, l
<1>8. Upto(t, fm) = v
  <2>1. v \in 0 .. Len(t) BY <1>1, <1>2, <1>3
  <2>2. ASSUME NEW i \in 1 .. v PROVE t[i].tag \in {NoTag, fm}
    <3> DEFINE x == i + k
    <3>1. i \in 1 .. l - k /\ x \in 1 .. u BY <1>1, <1>2
    <3>2. t[i] = e[x] BY <1>4, <3>1
    <3> HIDE DEF x
    <3> QED BY <1>1, <3>1, <3>2
  <2>3. ASSUME v < Len(t) PROVE t[v + 1].tag \notin {NoTag, fm}
    <3> DEFINE x == v + 1
               z == x + k
    <3>1. x \in 1 .. l - k /\ z = u + 1 /\ u < l BY <1>1, <1>2, <1>3, <2>3
    <3>2. t[x] = e[z] BY <1>4, <3>1
    <3> HIDE DEF x, z
    <3>3. t[x].tag \notin {NoTag, fm} BY <1>1, <3>1, <3>2
    <3> QED BY <3>3 DEF x
  <2> QED BY <1>3, <2>1, <2>2, <2>3, UptoIs
<1>9. Ahead(t, fm) \in Seq(Position) /\ Len(Ahead(t, fm)) = v /\ \A i \in 1 .. v : Ahead(t, fm)[i] = t[i].data
  BY <1>3, <1>8, AheadIs
<1> DEFINE a == Ahead(t, fm)
           b == Ahead(e, fm)
           y == data \o a
<1>10. /\ y \in Seq(Position) /\ Len(y) = k + v
       /\ (\A i \in 1 .. k : y[i] = data[i]) /\ (\A i \in k + 1 .. k + v : y[i] = a[i - k])
  <2> HIDE DEF a
  <2>1. a \in Seq(Position) /\ Len(a) = v BY <1>9 DEF a
  <2> QED BY <1>7, <2>1, Concatenation
<1>11. ASSUME NEW i \in 1 .. u PROVE y[i] = b[i]
  <2>0. b[i] = e[i].data BY <1>5
  <2>1. CASE i <= k
    <3>1. i \in 1 .. k BY <1>2, <2>1
    <3> HIDE DEF y, b
    <3> QED BY <1>7, <1>10, <2>0, <3>1
  <2>2. CASE ~ (i <= k)
    <3> DEFINE j == i - k
    <3>1. i \in k + 1 .. k + v /\ j \in 1 .. v /\ j \in 1 .. l - k /\ j + k = i BY <1>1, <1>2, <2>2
    <3>2. y[i] = a[j]
      <4> HIDE DEF y, a
      <4> QED BY <1>10, <3>1
    <3>3. t[j] = e[j + k] BY <1>4, <3>1
    <3> HIDE DEF j, y, b
    <3>4. a[j] = t[j].data BY <1>9, <3>1
    <3> QED BY <2>0, <3>1, <3>2, <3>3, <3>4
  <2> QED BY <2>1, <2>2
<1>12. y \in Seq(Position) /\ b \in Seq(Position) /\ Len(y) = Len(b) /\ \A i \in 1 .. Len(y) : y[i] = b[i]
  <2>1. k + v = u BY <1>1, <1>2
  <2>2. b \in Seq(Position) /\ Len(b) = u BY <1>6
  <2> HIDE DEF y, b
  <2> QED BY <1>10, <1>11, <2>1, <2>2
<1> HIDE DEF a, b, y
<1>13. y = b BY ONLY <1>12, SeqEqual
<1> QED BY <1>13 DEF y, b, a, data, t, l

-----------------------------------------------------------------------------
\* Tags come after whole frames, and the connection ends with one.
TagsBetweenFrames(e) == \A i \in 2 .. Len(e) : e[i].tag # NoTag => EndsFrame(e[i - 1].data)

EndsWhole(e) == e # <<>> => EndsFrame(e[Len(e)].data)

\* An open stream has the format of its tags, and what waits in its FIFO ends
\* with a whole frame, if nothing more is in the connection.
FrameInv ==
  /\ TagsBetweenFrames(edge) /\ EndsWhole(edge)
  /\ stream_open => /\ pending = format /\ format.channels # 0
                    /\ Contents \in Seq(Position)
                    /\ edge = <<>> /\ Contents # <<>> => EndsFrame(Contents[Len(Contents)])

LEMMA FramesInit == Init => FrameInv
<1> SUFFICES ASSUME Init PROVE FrameInv OBVIOUS
<1>1. edge = <<>> /\ stream_open = FALSE BY Zenon DEF Init, SinkInit
<1>2. TagsBetweenFrames(<<>>)
  <2>1. Len(<<>>) = 0 OBVIOUS
  <2> QED BY <2>1 DEF TagsBetweenFrames
<1>3. EndsWhole(<<>>) BY DEF EndsWhole
<1> QED BY <1>1, <1>2, <1>3, Zenon DEF FrameInv

LEMMA FramesFrom ==
  ASSUME NEW e \in Seq(Sample), NEW k \in 0 .. Len(e), TagsBetweenFrames(e), EndsWhole(e)
  PROVE  LET t == SubSeq(e, k + 1, Len(e)) IN TagsBetweenFrames(t) /\ EndsWhole(t)
<1> DEFINE l == Len(e)
           t == SubSeq(e, k + 1, l)
<1>1. l \in Nat /\ k \in Nat /\ k <= l OBVIOUS
<1>2. t \in Seq(Sample) /\ Len(t) = l - k BY Cut
<1>3. ASSUME NEW i \in 1 .. l - k PROVE t[i] = e[i + k]
  <2>1. t = [j \in 1 .. l - k |-> e[k + 1 + j - 1]] BY <1>1
  <2>2. k + 1 + i - 1 = i + k BY <1>1
  <2> HIDE DEF t, l
  <2> QED BY <2>1, <2>2
<1>4. (\A i \in 2 .. l : e[i].tag # NoTag => EndsFrame(e[i - 1].data)) /\ (e # <<>> => EndsFrame(e[l].data))
  BY DEF TagsBetweenFrames, EndsWhole
<1>5. l = 0 <=> e = <<>> BY EmptySeq
<1> HIDE DEF t, l
<1>6. Len(t) = 0 <=> t = <<>> BY <1>2, EmptySeq
<1>7. ASSUME NEW i \in 2 .. l - k, t[i].tag # NoTag PROVE EndsFrame(t[i - 1].data)
  <2> DEFINE x == i + k
             y == i - 1
             z == x - 1
  <2>1. x \in 2 .. l /\ z = y + k /\ y \in 1 .. l - k /\ i \in 1 .. l - k BY <1>1
  <2>2. t[i] = e[x] BY <1>3, <2>1
  <2>3. t[y] = e[y + k] BY <1>3, <2>1
  <2> HIDE DEF x, y
  <2>4. e[x].tag # NoTag => EndsFrame(e[x - 1].data) BY <1>4, <2>1
  <2>5. t[y] = e[z] BY <2>1, <2>3
  <2> HIDE DEF z
  <2>6. EndsFrame(e[z].data) BY <1>7, <2>2, <2>4 DEF z
  <2>7. EndsFrame(t[y].data) BY <2>5, <2>6
  <2> QED BY <2>7 DEF y
<1>8. ASSUME t # <<>> PROVE EndsFrame(t[l - k].data)
  <2> DEFINE m == l - k
  <2>1. m \in 1 .. l - k /\ m + k = l /\ e # <<>> BY <1>1, <1>2, <1>5, <1>6, <1>8
  <2>2. t[m] = e[m + k] BY <1>3, <2>1
  <2> HIDE DEF m
  <2>3. EndsFrame(t[m].data) BY <1>4, <2>1, <2>2
  <2> QED BY <2>3 DEF m
<1>9. TagsBetweenFrames(t) BY <1>2, <1>7 DEF TagsBetweenFrames
<1>10. EndsWhole(t) BY <1>2, <1>8 DEF EndsWhole
<1> QED BY <1>9, <1>10 DEF t, l

\* A number of whole frames ends with the last channel.
LEMMA LastOfFrames ==
  ASSUME NEW m \in Nat \ {0}, NEW c \in Nat \ {0}, m % c = 0
  PROVE  (m - 1) % c = c - 1
<1> DEFINE q == m \div c
           x == m - 1
           p == q - 1
           rest == c - 1
<1>1. m = q * c + (m % c) /\ q \in Nat BY Division
<1>2. x \in Nat /\ p \in Int /\ rest \in 0 .. c - 1 /\ x = m - 1 /\ p = q - 1 /\ rest = c - 1 BY <1>1
<1> HIDE DEF q, x, p, rest
<1>3. m = q * c BY <1>1, Multiples
<1>4. (q - 1) * c = q * c - 1 * c BY <1>1, Multiples
<1>5. x = p * c + rest
  <2>1. p * c = q * c - c BY <1>2, <1>4
  <2>2. q * c \in Int /\ q * c = m BY <1>1, <1>3, Multiples
  <2>3. p * c = m - c BY <2>1, <2>2
  <2> HIDE DEF p
  <2>4. m - c + rest = m - 1 BY <1>2
  <2> QED BY <1>2, <2>3, <2>4
<1>6. x % c = rest BY <1>2, <1>5, DivisionIs
<1> QED BY <1>6 DEF x, rest

\* What a call reads: samples of the file from the start of a frame, in whole
\* frames, and a tag on none but the first.
WholeFramesRead(s, f, p, tg) ==
  /\ s \in Seq(Sample) /\ f \in Files /\ p \in Nat /\ p % f.channels = 0 /\ Len(s) % f.channels = 0
  /\ \A j \in 1 .. Len(s) : /\ s[j].data = [file |-> f, position |-> p + j - 1]
                            /\ s[j].tag = IF j = 1 THEN tg ELSE NoTag

LEMMA WhatIsRead ==
  ASSUME SourceInv, Read
  PROVE  \E s, p, tg :
           /\ edge' = edge \o s /\ WholeFramesRead(s, reader, p, tg)
           /\ p = frame * reader.channels /\ (tg # NoTag => ~ emittedStart)
           /\ Len(s) # 0 => frame < reader.frames
<1> DEFINE k == frames_read
           ch == reader.channels
           s == Frames(k)
           p == frame * ch
           m == k * ch
           tg == IF ~ emittedStart THEN FormatOf(reader) ELSE NoTag
<1>1. reader \in Files /\ frames_req > 0 /\ edge' = edge \o s BY DEF Read, Called, SourceInv
<1>2. k \in Nat /\ m \in Nat BY <1>1, Counts
<1>3. ch \in Nat \ {0} /\ frame \in Nat BY <1>1, FilesAssumption DEF SourceInv
<1>4. p \in Nat /\ p % ch = 0 /\ m % ch = 0
  <2> HIDE DEF ch, k
  <2> QED BY <1>2, <1>3, Product, FrameBegins
<1>5. s \in Seq(Sample) BY <1>1, <1>2, FramesAreSamples
<1>6. s = [i \in 1 .. m |-> [data |-> [file |-> reader, position |-> p + i - 1],
                             tag  |-> IF i = 1 /\ ~ emittedStart THEN FormatOf(reader) ELSE NoTag]]
  BY DEF Frames
<1> HIDE DEF k, s, p, m
<1>7. Len(s) = m BY <1>2, <1>6
<1>8. \A j \in 1 .. m : /\ s[j].data = [file |-> reader, position |-> p + j - 1]
                        /\ s[j].tag = IF j = 1 THEN tg ELSE NoTag
  BY <1>6
<1>9. tg # NoTag => ~ emittedStart OBVIOUS
<1> HIDE DEF tg
<1>10. WholeFramesRead(s, reader, p, tg) BY <1>1, <1>4, <1>5, <1>7, <1>8 DEF WholeFramesRead, ch
<1>11. m # 0 => frame < reader.frames
  <2>1. reader.frames \in Nat BY <1>1, FilesAssumption
  <2>2. frame + k <= reader.frames BY <1>1, Counts DEF k
  <2>3. k = 0 => m = 0 BY <1>3 DEF m
  <2> QED BY <1>2, <1>3, <2>1, <2>2, <2>3
<1> QED BY <1>1, <1>7, <1>9, <1>10, <1>11 DEF p

\* Whole frames behind whole frames.
LEMMA FramesOnward ==
  ASSUME NEW e \in Seq(Sample), TagsBetweenFrames(e), EndsWhole(e),
         NEW s, NEW f, NEW p, NEW tg, WholeFramesRead(s, f, p, tg)
  PROVE  TagsBetweenFrames(e \o s) /\ EndsWhole(e \o s)
<1> DEFINE l == Len(e)
           m == Len(s)
           g == e \o s
           c == f.channels
<1>1. /\ s \in Seq(Sample) /\ f \in Files /\ p \in Nat /\ p % c = 0 /\ m % c = 0
      /\ \A j \in 1 .. m : s[j].data = [file |-> f, position |-> p + j - 1] /\ s[j].tag = IF j = 1 THEN tg ELSE NoTag
  BY DEF WholeFramesRead
<1>2. /\ l \in Nat /\ m \in Nat /\ g \in Seq(Sample) /\ Len(g) = l + m
      /\ (\A i \in 1 .. l : g[i] = e[i]) /\ (\A i \in l + 1 .. l + m : g[i] = s[i - l])
  BY <1>1, Concatenation
<1>3. c \in Nat \ {0} BY <1>1, FilesAssumption
<1>4. (\A i \in 2 .. l : e[i].tag # NoTag => EndsFrame(e[i - 1].data)) /\ (e # <<>> => EndsFrame(e[l].data))
  BY DEF TagsBetweenFrames, EndsWhole
<1>5. l = 0 <=> e = <<>> BY EmptySeq
<1> HIDE DEF g, l, m, c
<1>6. Len(g) = 0 <=> g = <<>> BY <1>2, EmptySeq
<1>7. ASSUME NEW i \in 2 .. l + m, g[i].tag # NoTag PROVE EndsFrame(g[i - 1].data)
  <2> DEFINE y == i - 1
  <2>1. CASE i <= l
    <3>1. i \in 1 .. l /\ y \in 1 .. l /\ i \in 2 .. l BY <1>2, <2>1
    <3>2. g[i] = e[i] /\ g[y] = e[y] BY <1>2, <3>1
    <3>3. EndsFrame(e[y].data) BY <1>4, <1>7, <3>1, <3>2
    <3> HIDE DEF y
    <3>4. EndsFrame(g[y].data) BY <3>2, <3>3
    <3> QED BY <3>4 DEF y
  <2>2. CASE ~ (i <= l)
    <3> DEFINE j == i - l
    <3>1. j \in 1 .. m /\ i \in l + 1 .. l + m /\ (j = 1 => y = l /\ y \in 1 .. l /\ l # 0) BY <1>2, <2>2
    <3>2. g[i] = s[j] BY <1>2, <3>1
    <3> HIDE DEF j
    <3>3. j = 1 BY <1>1, <1>7, <3>1, <3>2
    <3>4. g[y] = e[l] BY <1>2, <3>1, <3>3
    <3> HIDE DEF y
    <3>5. EndsFrame(g[y].data) BY <1>4, <1>5, <3>1, <3>3, <3>4
    <3> QED BY <3>5 DEF y
  <2> QED BY <2>1, <2>2
<1>8. ASSUME g # <<>> PROVE EndsFrame(g[l + m].data)
  <2>1. CASE m = 0
    <3>1. l + m = l /\ l # 0 /\ l \in 1 .. l BY <1>2, <1>6, <1>8, <2>1
    <3>2. g[l] = e[l] BY <1>2, <3>1
    <3> QED BY <1>4, <1>5, <3>1, <3>2
  <2>2. CASE m # 0
    <3> DEFINE q == l + m
               x == m - 1
               pos == p + x
    <3>1. m \in 1 .. m /\ q \in l + 1 .. l + m /\ q - l = m /\ m \in Nat \ {0} /\ x \in Nat /\ p + m - 1 = pos
      BY <1>1, <1>2, <2>2
    <3>2. g[q] = s[m] /\ s[m].data = [file |-> f, position |-> p + m - 1] BY <1>1, <1>2, <3>1
    <3>3. x % c = c - 1 BY <1>1, <1>3, <3>1, LastOfFrames
    <3> HIDE DEF q, x
    <3>4. pos % c = x % c BY <1>1, <1>3, <3>1, WholeFramesSkipped
    <3> HIDE DEF pos
    <3>5. g[q].data.file = f /\ g[q].data.position = pos BY <3>1, <3>2
    <3>6. EndsFrame(g[q].data) BY <3>3, <3>4, <3>5 DEF EndsFrame, ChannelOf, c
    <3> QED BY <3>6 DEF q
  <2> QED BY <2>1, <2>2
<1>9. TagsBetweenFrames(g) BY <1>2, <1>7 DEF TagsBetweenFrames
<1>10. EndsWhole(g) BY <1>2, <1>8 DEF EndsWhole
<1> QED BY <1>9, <1>10 DEF g

-----------------------------------------------------------------------------
\* InStep and HoldsOtherFormat in their parts.
LEMMA FollowingParts ==
  ASSUME IInv, stream_open, FrameInv
  PROVE  /\ Following \in Seq(Position)
         /\ InStep <=> OnChannels(Following, format)
         /\ HoldsOtherFormat <=> ~ AllOfFormat(Following, format)
<1>1. Contents \in Seq(Position) /\ edge \in Seq(Sample) BY DEF FrameInv, IInv, SourceInv
<1>2. Ahead(edge, format) \in Seq(Position) BY <1>1, AheadIs
<1> DEFINE q == Following
<1>3. q \in Seq(Position) BY <1>1, <1>2, FollowingIs
<1>4. (InStep <=> \A i \in DOMAIN q : OfFormat(q[i]) => ChannelOf(q[i]) = (i - 1) % format.channels)
      /\ (HoldsOtherFormat <=> \E i \in DOMAIN q : ~ OfFormat(q[i]))
  BY DEF InStep, HoldsOtherFormat
<1> HIDE DEF q
<1>5. DOMAIN q = 1 .. Len(q) BY <1>3
<1>6. (\E i \in DOMAIN q : ~ OfFormat(q[i])) <=> ~ AllOfFormat(q, format) BY <1>5 DEF AllOfFormat, OfFormat
<1>7. (\A i \in DOMAIN q : OfFormat(q[i]) => ChannelOf(q[i]) = (i - 1) % format.channels) <=> OnChannels(q, format)
  BY <1>5 DEF OnChannels, OfFormat
<1> QED BY <1>3, <1>4, <1>6, <1>7 DEF q

LEMMA FollowingPartsNext ==
  (IInv /\ stream_open /\ FrameInv =>
     /\ Following \in Seq(Position)
     /\ InStep <=> OnChannels(Following, format)
     /\ HoldsOtherFormat <=> ~ AllOfFormat(Following, format))'
<1>1. IInv /\ stream_open /\ FrameInv =>
        /\ Following \in Seq(Position)
        /\ InStep <=> OnChannels(Following, format)
        /\ HoldsOtherFormat <=> ~ AllOfFormat(Following, format)
  BY FollowingParts
<1> QED BY <1>1, PTL

\* What follows ends with a whole frame when it is all that there is.
LEMMA FollowingEnds ==
  ASSUME IInv, stream_open, FrameInv, Ahead(edge, format) = Data(edge)
  PROVE  Following # <<>> => EndsFrame(Following[Len(Following)])
<1> DEFINE c == Contents
           a == Ahead(edge, format)
           q == c \o a
           e == edge
           l == Len(e)
           m == Len(c)
<1>1. c \in Seq(Position) /\ e \in Seq(Sample) /\ EndsWhole(e) /\ (e = <<>> /\ c # <<>> => EndsFrame(c[m]))
  BY DEF FrameInv, IInv, SourceInv
<1>2. a \in Seq(Position) BY <1>1, AheadIs
<1>3. a = [i \in 1 .. l |-> e[i].data] BY DEF Data
<1>4. Following = q BY FollowingIs
<1> HIDE DEF a, c, e
<1>5. l \in Nat /\ Len(a) = l /\ \A i \in 1 .. l : a[i] = e[i].data BY <1>1, <1>3
<1>6. q \in Seq(Position) /\ Len(q) = m + l /\ m \in Nat
      /\ (\A i \in 1 .. m : q[i] = c[i]) /\ (\A i \in m + 1 .. m + l : q[i] = a[i - m])
  <2>1. /\ q \in Seq(Position) /\ Len(q) = m + Len(a) /\ m \in Nat
        /\ (\A i \in 1 .. m : q[i] = c[i]) /\ (\A i \in m + 1 .. m + Len(a) : q[i] = a[i - m])
    BY <1>1, <1>2, Concatenation
  <2> HIDE DEF q, m, l
  <2> QED BY <1>5, <2>1
<1>7. (l = 0 <=> e = <<>>) /\ (m = 0 <=> c = <<>>) BY <1>1, EmptySeq
<1> HIDE DEF q, l, m
<1>8. Len(q) = 0 <=> q = <<>> BY <1>6, EmptySeq
<1>9. CASE l = 0 /\ q # <<>>
  <2>1. m + l = m /\ m # 0 /\ m \in 1 .. m BY <1>5, <1>6, <1>8, <1>9
  <2>2. q[m] = c[m] BY <1>6, <2>1
  <2>3. EndsFrame(q[m]) BY <1>1, <1>7, <1>9, <2>1, <2>2
  <2> QED BY <1>4, <1>6, <2>1, <2>3
<1>10. CASE l # 0
  <2> DEFINE x == m + l
  <2>1. x \in m + 1 .. m + l /\ x - m = l /\ l \in 1 .. l BY <1>5, <1>6, <1>10
  <2>2. q[x] = a[l] /\ a[l] = e[l].data BY <1>5, <1>6, <2>1
  <2>3. EndsFrame(e[l].data) BY <1>1, <1>7, <1>10 DEF EndsWhole, l
  <2> HIDE DEF x
  <2>4. EndsFrame(q[x]) BY <2>2, <2>3
  <2> QED BY <1>4, <1>6, <2>4 DEF x
<1> QED BY <1>4, <1>9, <1>10

-----------------------------------------------------------------------------
\* What a step may do to the order of channels.
Exchanges == InStep /\ ~ InStep' => TornUnderrun \/ OpensInsideFrame \/ HoldsOtherFormat'

\* Nothing of what follows changes.
LEMMA StaysPut ==
  ASSUME FrameInv, UNCHANGED <<edge, buf, r, n, format, stream_open>>, stream_open => pending' = pending
  PROVE  FrameInv' /\ Exchanges
<1>1. Contents' = Contents BY SameContents
<1>2. Following' = Following
  <2>1. Following' = Contents' \o Ahead(edge', format') /\ Following = Contents \o Ahead(edge, format)
    BY FollowingIs, FollowingIsNext
  <2> QED BY <1>1, <2>1, Zenon
<1>3. InStep' <=> InStep BY <1>2 DEF InStep, OfFormat
<1>4. FrameInv' BY <1>1, Zenon DEF FrameInv
<1> QED BY <1>3, <1>4 DEF Exchanges

\* A stream that is closed exchanges nothing.
LEMMA Closes ==
  ASSUME ~ stream_open', TagsBetweenFrames(edge'), EndsWhole(edge')
  PROVE  FrameInv' /\ Exchanges
<1>1. InStep' BY DEF InStep
<1>2. FrameInv' BY Zenon DEF FrameInv
<1> QED BY <1>1, <1>2 DEF Exchanges

\* The source reads on: what follows grows by whole frames, or does not.
LEMMA ReadsInStep ==
  ASSUME IInv, IInv', PassInv, FrameInv, Read, UNCHANGED sinkVars
  PROVE  FrameInv' /\ Exchanges
<1>1. PICK s, p, tg : edge' = edge \o s /\ WholeFramesRead(s, reader, p, tg) BY WhatIsRead DEF IInv
<1>2. UNCHANGED <<buf, r, n, format, stream_open, pending>> BY DEF sinkVars, fifoVars
<1>3. Contents' = Contents BY <1>2, SameContents
<1>4. /\ edge \in Seq(Sample) /\ s \in Seq(Sample) /\ reader \in Files /\ p \in Nat /\ p % reader.channels = 0
      /\ \A j \in 1 .. Len(s) : s[j].data = [file |-> reader, position |-> p + j - 1] /\ s[j].tag = IF j = 1 THEN tg ELSE NoTag
  BY <1>1 DEF IInv, SourceInv, WholeFramesRead
<1>5. TagsBetweenFrames(edge') /\ EndsWhole(edge') BY <1>1, <1>4, FramesOnward DEF FrameInv
<1>6. edge' = <<>> => edge = <<>>
  <2>1. Len(edge') = Len(edge) + Len(s) /\ Len(edge) \in Nat /\ Len(s) \in Nat BY <1>1, <1>4, Concatenation
  <2>2. edge' = <<>> => Len(edge') = 0 OBVIOUS
  <2>3. Len(edge) = 0 => edge = <<>> BY <1>4, EmptySeq
  <2>4. edge' = <<>> => Len(edge) = 0 BY <2>1, <2>2
  <2> QED BY <2>3, <2>4
<1>7. FrameInv' BY <1>2, <1>3, <1>5, <1>6, Zenon DEF FrameInv
<1>8. CASE ~ stream_open
  <2>1. ~ stream_open' BY <1>2, <1>8
  <2> QED BY <1>5, <2>1, Closes
<1>9. CASE stream_open
  <2> DEFINE data == Data(s)
  <2>1. \/ Ahead(edge', format) = Ahead(edge, format)
        \/ /\ Ahead(edge, format) = Data(edge)
           /\ Ahead(edge', format) = Ahead(edge, format) \o data
    <3>1. edge \in Seq(Sample) /\ s \in Seq(Sample) /\ FirstTagged(s, tg) BY <1>4 DEF FirstTagged
    <3>2. \/ Ahead(edge \o s, format) = Ahead(edge, format)
          \/ Ahead(edge, format) = Data(edge) /\ Ahead(edge \o s, format) = Ahead(edge, format) \o Data(s)
      BY ONLY <3>1, AheadOf
    <3> QED BY <1>1, <1>4, <3>2
  <2>2. Following' = Contents \o Ahead(edge', format)
    <3>1. Following' = Contents' \o Ahead(edge', format') BY FollowingIsNext
    <3> QED BY <1>2, <1>3, <3>1, Zenon
  <2>3. Contents \in Seq(Position) /\ Ahead(edge, format) \in Seq(Position)
    BY <1>4, <1>9, AheadIs DEF FrameInv
  <2>4. CASE Ahead(edge', format) = Ahead(edge, format)
    <3>1. Following' = Following BY <2>2, <2>4, FollowingIs
    <3>2. InStep' <=> InStep BY <1>2, <3>1 DEF InStep, OfFormat
    <3> QED BY <1>7, <3>2 DEF Exchanges
  <2>5. CASE /\ Ahead(edge, format) = Data(edge)
             /\ Ahead(edge', format) = Ahead(edge, format) \o data
    <3>1. data \in Seq(Position) /\ Len(data) = Len(s)
          /\ \A j \in 1 .. Len(data) : data[j] = [file |-> reader, position |-> p + j - 1]
      <4>1. \A j \in 1 .. Len(s) : s[j] \in Sample BY <1>4
      <4>2. \A j \in 1 .. Len(s) : s[j].data \in Position BY <4>1 DEF Sample
      <4>3. Len(s) \in Nat BY <1>4
      <4> QED BY <1>4, <4>2, <4>3 DEF Data
    <3> HIDE DEF data
    <3>2. Following' = Following \o data
      <4>1. Contents \o (Ahead(edge, format) \o data) = Contents \o Ahead(edge, format) \o data
        BY <2>3, <3>1, Joined
      <4> QED BY <2>2, <2>5, <4>1, FollowingIs
    <3>3. Following \in Seq(Position) /\ (InStep <=> OnChannels(Following, format)) BY <1>9, FollowingParts
    <3>4. stream_open' BY <1>2, <1>9
    <3>5. (InStep' <=> OnChannels(Following', format')) /\ (HoldsOtherFormat' <=> ~ AllOfFormat(Following', format'))
      <4>1. IInv' /\ stream_open' /\ FrameInv' BY <1>7, <3>4
      <4> QED BY <4>1, FollowingPartsNext
    <3>6. AllOfFormat(Following', format) => AllOfFormat(Following, format)
      <4> DEFINE q == Following
      <4>0. q \in Seq(Position) /\ data \in Seq(Position) BY <3>1, <3>3
      <4> HIDE DEF q
      <4> DEFINE g == q \o data
      <4>1. /\ Len(g) = Len(q) + Len(data) /\ Len(q) \in Nat /\ Len(data) \in Nat
            /\ \A i \in 1 .. Len(q) : g[i] = q[i]
        BY ONLY <4>0, Concatenation
      <4>2. AllOfFormat(g, format) => AllOfFormat(q, format)
        <5> HIDE DEF g
        <5>1. \A i \in 1 .. Len(q) : i \in 1 .. Len(g) BY <4>1
        <5> QED BY <4>1, <5>1 DEF AllOfFormat
      <4> QED BY <3>2, <4>2 DEF q
    <3>7. Following # <<>> => EndsFrame(Following[Len(Following)]) BY <1>9, <2>5, FollowingEnds
    <3>8. format \in Format /\ format.channels # 0 BY <1>9 DEF FrameInv, IInv, SinkInv
    <3>9. OnChannels(Following, format) /\ AllOfFormat(Following, format) => OnChannels(Following \o data, format)
      <4> DEFINE q == Following
      <4> HIDE DEF q
      <4>1. q \in Seq(Position) /\ (q # <<>> => EndsFrame(q[Len(q)])) BY <3>3, <3>7 DEF q
      <4>2. OnChannels(q, format) /\ AllOfFormat(q, format) => OnChannels(q \o data, format)
        BY <1>4, <3>1, <3>8, <4>1, GoesOn
      <4> QED BY <4>2 DEF q
    <3> QED BY <1>2, <1>7, <3>2, <3>3, <3>5, <3>6, <3>9, Zenon DEF Exchanges
  <2> QED BY <2>1, <2>4, <2>5
<1> QED BY <1>8, <1>9

\* A push moves what follows into the FIFO, or brings in a tag of another format.
LEMMA PushesInStep ==
  ASSUME IInv, IInv', PassInv, FrameInv, Push
  PROVE  FrameInv' /\ Exchanges
<1>1. span > 0 /\ stream_open /\ stream_open' /\ format' = format /\ pending' = pending
  BY DEF Push
<1>2. Queue!Take \/ UNCHANGED Queue!vars BY Pushes
<1>3. edge \in Seq(Sample) /\ Contents \in Seq(Position) BY <1>1 DEF FrameInv, IInv, SourceInv
<1>4. CASE UNCHANGED Queue!vars
  <2>1. edge' = edge /\ Contents' = Contents BY <1>4, Zenon DEF Queue!vars
  <2>2. FrameInv' BY <1>1, <2>1, Zenon DEF FrameInv
  <2>3. Following' = Following
    <3>1. Following' = Contents' \o Ahead(edge', format') /\ Following = Contents \o Ahead(edge, format)
      BY FollowingIs, FollowingIsNext
    <3> QED BY <1>1, <2>1, <3>1, Zenon
  <2>4. InStep' <=> InStep BY <1>1, <2>3 DEF InStep, OfFormat
  <2> QED BY <2>2, <2>4 DEF Exchanges
<1>5. CASE Queue!Take
  <2> DEFINE c == Contents
             l == Len(edge)
  <2>1. PICK k \in 1 .. l : edge' = SubSeq(edge, k + 1, l) /\ Contents' = c \o Queue!DataOf(SubSeq(edge, 1, k))
    BY <1>1, <1>5 DEF Queue!Take
  <2> DEFINE data == [j \in 1 .. k |-> edge[j].data]
             t == SubSeq(edge, k + 1, l)
             u == Upto(edge, format)
  <2>2. l \in Nat /\ k \in 1 .. l /\ k \in 0 .. l /\ \A j \in 1 .. l : edge[j] \in Sample BY <1>3
  <2>3. Queue!DataOf(SubSeq(edge, 1, k)) = data
    <3>1. SubSeq(edge, 1, k) = [j \in 1 .. k |-> edge[j]] BY <1>3, <2>2
    <3> QED BY <3>1, <2>2 DEF Queue!DataOf
  <2> HIDE DEF l
  <2>4. data \in Seq(Position) /\ Len(data) = k /\ \A j \in 1 .. k : data[j] = edge[j].data
    <3>1. ASSUME NEW j \in 1 .. k PROVE edge[j].data \in Position
      <4>1. j \in 1 .. l BY <2>2
      <4> QED BY <2>2, <4>1 DEF Sample
    <3> QED BY <2>2, <3>1
  <2>5. t \in Seq(Sample) /\ Len(t) = l - k BY <1>3, <2>2, Cut DEF l
  <2> HIDE DEF data, t, u, c
  <2>6. edge' = t /\ Contents' = c \o data /\ c \in Seq(Position) BY <1>3, <2>1, <2>3 DEF t, c
  <2>7. TagsBetweenFrames(t) /\ EndsWhole(t) BY <1>3, <2>2, FramesFrom DEF FrameInv, t, l
  <2>8. /\ c \o data \in Seq(Position) /\ Len(c \o data) = Len(c) + k /\ Len(c) \in Nat
        /\ (\A i \in 1 .. Len(c) : (c \o data)[i] = c[i])
        /\ (\A i \in Len(c) + 1 .. Len(c) + k : (c \o data)[i] = data[i - Len(c)])
    BY <2>4, <2>6, Concatenation
  <2> DEFINE d == c \o data
  <2> HIDE DEF d
  <2>9. t = <<>> => EndsFrame(d[Len(d)])
    <3> SUFFICES ASSUME t = <<>> PROVE EndsFrame(d[Len(d)]) OBVIOUS
    <3>1. k = l
      <4>1. Len(t) = 0 OBVIOUS
      <4> QED BY <2>2, <2>5, <4>1
    <3> DEFINE x == Len(c) + k
    <3>2. x = Len(d) /\ x \in Len(c) + 1 .. Len(c) + k /\ x - Len(c) = k /\ k \in 1 .. k BY <2>2, <2>8 DEF d
    <3>3. d[x] = data[k]
      <4> HIDE DEF x
      <4> QED BY <2>8, <3>2 DEF d
    <3>4. data[k] = edge[l].data BY <2>4, <3>1, <3>2
    <3>5. edge # <<>>
      <4>1. l # 0 BY <2>2
      <4> QED BY <4>1 DEF l
    <3>6. EndsFrame(edge[l].data) BY <3>5 DEF FrameInv, EndsWhole, l
    <3> HIDE DEF x
    <3> QED BY <3>2, <3>3, <3>4, <3>6
  <2>10. FrameInv'
    <3>1. edge' = t /\ Contents' = d /\ d \in Seq(Position) BY <2>6, <2>8 DEF d
    <3>2. pending = format /\ format.channels # 0 BY <1>1 DEF FrameInv
    <3> QED BY <1>1, <2>7, <2>9, <3>1, <3>2, Zenon DEF FrameInv
  <2>11. u \in 0 .. l /\ (u < l => edge[u + 1].tag \notin {NoTag, format}) BY <1>3, UptoBounds DEF u, l
  <2>12. Ahead(edge, format) \in Seq(Position) /\ Ahead(t, format) \in Seq(Position) BY <1>3, <2>5, AheadIs
  <2>13. Following' = d \o Ahead(t, format) BY <1>1, <2>6, FollowingIsNext, Zenon DEF d
  <2>14. CASE k <= u
    <3>1. k \in 0 .. u BY <2>2, <2>11, <2>14
    <3>2. data \o Ahead(t, format) = Ahead(edge, format) BY <1>3, <3>1, AheadCut DEF data, t, u, l
    <3>3. c \o (data \o Ahead(t, format)) = c \o data \o Ahead(t, format) BY <2>4, <2>6, <2>12, Joined
    <3>4. Following' = Following BY <2>13, <3>2, <3>3, FollowingIs, Zenon DEF c, d
    <3>5. InStep' <=> InStep BY <1>1, <3>4 DEF InStep, OfFormat
    <3> QED BY <2>10, <3>5 DEF Exchanges
  <2>15. CASE ~ (k <= u)
    <3> DEFINE x == u + 1
               y == Len(c) + x
               q == d \o Ahead(t, format)
    <3>1. x \in 1 .. k /\ x \in 1 .. l /\ u < l BY <2>2, <2>11, <2>15
    <3>2. edge[x].tag \notin {NoTag, format} BY <2>11, <3>1
    <3>3. x \in DOMAIN edge BY <1>3, <3>1 DEF l
    <3> HIDE DEF x
    <3>4. FormatOf(edge[x].data.file) # format
      <4>1. edge[x].tag = FormatOf(edge[x].data.file) BY <3>2, <3>3, Zenon DEF PassInv, TagsBeginPasses
      <4> QED BY <3>2, <4>1
    <3>5. y \in 1 .. Len(d) /\ y \in Len(c) + 1 .. Len(c) + k /\ y - Len(c) = x BY <2>2, <2>8, <3>1 DEF d
    <3> HIDE DEF y
    <3>6. d[y] = edge[x].data BY <2>4, <2>8, <3>1, <3>5 DEF d
    <3>7. q \in Seq(Position) /\ (\A i \in 1 .. Len(d) : q[i] = d[i]) /\ Len(q) >= Len(d)
      <4>1. d \in Seq(Position) BY <2>8 DEF d
      <4> QED BY <2>12, <4>1, Concatenation
    <3> HIDE DEF q
    <3>8. y \in 1 .. Len(q) /\ q[y] = edge[x].data
      <4>1. Len(d) \in Nat /\ Len(q) \in Nat BY <2>8, <3>7 DEF d
      <4> QED BY <3>5, <3>6, <3>7, <4>1
    <3>9. ~ AllOfFormat(q, format) BY <3>4, <3>8 DEF AllOfFormat
    <3>10. HoldsOtherFormat'
      <4>1. IInv' /\ stream_open' /\ FrameInv' BY <1>1, <2>10
      <4>2. HoldsOtherFormat' <=> ~ AllOfFormat(Following', format') BY <4>1, FollowingPartsNext
      <4> QED BY <1>1, <2>13, <3>9, <4>2, Zenon DEF q
    <3> QED BY <2>10, <3>10 DEF Exchanges
  <2> QED BY <2>14, <2>15
<1> QED BY <1>2, <1>4, <1>5

\* The callback takes whole frames, or what there is of one.
LEMMA PlaysInStep ==
  ASSUME IInv, IInv', FrameInv, Callback
  PROVE  FrameInv' /\ Exchanges
<1> DEFINE got == Smaller(n, need)
           c == Contents
           t == SubSeq(c, got + 1, n)
           a == Ahead(edge, format)
           q == c \o a
           g == t \o a
<1>1. stream_open /\ stream_open' /\ format' = format /\ pending' = pending /\ edge' = edge /\ n' = n - got
  BY DEF Callback, IInv, SinkInv
<1>2. /\ c \in Seq(Position) /\ Len(c) = n /\ n \in Nat /\ edge \in Seq(Sample)
      /\ format \in Format /\ format.channels # 0
  BY <1>1, ContentsSeq DEF FrameInv, IInv, SourceInv, SinkInv
<1>3. need \in Nat /\ got \in 0 .. n /\ (got = need \/ (got = n /\ n < need))
  <2>1. need \in Nat BY <1>2, NeedNat
  <2> QED BY <1>2, <2>1 DEF Smaller
<1>4. Contents' = t
  <2>1. PICK k \in 0 .. Len(c) : /\ Contents' = SubSeq(c, k + 1, Len(c))
                                 /\ Len(sound') >= k /\ (Len(sound') > k => k = Len(c))
    BY Pops DEF Queue!Play
  <2>2. Len(sound') = need
    <3>1. sound' = [i \in 1 .. need |-> IF i <= got THEN buf[Wrap(r + i - 1, capacity)] ELSE Silence] BY DEF Callback
    <3> QED BY <1>3, <3>1
  <2> HIDE DEF c, got, t
  <2>3. k = got BY <1>2, <1>3, <2>1, <2>2 DEF got, Smaller
  <2> QED BY <1>2, <2>1, <2>3 DEF t
<1>5. t \in Seq(Position) /\ Len(t) = n - got /\ \A i \in 1 .. n - got : t[i] = c[i + got]
  <2> HIDE DEF c, got
  <2>1. t \in Seq(Position) /\ Len(t) = n - got BY <1>2, <1>3, Cut
  <2>2. ASSUME NEW i \in 1 .. n - got PROVE t[i] = c[i + got]
    <3>1. t = [j \in 1 .. n - got |-> c[got + 1 + j - 1]] BY <1>2, <1>3
    <3>2. got + 1 + i - 1 = i + got BY <1>3
    <3> HIDE DEF t
    <3> QED BY <3>1, <3>2
  <2> QED BY <2>1, <2>2
<1>6. a \in Seq(Position) BY <1>2, AheadIs
<1>7. Following = q /\ Following' = g
  <2>1. Following = c \o a BY FollowingIs
  <2>2. Following' = t \o a BY <1>1, <1>4, FollowingIsNext, Zenon
  <2> QED BY <2>1, <2>2
<1> HIDE DEF got, c, t, a
<1>8. FrameInv'
  <2>1. ASSUME edge = <<>>, t # <<>> PROVE EndsFrame(t[Len(t)])
    <3> DEFINE m == n - got
    <3>1. Len(t) = 0 => t = <<>> BY <1>5, EmptySeq
    <3>2. m \in 1 .. n - got /\ m + got = n /\ c # <<>>
      <4>1. n - got # 0 BY <1>2, <1>3, <1>5, <2>1, <3>1
      <4>2. n # 0 BY <1>3, <4>1
      <4> QED BY <1>2, <1>3, <4>1, <4>2
    <3>3. t[m] = c[n] BY <1>5, <3>2
    <3>4. EndsFrame(c[n]) BY <1>1, <1>2, <2>1, <3>2 DEF FrameInv, c
    <3> QED BY <1>5, <3>3, <3>4
  <2>2. TagsBetweenFrames(edge) /\ EndsWhole(edge) /\ pending = format /\ format.channels # 0 BY <1>1 DEF FrameInv
  <2> QED BY <1>1, <1>4, <1>5, <2>1, <2>2, Zenon DEF FrameInv
<1>9. q \in Seq(Position) /\ Len(q) = n + Len(a) /\ Len(a) \in Nat
      /\ (\A i \in 1 .. n : q[i] = c[i]) /\ (\A i \in n + 1 .. n + Len(a) : q[i] = a[i - n])
  <2>0. c \in Seq(Position) BY <1>2
  <2>1. /\ q \in Seq(Position) /\ Len(q) = Len(c) + Len(a) /\ Len(a) \in Nat
        /\ (\A i \in 1 .. Len(c) : q[i] = c[i]) /\ (\A i \in Len(c) + 1 .. Len(c) + Len(a) : q[i] = a[i - Len(c)])
    BY ONLY <2>0, <1>6, Concatenation
  <2> HIDE DEF q
  <2> QED BY <1>2, <2>1
<1>10. Len(g) = n - got + Len(a)
       /\ (\A i \in 1 .. n - got : g[i] = t[i]) /\ (\A i \in n - got + 1 .. n - got + Len(a) : g[i] = a[i - (n - got)])
  <2>1. /\ Len(g) = Len(t) + Len(a)
        /\ (\A i \in 1 .. Len(t) : g[i] = t[i]) /\ (\A i \in Len(t) + 1 .. Len(t) + Len(a) : g[i] = a[i - Len(t)])
    BY <1>5, <1>6, Concatenation
  <2> HIDE DEF g
  <2> QED BY <1>5, <2>1
<1> HIDE DEF q, g
<1>11. Len(g) = Len(q) - got /\ \A i \in 1 .. Len(g) : g[i] = q[i + got]
  <2>1. Len(g) = Len(q) - got BY <1>2, <1>3, <1>9, <1>10
  <2> SUFFICES ASSUME NEW i \in 1 .. Len(g) PROVE g[i] = q[i + got] BY <2>1
  <2> DEFINE x == i + got
  <2>2. CASE i <= n - got
    <3>1. i \in 1 .. n - got /\ x \in 1 .. n BY <1>2, <1>3, <2>2
    <3>2. g[i] = t[i] /\ t[i] = c[i + got] BY <1>5, <1>10, <3>1
    <3>3. q[x] = c[x] BY <1>9, <3>1
    <3> QED BY <3>2, <3>3
  <2>3. CASE ~ (i <= n - got)
    <3> DEFINE j == i - (n - got)
    <3>1. i \in n - got + 1 .. n - got + Len(a) /\ x \in n + 1 .. n + Len(a) /\ x - n = j
      BY <1>2, <1>3, <1>9, <1>10, <2>3
    <3>2. g[i] = a[j] BY <1>10, <3>1
    <3> HIDE DEF x, j
    <3>3. q[x] = a[j] BY <1>9, <3>1
    <3> QED BY <3>2, <3>3 DEF x
  <2> QED BY <2>2, <2>3
<1>12. ASSUME got % format.channels = 0, InStep PROVE InStep'
  <2>1. OnChannels(q, format) BY <1>1, <1>7, <1>12, FollowingParts
  <2>2. OnChannels(g, format)
    <3>1. Len(q) \in Nat /\ got \in Nat BY <1>3, <1>9
    <3> QED BY <1>2, <1>11, <1>12, <2>1, <3>1, ChannelsShifted
  <2>3. IInv' /\ stream_open' /\ FrameInv' BY <1>1, <1>8
  <2>4. InStep' <=> OnChannels(Following', format') BY <2>3, FollowingPartsNext
  <2> QED BY <1>1, <1>7, <2>2, <2>4, Zenon
<1>13. CASE got = need
  <2> DEFINE ch == format.channels
  <2>1. ch \in Nat \ {0} /\ CallbackFrames \in Nat BY <1>2, SinkAssumption DEF Format
  <2>2. need = CallbackFrames * ch BY DEF need
  <2> HIDE DEF ch
  <2>3. (CallbackFrames * ch) % ch = 0 BY <2>1, FrameBegins
  <2>4. got % ch = 0 BY <1>13, <2>2, <2>3
  <2> QED BY <1>8, <1>12, <2>4 DEF Exchanges, ch
<1>14. CASE got = n /\ n < need
  <2>1. CASE n % format.channels = 0 BY <1>8, <1>12, <1>14, <2>1 DEF Exchanges
  <2>2. CASE n % format.channels # 0
    <3>1. n' = 0 BY <1>1, <1>2, <1>14
    <3>2. TornUnderrun BY <1>14, <2>2, <3>1 DEF TornUnderrun
    <3> QED BY <1>8, <3>2 DEF Exchanges
  <2> QED BY <2>1, <2>2
<1> QED BY <1>3, <1>13, <1>14

\* The format that is opened has channels.
LEMMA OpensChannels ==
  ASSUME IInv, PassInv, FrameInv, NEW k \in 1 .. Len(edge), MustOpen(Scanned(k))
  PROVE  Scanned(k) \in Format /\ Scanned(k).channels # 0
<1>1. Scanned(k) \in Format BY ScannedFormat
<1>2. CASE ~ stream_open
  <2>1. Scanned(k).channels > 0 BY <1>2 DEF MustOpen, ready_to_open
  <2> QED BY <1>1, <2>1 DEF Format
<1>3. CASE stream_open
  <2>1. Tagged(k) # {}
    <3> SUFFICES ASSUME Tagged(k) = {} PROVE FALSE OBVIOUS
    <3>1. Scanned(k) = pending BY DEF Scanned
    <3> QED BY <1>3, <3>1 DEF MustOpen, FrameInv
  <2> DEFINE last == CHOOSE i \in Tagged(k) : \A j \in Tagged(k) : j <= i
  <2>2. \E i \in Tagged(k) : \A j \in Tagged(k) : j <= i
    <3>1. Tagged(k) \subseteq 0 .. k /\ k \in Nat BY DEF Tagged, IInv, SourceInv
    <3> QED BY <2>1, <3>1, Largest
  <2>3. last \in Tagged(k) BY <2>2
  <2> HIDE DEF last
  <2>4. last \in 1 .. Len(edge) /\ last \in DOMAIN edge /\ edge[last].tag # NoTag
    BY <2>3 DEF Tagged, IInv, SourceInv
  <2>5. edge[last] \in Sample BY <2>4 DEF IInv, SourceInv
  <2>6. edge[last].data.file \in Files BY <2>5 DEF Sample, Position
  <2>7. edge[last].tag = FormatOf(edge[last].data.file) BY <2>4, Zenon DEF PassInv, TagsBeginPasses
  <2>8. edge[last].tag.channels # 0 BY <2>6, <2>7, FilesAssumption DEF FormatOf
  <2>9. Scanned(k) = [edge[last].tag EXCEPT !.rate = IF IgnoreTagRate THEN pending.rate ELSE @]
    BY <2>1 DEF Scanned, last
  <2>10. Scanned(k).channels = edge[last].tag.channels
    <3>1. edge[last].tag \in Format BY <2>4, <2>5 DEF Sample
    <3> QED BY <2>9, <3>1 DEF Format
  <2> QED BY <1>1, <2>8, <2>10
<1> QED BY <1>2, <1>3

\* A stream that opens at the start of a frame plays passes on their channels.
LEMMA OpensInStep ==
  ASSUME IInv, IInv', PassInv, FrameInv, ScanAndOpen
  PROVE  FrameInv' /\ Exchanges
<1>1. PICK k \in 1 .. Len(edge) :
        /\ MustOpen(Scanned(k)) /\ pending' = Scanned(k) /\ format' = Scanned(k) /\ span' = k
  BY DEF ScanAndOpen
<1>2. span = 0 /\ edge' = edge /\ n' = 0 /\ stream_open' \in BOOLEAN BY DEF ScanAndOpen
<1>3. Contents' = <<>> BY OpensEmpty
<1>4. format' \in Format /\ format'.channels # 0 BY <1>1, OpensChannels
<1>5. TagsBetweenFrames(edge) /\ EndsWhole(edge) BY DEF FrameInv
<1>6. FrameInv'
  <2>1. <<>> \in Seq(Position) OBVIOUS
  <2> QED BY <1>1, <1>2, <1>3, <1>4, <1>5, <2>1, Zenon DEF FrameInv
<1>7. CASE ~ stream_open' BY <1>2, <1>5, <1>7, Closes
<1>8. CASE stream_open' /\ ChannelOf(edge[1].data) # 0
  <2>1. span' > 0 BY <1>1
  <2>2. OpensInsideFrame BY <1>2, <1>8, <2>1 DEF OpensInsideFrame
  <2> QED BY <1>6, <2>2 DEF Exchanges
<1>9. CASE stream_open' /\ ChannelOf(edge[1].data) = 0
  <2> DEFINE fm == format'
             a == Ahead(edge, fm)
             u == Upto(edge, fm)
  <2>1. edge \in Seq(Sample) BY DEF IInv, SourceInv
  <2>2. a \in Seq(Position) /\ Len(a) = u /\ \A i \in 1 .. u : a[i] = edge[i].data BY <2>1, AheadIs
  <2>3. u \in 0 .. Len(edge) BY <2>1, UptoBounds
  <2>4. Following' = a
    <3>1. Following' = <<>> \o Ahead(edge, format') BY <1>2, <1>3, FollowingIsNext, Zenon
    <3>2. <<>> \o a = a
      <4> HIDE DEF a
      <4> QED BY <2>2, ConcatEmptySeq
    <3> QED BY <3>1, <3>2
  <2>5. /\ InStep' <=> OnChannels(Following', format')
        /\ HoldsOtherFormat' <=> ~ AllOfFormat(Following', format')
    <3>1. IInv' /\ stream_open' /\ FrameInv' BY <1>6, <1>9
    <3> QED BY <3>1, FollowingPartsNext
  <2>6. ASSUME AllOfFormat(a, fm) PROVE OnChannels(a, fm)
    <3> HIDE DEF a, fm, u
    <3>1. \A i \in 1 .. u : FormatOf(edge[i].data.file) = fm BY <2>2, <2>6 DEF AllOfFormat
    <3>2. Consecutive(edge) /\ TagsBeginPasses(edge) BY Zenon DEF PassInv
    <3>3. \A i \in 2 .. Len(edge) : edge[i].tag # NoTag => EndsFrame(edge[i - 1].data) BY <1>5 DEF TagsBetweenFrames
    <3>4. fm \in Format /\ fm.channels # 0 BY <1>4 DEF fm
    <3>5. \A i \in 1 .. u : ChannelOf(edge[i].data) = (i - 1) % fm.channels
      BY <1>9, <2>1, <2>3, <3>1, <3>2, <3>3, <3>4, ChannelsOfPasses
    <3> QED BY <2>2, <3>5 DEF OnChannels
  <2>7. InStep' \/ HoldsOtherFormat' BY <2>4, <2>5, <2>6, Zenon
  <2> QED BY <1>6, <2>7 DEF Exchanges
<1> QED BY <1>2, <1>7, <1>8, <1>9

-----------------------------------------------------------------------------
LEMMA FramesOfSource ==
  ASSUME IInv, IInv', PassInv, FrameInv, Source, UNCHANGED sinkVars
  PROVE  FrameInv' /\ Exchanges
<1>1. CASE Read BY <1>1, ReadsInStep
<1>2. CASE ~ Read
  <2>1. edge' = edge BY <1>2 DEF Source, SourceStart, SourceStop, SetSettings, SourceWork, LengthReached
  <2>2. UNCHANGED <<buf, r, n, format, stream_open>> /\ pending' = pending BY DEF sinkVars, fifoVars
  <2> QED BY <2>1, <2>2, StaysPut
<1> QED BY <1>1, <1>2

LEMMA FramesOfSink ==
  ASSUME IInv, IInv', PassInv, FrameInv, Sink
  PROVE  FrameInv' /\ Exchanges
<1>1. TagsBetweenFrames(edge) /\ EndsWhole(edge) /\ edge \in Seq(Sample) BY DEF FrameInv, IInv, SourceInv
<1>2. CASE SinkStart
  <2>1. stream_open' = FALSE /\ edge' = edge BY <1>2 DEF SinkStart
  <2> QED BY <1>1, <2>1, Closes
<1>3. CASE SinkStop
  <2>1. stream_open' = FALSE /\ edge' = edge BY <1>3 DEF SinkStop
  <2> QED BY <1>1, <2>1, Closes
<1>4. CASE Scan
  <2>1. PICK k \in 1 .. Len(edge) : ~ MustOpen(Scanned(k)) /\ pending' = Scanned(k) BY <1>4 DEF Scan
  <2>2. UNCHANGED <<edge, buf, r, n, format, stream_open>> BY <1>4 DEF Scan, fifoVars
  <2>3. stream_open => pending' = pending BY <2>1 DEF MustOpen, FrameInv
  <2> QED BY <2>2, <2>3, StaysPut
<1>5. CASE ScanAndOpen BY <1>5, OpensInStep
<1>6. CASE Drop
  <2>1. span \in 0 .. Len(edge) /\ edge' = SubSeq(edge, span + 1, Len(edge)) /\ ~ stream_open'
    BY <1>6 DEF Drop, From, IInv, SinkInv
  <2>2. TagsBetweenFrames(edge') /\ EndsWhole(edge')
    <3> DEFINE t == SubSeq(edge, span + 1, Len(edge))
    <3>1. TagsBetweenFrames(t) /\ EndsWhole(t) BY <1>1, <2>1, FramesFrom
    <3> HIDE DEF t
    <3>2. edge' = t BY <2>1 DEF t
    <3> QED BY <3>1, <3>2
  <2> QED BY <2>1, <2>2, Closes
<1>7. CASE Push BY <1>7, PushesInStep
<1>8. CASE Callback BY <1>8, PlaysInStep
<1> QED BY <1>2, <1>3, <1>4, <1>5, <1>6, <1>7, <1>8 DEF Sink, processBulk

-----------------------------------------------------------------------------
\* Where a pass starts.  Before the tag of a pass is out its decoder stands in
\* the frame of the offset, or at the beginning of the file.
StartInv ==
  /\ startOffset \in Nat /\ passes \in Nat
  /\ reader # NoFile /\ ~ emittedStart =>
       frame = IF passes = 0 THEN Smaller(startOffset \div reader.channels, reader.frames) ELSE 0

LEMMA StartInit == Init => StartInv
<1> SUFFICES ASSUME Init PROVE StartInv OBVIOUS
<1>1. reader = NoFile /\ passes = 0 /\ startOffset = 0 BY Zenon DEF Init, SourceInit
<1>2. 0 \in Nat OBVIOUS
<1> QED BY <1>1, <1>2, Zenon DEF StartInv

\* A pass that ends starts another from the beginning, or leaves nothing open.
LEMMA StartAfterPass ==
  ASSUME StartInv, startOffset' = startOffset, NEW at, NEW total, NEW tagged,
         Rewind \/ Finish(at, total, tagged)
  PROVE  StartInv'
<1>1. startOffset \in Nat /\ passes \in Nat BY DEF StartInv
<1>2. CASE Rewind
  <2>1. passes' = passes + 1 /\ frame' = 0 BY <1>2 DEF Rewind
  <2>2. passes' \in Nat /\ passes' # 0 BY <1>1, <2>1
  <2> QED BY <1>1, <2>1, <2>2, Zenon DEF StartInv
<1>3. CASE Finish(at, total, tagged)
  <2>1. passes' = passes /\ reader' = NoFile BY <1>3 DEF Finish
  <2> QED BY <1>1, <2>1, Zenon DEF StartInv
<1> QED BY <1>2, <1>3

LEMMA StartOfSource ==
  ASSUME SourceInv, StartInv, Source PROVE StartInv'
<1>1. startOffset \in Nat /\ passes \in Nat BY DEF StartInv
<1>2. CASE SourceStart
  <2>1. /\ startOffset' = settings.offset /\ passes' = 0 /\ reader' = settings.file
        /\ frame' = Smaller(settings.offset \div settings.file.channels, settings.file.frames)
    BY <1>2 DEF SourceStart
  <2>2. settings.offset \in Nat /\ 0 \in Nat BY FilesAssumption DEF SourceInv, Settings
  <2>3. frame' = IF passes' = 0 THEN Smaller(startOffset' \div reader'.channels, reader'.frames) ELSE 0
    BY <2>1, Zenon
  <2> QED BY <2>1, <2>2, <2>3, Zenon DEF StartInv
<1>3. CASE SourceStop
  <2>1. startOffset' = startOffset /\ passes' = passes /\ reader' = NoFile BY <1>3 DEF SourceStop
  <2> QED BY <1>1, <2>1, Zenon DEF StartInv
<1>4. CASE SetSettings
  <2>1. UNCHANGED <<startOffset, passes, reader, emittedStart, frame>> BY <1>4 DEF SetSettings
  <2> QED BY <2>1, Zenon DEF StartInv
<1>5. CASE LengthReached
  <2>1. startOffset' = startOffset /\ (Rewind \/ Finish(frame, totalSamplesFile, emittedStart))
    BY <1>5 DEF LengthReached
  <2> QED BY <2>1, StartAfterPass
<1>6. CASE Read
  <2> DEFINE total == totalSamplesFile + frames_read * reader.channels
             tagged == emittedStart \/ frames_read > 0
  <2>1. reader \in Files /\ frames_req > 0 /\ startOffset' = startOffset BY <1>6 DEF Read, Called, SourceInv
  <2>2. frames_req \in Int /\ frames_read \in Int BY <2>1, Counts
  <2>3. CASE Rewind \/ Finish(frame + frames_read, total, tagged)
    <3> HIDE DEF total, tagged
    <3> QED BY <2>1, <2>3, StartAfterPass
  <2>4. CASE ~ EndsPass(total) /\ emittedStart' = tagged /\ passes' = passes
    <3>1. frames_read > 0 BY <2>1, <2>2, <2>4 DEF EndsPass
    <3>2. emittedStart' = TRUE BY <2>4, <3>1
    <3> QED BY <1>1, <2>1, <2>4, <3>2, Zenon DEF StartInv
  <2> QED BY <1>6, <2>3, <2>4 DEF Read
<1> QED BY <1>2, <1>3, <1>4, <1>5, <1>6 DEF Source, SourceWork

LEMMA StartStep ==
  ASSUME IInv, StartInv, [Next]_vars PROVE StartInv'
<1>1. CASE UNCHANGED sourceVars
  <2>1. UNCHANGED <<startOffset, passes, reader, emittedStart, frame>> BY <1>1 DEF sourceVars
  <2> QED BY <2>1, Zenon DEF StartInv
<1>2. CASE Source BY <1>2, StartOfSource DEF IInv
<1> QED BY <1>1, <1>2 DEF Next, vars

\* The first sample of the frame an offset is in.
LEMMA OffsetInFrame ==
  ASSUME NEW o \in Nat, NEW c \in Nat \ {0}, NEW f \in Nat, NEW k \in Nat,
         k = Smaller(o \div c, f), k < f
  PROVE  o - k * c \in 0 .. c - 1
<1>1. o = (o \div c) * c + (o % c) /\ o \div c \in Nat BY Division
<1>2. o % c \in 0 .. c - 1 OBVIOUS
<1>3. k = o \div c BY <1>1 DEF Smaller
<1>4. o = k * c + (o % c) BY <1>1, <1>3, Zenon
<1>5. k * c \in Nat BY Product
<1> DEFINE x == k * c
           y == o % c
<1> HIDE DEF x, y
<1>6. o = x + y /\ x \in Nat /\ y \in 0 .. c - 1 BY <1>2, <1>4, <1>5 DEF x, y
<1>7. o - x \in 0 .. c - 1 BY <1>6
<1> QED BY <1>7 DEF x

\* A call that publishes a tag publishes it where its pass starts.
LEMMA ReadsFromStart ==
  ASSUME IInv, StartInv, Read PROVE PassBegins
<1>1. SourceInv /\ edge \in Seq(Sample) BY DEF IInv, SourceInv
<1>2. PICK s, p, tg :
        /\ edge' = edge \o s /\ WholeFramesRead(s, reader, p, tg)
        /\ p = frame * reader.channels /\ (tg # NoTag => ~ emittedStart)
        /\ Len(s) # 0 => frame < reader.frames
  BY <1>1, WhatIsRead
<1>3. s \in Seq(Sample) /\ reader \in Files /\ p \in Nat BY <1>2 DEF WholeFramesRead
<1> SUFFICES ASSUME NEW i \in Len(edge) + 1 .. Len(edge'), edge'[i].tag # NoTag
             PROVE  /\ edge'[i].data.file = reader
                    /\ IF passes = 0 THEN startOffset - edge'[i].data.position \in 0 .. reader.channels - 1
                       ELSE edge'[i].data.position = 0
  BY DEF PassBegins
<1> DEFINE j == i - Len(edge)
<1>4. j \in 1 .. Len(s) /\ edge'[i] = s[j]
  <2>1. /\ Len(edge \o s) = Len(edge) + Len(s)
        /\ \A l \in Len(edge) + 1 .. Len(edge) + Len(s) : (edge \o s)[l] = s[l - Len(edge)]
    BY <1>1, <1>3, Concatenation
  <2>2. i \in Len(edge) + 1 .. Len(edge) + Len(s) BY <1>2, <2>1
  <2>3. edge'[i] = s[j] BY <1>2, <2>1, <2>2
  <2>4. Len(edge) \in Nat /\ Len(s) \in Nat BY <1>1, <1>3
  <2> QED BY <2>2, <2>3, <2>4
<1> HIDE DEF j
<1>5. s[j].tag # NoTag BY <1>4
<1>6. s[j].data = [file |-> reader, position |-> p + j - 1] /\ s[j].tag = IF j = 1 THEN tg ELSE NoTag
  BY <1>2, <1>4 DEF WholeFramesRead
<1>7. j = 1 /\ ~ emittedStart BY <1>2, <1>5, <1>6
<1>8. edge'[i].data.file = reader /\ edge'[i].data.position = p BY <1>3, <1>4, <1>6, <1>7
<1>9. reader # NoFile /\ frame \in Nat /\ frame < reader.frames
  <2>1. Len(s) # 0 BY <1>4
  <2> QED BY <1>1, <1>2, <1>3, <2>1, FilesAssumption DEF SourceInv
<1>10. reader.channels \in Nat \ {0} /\ reader.frames \in Nat BY <1>3, FilesAssumption
<1>11. CASE passes = 0
  <2>1. startOffset \in Nat /\ frame = Smaller(startOffset \div reader.channels, reader.frames)
    BY <1>7, <1>9, <1>11 DEF StartInv
  <2>2. startOffset - frame * reader.channels \in 0 .. reader.channels - 1
    BY <1>9, <1>10, <2>1, OffsetInFrame
  <2>3. startOffset - p \in 0 .. reader.channels - 1 BY <1>2, <2>2
  <2> QED BY <1>8, <1>11, <2>3, Zenon
<1>12. CASE passes # 0
  <2>1. frame = 0 BY <1>7, <1>9, <1>12 DEF StartInv
  <2>2. 0 * reader.channels = 0 BY <1>10
  <2>3. p = 0 BY <1>2, <2>1, <2>2
  <2> QED BY <1>8, <1>12, <2>3, Zenon
<1> QED BY <1>11, <1>12

LEMMA PassBeginsStep ==
  ASSUME IInv, StartInv, [Next]_vars PROVE [PassBegins]_vars
<1> SUFFICES ASSUME Next PROVE PassBegins BY DEF PassBegins
<1>1. edge \in Seq(Sample) BY DEF IInv, SourceInv
<1>2. CASE Read BY <1>2, ReadsFromStart
<1>3. CASE \E k \in 0 .. Len(edge) : edge' = SubSeq(edge, k + 1, Len(edge))
  <2>1. PICK k \in 0 .. Len(edge) : edge' = SubSeq(edge, k + 1, Len(edge)) BY <1>3
  <2>2. Len(edge') = Len(edge) - k BY <1>1, <2>1, Cut
  <2>3. Len(edge) \in Nat BY <1>1
  <2>4. Len(edge) + 1 .. Len(edge') = {} BY <2>2, <2>3
  <2> QED BY <2>4 DEF PassBegins
<1>4. CASE Source /\ ~ Read
  <2>1. edge' = edge BY <1>4 DEF Source, SourceStart, SourceStop, SetSettings, SourceWork, LengthReached
  <2>2. Len(edge) + 1 .. Len(edge') = {} BY <1>1, <2>1
  <2> QED BY <2>2 DEF PassBegins
<1>5. CASE Sink BY <1>3, <1>5, SinkTakes
<1> QED BY <1>2, <1>4, <1>5 DEF Next

-----------------------------------------------------------------------------
\* The FIFO is a ring of the stream's size whatever the two threads do: the
\* callback never reads past what was pushed, and a push never goes past what
\* was read.
THEOREM RingInvariant == Spec => []IInv
<1>1. Init => IInv BY SourceInitial, SinkInitial DEF IInv
<1>2. IInv /\ [Next]_vars => IInv' BY Step
<1> QED BY <1>1, <1>2, PTL DEF Spec

\* The sink implements the queue: samples are played in order and once each,
\* silence only when none waits, and those that wait are given up for another
\* format only; for every file, format, size of the FIFO and of the callback.
THEOREM QueueRefinement == Spec => QueueSafety
<1>1. Init => Queue!Init
  <2> SUFFICES ASSUME Init PROVE Queue!Init OBVIOUS
  <2>1. edge = <<>> /\ sound = <<>> /\ stream_open = FALSE BY Zenon DEF Init, SinkInit
  <2>2. Contents = <<>> BY <2>1 DEF Contents
  <2> QED BY <2>1, <2>2, Zenon DEF Queue!Init
<1>2. IInv /\ [Next]_vars => [Queue!Next]_(Queue!vars) BY Step
<1> QED BY <1>1, <1>2, RingInvariant, PTL DEF Spec, QueueSafety, Queue!Spec

\* The samples published are passes of the file, consecutive and each with its
\* tag on the first sample and there only, the first from the frame the offset is
\* in and the others from the beginning, and the count compared with the length is
\* that of the pass; for every file, length, offset and cut into calls.
THEOREM PassesAreInOrder == Spec => PassesInOrder
<1>1. IInv /\ PassInv /\ [Next]_vars => PassInv' BY PassStep
<1>2. PassInv' => PassesJoin'
  BY DEF PassInv, PassesJoin, Consecutive, TagsBeginPasses, CountsFromTag, EndsWith
<1>3. IInv /\ StartInv /\ [Next]_vars => StartInv' BY StartStep
<1>4. IInv /\ PassInv /\ StartInv /\ [Next]_vars => [PassesJoin' /\ PassBegins]_vars
  <2> SUFFICES ASSUME IInv, PassInv, StartInv, [Next]_vars PROVE [PassesJoin' /\ PassBegins]_vars
    OBVIOUS
  <2>1. PassesJoin' BY <1>1, <1>2
  <2>2. [PassBegins]_vars BY PassBeginsStep
  <2> QED BY <2>1, <2>2
<1> QED BY <1>1, <1>3, <1>4, PassInit, StartInit, RingInvariant, PTL DEF Spec, PassesInOrder

\* Whatever the two threads do, channels are exchanged by a callback that finds
\* part of a frame, a stream that opens inside a frame, or samples of another
\* format, and by nothing else; for every file, format, length, offset and size.
THEOREM StepsKeepChannels == Spec => FallsOutOfStepOnly
<1>1. Init => PassInv /\ FrameInv BY PassInit, FramesInit
<1>2. IInv /\ IInv' /\ PassInv /\ FrameInv /\ [Next]_vars => FrameInv' /\ [Exchanges]_vars
  <2> SUFFICES ASSUME IInv, IInv', PassInv, FrameInv, [Next]_vars PROVE FrameInv' /\ Exchanges
    OBVIOUS
  <2>1. CASE UNCHANGED vars
    <3>1. UNCHANGED <<edge, buf, r, n, format, stream_open>> /\ pending' = pending
      BY <2>1 DEF vars, sinkVars, fifoVars
    <3> QED BY <3>1, StaysPut
  <2>2. CASE Source /\ UNCHANGED sinkVars BY <2>2, FramesOfSource
  <2>3. CASE Sink /\ UNCHANGED sourceVars BY <2>3, FramesOfSink
  <2> QED BY <2>1, <2>2, <2>3 DEF Next
<1>3. IInv /\ PassInv /\ [Next]_vars => PassInv' BY PassStep
<1> QED BY <1>1, <1>2, <1>3, RingInvariant, PTL DEF Spec, FallsOutOfStepOnly, Exchanges
=============================================================================

--------------------------- MODULE ZmqStream_proofs ---------------------------
(***************************************************************************)
(* What is proved about the one-way patterns: unless messages may be       *)
(* dropped, no item is lost, repeated or reordered between the sink and    *)
(* the source, and of scalars every tag comes out on the item it was on:   *)
(* for every tag, size of span, high-water mark and kind of malformed      *)
(* message.                                                                *)
(***************************************************************************)
EXTENDS ZmqStream, CommonLemmas

\* In the source's hands and on its way.
Everything == Received \o OnTheWay(pipe)

\* Between calls there is no span, while there is room in one nothing is
\* retained, before the sockets are connected there is nothing, and after that
\* all is there that the sink has consumed, or what is left of it in its order.
StreamInv ==
  /\ span.room \in Nat /\ span.items \in Seq(Int) /\ (span.room = 0 => span.items = <<>>)
  /\ pending_items \in Seq(Int) /\ out \in Seq(Int)
  /\ position \in Nat /\ joined \in Int /\ joined <= position /\ (joined # -1 => joined >= 0)
  /\ Messages(pipe)
  /\ roomLeft > 0 => pending_items = <<>>
  /\ joined = -1 => out = <<>> /\ span.items = <<>> /\ pending_items = <<>> /\ pipe = <<>>
  /\ Rising(Everything, position)
  /\ joined >= 0 /\ ~ drop_on_hwm /\ ~ thrown => Everything = Items(joined, position - joined)

-----------------------------------------------------------------------------

LEMMA StreamInit == Init => StreamInv
<1> SUFFICES ASSUME Init PROVE StreamInv OBVIOUS
<1>1. /\ span.room = 0 /\ span.items = <<>> /\ pending_items = <<>> /\ out = <<>>
      /\ position = 0 /\ joined = -1 /\ pipe = <<>>
  BY DEF Init, SourceInit, NoSpan
<1>2. <<>> \in Seq(Int) /\ <<>> \in Seq(ToSet(<<>>)) /\ DOMAIN <<>> = {} /\ Len(<<>>) = 0 OBVIOUS
<1>3. Messages(pipe) BY <1>1, <1>2 DEF Messages
<1>4. Rising(Everything, position)
  <2>1. ItemsOf(<<>>) = <<>> BY DEF ItemsOf
  <2>2. OnTheWay(<<>>) = <<>> BY <2>1, FlattenEmpty DEF OnTheWay
  <2>3. <<>> \o <<>> = <<>> OBVIOUS
  <2>4. Everything = <<>> BY <1>1, <2>2, <2>3, Zenon DEF Everything, Received
  <2>5. Rising(<<>>, 0) BY DEF Rising
  <2> QED BY <1>1, <2>4, <2>5
<1> QED BY <1>1, <1>2, <1>3, <1>4 DEF StreamInv, roomLeft

\* A message sent is behind all others; what the sink has consumed is one of its
\* items more.
LEMMA SentStep ==
  ASSUME StreamInv, NEW n \in Nat, NEW m, m.items = Items(position, n), m.defect = "none",
         Sends, Send(m), position' = position + n,
         UNCHANGED <<sourceVars, fixedVars, joined, thrown>>
  PROVE  StreamInv'
<1>1. /\ span.room \in Nat /\ span.items \in Seq(Int) /\ (span.room = 0 => span.items = <<>>)
      /\ pending_items \in Seq(Int) /\ out \in Seq(Int)
      /\ position \in Nat /\ joined \in Int /\ joined <= position /\ (joined # -1 => joined >= 0)
      /\ Messages(pipe)
  BY DEF StreamInv
<1>2. UNCHANGED <<span, pending_items, out, joined, drop_on_hwm, thrown>> BY DEF sourceVars, fixedVars
<1>3. position' \in Nat /\ joined' <= position' BY <1>1, <1>2
<1>4. m.items \in Seq(Int)
  <2>1. Items(position, n) \in Seq(Int) BY <1>1 DEF Items
  <2> QED BY <2>1
<1>5. CASE room
  <2>1. pipe' = Append(pipe, m) /\ joined >= 0 BY <1>5 DEF Send, room
  <2>2. Messages(pipe') /\ OnTheWay(pipe') = OnTheWay(pipe) \o m.items
    BY <1>1, <1>4, <2>1, PipeAppend
  <2>3. Everything' = Everything \o Numbers(position, n)
    <3> DEFINE w == OnTheWay(pipe)
               new == Items(position, n)
               s == span.items
               x == out \o s \o pending_items
    <3>1. w \in Seq(Int) /\ new \in Seq(Int) /\ s \in Seq(Int) BY <1>1, <1>4, PipeType
    <3> HIDE DEF w, s, new
    <3>2. x \in Seq(Int) BY <1>1, <3>1, Joined
    <3> HIDE DEF x
    <3>3. x \o (w \o new) = x \o w \o new BY <3>1, <3>2, Joined
    <3>4. OnTheWay(pipe') = w \o new BY <2>2 DEF w, new
    <3>5. Everything' = x \o OnTheWay(pipe') /\ Everything = x \o w
      BY <1>2 DEF Everything, Received, x, s, w
    <3>6. new = Numbers(position, n) BY DEF new, Items, Numbers
    <3> QED BY <3>3, <3>4, <3>5, <3>6
  <2>4. ASSUME ~ drop_on_hwm, ~ thrown
        PROVE  Everything' = Items(joined, position' - joined)
    <3> DEFINE t == position - joined
               u == t + n
    <3>1. t \in Nat /\ u = t + n /\ position = joined + t /\ position' - joined = u BY <1>1, <2>1
    <3>2. Everything = Numbers(joined, t) BY <2>1, <2>4 DEF StreamInv, Items, Numbers
    <3> HIDE DEF t, u
    <3>3. Adjoin(joined, t, position, n, u) BY <1>1, <3>1 DEF Adjoin
    <3>4. Numbers(joined, t) \o Numbers(position, n) = Numbers(joined, u) BY ONLY <3>3, Adjacent
    <3>5. Items(joined, u) = Numbers(joined, u) BY DEF Items, Numbers
    <3> QED BY <2>3, <3>1, <3>2, <3>4, <3>5
  <2>5. Rising(Everything', position')
    <3>1. Rising(Everything, position) BY DEF StreamInv
    <3> QED BY <2>3, <3>1, RisingOn
  <2>6. roomLeft' = roomLeft /\ (joined >= 0 => ~ (joined = -1)) BY <1>1, <1>2 DEF roomLeft
  <2>7. joined' >= 0 /\ ~ drop_on_hwm' /\ ~ thrown' => Everything' = Items(joined', position' - joined')
    BY <1>2, <2>4
  <2>8. roomLeft > 0 => pending_items = <<>> BY DEF StreamInv
  <2> QED BY ONLY <1>1, <1>2, <1>3, <2>1, <2>2, <2>5, <2>6, <2>7, <2>8 DEF StreamInv
<1>6. CASE ~ room
  <2>1. pipe' = pipe /\ (joined = -1 \/ drop_on_hwm) BY <1>6 DEF Send, Sends
  <2>2. Everything' = Everything BY <1>2, <2>1 DEF Everything, Received
  <2>3. Rising(Everything', position')
    <3>1. Rising(Everything, position) BY DEF StreamInv
    <3> QED BY <2>2, <3>1, RisingOn
  <2> QED BY <1>1, <1>2, <1>3, <2>1, <2>3 DEF StreamInv, roomLeft
<1> QED BY <1>5, <1>6

\* A call takes the retained items into its span.
LEMMA OpenStep ==
  ASSUME StreamInv, NEW n \in 1 .. MaxRoom, OpenSpan(n), UNCHANGED <<fixedVars, sinkVars, joined, pipe, thrown>>
  PROVE  StreamInv'
<1> DEFINE k == IF n < Len(pending_items) THEN n ELSE Len(pending_items)
           a == SubSeq(pending_items, 1, k)
           b == SubSeq(pending_items, k + 1, Len(pending_items))
<1>1. /\ span.room \in Nat /\ span.items \in Seq(Int) /\ (span.room = 0 => span.items = <<>>)
      /\ pending_items \in Seq(Int) /\ out \in Seq(Int)
      /\ position \in Nat /\ joined \in Int /\ joined <= position /\ (joined # -1 => joined >= 0)
      /\ Messages(pipe)
  BY DEF StreamInv
<1>2. UNCHANGED <<out, joined, position, pipe, drop_on_hwm, thrown>> BY DEF OpenSpan, fixedVars, sinkVars
<1>3. /\ span.room = 0 /\ pending_items' = b
      /\ span' = [room |-> n, items |-> a, tags |-> Below(pending_tags, k)]
  BY DEF OpenSpan
<1>4. span'.room = n /\ span'.items = a
  <2> HIDE DEF a
  <2> QED BY <1>3
<1>5. Len(pending_items) \in Nat /\ n \in Nat \ {0} /\ k \in 0 .. Len(pending_items) /\ k <= n BY <1>1
<1>6. a \in Seq(Int) /\ Len(a) = k /\ b \in Seq(Int) /\ a \o b = pending_items /\ (k = Len(pending_items) => b = <<>>)
  <2> HIDE DEF k
  <2> QED BY <1>1, <1>5, Cut
<1>7. n - k > 0 => b = <<>>
  <2>1. n - k > 0 => k = Len(pending_items) BY <1>5
  <2> HIDE DEF k, b
  <2> QED BY <1>6, <2>1
<1> HIDE DEF k, a, b
<1>8. ASSUME joined = -1 PROVE a = <<>> /\ b = <<>>
  <2>1. pending_items = <<>> BY <1>8 DEF StreamInv
  <2>2. Len(a) = 0 /\ b = <<>> BY <1>5, <1>6, <2>1
  <2> QED BY <1>6, <2>2
<1>9. out \o a \o b = out \o span.items \o pending_items
  <2>0. out \in Seq(Int) /\ a \in Seq(Int) /\ b \in Seq(Int) BY <1>1, <1>6
  <2>1. out \o a \o b = out \o <<>> \o (a \o b) BY ONLY <2>0, RetainedInSpan
  <2> QED BY <1>1, <1>3, <1>6, <2>1
<1>10. roomLeft' > 0 => b = <<>> BY <1>4, <1>6, <1>7 DEF roomLeft
<1>11. Everything' = Everything BY <1>2, <1>3, <1>4, <1>9 DEF Everything, Received
<1>15. /\ joined >= 0 /\ ~ drop_on_hwm /\ ~ thrown => Everything = Items(joined, position - joined)
       /\ Rising(Everything, position)
  BY DEF StreamInv
<1>12. joined = -1 => out' = <<>> /\ span'.items = <<>> /\ pending_items' = <<>> /\ pipe' = <<>>
  BY <1>2, <1>3, <1>4, <1>8 DEF StreamInv
<1>13. span'.room \in Nat /\ span'.items \in Seq(Int) /\ (span'.room = 0 => span'.items = <<>>)
  BY <1>4, <1>5, <1>6
<1>14. pending_items' \in Seq(Int) /\ (roomLeft' > 0 => pending_items' = <<>>) BY <1>3, <1>6, <1>10
<1> QED BY ONLY <1>1, <1>2, <1>11, <1>12, <1>13, <1>14, <1>15 DEF StreamInv

\* What a message brings goes into the span as far as there is room, and what is
\* left is retained.
LEMMA TakeStep ==
  ASSUME StreamInv, NEW m, Incoming(m), ~ BadHeader(m), ~ BadPayload(m), Take(m), UNCHANGED thrown
  PROVE  StreamInv'
<1>1. /\ span.room \in Nat /\ span.items \in Seq(Int) /\ (span.room = 0 => span.items = <<>>)
      /\ out \in Seq(Int)
      /\ position \in Nat /\ joined \in Int /\ joined <= position /\ (joined # -1 => joined >= 0)
      /\ Messages(pipe)
  BY DEF StreamInv
<1>2. /\ UNCHANGED <<out, joined, position, drop_on_hwm, thrown>>
      /\ roomLeft > 0 /\ pipe # <<>> /\ m = Head(pipe) /\ pipe' = Tail(pipe)
  BY DEF Incoming, Take, fixedVars, sinkVars
<1>3. pending_items = <<>> /\ joined >= 0 BY <1>1, <1>2 DEF StreamInv
<1> DEFINE s == span.items
           w == OnTheWay(Tail(pipe))
           L == Len(m.items)
<1>4. Messages(Tail(pipe)) /\ OnTheWay(pipe) = m.items \o w /\ m.items \in Seq(Int) /\ w \in Seq(Int)
  <2>1. Messages(Tail(pipe)) /\ OnTheWay(pipe) = m.items \o w /\ m.items \in Seq(Int)
    BY <1>1, <1>2, PipeTail
  <2>2. w \in Seq(Int) BY <2>1, PipeType
  <2> QED BY <2>1, <2>2
<1>5. L \in Nat BY <1>4
<1> HIDE DEF w, s, L
\* a and b are what goes into the span and what is retained.
<1>6. \E a \in Seq(Int), b \in Seq(Int) :
        /\ a \o b = m.items /\ span'.room = span.room /\ span'.items = s \o a /\ pending_items' = <<>> \o b
        /\ roomLeft' > 0 => b = <<>>
  <2>1. CASE kind = "scalar"
    <3> DEFINE n == IF L < roomLeft THEN L ELSE roomLeft
               a == SubSeq(m.items, 1, n)
               b == SubSeq(m.items, n + 1, L)
               tags == span.tags \o Shift(Below(pending_tags, n) \o Below(Rebased(m), n), Len(span.items))
    <3>1. span' = [room |-> span.room, items |-> s \o a, tags |-> tags] /\ pending_items' = pending_items \o b
      BY <2>1 DEF Take, TakeScalars, s, L
    <3>2. roomLeft \in Int /\ n \in 0 .. L /\ n <= roomLeft /\ (n < roomLeft => n = L)
      <4>1. roomLeft \in Int BY <1>1 DEF roomLeft
      <4> QED BY <1>2, <1>5, <4>1
    <3> HIDE DEF n, tags
    <3>3. a \in Seq(Int) /\ Len(a) = n /\ b \in Seq(Int) /\ a \o b = m.items /\ (n = L => b = <<>>)
      <4>1. m.items \in Seq(Int) /\ n \in 0 .. Len(m.items) BY <1>4, <3>2 DEF L
      <4> QED BY ONLY <4>1, Cut DEF L
    <3> HIDE DEF a, b
    <3>4. span'.room = span.room /\ span'.items = s \o a /\ pending_items' = <<>> \o b BY <1>3, <3>1
    <3>5. roomLeft' > 0 => b = <<>>
      <4>1. s \in Seq(Int) BY <1>1 DEF s
      <4>2. Len(s \o a) = Len(s) + n /\ Len(s) \in Nat
        <5>1. a \in Seq(Int) BY <3>3
        <5>2. Len(s \o a) = Len(s) + Len(a) BY <4>1, <5>1, Concatenation
        <5> QED BY <3>3, <4>1, <5>2
      <4>3. roomLeft' = span.room - (Len(s) + n) BY <3>4, <4>2 DEF roomLeft
      <4>4. roomLeft = span.room - Len(s) BY DEF roomLeft, s
      <4>5. roomLeft' > 0 => n < roomLeft BY <1>1, <3>2, <4>2, <4>3, <4>4
      <4> QED BY <3>2, <3>3, <4>5
    <3> QED BY <3>3, <3>4, <3>5
  <2>2. CASE kind # "scalar"
    <3> DEFINE tags == span.tags \o OnItem(m.tags, Len(span.items))
    <3>1. span' = [room |-> span.room, items |-> s \o m.items, tags |-> tags] /\ pending_items' = pending_items
      BY <2>2 DEF Take, TakeOne, s
    <3> HIDE DEF tags
    <3>2. <<>> \in Seq(Int) /\ m.items \o <<>> = m.items /\ <<>> \o <<>> = <<>> BY <1>4, ConcatEmptySeq
    <3>3. span'.room = span.room /\ span'.items = s \o m.items /\ pending_items' = <<>> \o <<>>
      BY <1>3, <3>1, <3>2
    <3> QED BY <1>4, <3>2, <3>3
  <2> QED BY <2>1, <2>2
<1>7. PICK a \in Seq(Int), b \in Seq(Int) :
        /\ a \o b = m.items /\ span'.room = span.room /\ span'.items = s \o a /\ pending_items' = <<>> \o b
        /\ roomLeft' > 0 => b = <<>>
  BY <1>6
<1>8. s \in Seq(Int) /\ s \o a \in Seq(Int) /\ <<>> \o b = b
  <2>1. s \in Seq(Int) BY <1>1 DEF s
  <2> QED BY <2>1, Concatenation, ConcatEmptySeq
<1>9. out \o (s \o a) \o b \o w = out \o s \o ((a \o b) \o w)
  <2> DEFINE x == out \o s
             y == a \o b
  <2>1. out \in Seq(Int) /\ s \in Seq(Int) /\ a \in Seq(Int) /\ b \in Seq(Int) /\ w \in Seq(Int)
    BY <1>1, <1>4, <1>8
  <2>2. x \in Seq(Int) /\ y \in Seq(Int) BY ONLY <2>1, Joined
  <2>3. out \o (s \o a) = x \o a BY ONLY <2>1, Joined
  <2> HIDE DEF x
  <2>4. x \o (a \o b) = x \o a \o b BY ONLY <2>1, <2>2, Joined
  <2> HIDE DEF y
  <2>5. x \o (y \o w) = x \o y \o w
    <3>1. x \in Seq(Int) /\ y \in Seq(Int) /\ w \in Seq(Int) BY <2>1, <2>2
    <3> QED BY ONLY <3>1, Joined, SMTT(30)
  <2> QED BY <2>3, <2>4, <2>5 DEF x, y
<1>10. Everything' = Everything
  <2>1. Everything' = out \o (s \o a) \o b \o w
    BY <1>2, <1>7, <1>8 DEF Everything, Received, w
  <2>2. Everything = out \o s \o ((a \o b) \o w)
    <3>1. out \o s \in Seq(Int) BY <1>1, <1>8, Joined
    <3>2. out \o s \o <<>> = out \o s BY <3>1, ConcatEmptySeq
    <3> QED BY <1>3, <1>4, <1>7, <3>2 DEF Everything, Received, s
  <2> QED BY <1>9, <2>1, <2>2
<1>11. span'.room # 0
  <2>1. Len(s) \in Nat BY <1>8
  <2> QED BY <1>1, <1>2, <1>7, <2>1 DEF roomLeft, s
<1>12. Messages(pipe') BY <1>2, <1>4
<1>13. pending_items' \in Seq(Int) /\ (roomLeft' > 0 => pending_items' = <<>>) BY <1>7, <1>8
<1>14. joined # -1 BY <1>3
<1>15. span'.room \in Nat /\ span'.items \in Seq(Int) BY <1>1, <1>7, <1>8
<1>16. /\ joined >= 0 /\ ~ drop_on_hwm /\ ~ thrown => Everything = Items(joined, position - joined)
       /\ Rising(Everything, position)
  BY DEF StreamInv
<1> QED BY ONLY <1>1, <1>2, <1>10, <1>11, <1>12, <1>13, <1>14, <1>15, <1>16 DEF StreamInv

\* The call returns or is ended by an exception.
LEMMA ReturnStep ==
  ASSUME StreamInv, Return, UNCHANGED <<drop_on_hwm, position, joined, thrown>>, Messages(pipe'),
         OnTheWay(pipe') = OnTheWay(pipe), joined = -1 => pipe' = <<>>
  PROVE  StreamInv'
<1>1. /\ span.items \in Seq(Int) /\ pending_items \in Seq(Int) /\ out \in Seq(Int)
      /\ position \in Nat /\ joined \in Int /\ joined <= position /\ (joined # -1 => joined >= 0)
  BY DEF StreamInv
<1>2. /\ out' = out \o span.items /\ span'.room = 0 /\ span'.items = <<>> /\ pending_items' = pending_items
  BY DEF Return, NoSpan
<1>3. out' \in Seq(Int) BY <1>1, <1>2, Concatenation
<1>4. <<>> \in Seq(Int) /\ ~ (roomLeft' > 0)
  <2>1. Len(<<>>) = 0 OBVIOUS
  <2> QED BY <1>2, <2>1 DEF roomLeft
<1>5. Everything' = Everything
  <2>1. out \o span.items \o <<>> \o pending_items = out \o span.items \o pending_items BY <1>1, SpanPublished
  <2>2. Received' = Received BY <1>2, <2>1 DEF Received
  <2> QED BY <2>2 DEF Everything
<1>6. joined = -1 => out' = <<>> /\ pending_items' = <<>>
  <2>1. <<>> \o <<>> = <<>> OBVIOUS
  <2> QED BY <1>2, <2>1 DEF StreamInv
<1>7. /\ joined >= 0 /\ ~ drop_on_hwm /\ ~ thrown => Everything' = Items(joined, position - joined)
      /\ Rising(Everything', position)
  BY <1>5 DEF StreamInv
<1> QED BY <1>1, <1>2, <1>3, <1>4, <1>6, <1>7 DEF StreamInv

LEMMA ReceiveBadStep ==
  ASSUME StreamInv, NEW m, Incoming(m), BadHeader(m) \/ BadPayload(m),
         IF ReportsError(m)
         THEN Return /\ ended' = ended \cup {"error"}
         ELSE Throw /\ ended' = ended \cup {"exception"}
  PROVE  StreamInv'
<1>1. /\ span.items \in Seq(Int) /\ pending_items \in Seq(Int) /\ out \in Seq(Int)
      /\ position \in Nat /\ joined \in Int /\ joined <= position /\ (joined # -1 => joined >= 0)
      /\ Messages(pipe)
  BY DEF StreamInv
<1>2. /\ UNCHANGED <<joined, position, drop_on_hwm>>
      /\ pipe # <<>> /\ m = Head(pipe) /\ pipe' = Tail(pipe)
  BY DEF Incoming, fixedVars, sinkVars
<1>3. joined # -1 BY <1>2 DEF StreamInv
<1>4. m.defect # "none" BY DEF BadHeader, BadPayload
<1>5. Messages(pipe') /\ OnTheWay(pipe') = OnTheWay(pipe)
  <2>1. /\ Messages(Tail(pipe)) /\ OnTheWay(pipe) = m.items \o OnTheWay(Tail(pipe)) /\ m.items = <<>>
    BY <1>1, <1>2, <1>4, PipeTail
  <2>2. OnTheWay(Tail(pipe)) \in Seq(Int) BY <2>1, PipeType
  <2>3. <<>> \o OnTheWay(Tail(pipe)) = OnTheWay(Tail(pipe)) BY <2>2, ConcatEmptySeq
  <2> QED BY <1>2, <2>1, <2>3
<1>6. CASE ReportsError(m)
  <2>1. Return /\ UNCHANGED thrown BY <1>6 DEF thrown
  <2> QED BY <1>2, <1>3, <1>5, <2>1, ReturnStep
<1>7. CASE ~ ReportsError(m)
  <2>1. span'.room = 0 /\ span'.items = <<>> /\ UNCHANGED <<pending_items, out>> /\ thrown' = TRUE
    BY <1>7 DEF Throw, NoSpan, thrown
  <2>2. <<>> \in Seq(Int) /\ ~ (roomLeft' > 0)
    <3>1. Len(<<>>) = 0 OBVIOUS
    <3> QED BY <2>1, <3>1 DEF roomLeft
  <2>3. Rising(Everything', position)
    <3> DEFINE w == OnTheWay(pipe)
               q == pending_items \o w
               s == span.items
    <3>1. w \in Seq(Int) /\ q \in Seq(Int) BY <1>1, PipeType, Joined
    <3>2. Everything = out \o s \o q
      <4> DEFINE p == pending_items
                 h == out \o s
      <4> HIDE DEF w
      <4>1. h \in Seq(Int) /\ p \in Seq(Int) /\ w \in Seq(Int) BY <1>1, <3>1, Joined
      <4> HIDE DEF h, p
      <4>2. h \o (p \o w) = h \o p \o w BY ONLY <4>1, Joined
      <4> QED BY <4>2 DEF Everything, Received, w, s, h, p
    <3>3. Everything' = out \o q
      <4>1. Everything' = out \o <<>> \o pending_items \o w BY <1>5, <2>1 DEF Everything, Received
      <4> HIDE DEF w
      <4>2. out \o (pending_items \o w) = out \o pending_items \o w BY <1>1, <3>1, Joined
      <4>3. out \o <<>> = out BY <1>1, ConcatEmptySeq
      <4> QED BY <4>1, <4>2, <4>3
    <3>4. Rising(Everything, position) /\ s \in Seq(Int) BY <1>1 DEF StreamInv
    <3> HIDE DEF q, s
    <3>5. Rising(out \o q, position) BY <1>1, <3>1, <3>2, <3>4, RisingWithout
    <3> QED BY <3>3, <3>5
  <2> QED BY <1>1, <1>2, <1>3, <1>5, <2>1, <2>2, <2>3 DEF StreamInv
<1> QED BY <1>6, <1>7

-----------------------------------------------------------------------------

LEMMA StreamStep == StreamInv /\ [Next]_vars => StreamInv'
<1> SUFFICES ASSUME StreamInv, [Next]_vars PROVE StreamInv' OBVIOUS
<1>1. CASE Join
  <2>1. UNCHANGED <<sourceVars, fixedVars, position, pipe, thrown>> /\ joined = -1 /\ joined' = position
    BY <1>1 DEF Join, sinkVars, thrown
  <2>2. /\ out = <<>> /\ span.items = <<>> /\ pending_items = <<>> /\ pipe = <<>>
        /\ position \in Nat /\ Messages(pipe)
    BY <2>1 DEF StreamInv
  <2>3. Everything' = Items(position, position - position)
    <3>1. ItemsOf(<<>>) = <<>> BY DEF ItemsOf
    <3>2. OnTheWay(<<>>) = <<>> BY <3>1, FlattenEmpty DEF OnTheWay
    <3>3. <<>> \o <<>> = <<>> OBVIOUS
    <3>4. Items(position, position - position) = <<>> BY <2>2 DEF Items
    <3> QED BY <2>1, <2>2, <3>2, <3>3, <3>4 DEF Everything, Received, sourceVars
  <2>4. position # -1 /\ position >= 0 BY <2>2
  <2>5. roomLeft' = roomLeft BY <2>1 DEF roomLeft, sourceVars
  <2>6. Rising(Everything', position)
    <3>1. Everything' = Everything BY <2>1 DEF Everything, Received, sourceVars
    <3> QED BY <3>1 DEF StreamInv
  <2> QED BY <2>1, <2>2, <2>3, <2>4, <2>5, <2>6 DEF StreamInv, sourceVars, fixedVars
<1>2. CASE SendScalars
  <2>1. PICK n \in 1 .. MaxSpan :
          /\ Sends /\ Send(ScalarMessage(n)) /\ position' = position + n
          /\ UNCHANGED <<sourceVars, fixedVars, joined, thrown>>
    BY <1>2 DEF SendScalars, thrown
  <2>2. n \in Nat OBVIOUS
  <2> DEFINE m == ScalarMessage(n)
  <2>3. m.items = Items(position, n) /\ m.defect = "none" BY DEF ScalarMessage, Message
  <2> HIDE DEF m
  <2>4. Send(m) BY <2>1 DEF m
  <2> QED BY <2>1, <2>2, <2>3, <2>4, SentStep
<1>3. CASE BeginSpan \/ SendRefused
  <2>1. UNCHANGED <<sourceVars, fixedVars, position, joined, pipe, thrown>>
    BY <1>3 DEF BeginSpan, SendRefused, thrown
  <2> QED BY <2>1 DEF StreamInv, Everything, Received, roomLeft, sourceVars, fixedVars
<1>4. CASE SendItem
  <2> DEFINE m == Message(Items(position, 1), sinkSpan.tags, 0)
  <2>1. /\ Sends /\ Send(m) /\ position' = position + 1
        /\ UNCHANGED <<sourceVars, fixedVars, joined, thrown>>
    BY <1>4 DEF SendItem, thrown
  <2>2. m.items = Items(position, 1) /\ m.defect = "none" BY DEF Message
  <2> HIDE DEF m
  <2> QED BY <2>1, <2>2, SentStep
<1>5. CASE Stranger
  <2>1. PICK d \in Defects : pipe' = Append(pipe, Defective(d)) /\ room /\ UNCHANGED <<sourceVars, fixedVars, sinkVars, joined, thrown>>
    BY <1>5 DEF Stranger, thrown
  <2> DEFINE m == Defective(d)
  <2>2. m.items = <<>> BY DEF Defective
  <2>3. pipe' = Append(pipe, m) BY <2>1
  <2> HIDE DEF m
  <2>4. Messages(pipe) BY DEF StreamInv
  <2>5. <<>> \in Seq(Int) OBVIOUS
  <2>6. Messages(pipe') /\ OnTheWay(pipe') = OnTheWay(pipe) \o m.items BY <2>2, <2>3, <2>4, <2>5, PipeAppend
  <2>7. OnTheWay(pipe') = OnTheWay(pipe)
    <3>1. OnTheWay(pipe) \in Seq(Int) BY <2>4, PipeType
    <3> QED BY <2>2, <2>6, <3>1, ConcatEmptySeq
  <2>8. joined # -1 BY <2>1 DEF room
  <2>9. UNCHANGED <<span, pending_items, out, position, joined, drop_on_hwm, thrown>>
    BY <2>1 DEF sourceVars, fixedVars, sinkVars
  <2> QED BY <2>6, <2>7, <2>8, <2>9 DEF StreamInv, Everything, Received, roomLeft
<1>6. CASE BeginCall
  <2>1. PICK n \in 1 .. MaxRoom : OpenSpan(n) BY <1>6 DEF BeginCall
  <2> QED BY <1>6, <2>1, OpenStep DEF BeginCall, thrown
<1>7. CASE Receive BY <1>7, TakeStep DEF Receive, thrown
<1>8. CASE ReceiveBad BY <1>8, ReceiveBadStep DEF ReceiveBad
<1>9. CASE EndCall
  <2>1. Return /\ UNCHANGED <<drop_on_hwm, position, joined, pipe, thrown>> BY <1>9 DEF EndCall, fixedVars, sinkVars, thrown
  <2>2. Messages(pipe') /\ OnTheWay(pipe') = OnTheWay(pipe) /\ (joined = -1 => pipe' = <<>>)
    BY <2>1 DEF StreamInv
  <2> QED BY <2>1, <2>2, ReturnStep
<1>10. CASE UNCHANGED vars
  BY <1>10 DEF vars, thrown, sourceVars, fixedVars, sinkVars, StreamInv, Everything, Received, roomLeft
<1> QED BY <1>1, <1>2, <1>3, <1>4, <1>5, <1>6, <1>7, <1>8, <1>9, <1>10 DEF Next, Sink, Poll

\* Unless messages may be dropped, every item consumed since the sockets are
\* connected is in the source's hands or on its way, once and in order: whatever
\* the sizes of spans and messages, the high-water marks and the tags, and
\* whichever sends are refused and malformed messages come in between.
THEOREM EveryItemKept == Spec => []NothingLost
<1>1. StreamInv => NothingLost BY DEF StreamInv, NothingLost, Everything, OnTheWay, ItemsOf
<1> QED BY <1>1, StreamInit, StreamStep, PTL DEF Spec

-----------------------------------------------------------------------------

TagValues == {StreamTags[i].tag : i \in DOMAIN StreamTags}

\* The tags that belong to items which are first in their row.
Carried(items) == CarriedBy(StreamTags, items, 0)

\* Of a message they count from its header_offset.
Labelled(m) == m.header_offset \in Int /\ m.tags = CarriedBy(StreamTags, m.items, m.header_offset)

\* Wherever scalars are, the tags beside them are theirs.
TagInv ==
  kind = "scalar" =>
    /\ outTags = Carried(out) /\ span.tags = Carried(span.items) /\ pending_tags = Carried(pending_items)
    /\ sinkSpan = NoItems
    /\ \A i \in DOMAIN pipe : Labelled(pipe[i])

LEMMA StreamIs == AllTags(TagValues, StreamTags) /\ Sorted(StreamTags)
<1>1. StreamTags \in Seq([offset : Nat, tag : TagValues]) BY SourceAssumption DEF TagValues
<1>2. AllTags(TagValues, StreamTags)
  <2>1. StreamTags \in Seq([offset : Int, tag : TagValues])
    <3> DEFINE A == [offset : Nat, tag : TagValues]
               B == [offset : Int, tag : TagValues]
    <3>1. A \subseteq B OBVIOUS
    <3>2. StreamTags \in Seq(A) BY <1>1
    <3> HIDE DEF A, B
    <3>3. StreamTags \in Seq(B) BY <3>1, <3>2
    <3> QED BY <3>3 DEF B
  <2> QED BY <2>1 DEF AllTags, TagsWith
<1>3. Sorted(StreamTags)
  <2>1. DOMAIN StreamTags = 1 .. Len(StreamTags) BY <1>1
  <2> QED BY <2>1, SourceAssumption DEF Sorted
<1> QED BY <1>2, <1>3

LEMMA CollectedIs ==
  ASSUME NEW p \in Int, NEW n \in Nat
  PROVE  /\ Collected(p, n) = Carried(Items(p, n))
         /\ Shift(Collected(p, n), p) = CarriedBy(StreamTags, Items(p, n), p)
<1> DEFINE a == Numbers(p, n)
<1>1. Items(p, n) = a BY DEF Items, Numbers
<1>2. Collected(p, n) = CarriedBy(StreamTags, a, 0) BY StreamIs, CarriedCollected DEF Collected
<1>3. a \in Seq(Int) /\ Twice(0, p, p) BY DEF Numbers, Twice
<1> HIDE DEF a
<1>4. Shift(CarriedBy(StreamTags, a, 0), p) = CarriedBy(StreamTags, a, p) BY <1>3, StreamIs, CarriedShifted
<1> QED BY <1>1, <1>2, <1>4, Zenon DEF Carried

LEMMA CarriedNothing == Carried(<<>>) = <<>>
  BY CarriedNone DEF Carried

LEMMA TagInit == Init => TagInv
<1> SUFFICES ASSUME Init PROVE TagInv OBVIOUS
<1>1. /\ out = <<>> /\ outTags = <<>> /\ span.items = <<>> /\ span.tags = <<>>
      /\ pending_items = <<>> /\ pending_tags = <<>> /\ pipe = <<>> /\ sinkSpan = NoItems
  BY DEF Init, SourceInit, NoSpan
<1>2. DOMAIN <<>> = {} OBVIOUS
<1> QED BY <1>1, <1>2, CarriedNothing, Zenon DEF TagInv

\* A message with its tags, behind others.
LEMMA LabelledBehind ==
  ASSUME NEW p, p \in Seq(ToSet(p)), \A i \in DOMAIN p : Labelled(p[i]), NEW m, Labelled(m)
  PROVE  \A i \in DOMAIN Append(p, m) : Labelled(Append(p, m)[i])
<1> DEFINE q == Append(p, m)
<1>1. Len(p) \in Nat /\ DOMAIN p = 1 .. Len(p) /\ DOMAIN q = 1 .. Len(p) + 1 /\ q[Len(p) + 1] = m /\ \A i \in 1 .. Len(p) : q[i] = p[i]
  OBVIOUS
<1> HIDE DEF q
<1>2. ASSUME NEW i \in DOMAIN q PROVE Labelled(q[i])
  <2>1. CASE i = Len(p) + 1 BY <1>1, <2>1
  <2>2. CASE i # Len(p) + 1
    <3>1. i \in DOMAIN p /\ q[i] = p[i] BY <1>1, <2>2
    <3> QED BY <3>1
  <2> QED BY <2>1, <2>2
<1> QED BY <1>2 DEF q

LEMMA LabelledAfter ==
  ASSUME NEW p, p \in Seq(ToSet(p)), p # <<>>, \A i \in DOMAIN p : Labelled(p[i])
  PROVE  Labelled(Head(p)) /\ \A i \in DOMAIN Tail(p) : Labelled(Tail(p)[i])
<1> DEFINE q == Tail(p)
<1>1. /\ Len(p) \in Nat \ {0} /\ DOMAIN p = 1 .. Len(p) /\ DOMAIN q = 1 .. Len(p) - 1 /\ Head(p) = p[1]
      /\ \A i \in 1 .. Len(p) - 1 : q[i] = p[i + 1]
  OBVIOUS
<1> HIDE DEF q
<1>2. 1 \in DOMAIN p BY <1>1
<1>3. ASSUME NEW i \in DOMAIN q PROVE Labelled(q[i])
  <2> DEFINE k == i + 1
  <2>1. k \in DOMAIN p /\ q[i] = p[k] BY <1>1
  <2> HIDE DEF k
  <2> QED BY <2>1
<1> QED BY <1>1, <1>2, <1>3 DEF q

\* The retained items come into the span with their tags.
LEMMA OpenTags ==
  ASSUME pending_items \in Seq(Int), pending_tags = Carried(pending_items), NEW n \in 1 .. MaxRoom, OpenSpan(n)
  PROVE  span'.tags = Carried(span'.items) /\ pending_tags' = Carried(pending_items')
<1> DEFINE k == IF n < Len(pending_items) THEN n ELSE Len(pending_items)
           a == SubSeq(pending_items, 1, k)
           b == SubSeq(pending_items, k + 1, Len(pending_items))
           t == Below(pending_tags, k)
<1>1. k \in 0 .. Len(pending_items)
  <2>1. Len(pending_items) \in Nat /\ n \in Nat OBVIOUS
  <2> QED BY <2>1
<1>2. span' = [room |-> n, items |-> a, tags |-> t] /\ pending_items' = b /\ pending_tags' = Beyond(pending_tags, k)
  BY DEF OpenSpan
<1> HIDE DEF k
<1>3. a \in Seq(Int) /\ Len(a) = k /\ b \in Seq(Int) /\ a \o b = pending_items BY <1>1, Cut
<1>4. span'.items = a /\ span'.tags = t
  <2> HIDE DEF a, t
  <2> QED BY <1>2
<1> HIDE DEF a, b
<1>5. pending_tags = CarriedBy(StreamTags, a \o b, 0) BY <1>3 DEF Carried
<1>6. /\ Below(CarriedBy(StreamTags, a \o b, 0), k) = CarriedBy(StreamTags, a, 0)
      /\ Beyond(CarriedBy(StreamTags, a \o b, 0), k) = CarriedBy(StreamTags, b, 0)
  <2>1. AllTags(TagValues, StreamTags) /\ a \in Seq(Int) /\ b \in Seq(Int) /\ k = Len(a) BY <1>3, StreamIs
  <2> QED BY ONLY <2>1, CarriedCut
<1> QED BY <1>2, <1>4, <1>5, <1>6, Zenon DEF Carried, t

\* A message of scalars brings its own.
LEMMA TakeTags ==
  ASSUME span.items \in Seq(Int), span.room \in Nat, roomLeft > 0, pending_items = <<>>,
         span.tags = Carried(span.items), pending_tags = Carried(pending_items),
         NEW m, m.items \in Seq(Int), Labelled(m), TakeScalars(m)
  PROVE  span'.tags = Carried(span'.items) /\ pending_tags' = Carried(pending_items')
<1> DEFINE s == span.items
           L == Len(m.items)
           n == IF L < roomLeft THEN L ELSE roomLeft
           a == SubSeq(m.items, 1, n)
           b == SubSeq(m.items, n + 1, L)
           h == m.header_offset
           r == Rebased(m)
           t == span.tags \o Shift(Below(pending_tags, n) \o Below(r, n), Len(s))
<1>1. /\ span' = [room |-> span.room, items |-> s \o a, tags |-> t] /\ pending_items' = pending_items \o b
      /\ pending_tags' = IF n < L THEN Beyond(r, n) ELSE Beyond(pending_tags, n)
  BY DEF TakeScalars
<1>2. n \in 0 .. L
  <2>1. roomLeft \in Int /\ L \in Nat BY DEF roomLeft
  <2> QED BY <2>1
<1>3. h \in Int /\ m.tags = CarriedBy(StreamTags, m.items, h) BY DEF Labelled
<1>4. span'.items = s \o a /\ span'.tags = t
  <2> HIDE DEF s, a, t
  <2> QED BY <1>1
<1> HIDE DEF n, h
<1>5. a \in Seq(Int) /\ Len(a) = n /\ b \in Seq(Int) /\ a \o b = m.items /\ (n = L => b = <<>>)
  <2>1. m.items \in Seq(Int) /\ n \in 0 .. Len(m.items) BY <1>2
  <2> QED BY ONLY <2>1, Cut
<1>6. s \in Seq(Int) /\ span.tags = CarriedBy(StreamTags, s, 0) BY DEF Carried
<1>7. pending_tags = <<>> BY CarriedNothing
<1>8. r = Rebase(CarriedBy(StreamTags, a \o b, h), h)
  <2>1. r = Rebase(m.tags, h) BY DEF Rebased, h
  <2> HIDE DEF r, a, b
  <2> QED BY <1>3, <1>5, <2>1
<1>9. ~ (n < L) => n = L BY <1>2
<1> HIDE DEF s, a, b, r, L
<1>10. /\ CarriedBy(StreamTags, s, 0) \o Shift(Below(<<>>, n) \o Below(Rebase(CarriedBy(StreamTags, a \o b, h), h), n), Len(s))
              = CarriedBy(StreamTags, s \o a, 0)
       /\ Beyond(Rebase(CarriedBy(StreamTags, a \o b, h), h), n) = CarriedBy(StreamTags, b, 0)
       /\ Beyond(<<>>, n) = <<>>
  <2>1. /\ AllTags(TagValues, StreamTags) /\ s \in Seq(Int) /\ a \in Seq(Int) /\ b \in Seq(Int) /\ n = Len(a) /\ h \in Int
    BY <1>3, <1>5, <1>6, StreamIs
  <2>2. Cuts(TagValues, StreamTags, s, a, b, n, h) BY <2>1 DEF Cuts
  <2> QED BY ONLY <2>2, CarriedTaken
<1>11. span'.tags = Carried(span'.items) BY <1>4, <1>6, <1>7, <1>8, <1>10, Zenon DEF Carried, t
<1>12. pending_items' = b
  <2>1. <<>> \o b = b BY <1>5, ConcatEmptySeq
  <2> QED BY <1>1, <2>1
<1>13. pending_tags' = Carried(pending_items')
  <2>1. CASE n < L BY <1>1, <1>8, <1>10, <1>12, <2>1, Zenon DEF Carried
  <2>2. CASE ~ (n < L)
    <3>1. b = <<>> BY <1>5, <1>9, <2>2
    <3> QED BY <1>1, <1>7, <1>10, <1>12, <2>2, <3>1, CarriedNothing, Zenon
  <2> QED BY <2>1, <2>2
<1> QED BY <1>11, <1>13

\* What is published takes its tags with it.
LEMMA ReturnTags ==
  ASSUME out \in Seq(Int), span.items \in Seq(Int), outTags = Carried(out), span.tags = Carried(span.items), Return
  PROVE  /\ outTags' = Carried(out') /\ span'.tags = Carried(span'.items)
         /\ outTags' = outTags \o CarriedBy(StreamTags, span.items, Len(out))
<1> DEFINE s == span.items
           n == Len(out)
<1>1. /\ out' = out \o s /\ outTags' = outTags \o Shift(span.tags, n) /\ span'.items = <<>> /\ span'.tags = <<>>
  BY DEF Return, NoSpan
<1>2. AllTags(TagValues, StreamTags) /\ out \in Seq(Int) /\ s \in Seq(Int) /\ Twice(0, n, n)
  <2>1. n \in Nat OBVIOUS
  <2> QED BY <2>1, StreamIs DEF Twice
<1> HIDE DEF s
<1>3. CarriedBy(StreamTags, out, 0) \o Shift(CarriedBy(StreamTags, s, 0), Len(out)) = CarriedBy(StreamTags, out \o s, 0)
  BY ONLY <1>2, CarriedBehind
<1> HIDE DEF n
<1>4. Shift(CarriedBy(StreamTags, s, 0), n) = CarriedBy(StreamTags, s, n) BY ONLY <1>2, CarriedShifted
<1>5. outTags' = Carried(out') BY <1>1, <1>3, Zenon DEF Carried, n, s
<1>6. outTags' = outTags \o CarriedBy(StreamTags, s, n) BY <1>1, <1>4, Zenon DEF Carried, s
<1> QED BY <1>1, <1>5, <1>6, CarriedNothing, Zenon DEF s, n

-----------------------------------------------------------------------------

\* A message of the sink has its tags, whoever counts them from where.
LEMMA ScalarsLabelled ==
  ASSUME position \in Int, NEW n \in Nat
  PROVE  Labelled(ScalarMessage(n))
<1> DEFINE a == Items(position, n)
           x == Collected(position, n)
           y == Shift(Collected(position, n), position)
<1>1. x = CarriedBy(StreamTags, a, 0) /\ y = CarriedBy(StreamTags, a, position) BY CollectedIs DEF Carried
<1> HIDE DEF a, x, y
<1>2. CASE absolute
  <2>1. ScalarMessage(n) = Message(a, y, position) BY <1>2 DEF ScalarMessage, a, y
  <2> QED BY <1>1, <2>1 DEF Labelled, Message
<1>3. CASE ~ absolute
  <2>1. ScalarMessage(n) = Message(a, x, 0) BY <1>3 DEF ScalarMessage, a, x
  <2> QED BY <1>1, <2>1 DEF Labelled, Message
<1> QED BY <1>2, <1>3

LEMMA TagStep == StreamInv /\ TagInv /\ [Next]_vars => TagInv'
<1> SUFFICES ASSUME StreamInv, TagInv, [Next]_vars, kind' = "scalar" PROVE TagInv' BY DEF TagInv
<1> DEFINE Sources == outTags = Carried(out) /\ span.tags = Carried(span.items) /\ pending_tags = Carried(pending_items)
           InPipe == \A i \in DOMAIN pipe : Labelled(pipe[i])
<1>1. kind = "scalar"
  <2>1. UNCHANGED kind
    BY DEF Next, vars, Sink, Poll, Join, SendScalars, BeginSpan, SendItem, SendRefused, Stranger, BeginCall, Receive,
           ReceiveBad, EndCall, OpenSpan, Take, Return, Throw, sourceVars
  <2> QED BY <2>1
<1>2. Sources /\ sinkSpan = NoItems /\ InPipe BY <1>1 DEF TagInv
<1>3. /\ span.room \in Nat /\ span.items \in Seq(Int) /\ pending_items \in Seq(Int) /\ out \in Seq(Int)
      /\ position \in Nat /\ Messages(pipe) /\ (roomLeft > 0 => pending_items = <<>>)
  BY DEF StreamInv
<1>4. pipe \in Seq(ToSet(pipe)) BY <1>3 DEF Messages
<1>5. SUFFICES Sources' /\ sinkSpan' = NoItems /\ InPipe' BY DEF TagInv
<1>6. UNCHANGED <<out, outTags, span, pending_items, pending_tags>> => Sources' BY <1>2
<1>7. UNCHANGED pipe => InPipe' BY <1>2
<1> HIDE DEF Sources, InPipe
<1>8. ASSUME NEW m, Labelled(m), pipe' = Append(pipe, m) PROVE InPipe'
  <2>1. \A i \in DOMAIN Append(pipe, m) : Labelled(Append(pipe, m)[i]) BY <1>2, <1>4, <1>8, LabelledBehind DEF InPipe
  <2> QED BY <1>8, <2>1 DEF InPipe
<1>9. ASSUME NEW m, Incoming(m)
      PROVE  /\ Labelled(m) /\ m.items \in Seq(Int) /\ InPipe' /\ UNCHANGED sinkSpan
             /\ roomLeft > 0 /\ pending_items = <<>>
  <2>1. roomLeft > 0 /\ pipe # <<>> /\ m = Head(pipe) /\ pipe' = Tail(pipe) /\ UNCHANGED sinkSpan
    BY <1>9 DEF Incoming, sinkVars
  <2>2. Labelled(Head(pipe)) /\ \A i \in DOMAIN Tail(pipe) : Labelled(Tail(pipe)[i])
    BY <1>2, <1>4, <2>1, LabelledAfter DEF InPipe
  <2>3. m.items \in Seq(Int) BY <1>3, <2>1, PipeTail
  <2> QED BY <1>3, <2>1, <2>2, <2>3 DEF InPipe
<1>10. ASSUME Return PROVE Sources'
  <2>1. /\ outTags' = Carried(out') /\ span'.tags = Carried(span'.items)
        /\ UNCHANGED <<pending_items, pending_tags>>
    BY <1>2, <1>3, <1>10, ReturnTags DEF Sources, Return
  <2> QED BY <1>2, <2>1 DEF Sources
<1>11. CASE Join BY <1>2, <1>6, <1>7, <1>11 DEF Join, sourceVars, sinkVars
<1>12. CASE SendScalars
  <2>1. PICK n \in 1 .. MaxSpan : Send(ScalarMessage(n)) /\ UNCHANGED <<sourceVars, sinkSpan>>
    BY <1>12 DEF SendScalars
  <2>2. Labelled(ScalarMessage(n)) BY <1>3, ScalarsLabelled
  <2>3. pipe' = Append(pipe, ScalarMessage(n)) \/ pipe' = pipe BY <2>1 DEF Send
  <2>4. InPipe' BY <1>7, <1>8, <2>2, <2>3
  <2> QED BY <1>2, <1>6, <2>1, <2>4 DEF sourceVars
<1>13. CASE BeginSpan \/ SendItem \/ SendRefused
  <2>1. NoItems.left = 0 BY DEF NoItems
  <2> QED BY <1>1, <1>2, <1>13, <2>1 DEF BeginSpan, SendItem, SendRefused
<1>14. CASE Stranger
  <2>1. PICK d \in Defects : pipe' = Append(pipe, Defective(d)) /\ UNCHANGED <<sourceVars, sinkVars>>
    BY <1>14 DEF Stranger
  <2>2. Labelled(Defective(d))
    <3>1. CarriedBy(StreamTags, <<>>, 0) = <<>> BY CarriedNone
    <3> QED BY <3>1 DEF Labelled, Defective
  <2>3. InPipe' BY <1>8, <2>1, <2>2
  <2> QED BY <1>2, <1>6, <2>1, <2>3 DEF sourceVars, sinkVars
<1>15. CASE BeginCall
  <2>1. PICK n \in 1 .. MaxRoom : OpenSpan(n) /\ UNCHANGED <<sinkVars, pipe>> BY <1>15 DEF BeginCall
  <2>2. span'.tags = Carried(span'.items) /\ pending_tags' = Carried(pending_items')
    BY <1>2, <1>3, <2>1, OpenTags DEF Sources
  <2>3. UNCHANGED <<out, outTags>> BY <2>1 DEF OpenSpan
  <2>4. Sources' BY <1>2, <2>2, <2>3 DEF Sources
  <2> QED BY <1>2, <1>7, <2>1, <2>4 DEF sinkVars
<1>16. CASE Receive
  <2>1. PICK m : Incoming(m) /\ TakeScalars(m) /\ UNCHANGED <<out, outTags>> BY <1>1, <1>16 DEF Receive, Take
  <2>2. span'.tags = Carried(span'.items) /\ pending_tags' = Carried(pending_items')
    BY <1>2, <1>3, <1>9, <2>1, TakeTags DEF Sources
  <2>3. Sources' BY <1>2, <2>1, <2>2 DEF Sources
  <2> QED BY <1>2, <1>9, <2>1, <2>3
<1>17. CASE ReceiveBad
  <2>1. PICK m : Incoming(m) /\ (Return \/ Throw) BY <1>17 DEF ReceiveBad
  <2>2. ASSUME Throw PROVE Sources'
    <3>1. span'.items = <<>> /\ span'.tags = <<>> /\ UNCHANGED <<pending_items, pending_tags, out, outTags>>
      BY <2>2 DEF Throw, NoSpan
    <3>2. span'.tags = Carried(span'.items) BY <3>1, CarriedNothing, Zenon
    <3> QED BY <1>2, <3>1, <3>2 DEF Sources
  <2> QED BY <1>2, <1>9, <1>10, <2>1, <2>2
<1>18. CASE EndCall BY <1>2, <1>7, <1>10, <1>18 DEF EndCall, sinkVars
<1>19. CASE UNCHANGED vars BY <1>2, <1>6, <1>7, <1>19 DEF vars, sourceVars, sinkVars
<1> QED BY <1>11, <1>12, <1>13, <1>14, <1>15, <1>16, <1>17, <1>18, <1>19 DEF Next, Sink, Poll

-----------------------------------------------------------------------------

LEMMA TagsOnIs == ASSUME NEW x, NEW b PROVE Promise!TagsOn(x, b) = CarriedBy(StreamTags, x, b)
  BY Zenon DEF Promise!TagsOn, Promise!CarriedBy, Promise!FlattenSeq, Promise!OnItem, Promise!MovedTo, Promise!TagsAt,
               Promise!Within, FlattenSeq, OnItem, MovedTo, TagsAt, Within, CarriedBy

\* What is published rises.
LEMMA PublishedRises == StreamInv => \A i \in 1 .. Len(out) - 1 : out[i] < out[i + 1]
<1> SUFFICES ASSUME StreamInv PROVE \A i \in 1 .. Len(out) - 1 : out[i] < out[i + 1] OBVIOUS
<1> DEFINE s == span.items
           w == OnTheWay(pipe)
           y == s \o pending_items \o w
<1>1. out \in Seq(Int) /\ s \in Seq(Int) /\ pending_items \in Seq(Int) /\ w \in Seq(Int)
  BY PipeType DEF StreamInv
<1>2. Rising(out \o s \o pending_items \o w, position) BY DEF StreamInv, Everything, Received
<1> HIDE DEF s, w
<1>3. out \o s \o pending_items \o w = out \o y /\ y \in Seq(Int)
  <2>1. Four(Int, out, s, pending_items, w) BY <1>1 DEF Four
  <2> QED BY ONLY <2>1, Regrouped
<1> HIDE DEF y
<1>4. Rising(out \o y, position) BY <1>2, <1>3
<1> QED BY <1>1, <1>3, <1>4, RisingFront

LEMMA PublishedRisesNext == (StreamInv => \A i \in 1 .. Len(out) - 1 : out[i] < out[i + 1])'
  BY PublishedRises, PTL

\* Items that are published with their tags are delivered.
LEMMA Delivered ==
  ASSUME kind = "scalar", kind' = "scalar", out \in Seq(Int), NEW s \in Seq(Int), s # <<>>, out' = out \o s,
         \A i \in 1 .. Len(out') - 1 : out'[i] < out'[i + 1],
         outTags' = outTags \o CarriedBy(StreamTags, s, Len(out))
  PROVE  Promise!Deliver
<1>1. IsStrictPrefix(out, out') /\ SubSeq(out', Len(out) + 1, Len(out')) = s BY Longer
<1>2. Promise!IsStrictPrefix(out, out') BY <1>1 DEF Promise!IsStrictPrefix, Promise!IsPrefix, IsStrictPrefix, IsPrefix
<1>3. Promise!InOrder(out') BY DEF Promise!InOrder
<1>4. outTags' = outTags \o Promise!TagsOn(SubSeq(out', Len(out) + 1, Len(out')), Len(out)) BY <1>1, TagsOnIs, Zenon
<1>5. /\ (IF kind = "scalar" THEN out ELSE <<>>) = out /\ (IF kind' = "scalar" THEN out' ELSE <<>>) = out'
      /\ (IF kind = "scalar" THEN outTags ELSE <<>>) = outTags
      /\ (IF kind' = "scalar" THEN outTags' ELSE <<>>) = outTags'
  OBVIOUS
<1> QED BY <1>2, <1>3, <1>4, <1>5, Zenon DEF Promise!Deliver

LEMMA DeliverInit == Init => Promise!Init
  BY DEF Init, SourceInit, Promise!Init

LEMMA DeliverStep == StreamInv /\ StreamInv' /\ TagInv /\ [Next]_vars => [Promise!Deliver]_(Promise!vars)
<1> SUFFICES ASSUME StreamInv, StreamInv', TagInv, [Next]_vars, ~ UNCHANGED Promise!vars
             PROVE  Promise!Deliver
  OBVIOUS
<1>1. kind' = kind
  BY DEF Next, vars, Sink, Poll, Join, SendScalars, BeginSpan, SendItem, SendRefused, Stranger, BeginCall, Receive,
         ReceiveBad, EndCall, OpenSpan, Take, Return, Throw, sourceVars
<1>2. kind = "scalar" BY <1>1 DEF Promise!vars
<1>3. ~ UNCHANGED <<out, outTags>> BY <1>1 DEF Promise!vars
<1>4. Return
  BY <1>3 DEF Next, vars, Sink, Poll, Join, SendScalars, BeginSpan, SendItem, SendRefused, Stranger, BeginCall, Receive,
         ReceiveBad, EndCall, OpenSpan, Take, Throw, sourceVars
<1> DEFINE s == span.items
<1>5. out' = out \o s BY <1>4 DEF Return
<1>6. out \in Seq(Int) /\ s \in Seq(Int) BY DEF StreamInv
<1>7. outTags = Carried(out) /\ span.tags = Carried(s) BY <1>2 DEF TagInv
<1>8. outTags' = outTags \o CarriedBy(StreamTags, s, Len(out)) BY <1>4, <1>6, <1>7, ReturnTags
<1>9. s # <<>>
  <2>1. SUFFICES ASSUME s = <<>> PROVE UNCHANGED <<out, outTags>> BY <1>3
  <2>2. outTags \in Seq(TagsWith(TagValues))
    <3>1. 0 \in Int OBVIOUS
    <3>2. Carried(out) \in Seq(TagsWith(TagValues)) BY <1>6, <3>1, StreamIs, CarriedType DEF Carried
    <3> QED BY <1>7, <3>2
  <2>3. CarriedBy(StreamTags, s, Len(out)) = <<>> BY <2>1, CarriedNone
  <2>4. out \o <<>> = out /\ outTags \o <<>> = outTags BY <1>6, <2>2, ConcatEmptySeq
  <2> QED BY <1>5, <1>8, <2>1, <2>3, <2>4
<1>10. \A i \in 1 .. Len(out') - 1 : out'[i] < out'[i + 1] BY PublishedRisesNext
<1> HIDE DEF s
<1> QED BY <1>1, <1>2, <1>5, <1>6, <1>8, <1>9, <1>10, Delivered

\* A stream of scalars comes out of the source in its order, each item once at
\* most, and every tag once and on the item it was on: whatever messages and
\* spans are cut to, dropped, refused or malformed, and wherever the sender
\* counts its tags from.
THEOREM ScalarsKeepTheirTags == Spec => TaggedStreamSafety
<1> QED BY StreamInit, StreamStep, TagInit, TagStep, DeliverInit, DeliverStep, PTL
        DEF Spec, TaggedStreamSafety, Promise!Spec
=============================================================================

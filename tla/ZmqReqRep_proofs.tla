-------------------------- MODULE ZmqReqRep_proofs --------------------------
(***************************************************************************)
(* What is proved about request and reply: every request of the source is  *)
(* in one place, every item the sinks have consumed goes to one client,    *)
(* and every tag stays on its item: for every stream, tags, sizes of       *)
(* spans, requests of others and number of restarts.                       *)
(***************************************************************************)
EXTENDS ZmqReqRep, CommonLemmas

\* The source's request is alone among those on their way.
OneAsks(r) ==
  /\ r \in Seq(ToSet(r))
  /\ \A i, j \in DOMAIN r : r[i].client = "source" /\ r[j].client = "source" => i = j

\* What is asked for is a number.
Counts(r) == r \in Seq(ToSet(r)) /\ \A i \in DOMAIN r : r[i].count \in Nat

\* Where the request can be excludes the other places, and it is in one of them
\* if and only if the source waits and may still be answered.
LinkInv ==
  /\ OneAsks(requests)
  /\ reply \in Seq(ToSet(reply)) /\ Len(reply) <= 1
  /\ _req_pending \in BOOLEAN /\ lost.answer \in BOOLEAN /\ (lost.answer => _req_pending)
  /\ Asked(requests) => reply = <<>> /\ owes # "source"
  /\ reply # <<>> => owes # "source"
  /\ Asked(requests) \/ reply # <<>> \/ owes = "source" <=> _req_pending /\ ~ lost.answer

Ascends(s) == \A i \in 1 .. Len(s) - 1 : s[i] < s[i + 1]

\* What is held is the newest of p items; of what is older each one is taken,
\* elsewhere or gone, once, and those taken are in order.
Split(taken, other, gone, held, p) ==
  /\ taken \in Seq(Int) /\ other \in Seq(Int) /\ gone \in Seq(Int) /\ held \in Seq(Int) /\ p \in Nat
  /\ Len(taken) + Len(other) + Len(gone) + Len(held) = p
  /\ ToSet(taken) \cup ToSet(other) \cup ToSet(gone) = 0 .. p - Len(held) - 1
  /\ held = Numbers(p - Len(held), Len(held))
  /\ Ascends(taken)

\* Between calls there is no span, while there is room in one nothing is
\* retained, and the items are split among the clients.
SplitInv ==
  /\ span.room \in Nat /\ span.items \in Seq(Int) /\ (span.room = 0 => span.items = <<>>)
  /\ pending_items \in Seq(Int) /\ out \in Seq(Int)
  /\ roomLeft > 0 => pending_items = <<>>
  /\ Messages(reply) /\ Counts(requests)
  /\ Split(Received \o OnTheWay(reply), elsewhere, lost.items, rep_items, position)

-----------------------------------------------------------------------------

\* A request comes behind the others, leaves at the front, and the first k go.
LEMMA AnotherAsks ==
  ASSUME NEW r, r \in Seq(ToSet(r)), NEW x
  PROVE  /\ Asked(Append(r, x)) <=> Asked(r) \/ x.client = "source"
         /\ OneAsks(r) /\ (x.client = "source" => ~ Asked(r)) => OneAsks(Append(r, x))
         /\ Counts(r) /\ x.count \in Nat => Counts(Append(r, x))
<1> DEFINE n == Len(r)
           q == Append(r, x)
<1>1. /\ n \in Nat /\ DOMAIN r = 1 .. n /\ q \in Seq(ToSet(r) \cup {x}) /\ DOMAIN q = 1 .. n + 1
      /\ q[n + 1] = x /\ \A i \in 1 .. n : q[i] = r[i]
  OBVIOUS
<1> HIDE DEF n, q
<1>2. q \in Seq(ToSet(q)) BY <1>1 DEF ToSet
<1>3. \A i \in 1 .. n + 1 : i = n + 1 \/ i \in 1 .. n BY <1>1
<1>4. Asked(q) <=> Asked(r) \/ x.client = "source"
  <2>1. ASSUME Asked(q) PROVE Asked(r) \/ x.client = "source" BY <1>1, <1>3, <2>1 DEF Asked
  <2>2. ASSUME Asked(r) PROVE Asked(q)
    <3>1. PICK i \in 1 .. n : r[i].client = "source" BY <1>1, <2>2 DEF Asked
    <3>2. i \in 1 .. n + 1 BY <1>1
    <3> QED BY <1>1, <3>1, <3>2 DEF Asked
  <2>3. ASSUME x.client = "source" PROVE Asked(q)
    <3>1. n + 1 \in 1 .. n + 1 BY <1>1
    <3> QED BY <1>1, <2>3, <3>1 DEF Asked
  <2> QED BY <2>1, <2>2, <2>3
<1>5. OneAsks(r) /\ (x.client = "source" => ~ Asked(r)) => OneAsks(q)
  <2>1. ASSUME OneAsks(r), x.client = "source" => ~ Asked(r),
               NEW i \in 1 .. n + 1, NEW j \in 1 .. n + 1, q[i].client = "source", q[j].client = "source"
        PROVE  i = j
    <3>1. CASE x.client = "source"
      <4>1. \A l \in 1 .. n : r[l].client # "source" BY <1>1, <2>1, <3>1 DEF Asked
      <4>2. i = n + 1 /\ j = n + 1 BY <1>1, <1>3, <2>1, <4>1
      <4> QED BY <4>2
    <3>2. CASE x.client # "source"
      <4>1. i \in 1 .. n /\ j \in 1 .. n BY <1>1, <1>3, <2>1, <3>2
      <4> QED BY <1>1, <2>1, <4>1 DEF OneAsks
    <3> QED BY <3>1, <3>2
  <2> QED BY <1>1, <1>2, <2>1 DEF OneAsks
<1>6. Counts(r) /\ x.count \in Nat => Counts(q) BY <1>1, <1>2, <1>3 DEF Counts
<1> QED BY <1>4, <1>5, <1>6 DEF q

LEMMA FewerAsk ==
  ASSUME NEW r, r \in Seq(ToSet(r)), NEW k \in 0 .. Len(r)
  PROVE  /\ Asked(SubSeq(r, k + 1, Len(r))) => Asked(r)
         /\ OneAsks(r) => OneAsks(SubSeq(r, k + 1, Len(r)))
         /\ Counts(r) => Counts(SubSeq(r, k + 1, Len(r)))
<1> DEFINE n == Len(r)
           q == SubSeq(r, k + 1, n)
<1>1. n \in Nat /\ DOMAIN r = 1 .. n /\ k \in 0 .. n OBVIOUS
<1>2. q \in Seq(ToSet(r)) /\ Len(q) = n - k /\ DOMAIN q = 1 .. n - k OBVIOUS
<1>3. ASSUME NEW i \in 1 .. n - k PROVE i + k \in 1 .. n /\ q[i] = r[i + k]
  <2>1. i + k \in 1 .. n BY <1>1
  <2>2. q[i] = r[i + k] OBVIOUS
  <2> QED BY <2>1, <2>2
<1> HIDE DEF n, q
<1>4. q \in Seq(ToSet(q)) BY <1>1, <1>2 DEF ToSet
<1>5. Asked(q) => Asked(r) BY <1>1, <1>2, <1>3 DEF Asked
<1>6. OneAsks(r) => OneAsks(q)
  <2>1. ASSUME OneAsks(r), NEW i \in 1 .. n - k, NEW j \in 1 .. n - k,
               q[i].client = "source", q[j].client = "source"
        PROVE  i = j
    <3>1. i + k = j + k BY <1>1, <1>3, <2>1 DEF OneAsks
    <3> QED BY <1>1, <3>1
  <2> QED BY <1>2, <1>4, <2>1 DEF OneAsks
<1>7. Counts(r) => Counts(q) BY <1>1, <1>2, <1>3, <1>4 DEF Counts
<1> QED BY <1>5, <1>6, <1>7 DEF n, q

LEMMA FirstServed ==
  ASSUME NEW r, r \in Seq(ToSet(r)), r # <<>>
  PROVE  /\ Asked(r) <=> Asked(Tail(r)) \/ Head(r).client = "source"
         /\ OneAsks(r) => OneAsks(Tail(r)) /\ ~ (Asked(Tail(r)) /\ Head(r).client = "source")
         /\ Counts(r) => Counts(Tail(r)) /\ Head(r).count \in Nat
<1> DEFINE n == Len(r)
           q == Tail(r)
           h == Head(r)
<1>1. n \in Nat \ {0} /\ DOMAIN r = 1 .. n /\ h = r[1] OBVIOUS
<1>2. q \in Seq(ToSet(r)) /\ Len(q) = n - 1 /\ DOMAIN q = 1 .. n - 1 OBVIOUS
<1>3. ASSUME NEW i \in 1 .. n - 1 PROVE i + 1 \in 1 .. n /\ q[i] = r[i + 1]
  <2>1. i + 1 \in 1 .. n BY <1>1
  <2>2. q[i] = r[i + 1] OBVIOUS
  <2> QED BY <2>1, <2>2
<1> HIDE DEF n, q, h
<1>4. q \in Seq(ToSet(q)) BY <1>1, <1>2 DEF ToSet
<1>5. 1 \in 1 .. n BY <1>1
<1>6. Asked(r) => Asked(q) \/ h.client = "source"
  <2>1. ASSUME NEW i \in 1 .. n, r[i].client = "source", h.client # "source" PROVE Asked(q)
    <3>1. i # 1 BY <1>1, <2>1
    <3> DEFINE j == i - 1
    <3>2. j \in 1 .. n - 1 /\ j + 1 = i BY <1>1, <3>1
    <3> HIDE DEF j
    <3>3. q[j] = r[i] BY <1>3, <3>2
    <3> QED BY <1>2, <2>1, <3>2, <3>3 DEF Asked
  <2> QED BY <1>1, <2>1 DEF Asked
<1>7. Asked(q) \/ h.client = "source" => Asked(r) BY <1>1, <1>2, <1>3, <1>5 DEF Asked
<1>8. OneAsks(r) => OneAsks(q) /\ ~ (Asked(q) /\ h.client = "source")
  <2>1. ASSUME OneAsks(r), NEW i \in 1 .. n - 1, NEW j \in 1 .. n - 1,
               q[i].client = "source", q[j].client = "source"
        PROVE  i = j
    <3>1. i + 1 = j + 1 BY <1>1, <1>3, <2>1 DEF OneAsks
    <3> QED BY <1>1, <3>1
  <2>2. ASSUME OneAsks(r), NEW i \in 1 .. n - 1, q[i].client = "source", h.client = "source" PROVE FALSE
    <3>1. i + 1 = 1 BY <1>1, <1>3, <1>5, <2>2 DEF OneAsks
    <3> QED BY <1>1, <3>1
  <2> QED BY <1>2, <1>4, <2>1, <2>2 DEF OneAsks, Asked
<1>9. Counts(r) => Counts(q) /\ h.count \in Nat BY <1>1, <1>2, <1>3, <1>4, <1>5 DEF Counts
<1> QED BY <1>6, <1>7, <1>8, <1>9 DEF q, h

-----------------------------------------------------------------------------

LEMMA NoneOrOne == ASSUME NEW n \in Nat, n <= 1 PROVE n = 0 \/ n = 1
  OBVIOUS

LEMMA LinkInit == Init => LinkInv
<1> SUFFICES ASSUME Init PROVE LinkInv OBVIOUS
<1>1. requests = <<>> /\ reply = <<>> /\ _req_pending = FALSE /\ owes = "nobody" /\ lost.answer = FALSE
  BY DEF Init
<1>2. <<>> \in Seq(ToSet(<<>>)) /\ DOMAIN <<>> = {} /\ Len(<<>>) = 0 OBVIOUS
<1>3. OneAsks(requests) /\ ~ Asked(requests) BY <1>1, <1>2 DEF OneAsks, Asked
<1>4. reply \in Seq(ToSet(reply)) /\ Len(reply) <= 1 BY <1>1, <1>2
<1>5. "nobody" # "source" OBVIOUS
<1> QED BY <1>1, <1>3, <1>4, <1>5, Zenon DEF LinkInv

LEMMA LinkStep == LinkInv /\ [Next]_vars => LinkInv'
<1> SUFFICES ASSUME LinkInv, [Next]_vars PROVE LinkInv' OBVIOUS
<1>1. /\ OneAsks(requests) /\ requests \in Seq(ToSet(requests))
      /\ reply \in Seq(ToSet(reply)) /\ Len(reply) <= 1 /\ Len(reply) \in Nat
      /\ (reply = <<>> <=> Len(reply) = 0)
      /\ _req_pending \in BOOLEAN /\ lost.answer \in BOOLEAN /\ (lost.answer => _req_pending)
      /\ Asked(requests) => reply = <<>> /\ owes # "source"
      /\ reply # <<>> => owes # "source"
      /\ Asked(requests) \/ reply # <<>> \/ owes = "source" <=> _req_pending /\ ~ lost.answer
  <2>1. reply \in Seq(ToSet(reply)) BY DEF LinkInv
  <2>2. Len(reply) \in Nat /\ (reply = <<>> <=> Len(reply) = 0) BY <2>1, EmptySeq
  <2> QED BY <2>2 DEF LinkInv, OneAsks
<1>2. <<>> \in Seq(ToSet(<<>>)) /\ Len(<<>>) = 0 OBVIOUS
<1>3. ASSUME UNCHANGED <<_req_pending, owes, requests, reply, lost>> PROVE LinkInv'
  BY <1>3 DEF LinkInv
<1>4. CASE BeginReq \/ EndReq \/ BeginRep \/ EndRep \/ UNCHANGED vars
  <2>1. UNCHANGED <<_req_pending, owes, requests, reply, lost>>
    BY <1>4 DEF BeginReq, EndReq, BeginRep, EndRep, vars, sinkVars, linkVars, faultVars
  <2> QED BY <1>3, <2>1
<1>5. CASE Request
  <2> DEFINE x == [client |-> "source", count |-> request_count_for(roomLeft)]
  <2>1. /\ ~ _req_pending /\ requests' = Append(requests, x) /\ _req_pending' = TRUE
        /\ UNCHANGED <<owes, reply, lost>>
    BY <1>5 DEF Request, sinkVars, faultVars
  <2>2. x.client = "source" OBVIOUS
  <2> HIDE DEF x
  <2>3. ~ Asked(requests) /\ reply = <<>> /\ owes # "source" /\ ~ lost.answer BY <1>1, <2>1
  <2>4. Asked(requests') /\ OneAsks(requests') BY <1>1, <2>1, <2>2, <2>3, AnotherAsks
  <2> QED BY <1>1, <2>1, <2>3, <2>4 DEF LinkInv
<1>6. CASE Receive
  <2>1. /\ _req_pending /\ reply # <<>> /\ reply' = Tail(reply) /\ _req_pending' = FALSE
        /\ UNCHANGED <<owes, requests, lost>>
    BY <1>6 DEF Receive, sinkVars, faultVars
  <2>2. reply' = <<>>
    <3>1. Len(reply) = 1
      <4>1. Len(reply) \in Nat /\ Len(reply) # 0 /\ Len(reply) <= 1 BY <1>1, <2>1
      <4> QED BY ONLY <4>1, NoneOrOne
    <3>2. reply' \in Seq(ToSet(reply)) /\ Len(reply') = 0 BY <1>1, <2>1, <3>1, HeadTailProperties
    <3> QED BY <3>2, EmptySeq
  <2>3. ~ Asked(requests) /\ owes # "source" /\ ~ lost.answer BY <1>1, <2>1
  <2>4. ~ Asked(requests') /\ owes' # "source" /\ ~ lost'.answer /\ ~ _req_pending' BY <2>1, <2>3
  <2>5. OneAsks(requests') /\ lost'.answer \in BOOLEAN /\ _req_pending' \in BOOLEAN BY <1>1, <2>1
  <2>6. reply' \in Seq(ToSet(reply')) /\ Len(reply') <= 1 BY <1>2, <2>2
  <2> QED BY ONLY <2>2, <2>4, <2>5, <2>6, Zenon DEF LinkInv
<1>7. CASE Serve \/ ServeNothing
  <2>1. requests # <<>> /\ owes = "nobody" /\ requests' = Tail(requests) /\ UNCHANGED <<_req_pending, lost>>
    BY <1>7 DEF Serve, ServeNothing, readable, faultVars
  <2> DEFINE client == Head(requests).client
  <2>2. /\ Asked(requests) <=> Asked(requests') \/ client = "source"
        /\ OneAsks(requests') /\ ~ (Asked(requests') /\ client = "source")
    BY <1>1, <2>1, FirstServed
  <2>3. \/ owes' = owes /\ client # "source" /\ reply' = reply
        \/ owes' = owes /\ client = "source" /\ \E m : reply' = Append(reply, m)
        \/ owes' = client /\ reply' = reply
    <3>1. CASE Serve
      <4>1. SendReply(client, nsend(Head(requests).count)) /\ owes' = owes BY <3>1 DEF Serve
      <4> HIDE DEF client
      <4> QED BY <4>1 DEF SendReply
    <3>2. CASE ServeNothing BY <3>2 DEF ServeNothing
    <3> QED BY <1>7, <3>1, <3>2
  <2> HIDE DEF client
  <2>4. CASE owes' = owes /\ client # "source" /\ reply' = reply BY <1>1, <2>1, <2>2, <2>4 DEF LinkInv
  <2>5. CASE owes' = owes /\ client = "source" /\ \E m : reply' = Append(reply, m)
    <3>1. Asked(requests) /\ reply = <<>> /\ ~ Asked(requests') BY <1>1, <2>2, <2>5
    <3>2. PICK m : reply' = Append(<<>>, m) BY <2>5, <3>1
    <3>3. Append(<<>>, m) = <<m>> OBVIOUS
    <3>4. reply' = <<m>> BY <3>2, <3>3
    <3>5. reply' \in Seq(ToSet(reply')) /\ Len(reply') = 1 /\ reply' # <<>>
      <4>1. <<m>> \in Seq({m}) /\ Len(<<m>>) = 1 /\ DOMAIN <<m>> = {1} /\ <<m>>[1] = m /\ <<m>> # <<>> OBVIOUS
      <4>2. ToSet(<<m>>) = {m} BY <4>1 DEF ToSet
      <4> QED BY <3>4, <4>1, <4>2
    <3> QED BY <1>1, <2>1, <2>2, <2>5, <3>1, <3>5 DEF LinkInv
  <2>6. CASE owes' = client /\ reply' = reply BY <1>1, <2>1, <2>2, <2>6 DEF LinkInv
  <2> QED BY <2>3, <2>4, <2>5, <2>6
<1>8. CASE OtherRequest
  <2>1. PICK n \in OtherCounts : requests' = Append(requests, [client |-> "other", count |-> n])
    BY <1>8 DEF OtherRequest
  <2>2. UNCHANGED <<_req_pending, owes, reply, lost>> BY <1>8 DEF OtherRequest, sinkVars, faultVars
  <2> DEFINE x == [client |-> "other", count |-> n]
  <2>3. x.client # "source" OBVIOUS
  <2>4. requests' = Append(requests, x) BY <2>1
  <2> HIDE DEF x
  <2>5. (Asked(requests') <=> Asked(requests)) /\ OneAsks(requests') BY <1>1, <2>3, <2>4, AnotherAsks
  <2> QED BY <1>1, <2>2, <2>5 DEF LinkInv
<1>9. CASE SinkRestart
  <2>1. PICK k \in 0 .. Len(requests) : requests' = SubSeq(requests, k + 1, Len(requests))
    BY <1>9 DEF SinkRestart
  <2>2. (Asked(requests') => Asked(requests)) /\ OneAsks(requests') BY <1>1, <2>1, FewerAsk
  <2>3. /\ owes' = "nobody" /\ (reply' = reply \/ reply' = <<>>) /\ UNCHANGED _req_pending
        /\ lost' = [items  |-> lost.items \o (IF reply' = <<>> THEN InReply ELSE <<>>) \o rep_items,
                    answer |-> _req_pending /\ reply' = <<>> /\ ~ Asked(requests')]
    BY <1>9 DEF SinkRestart
  <2>4. lost'.answer = (_req_pending /\ reply' = <<>> /\ ~ Asked(requests')) BY <2>3
  <2>5. Asked(requests') => reply' = <<>> /\ _req_pending BY <1>1, <2>2, <2>3
  <2>6. reply' # <<>> => _req_pending BY <1>1, <2>3
  <2>7. reply' \in Seq(ToSet(reply')) /\ Len(reply') <= 1
    <3>1. 0 <= 1 OBVIOUS
    <3>2. CASE reply' = reply BY <1>1, <3>2
    <3>3. CASE reply' = <<>> BY <1>2, <3>1, <3>3
    <3> QED BY <2>3, <3>2, <3>3
  <2> QED BY ONLY <1>1, <2>2, <2>3, <2>4, <2>5, <2>6, <2>7 DEF LinkInv
<1> QED BY <1>4, <1>5, <1>6, <1>7, <1>8, <1>9 DEF Next

\* Whatever other clients ask, and whenever sinks end, there is one request of
\* the source as long as it waits for an answer that may still come.
THEOREM AnswersWillFit == Spec => []OneRequestOutstanding
<1>1. LinkInv => OneRequestOutstanding
  <2> SUFFICES ASSUME LinkInv PROVE OneRequestOutstanding OBVIOUS
  <2> DEFINE asks == {i \in DOMAIN requests : requests[i].client = "source"}
  <2>1. Cardinality(asks) = IF Asked(requests) THEN 1 ELSE 0
    <3>1. CASE Asked(requests)
      <4>1. PICK i \in DOMAIN requests : requests[i].client = "source" BY <3>1 DEF Asked
      <4>2. asks = {i} BY <4>1 DEF LinkInv, OneAsks
      <4> QED BY <3>1, <4>2, FS_Singleton
    <3>2. CASE ~ Asked(requests)
      <4>1. asks = {} BY <3>2 DEF Asked
      <4> QED BY <3>2, <4>1, FS_EmptySet
    <3> QED BY <3>1, <3>2
  <2>2. Len(reply) = IF reply = <<>> THEN 0 ELSE 1
    <3>1. reply \in Seq(ToSet(reply)) /\ Len(reply) <= 1 BY DEF LinkInv
    <3>2. (reply = <<>> <=> Len(reply) = 0) /\ Len(reply) \in Nat BY <3>1, EmptySeq
    <3>3. Len(reply) = 0 \/ Len(reply) = 1
      <4>1. Len(reply) \in Nat /\ Len(reply) <= 1 BY <3>1, <3>2
      <4> QED BY ONLY <4>1, NoneOrOne
    <3> QED BY <3>2, <3>3
  <2> HIDE DEF asks
  <2>3. Cardinality(asks) + Len(reply) + (IF owes = "source" THEN 1 ELSE 0)
          = (IF _req_pending /\ ~ lost.answer THEN 1 ELSE 0)
    BY <2>1, <2>2 DEF LinkInv
  <2> QED BY <2>3 DEF OneRequestOutstanding, asks
<1> QED BY <1>1, LinkInit, LinkStep, PTL DEF Spec

-----------------------------------------------------------------------------

\* What is in two sequences, and whether they ascend.
LEMMA InBoth ==
  ASSUME NEW S, NEW a \in Seq(S), NEW b \in Seq(S)
  PROVE  ToSet(a \o b) = ToSet(a) \cup ToSet(b)
<1> DEFINE c == a \o b
<1>1. /\ Len(a) \in Nat /\ DOMAIN a = 1 .. Len(a) /\ Len(b) \in Nat /\ DOMAIN b = 1 .. Len(b)
      /\ DOMAIN c = 1 .. Len(a) + Len(b)
  OBVIOUS
<1>2. /\ \A i \in 1 .. Len(a) : c[i] = a[i]
      /\ \A i \in Len(a) + 1 .. Len(a) + Len(b) : c[i] = b[i - Len(a)]
  BY Concatenation
<1> HIDE DEF c
<1>3. ASSUME NEW i \in 1 .. Len(a) + Len(b) PROVE c[i] \in ToSet(a) \cup ToSet(b)
  <2>1. CASE i <= Len(a)
    <3>1. i \in 1 .. Len(a) BY <1>1, <2>1
    <3> QED BY <1>1, <1>2, <3>1 DEF ToSet
  <2>2. CASE ~ (i <= Len(a))
    <3>1. i \in Len(a) + 1 .. Len(a) + Len(b) /\ i - Len(a) \in 1 .. Len(b) BY <1>1, <2>2
    <3> QED BY <1>1, <1>2, <3>1 DEF ToSet
  <2> QED BY <2>1, <2>2
<1>4. ASSUME NEW i \in 1 .. Len(a) PROVE a[i] \in ToSet(c)
  <2>1. i \in 1 .. Len(a) + Len(b) BY <1>1
  <2> QED BY <1>1, <1>2, <2>1 DEF ToSet
<1>5. ASSUME NEW i \in 1 .. Len(b) PROVE b[i] \in ToSet(c)
  <2> DEFINE j == i + Len(a)
  <2>1. j \in Len(a) + 1 .. Len(a) + Len(b) /\ j \in 1 .. Len(a) + Len(b) /\ j - Len(a) = i BY <1>1
  <2> HIDE DEF j
  <2>2. c[j] = b[i] BY <1>2, <2>1
  <2> QED BY <1>1, <2>1, <2>2 DEF ToSet
<1>6. ToSet(c) \subseteq ToSet(a) \cup ToSet(b) BY <1>1, <1>3 DEF ToSet
<1>7. ToSet(a) \subseteq ToSet(c) BY <1>1, <1>4 DEF ToSet
<1>8. ToSet(b) \subseteq ToSet(c) BY <1>1, <1>5 DEF ToSet
<1> QED BY <1>6, <1>7, <1>8 DEF c

LEMMA GoesOnAscending ==
  ASSUME NEW a \in Seq(Int), NEW b \in Seq(Int), Ascends(a), Ascends(b),
         \A x \in ToSet(a), y \in ToSet(b) : x < y
  PROVE  Ascends(a \o b)
<1> DEFINE c == a \o b
           n == Len(a)
           k == Len(b)
<1>1. n \in Nat /\ k \in Nat /\ DOMAIN a = 1 .. n /\ DOMAIN b = 1 .. k /\ Len(c) = n + k OBVIOUS
<1>2. (\A i \in 1 .. n : c[i] = a[i]) /\ \A i \in n + 1 .. n + k : c[i] = b[i - n] BY Concatenation
<1> HIDE DEF c, n, k
<1>3. ASSUME NEW i \in 1 .. n + k - 1 PROVE c[i] < c[i + 1]
  <2> DEFINE j == i + 1
  <2>0. j \in 1 .. n + k BY <1>1
  <2>1. CASE j <= n
    <3>1. i \in 1 .. n - 1 /\ i \in 1 .. n /\ j \in 1 .. n BY <1>1, <2>1
    <3>2. a[i] < a[j] BY <3>1 DEF Ascends, n
    <3> HIDE DEF j
    <3>3. c[i] < c[j] BY <1>2, <3>1, <3>2
    <3> QED BY <3>3 DEF j
  <2>2. CASE j = n + 1
    <3>1. i \in 1 .. n /\ j \in n + 1 .. n + k /\ j - n = 1 /\ 1 \in 1 .. k BY <1>1, <2>0, <2>2
    <3> HIDE DEF j
    <3>2. c[i] = a[i] /\ c[j] = b[1] BY <1>2, <3>1
    <3>3. a[i] \in ToSet(a) /\ b[1] \in ToSet(b) BY <1>1, <3>1 DEF ToSet
    <3>4. c[i] < c[j] BY <3>2, <3>3
    <3> QED BY <3>4 DEF j
  <2>3. CASE j > n + 1
    <3> DEFINE l == i - n
               m == l + 1
    <3>1. /\ i \in n + 1 .. n + k /\ j \in n + 1 .. n + k /\ l \in 1 .. k - 1 /\ j - n = m
      BY <1>1, <2>0, <2>3
    <3>2. b[l] < b[m] BY <3>1 DEF Ascends, k
    <3> HIDE DEF m, j
    <3>3. c[i] = b[l] /\ c[j] = b[m] BY <1>2, <3>1
    <3>4. c[i] < c[j] BY <3>2, <3>3
    <3> QED BY <3>4 DEF j
  <2> QED BY <1>1, <2>0, <2>1, <2>2, <2>3
<1> QED BY <1>1, <1>3 DEF Ascends, c

LEMMA StartsAscending ==
  ASSUME NEW a \in Seq(Int), NEW b \in Seq(Int), Ascends(a \o b)
  PROVE  Ascends(a)
<1> DEFINE c == a \o b
           n == Len(a)
<1>1. n \in Nat /\ Len(b) \in Nat /\ Len(c) = n + Len(b) OBVIOUS
<1>2. \A i \in 1 .. n : c[i] = a[i] BY Concatenation
<1>3. \A i \in 1 .. Len(c) - 1 : c[i] < c[i + 1] BY DEF Ascends
<1> HIDE DEF c
<1>4. ASSUME NEW i \in 1 .. n - 1 PROVE a[i] < a[i + 1]
  <2> DEFINE j == i + 1
  <2>1. i \in 1 .. n /\ j \in 1 .. n /\ i \in 1 .. Len(c) - 1 BY <1>1
  <2>2. c[i] < c[j] BY <1>3, <2>1
  <2> HIDE DEF j
  <2>3. a[i] < a[j] BY <1>2, <2>1, <2>2
  <2> QED BY <2>3 DEF j
<1> QED BY <1>4 DEF Ascends

LEMMA InARow ==
  ASSUME NEW p \in Int, NEW n \in Nat
  PROVE  /\ Numbers(p, n) \in Seq(Int) /\ Len(Numbers(p, n)) = n
         /\ ToSet(Numbers(p, n)) = p .. p + n - 1 /\ Ascends(Numbers(p, n))
<1> DEFINE s == Numbers(p, n)
<1>1. s \in Seq(Int) /\ Len(s) = n /\ DOMAIN s = 1 .. n /\ \A i \in 1 .. n : s[i] = p + i - 1 BY DEF Numbers
<1> HIDE DEF s
<1>2. ToSet(s) \subseteq p .. p + n - 1
  <2>1. \A i \in 1 .. n : p + i - 1 \in p .. p + n - 1 OBVIOUS
  <2> QED BY <1>1, <2>1 DEF ToSet
<1>3. p .. p + n - 1 \subseteq ToSet(s)
  <2>1. ASSUME NEW x \in p .. p + n - 1 PROVE x \in ToSet(s)
    <3> DEFINE i == x - p + 1
    <3>1. i \in 1 .. n /\ p + i - 1 = x OBVIOUS
    <3> HIDE DEF i
    <3>2. s[i] = x BY <1>1, <3>1
    <3> QED BY <1>1, <3>1, <3>2 DEF ToSet
  <2> QED BY <2>1
<1>4. Ascends(s)
  <2>1. ASSUME NEW i \in 1 .. n - 1 PROVE s[i] < s[i + 1]
    <3> DEFINE j == i + 1
    <3>1. i \in 1 .. n /\ j \in 1 .. n /\ p + i - 1 < p + j - 1 OBVIOUS
    <3> HIDE DEF j
    <3>2. s[i] < s[j] BY <1>1, <3>1
    <3> QED BY <3>2 DEF j
  <2> QED BY <1>1, <2>1 DEF Ascends
<1> QED BY <1>1, <1>2, <1>3, <1>4 DEF s

LEMMA RowInTwo ==
  ASSUME NEW p \in Int, NEW n \in Nat, NEW k \in 0 .. n
  PROVE  /\ SubSeq(Numbers(p, n), 1, k) = Numbers(p, k)
         /\ SubSeq(Numbers(p, n), k + 1, n) = Numbers(p + k, n - k)
<1> DEFINE s == Numbers(p, n)
           q == p + k
           m == n - k
           a == SubSeq(s, 1, k)
           b == SubSeq(s, k + 1, n)
           c == Numbers(p, k)
           d == Numbers(q, m)
<1>1. s \in Seq(Int) /\ Len(s) = n /\ \A i \in 1 .. n : s[i] = p + i - 1 BY DEF Numbers
<1>2. q \in Int /\ m \in Nat /\ k \in Nat OBVIOUS
<1>3. c \in Seq(Int) /\ Len(c) = k /\ \A i \in 1 .. k : c[i] = p + i - 1 BY <1>2 DEF Numbers
<1> HIDE DEF s
<1>4. a \in Seq(Int) /\ Len(a) = k /\ b \in Seq(Int) /\ Len(b) = n - k BY <1>1, Cut
<1>5. \A i \in 1 .. k : a[i] = s[i]
  <2>1. \A i \in 1 .. k : s[i] \in Int BY <1>1
  <2> QED BY <1>1, <1>2, <2>1, SubSeqProperties
<1>6. \A i \in 1 .. n - k : b[i] = s[i + k] BY <1>1, <1>2
<1> HIDE DEF q, m
<1>7. d \in Seq(Int) /\ Len(d) = m /\ \A i \in 1 .. m : d[i] = q + i - 1 BY <1>2 DEF Numbers
<1> HIDE DEF a, b, c, d
<1>8. a = c
  <2>1. \A i \in 1 .. k : a[i] = c[i] BY <1>1, <1>2, <1>3, <1>5
  <2> QED BY <1>3, <1>4, <2>1, SeqEqual
<1>9. b = d
  <2>1. m = n - k /\ q = p + k BY DEF m, q
  <2>2. ASSUME NEW i \in 1 .. m PROVE b[i] = d[i]
    <3> DEFINE j == i + k
    <3>1. j \in 1 .. n /\ i \in 1 .. n - k /\ p + j - 1 = q + i - 1 BY <2>1
    <3>2. b[i] = s[j] BY <1>6, <3>1
    <3> HIDE DEF j
    <3>3. s[j] = p + j - 1 BY <1>1, <3>1
    <3> QED BY <1>7, <3>1, <3>2, <3>3
  <2>3. Len(b) = m BY <1>4, <2>1
  <2> QED BY <1>4, <1>7, <2>2, <2>3, SeqEqual
<1> QED BY <1>8, <1>9 DEF a, b, c, d, q, m, s

-----------------------------------------------------------------------------

\* The sink consumes n items more.
LEMMA SplitConsumed ==
  ASSUME NEW t, NEW e, NEW g, NEW r, NEW p, Split(t, e, g, r, p), NEW n \in Nat
  PROVE  Split(t, e, g, r \o Numbers(p, n), p + n)
<1> DEFINE L == Len(r)
           q == p - L
           M == L + n
           x == r \o Numbers(p, n)
<1>1. /\ t \in Seq(Int) /\ e \in Seq(Int) /\ g \in Seq(Int) /\ r \in Seq(Int) /\ p \in Nat
      /\ Len(t) + Len(e) + Len(g) + L = p /\ ToSet(t) \cup ToSet(e) \cup ToSet(g) = 0 .. p - L - 1
      /\ r = Numbers(q, L) /\ Ascends(t)
  BY DEF Split
<1>2. L \in Nat /\ Len(t) \in Nat /\ Len(e) \in Nat /\ Len(g) \in Nat BY <1>1
<1>3. x = Numbers(q, M)
  <2>1. q \in Int /\ p = q + L /\ M = L + n BY <1>1, <1>2
  <2> HIDE DEF q, L, M, x
  <2>2. Adjoin(q, L, p, n, M) BY <1>2, <2>1 DEF Adjoin
  <2>3. Numbers(q, L) \o Numbers(p, n) = Numbers(q, M) BY <2>2, Adjacent
  <2> QED BY <1>1, <2>3 DEF x
<1>4. x \in Seq(Int) /\ Len(x) = M
  <2>1. q \in Int /\ M \in Nat BY <1>1, <1>2
  <2> HIDE DEF q, M, x
  <2> QED BY <1>3, <2>1, InARow
<1>5. p + n \in Nat /\ Len(t) + Len(e) + Len(g) + M = p + n /\ p + n - M = q /\ p + n - M - 1 = p - L - 1
  BY <1>1, <1>2
<1> HIDE DEF L, q, M, x
<1>6. Split(t, e, g, x, p + n) BY <1>1, <1>3, <1>4, <1>5 DEF Split
<1> QED BY <1>6 DEF x

\* The oldest k items go to the source or to another client.
LEMMA SplitSent ==
  ASSUME NEW t, NEW e, NEW g, NEW r, NEW p, Split(t, e, g, r, p), NEW k \in 0 .. Len(r)
  PROVE  /\ Split(t \o SubSeq(r, 1, k), e, g, SubSeq(r, k + 1, Len(r)), p)
         /\ Split(t, e \o SubSeq(r, 1, k), g, SubSeq(r, k + 1, Len(r)), p)
<1> DEFINE L == Len(r)
           q == p - L
           m == q + k
           a == SubSeq(r, 1, k)
           b == SubSeq(r, k + 1, L)
<1>1. /\ t \in Seq(Int) /\ e \in Seq(Int) /\ g \in Seq(Int) /\ r \in Seq(Int) /\ p \in Nat
      /\ Len(t) + Len(e) + Len(g) + L = p /\ ToSet(t) \cup ToSet(e) \cup ToSet(g) = 0 .. p - L - 1
      /\ r = Numbers(q, L) /\ Ascends(t)
  BY DEF Split
<1>2. /\ L \in Nat /\ Len(t) \in Nat /\ Len(e) \in Nat /\ Len(g) \in Nat /\ k \in Nat /\ k <= L
      /\ q \in Nat /\ p - L - 1 = q - 1 /\ L - k \in Nat
  BY <1>1
<1>3. a \in Seq(Int) /\ Len(a) = k /\ b \in Seq(Int) /\ Len(b) = L - k BY <1>1, Cut
<1>4. a = Numbers(q, k) /\ b = Numbers(m, L - k)
  <2>1. SubSeq(Numbers(q, L), 1, k) = Numbers(q, k) /\ SubSeq(Numbers(q, L), k + 1, L) = Numbers(q + k, L - k)
    <3>1. q \in Int /\ L \in Nat /\ k \in 0 .. L BY <1>2
    <3> HIDE DEF q, L
    <3> QED BY <3>1, RowInTwo
  <2>2. r = Numbers(q, L) BY <1>1
  <2> HIDE DEF q, L
  <2> QED BY <2>1, <2>2
<1>5. ToSet(a) = q .. q + k - 1 /\ Ascends(a)
  <2> HIDE DEF q, a
  <2> QED BY <1>2, <1>4, InARow
<1>6. ToSet(t \o a) = ToSet(t) \cup ToSet(a) /\ ToSet(e \o a) = ToSet(e) \cup ToSet(a)
  <2> HIDE DEF a
  <2> QED BY <1>1, <1>3, InBoth
<1>7. /\ t \o a \in Seq(Int) /\ Len(t \o a) = Len(t) + k /\ e \o a \in Seq(Int) /\ Len(e \o a) = Len(e) + k
  <2> HIDE DEF a
  <2>1. t \o a \in Seq(Int) /\ Len(t \o a) = Len(t) + Len(a) BY <1>1, <1>3, Concatenation
  <2>2. e \o a \in Seq(Int) /\ Len(e \o a) = Len(e) + Len(a) BY <1>1, <1>3, Concatenation
  <2> QED BY <1>3, <2>1, <2>2
<1>8. 0 .. q - 1 \cup q .. q + k - 1 = 0 .. q + k - 1 BY <1>2
<1>9. /\ p - (L - k) = m /\ p - (L - k) - 1 = q + k - 1
      /\ Len(t) + k + Len(e) + Len(g) + (L - k) = p /\ Len(t) + (Len(e) + k) + Len(g) + (L - k) = p
  <2>1. p - (L - k) = m /\ p - (L - k) - 1 = q + k - 1 BY <1>1, <1>2
  <2> DEFINE lt == Len(t)
             le == Len(e)
             lg == Len(g)
  <2>2. lt \in Nat /\ le \in Nat /\ lg \in Nat /\ L \in Nat /\ k \in Nat /\ p \in Nat /\ lt + le + lg + L = p
    BY <1>1, <1>2
  <2> HIDE DEF lt, le, lg, L
  <2>3. lt + k + le + lg + (L - k) = p /\ lt + (le + k) + lg + (L - k) = p BY ONLY <2>2
  <2> QED BY <2>1, <2>3 DEF lt, le, lg
<1>10. Ascends(t \o a)
  <2>1. \A x \in ToSet(t), y \in ToSet(a) : x < y
    <3>1. ToSet(t) \subseteq 0 .. q - 1 BY <1>1, <1>2
    <3> HIDE DEF a
    <3> QED BY <1>2, <1>5, <3>1
  <2> HIDE DEF a
  <2> QED BY <1>1, <1>3, <1>5, <2>1, GoesOnAscending
<1>11. ToSet(t) \cup ToSet(e) \cup ToSet(g) = 0 .. q - 1 BY <1>1, <1>2
<1> HIDE DEF a, b, m, q, L
<1>12. /\ ToSet(t \o a) \cup ToSet(e) \cup ToSet(g) = 0 .. q + k - 1
       /\ ToSet(t) \cup ToSet(e \o a) \cup ToSet(g) = 0 .. q + k - 1
  BY <1>5, <1>6, <1>8, <1>11
<1>13. Split(t \o a, e, g, b, p) BY <1>1, <1>3, <1>4, <1>7, <1>9, <1>10, <1>12 DEF Split
<1>14. Split(t, e \o a, g, b, p) BY <1>1, <1>3, <1>4, <1>7, <1>9, <1>12 DEF Split
<1> QED BY <1>13, <1>14 DEF a, b, L

\* A sink ends and w, on the way to the source, and what it held are gone.
LEMMA SplitEnded ==
  ASSUME NEW t \in Seq(Int), NEW w \in Seq(Int), NEW e, NEW g, NEW r, NEW p, Split(t \o w, e, g, r, p)
  PROVE  Split(t, e, g \o w \o r, <<>>, p)
<1> DEFINE L == Len(r)
           q == p - L
<1>1. /\ e \in Seq(Int) /\ g \in Seq(Int) /\ r \in Seq(Int) /\ p \in Nat
      /\ Len(t \o w) + Len(e) + Len(g) + L = p /\ ToSet(t \o w) \cup ToSet(e) \cup ToSet(g) = 0 .. p - L - 1
      /\ r = Numbers(q, L) /\ Ascends(t \o w)
  BY DEF Split
<1>2. /\ L \in Nat /\ Len(t) \in Nat /\ Len(w) \in Nat /\ Len(e) \in Nat /\ Len(g) \in Nat
      /\ Len(t \o w) = Len(t) + Len(w)
  BY <1>1, Concatenation
<1>3. q \in Nat /\ p - L - 1 = q - 1 /\ q + L - 1 = p - 1 BY <1>1, <1>2
<1>4. ToSet(r) = q .. q + L - 1
  <2>1. q \in Int /\ L \in Nat /\ r = Numbers(q, L) BY <1>1, <1>2
  <2> HIDE DEF q, L
  <2> QED BY <2>1, InARow
<1>5. ToSet(t \o w) = ToSet(t) \cup ToSet(w) BY InBoth
<1> DEFINE x == g \o w
           y == x \o r
<1>6. x \in Seq(Int) /\ Len(x) = Len(g) + Len(w) /\ ToSet(x) = ToSet(g) \cup ToSet(w)
  BY <1>1, Concatenation, InBoth
<1> HIDE DEF x
<1>7. y \in Seq(Int) /\ Len(y) = Len(x) + L /\ ToSet(y) = ToSet(x) \cup ToSet(r)
  <2>1. x \in Seq(Int) /\ r \in Seq(Int) BY <1>1, <1>6
  <2>2. x \o r \in Seq(Int) /\ Len(x \o r) = Len(x) + Len(r) BY ONLY <2>1, Concatenation
  <2>3. ToSet(x \o r) = ToSet(x) \cup ToSet(r) BY ONLY <2>1, InBoth
  <2> QED BY <2>2, <2>3
<1> HIDE DEF y
<1>8. <<>> \in Seq(Int) /\ Len(<<>>) = 0 /\ <<>> = Numbers(p - 0, 0) BY <1>1 DEF Numbers
<1>9. Len(t) + Len(e) + Len(y) + 0 = p BY <1>1, <1>2, <1>6, <1>7
<1>10. ToSet(t) \cup ToSet(e) \cup ToSet(y) = 0 .. p - 0 - 1
  <2>1. ToSet(t) \cup ToSet(w) \cup ToSet(e) \cup ToSet(g) = 0 .. q - 1 BY <1>1, <1>3, <1>5
  <2>2. 0 .. q - 1 \cup q .. q + L - 1 = 0 .. p - 0 - 1 BY <1>1, <1>2, <1>3
  <2> HIDE DEF q, L
  <2> QED BY <1>4, <1>6, <1>7, <2>1, <2>2
<1>11. Ascends(t) BY <1>1, StartsAscending
<1>12. Split(t, e, y, <<>>, p) BY <1>1, <1>7, <1>8, <1>9, <1>10, <1>11 DEF Split
<1> QED BY <1>12 DEF x, y

-----------------------------------------------------------------------------

LEMMA SplitInit == Init => SplitInv
<1> SUFFICES ASSUME Init PROVE SplitInv OBVIOUS
<1>1. /\ span.room = 0 /\ span.items = <<>> /\ pending_items = <<>> /\ out = <<>>
      /\ requests = <<>> /\ reply = <<>> /\ elsewhere = <<>> /\ lost.items = <<>> /\ rep_items = <<>> /\ position = 0
  BY DEF Init, SourceInit, NoSpan
<1>2. /\ <<>> \in Seq(Int) /\ <<>> \in Seq(ToSet(<<>>)) /\ DOMAIN <<>> = {} /\ Len(<<>>) = 0 /\ <<>> \o <<>> = <<>>
  OBVIOUS
<1>3. Messages(reply) /\ Counts(requests) BY <1>1, <1>2 DEF Messages, Counts
<1>4. ItemsOf(<<>>) = <<>> BY DEF ItemsOf
<1>5. OnTheWay(<<>>) = <<>> BY <1>4, FlattenEmpty DEF OnTheWay
<1>6. Received \o OnTheWay(reply) = <<>> BY <1>1, <1>2, <1>5 DEF Received
<1>7. Split(<<>>, <<>>, <<>>, <<>>, 0)
  <2>1. ToSet(<<>>) = {} BY <1>2 DEF ToSet
  <2>2. 0 .. 0 - 0 - 1 = {} /\ 0 + 0 + 0 + 0 = 0 /\ <<>> = Numbers(0 - 0, 0) BY DEF Numbers
  <2>3. Ascends(<<>>) BY <1>2 DEF Ascends
  <2> QED BY <1>2, <2>1, <2>2, <2>3 DEF Split
<1> QED BY <1>1, <1>2, <1>3, <1>6, <1>7 DEF SplitInv, roomLeft

\* The source does not change what it has, in all, when a call begins, receives a
\* reply or returns.
LEMMA OpenSplit ==
  ASSUME SplitInv, NEW n \in 1 .. MaxRoom, OpenSpan(n),
         UNCHANGED <<reply, requests, elsewhere, lost, rep_items, position>>
  PROVE  SplitInv'
<1> DEFINE k == IF n < Len(pending_items) THEN n ELSE Len(pending_items)
           a == SubSeq(pending_items, 1, k)
           b == SubSeq(pending_items, k + 1, Len(pending_items))
<1>1. /\ span.room \in Nat /\ span.items \in Seq(Int) /\ (span.room = 0 => span.items = <<>>)
      /\ pending_items \in Seq(Int) /\ out \in Seq(Int)
  BY DEF SplitInv
<1>2. /\ out' = out /\ span.room = 0 /\ pending_items' = b
      /\ span' = [room |-> n, items |-> a, tags |-> Below(pending_tags, k)]
  BY DEF OpenSpan
<1>3. span'.room = n /\ span'.items = a
  <2> HIDE DEF a
  <2> QED BY <1>2
<1>4. Len(pending_items) \in Nat /\ n \in Nat \ {0} /\ k \in 0 .. Len(pending_items) /\ k <= n
      /\ (n - k > 0 => k = Len(pending_items))
  BY <1>1
<1>5. a \in Seq(Int) /\ Len(a) = k /\ b \in Seq(Int) /\ a \o b = pending_items /\ (k = Len(pending_items) => b = <<>>)
  <2> HIDE DEF k
  <2> QED BY <1>1, <1>4, Cut
<1> HIDE DEF k, a, b
<1>6. out \o a \o b = out \o span.items \o pending_items
  <2>0. out \in Seq(Int) /\ a \in Seq(Int) /\ b \in Seq(Int) BY <1>1, <1>5
  <2>1. out \o a \o b = out \o <<>> \o (a \o b) BY ONLY <2>0, RetainedInSpan
  <2> QED BY <1>1, <1>2, <1>5, <2>1
<1>7. roomLeft' > 0 => b = <<>> BY <1>3, <1>4, <1>5 DEF roomLeft
<1>8. Received' = Received BY <1>2, <1>3, <1>6 DEF Received
<1>9. /\ span'.room \in Nat /\ span'.items \in Seq(Int) /\ (span'.room = 0 => span'.items = <<>>)
      /\ pending_items' \in Seq(Int) /\ out' \in Seq(Int) /\ (roomLeft' > 0 => pending_items' = <<>>)
  BY <1>1, <1>2, <1>3, <1>4, <1>5, <1>7
<1> QED BY <1>8, <1>9 DEF SplitInv

LEMMA ReturnSplit ==
  ASSUME SplitInv, Return, UNCHANGED <<reply, requests, elsewhere, lost, rep_items, position>>
  PROVE  SplitInv'
<1>1. span.items \in Seq(Int) /\ pending_items \in Seq(Int) /\ out \in Seq(Int) BY DEF SplitInv
<1>2. /\ out' = out \o span.items /\ span'.room = 0 /\ span'.items = <<>> /\ pending_items' = pending_items
  BY DEF Return, NoSpan
<1>3. out' \in Seq(Int) BY <1>1, <1>2, Concatenation
<1>4. <<>> \in Seq(Int) /\ ~ (roomLeft' > 0)
  <2>1. Len(<<>>) = 0 OBVIOUS
  <2> QED BY <1>2, <2>1 DEF roomLeft
<1>5. Received' = Received
  <2>1. out \o span.items \o <<>> \o pending_items = out \o span.items \o pending_items BY <1>1, SpanPublished
  <2> QED BY <1>2, <2>1 DEF Received
<1> QED BY <1>1, <1>2, <1>3, <1>4, <1>5 DEF SplitInv

LEMMA ReceiveSplit ==
  ASSUME SplitInv, roomLeft > 0, reply # <<>>, NEW m, m = Head(reply), Take(m), reply' = Tail(reply),
         UNCHANGED <<requests, elsewhere, lost, rep_items, position>>
  PROVE  SplitInv'
<1>1. /\ span.room \in Nat /\ span.items \in Seq(Int) /\ (span.room = 0 => span.items = <<>>)
      /\ out \in Seq(Int) /\ Messages(reply)
  BY DEF SplitInv
<1>2. /\ out' = out
      /\ roomLeft > 0 /\ reply # <<>> /\ m = Head(reply) /\ reply' = Tail(reply)
  BY DEF Take
<1>3. pending_items = <<>> BY DEF SplitInv
<1> DEFINE s == span.items
           w == OnTheWay(Tail(reply))
           L == Len(m.items)
<1>4. Messages(Tail(reply)) /\ OnTheWay(reply) = m.items \o w /\ m.items \in Seq(Int) /\ w \in Seq(Int)
  <2>1. Messages(Tail(reply)) /\ OnTheWay(reply) = m.items \o w /\ m.items \in Seq(Int)
    BY <1>1, <1>2, PipeTail
  <2>2. w \in Seq(Int) BY <2>1, PipeType
  <2> QED BY <2>1, <2>2
<1>5. L \in Nat BY <1>4
<1> HIDE DEF w, s, L
\* a and b are what goes into the span and what is retained.
<1>6. \E a \in Seq(Int), b \in Seq(Int) :
        /\ a \o b = m.items /\ span'.room = span.room /\ span'.items = s \o a /\ pending_items' = <<>> \o b
        /\ roomLeft' > 0 => b = <<>>
  <2>1. CASE kind = "scalar"
    <3> DEFINE n == IF L < roomLeft THEN L ELSE roomLeft
               a == SubSeq(m.items, 1, n)
               b == SubSeq(m.items, n + 1, L)
               tags == span.tags \o Shift(Below(pending_tags, n) \o Below(Rebased(m), n), Len(span.items))
    <3>1. span' = [room |-> span.room, items |-> s \o a, tags |-> tags] /\ pending_items' = pending_items \o b
      BY <2>1 DEF Take, TakeScalars, s, L
    <3>2. roomLeft \in Int /\ n \in 0 .. L /\ n <= roomLeft /\ (n < roomLeft => n = L)
      <4>1. roomLeft \in Int BY <1>1 DEF roomLeft
      <4> QED BY <1>2, <1>5, <4>1
    <3> HIDE DEF n, tags
    <3>3. a \in Seq(Int) /\ Len(a) = n /\ b \in Seq(Int) /\ a \o b = m.items /\ (n = L => b = <<>>)
      <4>1. m.items \in Seq(Int) /\ n \in 0 .. Len(m.items) BY <1>4, <3>2 DEF L
      <4> QED BY ONLY <4>1, Cut DEF L
    <3> HIDE DEF a, b
    <3>4. span'.room = span.room /\ span'.items = s \o a /\ pending_items' = <<>> \o b BY <1>3, <3>1
    <3>5. roomLeft' > 0 => b = <<>>
      <4>1. s \in Seq(Int) BY <1>1 DEF s
      <4>2. Len(s \o a) = Len(s) + n /\ Len(s) \in Nat
        <5>1. a \in Seq(Int) BY <3>3
        <5>2. Len(s \o a) = Len(s) + Len(a) BY <4>1, <5>1, Concatenation
        <5> QED BY <3>3, <4>1, <5>2
      <4>3. roomLeft' = span.room - (Len(s) + n) BY <3>4, <4>2 DEF roomLeft
      <4>4. roomLeft = span.room - Len(s) BY DEF roomLeft, s
      <4>5. roomLeft' > 0 => n < roomLeft BY <1>1, <3>2, <4>2, <4>3, <4>4
      <4> QED BY <3>2, <3>3, <4>5
    <3> QED BY <3>3, <3>4, <3>5
  <2>2. CASE kind # "scalar"
    <3> DEFINE tags == span.tags \o OnItem(m.tags, Len(span.items))
    <3>1. span' = [room |-> span.room, items |-> s \o m.items, tags |-> tags] /\ pending_items' = pending_items
      BY <2>2 DEF Take, TakeOne, s
    <3> HIDE DEF tags
    <3>2. <<>> \in Seq(Int) /\ m.items \o <<>> = m.items /\ <<>> \o <<>> = <<>> BY <1>4, ConcatEmptySeq
    <3>3. span'.room = span.room /\ span'.items = s \o m.items /\ pending_items' = <<>> \o <<>>
      BY <1>3, <3>1, <3>2
    <3> QED BY <1>4, <3>2, <3>3
  <2> QED BY <2>1, <2>2
<1>7. PICK a \in Seq(Int), b \in Seq(Int) :
        /\ a \o b = m.items /\ span'.room = span.room /\ span'.items = s \o a /\ pending_items' = <<>> \o b
        /\ roomLeft' > 0 => b = <<>>
  BY <1>6
<1>8. s \in Seq(Int) /\ s \o a \in Seq(Int) /\ <<>> \o b = b
  <2>1. s \in Seq(Int) BY <1>1 DEF s
  <2> QED BY <2>1, Concatenation, ConcatEmptySeq
<1>9. out \o (s \o a) \o b \o w = out \o s \o ((a \o b) \o w)
  <2> DEFINE x == out \o s
             y == a \o b
  <2>1. out \in Seq(Int) /\ s \in Seq(Int) /\ a \in Seq(Int) /\ b \in Seq(Int) /\ w \in Seq(Int)
    BY <1>1, <1>4, <1>8
  <2>2. x \in Seq(Int) /\ y \in Seq(Int) BY ONLY <2>1, Joined
  <2>3. out \o (s \o a) = x \o a BY ONLY <2>1, Joined
  <2> HIDE DEF x
  <2>4. x \o (a \o b) = x \o a \o b BY ONLY <2>1, <2>2, Joined
  <2> HIDE DEF y
  <2>5. x \o (y \o w) = x \o y \o w
    <3>1. x \in Seq(Int) /\ y \in Seq(Int) /\ w \in Seq(Int) BY <2>1, <2>2
    <3> QED BY ONLY <3>1, Joined, SMTT(30)
  <2> QED BY <2>3, <2>4, <2>5 DEF x, y
<1>10. (Received \o OnTheWay(reply))' = Received \o OnTheWay(reply)
  <2>1. (Received \o OnTheWay(reply))' = out \o (s \o a) \o b \o w
    BY <1>2, <1>7, <1>8 DEF Received, w
  <2>2. Received \o OnTheWay(reply) = out \o s \o ((a \o b) \o w)
    <3>1. out \o s \in Seq(Int) BY <1>1, <1>8, Joined
    <3>2. out \o s \o <<>> = out \o s BY <3>1, ConcatEmptySeq
    <3> QED BY <1>3, <1>4, <1>7, <3>2 DEF Received, s
  <2> QED BY <1>9, <2>1, <2>2
<1>11. span'.room # 0
  <2>1. Len(s) \in Nat BY <1>8
  <2> QED BY <1>1, <1>2, <1>7, <2>1 DEF roomLeft, s
<1>12. Messages(reply') BY <1>2, <1>4
<1>13. pending_items' \in Seq(Int) /\ (roomLeft' > 0 => pending_items' = <<>>) BY <1>7, <1>8
<1>14. span'.room \in Nat /\ span'.items \in Seq(Int) BY <1>1, <1>7, <1>8
<1>15. Counts(requests) /\ Split(Received \o OnTheWay(reply), elsewhere, lost.items, rep_items, position)
  BY DEF SplitInv
<1> QED BY <1>1, <1>2, <1>10, <1>11, <1>12, <1>13, <1>14, <1>15 DEF SplitInv

-----------------------------------------------------------------------------

\* The sink serves the request at the front.
LEMMA ServeSplit == SplitInv /\ Serve => SplitInv'
<1> SUFFICES ASSUME SplitInv, Serve PROVE SplitInv' OBVIOUS
<1> DEFINE client == Head(requests).client
           count == Head(requests).count
           k == nsend(count)
           t == Received \o OnTheWay(reply)
           a == SubSeq(rep_items, 1, k)
           m == Message(a, Below(rep_tags, k), 0)
<1>1. /\ Messages(reply) /\ Counts(requests) /\ Split(t, elsewhere, lost.items, rep_items, position)
      /\ span.items \in Seq(Int) /\ pending_items \in Seq(Int) /\ out \in Seq(Int)
  BY DEF SplitInv
<1>2. /\ rep_items # <<>> /\ requests # <<>> /\ requests' = Tail(requests) /\ SendReply(client, k)
      /\ UNCHANGED <<sourceVars, position, lost>>
  BY DEF Serve, readable, faultVars
<1>3. rep_items \in Seq(Int) /\ Len(rep_items) \in Nat \ {0} /\ requests \in Seq(ToSet(requests))
  BY <1>1, <1>2, EmptySeq DEF Split, Counts
<1>4. Counts(requests') /\ count \in Nat BY <1>1, <1>2, <1>3, FirstServed
<1> HIDE DEF count
<1>5. k \in 0 .. Len(rep_items)
  <2>1. CASE kind # "scalar"
    <3>1. k = 1 BY <2>1 DEF nsend
    <3> HIDE DEF k
    <3> QED BY <1>3, <3>1
  <2>2. CASE kind = "scalar"
    <3>1. k = IF count < Len(rep_items) THEN count ELSE Len(rep_items) BY <2>2 DEF nsend
    <3> HIDE DEF k
    <3> QED BY <1>3, <1>4, <3>1
  <2> QED BY <2>1, <2>2
<1>6. /\ rep_items' = SubSeq(rep_items, k + 1, Len(rep_items))
      /\ IF client = "source" THEN reply' = Append(reply, m) /\ UNCHANGED elsewhere
         ELSE elsewhere' = elsewhere \o a /\ UNCHANGED reply
  BY <1>2 DEF SendReply, Message
<1>7. m.items = a /\ m.defect = "none" BY DEF Message
<1> HIDE DEF k, m, client
<1>8. a \in Seq(Int) BY <1>3, <1>5, Cut
<1> HIDE DEF a, t
<1>9. /\ Split(t \o a, elsewhere, lost.items, rep_items', position)
      /\ Split(t, elsewhere \o a, lost.items, rep_items', position)
  BY <1>1, <1>5, <1>6, SplitSent DEF a
<1>10. Received' = Received /\ roomLeft' = roomLeft BY <1>2 DEF Received, roomLeft, sourceVars
<1>11. Messages(reply') /\ Split(Received' \o OnTheWay(reply'), elsewhere', lost.items, rep_items', position)
  <2>1. CASE client = "source"
    <3>1. Messages(reply') /\ OnTheWay(reply') = OnTheWay(reply) \o a
      BY <1>1, <1>6, <1>7, <1>8, <2>1, PipeAppend
    <3>2. Received \in Seq(Int)
      <4>1. span.items \in Seq(Int) /\ pending_items \in Seq(Int) /\ out \in Seq(Int) BY <1>1
      <4> QED BY <4>1, Joined DEF Received
    <3>3. OnTheWay(reply) \in Seq(Int) BY <1>1, PipeType
    <3>4. Received \o (OnTheWay(reply) \o a) = t \o a BY <1>8, <3>2, <3>3, Joined DEF t
    <3> QED BY <1>6, <1>9, <1>10, <2>1, <3>1, <3>4
  <2>2. CASE client # "source" BY <1>1, <1>6, <1>9, <1>10, <2>2 DEF t
  <2> QED BY <2>1, <2>2
<1> QED BY <1>2, <1>4, <1>10, <1>11 DEF SplitInv, sourceVars

LEMMA RestartSplit == SplitInv /\ SinkRestart => SplitInv'
<1> SUFFICES ASSUME SplitInv, SinkRestart PROVE SplitInv' OBVIOUS
<1> DEFINE w == OnTheWay(reply)
<1>1. /\ Messages(reply) /\ Counts(requests)
      /\ Split(Received \o w, elsewhere, lost.items, rep_items, position)
      /\ span.items \in Seq(Int) /\ pending_items \in Seq(Int) /\ out \in Seq(Int)
  BY DEF SplitInv
<1>2. /\ UNCHANGED <<sourceVars, position, elsewhere>> /\ rep_items' = <<>>
      /\ lost' = [items  |-> lost.items \o (IF reply' = <<>> THEN InReply ELSE <<>>) \o rep_items,
                  answer |-> _req_pending /\ reply' = <<>> /\ ~ Asked(requests')]
      /\ reply' = reply \/ reply' = <<>>
  BY DEF SinkRestart
<1>3. lost'.items = lost.items \o (IF reply' = <<>> THEN w ELSE <<>>) \o rep_items
  BY <1>2 DEF InReply, OnTheWay, ItemsOf
<1>4. Counts(requests')
  <2>1. PICK k \in 0 .. Len(requests) : requests' = SubSeq(requests, k + 1, Len(requests))
    BY DEF SinkRestart
  <2>2. requests \in Seq(ToSet(requests)) BY <1>1 DEF Counts
  <2> QED BY <1>1, <2>1, <2>2, FewerAsk
<1>5. Received \in Seq(Int)
  <2>1. span.items \in Seq(Int) /\ pending_items \in Seq(Int) /\ out \in Seq(Int) BY <1>1
  <2> QED BY <2>1, Joined DEF Received
<1>6. w \in Seq(Int) BY <1>1, PipeType
<1> HIDE DEF w
<1>7. Received' = Received /\ roomLeft' = roomLeft BY <1>2 DEF Received, roomLeft, sourceVars
<1>8. Messages(reply') /\ Split(Received \o OnTheWay(reply'), elsewhere, lost'.items, <<>>, position)
  <2>1. CASE reply' = <<>>
    <3>1. Split(Received, elsewhere, lost.items \o w \o rep_items, <<>>, position)
      BY <1>1, <1>5, <1>6, SplitEnded
    <3>2. OnTheWay(<<>>) = <<>>
      <4>1. ItemsOf(<<>>) = <<>> BY DEF ItemsOf
      <4> QED BY <4>1, FlattenEmpty DEF OnTheWay
    <3>3. Received \o OnTheWay(reply') = Received BY <1>5, <2>1, <3>2, ConcatEmptySeq
    <3>4. Messages(<<>>)
      <4>1. <<>> \in Seq(ToSet(<<>>)) /\ DOMAIN <<>> = {} OBVIOUS
      <4> QED BY <4>1 DEF Messages
    <3> QED BY <1>3, <2>1, <3>1, <3>3, <3>4
  <2>2. CASE reply' # <<>>
    <3> DEFINE t == Received \o w
    <3>1. t \in Seq(Int) /\ <<>> \in Seq(Int) BY <1>5, <1>6, Concatenation
    <3>2. t \o <<>> = t BY <3>1, ConcatEmptySeq
    <3>3. Split(t, elsewhere, lost.items, rep_items, position) BY <1>1
    <3> HIDE DEF t
    <3>4. Split(t \o <<>>, elsewhere, lost.items, rep_items, position) BY <3>2, <3>3
    <3>5. Split(t, elsewhere, lost.items \o <<>> \o rep_items, <<>>, position)
      BY <3>1, <3>4, SplitEnded
    <3>6. reply' = reply /\ lost'.items = lost.items \o <<>> \o rep_items BY <1>2, <1>3, <2>2
    <3> QED BY <1>1, <3>5, <3>6 DEF t, w
  <2> QED BY <2>1, <2>2
<1> QED BY <1>2, <1>4, <1>7, <1>8 DEF SplitInv, sourceVars

LEMMA SplitStep == SplitInv /\ [Next]_vars => SplitInv'
<1> SUFFICES ASSUME SplitInv, [Next]_vars PROVE SplitInv' OBVIOUS
<1>0. /\ Counts(requests) /\ requests \in Seq(ToSet(requests)) /\ span.room \in Nat /\ span.items \in Seq(Int)
  BY DEF SplitInv, Counts
<1>1. CASE BeginReq
  <2>1. PICK n \in 1 .. MaxRoom : OpenSpan(n) BY <1>1 DEF BeginReq
  <2>2. UNCHANGED <<reply, requests, elsewhere, lost, rep_items, position>>
    BY <1>1 DEF BeginReq, sinkVars, linkVars, faultVars
  <2> QED BY <2>1, <2>2, OpenSplit
<1>2. CASE Request
  <2> DEFINE x == [client |-> "source", count |-> request_count_for(roomLeft)]
  <2>1. /\ roomLeft > 0 /\ requests' = Append(requests, x)
        /\ UNCHANGED <<sourceVars, reply, elsewhere, lost, rep_items, position>>
    BY <1>2 DEF Request, sinkVars, faultVars
  <2>2. roomLeft \in Nat
    <3>1. Len(span.items) \in Nat BY <1>0
    <3>2. roomLeft \in Int BY <1>0, <3>1 DEF roomLeft
    <3> QED BY <2>1, <3>2
  <2>3. x.count \in Nat BY <2>2 DEF request_count_for
  <2> HIDE DEF x
  <2>4. Counts(requests') BY <1>0, <2>1, <2>3, AnotherAsks
  <2> QED BY <2>1, <2>4 DEF SplitInv, Received, roomLeft, sourceVars
<1>3. CASE Receive
  <2> DEFINE m == Head(reply)
  <2>1. roomLeft > 0 /\ reply # <<>> /\ Take(m) /\ reply' = Tail(reply) BY <1>3 DEF Receive
  <2>2. UNCHANGED <<requests, elsewhere, lost, rep_items, position>> BY <1>3 DEF Receive, sinkVars, faultVars
  <2> QED BY <2>1, <2>2, ReceiveSplit
<1>4. CASE EndReq
  <2>1. Return /\ UNCHANGED <<reply, requests, elsewhere, lost, rep_items, position>>
    BY <1>4 DEF EndReq, sinkVars, linkVars, faultVars
  <2> QED BY <2>1, ReturnSplit
<1>5. CASE BeginRep
  <2>1. PICK n \in 0 .. MaxSpan : rep_items' = rep_items \o Items(position, n) /\ position' = position + n
    BY <1>5 DEF BeginRep
  <2>2. UNCHANGED <<sourceVars, requests, reply, elsewhere, lost>> BY <1>5 DEF BeginRep, linkVars, faultVars
  <2>3. n \in Nat OBVIOUS
  <2> DEFINE t == Received \o OnTheWay(reply)
  <2>4. Split(t, elsewhere, lost.items, rep_items, position) BY DEF SplitInv
  <2>5. Items(position, n) = Numbers(position, n) BY DEF Items, Numbers
  <2> HIDE DEF t
  <2>6. Split(t, elsewhere, lost.items, rep_items', position') BY <2>1, <2>3, <2>4, <2>5, SplitConsumed
  <2>7. t' = t /\ roomLeft' = roomLeft BY <2>2 DEF t, Received, roomLeft, sourceVars
  <2> QED BY <2>2, <2>6, <2>7 DEF SplitInv, sourceVars, t
<1>6. CASE ServeNothing
  <2>1. requests # <<>> /\ requests' = Tail(requests) BY <1>6 DEF ServeNothing, readable
  <2>2. UNCHANGED <<sourceVars, reply, elsewhere, lost, rep_items, position>> BY <1>6 DEF ServeNothing, faultVars
  <2>3. Counts(requests') BY <1>0, <2>1, FirstServed
  <2> QED BY <2>2, <2>3 DEF SplitInv, Received, roomLeft, sourceVars
<1>7. CASE OtherRequest
  <2>1. PICK n \in OtherCounts : requests' = Append(requests, [client |-> "other", count |-> n])
    BY <1>7 DEF OtherRequest
  <2>2. UNCHANGED <<sourceVars, reply, elsewhere, lost, rep_items, position>>
    BY <1>7 DEF OtherRequest, sinkVars, faultVars
  <2> DEFINE x == [client |-> "other", count |-> n]
  <2>3. x.count \in Nat BY OthersAssumption
  <2>4. requests' = Append(requests, x) BY <2>1
  <2> HIDE DEF x
  <2>5. Counts(requests') BY <1>0, <2>3, <2>4, AnotherAsks
  <2> QED BY <2>2, <2>5 DEF SplitInv, Received, roomLeft, sourceVars
<1>8. CASE EndRep \/ UNCHANGED vars
  <2>1. UNCHANGED <<sourceVars, requests, reply, elsewhere, lost, rep_items, position>>
    BY <1>8 DEF EndRep, vars, sinkVars, linkVars, faultVars
  <2> QED BY <2>1 DEF SplitInv, Received, roomLeft, sourceVars
<1> QED BY <1>1, <1>2, <1>3, <1>4, <1>5, <1>6, <1>7, <1>8, ServeSplit, RestartSplit DEF Next

\* Of what the sinks have consumed each item goes to one client, or is held by
\* the sink, or is lost with one that ended; the sink holds the newest, and the
\* source gets its items in order.
THEOREM ItemsAreSplit == Spec => []SplitAmongClients
<1>1. SplitInv => SplitAmongClients
  <2> SUFFICES ASSUME SplitInv PROVE SplitAmongClients OBVIOUS
  <2> DEFINE t == Received \o InReply
             r == rep_items
             L == Len(r)
             q == position - L
  <2>0. InReply = OnTheWay(reply) BY DEF InReply, OnTheWay, ItemsOf
  <2>1. Split(t, elsewhere, lost.items, r, position) BY <2>0 DEF SplitInv
  <2> HIDE DEF t
  <2>2. /\ t \in Seq(Int) /\ elsewhere \in Seq(Int) /\ lost.items \in Seq(Int) /\ r \in Seq(Int) /\ position \in Nat
        /\ Len(t) + Len(elsewhere) + Len(lost.items) + L = position
        /\ ToSet(t) \cup ToSet(elsewhere) \cup ToSet(lost.items) = 0 .. position - L - 1
        /\ r = Numbers(q, L) /\ Ascends(t)
    BY <2>1 DEF Split
  <2>3. L \in Nat /\ Len(t) \in Nat /\ Len(elsewhere) \in Nat /\ Len(lost.items) \in Nat BY <2>2
  <2>4. q \in Nat /\ position - L - 1 = q - 1 /\ q + L - 1 = position - 1
    <3> DEFINE lt == Len(t)
               le == Len(elsewhere)
               lg == Len(lost.items)
    <3>1. lt \in Nat /\ le \in Nat /\ lg \in Nat /\ L \in Nat /\ position \in Nat /\ lt + le + lg + L = position
      BY <2>2, <2>3
    <3> HIDE DEF lt, le, lg, L
    <3> QED BY ONLY <3>1
  <2> DEFINE x == t \o elsewhere
             y == x \o lost.items
             all == y \o r
  <2>5. x \in Seq(Int) /\ Len(x) = Len(t) + Len(elsewhere) /\ ToSet(x) = ToSet(t) \cup ToSet(elsewhere)
    <3>1. t \in Seq(Int) /\ elsewhere \in Seq(Int) BY <2>2
    <3> QED BY ONLY <3>1, Concatenation, InBoth
  <2> HIDE DEF x
  <2>6. y \in Seq(Int) /\ Len(y) = Len(x) + Len(lost.items) /\ ToSet(y) = ToSet(x) \cup ToSet(lost.items)
    <3>1. x \in Seq(Int) /\ lost.items \in Seq(Int) BY <2>2, <2>5
    <3> QED BY ONLY <3>1, Concatenation, InBoth
  <2> HIDE DEF y
  <2>7. Len(all) = Len(y) + L /\ ToSet(all) = ToSet(y) \cup ToSet(r)
    <3>1. y \in Seq(Int) /\ r \in Seq(Int) BY <2>2, <2>6
    <3> QED BY ONLY <3>1, Concatenation, InBoth
  <2>8. ToSet(r) = q .. q + L - 1
    <3>1. q \in Int /\ L \in Nat /\ r = Numbers(q, L) BY <2>2, <2>3
    <3> HIDE DEF q, L
    <3> QED BY <3>1, InARow
  <2> HIDE DEF all
  <2>9. Len(all) = position BY <2>2, <2>3, <2>5, <2>6, <2>7
  <2>10. ToSet(all) = 0 .. position - 1
    <3>1. 0 .. q - 1 \cup q .. q + L - 1 = 0 .. position - 1 BY <2>3, <2>4
    <3>2. ToSet(t) \cup ToSet(elsewhere) \cup ToSet(lost.items) = 0 .. q - 1 BY <2>2, <2>4
    <3> HIDE DEF q, L, r
    <3> QED BY <2>5, <2>6, <2>7, <2>8, <3>1, <3>2
  <2>11. rep_items = Items(position - Len(rep_items), Len(rep_items)) BY <2>2 DEF Items, Numbers
  <2>12. \A i \in 1 .. Len(t) - 1 : t[i] < t[i + 1] BY <2>2 DEF Ascends
  <2> QED BY <2>9, <2>10, <2>11, <2>12 DEF SplitAmongClients, all, x, y, t
<1> QED BY <1>1, SplitInit, SplitStep, PTL DEF Spec

-----------------------------------------------------------------------------

TagValues == {StreamTags[i].tag : i \in DOMAIN StreamTags}

\* The tags that belong to items which are first in their row.
Carried(items) == CarriedBy(StreamTags, items, 0)

\* A reply counts them from its first item, and is one item unless that is a scalar.
Labelled(m) == m.header_offset = 0 /\ m.tags = Carried(m.items) /\ (kind # "scalar" => Len(m.items) = 1)

\* Wherever items are, the tags beside them are theirs.
TagInv ==
  /\ outTags = Carried(out) /\ span.tags = Carried(span.items) /\ pending_tags = Carried(pending_items)
  /\ rep_tags = Carried(rep_items)
  /\ \A i \in DOMAIN reply : Labelled(reply[i])

LEMMA StreamIs == AllTags(TagValues, StreamTags) /\ Sorted(StreamTags)
<1>1. StreamTags \in Seq([offset : Nat, tag : TagValues]) BY SourceAssumption DEF TagValues
<1>2. AllTags(TagValues, StreamTags)
  <2>1. StreamTags \in Seq([offset : Int, tag : TagValues])
    <3> DEFINE A == [offset : Nat, tag : TagValues]
               B == [offset : Int, tag : TagValues]
    <3>1. A \subseteq B OBVIOUS
    <3>2. StreamTags \in Seq(A) BY <1>1
    <3> HIDE DEF A, B
    <3>3. StreamTags \in Seq(B) BY <3>1, <3>2
    <3> QED BY <3>3 DEF B
  <2> QED BY <2>1 DEF AllTags, TagsWith
<1>3. Sorted(StreamTags)
  <2>1. DOMAIN StreamTags = 1 .. Len(StreamTags) BY <1>1
  <2> QED BY <2>1, SourceAssumption DEF Sorted
<1> QED BY <1>2, <1>3

LEMMA CollectedIs ==
  ASSUME NEW p \in Int, NEW n \in Nat
  PROVE  /\ Collected(p, n) = Carried(Items(p, n))
<1> DEFINE a == Numbers(p, n)
<1>1. Items(p, n) = a BY DEF Items, Numbers
<1>2. Collected(p, n) = CarriedBy(StreamTags, a, 0) BY StreamIs, CarriedCollected DEF Collected
<1>3. a \in Seq(Int) /\ Twice(0, p, p) BY DEF Numbers, Twice
<1> HIDE DEF a
<1>4. Shift(CarriedBy(StreamTags, a, 0), p) = CarriedBy(StreamTags, a, p) BY <1>3, StreamIs, CarriedShifted
<1> QED BY <1>1, <1>2, <1>4, Zenon DEF Carried

LEMMA CarriedNothing == Carried(<<>>) = <<>>
  BY CarriedNone DEF Carried

LEMMA TagInit == Init => TagInv
<1> SUFFICES ASSUME Init PROVE TagInv OBVIOUS
<1>1. /\ out = <<>> /\ outTags = <<>> /\ span.items = <<>> /\ span.tags = <<>>
      /\ pending_items = <<>> /\ pending_tags = <<>> /\ rep_items = <<>> /\ rep_tags = <<>> /\ reply = <<>>
  BY DEF Init, SourceInit, NoSpan
<1>2. DOMAIN <<>> = {} OBVIOUS
<1> QED BY <1>1, <1>2, CarriedNothing, Zenon DEF TagInv

\* A message with its tags, behind others.
LEMMA LabelledBehind ==
  ASSUME NEW p, p \in Seq(ToSet(p)), \A i \in DOMAIN p : Labelled(p[i]), NEW m, Labelled(m)
  PROVE  \A i \in DOMAIN Append(p, m) : Labelled(Append(p, m)[i])
<1> DEFINE q == Append(p, m)
<1>1. Len(p) \in Nat /\ DOMAIN p = 1 .. Len(p) /\ DOMAIN q = 1 .. Len(p) + 1 /\ q[Len(p) + 1] = m /\ \A i \in 1 .. Len(p) : q[i] = p[i]
  OBVIOUS
<1> HIDE DEF q
<1>2. ASSUME NEW i \in DOMAIN q PROVE Labelled(q[i])
  <2>1. CASE i = Len(p) + 1 BY <1>1, <2>1
  <2>2. CASE i # Len(p) + 1
    <3>1. i \in DOMAIN p /\ q[i] = p[i] BY <1>1, <2>2
    <3> QED BY <3>1
  <2> QED BY <2>1, <2>2
<1> QED BY <1>2 DEF q

LEMMA LabelledAfter ==
  ASSUME NEW p, p \in Seq(ToSet(p)), p # <<>>, \A i \in DOMAIN p : Labelled(p[i])
  PROVE  Labelled(Head(p)) /\ \A i \in DOMAIN Tail(p) : Labelled(Tail(p)[i])
<1> DEFINE q == Tail(p)
<1>1. /\ Len(p) \in Nat \ {0} /\ DOMAIN p = 1 .. Len(p) /\ DOMAIN q = 1 .. Len(p) - 1 /\ Head(p) = p[1]
      /\ \A i \in 1 .. Len(p) - 1 : q[i] = p[i + 1]
  OBVIOUS
<1> HIDE DEF q
<1>2. 1 \in DOMAIN p BY <1>1
<1>3. ASSUME NEW i \in DOMAIN q PROVE Labelled(q[i])
  <2> DEFINE k == i + 1
  <2>1. k \in DOMAIN p /\ q[i] = p[k] BY <1>1
  <2> HIDE DEF k
  <2> QED BY <2>1
<1> QED BY <1>1, <1>2, <1>3 DEF q

\* The retained items come into the span with their tags.
LEMMA OpenTags ==
  ASSUME pending_items \in Seq(Int), pending_tags = Carried(pending_items), NEW n \in 1 .. MaxRoom, OpenSpan(n)
  PROVE  span'.tags = Carried(span'.items) /\ pending_tags' = Carried(pending_items')
<1> DEFINE k == IF n < Len(pending_items) THEN n ELSE Len(pending_items)
           a == SubSeq(pending_items, 1, k)
           b == SubSeq(pending_items, k + 1, Len(pending_items))
           t == Below(pending_tags, k)
<1>1. k \in 0 .. Len(pending_items)
  <2>1. Len(pending_items) \in Nat /\ n \in Nat OBVIOUS
  <2> QED BY <2>1
<1>2. span' = [room |-> n, items |-> a, tags |-> t] /\ pending_items' = b /\ pending_tags' = Beyond(pending_tags, k)
  BY DEF OpenSpan
<1> HIDE DEF k
<1>3. a \in Seq(Int) /\ Len(a) = k /\ b \in Seq(Int) /\ a \o b = pending_items BY <1>1, Cut
<1>4. span'.items = a /\ span'.tags = t
  <2> HIDE DEF a, t
  <2> QED BY <1>2
<1> HIDE DEF a, b
<1>5. pending_tags = CarriedBy(StreamTags, a \o b, 0) BY <1>3 DEF Carried
<1>6. /\ Below(CarriedBy(StreamTags, a \o b, 0), k) = CarriedBy(StreamTags, a, 0)
      /\ Beyond(CarriedBy(StreamTags, a \o b, 0), k) = CarriedBy(StreamTags, b, 0)
  <2>1. AllTags(TagValues, StreamTags) /\ a \in Seq(Int) /\ b \in Seq(Int) /\ k = Len(a) BY <1>3, StreamIs
  <2> QED BY ONLY <2>1, CarriedCut
<1> QED BY <1>2, <1>4, <1>5, <1>6, Zenon DEF Carried, t

\* A message of scalars brings its own.
LEMMA TakeTags ==
  ASSUME span.items \in Seq(Int), span.room \in Nat, roomLeft > 0, pending_items = <<>>,
         span.tags = Carried(span.items), pending_tags = Carried(pending_items),
         NEW m, m.items \in Seq(Int), Labelled(m), TakeScalars(m)
  PROVE  span'.tags = Carried(span'.items) /\ pending_tags' = Carried(pending_items')
<1> DEFINE s == span.items
           L == Len(m.items)
           n == IF L < roomLeft THEN L ELSE roomLeft
           a == SubSeq(m.items, 1, n)
           b == SubSeq(m.items, n + 1, L)
           h == m.header_offset
           r == Rebased(m)
           t == span.tags \o Shift(Below(pending_tags, n) \o Below(r, n), Len(s))
<1>1. /\ span' = [room |-> span.room, items |-> s \o a, tags |-> t] /\ pending_items' = pending_items \o b
      /\ pending_tags' = IF n < L THEN Beyond(r, n) ELSE Beyond(pending_tags, n)
  BY DEF TakeScalars
<1>2. n \in 0 .. L
  <2>1. roomLeft \in Int /\ L \in Nat BY DEF roomLeft
  <2> QED BY <2>1
<1>3. h \in Int /\ m.tags = CarriedBy(StreamTags, m.items, h) BY DEF Labelled, Carried
<1>4. span'.items = s \o a /\ span'.tags = t
  <2> HIDE DEF s, a, t
  <2> QED BY <1>1
<1> HIDE DEF n, h
<1>5. a \in Seq(Int) /\ Len(a) = n /\ b \in Seq(Int) /\ a \o b = m.items /\ (n = L => b = <<>>)
  <2>1. m.items \in Seq(Int) /\ n \in 0 .. Len(m.items) BY <1>2
  <2> QED BY ONLY <2>1, Cut
<1>6. s \in Seq(Int) /\ span.tags = CarriedBy(StreamTags, s, 0) BY DEF Carried
<1>7. pending_tags = <<>> BY CarriedNothing
<1>8. r = Rebase(CarriedBy(StreamTags, a \o b, h), h)
  <2>1. r = Rebase(m.tags, h) BY DEF Rebased, h
  <2> HIDE DEF r, a, b
  <2> QED BY <1>3, <1>5, <2>1
<1>9. ~ (n < L) => n = L BY <1>2
<1> HIDE DEF s, a, b, r, L
<1>10. /\ CarriedBy(StreamTags, s, 0) \o Shift(Below(<<>>, n) \o Below(Rebase(CarriedBy(StreamTags, a \o b, h), h), n), Len(s))
              = CarriedBy(StreamTags, s \o a, 0)
       /\ Beyond(Rebase(CarriedBy(StreamTags, a \o b, h), h), n) = CarriedBy(StreamTags, b, 0)
       /\ Beyond(<<>>, n) = <<>>
  <2>1. /\ AllTags(TagValues, StreamTags) /\ s \in Seq(Int) /\ a \in Seq(Int) /\ b \in Seq(Int) /\ n = Len(a) /\ h \in Int
    BY <1>3, <1>5, <1>6, StreamIs
  <2>2. Cuts(TagValues, StreamTags, s, a, b, n, h) BY <2>1 DEF Cuts
  <2> QED BY ONLY <2>2, CarriedTaken
<1>11. span'.tags = Carried(span'.items) BY <1>4, <1>6, <1>7, <1>8, <1>10, Zenon DEF Carried, t
<1>12. pending_items' = b
  <2>1. <<>> \o b = b BY <1>5, ConcatEmptySeq
  <2> QED BY <1>1, <2>1
<1>13. pending_tags' = Carried(pending_items')
  <2>1. CASE n < L BY <1>1, <1>8, <1>10, <1>12, <2>1, Zenon DEF Carried
  <2>2. CASE ~ (n < L)
    <3>1. b = <<>> BY <1>5, <1>9, <2>2
    <3> QED BY <1>1, <1>7, <1>10, <1>12, <2>2, <3>1, CarriedNothing, Zenon
  <2> QED BY <2>1, <2>2
<1> QED BY <1>11, <1>13

\* Any other item is a reply of its own.
LEMMA TakeOneTags ==
  ASSUME span.items \in Seq(Int), span.tags = Carried(span.items), pending_tags = Carried(pending_items),
         NEW m, m.items \in Seq(Int), Len(m.items) = 1, Labelled(m), TakeOne(m)
  PROVE  span'.tags = Carried(span'.items) /\ pending_tags' = Carried(pending_items')
<1> DEFINE s == span.items
           a == m.items
           n == Len(s)
           t == span.tags \o OnItem(m.tags, n)
<1>1. span' = [room |-> span.room, items |-> s \o a, tags |-> t] /\ UNCHANGED <<pending_items, pending_tags>>
  BY DEF TakeOne
<1>2. span'.items = s \o a /\ span'.tags = t
  <2> HIDE DEF s, a, t
  <2> QED BY <1>1
<1>3. m.tags = CarriedBy(StreamTags, a, 0) /\ span.tags = CarriedBy(StreamTags, s, 0) BY DEF Labelled, Carried
<1>4. AllTags(TagValues, StreamTags) /\ s \in Seq(Int) /\ a \in Seq(Int) /\ Len(a) = 1 BY StreamIs
<1> HIDE DEF s, a
<1>5. CarriedBy(StreamTags, s, 0) \o OnItem(CarriedBy(StreamTags, a, 0), Len(s)) = CarriedBy(StreamTags, s \o a, 0)
  BY ONLY <1>4, CarriedNext
<1>6. span'.tags = Carried(span'.items) BY <1>2, <1>3, <1>5, Zenon DEF Carried, t, n
<1> QED BY <1>1, <1>6

\* What is published takes its tags with it.
LEMMA ReturnTags ==
  ASSUME out \in Seq(Int), span.items \in Seq(Int), outTags = Carried(out), span.tags = Carried(span.items), Return
  PROVE  /\ outTags' = Carried(out') /\ span'.tags = Carried(span'.items)
         /\ outTags' = outTags \o CarriedBy(StreamTags, span.items, Len(out))
<1> DEFINE s == span.items
           n == Len(out)
<1>1. /\ out' = out \o s /\ outTags' = outTags \o Shift(span.tags, n) /\ span'.items = <<>> /\ span'.tags = <<>>
  BY DEF Return, NoSpan
<1>2. AllTags(TagValues, StreamTags) /\ out \in Seq(Int) /\ s \in Seq(Int) /\ Twice(0, n, n)
  <2>1. n \in Nat OBVIOUS
  <2> QED BY <2>1, StreamIs DEF Twice
<1> HIDE DEF s
<1>3. CarriedBy(StreamTags, out, 0) \o Shift(CarriedBy(StreamTags, s, 0), Len(out)) = CarriedBy(StreamTags, out \o s, 0)
  BY ONLY <1>2, CarriedBehind
<1> HIDE DEF n
<1>4. Shift(CarriedBy(StreamTags, s, 0), n) = CarriedBy(StreamTags, s, n) BY ONLY <1>2, CarriedShifted
<1>5. outTags' = Carried(out') BY <1>1, <1>3, Zenon DEF Carried, n, s
<1>6. outTags' = outTags \o CarriedBy(StreamTags, s, n) BY <1>1, <1>4, Zenon DEF Carried, s
<1> QED BY <1>1, <1>5, <1>6, CarriedNothing, Zenon DEF s, n

\* What the sink takes in comes behind with its tags, and what it sends takes them.
LEMMA BeginRepTags ==
  ASSUME rep_items \in Seq(Int), position \in Int, rep_tags = Carried(rep_items), BeginRep
  PROVE  rep_tags' = Carried(rep_items')
<1>1. PICK n \in 0 .. MaxSpan :
        /\ rep_items' = rep_items \o Items(position, n)
        /\ rep_tags' = rep_tags \o Shift(Collected(position, n), Len(rep_items))
  BY DEF BeginRep
<1> DEFINE a == Items(position, n)
<1>2. n \in Nat OBVIOUS
<1>3. Collected(position, n) = CarriedBy(StreamTags, a, 0) BY <1>2, CollectedIs DEF Carried
<1>4. a \in Seq(Int) BY <1>2 DEF Items
<1> HIDE DEF a
<1>5. CarriedBy(StreamTags, rep_items, 0) \o Shift(CarriedBy(StreamTags, a, 0), Len(rep_items))
        = CarriedBy(StreamTags, rep_items \o a, 0)
  BY <1>4, StreamIs, CarriedBehind
<1> QED BY <1>1, <1>3, <1>5, Zenon DEF Carried, a

LEMMA SendTags ==
  ASSUME rep_items \in Seq(Int), rep_tags = Carried(rep_items), NEW client, NEW k \in 0 .. Len(rep_items),
         kind # "scalar" => k = 1, SendReply(client, k)
  PROVE  /\ rep_tags' = Carried(rep_items')
         /\ reply' = reply \/ \E m : Labelled(m) /\ reply' = Append(reply, m)
<1> DEFINE a == SubSeq(rep_items, 1, k)
           b == SubSeq(rep_items, k + 1, Len(rep_items))
           m == Message(a, Below(rep_tags, k), 0)
<1>1. /\ rep_items' = b /\ rep_tags' = Beyond(rep_tags, k) /\ (reply' = Append(reply, m) \/ reply' = reply)
  BY DEF SendReply
<1>2. a \in Seq(Int) /\ Len(a) = k /\ b \in Seq(Int) /\ a \o b = rep_items BY Cut
<1>3. m.items = a /\ m.tags = Below(rep_tags, k) /\ m.header_offset = 0 BY DEF Message
<1> HIDE DEF a, b, m
<1>4. /\ Below(CarriedBy(StreamTags, a \o b, 0), k) = CarriedBy(StreamTags, a, 0)
      /\ Beyond(CarriedBy(StreamTags, a \o b, 0), k) = CarriedBy(StreamTags, b, 0)
  <2>1. AllTags(TagValues, StreamTags) /\ a \in Seq(Int) /\ b \in Seq(Int) /\ k = Len(a) BY <1>2, StreamIs
  <2> QED BY ONLY <2>1, CarriedCut
<1>5. rep_tags = CarriedBy(StreamTags, a \o b, 0) BY <1>2, Zenon DEF Carried
<1>6. rep_tags' = Carried(rep_items') BY <1>1, <1>4, <1>5, Zenon DEF Carried
<1>7. m.tags = Carried(m.items) BY <1>3, <1>4, <1>5, Zenon DEF Carried
<1>8. Labelled(m) BY <1>2, <1>3, <1>7 DEF Labelled
<1> QED BY <1>1, <1>6, <1>8

LEMMA TagStep == SplitInv /\ TagInv /\ [Next]_vars => TagInv'
<1> SUFFICES ASSUME SplitInv, TagInv, [Next]_vars PROVE TagInv' OBVIOUS
<1> DEFINE Sources == outTags = Carried(out) /\ span.tags = Carried(span.items) /\ pending_tags = Carried(pending_items)
           Held == rep_tags = Carried(rep_items)
           InReplies == \A i \in DOMAIN reply : Labelled(reply[i])
<1>1. UNCHANGED kind
  BY DEF Next, vars, BeginReq, Request, Receive, EndReq, BeginRep, Serve, ServeNothing, EndRep, OtherRequest, SinkRestart,
         OpenSpan, Take, Return, sourceVars
<1>2. Sources /\ Held /\ InReplies BY DEF TagInv
<1>3. /\ span.room \in Nat /\ span.items \in Seq(Int) /\ pending_items \in Seq(Int) /\ out \in Seq(Int)
      /\ Messages(reply) /\ Counts(requests) /\ (roomLeft > 0 => pending_items = <<>>)
      /\ rep_items \in Seq(Int) /\ position \in Nat
  BY DEF SplitInv, Split
<1>4. reply \in Seq(ToSet(reply)) BY <1>3 DEF Messages
<1>5. SUFFICES Sources' /\ Held' /\ InReplies' BY DEF TagInv
<1>6. UNCHANGED sourceVars => Sources' BY <1>2 DEF sourceVars
<1>7. UNCHANGED <<rep_items, rep_tags>> => Held' BY <1>2
<1>8. ASSUME NEW m, Labelled(m) PROVE Labelled(m)' BY <1>1, <1>8 DEF Labelled, Carried
<1>9. UNCHANGED reply => InReplies' BY <1>1, <1>2 DEF Labelled
<1> HIDE DEF Sources, Held, InReplies
<1>10. CASE BeginReq
  <2>1. PICK n \in 1 .. MaxRoom : OpenSpan(n) /\ UNCHANGED <<sinkVars, reply>> BY <1>10 DEF BeginReq, linkVars
  <2>2. span'.tags = Carried(span'.items) /\ pending_tags' = Carried(pending_items')
    BY <1>2, <1>3, <2>1, OpenTags DEF Sources
  <2>3. UNCHANGED <<out, outTags>> BY <2>1 DEF OpenSpan
  <2>4. Sources' BY <1>2, <2>2, <2>3 DEF Sources
  <2> QED BY <1>7, <1>9, <2>1, <2>4 DEF sinkVars
<1>11. CASE Request \/ ServeNothing \/ EndRep \/ OtherRequest \/ UNCHANGED vars
  <2>1. UNCHANGED <<sourceVars, rep_items, rep_tags, reply>>
    BY <1>11 DEF Request, ServeNothing, EndRep, OtherRequest, vars, sinkVars, linkVars
  <2> QED BY <1>6, <1>7, <1>9, <2>1
<1>12. CASE Receive
  <2> DEFINE m == Head(reply)
  <2>1. /\ roomLeft > 0 /\ reply # <<>> /\ Take(m) /\ reply' = Tail(reply) /\ UNCHANGED sinkVars
    BY <1>12 DEF Receive
  <2>2. Labelled(m) /\ \A i \in DOMAIN Tail(reply) : Labelled(Tail(reply)[i])
    BY <1>2, <1>4, <2>1, LabelledAfter DEF InReplies
  <2>3. m.items \in Seq(Int) BY <1>3, <2>1, PipeTail
  <2> HIDE DEF m
  <2>4. InReplies' BY <1>1, <2>1, <2>2 DEF InReplies, Labelled
  <2>5. UNCHANGED <<out, outTags>> BY <2>1 DEF Take
  <2>6. span'.tags = Carried(span'.items) /\ pending_tags' = Carried(pending_items')
    <3>1. CASE kind = "scalar"
      <4>1. TakeScalars(m) BY <2>1, <3>1 DEF Take
      <4> QED BY <1>2, <1>3, <2>1, <2>2, <2>3, <4>1, TakeTags DEF Sources
    <3>2. CASE kind # "scalar"
      <4>1. TakeOne(m) /\ Len(m.items) = 1 BY <2>1, <2>2, <3>2 DEF Take, Labelled
      <4> QED BY <1>2, <1>3, <2>2, <2>3, <4>1, TakeOneTags DEF Sources
    <3> QED BY <3>1, <3>2
  <2>7. Sources' BY <1>2, <2>5, <2>6 DEF Sources
  <2> QED BY <1>7, <2>1, <2>4, <2>7 DEF sinkVars
<1>13. CASE EndReq
  <2>1. Return /\ UNCHANGED <<sinkVars, reply>> BY <1>13 DEF EndReq, linkVars
  <2>2. /\ outTags' = Carried(out') /\ span'.tags = Carried(span'.items)
        /\ UNCHANGED <<pending_items, pending_tags>>
    BY <1>2, <1>3, <2>1, ReturnTags DEF Sources, Return
  <2>3. Sources' BY <1>2, <2>2 DEF Sources
  <2> QED BY <1>7, <1>9, <2>1, <2>3 DEF sinkVars
<1>14. CASE BeginRep
  <2>1. UNCHANGED <<sourceVars, reply>> BY <1>14 DEF BeginRep, linkVars
  <2>2. Held' BY <1>2, <1>3, <1>14, BeginRepTags DEF Held
  <2> QED BY <1>6, <1>9, <2>1, <2>2
<1>15. CASE Serve
  <2> DEFINE client == Head(requests).client
             k == nsend(Head(requests).count)
  <2>1. SendReply(client, k) /\ UNCHANGED sourceVars /\ rep_items # <<>> /\ requests # <<>>
    BY <1>15 DEF Serve, readable
  <2>2. k \in 0 .. Len(rep_items) /\ (kind # "scalar" => k = 1)
    <3> DEFINE n == Len(rep_items)
               count == Head(requests).count
    <3>1. n \in Nat \ {0} BY <1>3, <2>1, EmptySeq
    <3>2. count \in Nat BY <1>3, <2>1, FirstServed DEF Counts
    <3>3. k = IF kind # "scalar" THEN 1 ELSE IF count < n THEN count ELSE n BY DEF nsend
    <3> HIDE DEF n, k, count
    <3>4. k \in 0 .. n /\ (kind # "scalar" => k = 1) BY <3>1, <3>2, <3>3
    <3> QED BY <3>4 DEF n
  <2> HIDE DEF client, k
  <2>3. /\ rep_tags' = Carried(rep_items')
        /\ reply' = reply \/ \E m : Labelled(m) /\ reply' = Append(reply, m)
    BY <1>2, <1>3, <2>1, <2>2, SendTags DEF Held
  <2>4. Held' BY <2>3 DEF Held
  <2>5. ASSUME NEW m, Labelled(m), reply' = Append(reply, m) PROVE InReplies'
    <3>1. \A i \in DOMAIN Append(reply, m) : Labelled(Append(reply, m)[i])
      BY <1>2, <1>4, <2>5, LabelledBehind DEF InReplies
    <3> QED BY <1>1, <2>5, <3>1 DEF InReplies, Labelled
  <2> QED BY <1>6, <1>9, <2>1, <2>3, <2>4, <2>5
<1>16. CASE SinkRestart
  <2>1. UNCHANGED sourceVars /\ rep_items' = <<>> /\ rep_tags' = <<>> /\ (reply' = reply \/ reply' = <<>>)
    BY <1>16 DEF SinkRestart
  <2>2. Held' BY <2>1, CarriedNothing, Zenon DEF Held
  <2>3. reply' = <<>> => InReplies' BY DEF InReplies
  <2> QED BY <1>6, <1>9, <2>1, <2>2, <2>3
<1> QED BY <1>10, <1>11, <1>12, <1>13, <1>14, <1>15, <1>16 DEF Next

-----------------------------------------------------------------------------

LEMMA TagsOnIs == ASSUME NEW x, NEW b PROVE Promise!TagsOn(x, b) = CarriedBy(StreamTags, x, b)
  BY Zenon DEF Promise!TagsOn, Promise!CarriedBy, Promise!FlattenSeq, Promise!OnItem, Promise!MovedTo, Promise!TagsAt,
               Promise!Within, FlattenSeq, OnItem, MovedTo, TagsAt, Within, CarriedBy

\* What is published rises.
LEMMA PublishedRises == SplitInv => \A i \in 1 .. Len(out) - 1 : out[i] < out[i + 1]
<1> SUFFICES ASSUME SplitInv, NEW i \in 1 .. Len(out) - 1 PROVE out[i] < out[i + 1] OBVIOUS
<1> DEFINE s == span.items
           w == OnTheWay(reply)
           y == s \o pending_items \o w
           t == out \o y
<1>1. out \in Seq(Int) /\ s \in Seq(Int) /\ pending_items \in Seq(Int) /\ w \in Seq(Int)
  BY PipeType DEF SplitInv
<1>2. Ascends(out \o s \o pending_items \o w) BY DEF SplitInv, Split, Received
<1> HIDE DEF s, w
<1>3. out \o s \o pending_items \o w = out \o y /\ y \in Seq(Int)
  <2>1. Four(Int, out, s, pending_items, w) BY <1>1 DEF Four
  <2> QED BY ONLY <2>1, Regrouped
<1> HIDE DEF y
<1>4. Ascends(t) BY <1>2, <1>3
<1>5. Len(t) = Len(out) + Len(y) /\ \A j \in 1 .. Len(out) : t[j] = out[j] BY <1>1, <1>3, Concatenation
<1> HIDE DEF t
<1>6. Len(out) \in Nat /\ Len(y) \in Nat BY <1>1, <1>3
<1>7. i \in 1 .. Len(out) /\ i + 1 \in 1 .. Len(out) /\ i \in 1 .. Len(t) - 1 BY <1>5, <1>6
<1>8. t[i] < t[i + 1] BY <1>4, <1>7 DEF Ascends
<1> QED BY <1>5, <1>7, <1>8

LEMMA PublishedRisesNext == (SplitInv => \A i \in 1 .. Len(out) - 1 : out[i] < out[i + 1])'
  BY PublishedRises, PTL

\* Items that are published with their tags are delivered.
LEMMA Delivered ==
  ASSUME out \in Seq(Int), NEW s \in Seq(Int), s # <<>>, out' = out \o s,
         \A i \in 1 .. Len(out') - 1 : out'[i] < out'[i + 1],
         outTags' = outTags \o CarriedBy(StreamTags, s, Len(out))
  PROVE  Promise!Deliver
<1>1. IsStrictPrefix(out, out') /\ SubSeq(out', Len(out) + 1, Len(out')) = s BY Longer
<1>2. Promise!IsStrictPrefix(out, out') BY <1>1 DEF Promise!IsStrictPrefix, Promise!IsPrefix, IsStrictPrefix, IsPrefix
<1>3. Promise!InOrder(out') BY DEF Promise!InOrder
<1>4. outTags' = outTags \o Promise!TagsOn(SubSeq(out', Len(out) + 1, Len(out')), Len(out)) BY <1>1, TagsOnIs, Zenon
<1> QED BY <1>2, <1>3, <1>4, Zenon DEF Promise!Deliver

LEMMA DeliverInit == Init => Promise!Init
  BY DEF Init, SourceInit, Promise!Init

LEMMA DeliverStep == SplitInv /\ SplitInv' /\ TagInv /\ [Next]_vars => [Promise!Deliver]_(Promise!vars)
<1> SUFFICES ASSUME SplitInv, SplitInv', TagInv, [Next]_vars, ~ UNCHANGED Promise!vars
             PROVE  Promise!Deliver
  OBVIOUS
<1>1. ~ UNCHANGED <<out, outTags>> BY DEF Promise!vars
<1>2. Return
  BY <1>1 DEF Next, vars, BeginReq, Request, Receive, EndReq, BeginRep, Serve, ServeNothing, EndRep, OtherRequest,
         SinkRestart, OpenSpan, Take, sourceVars
<1> DEFINE s == span.items
<1>3. out' = out \o s BY <1>2 DEF Return
<1>4. out \in Seq(Int) /\ s \in Seq(Int) BY DEF SplitInv
<1>5. outTags = Carried(out) /\ span.tags = Carried(s) BY DEF TagInv
<1>6. outTags' = outTags \o CarriedBy(StreamTags, s, Len(out)) BY <1>2, <1>4, <1>5, ReturnTags
<1>7. s # <<>>
  <2>1. SUFFICES ASSUME s = <<>> PROVE UNCHANGED <<out, outTags>> BY <1>1
  <2>2. outTags \in Seq(TagsWith(TagValues))
    <3>1. 0 \in Int OBVIOUS
    <3>2. Carried(out) \in Seq(TagsWith(TagValues)) BY <1>4, <3>1, StreamIs, CarriedType DEF Carried
    <3> QED BY <1>5, <3>2
  <2>3. CarriedBy(StreamTags, s, Len(out)) = <<>> BY <2>1, CarriedNone
  <2>4. out \o <<>> = out /\ outTags \o <<>> = outTags BY <1>4, <2>2, ConcatEmptySeq
  <2> QED BY <1>3, <1>6, <2>1, <2>3, <2>4
<1>8. \A i \in 1 .. Len(out') - 1 : out'[i] < out'[i + 1] BY PublishedRisesNext
<1> HIDE DEF s
<1> QED BY <1>3, <1>4, <1>6, <1>7, <1>8, Delivered

\* Whatever others ask for and whichever sinks end, the source publishes items in
\* their order, each once at most, and every tag of them once and where it was.
THEOREM AnswersKeepTheirTags == Spec => TaggedStreamSafety
<1> QED BY SplitInit, SplitStep, TagInit, TagStep, DeliverInit, DeliverStep, PTL
        DEF Spec, TaggedStreamSafety, Promise!Spec
=============================================================================

---------------------- MODULE HttpTimeSeriesSink_proofs ----------------------
(***************************************************************************)
(* Proofs about the HTTP sink: its service, for every set of addresses and *)
(* settings and every number of concurrent requests, and its window, for   *)
(* every shape of it and every cut of the stream into calls.               *)
(***************************************************************************)
EXTENDS HttpTimeSeriesSink, CommonLemmas

\* The service's variables and what ties them to the settings and the window.
ServiceInv ==
  /\ settings \in Settings
  /\ call \in {"none", "start", "stop", "rebind"}
  /\ handlers \in Nat
  /\ accepting \in BOOLEAN /\ stopped \in BOOLEAN
  /\ accepting => call = "none"
  /\ channels = AtLeastOne(settings.channels) /\ windowSize = AtLeastOne(settings.window_size)
  /\ NoHandlerWithoutServer
  /\ ServesItsSettings

LEMMA ServiceInit == Init => ServiceInv
<1> SUFFICES ASSUME Init PROVE ServiceInv
  OBVIOUS
<1>1. stopped /\ ~ accepting /\ stopped \in BOOLEAN /\ accepting \in BOOLEAN /\ call = "none"
  BY Zenon DEF Init
<1>2. server = NoAddress /\ handlers = 0
  BY Zenon DEF Init
<1>3. PICK a \in Addresses :
        settings = [address |-> a, channels |-> DefaultChannels, window_size |-> DefaultWindow]
  BY Zenon DEF Init
<1>4. channels = DefaultChannels /\ windowSize = DefaultWindow
  BY Zenon DEF Init, WindowInit
<1>5. settings \in Settings
  BY <1>3 DEF Settings
<1>6. channels = AtLeastOne(settings.channels) /\ windowSize = AtLeastOne(settings.window_size)
  BY <1>3, <1>4, DefaultsAssumption DEF AtLeastOne
<1>7. QED
  BY <1>1, <1>2, <1>5, <1>6 DEF ServiceInv, NoHandlerWithoutServer, ServesItsSettings

LEMMA ServiceStep == ServiceInv /\ [Next]_vars => ServiceInv'
<1> SUFFICES ASSUME ServiceInv, [Next]_vars PROVE ServiceInv'
  OBVIOUS
<1> USE SinkAssumption
    DEF ServiceInv, NoHandlerWithoutServer, ServesItsSettings, serviceVars, windowVars, StopListening
<1>1. CASE start
  BY <1>1 DEF start, configure, Settings
<1>2. CASE stop
  BY <1>2 DEF stop
<1>3. CASE settingsChanged
  <2>1. PICK s \in Settings, windowNamed \in BOOLEAN, addressNamed \in BOOLEAN :
          /\ ~ windowNamed => s.channels = settings.channels /\ s.window_size = settings.window_size
          /\ ~ addressNamed => s.address = settings.address
          /\ settings' = s
          /\ IF windowNamed THEN configure(s.channels, s.window_size) ELSE UNCHANGED windowVars
          /\ IF addressNamed THEN StopListening("rebind") ELSE UNCHANGED <<serviceVars, call>>
    BY <1>3 DEF settingsChanged
  <2>2. channels' = AtLeastOne(s.channels) /\ windowSize' = AtLeastOne(s.window_size)
    BY <1>3, <2>1 DEF settingsChanged, configure
  <2>3. QED
    BY <1>3, <2>1, <2>2 DEF settingsChanged
<1>4. CASE work
  BY <1>4 DEF work, processBulk, pushInterleaved
<1>5. CASE FinishStop
  BY <1>5 DEF FinishStop, joined
<1>6. CASE Bind
  BY <1>6 DEF Bind, joined, Settings
<1>7. CASE BindFails
  BY <1>7 DEF BindFails, joined
<1>8. CASE Get
  BY <1>8 DEF Get, Settings
<1>9. CASE Respond
  BY <1>9 DEF Respond
<1>10. CASE UNCHANGED vars
  BY <1>10 DEF vars
<1>11. QED
  BY <1>1, <1>2, <1>3, <1>4, <1>5, <1>6, <1>7, <1>8, <1>9, <1>10 DEF Next, Service

\* ServiceInv is inductive.
LEMMA ServiceInvariance == Spec => []ServiceInv
BY ServiceInit, ServiceStep, PTL DEF Spec

\* No request handler, which holds a reference to the block, outlives the
\* server: stop() and every rebind wait for the handlers first.
THEOREM HandlersHaveServer == Spec => []NoHandlerWithoutServer
<1>1. ServiceInv => NoHandlerWithoutServer
  BY DEF ServiceInv
<1>2. QED
  BY ServiceInvariance, <1>1, PTL

\* Whatever the settings are changed to and however often a bind fails, a
\* listening server is the one the settings ask for.
THEOREM ListensAsConfigured == Spec => []ServesItsSettings
<1>1. ServiceInv => ServesItsSettings
  BY DEF ServiceInv
<1>2. QED
  BY ServiceInvariance, <1>1, PTL

-----------------------------------------------------------------------------
(* The window *)

\* A window of w frames of c samples that holds the newest of the samples rec:
\* frame f of them is in slot f modulo w, and what is not a whole frame yet is
\* pending.
HoldsNewest(c, w, rec, rest, at, count, slots) ==
  LET frames == Len(rec) \div c IN
  /\ c \in Nat \ {0} /\ w \in Nat \ {0} /\ rec \in Seq(Nat)
  /\ rest = SubSeq(rec, frames * c + 1, Len(rec))
  /\ at = frames % w
  /\ count = (IF frames < w THEN frames ELSE w)
  /\ \A ch \in 0 .. c - 1 : \A f \in frames - count .. frames - 1 :
       slots[ch][f % w] = rec[f * c + ch + 1]

\* The slots before and after the k frames of all are written from slot at on.
Writes(c, w, at, all, k, slots, slots2) ==
  \A ch \in 0 .. c - 1 : \A i \in 0 .. w - 1 :
    LET on == {f \in 0 .. k - 1 : (at + f) % w = i} IN
    slots2[ch][i] = IF on = {} THEN slots[ch][i] ELSE all[Max(on) * c + ch + 1]

WindowInv ==
  /\ position \in Nat
  /\ HoldsNewest(channels, windowSize, received, pending, writeIndex, filled, ring)

LEMMA MinOfTwo ==
  ASSUME NEW a \in Int, NEW b \in Int PROVE Min({a, b}) = IF a < b THEN a ELSE b
<1> DEFINE P(x) == x \in {a, b} /\ \A y \in {a, b} : x <= y
<1>1. P(IF a < b THEN a ELSE b) OBVIOUS
<1>2. \A x : P(x) => x = IF a < b THEN a ELSE b OBVIOUS
<1> QED BY <1>1, <1>2 DEF Min

LEMMA MaxIs ==
  ASSUME NEW S, S \subseteq Int, NEW m \in S, \A x \in S : x <= m PROVE Max(S) = m
<1>1. \A x \in S : m >= x OBVIOUS
<1>2. ASSUME NEW x \in S, \A y \in S : x >= y PROVE x = m BY <1>2
<1> QED BY <1>1, <1>2 DEF Max

\* A window that was just made holds nothing.
LEMMA HoldsNothing ==
  ASSUME NEW c \in Nat \ {0}, NEW w \in Nat \ {0}, NEW slots
  PROVE  HoldsNewest(c, w, <<>>, <<>>, 0, 0, slots)
<1>1. Len(<<>>) = 0 /\ <<>> \in Seq(Nat) OBVIOUS
<1>2. 0 \div c = 0 /\ 0 % w = 0
  <2>1. 0 = 0 * c + 0 /\ 0 = 0 * w + 0 /\ 0 \in 0 .. c - 1 /\ 0 \in 0 .. w - 1 OBVIOUS
  <2>2. 0 \div c = 0 BY <2>1, DivisionIs
  <2>3. 0 % w = 0 BY <2>1, DivisionIs
  <2> QED BY <2>2, <2>3
<1>3. SubSeq(<<>>, 0 * c + 1, 0) = <<>>
  <2>1. 0 * c + 1 = 1 OBVIOUS
  <2> QED BY <2>1
<1>4. \A f \in 0 - 0 .. 0 - 1 : FALSE OBVIOUS
<1> QED BY <1>1, <1>2, <1>3, <1>4 DEF HoldsNewest

LEMMA ShapeOfWindow == ASSUME NEW n \in Nat PROVE AtLeastOne(n) \in Nat \ {0}
  BY DEF AtLeastOne

LEMMA Configured ==
  ASSUME position \in Nat, NEW c \in Nat, NEW w \in Nat, configure(c, w)
  PROVE  WindowInv'
<1>1. channels' \in Nat \ {0} /\ windowSize' \in Nat \ {0} BY ShapeOfWindow DEF configure
<1>2. /\ position' \in Nat
      /\ pending' = <<>> /\ writeIndex' = 0 /\ filled' = 0 /\ received' = <<>>
  BY DEF configure
<1>3. HoldsNewest(channels', windowSize', <<>>, <<>>, 0, 0, ring') BY <1>1, HoldsNothing
<1> QED BY <1>2, <1>3, Zenon DEF WindowInv

\* q frames of c samples taken from a stream of l, r samples are left: as many
\* fewer frames.
FramesTaken(l, c, q, r) ==
  l \in Nat /\ c \in Nat \ {0} /\ q \in Nat /\ r \in Nat /\ r = l - q * c
FramesLeft(l, c, q, r) == r \div c = (l \div c) - q

LEMMA FramesTakenAway ==
  ASSUME NEW l, NEW c, NEW q, NEW r, FramesTaken(l, c, q, r)
  PROVE  FramesLeft(l, c, q, r)
<1>1. l \in Nat /\ c \in Nat \ {0} /\ q \in Nat /\ r \in Nat BY DEF FramesTaken
<1>2. LeftOver(l, q, c, r) BY DEF FramesTaken, LeftOver
<1>3. r \div c = (l \div c) - q BY ONLY <1>1, <1>2, DivisionFrom
<1> QED BY <1>3 DEF FramesLeft

\* What is pushed goes on where the pending samples end.  Of the frames that fall
\* on one slot the last is one of the newest the window keeps.
LEMMA HoldsPushed ==
  ASSUME NEW c, NEW w, NEW rec, NEW rest, NEW at, NEW count, NEW slots,
         HoldsNewest(c, w, rec, rest, at, count, slots),
         NEW input \in Seq(Nat), NEW all, all = rest \o input,
         NEW k, k = Len(all) \div c,
         NEW slots2, Writes(c, w, at, all, k, slots, slots2)
  PROVE  HoldsNewest(c, w, rec \o input, SubSeq(all, k * c + 1, Len(all)),
                     (at + k) % w, Min({count + k, w}), slots2)
<1> DEFINE l    == Len(rec)
           f1   == l \div c
           s1   == f1 * c
           rec2 == rec \o input
           l2   == Len(rec2)
           f2   == l2 \div c
           s2   == f2 * c
           a    == Len(all)
<1>1. /\ c \in Nat \ {0} /\ w \in Nat \ {0} /\ rec \in Seq(Nat) /\ l \in Nat
      /\ rest = SubSeq(rec, s1 + 1, l) /\ at = f1 % w /\ count = (IF f1 < w THEN f1 ELSE w)
      /\ \A ch \in 0 .. c - 1 : \A f \in f1 - count .. f1 - 1 : slots[ch][f % w] = rec[f * c + ch + 1]
  BY DEF HoldsNewest
<1>2. f1 \in Nat /\ s1 \in 0 .. l
  <2>1. f1 \in Nat /\ l = f1 * c + (l % c) /\ l % c \in Nat BY <1>1, Division
  <2>2. s1 \in Nat
    <3>1. ASSUME NEW x \in Nat, NEW y \in Nat PROVE x * y \in Nat BY SMT
    <3> QED BY <1>1, <2>1, <3>1
  <2> HIDE DEF f1
  <2> QED BY <1>1, <2>1, <2>2
<1>3. /\ rec2 \in Seq(Nat) /\ l2 = l + Len(input) /\ l2 \in Nat /\ Len(input) \in Nat
      /\ (\A i \in 1 .. l : rec2[i] = rec[i])
      /\ (\A i \in l + 1 .. l2 : rec2[i] = input[i - l])
  <2>1. /\ rec2 \in Seq(Nat) /\ l2 = l + Len(input) /\ (\A i \in 1 .. l : rec2[i] = rec[i])
        /\ (\A i \in l + 1 .. l + Len(input) : rec2[i] = input[i - l])
    BY <1>1, Concatenation
  <2>2. Len(input) \in Nat OBVIOUS
  <2> HIDE DEF rec2
  <2> QED BY <1>1, <2>1, <2>2
<1> HIDE DEF f1, s1, rec2, l2, l
<1>4. rest \in Seq(Nat) /\ Len(rest) = l - s1 /\ \A i \in 1 .. l - s1 : rest[i] = rec[s1 + i]
  <2>1. rest \in Seq(Nat) /\ Len(rest) = l - s1 BY <1>1, <1>2, Cut DEF l
  <2>2. ASSUME NEW i \in 1 .. l - s1 PROVE rest[i] = rec[s1 + i]
    <3> DEFINE t == SubSeq(rec, s1 + 1, l)
    <3>1. t = [j \in 1 .. l - s1 |-> rec[s1 + 1 + j - 1]]
      <4>1. s1 \in Int /\ l \in Int /\ l = Len(rec) /\ s1 <= l /\ s1 >= 0 BY <1>1, <1>2 DEF l
      <4> QED BY <1>1, <4>1
    <3>2. s1 + 1 + i - 1 = s1 + i BY <1>1, <1>2
    <3> HIDE DEF t
    <3> QED BY <1>1, <3>1, <3>2 DEF t
  <2> QED BY <2>1, <2>2
<1>5. /\ all \in Seq(Nat) /\ a = l2 - s1 /\ a \in Nat
      /\ \A x \in 1 .. a : all[x] = rec2[s1 + x]
  <2>1. /\ all \in Seq(Nat) /\ a = Len(rest) + Len(input)
        /\ (\A i \in 1 .. Len(rest) : all[i] = rest[i])
        /\ (\A i \in Len(rest) + 1 .. Len(rest) + Len(input) : all[i] = input[i - Len(rest)])
    <3>1. rest \in Seq(Nat) /\ input \in Seq(Nat) BY <1>4
    <3> QED BY <3>1, Concatenation
  <2> HIDE DEF a
  <2>2. a = l2 - s1 /\ a \in Nat BY <1>1, <1>2, <1>3, <1>4, <2>1
  <2>3. ASSUME NEW x \in 1 .. a PROVE all[x] = rec2[s1 + x]
    <3> DEFINE y == s1 + x
    <3>1. CASE x <= l - s1
      <4>1. x \in 1 .. l - s1 /\ y \in 1 .. l BY <1>1, <1>2, <2>2, <3>1
      <4>2. all[x] = rest[x] /\ rest[x] = rec[y] BY <1>4, <2>1, <4>1
      <4> HIDE DEF y
      <4>3. rec2[y] = rec[y] BY <1>3, <4>1
      <4> QED BY <4>2, <4>3 DEF y
    <3>2. CASE ~ (x <= l - s1)
      <4>1. x \in l - s1 + 1 .. a /\ y \in l + 1 .. l2 /\ y - l = x - (l - s1)
        BY <1>1, <1>2, <1>3, <2>2, <3>2
      <4>2. all[x] = input[x - (l - s1)]
        <5>1. l - s1 + Len(input) = a BY <1>1, <1>2, <1>3, <2>2
        <5> QED BY <1>4, <2>1, <4>1, <5>1
      <4> HIDE DEF y
      <4>3. rec2[y] = input[y - l] BY <1>3, <4>1
      <4> QED BY <4>1, <4>2, <4>3 DEF y
    <3> QED BY <3>1, <3>2
  <2> QED BY <2>1, <2>2, <2>3 DEF a
<1> HIDE DEF a
<1>6. /\ f2 \in Nat /\ s2 \in Nat /\ s2 <= l2 /\ k \in Nat /\ k = f2 - f1 /\ k * c = s2 - s1 /\ k * c \in 0 .. a
  <2>1. f2 \in Nat /\ l2 = f2 * c + (l2 % c) /\ l2 % c \in Nat BY <1>1, <1>3, Division
  <2>2. a = l2 - f1 * c BY <1>5 DEF s1
  <2>3. k = f2 - f1
    <3>1. l2 \in Nat /\ c \in Nat \ {0} /\ f1 \in Nat /\ a \in Nat BY <1>1, <1>2, <1>3, <1>5
    <3>2. FramesTaken(l2, c, f1, a) BY ONLY <2>2, <3>1 DEF FramesTaken
    <3>3. FramesLeft(l2, c, f1, a) BY ONLY <3>2, FramesTakenAway
    <3>4. a \div c = (l2 \div c) - f1 BY ONLY <3>3 DEF FramesLeft
    <3> QED BY <3>4 DEF a
  <2>4. k \in Nat
    <3>1. k = a \div c BY DEF a
    <3> QED BY <1>1, <1>5, <3>1, Division
  <2> HIDE DEF f2
  <2>5. k * c = f2 * c - f1 * c
    <3>1. (f2 - f1) * c = f2 * c - f1 * c BY <1>1, <1>2, <2>1, Multiples
    <3> QED BY <2>3, <3>1, Zenon
  <2>6. k * c \in Nat /\ f2 * c \in Nat
    <3>1. ASSUME NEW x \in Nat, NEW y \in Nat PROVE x * y \in Nat BY SMT
    <3> QED BY <1>1, <2>1, <2>4, <3>1
  <2> DEFINE kc == k * c
  <2>7. kc = s2 - s1 /\ kc \in Nat /\ s2 \in Nat BY <2>5, <2>6 DEF s1
  <2>8. l2 = s2 + (l2 % c) BY <2>1
  <2> HIDE DEF kc, s2
  <2>9. s2 <= l2 /\ kc \in 0 .. a BY <1>2, <1>3, <1>5, <2>1, <2>7, <2>8
  <2> QED BY <2>1, <2>3, <2>4, <2>7, <2>9 DEF kc
<1> HIDE DEF f2, s2
<1>6a. /\ c \in Int /\ c > 0 /\ w \in Int /\ w > 0 /\ l \in Int /\ l2 \in Int /\ l <= l2
       /\ f1 \in Int /\ f1 >= 0 /\ s1 \in Int /\ s1 >= 0 /\ s1 <= l
       /\ f2 \in Int /\ f2 >= 0 /\ s2 \in Int /\ s2 >= 0 /\ s2 <= l2
       /\ k \in Int /\ k >= 0 /\ k = f2 - f1 /\ a \in Int /\ a = l2 - s1
       /\ count \in Int /\ count = (IF f1 < w THEN f1 ELSE w)
  <2>1. c \in Nat \ {0} /\ w \in Nat \ {0} /\ l \in Nat /\ count = (IF f1 < w THEN f1 ELSE w) BY <1>1
  <2>2. f1 \in Nat /\ s1 \in Nat /\ s1 <= l BY <1>2, <2>1
  <2>3. l2 \in Nat /\ l <= l2 BY <1>3, <2>1
  <2>4. a \in Nat /\ a = l2 - s1 BY <1>5
  <2>5. f2 \in Nat /\ s2 \in Nat /\ s2 <= l2 /\ k \in Nat /\ k = f2 - f1 BY <1>6
  <2> QED BY <2>1, <2>2, <2>3, <2>4, <2>5
<1>7. (at + k) % w = f2 % w
  <2>1. ((f1 % w) + k) % w = (f1 + k) % w BY <1>1, <1>2, <1>6, RemainderOfSum
  <2>2. f1 + k = f2 BY <1>6a
  <2> QED BY <1>1, <2>1, <2>2
<1> DEFINE count2 == IF f2 < w THEN f2 ELSE w
<1>8. Min({count + k, w}) = count2
  <2>1. count + k \in Int /\ w \in Int BY <1>6a
  <2>2. Min({count + k, w}) = IF count + k < w THEN count + k ELSE w BY <2>1, MinOfTwo
  <2> QED BY <1>6a, <2>2
<1>9. SubSeq(all, k * c + 1, a) = SubSeq(rec2, s2 + 1, l2)
  <2> DEFINE kc == k * c
             x == SubSeq(all, kc + 1, a)
             y == SubSeq(rec2, s2 + 1, l2)
  <2>1. kc \in 0 .. a /\ kc = s2 - s1 BY <1>6
  <2> HIDE DEF kc
  <2>2. x = [j \in 1 .. a - kc |-> all[kc + 1 + j - 1]]
    <3>1. a = Len(all) /\ kc \in Int /\ a \in Int /\ kc >= 0 /\ kc <= a BY <1>6a, <2>1 DEF a
    <3>2. all \in Seq(Nat) BY <1>5
    <3> QED BY <3>1, <3>2
  <2>3. y = [j \in 1 .. l2 - s2 |-> rec2[s2 + 1 + j - 1]]
    <3>1. l2 = Len(rec2) /\ l2 \in Int /\ s2 \in Int /\ s2 >= 0 /\ s2 <= l2 BY <1>6a DEF l2
    <3>2. rec2 \in Seq(Nat) BY <1>3
    <3> QED BY <3>1, <3>2
  <2>4. a - kc = l2 - s2 BY <1>2, <1>3, <1>5, <1>6, <2>1
  <2>5. ASSUME NEW j \in 1 .. l2 - s2 PROVE all[kc + 1 + j - 1] = rec2[s2 + 1 + j - 1]
    <3> DEFINE u == kc + 1 + j - 1
               v == s2 + 1 + j - 1
    <3>1. u \in 1 .. a /\ s1 + u = v BY <1>6a, <2>1, <2>4
    <3> HIDE DEF u
    <3>2. all[u] = rec2[s1 + u] BY <1>5, <3>1
    <3> QED BY <3>1, <3>2 DEF u
  <2> HIDE DEF x, y
  <2>6. x = y BY <2>2, <2>3, <2>4, <2>5
  <2> QED BY <2>6 DEF x, y, kc
<1>10. ASSUME NEW ch \in 0 .. c - 1, NEW f \in f2 - count2 .. f2 - 1
       PROVE  slots2[ch][f % w] = rec2[f * c + ch + 1]
  <2> DEFINE i == f % w
             on == {g \in 0 .. k - 1 : (at + g) % w = i}
             fc == f * c
  <2>1. f \in Nat /\ f < f2 /\ f2 <= f + w /\ ch \in Nat /\ ch < c BY <1>1, <1>6
  <2>2. i \in 0 .. w - 1 BY <1>1, <2>1, Division
  <2>3. slots2[ch][i] = IF on = {} THEN slots[ch][i] ELSE all[Max(on) * c + ch + 1]
    <3> HIDE DEF i
    <3> QED BY <2>2 DEF Writes
  <2>4. fc \in Int /\ fc + c <= s2
    <3>1. (f + 1) * c <= f2 * c BY <1>1, <1>6, <2>1, MultiplesGrow
    <3>2. (f + 1) * c = f * c + 1 * c /\ f * c \in Int BY <1>1, <2>1, Multiples
    <3>3. f2 * c = s2 BY DEF s2
    <3> DEFINE y == (f + 1) * c
    <3> HIDE DEF y
    <3>4. y <= s2 /\ y = fc + 1 * c /\ fc \in Int BY <3>1, <3>2, <3>3 DEF y
    <3> HIDE DEF fc
    <3> QED BY <1>6a, <3>4
  <2>5. ASSUME NEW g \in 0 .. k - 1 PROVE (at + g) % w = (f1 + g) % w
    <3>1. g \in Nat BY <1>6a
    <3>2. ((f1 % w) + g) % w = (f1 + g) % w BY <1>1, <1>2, <3>1, RemainderOfSum
    <3> QED BY <1>1, <3>2
  <2>6. ASSUME NEW g \in 0 .. k - 1, f < f1 + g PROVE g \notin on
    <3> DEFINE x == f1 + g
    <3>1. x \in Nat /\ f < x /\ x < f + w BY <1>6a, <2>1, <2>6
    <3> HIDE DEF x
    <3>2. f % w # x % w BY <1>1, <2>1, <3>1, Apart
    <3> QED BY <2>5, <3>2 DEF x
  <2>7. CASE f1 <= f
    <3> DEFINE m == f - f1
               mc == m * c
               x == mc + ch + 1
    <3>1. m \in 0 .. k - 1 /\ f1 + m = f BY <1>2, <1>6, <2>1, <2>7
    <3>2. m \in on
      <4>1. (at + m) % w = (f1 + m) % w
        <5> HIDE DEF m
        <5> QED BY <2>5, <3>1
      <4> QED BY <3>1, <4>1
    <3>3. \A g \in on : g <= m BY <1>2, <1>6, <2>1, <2>6
    <3>4. Max(on) = m
      <4>1. on \subseteq Int OBVIOUS
      <4> HIDE DEF on, m
      <4> QED BY <3>2, <3>3, <4>1, MaxIs
    <3>5. mc = fc - s1 /\ mc \in Int
      <4>1. (f - f1) * c = f * c - f1 * c /\ (f - f1) * c \in Int BY <1>1, <1>2, <2>1, Multiples
      <4> QED BY <4>1 DEF s1
    <3>6. mc >= 0
      <4>1. 0 * c <= m * c BY <1>1, <3>1, MultiplesGrow
      <4> QED BY <4>1, <1>1
    <3> HIDE DEF mc, fc, m
    <3>7. x \in 1 .. a /\ s1 + x = fc + ch + 1 BY <1>1, <1>2, <1>3, <1>5, <1>6, <2>1, <2>4, <3>5, <3>6
    <3>8. all[x] = rec2[s1 + x]
      <4> HIDE DEF x
      <4> QED BY <1>5, <3>7
    <3>9. slots2[ch][i] = all[x]
      <4>1. on # {} BY <3>2
      <4> HIDE DEF on, i
      <4> QED BY <2>3, <3>4, <4>1 DEF mc
    <3> QED BY <3>7, <3>8, <3>9 DEF fc
  <2>8. CASE ~ (f1 <= f)
    <3>1. on = {}
      <4>1. \A g \in 0 .. k - 1 : f < f1 + g BY <1>2, <1>6, <2>1, <2>8
      <4> QED BY <2>6, <4>1
    <3>2. f \in f1 - count .. f1 - 1 BY <1>6a, <2>1, <2>8
    <3>3. slots[ch][f % w] = rec[f * c + ch + 1] BY <1>1, <3>2
    <3>4. fc + c <= s1
      <4>1. (f + 1) * c <= f1 * c BY <1>1, <1>2, <2>1, <2>8, MultiplesGrow
      <4>2. (f + 1) * c = f * c + 1 * c /\ f * c \in Int BY <1>1, <2>1, Multiples
      <4>3. f1 * c = s1 BY DEF s1
      <4> DEFINE y == (f + 1) * c
      <4> HIDE DEF y
      <4>4. y <= s1 /\ y = fc + 1 * c /\ fc \in Int BY <4>1, <4>2, <4>3 DEF y
      <4> HIDE DEF fc
      <4> QED BY <1>6a, <4>4
    <3>5. fc >= 0
      <4>1. 0 * c <= f * c BY <1>1, <2>1, MultiplesGrow
      <4> QED BY <4>1, <1>1
    <3> DEFINE x == fc + ch + 1
    <3> HIDE DEF fc
    <3>6. x \in 1 .. l BY <1>1, <1>2, <2>1, <2>4, <3>4, <3>5
    <3>7. rec2[x] = rec[x]
      <4> HIDE DEF x
      <4> QED BY <1>3, <3>6
    <3> HIDE DEF on, i
    <3>8. slots2[ch][i] = slots[ch][i] BY <2>3, <3>1
    <3> QED BY <3>3, <3>7, <3>8 DEF i, fc
  <2> QED BY <2>7, <2>8
<1>11. HoldsNewest(c, w, rec2, SubSeq(rec2, s2 + 1, l2), f2 % w, count2, slots2)
  BY <1>1, <1>3, <1>10 DEF HoldsNewest, f2, s2, l2
<1> QED BY <1>7, <1>8, <1>9, <1>11 DEF rec2, a

LEMMA WindowStarts == WindowInit => WindowInv
<1> SUFFICES ASSUME WindowInit PROVE WindowInv OBVIOUS
<1>1. HoldsNewest(DefaultChannels, DefaultWindow, <<>>, <<>>, 0, 0, ring)
  BY DefaultsAssumption, HoldsNothing
<1>2. /\ channels = DefaultChannels /\ windowSize = DefaultWindow /\ pending = <<>>
      /\ writeIndex = 0 /\ filled = 0 /\ position = 0 /\ received = <<>>
  BY DEF WindowInit
<1>3. position \in Nat BY <1>2
<1> QED BY <1>1, <1>2, <1>3, Zenon DEF WindowInv

LEMMA WindowWorks == WindowInv /\ processBulk => WindowInv'
<1> SUFFICES ASSUME WindowInv, processBulk PROVE WindowInv' OBVIOUS
<1>1. PICK n \in 1 .. MaxChunk :
        pushInterleaved(NextSamples(n)) /\ position' = position + n
  BY DEF processBulk
<1> DEFINE input == NextSamples(n)
           all   == pending \o input
           k     == Len(all) \div channels
<1>2. position \in Nat /\ n \in Nat /\ position' \in Nat
  BY <1>1, WindowBounds DEF WindowInv
<1>3. input \in Seq(Nat)
  <2>1. \A i \in 1 .. n : position + i - 1 \in Nat BY <1>2
  <2> QED BY <1>2, <2>1 DEF NextSamples
<1>4. HoldsNewest(channels, windowSize, received, pending, writeIndex, filled, ring)
  BY DEF WindowInv
<1>5. /\ ring' = Written(all)
      /\ writeIndex' = (writeIndex + k) % windowSize
      /\ filled' = Min({filled + k, windowSize})
      /\ pending' = Rest(all)
      /\ received' = received \o input
      /\ channels' = channels /\ windowSize' = windowSize
  <2>1. pushInterleaved(input) BY <1>1
  <2> HIDE DEF input
  <2> QED BY <2>1 DEF pushInterleaved
<1>6. Writes(channels, windowSize, writeIndex, all, k, ring, ring')
  <2> HIDE DEF all
  <2> QED BY <1>5 DEF Written, Writes
<1>7. HoldsNewest(channels, windowSize, received \o input, SubSeq(all, k * channels + 1, Len(all)),
                  (writeIndex + k) % windowSize, Min({filled + k, windowSize}), ring')
  <2> HIDE DEF input
  <2>1. all = pending \o input OBVIOUS
  <2> HIDE DEF all
  <2>2. k = Len(all) \div channels OBVIOUS
  <2> HIDE DEF k
  <2> QED BY ONLY <1>3, <1>4, <1>6, <2>1, <2>2, HoldsPushed
<1>8. pending' = SubSeq(all, k * channels + 1, Len(all)) BY <1>5 DEF Rest
<1> HIDE DEF input, all, k
<1> QED BY <1>2, <1>5, <1>7, <1>8, Zenon DEF WindowInv

LEMMA WindowStep == WindowInv /\ ServiceInv /\ [Next]_vars => WindowInv'
<1> SUFFICES ASSUME WindowInv, ServiceInv, [Next]_vars PROVE WindowInv' OBVIOUS
<1>1. position \in Nat BY DEF WindowInv
<1>2. ASSUME NEW s \in Settings PROVE s.channels \in Nat /\ s.window_size \in Nat
  BY SinkAssumption, DefaultsAssumption DEF Settings
<1>3. CASE UNCHANGED windowVars
  BY <1>3 DEF WindowInv, windowVars
<1>4. CASE start
  <2>1. settings.channels \in Nat /\ settings.window_size \in Nat BY <1>2 DEF ServiceInv
  <2>2. configure(settings.channels, settings.window_size) BY <1>4 DEF start
  <2> QED BY <1>1, <2>1, <2>2, Configured
<1>5. CASE settingsChanged
  <2>1. PICK s \in Settings, windowNamed \in BOOLEAN :
          IF windowNamed THEN configure(s.channels, s.window_size) ELSE UNCHANGED windowVars
    BY <1>5 DEF settingsChanged
  <2> QED BY <1>1, <1>2, <1>3, <2>1, Configured
<1>6. CASE work
  BY <1>6, WindowWorks DEF work
<1>7. CASE stop \/ Service \/ Get \/ Respond \/ UNCHANGED vars
  BY <1>3, <1>7 DEF stop, Service, FinishStop, Bind, BindFails, Get, Respond, vars
<1> QED BY <1>4, <1>5, <1>6, <1>7 DEF Next

\* What a reader finds that goes around the ring from its oldest frame.
ReadsNewest(c, w, rec, at, count, slots) ==
  LET frames == Len(rec) \div c
      first  == IF count = w THEN at ELSE 0
  IN  /\ count = Min({frames, w})
      /\ \A ch \in 0 .. c - 1 : \A i \in 1 .. count :
           slots[ch][(first + i - 1) % w] = rec[(frames - count + i - 1) * c + ch + 1]

LEMMA NewestRead ==
  ASSUME NEW c, NEW w, NEW rec, NEW rest, NEW at, NEW count, NEW slots,
         HoldsNewest(c, w, rec, rest, at, count, slots)
  PROVE  ReadsNewest(c, w, rec, at, count, slots)
<1> DEFINE frames == Len(rec) \div c
           first  == IF count = w THEN at ELSE 0
<1>1. /\ c \in Nat \ {0} /\ w \in Nat \ {0} /\ Len(rec) \in Nat
      /\ at = frames % w /\ count = (IF frames < w THEN frames ELSE w)
      /\ \A ch \in 0 .. c - 1 : \A f \in frames - count .. frames - 1 :
           slots[ch][f % w] = rec[f * c + ch + 1]
  BY DEF HoldsNewest
<1>2. frames \in Nat BY <1>1, Division
<1> HIDE DEF frames
<1>3. count = Min({frames, w})
  <2>1. frames \in Int /\ w \in Int BY <1>1, <1>2
  <2>2. Min({frames, w}) = IF frames < w THEN frames ELSE w BY <2>1, MinOfTwo
  <2> QED BY <1>1, <2>2, Zenon
<1>4. ASSUME NEW ch \in 0 .. c - 1, NEW i \in 1 .. count
      PROVE  slots[ch][(first + i - 1) % w] = rec[(frames - count + i - 1) * c + ch + 1]
  <2> DEFINE f == frames - count + i - 1
             j == i - 1
             at2 == first + j
  <2>1. /\ f \in frames - count .. frames - 1 /\ f \in Nat /\ j \in Nat
        /\ f = (frames - count) + j /\ first + i - 1 = at2
    <3>1. first \in Int BY <1>1, <1>2, Division
    <3> QED BY <1>1, <1>2, <3>1
  <2>2. slots[ch][f % w] = rec[f * c + ch + 1]
    <3> HIDE DEF f
    <3> QED BY <1>1, <2>1
  <2>3. at2 % w = f % w
    <3>1. CASE count = w
      <4>1. ((frames % w) + j) % w = (frames + j) % w
        <5> HIDE DEF j
        <5> QED BY <1>1, <1>2, <2>1, RemainderOfSum
      <4>2. frames + j = f + w BY <1>2, <1>1, <2>1, <3>1
      <4>3. (f + w) % w = f % w
        <5> HIDE DEF f
        <5> QED BY <1>1, <2>1, FullTurn
      <4>4. first = frames % w BY <1>1, <3>1
      <4> HIDE DEF f, j
      <4> QED BY <4>1, <4>2, <4>3, <4>4
    <3>2. CASE count # w
      <4>1. count = frames /\ first = 0 BY <1>1, <3>2
      <4>2. at2 = f BY <1>2, <4>1, <2>1
      <4> HIDE DEF at2, f
      <4> QED BY <4>2
    <3> QED BY <3>1, <3>2
  <2> DEFINE at3 == first + i - 1
  <2>4. at3 = at2 BY <2>1
  <2> HIDE DEF f, at2, at3
  <2>5. slots[ch][at3 % w] = rec[f * c + ch + 1] BY <2>2, <2>3, <2>4
  <2> QED BY <2>5 DEF f, at3
<1> QED BY <1>3, <1>4 DEF ReadsNewest, frames

LEMMA WindowShown == WindowInv => SnapshotIsNewestFrames
<1> SUFFICES ASSUME WindowInv PROVE SnapshotIsNewestFrames OBVIOUS
<1> DEFINE frames == Len(received) \div channels
           kept   == Min({frames, windowSize})
           newest == [ch \in 0 .. channels - 1 |->
                       [i \in 1 .. kept |-> received[(frames - kept + i - 1) * channels + ch + 1]]]
<1>1. HoldsNewest(channels, windowSize, received, pending, writeIndex, filled, ring)
  BY DEF WindowInv
<1>2. ReadsNewest(channels, windowSize, received, writeIndex, filled, ring)
  BY ONLY <1>1, NewestRead
<1>3. /\ filled = kept
      /\ \A ch \in 0 .. channels - 1 : \A i \in 1 .. filled :
           ring[ch][(oldest + i - 1) % windowSize] = received[(frames - filled + i - 1) * channels + ch + 1]
  BY <1>2, Zenon DEF ReadsNewest, oldest
<1> HIDE DEF frames
<1> HIDE DEF kept
<1>4. snapshot = newest BY <1>3, Zenon DEF snapshot
<1> QED BY <1>4 DEF SnapshotIsNewestFrames, newest, frames, kept

\* However the stream is cut into calls of processBulk, however its cuts fall
\* within a frame, and whatever the channels and the window are changed to, a
\* snapshot is the newest whole frames since the last configure(), oldest first:
\* as many as there are, or as the window holds.
THEOREM SnapshotsAreNewest == Spec => []SnapshotIsNewestFrames
<1>1. Init => WindowInv BY WindowStarts DEF Init
<1>2. WindowInv /\ ServiceInv /\ [Next]_vars => WindowInv' BY WindowStep
<1>3. WindowInv => SnapshotIsNewestFrames BY WindowShown
<1> QED BY ServiceInvariance, <1>1, <1>2, <1>3, PTL DEF Spec
=============================================================================

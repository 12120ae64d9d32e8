--------------------------- MODULE Receiver_proofs ---------------------------
(***************************************************************************)
(* What holds of a receiver for every rate, filter bank, decimation and    *)
(* size: the device and the stream of the source, when it gives up, the    *)
(* spacing of what the resampler makes, and what the decimator does.       *)
(***************************************************************************)
EXTENDS Receiver, CommonLemmas

(* The source *)

Radio == [dev : BOOLEAN, stream : BOOLEAN, devices : Int, streams : Int]

\* A device and a stream exist exactly if the block knows of them.
Consistent(h) ==
  /\ h \in Radio
  /\ h.devices = (IF h.dev THEN 1 ELSE 0)
  /\ h.streams = (IF h.stream THEN 1 ELSE 0)
  /\ h.stream => h.dev

RadioInv == Consistent(radio) /\ (state = "crashed" => radio.dev /\ ~ radio.stream)

LEMMA SameRadio ==
  ASSUME NEW g \in Radio, NEW h \in Radio,
         g.dev = h.dev, g.stream = h.stream, g.devices = h.devices, g.streams = h.streams
  PROVE  g = h
  BY DEF Radio

\* Whatever opening throws half way, and a device that is open is there.
LEMMA Opening ==
  ASSUME NEW h, Consistent(h), NEW o \in openDevice(h)
  PROVE  Consistent(o.radio) /\ (~ o.throws => o.radio.dev)
<1>1. CASE h.dev
  <2>1. o = [radio |-> h, throws |-> FALSE] BY <1>1 DEF openDevice
  <2> QED BY <1>1, <2>1
<1>2. CASE ~ h.dev
  <2> DEFINE made == [dev |-> TRUE, stream |-> FALSE, devices |-> 1, streams |-> 0]
             both == [dev |-> TRUE, stream |-> TRUE, devices |-> 1, streams |-> 1]
             none == [dev |-> FALSE, stream |-> FALSE, devices |-> 0, streams |-> 0]
  <2>1. h = none
    <3>1. h \in Radio /\ none \in Radio BY DEF Consistent, Radio
    <3>2. h.dev = none.dev /\ h.stream = none.stream /\ h.devices = none.devices /\ h.streams = none.streams
      BY <1>2 DEF Consistent, Radio
    <3> HIDE DEF none
    <3> QED BY <3>1, <3>2, SameRadio
  <2>2. Made(h) = made BY <2>1 DEF Made
  <2>3. Unmade(made) = h BY <2>1 DEF Unmade
  <2>4. SetUp(made) = both BY DEF SetUp
  <2>5. Consistent(made) /\ Consistent(both) /\ made.dev /\ both.dev BY DEF Consistent, Radio
  <2> HIDE DEF made, both
  <2>6. o \in {[radio |-> h, throws |-> TRUE], [radio |-> made, throws |-> TRUE],
               [radio |-> both, throws |-> TRUE], [radio |-> both, throws |-> FALSE]}
    BY <1>2, <2>2, <2>3, <2>4 DEF openDevice
  <2> QED BY <2>5, <2>6
<1> QED BY <1>1, <1>2

\* Whatever closing throws half way, and a device that could be closed is gone.
LEMMA Closing ==
  ASSUME NEW h, Consistent(h), NEW c \in closeDevice(h)
  PROVE  Consistent(c.radio) /\ (~ c.throws => ~ c.radio.dev)
<1>1. CASE ~ h.dev
  <2>1. c = [radio |-> h, throws |-> FALSE] BY <1>1 DEF closeDevice
  <2> QED BY <1>1, <2>1
<1>2. CASE h.dev
  <2> DEFINE s == IF h.stream THEN Closed(h) ELSE h
             open == [dev |-> TRUE, stream |-> FALSE, devices |-> 1, streams |-> 0]
             none == [dev |-> FALSE, stream |-> FALSE, devices |-> 0, streams |-> 0]
  <2>1. s = open
    <3>1. s \in Radio /\ open \in Radio BY DEF Consistent, Radio, Closed
    <3>2. s.dev = open.dev /\ s.stream = open.stream /\ s.devices = open.devices /\ s.streams = open.streams
      <4>1. CASE h.stream
        <5>1. s = Closed(h) BY <4>1
        <5>2. h.dev = TRUE /\ h.devices = 1 /\ h.streams = 1 BY <1>2, <4>1 DEF Consistent
        <5>3. h.streams - 1 = 0 BY <5>2
        <5>4. Closed(h) = open BY <5>2, <5>3 DEF Closed
        <5> HIDE DEF s, open
        <5> QED BY <5>1, <5>4
      <4>2. CASE ~ h.stream
        <5>1. s = h BY <4>2
        <5>2. h.dev = TRUE /\ h.devices = 1 /\ h.streams = 0 /\ h.stream = FALSE BY <1>2, <4>2 DEF Consistent, Radio
        <5> HIDE DEF s
        <5> QED BY <5>1, <5>2
      <4> QED BY <4>1, <4>2
    <3> HIDE DEF s, open
    <3> QED BY <3>1, <3>2, SameRadio
  <2>2. Unmade(open) = none BY DEF Unmade
  <2>3. Consistent(open) /\ Consistent(none) /\ ~ none.dev BY DEF Consistent, Radio
  <2>4. c \in {[radio |-> h, throws |-> TRUE], [radio |-> s, throws |-> TRUE],
               [radio |-> Unmade(s), throws |-> FALSE]}
    <3>1. closeDevice(h) = {[radio |-> h, throws |-> TRUE], [radio |-> s, throws |-> TRUE],
                            [radio |-> Unmade(s), throws |-> FALSE]}
      BY <1>2 DEF closeDevice
    <3> HIDE DEF s
    <3> QED BY <3>1
  <2> HIDE DEF s, open, none
  <2>5. c \in {[radio |-> h, throws |-> TRUE], [radio |-> open, throws |-> TRUE],
               [radio |-> none, throws |-> FALSE]}
    BY <2>1, <2>2, <2>4
  <2> QED BY <2>3, <2>5
<1> QED BY <1>1, <1>2

LEMMA InitRadio == Init => RadioInv
  BY DEF Init, SoapyInit, Nothing, RadioInv, Consistent, Radio

LEMMA RadioStep == RadioInv /\ [Next]_vars => RadioInv'
<1> SUFFICES ASSUME RadioInv, [Next]_vars PROVE RadioInv' OBVIOUS
<1>1. Consistent(radio) BY DEF RadioInv
<1>2. CASE start
  <2>1. PICK o \in openDevice(radio) : radio' = o.radio /\ state' = IF o.throws THEN "error" ELSE "running"
    BY <1>2 DEF start
  <2>2. Consistent(radio') /\ state' # "crashed" BY <1>1, <2>1, Opening
  <2> QED BY <2>2 DEF RadioInv, Consistent
<1>3. CASE stop
  <2>1. PICK c \in closeDevice(radio) : radio' = c.radio /\ state' = IF c.throws THEN "error" ELSE "idle"
    BY <1>3 DEF stop
  <2>2. Consistent(radio') /\ state' # "crashed" BY <1>1, <2>1, Closing
  <2> QED BY <2>2 DEF RadioInv, Consistent
<1>4. CASE Reset
  BY <1>4 DEF Reset, RadioInv, Consistent
<1>5. CASE settingsChanged
  <2>1. CASE state' = "error" /\ UNCHANGED radio
    BY <2>1 DEF RadioInv, Consistent
  <2>2. CASE \E c \in closeDevice(radio) : c.throws /\ radio' = c.radio /\ state' = "error"
    <3>1. Consistent(radio') /\ state' # "crashed" BY <1>1, <2>2, Closing
    <3> QED BY <3>1 DEF RadioInv, Consistent
  <2>3. CASE \E c \in closeDevice(radio) : \E o \in openDevice(c.radio) :
               radio' = o.radio /\ state' = IF o.throws THEN "error" ELSE state
    <3>1. PICK c \in closeDevice(radio) : \E o \in openDevice(c.radio) :
            radio' = o.radio /\ state' = IF o.throws THEN "error" ELSE state
      BY <2>3
    <3>2. Consistent(c.radio) BY <1>1, Closing
    <3>3. Consistent(radio') BY <3>1, <3>2, Opening
    <3>4. state' # "crashed" BY <1>5, <3>1 DEF settingsChanged
    <3> QED BY <3>3, <3>4 DEF RadioInv, Consistent
  <2> QED BY <1>5, <2>1, <2>2, <2>3 DEF settingsChanged
<1>6. CASE processBulk
  <2>1. PICK o \in openDevice(radio) :
          radio' = o.radio /\ IF o.throws THEN Fails("error") ELSE readStream(o.radio)
    BY <1>6 DEF processBulk
  <2>2. Consistent(radio') /\ (~ o.throws => radio'.dev) BY <1>1, <2>1, Opening
  <2>3. state' = "crashed" => ~ o.throws /\ ~ o.radio.stream
    <3>1. state = "running" BY <1>6 DEF processBulk
    <3>2. CASE o.throws BY <2>1, <3>2 DEF Fails
    <3>3. CASE ~ o.throws
      <4>1. readStream(o.radio) BY <2>1, <3>3
      <4> QED BY <3>1, <3>3, <4>1 DEF readStream, Data, NoData, Overflow, Fails
    <3> QED BY <3>2, <3>3
  <2> QED BY <2>1, <2>2, <2>3 DEF RadioInv, Consistent
<1>7. CASE UNCHANGED <<state, radio>>
  BY <1>7 DEF RadioInv, Consistent
<1>8. start \/ stop \/ Reset \/ settingsChanged \/ processBulk \/ UNCHANGED <<state, radio>>
  BY DEF Next, Control, Work, soapyVars, vars
<1> QED BY <1>2, <1>3, <1>4, <1>5, <1>6, <1>7, <1>8

\* Whatever call throws, at opening, reopening or reading, a device and a stream
\* exist exactly if the block knows of them.
THEOREM OneDeviceAlways == Spec => []OneDevice
<1>1. RadioInv => OneDevice BY DEF RadioInv, Consistent, OneDevice
<1> QED BY InitRadio, RadioStep, <1>1, PTL DEF Spec

\* With a limit, the count of the block is that of the overflows since the last data.
CountInv ==
  /\ overflow_count \in Nat /\ overflows \in Nat
  /\ MaxOverflows > 0 => overflow_count = overflows

\* The step of GivesUpAtLimit.
EndsAtLimit ==
  overflows' = overflows + 1 => (state' = "error" <=> MaxOverflows > 0 /\ overflows' > MaxOverflows)

LEMMA InitCount == Init => CountInv
  BY DEF Init, SoapyInit, CountInv

LEMMA CountStep ==
  ASSUME CountInv, [Next]_vars
  PROVE  CountInv' /\ [EndsAtLimit]_soapyVars
<1>1. MaxOverflows \in Nat BY SoapyAssumption
<1>2. CASE UNCHANGED <<overflow_count, overflows>>
  <2>1. overflows' # overflows + 1 BY <1>2 DEF CountInv
  <2> QED BY <1>2, <2>1 DEF CountInv, EndsAtLimit
<1>3. CASE Overflow /\ state = "running"
  <2>1. overflows' = overflows + 1 BY <1>3 DEF Overflow
  <2>2. CASE MaxOverflows > 0
    <3>1. overflow_count' = overflow_count + 1 BY <1>3, <2>2 DEF Overflow
    <3>2. overflow_count' = overflows' /\ overflow_count' \in Nat BY <2>1, <2>2, <3>1 DEF CountInv
    <3>3. state' = IF overflow_count' > MaxOverflows THEN "error" ELSE "running" BY <1>3, <2>2 DEF Overflow
    <3>4. state' = "error" <=> overflows' > MaxOverflows BY <3>2, <3>3
    <3> QED BY <2>2, <3>2, <3>4 DEF CountInv, EndsAtLimit
  <2>3. CASE ~ (MaxOverflows > 0)
    <3>1. overflow_count' = overflow_count /\ state' = "running" BY <1>3, <2>3 DEF Overflow
    <3>2. overflows' \in Nat /\ overflow_count' \in Nat BY <2>1, <3>1 DEF CountInv
    <3> QED BY <2>3, <3>1, <3>2 DEF CountInv, EndsAtLimit
  <2> QED BY <2>2, <2>3
<1>4. CASE \E k \in Nat : Data(k)
  <2>1. overflow_count' = 0 /\ overflows' = 0 BY <1>4 DEF Data
  <2>2. overflows' # overflows + 1 BY <2>1 DEF CountInv
  <2> QED BY <2>1, <2>2 DEF CountInv, EndsAtLimit
<1>5. UNCHANGED <<overflow_count, overflows>> \/ (Overflow /\ state = "running") \/ (\E k \in Nat : Data(k))
  <2>1. CASE start \/ stop \/ Reset \/ settingsChanged \/ UNCHANGED soapyVars
    BY <2>1 DEF start, stop, Reset, settingsChanged, soapyVars
  <2>2. CASE processBulk
    BY <2>2 DEF processBulk, readStream, NoData, Fails
  <2> QED BY <2>1, <2>2 DEF Next, Control, Work, soapyVars, vars
<1> QED BY <1>2, <1>3, <1>4, <1>5

\* However often the device is reopened and the block restarted, and whatever
\* timeouts come between, an overflow ends the reception exactly if it is one too
\* many since the last data; for every limit, and never if there is none.
THEOREM OverflowsTolerated == Spec => GivesUpAtLimit
<1>1. CountInv /\ [Next]_vars => CountInv' BY CountStep
<1>2. CountInv /\ [Next]_vars => [EndsAtLimit]_soapyVars BY CountStep
<1> QED BY InitCount, <1>1, <1>2, PTL DEF Spec, GivesUpAtLimit, EndsAtLimit

-----------------------------------------------------------------------------
(* The resampler *)

LEMMA Products ==
  /\ \A a, b \in Int : a * b \in Int /\ a * b = b * a
  /\ \A a, b, c \in Int : (a + b) * c = a * c + b * c
  /\ \A a, b, c \in Int : (a - b) * c = a * c - b * c
  OBVIOUS

\* The time of an output, and of the one the kernel is about to make.
At(newest, f, a) == (newest * NumFilters + f) * RateUp + a

LEMMA Positive ==
  /\ NumFilters \in Nat \ {0} /\ RateUp \in Nat \ {0} /\ Base \in Nat \ {0} /\ Guard \in Nat
  /\ NumFilters \in Int /\ RateUp \in Int
  BY PfbAssumption

\* The carries from the fraction to the filter and from the filter to the sample
\* lose nothing: one output is a period of the output rate after the other.
Fraction(a, d)   == a + ((NumFilters * d) % RateUp)
Filters(f, a, d) == f + (NumFilters * d) \div RateUp + Fraction(a, d) \div RateUp

LEMMA Carries ==
  ASSUME NEW n \in Int, NEW f \in Nat, NEW a \in Nat, NEW d \in Nat
  PROVE  /\ Filters(f, a, d) \div NumFilters \in Nat
         /\ Filters(f, a, d) % NumFilters \in 0 .. NumFilters - 1
         /\ Fraction(a, d) % RateUp \in 0 .. RateUp - 1
         /\ At(n + Filters(f, a, d) \div NumFilters, Filters(f, a, d) % NumFilters, Fraction(a, d) % RateUp)
              = At(n, f, a) + NumFilters * d
<1> DEFINE t == Fraction(a, d)
           j == Filters(f, a, d)
           D == NumFilters * d
           q == D \div RateUp
           r == D % RateUp
           u == t \div RateUp
           v == t % RateUp
           x == j \div NumFilters
           y == j % NumFilters
<1>1. D \in Nat
  <2>1. \A b, c \in Nat : b * c \in Nat OBVIOUS
  <2> QED BY <2>1, Positive
<1>2. D = RateUp * q + r /\ q \in Nat /\ r \in Nat
  <2>1. \A c \in Nat : /\ c = RateUp * (c \div RateUp) + (c % RateUp)
                      /\ c \div RateUp \in Nat /\ c % RateUp \in Nat
    BY Positive, Division
  <2> QED BY <1>1, <2>1
<1>3. t = a + r /\ t \in Nat BY <1>2 DEF Fraction
<1>4. t = RateUp * u + v /\ u \in Nat /\ v \in Nat /\ v < RateUp BY <1>3, Positive, Division
<1>5. j = f + q + u /\ j \in Nat BY <1>2, <1>4 DEF Filters
<1>6. j = NumFilters * x + y /\ x \in Nat /\ y \in Nat /\ y < NumFilters BY <1>5, Positive, Division
<1> DEFINE m == n * NumFilters
<1>7. m \in Int BY Positive
<1> HIDE DEF t, j, D, q, r, u, v, x, y, m
<1>8. (n + x) * NumFilters + y = m + j
  <2>1. (n + x) * NumFilters = n * NumFilters + x * NumFilters /\ x * NumFilters = NumFilters * x
    BY <1>6, Positive, Products
  <2>2. x * NumFilters \in Int BY <1>6, Positive, Products
  <2> QED BY <1>5, <1>6, <1>7, <2>1, <2>2 DEF m
<1>9. (m + j) * RateUp = (m + f) * RateUp + RateUp * q + RateUp * u
  <2>1. m + j = ((m + f) + q) + u /\ m + f \in Int /\ (m + f) + q \in Int BY <1>2, <1>4, <1>5, <1>7
  <2>2. (((m + f) + q) + u) * RateUp = ((m + f) + q) * RateUp + u * RateUp BY <1>4, <2>1, Positive, Products
  <2>3. ((m + f) + q) * RateUp = (m + f) * RateUp + q * RateUp BY <1>2, <2>1, Positive, Products
  <2>4. q * RateUp = RateUp * q /\ u * RateUp = RateUp * u BY <1>2, <1>4, Positive, Products
  <2> QED BY <2>1, <2>2, <2>3, <2>4
<1>10. (m + j) * RateUp + v = (m + f) * RateUp + a + D
  <2>1. (m + f) * RateUp \in Int /\ RateUp * q \in Int /\ RateUp * u \in Int BY <1>2, <1>4, <1>7, Positive, Products
  <2>2. RateUp * u + v = a + r BY <1>3, <1>4
  <2> QED BY <1>1, <1>2, <1>4, <1>9, <2>1, <2>2
<1>11. At(n + x, y, v) = At(n, f, a) + D
  <2>1. At(n + x, y, v) = ((n + x) * NumFilters + y) * RateUp + v BY DEF At
  <2>2. At(n, f, a) = (m + f) * RateUp + a BY DEF At, m
  <2> QED BY <1>8, <1>10, <2>1, <2>2
<1>12. y \in 0 .. NumFilters - 1 /\ v \in 0 .. RateUp - 1 BY <1>4, <1>6, Positive
<1> QED BY <1>6, <1>11, <1>12 DEF t, j, D, x, y, v

Output == [newest : Int, filter : Int, acc : Int]

KernelState == [read : Nat, filter : 0 .. NumFilters - 1, acc : 0 .. RateUp - 1, out : Seq(Output)]

\* The outputs are a period apart, and so are the last one and the one due.
Spaced(s, due, period) ==
  \A i \in 1 .. Len(s) : (IF i = Len(s) THEN due ELSE Time(s[i + 1])) - Time(s[i]) = period

FirstTime(s, due) == IF s = <<>> THEN due ELSE Time(s[1])

LEMMA Times ==
  /\ \A n, f, a \in Int : At(n, f, a) \in Int
  /\ \A o \in Output : Time(o) \in Int /\ Time(o) = At(o.newest, o.filter, o.acc)
<1>1. ASSUME NEW n \in Int, NEW f \in Int, NEW a \in Int PROVE At(n, f, a) \in Int
  BY Positive DEF At
<1>2. ASSUME NEW o \in Output PROVE o.newest \in Int /\ o.filter \in Int /\ o.acc \in Int
  BY DEF Output
<1>3. ASSUME NEW o \in Output PROVE Time(o) = At(o.newest, o.filter, o.acc)
  BY DEF Time, At
<1> QED BY <1>1, <1>2, <1>3

LEMMA SpacedAppend ==
  ASSUME NEW s \in Seq(Output), NEW o \in Output, NEW due \in Int, NEW period \in Int,
         Spaced(s, Time(o), period), due - Time(o) = period
  PROVE  /\ Append(s, o) \in Seq(Output)
         /\ Spaced(Append(s, o), due, period)
         /\ FirstTime(Append(s, o), due) = FirstTime(s, Time(o))
<1> DEFINE z == Append(s, o)
<1>1. /\ z \in Seq(Output) /\ Len(z) = Len(s) + 1 /\ Len(s) \in Nat
      /\ z[Len(s) + 1] = o /\ \A i \in 1 .. Len(s) : z[i] = s[i]
  OBVIOUS
<1> HIDE DEF z
<1>2. ASSUME NEW i \in 1 .. Len(z)
      PROVE  (IF i = Len(z) THEN due ELSE Time(z[i + 1])) - Time(z[i]) = period
  <2>1. CASE i = Len(z) BY <1>1, <2>1
  <2>2. CASE i = Len(s)
    <3>1. i \in 1 .. Len(s) /\ i # Len(z) BY <1>1, <1>2, <2>2
    <3>2. z[i + 1] = o /\ z[i] = s[i] BY <1>1, <2>2, <3>1
    <3>3. Time(o) - Time(s[i]) = period BY <2>2, <3>1 DEF Spaced
    <3> QED BY <3>1, <3>2, <3>3
  <2>3. CASE i # Len(z) /\ i # Len(s)
    <3>1. i \in 1 .. Len(s) /\ i + 1 \in 1 .. Len(s) BY <1>1, <2>3
    <3>2. z[i + 1] = s[i + 1] /\ z[i] = s[i] BY <1>1, <3>1
    <3>3. Time(s[i + 1]) - Time(s[i]) = period BY <2>3, <3>1 DEF Spaced
    <3> QED BY <2>3, <3>2, <3>3
  <2> QED BY <2>1, <2>2, <2>3
<1>3. FirstTime(z, due) = FirstTime(s, Time(o))
  <2>1. z # <<>> /\ (s = <<>> => z[1] = o) /\ (s # <<>> => z[1] = s[1]) BY <1>1
  <2> QED BY <2>1, Zenon DEF FirstTime
<1> QED BY <1>1, <1>2, <1>3 DEF z, Spaced

Due(k, from) == At(from + k.read, k.filter, k.acc)

\* An output more is a period more, and the kernel is through when it has passed
\* the samples.
LEMMA KernelStep ==
  ASSUME NEW k \in KernelState, NEW available \in Int, NEW from \in Int, down \in Nat
  PROVE  /\ Step(k, available, from) \in KernelState
         /\ k.read >= available => Step(k, available, from) = k
         /\ ~ (k.read >= available) =>
               /\ Due(Step(k, available, from), from) = Due(k, from) + NumFilters * down
               /\ \E o \in Output : Time(o) = Due(k, from) /\ Step(k, available, from).out = Append(k.out, o)
<1>1. /\ k.read \in Nat /\ k.filter \in Nat /\ k.acc \in Nat /\ k.out \in Seq(Output)
      /\ k.filter \in 0 .. NumFilters - 1 /\ k.acc \in 0 .. RateUp - 1
  BY DEF KernelState
<1>2. CASE k.read >= available
  BY <1>2 DEF Step
<1>3. CASE ~ (k.read >= available)
  <2> DEFINE t == k.acc + flt_rate
             j == k.filter + dec_rate + (t \div RateUp)
             o == [newest |-> from + k.read, filter |-> k.filter, acc |-> k.acc]
             z == [read |-> k.read + (j \div NumFilters), filter |-> j % NumFilters, acc |-> t % RateUp,
                   out |-> Append(k.out, o)]
  <2>1. Step(k, available, from) = z BY <1>3 DEF Step
  <2>2. /\ j \div NumFilters \in Nat /\ j % NumFilters \in 0 .. NumFilters - 1 /\ t % RateUp \in 0 .. RateUp - 1
        /\ At(from + k.read + (j \div NumFilters), j % NumFilters, t % RateUp)
             = At(from + k.read, k.filter, k.acc) + NumFilters * down
    <3>1. t = k.acc + ((NumFilters * down) % RateUp) /\ j = k.filter + (NumFilters * down) \div RateUp + t \div RateUp
      BY DEF flt_rate, dec_rate
    <3> DEFINE n == from + k.read
               f == k.filter
               a == k.acc
               d == down
    <3>2. /\ n \in Int /\ f \in Nat /\ a \in Nat /\ d \in Nat
          /\ t = Fraction(a, d) /\ j = Filters(f, a, d)
      BY <1>1, <3>1 DEF Fraction, Filters
    <3> HIDE DEF t, j, n, f, a, d
    <3>3. /\ j \div NumFilters \in Nat /\ j % NumFilters \in 0 .. NumFilters - 1 /\ t % RateUp \in 0 .. RateUp - 1
          /\ At(n + j \div NumFilters, j % NumFilters, t % RateUp) = At(n, f, a) + NumFilters * d
      BY <3>2, Carries
    <3> QED BY <3>3 DEF n, f, a, d
  <2>3. o \in Output /\ Time(o) = Due(k, from)
    <3>1. o \in Output BY <1>1 DEF Output
    <3> QED BY <3>1 DEF Time, Due, At
  <2>4. Append(k.out, o) \in Seq(Output) /\ k.read + (j \div NumFilters) \in Nat
    BY <1>1, <2>2, <2>3
  <2>5. z \in KernelState
    <3> HIDE DEF t, j, o
    <3> QED BY <2>2, <2>4 DEF KernelState
  <2>6. Due(z, from) = Due(k, from) + NumFilters * down
    <3> HIDE DEF t, j, o
    <3>1. from + (k.read + (j \div NumFilters)) = from + k.read + (j \div NumFilters) BY <1>1, <2>2
    <3> QED BY <2>2, <3>1 DEF Due
  <2>7. z.out = Append(k.out, o) OBVIOUS
  <2> HIDE DEF z, o
  <2> QED BY <1>3, <2>1, <2>3, <2>5, <2>6, <2>7
<1> QED BY <1>2, <1>3

\* What the kernel has reached after n outputs, due being the time it began at.
Reached(n, due, available, from, period) ==
  {k \in KernelState :
     /\ Due(k, from) \in Int
     /\ Spaced(k.out, Due(k, from), period) /\ FirstTime(k.out, Due(k, from)) = due
     /\ k.read >= available \/ Due(k, from) = due + n * period}

LEMMA ReachedStep ==
  ASSUME NEW n \in Nat, NEW due \in Int, NEW available \in Int, NEW from \in Int, down \in Nat,
         NEW k \in Reached(n, due, available, from, NumFilters * down)
  PROVE  Step(k, available, from) \in Reached(n + 1, due, available, from, NumFilters * down)
<1> DEFINE p == NumFilters * down
           z == Step(k, available, from)
<1>1. p \in Int BY Positive
<1>2. k \in KernelState BY DEF Reached
<1>3. /\ Due(k, from) \in Int /\ Spaced(k.out, Due(k, from), p) /\ FirstTime(k.out, Due(k, from)) = due
      /\ k.read >= available \/ Due(k, from) = due + n * p
  BY DEF Reached
<1>4. CASE k.read >= available
  <2>1. z = k BY <1>2, <1>4, KernelStep
  <2> HIDE DEF z, p
  <2>2. z \in Reached(n + 1, due, available, from, p) BY <1>2, <1>3, <1>4, <2>1 DEF Reached
  <2> QED BY <2>2 DEF z, p
<1>5. CASE ~ (k.read >= available)
  <2>1. /\ z \in KernelState /\ Due(z, from) = Due(k, from) + p
        /\ \E o \in Output : Time(o) = Due(k, from) /\ z.out = Append(k.out, o)
    BY <1>2, <1>5, KernelStep
  <2>2. PICK o \in Output : Time(o) = Due(k, from) /\ z.out = Append(k.out, o) BY <2>1
  <2> HIDE DEF z, p
  <2>3. Due(z, from) \in Int /\ Due(z, from) - Time(o) = p BY <1>1, <1>3, <2>1, <2>2
  <2>4. k.out \in Seq(Output) BY <1>2 DEF KernelState
  <2>5. Spaced(k.out, Time(o), p) BY <1>3, <2>2
  <2>6. Spaced(z.out, Due(z, from), p) /\ FirstTime(z.out, Due(z, from)) = FirstTime(k.out, Time(o))
    BY <1>1, <2>2, <2>3, <2>4, <2>5, SpacedAppend
  <2>7. Due(z, from) = due + (n + 1) * p
    <3>1. (n + 1) * p = n * p + p /\ n * p \in Int BY <1>1
    <3> QED BY <1>1, <1>3, <1>5, <2>1, <3>1
  <2>8. FirstTime(z.out, Due(z, from)) = due BY <1>3, <2>2, <2>6
  <2>9. z \in Reached(n + 1, due, available, from, p) BY <2>1, <2>3, <2>6, <2>7, <2>8 DEF Reached
  <2> QED BY <2>9 DEF z, p
<1> QED BY <1>4, <1>5

LEMMA KernelRuns ==
  ASSUME NEW available \in Int, NEW from \in Int, NEW nout \in Nat, down \in Nat,
         filter \in 0 .. NumFilters - 1, acc \in 0 .. RateUp - 1
  PROVE  Kernel(available, from, nout)
           \in Reached(nout, At(from, filter, acc), available, from, NumFilters * down)
<1> DEFINE first == [read |-> 0, filter |-> filter, acc |-> acc, out |-> <<>>]
           next == [n \in Nat |-> [k \in KernelState |-> Step(k, available, from)]]
           Body(g) == [n \in 0 .. nout |-> IF n = 0 THEN first ELSE Step(g[n - 1], available, from)]
           due == At(from, filter, acc)
           p == NumFilters * down
           R(n) == Reached(n, due, available, from, p)
<1>1. first \in KernelState /\ first.read = 0 /\ first.out = <<>> /\ first.filter = filter /\ first.acc = acc
  BY DEF KernelState
<1>2. next \in [Nat -> [KernelState -> KernelState]]
  BY KernelStep
<1>3. PICK f : Iterates(KernelState, first, next, f)
  <2> HIDE DEF first, next
  <2> QED BY <1>1, <1>2, Iteration
<1>4. \E g : g = Body(g)
  <2> DEFINE g == [n \in 0 .. nout |-> f[n]]
  <2>1. ASSUME NEW n \in 0 .. nout PROVE g[n] = IF n = 0 THEN first ELSE Step(g[n - 1], available, from)
    <3>1. CASE n = 0
      <4> HIDE DEF first, next
      <4> QED BY <1>3, <3>1 DEF Iterates
    <3>2. CASE n # 0
      <4>1. n - 1 \in Nat /\ n - 1 \in 0 .. nout /\ n - 1 + 1 = n BY <3>2
      <4>2. f[n - 1] \in KernelState /\ f[n] = next[n - 1][f[n - 1]]
        <5> HIDE DEF first, next
        <5> QED BY <1>3, <4>1 DEF Iterates
      <4>3. f[n] = Step(f[n - 1], available, from)
        <5> HIDE DEF first
        <5> QED BY <4>1, <4>2
      <4> QED BY <3>2, <4>1, <4>3
    <3> QED BY <3>1, <3>2
  <2>2. g = Body(g)
    <3> HIDE DEF first
    <3> QED BY <2>1
  <2> HIDE DEF g, Body
  <2> QED BY <2>2
<1> DEFINE q == CHOOSE g : g = Body(g)
<1>5. q = Body(q)
  <2> HIDE DEF Body
  <2> QED BY <1>4
<1>6. Kernel(available, from, nout) = q[nout] BY DEF Kernel
<1> HIDE DEF q
<1>7. \A n \in 0 .. nout : q[n] = IF n = 0 THEN first ELSE Step(q[n - 1], available, from)
  <2> HIDE DEF first
  <2> QED BY <1>5
<1> DEFINE S == {n \in Nat : n <= nout => q[n] \in R(n)}
<1>8. 0 \in S
  <2>1. q[0] = first BY <1>7
  <2>2. Due(first, from) = due
    <3>1. from + 0 = from OBVIOUS
    <3> HIDE DEF first
    <3> QED BY <1>1, <3>1 DEF Due
  <2>3. due \in Int BY Positive, Times
  <2>4. 0 * p = 0 /\ p \in Int BY Positive
  <2> HIDE DEF first, due, p
  <2>5. Spaced(<<>>, due, p) /\ FirstTime(<<>>, due) = due BY DEF Spaced, FirstTime
  <2>6. due = due + 0 * p BY <2>3, <2>4
  <2>7. first \in R(0) BY <1>1, <2>2, <2>3, <2>5, <2>6 DEF Reached
  <2> QED BY <2>1, <2>7
<1>9. ASSUME NEW n \in Nat, n \in S PROVE n + 1 \in S
  <2> SUFFICES ASSUME n + 1 <= nout PROVE q[n + 1] \in R(n + 1) OBVIOUS
  <2>1. n + 1 \in 0 .. nout /\ n + 1 # 0 /\ n + 1 - 1 = n /\ n <= nout OBVIOUS
  <2>2. q[n + 1] = Step(q[n], available, from)
    <3> HIDE DEF first
    <3> QED BY <1>7, <2>1
  <2>3. q[n] \in R(n) BY <1>9, <2>1
  <2>4. due \in Int BY Positive, Times
  <2> HIDE DEF due
  <2> QED BY <2>2, <2>3, <2>4, ReachedStep
<1>10. Nat \subseteq S
  <2> HIDE DEF S
  <2> QED BY <1>8, <1>9, Induction
<1>11. q[nout] \in R(nout) BY <1>10
<1> QED BY <1>6, <1>11

LEMMA AtMoved ==
  ASSUME NEW n \in Int, NEW f \in Int, NEW a \in Int, NEW c \in Int
  PROVE  At(n - c, f, a) = At(n, f, a) - (c * NumFilters) * RateUp
<1> DEFINE m == n * NumFilters
           x == c * NumFilters
<1>1. m \in Int /\ x \in Int /\ (n - c) * NumFilters = m - x BY Positive, Products
<1>2. At(n - c, f, a) = ((n - c) * NumFilters + f) * RateUp + a /\ At(n, f, a) = (m + f) * RateUp + a BY DEF At
<1> HIDE DEF m, x
<1>3. (m - x) + f = (m + f) - x /\ m + f \in Int BY <1>1
<1>4. ((m + f) - x) * RateUp = (m + f) * RateUp - x * RateUp BY <1>1, <1>3, Positive, Products
<1>5. (m + f) * RateUp \in Int /\ x * RateUp \in Int BY <1>1, <1>3, Positive, Products
<1>6. At(n - c, f, a) = At(n, f, a) - x * RateUp BY <1>1, <1>2, <1>3, <1>4, <1>5
<1> QED BY <1>6 DEF x

LEMMA MovedOutput ==
  ASSUME NEW o \in Output, NEW c \in Int, NEW y, y = [o EXCEPT !.newest = o.newest - c]
  PROVE  y \in Output /\ Time(y) = Time(o) - (c * NumFilters) * RateUp /\ Time(o) \in Int
<1>1. o.newest \in Int /\ o.filter \in Int /\ o.acc \in Int BY DEF Output
<1>2. y \in Output /\ y.newest = o.newest - c /\ y.filter = o.filter /\ y.acc = o.acc
  <2>1. o.newest - c \in Int BY <1>1
  <2> QED BY <2>1 DEF Output
<1>3. Time(o) = At(o.newest, o.filter, o.acc) /\ Time(y) = At(o.newest - c, o.filter, o.acc) /\ Time(o) \in Int
  BY <1>1, <1>2, Times
<1>4. At(o.newest - c, o.filter, o.acc) = At(o.newest, o.filter, o.acc) - (c * NumFilters) * RateUp
  BY <1>1, AtMoved
<1> QED BY <1>2, <1>3, <1>4

\* Outputs of which the newest sample is counted from elsewhere.
LEMMA SpacedMoved ==
  ASSUME NEW s \in Seq(Output), NEW due \in Int, NEW period \in Int, NEW c \in Int, Spaced(s, due, period), NEW z,
         z = [i \in DOMAIN s |-> [s[i] EXCEPT !.newest = @ - c]]
  PROVE  /\ z \in Seq(Output)
         /\ Spaced(z, due - (c * NumFilters) * RateUp, period)
         /\ FirstTime(z, due - (c * NumFilters) * RateUp) = FirstTime(s, due) - (c * NumFilters) * RateUp
<1> DEFINE x == (c * NumFilters) * RateUp
<1>1. x \in Int BY Positive, Products
<1>2. ASSUME NEW i \in 1 .. Len(s)
      PROVE  z[i] \in Output /\ Time(z[i]) = Time(s[i]) - x /\ Time(s[i]) \in Int
  <2>1. s[i] \in Output /\ z[i] = [s[i] EXCEPT !.newest = s[i].newest - c]
    <3>1. s[i] \in Output OBVIOUS
    <3>2. i \in DOMAIN s OBVIOUS
    <3>3. z[i] = [s[i] EXCEPT !.newest = s[i].newest - c] BY <3>2
    <3> QED BY <3>1, <3>3
  <2> HIDE DEF x
  <2> QED BY <2>1, MovedOutput DEF x
<1>3. z \in Seq(Output) /\ Len(z) = Len(s) /\ Len(s) \in Nat /\ (z = <<>> <=> s = <<>>)
  <2>1. z = [i \in 1 .. Len(s) |-> z[i]] /\ Len(s) \in Nat OBVIOUS
  <2>2. \A i \in 1 .. Len(s) : z[i] \in Output BY <1>2
  <2>3. z \in Seq(Output) /\ Len(z) = Len(s) BY <2>1, <2>2
  <2> QED BY <2>1, <2>3
<1> HIDE DEF x
<1>4. Spaced(z, due - x, period)
  <2> SUFFICES ASSUME NEW i \in 1 .. Len(z)
               PROVE  (IF i = Len(z) THEN due - x ELSE Time(z[i + 1])) - Time(z[i]) = period
    BY DEF Spaced
  <2>1. i \in 1 .. Len(s) /\ Time(z[i]) = Time(s[i]) - x /\ Time(s[i]) \in Int BY <1>2, <1>3
  <2>2. CASE i = Len(s)
    <3>1. due - Time(s[i]) = period BY <2>1, <2>2 DEF Spaced
    <3> QED BY <1>1, <1>3, <2>1, <2>2, <3>1
  <2>3. CASE i # Len(s)
    <3>1. i + 1 \in 1 .. Len(s) BY <1>3, <2>1, <2>3
    <3>2. Time(z[i + 1]) = Time(s[i + 1]) - x /\ Time(s[i + 1]) \in Int BY <1>2, <3>1
    <3>3. Time(s[i + 1]) - Time(s[i]) = period BY <2>1, <2>3 DEF Spaced
    <3> QED BY <1>1, <1>3, <2>1, <2>3, <3>2, <3>3
  <2> QED BY <2>2, <2>3
<1>5. FirstTime(z, due - x) = FirstTime(s, due) - x
  <2>1. CASE s = <<>> BY <1>3, <2>1 DEF FirstTime
  <2>2. CASE s # <<>>
    <3>1. 1 \in 1 .. Len(s) BY <1>3, <2>2
    <3>2. Time(z[1]) = Time(s[1]) - x BY <1>2, <3>1
    <3> QED BY <1>3, <2>2, <3>2 DEF FirstTime
  <2> QED BY <2>1, <2>2
<1> QED BY <1>3, <1>4, <1>5 DEF x

LEMMA SpacedConcat ==
  ASSUME NEW s \in Seq(Output), NEW z \in Seq(Output), NEW due \in Int, NEW period \in Int,
         Spaced(s, FirstTime(z, due), period), Spaced(z, due, period)
  PROVE  s \o z \in Seq(Output) /\ Spaced(s \o z, due, period)
<1> DEFINE q == s \o z
<1>1. /\ q \in Seq(Output) /\ Len(q) = Len(s) + Len(z) /\ Len(s) \in Nat /\ Len(z) \in Nat
      /\ \A i \in 1 .. Len(s) : q[i] = s[i]
      /\ \A i \in Len(s) + 1 .. Len(s) + Len(z) : q[i] = z[i - Len(s)]
  BY Concatenation
<1> HIDE DEF q
<1>2. ASSUME NEW i \in 1 .. Len(q)
      PROVE  (IF i = Len(q) THEN due ELSE Time(q[i + 1])) - Time(q[i]) = period
  <2>1. CASE i < Len(s)
    <3>1. i \in 1 .. Len(s) /\ i + 1 \in 1 .. Len(s) /\ i # Len(q) BY <1>1, <2>1
    <3>2. Time(s[i + 1]) - Time(s[i]) = period BY <2>1, <3>1 DEF Spaced
    <3> QED BY <1>1, <3>1, <3>2
  <2>2. CASE i = Len(s)
    <3>1. i \in 1 .. Len(s) BY <1>1, <2>2
    <3>2. FirstTime(z, due) - Time(s[i]) = period /\ q[i] = s[i] BY <1>1, <2>2, <3>1 DEF Spaced
    <3>3. CASE z = <<>>
      <4>1. FirstTime(z, due) = due /\ i = Len(q) BY <1>1, <2>2, <3>3 DEF FirstTime
      <4> QED BY <3>2, <4>1
    <3>4. CASE z # <<>>
      <4>1. i # Len(q) /\ i + 1 \in Len(s) + 1 .. Len(s) + Len(z) /\ i + 1 - Len(s) = 1 BY <1>1, <2>2, <3>4
      <4>2. q[i + 1] = z[1] BY <1>1, <4>1
      <4>3. FirstTime(z, due) = Time(z[1]) BY <3>4 DEF FirstTime
      <4> QED BY <3>2, <4>1, <4>2, <4>3
    <3> QED BY <3>3, <3>4
  <2>3. CASE i > Len(s)
    <3> DEFINE j == i - Len(s)
    <3>1. j \in 1 .. Len(z) /\ i \in Len(s) + 1 .. Len(s) + Len(z) BY <1>1, <2>3
    <3>2. q[i] = z[j] BY <1>1, <3>1
    <3>3. CASE j = Len(z)
      <4>1. i = Len(q) BY <1>1, <2>3, <3>3
      <4>2. due - Time(z[j]) = period
        <5> HIDE DEF j
        <5> QED BY <3>1, <3>3 DEF Spaced
      <4> QED BY <3>2, <4>1, <4>2
    <3>4. CASE j # Len(z)
      <4>1. i # Len(q) /\ i + 1 \in Len(s) + 1 .. Len(s) + Len(z) /\ i + 1 - Len(s) = j + 1 BY <1>1, <2>3, <3>1, <3>4
      <4>2. q[i + 1] = z[j + 1] BY <1>1, <4>1
      <4>3. Time(z[j + 1]) - Time(z[j]) = period
        <5> HIDE DEF j
        <5> QED BY <3>1, <3>4 DEF Spaced
      <4> QED BY <3>2, <4>1, <4>2, <4>3
    <3> QED BY <3>3, <3>4
  <2> QED BY <1>1, <2>1, <2>2, <2>3
<1> QED BY <1>1, <1>2 DEF q, Spaced

\* The filter and the fraction are in their ranges, and the output that is due, at
\* the sample that completes the oldest window of the history, is a period after
\* the last one.
SpacingInv ==
  /\ down \in RateDowns /\ tapTotal \in TapTotals
  /\ gone \in Int /\ size \in Int /\ room \in Int /\ lost \in Nat /\ backlog \in Int
  /\ filter \in 0 .. NumFilters - 1 /\ acc \in 0 .. RateUp - 1
  /\ audio \in Seq(Output)
  /\ Spaced(audio, At(gone + TapsPerFilter(tapTotal) - lost, filter, acc), NumFilters * down)

\* The numbers a choice of settings comes with.
LEMMA Sizes ==
  ASSUME NEW d \in RateDowns, NEW t \in TapTotals
  PROVE  /\ d \in Nat \ {0} /\ t \in Nat \ {0} /\ FirstFilter(t) \in 0 .. NumFilters - 1
         /\ TapsPerFilter(t) \in Int
         /\ InChunk(d) \in Nat \ {0} /\ OutChunk(d) \in Nat \ {0}
         /\ NumFilters * d \in Nat
<1>1. d \in Nat \ {0} /\ t \in Nat \ {0} BY PfbAssumption
<1>2. FirstFilter(t) \in 0 .. NumFilters - 1
  <2>1. t \div 2 \in Nat BY <1>1
  <2>2. (t \div 2) % NumFilters \in Nat /\ (t \div 2) % NumFilters < NumFilters
    BY <2>1, Positive, Division, Zenon
  <2>3. FirstFilter(t) = (t \div 2) % NumFilters BY DEF FirstFilter
  <2> QED BY <2>2, <2>3, Positive
<1>3. TapsPerFilter(t) \in Int
  <2>1. t + NumFilters - 1 \in Nat BY <1>1, Positive
  <2>2. (t + NumFilters - 1) \div NumFilters \in Nat BY <2>1, Positive, Division, Zenon
  <2> QED BY <2>2 DEF TapsPerFilter, CeilDiv
<1>4. \A a, b \in Nat : a * b \in Nat OBVIOUS
<1>5. \A n \in Nat : AtLeastOne(n) \in Nat \ {0} BY DEF AtLeastOne
<1>6. InChunk(d) \in Nat \ {0}
  <2>1. (Base * d) \div RateUp \in Nat
    <3>1. Base * d \in Nat BY <1>1, <1>4, Positive
    <3> QED BY <3>1, Positive, Division, Zenon
  <2> QED BY <1>5, <2>1, Positive DEF InChunk
<1>7. OutChunk(d) \in Nat \ {0}
  <2>1. (Base * RateUp) \div d \in Nat
    <3>1. Base * RateUp \in Nat BY <1>4, Positive
    <3> QED BY <1>1, <3>1, Division, Zenon
  <2> QED BY <1>5, <2>1, Positive DEF OutChunk
<1>8. NumFilters * d \in Nat BY <1>1, <1>4, Positive
<1> QED BY <1>1, <1>2, <1>3, <1>6, <1>7, <1>8

LEMMA InitSpacing == Init => SpacingInv
<1> SUFFICES ASSUME Init PROVE SpacingInv OBVIOUS
<1>1. /\ down \in RateDowns /\ tapTotal \in TapTotals /\ gone = 0 /\ size = Filled(0, tapTotal)
      /\ room = TapsPerFilter(tapTotal) + InChunk(down) + Guard
      /\ filter = FirstFilter(tapTotal) /\ acc = 0 /\ lost = 0 /\ backlog = 0 /\ audio = <<>>
  BY DEF Init, PfbInit
<1>2. FirstFilter(tapTotal) \in 0 .. NumFilters - 1 /\ TapsPerFilter(tapTotal) \in Int /\ InChunk(down) \in Int
  BY <1>1, Sizes
<1>3. size \in Int /\ room \in Int BY <1>1, <1>2, Positive DEF Filled
<1>4. \A due, period : Spaced(<<>>, due, period) BY DEF Spaced
<1>5. 0 \in 0 .. RateUp - 1 BY Positive
<1> QED BY <1>1, <1>2, <1>3, <1>4, <1>5 DEF SpacingInv

LEMMA ChangeSpacing == SpacingInv /\ PfbSettingsChanged => SpacingInv'
<1> SUFFICES ASSUME SpacingInv, PfbSettingsChanged PROVE SpacingInv' OBVIOUS
<1> DEFINE kept == Kept(size, down', tapTotal')
<1>1. /\ down' \in RateDowns /\ tapTotal' \in TapTotals /\ filter' = FirstFilter(tapTotal')
      /\ gone' = gone + size - kept /\ size' = Filled(kept, tapTotal')
      /\ room' = TapsPerFilter(tapTotal') + InChunk(down') + Guard
      /\ audio' = <<>> /\ lost' = 0 /\ backlog' = size' - (TapsPerFilter(tapTotal') - 1) /\ acc' = acc
  BY DEF PfbSettingsChanged
<1>2. /\ FirstFilter(tapTotal') \in 0 .. NumFilters - 1 /\ TapsPerFilter(tapTotal') \in Int /\ InChunk(down') \in Int
  BY <1>1, Sizes
<1>3. gone \in Int /\ size \in Int /\ acc \in 0 .. RateUp - 1 BY DEF SpacingInv
<1>4. kept \in Int BY <1>2, <1>3, Positive DEF Kept, AtMost
<1> HIDE DEF kept
<1>5. /\ gone' \in Int /\ size' \in Int /\ room' \in Int /\ lost' \in Nat /\ backlog' \in Int
  BY <1>1, <1>2, <1>3, <1>4, Positive DEF Filled
<1>6. \A due, period : Spaced(<<>>, due, period) BY DEF Spaced
<1> QED BY <1>1, <1>2, <1>3, <1>5, <1>6 DEF SpacingInv

\* What a call brings and takes, and what the kernel makes of it.
Call(nin, nout, holds, pushed, over, from, available, k) ==
  /\ \E chunks \in Nat \ {0} : nin = chunks * InChunk(down) /\ nout = chunks * OutChunk(down)
  /\ holds = (IF Target(nin) > size THEN Target(nin) ELSE room)
  /\ pushed = AtMost(size + nin, holds)
  /\ over = size + nin - pushed
  /\ from = gone + over + TapsPerFilter(tapTotal)
  /\ available = pushed - TapsPerFilter(tapTotal) + 1
  /\ k \in Reached(nout, At(from, filter, acc), available, from, NumFilters * down)
  /\ nin \in Nat \ {0} /\ nout \in Nat /\ pushed \in Int /\ over \in Nat /\ from \in Int /\ k.read \in Nat

Moved(s, c) == [i \in DOMAIN s |-> [s[i] EXCEPT !.newest = @ - c]]

LEMMA Calls ==
  ASSUME SpacingInv, PfbWork
  PROVE  \E nin, nout, holds, pushed, over, from, available, k :
           /\ Call(nin, nout, holds, pushed, over, from, available, k)
           /\ room' = holds /\ lost' = lost + over /\ gone' = gone + over + k.read /\ size' = pushed - k.read
           /\ filter' = k.filter /\ acc' = k.acc
           /\ audio' = audio \o Moved(k.out, lost')
           /\ UNCHANGED <<down, tapTotal, backlog>>
<1> DEFINE T == TapsPerFilter(tapTotal)
           nin(c) == c * InChunk(down)
           nout(c) == c * OutChunk(down)
           holds(c) == IF Target(nin(c)) > size THEN Target(nin(c)) ELSE room
           pushed(c) == AtMost(size + nin(c), holds(c))
           over(c) == size + nin(c) - pushed(c)
           from(c) == gone + over(c) + T
           available(c) == pushed(c) - T + 1
           k(c) == Kernel(available(c), from(c), nout(c))
<1>1. PICK c \in 1 .. MaxPfbChunks :
        /\ nin(c) <= Len(quad) /\ Len(audio) + nout(c) <= MaxAudio
        /\ room' = holds(c)
        /\ lost' = lost + over(c)
        /\ gone' = gone + over(c) + k(c).read /\ size' = pushed(c) - k(c).read
        /\ filter' = k(c).filter /\ acc' = k(c).acc
        /\ audio' = audio \o [i \in DOMAIN k(c).out |-> [k(c).out[i] EXCEPT !.newest = @ - lost']]
        /\ quad' = SubSeq(quad, nin(c) + 1, Len(quad))
        /\ UNCHANGED <<rf, down, tapTotal, backlog>>
  BY Zenon DEF PfbWork
<1>2. c \in Nat \ {0} /\ MaxPfbChunks \in Nat BY PfbAssumption
<1>3. /\ T \in Int /\ InChunk(down) \in Nat \ {0} /\ OutChunk(down) \in Nat \ {0} /\ down \in Nat
      /\ size \in Int /\ room \in Int /\ gone \in Int
      /\ filter \in 0 .. NumFilters - 1 /\ acc \in 0 .. RateUp - 1
  BY Sizes DEF SpacingInv
<1>4. nin(c) \in Nat \ {0} /\ nout(c) \in Nat
  <2>1. \A a, b \in Nat \ {0} : a * b \in Nat \ {0} OBVIOUS
  <2> QED BY <1>2, <1>3, <2>1
<1>5. pushed(c) \in Int /\ over(c) \in Nat
  <2> DEFINE n == nin(c)
             h == holds(c)
  <2>1. n \in Nat BY <1>4
  <2> HIDE DEF n
  <2>2. (IF Target(n) > size THEN Target(n) ELSE room) \in Int BY <1>3, <2>1, Positive DEF Target
  <2>3. h \in Int BY <2>2 DEF n
  <2> HIDE DEF h
  <2>4. AtMost(size + n, h) \in Int /\ size + n - AtMost(size + n, h) \in Nat BY <1>3, <2>1, <2>3 DEF AtMost
  <2> QED BY <2>4 DEF n, h
<1>6. from(c) \in Int /\ available(c) \in Int
  <2> HIDE DEF over, pushed
  <2> QED BY <1>3, <1>5
<1> DEFINE due == At(from(c), filter, acc)
<1>7. k(c) \in Reached(nout(c), due, available(c), from(c), NumFilters * down)
  <2> HIDE DEF nout, available, from
  <2> QED BY <1>3, <1>4, <1>6, KernelRuns
<1>8. k(c).read \in Nat
  <2> HIDE DEF k, due, nout, available, from
  <2>1. k(c) \in KernelState BY <1>7 DEF Reached
  <2> QED BY <2>1 DEF KernelState
<1>9. Call(nin(c), nout(c), holds(c), pushed(c), over(c), from(c), available(c), k(c))
  <2>1. \E chunks \in Nat \ {0} : nin(c) = chunks * InChunk(down) /\ nout(c) = chunks * OutChunk(down)
    BY <1>2
  <2>2. /\ holds(c) = (IF Target(nin(c)) > size THEN Target(nin(c)) ELSE room)
        /\ pushed(c) = AtMost(size + nin(c), holds(c))
        /\ over(c) = size + nin(c) - pushed(c)
        /\ from(c) = gone + over(c) + TapsPerFilter(tapTotal)
        /\ available(c) = pushed(c) - TapsPerFilter(tapTotal) + 1
    OBVIOUS
  <2> HIDE DEF nin, nout, holds, pushed, over, available, k
  <2> QED BY <1>4, <1>5, <1>6, <1>7, <1>8, <2>1, <2>2 DEF Call
<1>10. audio' = audio \o Moved(k(c).out, lost')
  <2> HIDE DEF k
  <2> QED BY <1>1 DEF Moved
<1> HIDE DEF nin, nout, holds, pushed, over, from, available, k
<1> QED BY <1>1, <1>9, <1>10, Zenon

LEMMA WorkSpacing == SpacingInv /\ PfbWork => SpacingInv'
<1> SUFFICES ASSUME SpacingInv, PfbWork PROVE SpacingInv' OBVIOUS
<1> DEFINE T == TapsPerFilter(tapTotal)
           p == NumFilters * down
<1>1. PICK nin, nout, holds, pushed, over, from, available, k :
        /\ Call(nin, nout, holds, pushed, over, from, available, k)
        /\ room' = holds /\ lost' = lost + over /\ gone' = gone + over + k.read /\ size' = pushed - k.read
        /\ filter' = k.filter /\ acc' = k.acc
        /\ audio' = audio \o Moved(k.out, lost')
        /\ UNCHANGED <<down, tapTotal, backlog>>
  BY Calls, Zenon
<1>2. /\ down \in RateDowns /\ tapTotal \in TapTotals
      /\ gone \in Int /\ size \in Int /\ room \in Int /\ lost \in Nat /\ backlog \in Int
      /\ filter \in Int /\ acc \in Int /\ audio \in Seq(Output)
      /\ Spaced(audio, At(gone + T - lost, filter, acc), p)
  BY Positive DEF SpacingInv
<1>3. T \in Int /\ p \in Int BY <1>2, Sizes
<1>4. /\ over \in Nat /\ from \in Int /\ from = gone + over + T /\ pushed \in Int /\ k.read \in Nat
      /\ holds = (IF Target(nin) > size THEN Target(nin) ELSE room) /\ nin \in Nat
  BY <1>1 DEF Call
<1>5. holds \in Int BY <1>2, <1>3, <1>4, Positive DEF Target
<1> DEFINE due == At(from, filter, acc)
           next == Due(k, from)
           c == lost'
           x == (c * NumFilters) * RateUp
           z == Moved(k.out, c)
<1>6. /\ k \in KernelState /\ next \in Int /\ Spaced(k.out, next, p) /\ FirstTime(k.out, next) = due
  <2> HIDE DEF p
  <2> QED BY <1>1 DEF Call, Reached, p
<1>7. /\ k.out \in Seq(Output) /\ k.filter \in 0 .. NumFilters - 1 /\ k.acc \in 0 .. RateUp - 1
      /\ k.filter \in Int /\ k.acc \in Int
  BY <1>6, Positive DEF KernelState
<1>8. c \in Nat /\ c = lost + over BY <1>1, <1>2, <1>4
<1>9. z \in Seq(Output) /\ Spaced(z, next - x, p) /\ FirstTime(z, next - x) = due - x
  <2>1. z = [i \in DOMAIN k.out |-> [k.out[i] EXCEPT !.newest = @ - c]] BY DEF Moved
  <2> DEFINE s == k.out
  <2>2. /\ s \in Seq(Output) /\ next \in Int /\ p \in Int /\ c \in Int /\ Spaced(s, next, p)
        /\ z = [i \in DOMAIN s |-> [s[i] EXCEPT !.newest = @ - c]]
    BY <1>3, <1>6, <1>7, <1>8, <2>1
  <2> HIDE DEF z, next, p, c, s
  <2>3. /\ z \in Seq(Output) /\ Spaced(z, next - (c * NumFilters) * RateUp, p)
        /\ FirstTime(z, next - (c * NumFilters) * RateUp) = FirstTime(s, next) - (c * NumFilters) * RateUp
    BY <2>2, SpacedMoved
  <2> QED BY <1>6, <2>3 DEF s
<1>10. due - x = At(gone + T - lost, filter, acc)
  <2>1. At(from - c, filter, acc) = due - x BY <1>2, <1>4, <1>8, AtMoved
  <2>2. from - c = gone + T - lost
    <3> HIDE DEF T, c
    <3> QED BY <1>2, <1>3, <1>4, <1>8
  <2> QED BY <2>1, <2>2
<1>11. next - x = At(gone' + T - lost', k.filter, k.acc)
  <2> DEFINE n == from + k.read
  <2>1. next = At(n, k.filter, k.acc) /\ n \in Int BY <1>4 DEF Due
  <2>2. n - c = gone' + T - lost'
    <3> HIDE DEF T
    <3> QED BY <1>1, <1>2, <1>3, <1>4
  <2>3. c \in Int BY <1>8
  <2> HIDE DEF n, c, next
  <2>4. At(n - c, k.filter, k.acc) = At(n, k.filter, k.acc) - x BY <1>7, <2>1, <2>3, AtMoved
  <2> HIDE DEF x, T
  <2>5. At(n - c, k.filter, k.acc) = next - x BY <2>1, <2>4
  <2> QED BY <2>2, <2>5
<1>12. next - x \in Int BY <1>6, <1>8, Positive, Products
<1>13. audio \o z \in Seq(Output) /\ Spaced(audio \o z, next - x, p)
  <2>1. Spaced(audio, FirstTime(z, next - x), p) BY <1>2, <1>9, <1>10
  <2> HIDE DEF z, next, x, p
  <2> QED BY <1>2, <1>3, <1>9, <1>12, <2>1, SpacedConcat
<1>14. audio' = audio \o z /\ filter' = k.filter /\ acc' = k.acc BY <1>1
<1>15. audio' \in Seq(Output) /\ Spaced(audio', At(gone' + TapsPerFilter(tapTotal') - lost', filter', acc'), NumFilters * down')
  <2>1. T = TapsPerFilter(tapTotal') /\ p = NumFilters * down' BY <1>1
  <2> HIDE DEF z, next, x, p, T
  <2> QED BY <1>11, <1>13, <1>14, <2>1
<1>16. /\ down' = down /\ tapTotal' = tapTotal /\ backlog' = backlog
       /\ gone' \in Int /\ size' \in Int /\ room' \in Int /\ lost' \in Nat
  BY <1>1, <1>2, <1>4, <1>5, <1>8
<1> HIDE DEF T, p, z, next, x, c, due
<1> QED BY <1>2, <1>7, <1>14, <1>15, <1>16 DEF SpacingInv

LEMMA SpacingStep == SpacingInv /\ [Next]_vars => SpacingInv'
<1> SUFFICES ASSUME SpacingInv, [Next]_vars PROVE SpacingInv' OBVIOUS
<1>1. CASE PfbSettingsChanged BY <1>1, ChangeSpacing
<1>2. CASE PfbWork BY <1>2, WorkSpacing
<1>3. CASE UNCHANGED <<audio, pfbVars>> BY <1>3 DEF pfbVars, SpacingInv
<1>4. PfbSettingsChanged \/ PfbWork \/ UNCHANGED <<audio, pfbVars>>
  BY DEF Next, Control, Work, vars, edges, FirStart, FirStop, FirSettingsChanged, FirWork
<1> QED BY <1>1, <1>2, <1>3, <1>4

\* Whatever the rate, the bank and the chunks, the outputs are one period of the
\* output rate apart, over the ends of the bank and over the calls.
THEOREM OutputsEvenlySpaced == Spec => []EvenlySpaced
<1>1. SpacingInv => EvenlySpaced
  <2> SUFFICES ASSUME SpacingInv, NEW i \in 1 .. Len(audio) - 1
               PROVE  Time(audio[i + 1]) - Time(audio[i]) = NumFilters * down
    BY DEF EvenlySpaced
  <2>1. audio \in Seq(Output) BY DEF SpacingInv
  <2>2. i \in 1 .. Len(audio) /\ i # Len(audio) BY <2>1
  <2> QED BY <2>2, Zenon DEF SpacingInv, Spaced
<1> QED BY InitSpacing, SpacingStep, <1>1, PTL DEF Spec

-----------------------------------------------------------------------------
(* The history of the resampler *)

LEMMA Ordered ==
  /\ \A a, b \in Int, c \in Nat : a <= b => a * c <= b * c
  /\ \A a, b, c \in Int : (a * b) * c = a * (b * c)
  /\ \A a, b, c \in Int : a * (b * c) = b * (a * c)
<1>1. ASSUME NEW a \in Int, NEW b \in Int, NEW c \in Nat, a <= b PROVE a * c <= b * c
  <2>1. \A x, y \in Nat : x * y \in Nat OBVIOUS
  <2>2. (b - a) * c \in Nat BY <1>1, <2>1
  <2>3. (b - a) * c = b * c - a * c BY Products
  <2>4. a * c \in Int /\ b * c \in Int BY Products
  <2> QED BY <2>2, <2>3, <2>4
<1>2. \A a, b, c \in Int : (a * b) * c = a * (b * c)
  OBVIOUS
<1>3. \A a, b, c \in Int : a * (b * c) = b * (a * c)
  OBVIOUS
<1> QED BY <1>1, <1>2, <1>3

\* A rate the chunks do not round: they do not when decimating.
Exact(d) == RateUp > d => (Base * RateUp) % d = 0

\* The outputs of a chunk then cover the chunk's samples.
LEMMA ChunksCover ==
  ASSUME NEW d \in RateDowns, Exact(d)
  PROVE  InChunk(d) * RateUp <= OutChunk(d) * d
<1>1. d \in Nat \ {0} BY PfbAssumption
<1>2. \A a, b \in Nat \ {0} : a * b \in Nat \ {0} /\ a * b >= b /\ a * b = b * a OBVIOUS
<1>3. CASE RateUp < d
  <2> DEFINE q == (Base * d) \div RateUp
             r == (Base * d) % RateUp
             B == Base * d
  <2>1. B \in Nat /\ B >= d BY <1>1, <1>2, Positive
  <2>2. B = RateUp * q + r /\ q \in Nat /\ r \in Nat /\ r < RateUp
    <3>1. \A b \in Nat : /\ b = RateUp * (b \div RateUp) + (b % RateUp) /\ b \div RateUp \in Nat
                         /\ b % RateUp \in Nat /\ b % RateUp < RateUp
      BY Positive, Division
    <3> QED BY <2>1, <3>1
  <2>3. InChunk(d) = AtLeastOne(q) /\ OutChunk(d) = Base BY <1>3 DEF InChunk, OutChunk
  <2> HIDE DEF q, r, B
  <2>4. q # 0
    <3>1. RateUp * 0 = 0 BY Positive
    <3> QED BY <1>1, <1>3, <2>1, <2>2, <3>1, Positive
  <2>5. InChunk(d) = q BY <2>2, <2>3, <2>4 DEF AtLeastOne
  <2>6. q * RateUp = RateUp * q /\ RateUp * q \in Int BY <2>2, Positive, Products
  <2>7. q * RateUp <= B BY <2>1, <2>2, <2>6
  <2> QED BY <2>3, <2>5, <2>7 DEF B
<1>4. CASE ~ (RateUp < d)
  <2> DEFINE q == (Base * RateUp) \div d
             r == (Base * RateUp) % d
             B == Base * RateUp
  <2>1. B \in Nat \ {0} BY <1>2, Positive
  <2>2. B = d * q + r /\ q \in Nat /\ r \in Nat /\ r < d
    <3>1. \A b \in Nat : /\ b = d * (b \div d) + (b % d) /\ b \div d \in Nat
                         /\ b % d \in Nat /\ b % d < d
      BY <1>1, Division
    <3> QED BY <2>1, <3>1
  <2>3. InChunk(d) = Base /\ OutChunk(d) = AtLeastOne(q) BY <1>4 DEF InChunk, OutChunk
  <2>4. r = 0
    <3>1. CASE RateUp > d BY <3>1 DEF Exact
    <3>2. CASE RateUp = d
      <4> DEFINE e == Base - q
      <4>1. B = Base * d /\ e \in Int BY <2>2, <3>2, Positive
      <4>2. e * d = Base * d - q * d /\ q * d = d * q /\ d * q \in Int BY <1>1, <2>2, Positive, Products
      <4> HIDE DEF q, r, B, e
      <4>3. r = e * d BY <2>1, <2>2, <4>1, <4>2
      <4>4. e <= 0
        <5>1. e >= 1 => 1 * d <= e * d BY <1>1, <4>1, Ordered
        <5> QED BY <1>1, <2>2, <4>1, <4>3, <5>1
      <4>5. e >= 0
        <5>1. e <= -1 => e * d <= (-1) * d BY <1>1, <4>1, Ordered
        <5>2. (-1) * d < 0 BY <1>1
        <5> QED BY <1>1, <2>2, <4>1, <4>3, <5>1, <5>2
      <4>6. e = 0 BY <4>1, <4>4, <4>5
      <4> QED BY <1>1, <4>3, <4>6
    <3> HIDE DEF r
    <3> QED BY <1>1, <1>4, <3>1, <3>2, Positive
  <2> HIDE DEF q, r, B
  <2>5. q # 0
    <3>1. d * 0 = 0 BY <1>1
    <3> QED BY <1>1, <2>1, <2>2, <2>4, <3>1
  <2>6. OutChunk(d) = q BY <2>2, <2>3, <2>5 DEF AtLeastOne
  <2>7. q * d = d * q /\ d * q \in Int BY <1>1, <2>2, Products
  <2>8. q * d = B BY <2>1, <2>2, <2>4, <2>7
  <2>9. B <= q * d BY <2>1, <2>8
  <2> QED BY <2>3, <2>6, <2>9 DEF B
<1> QED BY <1>3, <1>4

\* A call that makes all its outputs takes at least as many samples as it brought:
\* the filter and the fraction make up for less than one.
MakesAll(from, f, a, read, g, b, d, nin, nout) ==
  /\ from \in Int /\ read \in Int /\ d \in Nat /\ nin \in Int /\ nout \in Int
  /\ f \in 0 .. NumFilters - 1 /\ a \in 0 .. RateUp - 1
  /\ g \in 0 .. NumFilters - 1 /\ b \in 0 .. RateUp - 1
  /\ At(from + read, g, b) = At(from, f, a) + nout * (NumFilters * d)
  /\ nin * RateUp <= nout * d

LEMMA ReadsEnough ==
  ASSUME NEW from, NEW f, NEW a, NEW read, NEW g, NEW b, NEW d, NEW nin, NEW nout,
         MakesAll(from, f, a, read, g, b, d, nin, nout)
  PROVE  read >= nin
<1> USE DEF MakesAll
<1> DEFINE U == NumFilters * RateUp
           w == At(0, g, b) - At(0, f, a)
<1>1. U \in Nat \ {0}
  <2>1. \A x, y \in Nat \ {0} : x * y \in Nat \ {0} OBVIOUS
  <2> QED BY <2>1, Positive
<1>2. f \in Int /\ a \in Int /\ g \in Int /\ b \in Int BY Positive
<1>3. At(from + read, g, b) = At(0, g, b) + (from + read) * U /\ At(from, f, a) = At(0, f, a) + from * U
  <2>1. ASSUME NEW n \in Int, NEW y \in Int, NEW z \in Int PROVE At(n, y, z) = At(0, y, z) + n * U
    <3> DEFINE v == n * NumFilters
    <3>1. v \in Int /\ v * RateUp = n * U BY Positive, Ordered
    <3>2. At(n, y, z) = (v + y) * RateUp + z BY DEF At
    <3>3. At(0, y, z) = y * RateUp + z
      <4>1. 0 * NumFilters = 0 /\ 0 + y = y BY Positive
      <4> QED BY <4>1 DEF At
    <3> HIDE DEF v, U
    <3>4. (v + y) * RateUp = v * RateUp + y * RateUp /\ v * RateUp \in Int /\ y * RateUp \in Int
      BY <3>1, Positive, Products
    <3> QED BY <3>1, <3>2, <3>3, <3>4
  <2> HIDE DEF U
  <2>2. from + read \in Int OBVIOUS
  <2> QED BY <1>2, <2>1, <2>2
<1>4. w \in Int /\ w <= U - 1
  <2>1. At(0, g, b) = g * RateUp + b /\ At(0, f, a) = f * RateUp + a
    <3>1. 0 * NumFilters = 0 /\ 0 + g = g /\ 0 + f = f BY <1>2, Positive
    <3> QED BY <3>1 DEF At
  <2>2. g * RateUp <= (NumFilters - 1) * RateUp /\ 0 * RateUp <= f * RateUp
    <3>1. g <= NumFilters - 1 /\ 0 <= f /\ NumFilters - 1 \in Int /\ RateUp \in Nat BY Positive
    <3> QED BY <1>2, <3>1, Ordered
  <2>3. (NumFilters - 1) * RateUp = NumFilters * RateUp - 1 * RateUp BY Positive, Products
  <2>4. 0 * RateUp = 0 /\ 1 * RateUp = RateUp BY Positive
  <2>5. g * RateUp \in Int /\ f * RateUp \in Int /\ NumFilters * RateUp \in Int BY <1>2, Positive, Products
  <2>6. b <= RateUp - 1 /\ 0 <= a BY Positive
  <2> DEFINE G == g * RateUp
             F == f * RateUp
  <2>7. /\ G \in Int /\ F \in Int /\ G <= U - RateUp /\ 0 <= F BY <2>2, <2>3, <2>4, <2>5
  <2>8. w = (G + b) - (F + a) BY <2>1
  <2>9. RateUp \in Int /\ U \in Int BY <1>1, Positive
  <2> HIDE DEF w, G, F, U
  <2> QED BY <1>2, <2>6, <2>7, <2>8, <2>9
<1>5. At(0, g, b) \in Int /\ At(0, f, a) \in Int
  <2>1. 0 \in Int OBVIOUS
  <2>2. \A n, y, z \in Int : At(n, y, z) \in Int BY Times
  <2> QED BY <1>2, <2>1, <2>2, Zenon
<1>6. (from + read) * U = from * U + read * U /\ from * U \in Int /\ read * U \in Int
  <2> HIDE DEF U
  <2> QED BY <1>1, Products
<1> DEFINE P == nout * (NumFilters * d)
<1>7. P \in Int /\ P = NumFilters * (nout * d)
  <2>1. P = NumFilters * (nout * d) BY Positive, Ordered
  <2>2. nout * d \in Int BY Products
  <2> HIDE DEF P
  <2> QED BY <2>1, <2>2, Positive, Products
<1>8. nin * U <= P
  <2> DEFINE x == nin * RateUp
             y == nout * d
  <2>1. x \in Int /\ y \in Int /\ x <= y BY Positive, Products
  <2>2. nin * U = NumFilters * x BY Positive, Ordered
  <2> HIDE DEF x, y, U, P
  <2>3. x * NumFilters <= y * NumFilters BY <2>1, Positive, Ordered
  <2>4. x * NumFilters = NumFilters * x /\ y * NumFilters = NumFilters * y BY <2>1, Positive, Products
  <2> QED BY <1>7, <2>2, <2>3, <2>4 DEF y
<1>9. read * U + w = P
  <2> DEFINE A == At(0, g, b)
             B == At(0, f, a)
             X == from * U
             Y == read * U
  <2>1. A \in Int /\ B \in Int /\ X \in Int /\ Y \in Int /\ w = A - B BY <1>5, <1>6
  <2>2. A + (X + Y) = (B + X) + P BY <1>3, <1>6
  <2> HIDE DEF A, B, X, P, w, Y
  <2>3. Y + w = P BY <1>7, <2>1, <2>2
  <2> QED BY <2>3 DEF Y
<1>10. ASSUME ~ (read >= nin) PROVE FALSE
  <2> HIDE DEF U, w, P
  <2>1. read <= nin - 1 /\ nin - 1 \in Int BY <1>10
  <2>2. read * U <= (nin - 1) * U BY <1>1, <2>1, Ordered
  <2>3. (nin - 1) * U = nin * U - 1 * U /\ 1 * U = U /\ nin * U \in Int BY <1>1, Products
  <2> QED BY <1>1, <1>4, <1>6, <1>7, <1>8, <1>9, <2>2, <2>3
<1> QED BY <1>10

\* At a rate that is not rounded, and as long as the settings have left over no
\* more than the guard holds, no more than that is left over after any call.
LossInv ==
  Exact(down) /\ backlog <= Guard => lost = 0 /\ size - (TapsPerFilter(tapTotal) - 1) <= Guard

LEMMA InitLoss == Init => LossInv
<1> SUFFICES ASSUME Init PROVE LossInv OBVIOUS
<1>1. lost = 0 /\ size = Filled(0, tapTotal) /\ down \in RateDowns /\ tapTotal \in TapTotals BY DEF Init, PfbInit
<1>2. TapsPerFilter(tapTotal) \in Int /\ TapsPerFilter(tapTotal) >= 1
  <2> DEFINE n == tapTotal + NumFilters - 1
             T == n \div NumFilters
  <2>1. n \in Nat /\ n >= NumFilters BY <1>1, Positive, PfbAssumption
  <2>2. n = NumFilters * T + (n % NumFilters) /\ T \in Nat /\ n % NumFilters \in Nat /\ n % NumFilters < NumFilters
    <3>1. \A b \in Nat : /\ b = NumFilters * (b \div NumFilters) + (b % NumFilters) /\ b \div NumFilters \in Nat
                         /\ b % NumFilters \in Nat /\ b % NumFilters < NumFilters
      BY Positive, Division
    <3> QED BY <2>1, <3>1
  <2>3. TapsPerFilter(tapTotal) = T BY DEF TapsPerFilter, CeilDiv
  <2> HIDE DEF n, T
  <2>4. T # 0
    <3>1. NumFilters * 0 = 0 BY Positive
    <3> QED BY <2>1, <2>2, <3>1, Positive
  <2> QED BY <2>2, <2>3, <2>4
<1>3. size = TapsPerFilter(tapTotal) - 1 BY <1>1, <1>2 DEF Filled
<1> QED BY <1>1, <1>2, <1>3, Positive DEF LossInv

LEMMA WorkLoss == SpacingInv /\ LossInv /\ PfbWork => LossInv'
<1> SUFFICES ASSUME SpacingInv, LossInv, PfbWork PROVE LossInv' OBVIOUS
<1> DEFINE T == TapsPerFilter(tapTotal)
<1>1. PICK nin, nout, holds, pushed, over, from, available, k :
        /\ Call(nin, nout, holds, pushed, over, from, available, k)
        /\ room' = holds /\ lost' = lost + over /\ gone' = gone + over + k.read /\ size' = pushed - k.read
        /\ filter' = k.filter /\ acc' = k.acc
        /\ audio' = audio \o Moved(k.out, lost')
        /\ UNCHANGED <<down, tapTotal, backlog>>
  BY Calls, Zenon
<1>2. /\ down \in RateDowns /\ tapTotal \in TapTotals /\ down \in Nat
      /\ size \in Int /\ lost \in Nat /\ room \in Int /\ T \in Int
      /\ filter \in 0 .. NumFilters - 1 /\ acc \in 0 .. RateUp - 1
  BY Sizes DEF SpacingInv
<1> SUFFICES ASSUME Exact(down), backlog <= Guard
             PROVE  lost' = 0 /\ size' - (TapsPerFilter(tapTotal') - 1) <= Guard
  BY <1>1 DEF LossInv
<1>3. lost = 0 /\ size - (T - 1) <= Guard BY DEF LossInv
<1>4. /\ holds = (IF Target(nin) > size THEN Target(nin) ELSE room) /\ pushed = AtMost(size + nin, holds)
      /\ over = size + nin - pushed /\ from = gone + over + T /\ available = pushed - T + 1
      /\ nin \in Nat \ {0} /\ nout \in Nat /\ pushed \in Int /\ from \in Int /\ k.read \in Nat
      /\ k \in Reached(nout, At(from, filter, acc), available, from, NumFilters * down)
  BY <1>1 DEF Call
<1>5. holds = T - 1 + nin + Guard
  <2>1. Target(nin) = T - 1 + nin + Guard BY DEF Target
  <2>2. Target(nin) > size
    <3> HIDE DEF T
    <3> QED BY <1>2, <1>3, <1>4, <2>1, Positive
  <2> QED BY <1>4, <2>1, <2>2
<1>6. pushed = size + nin /\ over = 0
  <2> HIDE DEF T
  <2> QED BY <1>2, <1>3, <1>4, <1>5, Positive DEF AtMost
<1>7. k.read >= nin \/ k.read >= available
  <2>1. CASE k.read >= available BY <2>1
  <2>2. CASE ~ (k.read >= available)
    <3>1. /\ At(from + k.read, k.filter, k.acc) = At(from, filter, acc) + nout * (NumFilters * down)
          /\ k.filter \in 0 .. NumFilters - 1 /\ k.acc \in 0 .. RateUp - 1
      BY <1>4, <2>2 DEF Reached, Due, KernelState
    <3>2. nin * RateUp <= nout * down
      <4>1. PICK chunks \in Nat \ {0} : nin = chunks * InChunk(down) /\ nout = chunks * OutChunk(down)
        BY <1>1 DEF Call
      <4> DEFINE i == InChunk(down)
                 o == OutChunk(down)
      <4>2. i \in Nat /\ o \in Nat /\ i * RateUp <= o * down BY <1>2, Sizes, ChunksCover
      <4> HIDE DEF i, o
      <4>3. i * RateUp \in Int /\ o * down \in Int BY <1>2, <4>2, Positive, Products
      <4>4. (i * RateUp) * chunks <= (o * down) * chunks BY <4>2, <4>3, Ordered
      <4>5. (chunks * i) * RateUp = chunks * (i * RateUp) /\ (chunks * o) * down = chunks * (o * down)
        BY <1>2, <4>2, Positive, Ordered
      <4>6. chunks * (i * RateUp) = (i * RateUp) * chunks /\ chunks * (o * down) = (o * down) * chunks
        BY <4>3, Products
      <4>7. (chunks * i) * RateUp <= (chunks * o) * down BY <4>4, <4>5, <4>6
      <4> QED BY <4>1, <4>7 DEF i, o
    <3>3. MakesAll(from, filter, acc, k.read, k.filter, k.acc, down, nin, nout)
      BY <1>2, <1>4, <3>1, <3>2 DEF MakesAll
    <3> QED BY <3>3, ReadsEnough
  <2> QED BY <2>1, <2>2
<1>8. size' - (T - 1) <= Guard
  <2> DEFINE r == k.read
  <2>1. size' = pushed - r BY <1>1
  <2>2. r \in Int /\ (r >= nin \/ r >= available) BY <1>4, <1>7
  <2>3. nin \in Int /\ Guard \in Nat BY <1>4, Positive
  <2>4. available = pushed - T + 1 BY <1>4
  <2> HIDE DEF T, r
  <2> QED BY <1>2, <1>3, <1>6, <2>1, <2>2, <2>3, <2>4
<1>9. lost' = 0 BY <1>1, <1>3, <1>6
<1> QED BY <1>1, <1>8, <1>9

LEMMA LossStep == SpacingInv /\ LossInv /\ [Next]_vars => LossInv'
<1> SUFFICES ASSUME SpacingInv, LossInv, [Next]_vars PROVE LossInv' OBVIOUS
<1>1. CASE PfbSettingsChanged
  <2>1. lost' = 0 /\ backlog' = size' - (TapsPerFilter(tapTotal') - 1) BY <1>1 DEF PfbSettingsChanged
  <2> QED BY <2>1 DEF LossInv
<1>2. CASE PfbWork BY <1>2, WorkLoss
<1>3. CASE UNCHANGED pfbVars BY <1>3 DEF pfbVars, LossInv
<1>4. PfbSettingsChanged \/ PfbWork \/ UNCHANGED pfbVars
  BY DEF Next, Control, Work, vars
<1> QED BY <1>1, <1>2, <1>3, <1>4

\* No sample is overwritten unused but where the chunks round the rate, or a
\* change of settings has left over more than the guard.
THEOREM NoSampleLost == Spec => []LosesOnlyIfRounded
<1>1. SpacingInv /\ LossInv => LosesOnlyIfRounded
  <2> SUFFICES ASSUME SpacingInv, LossInv, lost > 0, ~ (RateUp > down /\ (Base * RateUp) % down # 0)
               PROVE  backlog > Guard
    BY DEF LosesOnlyIfRounded
  <2>1. Exact(down) BY DEF Exact
  <2>2. lost # 0 /\ backlog \in Int BY DEF SpacingInv
  <2>3. ~ (backlog <= Guard) BY <2>1, <2>2 DEF LossInv
  <2> QED BY <2>2, <2>3, Positive
<1> QED BY InitSpacing, SpacingStep, InitLoss, LossStep, <1>1, PTL DEF Spec

-----------------------------------------------------------------------------
(* The decimator *)

\* k numbers, the newest of which is s.
Descending(s, k) == [i \in 1 .. k |-> s - i + 1]

LEMMA NewestOfDescending ==
  ASSUME NEW s \in Int, NEW m \in Nat, NEW k \in Nat, k <= m
  PROVE  SubSeq(Descending(s, m), 1, k) = Descending(s, k)
<1> DEFINE d == Descending(s, m)
<1>1. d \in Seq(Int) /\ Len(d) = m /\ \A i \in 1 .. m : d[i] = s - i + 1 BY DEF Descending
<1> HIDE DEF d
<1>2. SubSeq(d, 1, k) = [i \in 1 .. k |-> d[i]]
  <2>1. SubSeq(d, 1, k) = [i \in 1 .. k |-> d[1 + i - 1]] BY <1>1
  <2>2. \A i \in 1 .. k : 1 + i - 1 = i OBVIOUS
  <2> QED BY <2>1, <2>2
<1>3. \A i \in 1 .. k : d[i] = s - i + 1 BY <1>1
<1> QED BY <1>2, <1>3 DEF Descending, d

\* i more samples are taken in, before the m newest.
LEMMA TakenIn ==
  ASSUME NEW c \in Int, NEW l \in Nat, NEW m \in Nat, NEW i \in 0 .. l
  PROVE  Reverse(SubSeq(Numbers(c + 1, l), 1, i)) \o Descending(c, m) = Descending(c + i, i + m)
<1> DEFINE s == Numbers(c + 1, l)
           x == SubSeq(s, 1, i)
           y == Reverse(x)
           z == Descending(c, m)
           d == Descending(c + i, i + m)
           n == i + m
<1>0. i \in Nat /\ i <= l /\ n \in Nat OBVIOUS
<1>1. x \in Seq(Int) /\ Len(x) = i /\ \A j \in 1 .. i : x[j] = c + j
  <2>1. s \in Seq(Int) /\ Len(s) = l /\ \A j \in 1 .. l : s[j] = c + j
    <3>1. s = [j \in 1 .. l |-> c + 1 + j - 1] BY DEF Numbers
    <3>2. \A j \in 1 .. l : c + 1 + j - 1 = c + j OBVIOUS
    <3> HIDE DEF s
    <3> QED BY <3>1, <3>2
  <2> HIDE DEF s
  <2>2. x = [j \in 1 .. i |-> s[1 + j - 1]] BY <1>0, <2>1
  <2>3. x \in Seq(Int) /\ Len(x) = i BY <2>1, Cut
  <2>4. ASSUME NEW j \in 1 .. i PROVE x[j] = c + j
    <3>1. 1 + j - 1 = j /\ j \in 1 .. l BY <1>0
    <3> HIDE DEF x
    <3> QED BY <2>1, <2>2, <3>1
  <2> QED BY <2>3, <2>4
<1> HIDE DEF x, s
<1>2. y \in Seq(Int) /\ Len(y) = i /\ \A j \in 1 .. i : y[j] = c + i - j + 1
  <2>1. y = [j \in 1 .. i |-> x[(i - j) + 1]] BY <1>1 DEF Reverse
  <2>2. \A j \in 1 .. i : (i - j) + 1 \in 1 .. i BY <1>0
  <2>3. \A j \in 1 .. i : y[j] = c + ((i - j) + 1) BY <1>1, <2>1, <2>2
  <2>4. y = [j \in 1 .. i |-> c + ((i - j) + 1)] BY <1>1, <2>1, <2>2
  <2> HIDE DEF y
  <2> QED BY <1>0, <2>3, <2>4
<1>3. z \in Seq(Int) /\ Len(z) = m /\ \A j \in 1 .. m : z[j] = c - j + 1 BY DEF Descending
<1>4. d \in Seq(Int) /\ Len(d) = n /\ \A j \in 1 .. n : d[j] = c + i - j + 1
  <2>1. d = [j \in 1 .. n |-> c + i - j + 1] BY DEF Descending
  <2> HIDE DEF d, n
  <2> QED BY <1>0, <2>1
<1> DEFINE q == y \o z
<1> HIDE DEF y, z, d
<1>5. /\ q \in Seq(Int) /\ Len(q) = n /\ \A j \in 1 .. i : q[j] = y[j]
      /\ \A j \in i + 1 .. n : q[j] = z[j - i]
  BY <1>2, <1>3, Concatenation
<1> HIDE DEF q
<1>6. ASSUME NEW j \in 1 .. n PROVE q[j] = d[j]
  <2>1. CASE j <= i
    <3>1. j \in 1 .. i BY <2>1
    <3>2. q[j] = c + i - j + 1 BY <1>2, <1>5, <3>1
    <3> QED BY <1>4, <3>2
  <2>2. CASE ~ (j <= i)
    <3> DEFINE k == j - i
    <3>1. j \in i + 1 .. n /\ k \in 1 .. m BY <1>0, <2>2
    <3>2. q[j] = z[k] BY <1>5, <3>1
    <3> HIDE DEF k
    <3>3. z[k] = c - k + 1 BY <1>3, <3>1
    <3>4. d[j] = c + i - j + 1 BY <1>4
    <3> QED BY <1>0, <3>2, <3>3, <3>4 DEF k
  <2> QED BY <2>1, <2>2
<1>7. q \in Seq(Int) /\ d \in Seq(Int) /\ Len(q) = Len(d) /\ \A j \in 1 .. Len(q) : q[j] = d[j]
  BY <1>4, <1>5, <1>6
<1>8. q = d BY ONLY <1>7, SeqEqual
<1> QED BY <1>8 DEF q, y, z, d, x, s

LEMMA PowersOfTwo ==
  /\ PowerOfTwo \in [Nat -> Nat]
  /\ PowerOfTwo[0] = 1 /\ \A k \in Nat : PowerOfTwo[k + 1] = 2 * PowerOfTwo[k]
  BY Doubling DEF PowerOfTwo, Doubles

\* What std::bit_ceil returns is enough.
LEMMA CapacityCovers ==
  ASSUME NEW t \in Nat
  PROVE  BitCeil(t) \in Nat /\ BitCeil(t) >= t
<1> DEFINE S == {p \in {PowerOfTwo[i] : i \in 0 .. t} : p >= t}
           T == {i \in Nat : PowerOfTwo[i] >= i + 1}
<1>1. \A i \in Nat : PowerOfTwo[i] \in Nat BY PowersOfTwo
<1>2. Nat \subseteq T
  <2>1. 0 \in T BY PowersOfTwo
  <2>2. ASSUME NEW i \in Nat, i \in T PROVE i + 1 \in T
    <3>1. PowerOfTwo[i + 1] = 2 * PowerOfTwo[i] /\ PowerOfTwo[i] >= i + 1 /\ PowerOfTwo[i] \in Nat
      BY <1>1, <2>2, PowersOfTwo
    <3> QED BY <3>1
  <2> HIDE DEF T
  <2> QED BY <2>1, <2>2, Induction
<1>3. PowerOfTwo[t] \in S
  <2>1. PowerOfTwo[t] >= t + 1 BY <1>2
  <2> QED BY <1>1, <2>1
<1>4. S \subseteq Nat /\ \A p \in S : p >= t BY <1>1
<1>5. BitCeil(t) \in S
  <2>1. \E x \in S : \A y \in S : x <= y
    <3> HIDE DEF S
    <3> QED BY <1>3, <1>4, Least
  <2>2. BitCeil(t) = CHOOSE x \in S : \A y \in S : x <= y BY DEF BitCeil, Min
  <2> HIDE DEF S
  <2> QED BY <2>1, <2>2
<1> HIDE DEF S
<1> QED BY <1>4, <1>5

\* How many of the samples 1 .. i begin a chunk of d, and which.
Begun(i, d) == (i + d - 1) \div d
Firsts(m, d) == [j \in 1 .. m |-> (j - 1) * d + 1]

LEMMA BegunNext ==
  ASSUME NEW i \in Nat \ {0}, NEW d \in Nat \ {0}
  PROVE  /\ Begun(i - 1, d) \in Nat
         /\ (i - 1) % d = 0 => Begun(i, d) = Begun(i - 1, d) + 1 /\ i = Begun(i - 1, d) * d + 1
         /\ (i - 1) % d # 0 => Begun(i, d) = Begun(i - 1, d)
<1> DEFINE q == (i - 1) \div d
           r == (i - 1) % d
           x == i + d - 1
           y == i - 1 + d - 1
<1>0. i - 1 \in Nat /\ x \in Nat /\ y \in Nat /\ x = y + 1 OBVIOUS
<1>1. q \in Nat /\ r \in 0 .. d - 1 /\ i - 1 = q * d + r BY <1>0, Division
<1> HIDE DEF q, r
<1>2. q * d \in Int /\ (q + 1) * d = q * d + d
  <2>1. (q + 1) * d = q * d + 1 * d /\ q * d \in Int BY <1>1, Multiples
  <2> QED BY <2>1
<1> DEFINE u == q * d
           v == (q + 1) * d
<1>3. u \in Int /\ v = u + d /\ i - 1 = u + r BY <1>1, <1>2
<1>4. CASE r = 0
  <2> DEFINE o == 0
  <2>1. y = u + (d - 1) /\ x = v + o /\ q + 1 \in Int /\ o \in 0 .. d - 1 /\ d - 1 \in 0 .. d - 1
    BY <1>0, <1>1, <1>3, <1>4
  <2>2. y \div d = q
    <3> HIDE DEF y
    <3> QED BY <1>0, <1>1, <2>1, DivisionIs
  <2>3. x \div d = q + 1
    <3> HIDE DEF x, o
    <3> QED BY <1>0, <1>1, <2>1, DivisionIs
  <2>4. i = u + 1 BY <1>3, <1>4
  <2> QED BY <1>1, <1>4, <2>2, <2>3, <2>4 DEF Begun, r
<1>5. CASE r # 0
  <2>1. /\ y = v + (r - 1) /\ x = v + r /\ r - 1 \in 0 .. d - 1 /\ r \in 0 .. d - 1 /\ q + 1 \in Int
        /\ x \in Nat
    BY <1>0, <1>1, <1>3, <1>5
  <2>2. y \div d = q + 1
    <3> HIDE DEF y
    <3> QED BY <1>0, <2>1, DivisionIs
  <2>3. x \div d = q + 1
    <3> HIDE DEF x
    <3> QED BY <2>1, DivisionIs
  <2> QED BY <1>1, <1>5, <2>2, <2>3 DEF Begun, r
<1> QED BY <1>4, <1>5

\* At phase 0 the samples that make an output are the first ones of the chunks.
LEMMA OutputsAre ==
  ASSUME phase = 0, NEW n \in Nat, decim \in Nat \ {0}
  PROVE  Outputs(n) = Firsts(Begun(n, decim), decim)
<1> DEFINE d == decim
           Body(h) == [i \in 0 .. n |->
                        IF i = 0 THEN <<>>
                        ELSE IF (phase + i - 1) % d = 0 THEN Append(h[i - 1], i) ELSE h[i - 1]]
           g == [i \in 0 .. n |-> Firsts(Begun(i, d), d)]
<1>1. ASSUME NEW m \in Nat
      PROVE  /\ Firsts(m, d) \in Seq(Int) /\ Len(Firsts(m, d)) = m
             /\ Firsts(m + 1, d) = Append(Firsts(m, d), m * d + 1)
  <2>1. \A j \in 1 .. m + 1 : (j - 1) * d + 1 \in Int
    <3>1. ASSUME NEW j \in 1 .. m + 1 PROVE (j - 1) * d \in Int BY Multiples
    <3> QED BY <3>1
  <2> DEFINE x == Firsts(m, d)
             y == Firsts(m + 1, d)
             z == Append(x, m * d + 1)
  <2>2. x \in Seq(Int) /\ Len(x) = m /\ \A j \in 1 .. m : x[j] = (j - 1) * d + 1 BY <2>1 DEF Firsts
  <2>3. y \in Seq(Int) /\ Len(y) = m + 1 /\ \A j \in 1 .. m + 1 : y[j] = (j - 1) * d + 1 BY <2>1 DEF Firsts
  <2>4. m * d + 1 \in Int BY Multiples
  <2> DEFINE e == m * d + 1
  <2>5. y[m + 1] = e
    <3>1. y[m + 1] = (m + 1 - 1) * d + 1 /\ m + 1 - 1 = m BY <2>3
    <3> QED BY <3>1
  <2> HIDE DEF x, y, e
  <2>6. z \in Seq(Int) /\ Len(z) = m + 1 /\ z[m + 1] = e /\ \A j \in 1 .. m : z[j] = x[j] BY <2>2, <2>4 DEF e
  <2> HIDE DEF z
  <2>7. ASSUME NEW j \in 1 .. m + 1 PROVE z[j] = y[j]
    <3>1. CASE j = m + 1 BY <2>5, <2>6, <3>1
    <3>2. CASE j # m + 1
      <4>1. j \in 1 .. m BY <3>2
      <4> QED BY <2>2, <2>3, <2>6, <4>1
    <3> QED BY <3>1, <3>2
  <2>8. z \in Seq(Int) /\ y \in Seq(Int) /\ Len(z) = Len(y) /\ \A j \in 1 .. Len(z) : z[j] = y[j]
    BY <2>3, <2>6, <2>7
  <2>9. z = y BY ONLY <2>8, SeqEqual
  <2> QED BY <2>2, <2>9 DEF x, y, z, e
<1>2. Begun(0, d) = 0 /\ Firsts(0, d) = <<>>
  <2> DEFINE x == 0 + d - 1
  <2>1. x = 0 * d + (d - 1) /\ x \in Nat /\ d - 1 \in 0 .. d - 1 OBVIOUS
  <2>2. x \div d = 0
    <3> HIDE DEF x
    <3> QED BY <2>1, DivisionIs
  <2> QED BY <2>2 DEF Begun, Firsts
<1>3. ASSUME NEW i \in 1 .. n
      PROVE  Firsts(Begun(i, d), d) = IF (phase + i - 1) % d = 0 THEN Append(Firsts(Begun(i - 1, d), d), i)
                                      ELSE Firsts(Begun(i - 1, d), d)
  <2> DEFINE m == Begun(i - 1, d)
  <2>1. /\ m \in Nat /\ phase + i - 1 = i - 1
        /\ (i - 1) % d = 0 => Begun(i, d) = m + 1 /\ i = m * d + 1
        /\ (i - 1) % d # 0 => Begun(i, d) = m
    <3>1. i \in Nat \ {0} /\ phase + i - 1 = i - 1 OBVIOUS
    <3> QED BY <3>1, BegunNext
  <2> HIDE DEF m, d
  <2>2. Firsts(m + 1, d) = Append(Firsts(m, d), m * d + 1) BY <1>1, <2>1
  <2> QED BY <2>1, <2>2 DEF m
<1>4. \E h : h = Body(h)
  <2>1. g = Body(g)
    <3>1. ASSUME NEW i \in 0 .. n
          PROVE  g[i] = IF i = 0 THEN <<>>
                        ELSE IF (phase + i - 1) % d = 0 THEN Append(g[i - 1], i) ELSE g[i - 1]
      <4>1. CASE i = 0 BY <1>2, <4>1
      <4>2. CASE i # 0
        <5>1. i \in 1 .. n /\ i - 1 \in 0 .. n BY <4>2
        <5>2. g[i] = Firsts(Begun(i, d), d) /\ g[i - 1] = Firsts(Begun(i - 1, d), d) BY <5>1
        <5> HIDE DEF g
        <5> QED BY <1>3, <4>2, <5>1, <5>2
      <4> QED BY <4>1, <4>2
    <3> QED BY <3>1
  <2> HIDE DEF g, Body
  <2> QED BY <2>1
<1> DEFINE q == CHOOSE h : h = Body(h)
<1>5. q = Body(q)
  <2> HIDE DEF Body
  <2> QED BY <1>4
<1>6. Outputs(n) = q[n] BY DEF Outputs
<1> HIDE DEF q
<1>7. \A i \in 0 .. n : q[i] = IF i = 0 THEN <<>>
                               ELSE IF (phase + i - 1) % d = 0 THEN Append(q[i - 1], i) ELSE q[i - 1]
  BY <1>5
<1> HIDE DEF Body
<1> DEFINE T == {i \in Nat : i <= n => q[i] = Firsts(Begun(i, d), d)}
<1>8. 0 \in T BY <1>2, <1>7
<1>9. ASSUME NEW i \in Nat, i \in T PROVE i + 1 \in T
  <2> SUFFICES ASSUME i + 1 <= n PROVE q[i + 1] = Firsts(Begun(i + 1, d), d) OBVIOUS
  <2> DEFINE k == i + 1
  <2>1. k \in 1 .. n /\ k \in 0 .. n /\ k # 0 /\ k - 1 = i BY <1>9
  <2>2. q[i] = Firsts(Begun(i, d), d) BY <1>9, <2>1
  <2> HIDE DEF k, T
  <2>3. q[k] = IF (phase + k - 1) % d = 0 THEN Append(q[i], k) ELSE q[i] BY <1>7, <2>1
  <2>4. Firsts(Begun(k, d), d) = IF (phase + k - 1) % d = 0 THEN Append(Firsts(Begun(i, d), d), k)
                                 ELSE Firsts(Begun(i, d), d)
    <3> DEFINE p == k - 1
    <3>1. Firsts(Begun(k, d), d) = IF (phase + k - 1) % d = 0 THEN Append(Firsts(Begun(p, d), d), k)
                                   ELSE Firsts(Begun(p, d), d)
      BY <1>3, <2>1, Zenon
    <3>2. p = i BY <2>1
    <3> HIDE DEF p
    <3> QED BY <3>1, <3>2, Zenon
  <2>5. q[k] = Firsts(Begun(k, d), d)
    <3> DEFINE v == Firsts(Begun(i, d), d)
               u == Firsts(Begun(k, d), d)
               t == (phase + k - 1) % d = 0
    <3>1. q[i] = v BY <2>2
    <3>2. q[k] = IF t THEN Append(q[i], k) ELSE q[i] BY <2>3
    <3>3. u = IF t THEN Append(v, k) ELSE v BY <2>4
    <3> HIDE DEF t, u, v
    <3>4. q[k] = u BY <3>1, <3>2, <3>3
    <3> QED BY <3>4 DEF u
  <2> QED BY <2>5 DEF k
<1>10. n \in T
  <2> HIDE DEF T
  <2>1. Nat \subseteq T BY <1>8, <1>9, Induction
  <2> QED BY <2>1
<1> QED BY <1>6, <1>10

FirOutput == [number : Nat, window : Seq(Int)]

\* The connection holds the samples after those consumed, the history the newest
\* of these, and a chunk begins with every call, at phase 0.
FilterInv ==
  /\ received \in Nat /\ consumed \in Nat /\ filtered \in Nat
  /\ rf = Numbers(consumed + 1, received - consumed) /\ consumed <= received
  /\ quad \in Seq(FirOutput)
  /\ decim \in Nat /\ chunk \in Nat /\ (filtering => decim # 0 /\ chunk = decim)
  /\ taps \in Nat /\ capacity \in Nat /\ taps <= capacity
  /\ phase = 0
  /\ begun = [consumed |-> begun.consumed, filtered |-> begun.filtered, cleared |-> begun.cleared]
  /\ begun.consumed \in Nat /\ begun.filtered \in Nat /\ begun.cleared \in 0 .. consumed
  /\ consumed - begun.consumed = (filtered - begun.filtered) * decim
  /\ history = Descending(consumed, AtMost(capacity, consumed - begun.cleared))

LEMMA InitFilter == Init => FilterInv
<1> SUFFICES ASSUME Init PROVE FilterInv OBVIOUS
<1>1. /\ rf = <<>> /\ quad = <<>> /\ received = 0 /\ consumed = 0 /\ filtered = 0
      /\ decim \in Decims \ {0} /\ chunk = decim /\ filtering = FALSE /\ taps = 1 /\ history = <<>>
      /\ capacity = InitialCapacity /\ phase = 0
      /\ begun = [consumed |-> 0, filtered |-> 0, cleared |-> 0]
  BY DEF Init, SoapyInit, FirInit
<1>2. decim \in Nat /\ decim # 0 /\ capacity \in Nat /\ 1 <= capacity BY <1>1, FirAssumption
<1>3. Numbers(1, 0) = <<>> /\ Descending(0, 0) = <<>> BY DEF Numbers, Descending
<1>4. 0 - 0 = (0 - 0) * decim /\ 0 + 1 = 1 /\ 0 - 0 = 0 /\ AtMost(capacity, 0) = 0 BY <1>2 DEF AtMost
<1>5. <<>> \in Seq(FirOutput) OBVIOUS
<1>6. begun.consumed = 0 /\ begun.filtered = 0 /\ begun.cleared = 0 /\ 0 \in 0 .. 0 BY <1>1
<1> QED BY <1>1, <1>2, <1>3, <1>4, <1>5, <1>6 DEF FilterInv

LEMMA CutDown ==
  ASSUME NEW s \in Int, NEW n \in Nat, NEW k \in Nat
  PROVE  /\ SubSeq(Descending(s, n), 1, AtMost(Len(Descending(s, n)), k)) = Descending(s, AtMost(n, k))
         /\ SubSeq(Descending(s, n), 1, AtMost(k, Len(Descending(s, n)))) = Descending(s, AtMost(k, n))
<1>1. Len(Descending(s, n)) = n BY DEF Descending
<1>2. AtMost(n, k) \in Nat /\ AtMost(n, k) <= n /\ AtMost(k, n) \in Nat /\ AtMost(k, n) <= n BY DEF AtMost
<1>3. /\ SubSeq(Descending(s, n), 1, AtMost(n, k)) = Descending(s, AtMost(n, k))
      /\ SubSeq(Descending(s, n), 1, AtMost(k, n)) = Descending(s, AtMost(k, n))
  BY <1>2, NewestOfDescending
<1> QED BY <1>1, <1>3

LEMMA LeastOf ==
  ASSUME NEW a \in Nat, NEW i \in Nat, NEW k \in Nat, NEW t \in Nat, t <= k
  PROVE  /\ AtMost(k, a) \in Nat /\ AtMost(k, a + i) \in Nat
         /\ AtMost(i + AtMost(k, a), k) = AtMost(k, a + i)
         /\ AtMost(t, AtMost(k, a + i)) = AtMost(t, a + i) /\ AtMost(t, a + i) \in Nat
<1>1. AtMost(k, a) \in Nat /\ AtMost(k, a + i) \in Nat /\ AtMost(t, a + i) \in Nat BY DEF AtMost
<1>2. AtMost(i + AtMost(k, a), k) = AtMost(k, a + i) BY DEF AtMost
<1>3. AtMost(t, AtMost(k, a + i)) = AtMost(t, a + i) BY DEF AtMost
<1> QED BY <1>1, <1>2, <1>3

\* What the filter takes at sample i of a call, and what it leaves to the next one.
LEMMA WindowsAre ==
  ASSUME FilterInv, NEW i \in 0 .. Len(rf)
  PROVE  /\ After(i) = Descending(consumed + i, AtMost(capacity, consumed + i - begun.cleared))
         /\ Window(i) = Newest(consumed + i, taps) /\ Window(i) \in Seq(Int)
<1> DEFINE l  == received - consumed
           a  == consumed - begun.cleared
           m  == AtMost(capacity, a)
           m2 == AtMost(capacity, a + i)
           s  == consumed + i
           n  == i + m
           k  == AtMost(taps, a + i)
<1>1. /\ consumed \in Nat /\ received \in Nat /\ l \in Nat /\ begun.cleared \in 0 .. consumed
      /\ rf = Numbers(consumed + 1, l) /\ taps \in Nat /\ capacity \in Nat /\ taps <= capacity
      /\ history = Descending(consumed, m)
  BY DEF FilterInv
<1>2. Len(rf) = l BY <1>1 DEF Numbers
<1>3. i \in 0 .. l /\ i \in Nat /\ a \in Nat /\ consumed \in Int /\ s \in Int BY <1>1, <1>2
<1>4. /\ m \in Nat /\ m2 \in Nat /\ AtMost(n, capacity) = m2
      /\ AtMost(taps, m2) = k /\ k \in Nat
  <2> HIDE DEF a
  <2>1. /\ AtMost(capacity, a) \in Nat /\ AtMost(capacity, a + i) \in Nat
        /\ AtMost(i + AtMost(capacity, a), capacity) = AtMost(capacity, a + i)
        /\ AtMost(taps, AtMost(capacity, a + i)) = AtMost(taps, a + i) /\ AtMost(taps, a + i) \in Nat
    <3>1. a \in Nat /\ i \in Nat /\ capacity \in Nat /\ taps \in Nat /\ taps <= capacity BY <1>1, <1>3
    <3> QED BY ONLY <3>1, LeastOf
  <2> QED BY <2>1, Zenon
<1>5. consumed + i - begun.cleared = a + i /\ s - begun.cleared = a + i BY <1>1, <1>3
<1>6. n \in Nat BY <1>3, <1>4
<1>7. Reverse(SubSeq(rf, 1, i)) \o history = Descending(s, n)
  <2> HIDE DEF l, m
  <2>1. Reverse(SubSeq(Numbers(consumed + 1, l), 1, i)) \o Descending(consumed, m) = Descending(s, n)
    BY <1>1, <1>3, <1>4, TakenIn
  <2> QED BY <1>1, <2>1
<1> HIDE DEF l, m, m2, s, n, k, a
<1>8. After(i) = Descending(s, m2)
  <2>1. After(i) = SubSeq(Descending(s, n), 1, AtMost(Len(Descending(s, n)), capacity))
    BY <1>7, Zenon DEF After
  <2>2. SubSeq(Descending(s, n), 1, AtMost(Len(Descending(s, n)), capacity)) = Descending(s, AtMost(n, capacity))
    BY <1>1, <1>3, <1>6, CutDown
  <2> QED BY <1>4, <2>1, <2>2, Zenon
<1>9. Window(i) = Descending(s, k)
  <2>1. Window(i) = SubSeq(Descending(s, m2), 1, AtMost(taps, Len(Descending(s, m2))))
    BY <1>8, Zenon DEF Window
  <2>2. SubSeq(Descending(s, m2), 1, AtMost(taps, Len(Descending(s, m2)))) = Descending(s, AtMost(taps, m2))
    BY <1>1, <1>3, <1>4, CutDown
  <2> QED BY <1>4, <2>1, <2>2, Zenon
<1>10. Newest(s, taps) = Descending(s, k)
  <2>1. AtMost(taps, s - begun.cleared) = k BY <1>5 DEF k
  <2> HIDE DEF k
  <2> QED BY <2>1 DEF Newest, Descending
<1>11. Descending(s, k) \in Seq(Int) BY <1>3, <1>4 DEF Descending
<1>12. consumed + i = s /\ AtMost(capacity, consumed + i - begun.cleared) = m2 BY <1>5 DEF s, m2
<1> QED BY <1>8, <1>9, <1>10, <1>11, <1>12

LEMMA NumbersLeft ==
  ASSUME NEW c \in Int, NEW l \in Nat, NEW n \in 0 .. l
  PROVE  SubSeq(Numbers(c + 1, l), n + 1, Len(Numbers(c + 1, l))) = Numbers(c + n + 1, l - n)
<1> DEFINE s == Numbers(c + 1, l)
           x == SubSeq(s, n + 1, Len(s))
           y == Numbers(c + n + 1, l - n)
<1>1. s \in Seq(Int) /\ Len(s) = l /\ \A i \in 1 .. l : s[i] = c + i
  <2>1. s = [j \in 1 .. l |-> c + 1 + j - 1] BY DEF Numbers
  <2>2. \A j \in 1 .. l : c + 1 + j - 1 = c + j OBVIOUS
  <2> HIDE DEF s
  <2> QED BY <2>1, <2>2
<1>2. y \in Seq(Int) /\ Len(y) = l - n /\ \A i \in 1 .. l - n : y[i] = c + n + i
  <2> DEFINE f == c + n + 1
             m == l - n
  <2>1. f \in Int /\ m \in Nat /\ \A i \in 1 .. m : f + i - 1 = c + n + i OBVIOUS
  <2>2. y = [j \in 1 .. m |-> f + j - 1] BY DEF Numbers
  <2> HIDE DEF f, m, y
  <2>3. y \in Seq(Int) /\ Len(y) = m /\ \A i \in 1 .. m : y[i] = c + n + i BY <2>1, <2>2
  <2> QED BY <2>3 DEF m
<1> HIDE DEF s, y
<1>3. x \in Seq(Int) /\ Len(x) = l - n
  <2>1. n \in 0 .. Len(s) BY <1>1
  <2> QED BY <1>1, <2>1, Cut
<1>4. \A i \in 1 .. l - n : x[i] = s[n + i]
  <2>1. \A i \in 1 .. l - n : x[i] = s[(n + 1) + i - 1] BY <1>1
  <2>2. \A i \in 1 .. l - n : (n + 1) + i - 1 = n + i OBVIOUS
  <2> HIDE DEF x
  <2> QED BY <2>1, <2>2
<1> HIDE DEF x
<1>5. ASSUME NEW i \in 1 .. l - n PROVE x[i] = y[i]
  <2>1. n + i \in 1 .. l OBVIOUS
  <2>2. s[n + i] = c + (n + i) BY <1>1, <2>1
  <2> QED BY <1>2, <1>4, <2>2
<1>6. x \in Seq(Int) /\ y \in Seq(Int) /\ Len(x) = Len(y) /\ \A i \in 1 .. Len(x) : x[i] = y[i]
  BY <1>2, <1>3, <1>5
<1>7. x = y BY ONLY <1>6, SeqEqual
<1> QED BY <1>7 DEF x, y, s

\* k calls' chunks: the samples taken in and the outputs made of them.
Decimated(k) ==
  /\ consumed' = consumed + k * decim /\ filtered' = filtered + k
  /\ \A j \in 1 .. k :
       quad'[Len(quad) + j] =
         [number |-> filtered + j,
          window |-> Newest(begun.consumed + 1 + (filtered + j - 1 - begun.filtered) * decim, taps)]

LEMMA ChunksTaken ==
  ASSUME FilterInv, FirWork
  PROVE  /\ decim \in Nat \ {0} /\ chunk = decim
         /\ \E k \in Nat \ {0} :
              /\ Decimated(k) /\ quad' \in Seq(FirOutput)
              /\ k * decim \in 0 .. Len(rf)
              /\ history' = After(k * decim) /\ phase' = 0
              /\ rf' = SubSeq(rf, k * decim + 1, Len(rf))
              /\ UNCHANGED <<decim, chunk, filtering, taps, capacity, begun>>
<1> DEFINE d == decim
<1>1. d \in Nat \ {0} /\ chunk = d /\ phase = 0 /\ quad \in Seq(FirOutput)
  BY DEF FilterInv, FirWork
<1> DEFINE Batch(n) == [j \in DOMAIN Outputs(n) |-> [number |-> filtered + j, window |-> Window(Outputs(n)[j])]]
<1>2. PICK k \in 1 .. MaxChunks :
        /\ k * chunk <= Len(rf)
        /\ quad' = quad \o Batch(k * chunk) /\ filtered' = filtered + Len(Outputs(k * chunk))
        /\ history' = After(k * chunk) /\ phase' = (phase + k * chunk) % decim
        /\ rf' = SubSeq(rf, k * chunk + 1, Len(rf)) /\ consumed' = consumed + k * chunk
  BY Zenon DEF FirWork
<1>3. k \in Nat \ {0} OBVIOUS
<1> DEFINE n == k * d
<1>4. n \in Nat /\ n <= Len(rf) /\ (k - 1) * d + d = n /\ n + d - 1 = k * d + (d - 1)
  BY <1>1, <1>2, <1>3, Multiples
<1>5. Begun(n, d) = k /\ (0 + n) % d = 0
  <2> DEFINE e == n + d - 1
             o == 0
             z == 0 + n
  <2>1. /\ e \in Nat /\ e = k * d + (d - 1) /\ d - 1 \in 0 .. d - 1 /\ z \in Nat /\ z = k * d + o
        /\ o \in 0 .. d - 1 /\ k \in Int /\ d \in Nat \ {0}
    BY <1>1, <1>3, <1>4
  <2> HIDE DEF e, o, z, d
  <2>2. e \div d = k BY <2>1, DivisionIs
  <2>3. z % d = o BY <2>1, DivisionIs
  <2> QED BY <2>2, <2>3 DEF Begun, e, o, z
<1>6. Outputs(n) = Firsts(k, d)
  <2>1. Outputs(n) = Firsts(Begun(n, d), d) BY <1>1, <1>4, OutputsAre
  <2> QED BY <1>5, <2>1, Zenon
<1> DEFINE at(j) == (j - 1) * d + 1
<1>7. ASSUME NEW j \in 1 .. k PROVE at(j) \in 0 .. Len(rf) /\ (j - 1) * d \in Int
  <2>1. j - 1 \in Int /\ k - 1 \in Int /\ j - 1 <= k - 1 /\ d \in Nat /\ d >= 1 /\ j - 1 \in Nat /\ 0 \in Int /\ 0 <= j - 1
    BY <1>1, <1>3
  <2>2. (j - 1) * d <= (k - 1) * d /\ 0 * d <= (j - 1) * d BY <2>1, MultiplesGrow
  <2>3. (j - 1) * d \in Int /\ (k - 1) * d \in Int /\ 0 * d = 0 BY <2>1
  <2>4. Len(rf) \in Nat BY DEF FilterInv, Numbers
  <2> HIDE DEF d
  <2> QED BY <1>4, <2>1, <2>2, <2>3, <2>4
<1>8. ASSUME NEW j \in 1 .. k
      PROVE  /\ Window(at(j)) \in Seq(Int)
             /\ Window(at(j)) = Newest(begun.consumed + 1 + (filtered + j - 1 - begun.filtered) * decim, taps)
  <2>1. Window(at(j)) = Newest(consumed + at(j), taps) /\ Window(at(j)) \in Seq(Int)
    <3> HIDE DEF at
    <3> QED BY <1>7, WindowsAre
  <2>2. consumed + at(j) = begun.consumed + 1 + (filtered + j - 1 - begun.filtered) * d
    <3> DEFINE a == filtered - begun.filtered
               b == j - 1
               c == filtered + j - 1 - begun.filtered
    <3>1. /\ a \in Int /\ b \in Int /\ c = a + b /\ d \in Int /\ consumed \in Int /\ begun.consumed \in Int
          /\ consumed - begun.consumed = a * d
      <4>1. /\ filtered \in Nat /\ consumed \in Nat /\ begun.filtered \in Nat /\ begun.consumed \in Nat
            /\ consumed - begun.consumed = (filtered - begun.filtered) * decim
        BY Zenon DEF FilterInv
      <4> DEFINE bf == begun.filtered
      <4>2. bf \in Nat BY <4>1
      <4> HIDE DEF bf, d
      <4>3. filtered - bf \in Int /\ j - 1 \in Int /\ filtered + j - 1 - bf = (filtered - bf) + (j - 1)
        BY <4>1, <4>2
      <4> QED BY <1>1, <4>1, <4>3 DEF bf, d
    <3>2. at(j) = b * d + 1 OBVIOUS
    <3> HIDE DEF a, b, c, d, at
    <3>3. (a + b) * d = a * d + b * d /\ a * d \in Int /\ b * d \in Int BY <3>1, Multiples
    <3>4. c * d = a * d + b * d BY <3>1, <3>3
    <3>5. consumed + at(j) = begun.consumed + 1 + c * d BY <3>1, <3>2, <3>3, <3>4
    <3> QED BY <3>5 DEF c
  <2> HIDE DEF at
  <2> QED BY <2>1, <2>2
<1> DEFINE made == [j \in 1 .. k |-> [number |-> filtered + j, window |-> Window(at(j))]]
<1>9. Batch(n) = made /\ Len(Outputs(n)) = k
  <2> DEFINE f == Firsts(k, d)
  <2>1. f = [j \in 1 .. k |-> at(j)] BY DEF Firsts
  <2> HIDE DEF f, at
  <2>2. DOMAIN f = 1 .. k /\ Len(f) = k /\ \A j \in 1 .. k : f[j] = at(j) BY <1>3, <2>1
  <2>3. Batch(n) = [j \in DOMAIN f |-> [number |-> filtered + j, window |-> Window(f[j])]] /\ Len(Outputs(n)) = Len(f)
    BY <1>6 DEF f
  <2> HIDE DEF Batch
  <2> QED BY <2>2, <2>3
<1>10. made \in Seq(FirOutput) /\ Len(made) = k
  <2>1. \A j \in 1 .. k : filtered + j \in Nat BY DEF FilterInv
  <2> HIDE DEF at
  <2>2. \A j \in 1 .. k : [number |-> filtered + j, window |-> Window(at(j))] \in FirOutput
    BY <1>8, <2>1 DEF FirOutput
  <2> QED BY <1>3, <2>2
<1>11. /\ quad' = quad \o made /\ filtered' = filtered + k /\ history' = After(n) /\ phase' = (0 + n) % d
       /\ rf' = SubSeq(rf, n + 1, Len(rf)) /\ consumed' = consumed + n
  <2> HIDE DEF made, Batch
  <2> QED BY <1>1, <1>2, <1>9
<1>12. Decimated(k) /\ quad' \in Seq(FirOutput)
  <2>1. \A j \in 1 .. k : made[j] = [number |-> filtered + j, window |-> Window(at(j))] OBVIOUS
  <2> HIDE DEF made, at, n
  <2>2. quad \o made \in Seq(FirOutput) /\ \A i \in Len(quad) + 1 .. Len(quad) + k : (quad \o made)[i] = made[i - Len(quad)]
    BY <1>1, <1>10, Concatenation
  <2>3. ASSUME NEW j \in 1 .. k
        PROVE  quad'[Len(quad) + j] =
                 [number |-> filtered + j,
                  window |-> Newest(begun.consumed + 1 + (filtered + j - 1 - begun.filtered) * decim, taps)]
    <3> DEFINE i == Len(quad) + j
    <3>1. i \in Len(quad) + 1 .. Len(quad) + k /\ i - Len(quad) = j BY <1>1, <1>3
    <3> HIDE DEF i
    <3>2. quad'[i] = made[j] BY <1>11, <2>2, <3>1
    <3>3. made[j] = [number |-> filtered + j,
                     window |-> Newest(begun.consumed + 1 + (filtered + j - 1 - begun.filtered) * decim, taps)]
      BY <1>8, <2>1, Zenon
    <3> QED BY <3>2, <3>3 DEF i
  <2>4. consumed' = consumed + k * decim BY <1>11 DEF n
  <2> QED BY <1>11, <2>2, <2>3, <2>4 DEF Decimated
<1>13. phase' = 0 BY <1>5, <1>11
<1>14. UNCHANGED <<decim, chunk, filtering, taps, capacity, begun>> BY DEF FirWork
<1>15. n \in 0 .. Len(rf)
  <2>1. Len(rf) \in Nat BY DEF FilterInv, Numbers
  <2> QED BY <1>4, <2>1
<1> HIDE DEF made
<1> QED BY <1>1, <1>3, <1>11, <1>12, <1>13, <1>14, <1>15

LEMMA WorkFilter ==
  ASSUME FilterInv, FirWork, UNCHANGED received
  PROVE  FilterInv'
<1> DEFINE l == received - consumed
<1>1. decim \in Nat \ {0} /\ chunk = decim BY ChunksTaken
<1>2. PICK k \in Nat \ {0} :
        /\ Decimated(k) /\ quad' \in Seq(FirOutput)
        /\ k * decim \in 0 .. Len(rf)
        /\ history' = After(k * decim) /\ phase' = 0
        /\ rf' = SubSeq(rf, k * decim + 1, Len(rf))
        /\ UNCHANGED <<decim, chunk, filtering, taps, capacity, begun>>
  BY ChunksTaken, Zenon
<1> DEFINE n == k * decim
           c == consumed + n
<1>3. consumed' = c /\ filtered' = filtered + k BY <1>2 DEF Decimated
<1>4. /\ consumed \in Nat /\ received \in Nat /\ filtered \in Nat /\ consumed <= received /\ l \in Nat
      /\ rf = Numbers(consumed + 1, l) /\ taps \in Nat /\ capacity \in Nat /\ taps <= capacity
      /\ begun = [consumed |-> begun.consumed, filtered |-> begun.filtered, cleared |-> begun.cleared]
      /\ begun.consumed \in Nat /\ begun.filtered \in Nat /\ begun.cleared \in 0 .. consumed
      /\ consumed - begun.consumed = (filtered - begun.filtered) * decim
  BY DEF FilterInv
<1>5. Len(rf) = l BY <1>4 DEF Numbers
<1>6. n \in 0 .. l /\ n \in Nat /\ n <= l BY <1>2, <1>4, <1>5
<1> HIDE DEF n
<1>7. rf' = Numbers(c + 1, received - c)
  <2>1. SubSeq(Numbers(consumed + 1, l), n + 1, Len(Numbers(consumed + 1, l))) = Numbers(consumed + n + 1, l - n)
    <3> HIDE DEF l
    <3>1. consumed \in Int /\ l \in Nat /\ n \in 0 .. l BY <1>4, <1>6
    <3> QED BY <3>1, NumbersLeft
  <2>2. rf' = SubSeq(rf, n + 1, Len(rf)) BY <1>2 DEF n
  <2>3. rf' = Numbers(consumed + n + 1, l - n)
    <3> HIDE DEF l
    <3> QED BY <1>4, <2>1, <2>2, Zenon
  <2>4. l - n = received - c BY <1>4, <1>6
  <2> HIDE DEF l
  <2> QED BY <2>3, <2>4
<1>8. history' = Descending(c, AtMost(capacity, c - begun.cleared))
  <2>1. n \in 0 .. Len(rf) /\ history' = After(n) BY <1>2 DEF n
  <2>2. After(n) = Descending(consumed + n, AtMost(capacity, consumed + n - begun.cleared)) BY <2>1, WindowsAre
  <2>3. consumed + n = c /\ consumed + n - begun.cleared = c - begun.cleared BY <1>4, <1>6
  <2> HIDE DEF c
  <2> QED BY <2>1, <2>2, <2>3, Zenon
<1>9. c - begun.consumed = (filtered + k - begun.filtered) * decim
  <2> DEFINE bf == begun.filtered
             bc == begun.consumed
             a == filtered - bf
             e == filtered + k - bf
             d == decim
  <2>1. a \in Int /\ e = a + k /\ d \in Int /\ k \in Int /\ consumed - bc = a * d /\ bc \in Nat /\ n = k * d
    <3>1. bf \in Nat /\ bc \in Nat BY <1>4
    <3>2. consumed - bc = a * d BY <1>4
    <3> HIDE DEF bf, bc
    <3> QED BY <1>1, <1>4, <3>1, <3>2 DEF n
  <2> HIDE DEF a, e, d, bc
  <2>2. (a + k) * d = a * d + k * d /\ a * d \in Int /\ k * d \in Int BY <2>1, Multiples
  <2>3. e * d = a * d + k * d BY <2>1, <2>2
  <2>4. c - bc = e * d BY <1>4, <2>1, <2>2, <2>3
  <2> QED BY <2>4 DEF bc, e, d
<1>10. c \in Nat /\ c <= received /\ filtered + k \in Nat /\ begun.cleared \in 0 .. c BY <1>4, <1>6
<1>11. UNCHANGED <<decim, chunk, filtering, taps, capacity, begun, received>> /\ phase' = 0 /\ quad' \in Seq(FirOutput)
  BY <1>2
<1> HIDE DEF c, l
<1> QED BY <1>1, <1>3, <1>4, <1>7, <1>8, <1>9, <1>10, <1>11 DEF FilterInv

\* A filter that is replaced, or whose settings were tried in vain, begins with a chunk.
LEMMA RestartFilter ==
  ASSUME FilterInv, FirStart \/ FirSettingsChanged, UNCHANGED received
  PROVE  FilterInv'
<1>1. /\ consumed \in Nat /\ received \in Nat /\ filtered \in Nat /\ consumed <= received
      /\ rf = Numbers(consumed + 1, received - consumed) /\ quad \in Seq(FirOutput)
      /\ taps \in Nat /\ capacity \in Nat /\ taps <= capacity /\ phase = 0
      /\ begun.cleared \in 0 .. consumed
      /\ history = Descending(consumed, AtMost(capacity, consumed - begun.cleared))
  BY DEF FilterInv
<1>2. UNCHANGED <<rf, quad, received, consumed, filtered>>
  BY DEF FirStart, FirSettingsChanged, edges
<1>3. decim' \in Nat /\ chunk' \in Nat /\ (filtering' => decim' # 0 /\ chunk' = decim')
  <2>1. decim \in Nat /\ chunk \in Nat /\ (filtering => decim # 0 /\ chunk = decim) BY DEF FilterInv
  <2>2. Decims \subseteq Nat BY FirAssumption
  <2>3. CASE FirStart BY <2>1, <2>3 DEF FirStart
  <2>4. CASE FirSettingsChanged BY <2>1, <2>2, <2>4 DEF FirSettingsChanged
  <2> QED BY <2>3, <2>4
<1>4. consumed - consumed = (filtered - filtered) * decim'
  <2>1. \A x, y, z \in Nat : x - x = (y - y) * z OBVIOUS
  <2> QED BY <1>1, <1>3, <2>1
<1>5. (\E t \in TapCounts : updateFilter(t)) \/ KeepFilter BY DEF FirStart, FirSettingsChanged
<1>6. CASE KeepFilter
  <2>1. /\ UNCHANGED <<taps, history, capacity, phase>>
        /\ begun' = [consumed |-> consumed, filtered |-> filtered, cleared |-> begun.cleared]
    BY <1>6 DEF KeepFilter
  <2>2. begun'.consumed = consumed /\ begun'.filtered = filtered /\ begun'.cleared = begun.cleared BY <2>1
  <2> QED BY <1>1, <1>2, <1>3, <1>4, <2>1, <2>2 DEF FilterInv
<1>7. CASE \E t \in TapCounts : updateFilter(t)
  <2>1. PICK t \in TapCounts : updateFilter(t) BY <1>7
  <2>2. t \in Nat BY FirAssumption
  <2>3. taps' = t /\ capacity' \in Nat /\ taps' <= capacity'
    <3>1. taps' = t /\ capacity' = IF t > capacity THEN BitCeil(t) ELSE capacity BY <2>1 DEF updateFilter
    <3>2. BitCeil(t) \in Nat /\ t <= BitCeil(t) BY <2>2, CapacityCovers
    <3> QED BY <1>1, <2>2, <3>1, <3>2
  <2>4. /\ history' = <<>> /\ phase' = 0
        /\ begun' = [consumed |-> consumed, filtered |-> filtered, cleared |-> consumed]
    BY <2>1 DEF updateFilter
  <2>5. begun'.consumed = consumed /\ begun'.filtered = filtered /\ begun'.cleared = consumed BY <2>4
  <2>6. history' = Descending(consumed, AtMost(capacity', consumed - consumed))
    <3>1. AtMost(capacity', consumed - consumed) = 0 BY <1>1, <2>3 DEF AtMost
    <3>2. Descending(consumed, 0) = <<>> BY DEF Descending
    <3> QED BY <2>4, <3>1, <3>2, Zenon
  <2>7. consumed \in 0 .. consumed BY <1>1
  <2> QED BY <1>1, <1>2, <1>3, <1>4, <2>2, <2>3, <2>4, <2>5, <2>6, <2>7 DEF FilterInv
<1> QED BY <1>5, <1>6, <1>7

\* The source adds the samples that come after those of the connection.
LEMMA ReceiveSamples ==
  ASSUME FilterInv, NEW k \in Nat, Data(k), UNCHANGED <<quad, firVars>>
  PROVE  FilterInv'
<1> DEFINE a == received - consumed
           c == consumed + 1
           f == received + 1
           t == received + k - consumed
<1>1. received \in Nat /\ consumed \in Nat /\ consumed <= received /\ rf = Numbers(c, a) BY DEF FilterInv
<1>2. received' = received + k /\ consumed' = consumed /\ rf' = rf \o [i \in 1 .. k |-> received + i]
  BY DEF Data, firVars
<1>3. [i \in 1 .. k |-> received + i] = Numbers(f, k)
  <2>1. \A i \in 1 .. k : received + 1 + i - 1 = received + i BY <1>1
  <2> QED BY <2>1 DEF Numbers
<1>4. Adjoin(c, a, f, k, t) BY <1>1 DEF Adjoin
<1> HIDE DEF a, c, f, t
<1>5. rf' = Numbers(c, t)
  <2>1. Numbers(c, a) \o Numbers(f, k) = Numbers(c, t) BY <1>4, Adjacent
  <2> QED BY <1>1, <1>2, <1>3, <2>1, Zenon
<1>6. rf' = Numbers(consumed' + 1, received' - consumed')
  <2>1. consumed' = consumed /\ received' = received + k BY <1>2
  <2>2. consumed' + 1 = c /\ received' - consumed' = t BY <1>1, <2>1 DEF c, t
  <2> QED BY <1>5, <2>2, Zenon
<1>7. received' \in Nat /\ consumed' <= received' BY <1>1, <1>2
<1> QED BY <1>6, <1>7 DEF FilterInv, firVars

LEMMA OutputsTaken ==
  ASSUME SpacingInv, FilterInv, PfbWork, UNCHANGED <<received, firVars>>
  PROVE  FilterInv'
<1>1. PICK chunks \in 1 .. MaxPfbChunks :
        /\ chunks * InChunk(down) <= Len(quad)
        /\ quad' = SubSeq(quad, chunks * InChunk(down) + 1, Len(quad)) /\ UNCHANGED rf
  BY Zenon DEF PfbWork
<1>2. quad' \in Seq(FirOutput)
  <2> DEFINE n == chunks * InChunk(down)
  <2>1. InChunk(down) \in Nat BY Sizes DEF SpacingInv
  <2>2. n \in Nat /\ n <= Len(quad) BY <1>1, <2>1
  <2>3. quad \in Seq(FirOutput) /\ quad' = SubSeq(quad, n + 1, Len(quad)) BY <1>1 DEF FilterInv
  <2> HIDE DEF n
  <2>4. n \in 0 .. Len(quad) BY <2>2, <2>3
  <2> QED BY <2>3, <2>4, Cut
<1> QED BY <1>1, <1>2 DEF FilterInv, firVars

LEMMA SourceMoves ==
  start \/ stop \/ Reset \/ settingsChanged \/ processBulk
    => UNCHANGED <<rf, received>> \/ \E k \in Nat : Data(k)
<1>1. start \/ stop \/ Reset \/ settingsChanged => UNCHANGED <<rf, received>>
  BY DEF start, stop, Reset, settingsChanged
<1>2. ASSUME processBulk PROVE UNCHANGED <<rf, received>> \/ \E k \in Nat : Data(k)
  <2>1. \E o : IF o.throws THEN Fails("error") ELSE readStream(o.radio) BY <1>2, Zenon DEF processBulk
  <2>2. PICK h : Fails("error") \/ readStream(h) BY <2>1
  <2> QED BY <2>2 DEF Fails, readStream, NoData, Overflow
<1> QED BY <1>1, <1>2

LEMMA FilterStep == SpacingInv /\ FilterInv /\ [Next]_vars => FilterInv'
<1> SUFFICES ASSUME SpacingInv, FilterInv, [Next]_vars PROVE FilterInv' OBVIOUS
<1>1. CASE UNCHANGED <<rf, quad, received, firVars>> BY <1>1 DEF FilterInv, firVars
<1>2. CASE (\E k \in Nat : Data(k)) /\ UNCHANGED <<quad, firVars>> BY <1>2, ReceiveSamples
<1>3. CASE (FirStart \/ FirSettingsChanged) /\ UNCHANGED received BY <1>3, RestartFilter
<1>4. CASE FirStop /\ UNCHANGED received BY <1>4 DEF FirStop, edges, FilterInv
<1>5. CASE FirWork /\ UNCHANGED received BY <1>5, WorkFilter
<1>6. CASE PfbWork /\ UNCHANGED <<received, firVars>> BY <1>6, OutputsTaken
<1>7. CASE (start \/ stop \/ Reset \/ settingsChanged \/ processBulk) /\ UNCHANGED <<quad, firVars>>
  BY <1>1, <1>2, <1>7, SourceMoves
<1>8. CASE Control
  <2>1. PfbSettingsChanged /\ UNCHANGED <<soapyVars, firVars>> => UNCHANGED <<rf, quad, received, firVars>>
    BY DEF PfbSettingsChanged, soapyVars
  <2> QED BY <1>1, <1>3, <1>4, <1>7, <1>8, <2>1 DEF Control, soapyVars
<1>9. CASE Work BY <1>5, <1>6, <1>7, <1>9 DEF Work, soapyVars
<1>10. CASE UNCHANGED vars BY <1>1, <1>10 DEF vars, edges, soapyVars
<1> QED BY <1>8, <1>9, <1>10 DEF Next

\* However the samples are cut into calls and whatever settings were tried in
\* vain, every decim-th sample makes an output, of consecutive samples.
THEOREM FilterDecimates == Spec => DecimatesRegularly
<1>1. FilterInv /\ [Next]_vars
        => [consumed' > consumed =>
              /\ filtered' - filtered = (consumed' - consumed) \div chunk
              /\ \A j \in 1 .. filtered' - filtered :
                   quad'[Len(quad) + j] =
                     [number |-> filtered + j,
                      window |-> Newest(begun.consumed + 1 + (filtered + j - 1 - begun.filtered) * decim, taps)]]_firVars
  <2> SUFFICES ASSUME FilterInv, [Next]_vars, consumed' > consumed
               PROVE  /\ filtered' - filtered = (consumed' - consumed) \div chunk
                      /\ \A j \in 1 .. filtered' - filtered :
                           quad'[Len(quad) + j] =
                             [number |-> filtered + j,
                              window |-> Newest(begun.consumed + 1 + (filtered + j - 1 - begun.filtered) * decim, taps)]
    OBVIOUS
  <2>1. FirWork
    <3>1. consumed' # consumed BY DEF FilterInv
    <3> QED BY <3>1 DEF Next, Control, Work, vars, firVars, FirStart, FirStop, FirSettingsChanged
  <2>2. PICK k \in Nat \ {0} : Decimated(k) BY <2>1, ChunksTaken
  <2>3. decim \in Nat \ {0} /\ chunk = decim /\ consumed \in Nat /\ filtered \in Nat BY <2>1, ChunksTaken DEF FilterInv
  <2>4. filtered' - filtered = k
    <3>1. filtered' = filtered + k BY <2>2 DEF Decimated
    <3> QED BY <2>3, <3>1
  <2>5. (consumed' - consumed) \div chunk = k
    <3> DEFINE n == k * decim
               o == 0
    <3>1. n \in Nat /\ n = k * decim + o /\ o \in 0 .. decim - 1 /\ k \in Int BY <2>3
    <3>2. consumed' = consumed + n BY <2>2 DEF Decimated
    <3> HIDE DEF n, o
    <3>3. n \div decim = k BY <2>3, <3>1, DivisionIs
    <3>4. consumed' - consumed = n BY <2>3, <3>1, <3>2
    <3> QED BY <2>3, <3>3, <3>4
  <2> QED BY <2>2, <2>4, <2>5 DEF Decimated
<1> QED BY InitFilter, InitSpacing, FilterStep, SpacingStep, <1>1, PTL DEF Spec, DecimatesRegularly
=============================================================================

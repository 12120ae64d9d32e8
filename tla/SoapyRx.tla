------------------------------- MODULE SoapyRx -------------------------------
(***************************************************************************)
(* The SoapySDR source: a device and its stream, opened and closed over    *)
(* calls any of which may throw half way.  A call that throws leaves the   *)
(* block in an error state, from which it can be reset and started again;  *)
(* a reset closes nothing.                                                 *)
(***************************************************************************)
EXTENDS ReceiverEdges

CONSTANTS
  MaxOverflows,  \* the setting max_overflow_count, 0 for any number
  MaxRead,       \* samples of one call, by span or max_chunk_size
  RfSize,        \* samples the connection holds
  MaxReceived,   \* bound: samples received
  MaxCount       \* bound: overflows without data between them

ASSUME SoapyAssumption ==
  /\ MaxOverflows \in Nat /\ MaxRead \in Nat \ {0} /\ RfSize \in Nat \ {0}
  /\ MaxReceived \in Nat /\ MaxCount \in Nat

VARIABLES
  state,           \* of the block: "idle", "running", "error" or "crashed"
  radio,           \* _dev and _stream are set; how many there are of both
  overflow_count,  \* _overflow_count
  received,        \* samples received
  overflows        \* history: overflows since there was data

soapyVars == <<state, radio, overflow_count, received, overflows>>

Nothing == [dev |-> FALSE, stream |-> FALSE, devices |-> 0, streams |-> 0]

SoapyInit ==
  /\ state = "idle" /\ radio = Nothing
  /\ overflow_count = 0 /\ received = 0 /\ overflows = 0

Made(h)   == [dev |-> TRUE, stream |-> h.stream, devices |-> h.devices + 1, streams |-> h.streams]
Unmade(h) == [dev |-> FALSE, stream |-> h.stream, devices |-> h.devices - 1, streams |-> h.streams]
SetUp(h)  == [dev |-> h.dev, stream |-> TRUE, devices |-> h.devices, streams |-> h.streams + 1]
Closed(h) == [dev |-> h.dev, stream |-> FALSE, devices |-> h.devices, streams |-> h.streams - 1]

\* Mutant: the device is not unmade when there is no stream for it.
openDevice_NotUnmade(h) ==
  IF h.dev THEN {[radio |-> h, throws |-> FALSE]}
  ELSE {[radio |-> h, throws |-> TRUE],
        [radio |-> Made(h), throws |-> TRUE],
        [radio |-> [Made(h) EXCEPT !.dev = FALSE], throws |-> TRUE],
        [radio |-> SetUp(Made(h)), throws |-> TRUE],
        [radio |-> SetUp(Made(h)), throws |-> FALSE]}

\* No device is made, one of the setters or setupStream throws, setupStream has
\* no stream, activateStream throws, or all is well.  A device that is there is taken to be open.
openDevice(h) ==
  IF h.dev THEN {[radio |-> h, throws |-> FALSE]}
  ELSE {[radio |-> h, throws |-> TRUE],
        [radio |-> Made(h), throws |-> TRUE],
        [radio |-> Unmade(Made(h)), throws |-> TRUE],
        [radio |-> SetUp(Made(h)), throws |-> TRUE],
        [radio |-> SetUp(Made(h)), throws |-> FALSE]}

\* The stream cannot be closed, the device cannot be unmade, or all is well.
closeDevice(h) ==
  LET closed == IF h.stream THEN Closed(h) ELSE h
  IN  IF ~ h.dev THEN {[radio |-> h, throws |-> FALSE]}
      ELSE {[radio |-> h, throws |-> TRUE],
            [radio |-> closed, throws |-> TRUE],
            [radio |-> Unmade(closed), throws |-> FALSE]}

\* Mutant: the count begins again with the block.
start_ResetsCount ==
  /\ state = "idle"
  /\ \E o \in openDevice(radio) :
       radio' = o.radio /\ state' = IF o.throws THEN "error" ELSE "running"
  /\ overflow_count' = 0
  /\ UNCHANGED <<rf, received, overflows>>

start ==
  /\ state = "idle"
  /\ \E o \in openDevice(radio) :
       radio' = o.radio /\ state' = IF o.throws THEN "error" ELSE "running"
  /\ UNCHANGED <<rf, overflow_count, received, overflows>>

stop ==
  /\ state = "running"
  /\ \E c \in closeDevice(radio) :
       radio' = c.radio /\ state' = IF c.throws THEN "error" ELSE "idle"
  /\ UNCHANGED <<rf, overflow_count, received, overflows>>

Reset ==
  /\ state = "error"
  /\ state' = "idle"
  /\ UNCHANGED <<rf, radio, overflow_count, received, overflows>>

\* A change of device, channel or rate; the other settings are set on the device
\* that is there, which may throw.
settingsChanged ==
  /\ state \in {"idle", "running"} /\ radio.dev
  /\ \/ \E c \in closeDevice(radio) :
          \/ c.throws /\ radio' = c.radio /\ state' = "error"
          \/ /\ ~ c.throws
             /\ \E o \in openDevice(c.radio) :
                  radio' = o.radio /\ state' = IF o.throws THEN "error" ELSE state
     \/ state' = "error" /\ UNCHANGED radio
  /\ UNCHANGED <<rf, overflow_count, received, overflows>>

Data(k) ==
  /\ rf' = rf \o [i \in 1 .. k |-> received + i]
  /\ received' = received + k
  /\ overflow_count' = 0 /\ overflows' = 0
  /\ UNCHANGED state

\* ret is 0 or a timeout.
NoData == UNCHANGED <<rf, state, overflow_count, received, overflows>>

Overflow ==
  /\ overflows < MaxCount
  /\ overflows' = overflows + 1
  /\ overflow_count' = IF MaxOverflows > 0 THEN overflow_count + 1 ELSE overflow_count
  /\ state' = IF MaxOverflows > 0 /\ overflow_count' > MaxOverflows THEN "error" ELSE state
  /\ UNCHANGED <<rf, received>>

\* Another error of readStream, or what may come of reading from no stream.
Fails(s) == state' = s /\ UNCHANGED <<rf, overflow_count, received, overflows>>

readStream(h) ==
  \/ /\ h.stream
     /\ \/ \E k \in 1 .. AtMost(MaxRead, RfSize - Len(rf)) : received + k <= MaxReceived /\ Data(k)
        \/ NoData
        \/ Overflow
        \/ Fails("error")
  \/ /\ ~ h.stream
     /\ Fails("error") \/ Fails("crashed")

processBulk ==
  /\ state = "running" /\ Len(rf) < RfSize
  /\ \E o \in openDevice(radio) :
       /\ radio' = o.radio
       /\ IF o.throws THEN Fails("error") ELSE readStream(o.radio)

-----------------------------------------------------------------------------
\* Whatever throws, a device and a stream exist exactly if the block knows of
\* them: none is lost sight of and none is closed twice.  The block reads from a
\* stream that is not there only with a device an exception has left behind.
OneDevice ==
  /\ radio.devices = (IF radio.dev THEN 1 ELSE 0)
  /\ radio.streams = (IF radio.stream THEN 1 ELSE 0)
  /\ radio.stream => radio.dev
  /\ state = "crashed" => radio.dev /\ ~ radio.stream

\* An overflow ends the reception exactly if it is one too many since the last
\* data: timeouts, restarts and reopenings between them do not begin the count
\* again, and without a limit no number of them is too many.
GivesUpAtLimit ==
  [][overflows' = overflows + 1 =>
       (state' = "error" <=> MaxOverflows > 0 /\ overflows' > MaxOverflows)]_soapyVars
=============================================================================

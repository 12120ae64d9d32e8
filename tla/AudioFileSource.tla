--------------------------- MODULE AudioFileSource ---------------------------
(***************************************************************************)
(* The audio file source.  A sample is a file and a position in it; the    *)
(* decoder (WAV, MP3 or FLAC) delivers whole frames from where it stands.  *)
(* Each pass of the file begins with a tag that has its format.            *)
(*                                                                         *)
(* The settings may change between calls; the file and the offset are read *)
(* by start() only.  The file exists and opens, and trigger_name is set.   *)
(***************************************************************************)
EXTENDS AudioEdge

CONSTANTS
  Files,        \* [channels, rate, frames]
  Offsets,      \* values of the setting "offset"
  Lengths,      \* values of the setting "length", 0 for none
  NoFile,
  MaxPasses,    \* bound: times the file is played again after a start
  MaxStarts,    \* bound: starts of the source
  MaxChanges    \* bound: changes of the settings

ASSUME FilesAssumption ==
  /\ \A f \in Files : f.channels \in Nat \ {0} /\ f.rate \in Nat \ {0} /\ f.frames \in Nat
  /\ NoFile \notin Files
  /\ Offsets \subseteq Nat /\ Lengths \subseteq Nat
  /\ \A f \in Files : f.channels <= EdgeSize
  /\ MaxPasses \in Nat /\ MaxStarts \in Nat /\ MaxChanges \in Nat

VARIABLES
  settings,          \* file_name, repeat, offset, length
  changes,           \* of the settings
  reader,            \* the file that is open, or NoFile
  frame,             \* where its decoder stands
  emittedStart,      \* _emittedStart
  totalSamplesFile,  \* _totalSamplesFile
  passes, starts,
  startOffset        \* history: the offset that start() read

sourceVars == <<settings, changes, reader, frame, emittedStart, totalSamplesFile, passes, starts, startOffset>>

Settings == [file : Files, repeat : BOOLEAN, offset : Offsets, length : Lengths]

SourceInit ==
  /\ settings \in Settings /\ changes = 0
  /\ reader = NoFile /\ frame = 0
  /\ emittedStart = FALSE /\ totalSamplesFile = 0
  /\ passes = 0 /\ starts = 0 /\ startOffset = 0

\* Mutant: the file is played from its first frame.
SourceStart_NoOffset ==
  /\ reader = NoFile /\ starts < MaxStarts
  /\ reader' = settings.file
  /\ frame' = 0
  /\ emittedStart' = FALSE /\ totalSamplesFile' = 0
  /\ passes' = 0 /\ starts' = starts + 1
  /\ startOffset' = settings.offset
  /\ UNCHANGED <<edge, settings, changes>>

\* The decoders stop at the end when asked to go beyond it.
SourceStart ==
  /\ reader = NoFile /\ starts < MaxStarts
  /\ reader' = settings.file
  /\ frame' = Smaller(settings.offset \div settings.file.channels, settings.file.frames)
  /\ emittedStart' = FALSE /\ totalSamplesFile' = 0
  /\ passes' = 0 /\ starts' = starts + 1
  /\ startOffset' = settings.offset
  /\ UNCHANGED <<edge, settings, changes>>

SourceStop ==
  /\ reader # NoFile
  /\ reader' = NoFile
  /\ UNCHANGED <<edge, settings, changes, frame, emittedStart, totalSamplesFile, passes, starts, startOffset>>

SetSettings ==
  /\ changes < MaxChanges
  /\ settings' \in Settings \ {settings}
  /\ changes' = changes + 1
  /\ UNCHANGED <<edge, reader, frame, emittedStart, totalSamplesFile, passes, starts, startOffset>>

left == IF settings.length > totalSamplesFile THEN settings.length - totalSamplesFile ELSE 0

out_samples == IF settings.length # 0 THEN Smaller(room, left) ELSE room

\* The library calls a source only when there is room, so that it is the length
\* that leaves nothing to deliver.
Called == reader # NoFile /\ room > 0

lengthReached == settings.length # 0 /\ out_samples = 0

frames_req == out_samples \div reader.channels

\* Mutant: the start tag is left out when the file is played again.
Rewind_NoTag ==
  /\ settings.repeat /\ passes < MaxPasses
  /\ frame' = 0 /\ totalSamplesFile' = 0 /\ emittedStart' = TRUE
  /\ passes' = passes + 1
  /\ UNCHANGED reader

\* handle_eof_or_length: play the file again, from its start,
Rewind ==
  /\ settings.repeat /\ passes < MaxPasses
  /\ frame' = 0 /\ totalSamplesFile' = 0 /\ emittedStart' = FALSE
  /\ passes' = passes + 1
  /\ UNCHANGED reader

\* Mutant: the reader stays open.
Finish_StaysOpen(at, total, tagged) ==
  /\ ~ settings.repeat
  /\ frame' = at /\ totalSamplesFile' = total /\ emittedStart' = tagged
  /\ UNCHANGED <<reader, passes>>

\* or close it.
Finish(at, total, tagged) ==
  /\ ~ settings.repeat
  /\ reader' = NoFile
  /\ frame' = at /\ totalSamplesFile' = total /\ emittedStart' = tagged
  /\ UNCHANGED passes

\* A call that finds the length reached.
LengthReached ==
  /\ Called /\ lengthReached
  /\ Rewind \/ Finish(frame, totalSamplesFile, emittedStart)
  /\ UNCHANGED <<edge, settings, changes, starts, startOffset>>

frames_read == Smaller(frames_req, reader.frames - frame)

FormatOf(f) == [channels |-> f.channels, rate |-> f.rate]

\* The samples of the next k frames, the first with the tag if it is due.
Frames(k) ==
  [i \in 1 .. k * reader.channels |->
    [data |-> [file |-> reader, position |-> frame * reader.channels + i - 1],
     tag  |-> IF i = 1 /\ ~ emittedStart THEN FormatOf(reader) ELSE NoTag]]

\* The pass ends with this call: at the end of the file or of the length.
EndsPass(total) == frames_read < frames_req \/ (settings.length # 0 /\ total >= settings.length)

\* A call that reads: room for a frame and one left of the length.
Read ==
  /\ Called /\ ~ lengthReached /\ frames_req > 0
  /\ edge' = edge \o Frames(frames_read)
  /\ LET total  == totalSamplesFile + frames_read * reader.channels
         tagged == emittedStart \/ frames_read > 0
     IN  \/ /\ ~ EndsPass(total)
            /\ frame' = frame + frames_read /\ totalSamplesFile' = total /\ emittedStart' = tagged
            /\ UNCHANGED <<reader, passes>>
         \/ EndsPass(total) /\ (Rewind \/ Finish(frame + frames_read, total, tagged))
  /\ UNCHANGED <<settings, changes, starts, startOffset>>

SourceWork == LengthReached \/ Read

\* The calls that return OK and do nothing: less than a frame is asked for.
Stuck == reader # NoFile /\ settings.length # 0 /\ left \in 1 .. reader.channels - 1
=============================================================================

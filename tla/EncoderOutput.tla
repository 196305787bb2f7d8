----------------------------- MODULE EncoderOutput -----------------------------
(***************************************************************************)
(* The H.264 encoder of the screenshot source: an ffmpeg process that is   *)
(* given images and whose output, cut anywhere by the pipe, is parsed into *)
(* access units that get the time of their image back.                     *)
(*                                                                         *)
(* Source: h264-encoder.ts. The bytes are those that matter: start codes,  *)
(* the type of a NAL unit and one byte of payload that tells the image.    *)
(* ffmpeg encodes an image to one access unit, in order (zerolatency), and *)
(* the first one is the only key frame. Offsets are those of the source,   *)
(* counted from 0.                                                         *)
(***************************************************************************)
EXTENDS Integers, Sequences, FiniteSets, SequencesExt

CONSTANTS
  MaxImages,       \* images offered to the encoder
  ReadSizes,       \* what the pipe gives at once
  PendingLimit     \* MAX_PENDING_OUTPUT_BYTES

ASSUME EncoderAssumption == ({MaxImages, PendingLimit} \cup ReadSizes) \subseteq Nat \ {0}

VARIABLES
  encoder,     \* H264Encoder and its process
  parser,      \* H264OutputParser
  emitted      \* what onFrame was given

encoderVars == <<encoder, parser, emitted>>

EncoderInit ==
  /\ encoder = [closed |-> FALSE, reported |-> FALSE, shutdown |-> "none", process |-> "running",
                stdin |-> "open", drain |-> FALSE, offered |-> 0, accepted |-> <<>>,
                encoded |-> 0, read |-> 0]
  /\ parser = [pending |-> <<>>, scanFrom |-> 0, nals |-> <<>>, pts |-> <<>>, lastPts |-> 0,
               config |-> <<>>]
  /\ emitted = <<>>

-----------------------------------------------------------------------------
(* The bytes.                                                               *)

AudByte == 9
SpsByte == 103
KeyByte == 101
SliceByte == 65
TypeOf(byte) == byte % 32
StartCode == <<0, 0, 0, 1>>

\* x264 marks the access unit and its parameter sets with four bytes and a
\* slice with three.
AccessUnit(image) ==
  IF image = 1
  THEN <<0, 0, 0, 1, AudByte, 0, 0, 0, 1, SpsByte, 0, 0, 1, KeyByte, 10 + image>>
  ELSE <<0, 0, 0, 1, AudByte, 0, 0, 1, SliceByte, 10 + image>>
Stream(images) == FlattenSeq([i \in 1..images |-> AccessUnit(i)])

-----------------------------------------------------------------------------
(* H264OutputParser.                                                        *)

At(bytes, offset) == bytes[offset + 1]
UnitBytes(bytes, from, to) == SubSeq(bytes, from + 1, to)
NotBelowZero(n) == IF n < 0 THEN 0 ELSE n
NotAbove(a, b) == IF a <= b THEN a ELSE b

\* Where the data of a NAL unit begins whose start code is at offset i.
CodeAt(bytes, i) ==
  IF At(bytes, i) # 0 \/ At(bytes, i + 1) # 0 THEN -1
  ELSE IF At(bytes, i + 2) = 1 THEN i + 3
  ELSE IF At(bytes, i + 2) = 0 /\ At(bytes, i + 3) = 1 THEN i + 4
  ELSE -1

\* A start code at offset i adds the NAL unit behind it, once its first byte
\* is there. What was found before is not taken twice: a code of three bytes
\* that is the end of one of four.
LastData(nals) == IF nals = <<>> THEN -1 ELSE nals[Len(nals)].data
BugLooked(bytes, nals, i) ==
  LET data == CodeAt(bytes, i)
  IN  IF data > -1 /\ data < Len(bytes)
      THEN Append(nals, [pos |-> i, data |-> data, type |-> TypeOf(At(bytes, data))])
      ELSE nals
Looked(bytes, nals, i) ==
  LET data == CodeAt(bytes, i)
  IN  IF data > LastData(nals) /\ data < Len(bytes)
      THEN Append(nals, [pos |-> i, data |-> data, type |-> TypeOf(At(bytes, data))])
      ELSE nals

\* The end of what was scanned is scanned again, since a start code may have
\* been cut: known[n] after the first n offsets.
Scanned(p) ==
  LET from == NotBelowZero(p.scanFrom - 4)
      count == NotBelowZero(Len(p.pending) - 3 - from)
      known[n \in 0..count] ==
        IF n = 0 THEN p.nals ELSE Looked(p.pending, known[n - 1], from + n - 1)
  IN  [p EXCEPT !.nals = known[count], !.scanFrom = NotBelowZero(Len(p.pending) - 4)]

\* Parameter sets, which are handed on apart from the picture.
IsConfig(nal) == nal.type \in {7, 8}

\* The units of a sequence of NAL units, each behind a start code of four
\* bytes; the last ends where the next access unit begins.
Units(bytes, nals, end, ofConfig) ==
  FlattenSeq([k \in 1..Len(nals) |->
    IF IsConfig(nals[k]) = ofConfig
    THEN StartCode \o UnitBytes(bytes, nals[k].data, IF k = Len(nals) THEN end ELSE nals[k + 1].pos)
    ELSE <<>>])

Duration == 1     \* of a frame whose image has told no time

\* The parameter sets are handed on when they change, the picture with the
\* time of the oldest image that has none yet.
EmitUnit(st, nals, end) ==
  LET p == st.parser
      config == Units(p.pending, nals, end, TRUE)
      picture == Units(p.pending, nals, end, FALSE)
      told == IF config \in {<<>>, p.config} THEN <<>>
              ELSE <<[config |-> TRUE, data |-> config, pts |-> p.lastPts, isKey |-> FALSE]>>
      pts == IF p.pts = <<>> THEN p.lastPts + Duration ELSE Head(p.pts)
      frame == [config |-> FALSE, data |-> picture, pts |-> pts,
                isKey |-> \E k \in DOMAIN nals : nals[k].type = 5]
  IN  [parser |-> [p EXCEPT !.config = IF config = <<>> THEN @ ELSE config,
                            !.lastPts = IF picture = <<>> THEN @ ELSE pts,
                            !.pts = IF picture = <<>> \/ @ = <<>> THEN @ ELSE Tail(@)],
       emitted |-> st.emitted \o told \o (IF picture = <<>> THEN <<>> ELSE <<frame>>)]

\* What lies between two delimiters is an access unit: done[n] after the
\* first n NAL units, the last delimiter of them at lastAud.
LastAud(nals, n) ==
  LET auds == {k \in 1..n : nals[k].type = AudByte}
  IN  IF auds = {} THEN 0 ELSE CHOOSE k \in auds : \A j \in auds : j <= k
UnitEnded(st, n) ==
  LET nals == st.parser.nals
      lastAud == LastAud(nals, n - 1)
  IN  IF nals[n].type = AudByte /\ lastAud > 0
      THEN EmitUnit(st, SubSeq(nals, lastAud + 1, n - 1), nals[n].pos)
      ELSE st

\* The last one waits for the delimiter of the next: what is before it is let go of.
Rebased(p, lastAud) ==
  LET base == p.nals[lastAud].pos
      kept == SubSeq(p.nals, lastAud, Len(p.nals))
  IN  [p EXCEPT !.pending = UnitBytes(@, base, Len(@)),
                !.nals = [k \in DOMAIN kept |-> [kept[k] EXCEPT !.pos = @ - base, !.data = @ - base]],
                !.scanFrom = NotBelowZero(@ - base)]
EmitUnits(p) ==
  LET done[n \in 0..Len(p.nals)] ==
        IF n = 0 THEN [parser |-> p, emitted |-> emitted] ELSE UnitEnded(done[n - 1], n)
      st == done[Len(p.nals)]
      lastAud == LastAud(p.nals, Len(p.nals))
  IN  IF lastAud = 0 THEN st ELSE [st EXCEPT !.parser = Rebased(@, lastAud)]

-----------------------------------------------------------------------------
(* H264Encoder.                                                             *)

\* The owner hears of a failure once, and of none after it has closed.
Reported(e) == IF e.closed THEN e ELSE [e EXCEPT !.reported = TRUE]
ClosingEncoder(e) ==
  IF e.closed THEN e
  ELSE [e EXCEPT !.closed = TRUE,
                 !.shutdown = IF e.process \in {"exited", "failed"} THEN "done" ELSE "grace",
                 !.stdin = IF e.process = "running" THEN "ended" ELSE @]

\* An image that is refused for back-pressure leaves no time behind.
BugWrite ==
  /\ encoder.offered < MaxImages
  /\ LET n == encoder.offered + 1
         taken == ~encoder.closed /\ encoder.stdin = "open" /\ ~encoder.drain
     IN  /\ parser' = [parser EXCEPT !.pts = Append(@, 10 * n)]
         /\ \E full \in BOOLEAN :
              encoder' = IF taken
                         THEN [encoder EXCEPT !.offered = n, !.accepted = Append(@, 10 * n), !.drain = full]
                         ELSE [encoder EXCEPT !.offered = n]
  /\ UNCHANGED emitted
Write ==
  /\ encoder.offered < MaxImages
  /\ LET n == encoder.offered + 1
         taken == ~encoder.closed /\ encoder.stdin = "open" /\ ~encoder.drain
     IN  IF taken
         THEN /\ parser' = [parser EXCEPT !.pts = Append(@, 10 * n)]
              /\ \E full \in BOOLEAN :
                   encoder' = [encoder EXCEPT !.offered = n, !.accepted = Append(@, 10 * n), !.drain = full]
         ELSE encoder' = [encoder EXCEPT !.offered = n] /\ UNCHANGED parser
  /\ UNCHANGED emitted

Process(next) == encoder' = next /\ UNCHANGED <<parser, emitted>>
Drains == encoder.drain /\ Process([encoder EXCEPT !.drain = FALSE])
Encodes ==
  /\ encoder.process = "running" /\ encoder.encoded < Len(encoder.accepted)
  /\ Process([encoder EXCEPT !.encoded = @ + 1])

\* Output that comes after the close is dropped; output without an end is a failure.
OutputArrives ==
  /\ encoder.read < Len(Stream(encoder.encoded))
  /\ \E n \in ReadSizes :
       LET to == NotAbove(encoder.read + n, Len(Stream(encoder.encoded)))
           chunk == UnitBytes(Stream(encoder.encoded), encoder.read, to)
           read == [encoder EXCEPT !.read = to]
       IN  IF encoder.closed THEN encoder' = read /\ UNCHANGED <<parser, emitted>>
           ELSE IF Len(parser.pending) + Len(chunk) > PendingLimit
           THEN encoder' = ClosingEncoder(Reported(read)) /\ UNCHANGED <<parser, emitted>>
           ELSE LET st == EmitUnits(Scanned([parser EXCEPT !.pending = @ \o chunk]))
                IN  encoder' = read /\ parser' = st.parser /\ emitted' = st.emitted

\* The pipes break, the process does not start, or it exits.
PipeBreaks ==
  /\ encoder.process = "running" /\ encoder.stdin = "open"
  /\ Process([Reported(encoder) EXCEPT !.stdin = "broken"])
DoesNotStart ==
  /\ encoder.process = "running" /\ encoder.encoded = 0 /\ encoder.stdin # "broken"
  /\ Process([Reported(encoder) EXCEPT !.process = "failed", !.stdin = "broken"])
Exits ==
  /\ encoder.process \in {"running", "killed"}
  /\ Process([Reported(encoder) EXCEPT !.process = "exited", !.stdin = "broken"])

Close == ~encoder.closed /\ Process(ClosingEncoder(encoder))

\* #shutdown: the end of the input, SIGTERM and SIGKILL, with a wait after each.
BugShutdownGoesOn ==
  \/ /\ encoder.shutdown \in {"grace", "term", "kill"} /\ encoder.process \in {"exited", "failed"}
     /\ Process([encoder EXCEPT !.shutdown = "done"])
  \/ /\ encoder.shutdown = "grace" /\ encoder.process = "running"
     /\ Process([encoder EXCEPT !.shutdown = "term"])
  \/ /\ encoder.shutdown \in {"term", "kill"} /\ encoder.process \in {"running", "killed"}
     /\ Process([encoder EXCEPT !.shutdown = "done"])
ShutdownGoesOn ==
  \/ /\ encoder.shutdown \in {"grace", "term", "kill"} /\ encoder.process \in {"exited", "failed"}
     /\ Process([encoder EXCEPT !.shutdown = "done"])
  \/ /\ encoder.shutdown = "grace" /\ encoder.process = "running"
     /\ Process([encoder EXCEPT !.shutdown = "term"])
  \/ /\ encoder.shutdown = "term" /\ encoder.process = "running"
     /\ Process([encoder EXCEPT !.shutdown = "kill", !.process = "killed"])
  \/ /\ encoder.shutdown = "kill" /\ encoder.process = "killed"
     /\ Process([encoder EXCEPT !.shutdown = "done"])

EncoderNext ==
  \/ Write \/ Drains \/ Encodes \/ OutputArrives \/ PipeBreaks \/ DoesNotStart \/ Exits \/ Close
  \/ ShutdownGoesOn

-----------------------------------------------------------------------------
(* Properties.                                                              *)

\* What ffmpeg makes of the images taken: the parameter sets, then a picture
\* for each image, with the time the image was offered with.
Expected ==
  <<[config |-> TRUE, data |-> StartCode \o <<SpsByte>>, pts |-> 0, isKey |-> FALSE]>>
  \o [i \in 1..Len(encoder.accepted) |->
        [config |-> FALSE, pts |-> encoder.accepted[i], isKey |-> i = 1,
         data |-> StartCode \o <<IF i = 1 THEN KeyByte ELSE SliceByte, 10 + i>>]]

\* However the pipe cuts the output (in a start code, before a type byte),
\* and whatever the encoder has refused, every picture comes out whole, in
\* order, and with the time of its own image (H264OutputParser, write).
PicturesKeepTheirTime == IsPrefix(emitted, Expected)

\* A picture is only held back until the next one has begun: once the
\* delimiter of its successor has been read it has been handed on.
PicturesAreNotHeldBack ==
  \A i \in 1..encoder.encoded :
    ~encoder.closed /\ encoder.read >= Len(Stream(i)) + 5 => Len(emitted) >= i + 1

\* When close has settled the process has ended, or was sent SIGKILL: no
\* ffmpeg outlives the capture it was started for.
CloseLeavesNoProcess == encoder.shutdown = "done" => encoder.process # "running"
=============================================================================

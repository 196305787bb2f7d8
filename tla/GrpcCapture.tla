------------------------------ MODULE GrpcCapture ------------------------------
(***************************************************************************)
(* A gRPC screenshot session from its start-up to its close: screenshots   *)
(* of the emulator are paced into an ffmpeg process, whose output goes to  *)
(* the packet queue. ffmpeg is replaced when the display changes size and  *)
(* whenever a key frame is wanted, one process at a time.                  *)
(*                                                                         *)
(* Sources: grpc-session.ts (startGrpcSession, GrpcEncoderLifecycle),      *)
(* h264-encoder.ts (H264Encoder, H264OutputParser), grpc-mmap.ts and       *)
(* emulator-grpc.ts as the source of the images. Pixels and timestamps are *)
(* left out; an image is the size of the display it shows.                 *)
(***************************************************************************)
EXTENDS GrpcPackets

CONSTANTS
  DisplaySizes,   \* sizes of the display, as it is turned
  Options,        \* the options a session may be started with
  MaxEncoders,    \* bound: encoders started
  MaxFrames,      \* bound: frames an encoder puts out
  MaxUnits        \* images an encoder takes before its pipe is full

ASSUME CaptureAssumption ==
  /\ 0 \notin DisplaySizes
  /\ Options \subseteq [inputSource : {"grpc", "scrcpy"}, imageMode : {"png", "mmap"}]
  /\ {MaxBytes, MaxEncoders, MaxFrames, MaxUnits} \subseteq Nat \ {0}

VARIABLES
  options,        \* inputSource and imageMode
  phase,          \* probing, first (image), gate, running, closing, closed
  fatal,          \* fatalFailure
  queue,          \* packetQueue, waiters and startupGate
  latest,         \* the size of the latest image, or 0
  fresh,          \* the latest image has not been accepted by the encoder
  encoder,        \* GrpcEncoderLifecycle.current and its process
  shutting,       \* an encoder process is being shut down
  lifecycle,      \* pending, drainTask and closed of GrpcEncoderLifecycle
  timers,         \* the timers of writeTimer, flushTimer and idleTimer
  transport,      \* captureTransport: none, open, stopped, closed
  control,        \* the scrcpy control session: none, starting, open, closed
  release,        \* releaseInput at close: none, started, done
  client          \* the gRPC client is open

grpcVars == <<options, phase, fatal, queue, latest, fresh, encoder, shutting, lifecycle, timers,
          transport, control, release, client>>
imageVars == <<latest, fresh>>
encoderVars == <<encoder, shutting, lifecycle>>
ends == <<options, transport, control, release, client>>

NoEncoder == [id |-> 0, size |-> 0, alive |-> FALSE, units |-> 0, frames |-> 0, output |-> FALSE]

TypeOK ==
  /\ phase \in {"probing", "first", "gate", "running", "closing", "closed"}
  /\ {fatal, fresh, shutting, client} \subseteq BOOLEAN
  /\ queue.packets \in Seq([kind : Kinds, encoder : 0 .. MaxEncoders, n : 0 .. MaxFrames,
                            config : 0 .. MaxEncoders])
  /\ ~fatal => QueuedBytes(queue.packets) <= MaxBytes
  /\ latest \in DisplaySizes \cup {0}
  /\ encoder \in [id : 0 .. MaxEncoders, size : DisplaySizes \cup {0}, alive : BOOLEAN,
                  units : 0 .. MaxUnits, frames : 0 .. MaxFrames, output : BOOLEAN]
  /\ lifecycle \in [last : 0 .. MaxEncoders, drain : {"none", "closing", "creating"},
                    closed : BOOLEAN, announce : BOOLEAN, clear : BOOLEAN, pending : BOOLEAN]
  /\ timers \subseteq {"write", "flush", "idle"}
  /\ transport \in {"none", "open", "stopped", "closed"}
  /\ control \in {"none", "starting", "open", "closed"}
  /\ release \in {"none", "started", "done"}

Closed == phase \in {"closing", "closed"}
Current == encoder.id # 0

-----------------------------------------------------------------------------
(* Writing images to the encoder.                                           *)

\* Timers keep the write going: a new image is followed by a repeat, which
\* closes its access unit, PNG images by repeats until ffmpeg answers, and an
\* image the pipe did not take is retried.
BugFollowUp(armed, repeat, accepted, output) ==
  CASE repeat /\ accepted  -> armed \ {"flush"}
    [] ~repeat /\ ~accepted -> armed
    [] OTHER                -> armed \cup {"flush"}
FollowUp(armed, repeat, accepted, output) ==
  CASE repeat /\ accepted /\ (output \/ options.imageMode = "mmap") -> armed \ {"flush"}
    [] ~repeat /\ ~accepted -> armed \cup {"write"}
    [] OTHER                -> armed \cup {"flush"}

\* writeFrame, to encoder e, of an image that is new to it if isNew. An idle
\* pipe takes an image, a full one refuses it.
WriteFrame(e, isNew, armed, repeat) ==
  IF Closed \/ fatal \/ e.id = 0
  THEN encoder' = e /\ fresh' = isNew /\ timers' = armed
  ELSE \E accepted \in {b \in BOOLEAN : (b => e.units < MaxUnits) /\ (~b => e.units > 0)} :
         /\ encoder' = IF accepted THEN [e EXCEPT !.units = @ + 1] ELSE e
         /\ fresh' = (isNew /\ ~accepted)
         /\ timers' = FollowUp(armed, repeat, accepted, e.output)

\* scheduleWrite: at once, or when the pace of the frames allows it.
ScheduleWrite(isNew, armed) ==
  IF "write" \in armed \/ Closed \/ encoder.id = 0
  THEN encoder' = encoder /\ fresh' = isNew /\ timers' = armed
  ELSE \/ encoder' = encoder /\ fresh' = isNew /\ timers' = armed \cup {"write"}
       \/ WriteFrame(encoder, isNew, armed, FALSE)

\* The pacing timer writes; the retry timer schedules a write.
WriteTimerFires ==
  /\ "write" \in timers
  /\ ScheduleWrite(fresh, timers \ {"write"})
  /\ UNCHANGED <<phase, fatal, queue, latest, shutting, lifecycle, ends>>

FlushTimerFires ==
  /\ "flush" \in timers
  /\ WriteFrame(encoder, fresh, timers \ {"flush"}, TRUE)
  /\ UNCHANGED <<phase, fatal, queue, latest, shutting, lifecycle, ends>>

\* The interval that repeats the image of a display that does not change.
IdleTick ==
  /\ "idle" \in timers /\ Current
  /\ WriteFrame(encoder, fresh, timers, TRUE)
  /\ UNCHANGED <<phase, fatal, queue, latest, shutting, lifecycle, ends>>

-----------------------------------------------------------------------------
(* GrpcEncoderLifecycle.                                                    *)

\* restartEncoder: the current encoder is withdrawn before any await, unless a
\* replacement is under way already, which this one then joins.
BugRestart(announce, clear) ==
  /\ timers' = timers \ {"write", "flush"}
  /\ lifecycle' = [lifecycle EXCEPT !.pending = TRUE, !.announce = announce, !.clear = clear,
                                    !.drain = IF @ = "none" THEN "creating" ELSE @]
  /\ IF lifecycle.drain = "none" /\ Current
     THEN shutting' = encoder.alive /\ encoder' = NoEncoder
     ELSE UNCHANGED <<shutting, encoder>>
Restart(announce, clear) ==
  /\ timers' = timers \ {"write", "flush"}
  /\ lifecycle' = [lifecycle EXCEPT !.pending = TRUE, !.announce = @ \/ announce,
                                    !.clear = @ \/ clear,
                                    !.drain = IF @ # "none" THEN @
                                              ELSE IF Current THEN "closing" ELSE "creating"]
  /\ IF lifecycle.drain = "none" /\ Current
     THEN shutting' = encoder.alive /\ encoder' = NoEncoder
     ELSE UNCHANGED <<shutting, encoder>>

\* The shutdown of the old process ends: it left, or SIGKILL was sent.
EncoderShutDown ==
  /\ lifecycle.drain = "closing"
  /\ shutting' = FALSE
  /\ lifecycle' = [lifecycle EXCEPT !.drain = IF lifecycle.closed THEN "none" ELSE "creating"]
  /\ UNCHANGED <<phase, fatal, queue, imageVars, encoder, timers, ends>>

\* The create callback of the session, for every request made until now.
Announced(q, id) ==
  LET cleared == IF lifecycle.clear THEN Clear(q) ELSE q
  IN  IF lifecycle.announce /\ ~fatal THEN PushPacket(cleared, SessionPacket(id)) ELSE cleared

EncoderCreated ==
  /\ lifecycle.drain = "creating" /\ ~lifecycle.closed
  /\ lifecycle.last < MaxEncoders
  /\ LET id == lifecycle.last + 1
     IN  /\ lifecycle' = [lifecycle EXCEPT !.last = id, !.drain = "none", !.pending = FALSE,
                                           !.announce = FALSE, !.clear = FALSE]
         /\ queue' = Announced(queue, id)
         /\ WriteFrame([NoEncoder EXCEPT !.id = id, !.size = latest, !.alive = TRUE],
                       TRUE, timers, FALSE)
  /\ UNCHANGED <<phase, fatal, latest, shutting, ends>>

CreationAbandoned ==
  /\ lifecycle.drain = "creating" /\ lifecycle.closed
  /\ lifecycle' = [lifecycle EXCEPT !.drain = "none"]
  /\ UNCHANGED <<phase, fatal, queue, imageVars, encoder, shutting, timers, ends>>

-----------------------------------------------------------------------------
(* The output of ffmpeg: an access unit ends where the next one begins, so   *)
(* the last image stays inside.                                              *)

\* An access unit, the first one with its config. If the queue was dropped at the
\* config the encoder is shut down by then, and what its key frame does goes
\* unnoticed if that fails.
Emitted(q, kind, n) ==
  LET first == PushPacket(q, Packet("config", encoder.id, 0))
      key == PushPacket(first, Packet("key", encoder.id, 0))
  IN  IF n > 0 THEN PushPacket(q, Packet(kind, encoder.id, n))
      ELSE IF first.over \/ (first.needsKey /\ key.over) THEN first ELSE key

\* The queue asks for a key frame, or fails and takes the encoder with it.
EncoderOutputs(kind) ==
  /\ encoder.alive /\ encoder.units > 1 /\ encoder.frames < MaxFrames
  /\ kind \in {"key", "delta"} /\ (encoder.frames = 0 => kind = "key")
  /\ LET e == [encoder EXCEPT !.units = @ - 1, !.frames = @ + 1, !.output = TRUE]
         q == IF fatal \/ Closed THEN queue ELSE Emitted(queue, kind, encoder.frames)
     IN  IF q.over /\ ~fatal
         THEN /\ fatal' = TRUE
              /\ queue' = [q EXCEPT !.needsKey = FALSE, !.waiting = FALSE]
              /\ encoder' = [e EXCEPT !.alive = FALSE]
              /\ UNCHANGED <<shutting, lifecycle, timers>>
         ELSE /\ queue' = [q EXCEPT !.needsKey = FALSE]
              /\ UNCHANGED fatal
              /\ IF q.needsKey THEN Restart(FALSE, FALSE)
                 ELSE encoder' = e /\ UNCHANGED <<shutting, lifecycle, timers>>
  /\ UNCHANGED <<phase, imageVars, ends>>

\* emitFatal: the reader is woken and gets what is queued, then nothing.
Fails ==
  /\ fatal' = TRUE
  /\ queue' = [queue EXCEPT !.waiting = FALSE]

EncoderDies ==
  /\ encoder.alive /\ ~Closed /\ ~fatal
  /\ encoder' = [encoder EXCEPT !.alive = FALSE]
  /\ Fails
  /\ UNCHANGED <<phase, imageVars, shutting, lifecycle, timers, ends>>

-----------------------------------------------------------------------------
(* The session.                                                             *)

ControlOpens ==
  /\ control = "starting" /\ ~Closed
  /\ control' = "open"
  /\ UNCHANGED <<options, phase, fatal, queue, imageVars, encoderVars, timers, transport, release, client>>

\* The first screenshot shows that the display is on, and how large it is.
ProbeAnswered ==
  /\ phase = "probing" /\ ~fatal /\ control # "starting"
  /\ phase' = "first"
  /\ transport' = "open"
  /\ UNCHANGED <<options, fatal, queue, imageVars, encoderVars, timers, control, release, client>>

\* onImage. The first image starts the first encoder.
ImageArrives(size) ==
  /\ phase \in {"first", "gate", "running"} /\ transport = "open"
  /\ latest' = size
  /\ phase' = IF phase = "first" THEN "gate" ELSE phase
  /\ CASE phase = "first" ->
            Restart(FALSE, FALSE) /\ fresh' = TRUE
       [] phase # "first" /\ Current /\ size # encoder.size ->
            Restart(TRUE, TRUE) /\ fresh' = TRUE
       [] OTHER ->
            ScheduleWrite(TRUE, timers) /\ UNCHANGED <<shutting, lifecycle>>
  /\ UNCHANGED <<fatal, queue, ends>>

\* The stream ends or fails, or the connection or the control session does.
SourceFails ==
  /\ ~Closed /\ ~fatal
  /\ Fails
  /\ UNCHANGED <<phase, imageVars, encoderVars, timers, ends>>

Started ==
  /\ phase = "gate" /\ GateReady(queue)
  /\ phase' = "running"
  /\ timers' = timers \cup {"idle"}
  /\ UNCHANGED <<fatal, queue, imageVars, encoderVars, ends>>

\* resetVideo of the control input queue.
ResetVideo ==
  /\ phase = "running"
  /\ Restart(FALSE, FALSE)
  /\ UNCHANGED <<phase, fatal, queue, imageVars, ends>>

Read ==
  /\ phase = "running" /\ ~queue.waiting
  /\ queue.packets # <<>> \/ ~fatal
  /\ queue' = ReadFrame(queue)
  /\ UNCHANGED <<phase, fatal, imageVars, encoderVars, timers, ends>>

-----------------------------------------------------------------------------
(* close: when the start-up fails or times out, when the parent aborts, and  *)
(* when the owner of the session asks for it.                                *)

Close ==
  /\ ~Closed
  /\ phase' = "closing"
  /\ transport' = IF transport = "open" THEN "stopped" ELSE transport
  /\ timers' = {}
  /\ lifecycle' = [lifecycle EXCEPT !.closed = TRUE, !.pending = FALSE, !.announce = FALSE,
                                    !.clear = FALSE]
  /\ release' = IF options.inputSource = "grpc" THEN "started" ELSE "done"
  /\ queue' = [Clear(queue) EXCEPT !.waiting = FALSE]
  /\ UNCHANGED <<options, fatal, imageVars, encoder, shutting, control, client>>

\* The close of the lifecycle waits for its drain, then closes what that left.
EncoderClosed ==
  /\ phase = "closing" /\ lifecycle.drain = "none" /\ Current
  /\ encoder' = NoEncoder
  /\ shutting' = encoder.alive
  /\ lifecycle' = [lifecycle EXCEPT !.drain = "closing"]
  /\ UNCHANGED <<phase, fatal, queue, imageVars, timers, ends>>

\* The ups of everything that may be down were sent, or 500 ms have passed.
InputReleased ==
  /\ release = "started"
  /\ release' = "done"
  /\ UNCHANGED <<options, phase, fatal, queue, imageVars, encoderVars, timers, transport, control, client>>

\* A control session that is still starting is closed once it has.
ControlClosed ==
  /\ phase = "closing" /\ control \in {"starting", "open"}
  /\ control' = "closed"
  /\ UNCHANGED <<options, phase, fatal, queue, imageVars, encoderVars, timers, transport, release, client>>

BugReleaseSettled == release = "done" /\ control \in {"none", "closed"}
ReleaseSettled ==
  /\ release = "done" /\ control \in {"none", "closed"}
  /\ lifecycle.drain = "none" /\ ~Current

CloseFinishes ==
  /\ phase = "closing" /\ ReleaseSettled
  /\ phase' = "closed"
  /\ client' = FALSE
  /\ transport' = IF transport = "stopped" THEN "closed" ELSE transport
  /\ UNCHANGED <<options, fatal, queue, imageVars, encoderVars, timers, control, release>>

-----------------------------------------------------------------------------
GrpcInit ==
  /\ phase = "probing" /\ fatal = FALSE
  /\ queue = NewQueue
  /\ latest = 0 /\ fresh = FALSE
  /\ encoder = NoEncoder /\ shutting = FALSE
  /\ lifecycle = [last |-> 0, drain |-> "none", closed |-> FALSE, announce |-> FALSE,
                  clear |-> FALSE, pending |-> FALSE]
  /\ timers = {}
  /\ transport = "none"
  /\ options \in Options
  /\ control = IF options.inputSource = "scrcpy" THEN "starting" ELSE "none"
  /\ release = "none"
  /\ client = TRUE

GrpcNext ==
  \/ WriteTimerFires \/ FlushTimerFires \/ IdleTick
  \/ EncoderShutDown \/ EncoderCreated \/ CreationAbandoned
  \/ \E kind \in Kinds : EncoderOutputs(kind)
  \/ EncoderDies \/ SourceFails
  \/ ControlOpens \/ ProbeAnswered \/ Started \/ ResetVideo \/ Read
  \/ \E size \in DisplaySizes : ImageArrives(size)
  \/ Close \/ EncoderClosed \/ InputReleased \/ ControlClosed \/ CloseFinishes

GrpcSpec == GrpcInit /\ [][GrpcNext]_grpcVars

-----------------------------------------------------------------------------
(* What the pump reads can be decoded, whatever was dropped or replaced on   *)
(* the way: a key frame comes after the config of its own encoder, any other *)
(* frame right after its predecessor (GrpcVideoPacketQueue, restartEncoder). *)
ReaderDecodes == ~queue.decoder.broken

(* An encoder is only ever given images of its own size, and no encoder is   *)
(* started before its predecessor is gone, however images, resets and queue  *)
(* overflows fall into a replacement (onImage, GrpcEncoderLifecycle.restart). *)
EncoderFitsImage ==
  /\ Current /\ ~Closed => encoder.size = latest
  /\ ~(encoder.alive /\ shutting)

(* No image is stranded: as long as the encoder has not accepted the latest  *)
(* image a timer will offer it again, through back-pressure and replacements *)
(* (writeFrame, scheduleWrite).                                              *)
NoImageStranded ==
  Current /\ ~Closed /\ ~fatal /\ fresh => timers \cap {"write", "flush"} # {}

(* close ends everything the session started, also in the middle of a        *)
(* start-up or of a replacement: no process, no timer, no region, no reader. *)
ClosedLeavesNothing ==
  phase = "closed" =>
    /\ ~Current /\ ~shutting /\ lifecycle.drain = "none"
    /\ timers = {} /\ ~client /\ ~queue.waiting
    /\ transport \in {"none", "closed"} /\ control \in {"none", "closed"}

=============================================================================

----------------------------- MODULE CaptureApp -----------------------------
(***************************************************************************)
(* One app of the router: a capture and the viewers that watch it. New     *)
(* encoder settings close the capture and open another, and fall back to   *)
(* the old settings when that fails, while viewers stay connected, ask for *)
(* WebRTC or leave, and while the app may be stopped at any moment.        *)
(*                                                                         *)
(* Source: middleware.ts (createAppInternal). Of sessionGeneration only    *)
(* whether it moved on matters: a reader, and a publisher that is being    *)
(* opened, is current or stale. Of a packet only what kind it is.          *)
(***************************************************************************)
LOCAL INSTANCE Integers

CONSTANTS
  Viewers,       \* sockets that take video
  MaxCaptures    \* bound: captures opened, failed ones included

ASSUME CaptureAssumption == MaxCaptures \in Nat \ {0}

VARIABLES
  app,        \* status, stopRequested, the video reset, cachedConfig
  capture,    \* what openSession was asked for, in order, and what reads it
  viewer,     \* clients
  update,     \* updateStreamEncoderSettings
  publisher   \* webRtcPublisher and webRtcPublisherTask

captureVars == <<app, capture, viewer, update, publisher>>

Captures == 1 .. MaxCaptures

CaptureInit ==
  /\ app = [status |-> "streaming", stop |-> "none", session |-> 1, restarting |-> FALSE,
            pending |-> FALSE, cooling |-> FALSE, asked |-> FALSE, config |-> "none",
            closes |-> 0, ownEnd |-> FALSE, torn |-> FALSE]
  /\ capture = [c \in Captures |->
       IF c = 1 THEN [state |-> "open", reader |-> "current"]
                ELSE [state |-> "unborn", reader |-> "off"]]
  /\ viewer = [v \in Viewers |-> [on |-> FALSE, awaiting |-> TRUE, missed |-> TRUE]]
  /\ update = [step |-> "idle", capture |-> 0]
  /\ publisher = [task |-> "none", open |-> FALSE]

Stopping == app.stop # "none"
Streaming == app.status = "streaming"
OpenCaptures == {c \in Captures : capture[c].state \in {"opening", "open", "ended"}}

Closing(caps, c) ==
  IF caps[c].state \in {"open", "ended"} THEN [caps EXCEPT ![c].state = "closing"] ELSE caps
\* ++sessionGeneration
OutOfDate(caps) ==
  [c \in Captures |-> IF caps[c].reader = "current" THEN [caps[c] EXCEPT !.reader = "stale"] ELSE caps[c]]
OutdatedTask(task) == IF task = "current" THEN "stale" ELSE task

Gone == [v \in Viewers |-> [viewer[v] EXCEPT !.on = FALSE]]

-----------------------------------------------------------------------------
(* requestVideoReset: at once, or when the cooldown of the last one is over. *)

ResetRequested(a) ==
  IF a.status # "streaming" \/ a.restarting THEN a
  ELSE IF a.cooling THEN [a EXCEPT !.pending = TRUE]
  ELSE [a EXCEPT !.asked = TRUE, !.cooling = TRUE, !.pending = FALSE]

\* The cooldown and the timer that was set for its end.
CooldownEnds ==
  /\ app.cooling
  /\ LET calm == [app EXCEPT !.cooling = FALSE, !.pending = FALSE]
     IN  app' = IF app.pending THEN ResetRequested(calm) ELSE calm
  /\ UNCHANGED <<capture, viewer, update, publisher>>

Terminal(a) == [a EXCEPT !.status = "error", !.restarting = FALSE, !.pending = FALSE]

-----------------------------------------------------------------------------
(* Viewers.                                                                 *)

ViewerAttaches(v) ==
  /\ ~viewer[v].on /\ Streaming
  /\ viewer' = [viewer EXCEPT ![v] = [on |-> TRUE, awaiting |-> TRUE, missed |-> TRUE]]
  /\ app' = ResetRequested(app)
  /\ UNCHANGED <<capture, update, publisher>>

ViewerLeaves(v) ==
  /\ viewer[v].on
  /\ viewer' = [viewer EXCEPT ![v].on = FALSE]
  /\ UNCHANGED <<app, capture, update, publisher>>

\* "reset-video": the viewer lost its picture.
ViewerAsks(v) ==
  /\ viewer[v].on /\ Streaming
  /\ app' = ResetRequested(app)
  /\ UNCHANGED <<capture, viewer, update, publisher>>

-----------------------------------------------------------------------------
(* startCaptureReader.                                                      *)

CanRead(c) == capture[c].state = "open" /\ capture[c].reader = "current"

\* sendFrame, to a viewer whose socket is clear, has too much to send, or much too much.
Sent(w, key, buffered) ==
  IF w.awaiting /\ ~key THEN [w EXCEPT !.missed = TRUE]
  ELSE CASE buffered = "close" -> [w EXCEPT !.on = FALSE]
         [] buffered = "drop" -> [w EXCEPT !.awaiting = TRUE, !.missed = TRUE]
         [] OTHER -> [w EXCEPT !.awaiting = FALSE, !.missed = FALSE]
Dropped(w, key, buffered) == w.on /\ buffered = "drop" /\ (key \/ ~w.awaiting)
\* A viewer cannot decode what depends on a frame it missed, or on another stream's
\* parameter sets.
Tears(w, key, buffered) ==
  /\ w.on /\ buffered = "clear"
  /\ \/ ~key /\ ~w.awaiting /\ w.missed
     \/ key /\ app.config = "stale"

Watching == {v \in Viewers : viewer[v].on}

BugFrameRead(c) ==
  /\ CanRead(c) /\ ~Stopping
  /\ \E key \in BOOLEAN, buffered \in [Watching -> {"clear", "drop", "close"}] :
       LET dropped == \E v \in Watching : Dropped(viewer[v], key, buffered[v])
           torn == \E v \in Watching : Tears(viewer[v], key, buffered[v])
           read == [app EXCEPT !.asked = @ /\ ~key, !.torn = @ \/ torn]
       IN  /\ viewer' = [v \in Viewers |->
                IF v \in Watching THEN Sent(viewer[v], key, buffered[v]) ELSE viewer[v]]
           /\ app' = read
  /\ UNCHANGED <<capture, update, publisher>>
FrameRead(c) ==
  /\ CanRead(c) /\ ~Stopping
  /\ \E key \in BOOLEAN, buffered \in [Watching -> {"clear", "drop", "close"}] :
       LET dropped == \E v \in Watching : Dropped(viewer[v], key, buffered[v])
           torn == \E v \in Watching : Tears(viewer[v], key, buffered[v])
           read == [app EXCEPT !.asked = @ /\ ~key, !.torn = @ \/ torn]
       IN  /\ viewer' = [v \in Viewers |->
                IF v \in Watching THEN Sent(viewer[v], key, buffered[v]) ELSE viewer[v]]
           /\ app' = IF dropped THEN ResetRequested(read) ELSE read
  /\ UNCHANGED <<capture, update, publisher>>

ConfigRead(c) ==
  /\ CanRead(c) /\ ~Stopping
  /\ app' = [app EXCEPT !.config = "current"]
  /\ UNCHANGED <<capture, viewer, update, publisher>>

Resynced == [v \in Viewers |-> [viewer[v] EXCEPT !.awaiting = TRUE, !.missed = TRUE]]

\* The device was rotated: its encoder starts again, with a key frame.
BugSessionRead(c) ==
  /\ CanRead(c) /\ ~Stopping
  /\ app' = [app EXCEPT !.config = IF @ = "current" THEN "stale" ELSE @, !.asked = TRUE]
  /\ viewer' = Resynced
  /\ UNCHANGED <<capture, update, publisher>>
SessionRead(c) ==
  /\ CanRead(c) /\ ~Stopping
  /\ app' = [app EXCEPT !.config = "none", !.asked = TRUE]
  /\ viewer' = Resynced
  /\ UNCHANGED <<capture, update, publisher>>

\* The capture fails by itself.
CaptureFails(c) ==
  /\ capture[c].state = "open"
  /\ capture' = [capture EXCEPT ![c].state = "ended"]
  /\ UNCHANGED <<app, viewer, update, publisher>>

\* The end of the stream, or the fatal listener, which goes with the generation.
BugEndRead(c) ==
  /\ capture[c].state \in {"ended", "closing", "closed"} /\ capture[c].reader # "off"
  /\ LET caps == [capture EXCEPT ![c].reader = "off"]
     IN  IF Stopping \/ ~Streaming
         THEN capture' = caps /\ UNCHANGED <<app, viewer, publisher>>
         ELSE /\ app' = [Terminal(app) EXCEPT !.ownEnd = capture[c].state = "ended"]
              /\ capture' = Closing(caps, app.session)
              /\ viewer' = Gone
              /\ publisher' = [publisher EXCEPT !.open = FALSE]
  /\ UNCHANGED update
EndRead(c) ==
  /\ capture[c].state \in {"ended", "closing", "closed"} /\ capture[c].reader # "off"
  /\ LET caps == [capture EXCEPT ![c].reader = "off"]
     IN  IF Stopping \/ ~Streaming \/ capture[c].reader = "stale"
         THEN capture' = caps /\ UNCHANGED <<app, viewer, publisher>>
         ELSE /\ app' = [Terminal(app) EXCEPT !.ownEnd = capture[c].state = "ended"]
              /\ capture' = Closing(caps, app.session)
              /\ viewer' = Gone
              /\ publisher' = [publisher EXCEPT !.open = FALSE]
  /\ UNCHANGED update

CaptureCloses(c) ==
  /\ capture[c].state = "closing"
  /\ capture' = [capture EXCEPT ![c].state = "closed"]
  /\ UNCHANGED <<app, viewer, update, publisher>>

-----------------------------------------------------------------------------
(* updateStreamEncoderSettings: one at a time.                              *)

NextCapture ==
  {c \in Captures : capture[c].state = "unborn" /\ \A d \in Captures : d < c => capture[d].state # "unborn"}

UpdateBegins ==
  /\ update.step = "idle" /\ Streaming /\ ~Stopping /\ NextCapture # {}
  /\ app' = [app EXCEPT !.restarting = TRUE, !.pending = FALSE]
  /\ capture' = Closing(OutOfDate(capture), app.session)
  /\ publisher' = [publisher EXCEPT !.task = OutdatedTask(@)]
  /\ update' = [step |-> "closing", capture |-> app.session]
  /\ UNCHANGED viewer

\* startCapture; the signal of a stop aborts it.
CaptureAsked(step) ==
  \E c \in NextCapture :
    /\ update' = [step |-> step, capture |-> c]
    /\ capture' = [capture EXCEPT ![c].state = "opening"]

UpdateOpens ==
  /\ update.step = "closing" /\ capture[update.capture].state = "closed"
  /\ CaptureAsked("opening")
  /\ UNCHANGED <<app, viewer, publisher>>

\* activateCapture: everything starts anew on the new capture.
BugActivated(c) ==
  LET fresh == [app EXCEPT !.session = c, !.restarting = FALSE, !.pending = FALSE, !.cooling = FALSE,
                           !.asked = FALSE, !.config = "none"]
  IN  /\ app' = ResetRequested(fresh)
      /\ capture' = [OutOfDate(capture) EXCEPT ![c] = [state |-> "open", reader |-> "current"]]
      /\ viewer' = [v \in Viewers |-> [viewer[v] EXCEPT !.missed = TRUE]]
      /\ publisher' = [publisher EXCEPT !.task = OutdatedTask(@)]
      /\ update' = [step |-> "idle", capture |-> 0]
Activated(c) ==
  LET fresh == [app EXCEPT !.session = c, !.restarting = FALSE, !.pending = FALSE, !.cooling = FALSE,
                           !.asked = FALSE, !.config = "none"]
  IN  /\ app' = ResetRequested(fresh)
      /\ capture' = [OutOfDate(capture) EXCEPT ![c] = [state |-> "open", reader |-> "current"]]
      /\ viewer' = Resynced
      /\ publisher' = [publisher EXCEPT !.task = OutdatedTask(@)]
      /\ update' = [step |-> "idle", capture |-> 0]

\* A capture that is ready when the app is not streaming any more is closed.
BugCaptureReady ==
  /\ update.step \in {"opening", "reopening"}
  /\ capture[update.capture].state = "opening"
  /\ Activated(update.capture)
CaptureReady ==
  /\ update.step \in {"opening", "reopening"}
  /\ capture[update.capture].state = "opening"
  /\ IF Stopping \/ ~Streaming
     THEN /\ capture' = [capture EXCEPT ![update.capture].state = "closing"]
          /\ update' = [update EXCEPT !.step = "discarding"]
          /\ UNCHANGED <<app, viewer, publisher>>
     ELSE Activated(update.capture)

\* With the settings it had, once; then the app has failed.
CaptureRefused ==
  /\ update.step \in {"opening", "reopening"}
  /\ LET caps == [capture EXCEPT ![update.capture].state = "closed"]
     IN  IF Stopping \/ update.step = "reopening"
         THEN /\ capture' = caps
              /\ update' = [step |-> "idle", capture |-> 0]
              /\ app' = IF Stopping THEN app ELSE [Terminal(app) EXCEPT !.ownEnd = TRUE]
              /\ viewer' = Gone
              /\ publisher' = [publisher EXCEPT !.open = FALSE]
         ELSE /\ \E c \in NextCapture :
                   /\ capture' = [caps EXCEPT ![c].state = "opening"]
                   /\ update' = [step |-> "reopening", capture |-> c]
              /\ UNCHANGED <<app, viewer, publisher>>

Discarded ==
  /\ update.step = "discarding" /\ capture[update.capture].state = "closed"
  /\ update' = [step |-> "idle", capture |-> 0]
  /\ UNCHANGED <<app, capture, viewer, publisher>>

-----------------------------------------------------------------------------
(* publisherFor.                                                            *)

PublisherAsked ==
  /\ ~Stopping /\ Streaming /\ ~publisher.open /\ publisher.task = "none"
  /\ publisher' = [publisher EXCEPT !.task = "current"]
  /\ UNCHANGED <<app, capture, viewer, update>>

BugPublisherOpens ==
  /\ publisher.task # "none"
  /\ publisher' = [task |-> "none", open |-> publisher.task = "current"]
  /\ UNCHANGED <<app, capture, viewer, update>>
PublisherOpens ==
  /\ publisher.task # "none"
  /\ publisher' = [task |-> "none", open |-> publisher.task = "current" /\ ~Stopping /\ Streaming]
  /\ UNCHANGED <<app, capture, viewer, update>>

-----------------------------------------------------------------------------

StopRequested ==
  /\ ~Stopping
  /\ app' = [app EXCEPT !.stop = "waiting", !.closes = app.session, !.restarting = FALSE,
                        !.pending = FALSE, !.status = IF @ = "streaming" THEN "stopped" ELSE @]
  /\ capture' = Closing(capture, app.session)
  /\ viewer' = Gone
  /\ publisher' = [publisher EXCEPT !.open = FALSE]
  /\ UNCHANGED update

\* stopTask: the settings, the uploader, the session and the device state.
StopFinishes ==
  /\ app.stop = "waiting" /\ update.step = "idle" /\ capture[app.closes].state = "closed"
  /\ app' = [app EXCEPT !.stop = "done"]
  /\ UNCHANGED <<capture, viewer, update, publisher>>

CaptureNext ==
  \/ \E v \in Viewers : ViewerAttaches(v) \/ ViewerLeaves(v) \/ ViewerAsks(v)
  \/ \E c \in Captures : \/ FrameRead(c) \/ ConfigRead(c) \/ SessionRead(c)
                        \/ CaptureFails(c) \/ EndRead(c) \/ CaptureCloses(c)
  \/ CooldownEnds \/ UpdateBegins \/ UpdateOpens \/ CaptureReady \/ CaptureRefused \/ Discarded
  \/ PublisherAsked \/ PublisherOpens
  \/ StopRequested \/ StopFinishes

-----------------------------------------------------------------------------

\* updateStreamEncoderSettings, activateCapture: the device never has two captures, and
\* when the app has stopped it has none, nor viewers, nor a publisher that came up late.
StoppedLeavesNothing ==
  /\ \A c, d \in OpenCaptures : c = d
  /\ app.stop = "done" => \A c \in Captures : capture[c].state \in {"unborn", "closed"}
  /\ ~Streaming => Watching = {} /\ ~publisher.open /\ ~app.pending

\* requestVideoReset, dropUntilKeyFrame: a viewer that waits for a key frame has had one
\* asked for since the last one, or the end of the cooldown will.
AwaitingIsAskedFor ==
  Streaming /\ ~app.restarting =>
    \A v \in Watching : viewer[v].awaiting => app.pending \/ app.asked

\* sendFrame, activateCapture: what a viewer is sent it can decode, through back-pressure,
\* rotations and changes of settings.
NothingIsTorn == ~app.torn

\* startCaptureReader: the app fails only when the capture it has fails, or none opens; the
\* end of one it replaced means nothing.
EndsOfItsOwn == app.status = "error" => app.ownEnd
=============================================================================

------------------------------ MODULE AppRequests ------------------------------
(***************************************************************************)
(* The requests of one app of the middleware. They share the app's capture *)
(* with the changes of the stream's settings, which close the capture and  *)
(* open another one while gestures are under way, with the replay of a     *)
(* recording and with the WebRTC publisher that starts on demand.          *)
(*                                                                         *)
(* Source: middleware.ts (createAppInternal).                              *)
(* Two clients make one request each. What an adb command sets is in       *)
(* SessionRequests, what the capture delivers in CaptureApp, the recorder  *)
(* and the route in DeviceServices, uploads in Uploads.                    *)
(***************************************************************************)
EXTENDS Naturals, Sequences, FiniteSets

CONSTANTS
  Callers,        \* each makes one request
  MaxAppGenerations  \* the generation counter's bound

ASSUME AppRequestsAssumption == MaxAppGenerations \in Nat

VARIABLES
  stream,     \* status, sessionGeneration, captureRestarting, the step of an update
  updates,    \* the chain of stream settings updates, the head is under way
  replaying,  \* of the recorder: "none", "running", "cancelling"
  peering,    \* webRtcPublisher, the generation of webRtcPublisherTask, its peers
  handler     \* [Clients -> the request's handler]

appRequestsVars == <<stream, updates, replaying, peering, handler>>

Unasked == [step |-> "idle", kind |-> "none", gen |-> 0, carried |-> FALSE, behind |-> {},
            aborted |-> FALSE, answer |-> "none"]

AppRequestsInit ==
  /\ stream = [status |-> "streaming", gen |-> 1, restarting |-> FALSE, step |-> "none"]
  /\ updates = <<>>
  /\ replaying = "none"
  /\ peering = [open |-> FALSE, task |-> 0, peers |-> {}]
  /\ handler = [c \in Callers |-> Unasked]

AppStreams == stream.status = "streaming"
Calls(c, next) == handler' = [handler EXCEPT ![c] = next]
Told(c, answer) == [handler[c] EXCEPT !.step = "answered", !.answer = answer]
Steps(c, step) == [handler[c] EXCEPT !.step = step]
Handles(c, next) == Calls(c, next) /\ UNCHANGED <<stream, updates, replaying, peering>>

-----------------------------------------------------------------------------
(* The routes, as far as the first wait.                                    *)

Asks(c, kind, step) ==
  handler[c].step = "idle" /\ Handles(c, [Unasked EXCEPT !.kind = kind, !.step = step])
\* What needs no wait is answered at once, as is a request with another
\* method, from another origin or of another media type.
AtOnce(c, answer) ==
  /\ handler[c].step = "idle"
  /\ Handles(c, [Unasked EXCEPT !.kind = "described", !.step = "answered", !.answer = answer])
Refuses(c) == AtOnce(c, "refused")
\* A GET of the device waits for an adb command, a POST for its body.
ReadRoute(c) == Asks(c, "command", "asking") \/ Refuses(c)
PostRoute(c, kind) == Asks(c, kind, "body") \/ Refuses(c)
DeviceRoute(c) == ReadRoute(c) \/ PostRoute(c, "command")

AppDevicesRoute(c) == ReadRoute(c)
AppNetworkRoute(c) == DeviceRoute(c)
AppFontScaleRoute(c) == DeviceRoute(c)
AppReduceMotionRoute(c) == DeviceRoute(c)
AppHighTextContrastRoute(c) == DeviceRoute(c)
AppFontWeightRoute(c) == DeviceRoute(c)
AppDisplayDensityRoute(c) == DeviceRoute(c)
AppOrientationRoute(c) == DeviceRoute(c)
AppScreenshotRoute(c) == ReadRoute(c)
AppForegroundRoute(c) == ReadRoute(c)
AppAccessibilityRoute(c) == ReadRoute(c)
AppCommandRoute(c) == PostRoute(c, "command")
\* The whole process waits for the commands that read and set the night mode.
AppNightModeRoute(c) ==
  (\E answer \in {"ok", "failed"} : AtOnce(c, answer)) \/ PostRoute(c, "described")
\* A new location stops the route; the route's own requests are DeviceServices'.
AppLocationRoute(c) == AtOnce(c, "ok") \/ PostRoute(c, "command")
AppRouteRoute(c) == AtOnce(c, "ok") \/ PostRoute(c, "command")
AppRouteControlRoute(c) == PostRoute(c, "described")
AppGestureRoute(c) == PostRoute(c, "gesture")
AppKeyRoute(c) == PostRoute(c, "gesture")
AppReplayRoute(c) == PostRoute(c, "replay")
AppSettingsRoute(c) == PostRoute(c, "settings")
\* A preflight is answered at once.
OfferRoute(c) == AtOnce(c, "ok") \/ PostRoute(c, "offer")
CloseRoute(c) == AtOnce(c, "ok") \/ PostRoute(c, "close")

AppStatsRoute(c) == AtOnce(c, "ok") \/ Refuses(c)
AppStatusRoute(c) == AtOnce(c, "ok")
AppHealthRoute(c) == AtOnce(c, IF AppStreams THEN "ok" ELSE "failed")
AppSessionRoute(c) == AtOnce(c, "ok") \/ Refuses(c)
AppLogcatRoute(c) == AtOnce(c, "ok") \/ Refuses(c)

\* The settings that are read are those of no update known to be under way.
AppSettingsRead(c) ==
  /\ handler[c].step = "idle"
  /\ Handles(c, [Unasked EXCEPT !.kind = "read", !.step = "awaiting",
                   !.behind = {updates[i] : i \in DOMAIN updates}])
AppSettingsTold(c) ==
  /\ handler[c].step = "awaiting"
  /\ handler[c].behind \cap {updates[i] : i \in DOMAIN updates} = {}
  /\ Handles(c, Told(c, "ok"))

\* cancelAndWait.
AppReplayStopRoute(c) ==
  \/ Refuses(c)
  \/ /\ handler[c].step = "idle"
     /\ Calls(c, [Unasked EXCEPT !.kind = "stopReplay", !.step = "ending"])
     /\ replaying' = IF replaying = "none" THEN "none" ELSE "cancelling"
     /\ UNCHANGED <<stream, updates, peering>>

\* dispatchGesture as far as the completion it waits for.
GestureQueues(c) ==
  IF ~AppStreams \/ stream.restarting THEN Told(c, "failed")
  ELSE [handler[c] EXCEPT !.step = "queued", !.kind = "gesture", !.gen = stream.gen]
\* A message of a viewer's socket is a gesture too.
MessageOfViewer(c) == handler[c].step = "idle" /\ Handles(c, GestureQueues(c))

-----------------------------------------------------------------------------
(* The body is there.                                                       *)

BugReplayStarts(c) ==
  IF replaying # "none" \/ ~AppStreams THEN Handles(c, Told(c, "conflict"))
  ELSE replaying' = "running" /\ Calls(c, Told(c, "ok")) /\ UNCHANGED <<stream, updates, peering>>
ReplayStarts(c) ==
  IF stream.restarting \/ replaying # "none" \/ ~AppStreams THEN Handles(c, Told(c, "conflict"))
  ELSE replaying' = "running" /\ Calls(c, Told(c, "ok")) /\ UNCHANGED <<stream, updates, peering>>

\* publisherFor: one that is there, one that is starting, or a new one.
AppOfferArrives(c) ==
  IF ~AppStreams THEN Handles(c, Told(c, "failed"))
  ELSE /\ peering' = IF peering.open THEN [peering EXCEPT !.peers = @ \cup {c}]
                       ELSE [peering EXCEPT !.task = IF @ = 0 THEN stream.gen ELSE @]
       /\ Calls(c, Steps(c, IF peering.open THEN "offering" ELSE "publisher"))
       /\ UNCHANGED <<stream, updates, replaying>>

Closed(c) ==
  IF peering.open
  THEN \E peer \in Callers : peering' = [peering EXCEPT !.peers = @ \ {peer}]
                             /\ Calls(c, Told(c, "ok")) /\ UNCHANGED <<stream, updates, replaying>>
  ELSE Handles(c, IF peering.task = 0 THEN Told(c, "ok") ELSE Steps(c, "publisher"))

\* Its update waits for those before it.
SettingsAreChained(c) ==
  /\ updates' = Append(updates, c)
  /\ Calls(c, Steps(c, "chained"))
  /\ UNCHANGED <<stream, replaying, peering>>

\* It is too long, no JSON or not what the route takes.
BodyRefused(c) == Handles(c, Told(c, "refused"))
GestureBodyRead(c) == Handles(c, GestureQueues(c))
CommandBodyRead(c) == Handles(c, Steps(c, "asking"))
AppBodyRead(c) ==
  /\ handler[c].step = "body"
  /\ \/ BodyRefused(c)
     \/ CASE handler[c].kind = "command" -> CommandBodyRead(c)
          [] handler[c].kind = "gesture" -> GestureBodyRead(c)
          [] handler[c].kind = "replay" -> ReplayStarts(c)
          [] handler[c].kind = "settings" -> SettingsAreChained(c)
          [] handler[c].kind = "offer" -> AppOfferArrives(c)
          [] handler[c].kind = "close" -> Closed(c)
          [] OTHER -> Handles(c, Told(c, "ok"))

\* Nothing asks whether the app still streams.
AppCommandEnds(c) ==
  handler[c].step = "asking" /\ \E answer \in {"ok", "failed"} : Handles(c, Told(c, answer))

-----------------------------------------------------------------------------
(* Gestures.                                                                *)

\* The completion settles; what waits for it goes on after whatever is due.
AppGestureSettles(c) ==
  /\ handler[c].step = "queued"
  /\ \E carried \in BOOLEAN :
       Handles(c, [handler[c] EXCEPT !.step = "settled", !.carried = carried])
BugAppGestureEnds(c) ==
  /\ handler[c].step = "settled"
  /\ Handles(c, Told(c, IF handler[c].carried THEN "ok" ELSE "failed"))
AppGestureEnds(c) ==
  /\ handler[c].step = "settled"
  /\ Handles(c, Told(c, IF handler[c].carried /\ handler[c].gen = stream.gen /\ ~stream.restarting
                        THEN "ok" ELSE "failed"))

AppReplayEnds ==
  /\ replaying # "none" /\ replaying' = "none"
  /\ UNCHANGED <<stream, updates, peering, handler>>
AppReplayStopped(c) ==
  handler[c].step = "ending" /\ replaying = "none" /\ Handles(c, Told(c, "ok"))

-----------------------------------------------------------------------------
(* updateStreamEncoderSettings.                                             *)

\* The update at the head of the chain is over, the next one may begin.
BugUpdated(answer) ==
  /\ Calls(Head(updates), Told(Head(updates), answer))
  /\ updates' = IF answer = "unavailable" THEN updates ELSE Tail(updates)
Updated(answer) ==
  /\ Calls(Head(updates), Told(Head(updates), answer))
  /\ updates' = Tail(updates)

SettingsUpdateBegins ==
  /\ updates # <<>> /\ stream.step = "none"
  /\ \/ /\ ~AppStreams /\ Updated("unavailable") /\ UNCHANGED stream
     \/ /\ AppStreams /\ Updated("ok") /\ UNCHANGED stream            \* nothing would change
     \/ /\ AppStreams /\ replaying # "none" /\ Updated("conflict") /\ UNCHANGED stream
     \/ /\ AppStreams /\ replaying = "none" /\ stream.gen + 2 <= MaxAppGenerations
        /\ stream' = [stream EXCEPT !.restarting = TRUE, !.gen = @ + 1, !.step = "closing"]
        /\ UNCHANGED <<updates, handler>>
  /\ UNCHANGED <<replaying, peering>>
PreviousCloses ==
  /\ stream.step = "closing"
  /\ \E step \in {"replacing", "rollback"} : stream' = [stream EXCEPT !.step = step]
  /\ UNCHANGED <<updates, replaying, peering, handler>>

AppFallen(a) == [a EXCEPT !.status = "error", !.restarting = FALSE]
NoPublisher == [peering EXCEPT !.open = FALSE, !.peers = {}]
Cancelled == IF replaying = "none" THEN "none" ELSE "cancelling"

\* A capture that comes up too late is closed. The rollback that fails ends
\* the app.
ReplacementOpens ==
  /\ stream.step \in {"replacing", "rollback"}
  /\ LET first == stream.step = "replacing"
         over == [stream EXCEPT !.step = "none"]
     IN  \/ /\ AppStreams /\ Updated(IF first THEN "ok" ELSE "failed")
            /\ stream' = [over EXCEPT !.gen = @ + 1, !.restarting = FALSE]
            /\ UNCHANGED <<replaying, peering>>
         \/ /\ ~AppStreams /\ Updated("unavailable") /\ stream' = over
            /\ UNCHANGED <<replaying, peering>>
         \/ /\ AppStreams /\ first /\ stream' = [stream EXCEPT !.step = "rollback"]
            /\ UNCHANGED <<updates, handler, replaying, peering>>
         \/ /\ AppStreams /\ ~first /\ Updated("failed") /\ stream' = AppFallen(over)
            /\ replaying' = Cancelled /\ peering' = NoPublisher

\* markTerminal and stop.
AppEnds ==
  /\ AppStreams
  /\ \E status \in {"error", "stopped"} : stream' = [AppFallen(stream) EXCEPT !.status = status]
  /\ stream.step # "none" => stream'.status = "stopped"     \* the reader of a closed capture is silent
  /\ replaying' = Cancelled
  /\ peering' = NoPublisher
  /\ UNCHANGED <<updates, handler>>

-----------------------------------------------------------------------------
(* WebRTC signaling.                                                        *)

\* A publisher that comes up for another capture is closed, and those who
\* wait for it are refused.
AppPublisherOpens ==
  /\ peering.task # 0
  /\ LET offers == {c \in Callers : handler[c].step = "publisher" /\ handler[c].kind = "offer"}
         closes == {c \in Callers : handler[c].step = "publisher" /\ handler[c].kind = "close"}
         Answer(up) == [c \in Callers |->
           IF c \in closes THEN Told(c, "ok")
           ELSE IF c \in offers THEN (IF up THEN Steps(c, "offering") ELSE Told(c, "failed"))
           ELSE handler[c]]
     IN  \/ /\ peering.task = stream.gen /\ AppStreams
            /\ peering' = [open |-> TRUE, task |-> 0, peers |-> offers]
            /\ handler' = Answer(TRUE)
         \/ /\ peering' = [peering EXCEPT !.task = 0]
            /\ handler' = Answer(FALSE)
  /\ UNCHANGED <<stream, updates, replaying>>

\* The answer is ready, or the offer has failed. A client that has gone
\* meanwhile leaves no peer.
BugOfferEnds(c) ==
  /\ handler[c].step = "offering"
  /\ \/ c \in peering.peers /\ Calls(c, Told(c, IF handler[c].aborted THEN "gone" ELSE "ok"))
        /\ UNCHANGED peering
     \/ Calls(c, Told(c, "failed")) /\ peering' = [peering EXCEPT !.peers = @ \ {c}]
  /\ UNCHANGED <<stream, updates, replaying>>
OfferEnds(c) ==
  /\ handler[c].step = "offering"
  /\ \/ c \in peering.peers /\ ~handler[c].aborted /\ Calls(c, Told(c, "ok")) /\ UNCHANGED peering
     \/ /\ Calls(c, Told(c, IF handler[c].aborted THEN "gone" ELSE "failed"))
        /\ peering' = [peering EXCEPT !.peers = @ \ {c}]
  /\ UNCHANGED <<stream, updates, replaying>>
ClientGone(c) ==
  /\ handler[c].kind = "offer" /\ handler[c].step # "answered" /\ ~handler[c].aborted
  /\ Handles(c, [handler[c] EXCEPT !.aborted = TRUE])

AppRoutes(c) ==
  \/ AppDevicesRoute(c) \/ AppNetworkRoute(c) \/ AppFontScaleRoute(c) \/ AppReduceMotionRoute(c)
  \/ AppHighTextContrastRoute(c) \/ AppFontWeightRoute(c) \/ AppDisplayDensityRoute(c)
  \/ AppOrientationRoute(c) \/ AppScreenshotRoute(c) \/ AppForegroundRoute(c)
  \/ AppAccessibilityRoute(c) \/ AppCommandRoute(c) \/ AppNightModeRoute(c) \/ AppLocationRoute(c)
  \/ AppRouteRoute(c) \/ AppRouteControlRoute(c) \/ AppGestureRoute(c) \/ AppKeyRoute(c)
  \/ AppReplayRoute(c) \/ AppSettingsRoute(c) \/ OfferRoute(c) \/ CloseRoute(c)
  \/ AppStatsRoute(c) \/ AppStatusRoute(c) \/ AppHealthRoute(c) \/ AppSessionRoute(c)
  \/ AppLogcatRoute(c) \/ AppSettingsRead(c) \/ AppReplayStopRoute(c) \/ MessageOfViewer(c)

AppRequestsNext ==
  \/ \E c \in Callers :
       \/ AppRoutes(c) \/ AppSettingsTold(c) \/ AppBodyRead(c) \/ AppCommandEnds(c)
       \/ AppGestureSettles(c) \/ AppGestureEnds(c) \/ AppReplayStopped(c)
       \/ OfferEnds(c) \/ ClientGone(c)
  \/ AppReplayEnds \/ SettingsUpdateBegins \/ PreviousCloses \/ ReplacementOpens \/ AppEnds
  \/ AppPublisherOpens

-----------------------------------------------------------------------------
(* Properties.                                                              *)

\* updateStreamEncoderSettings and /api/session/replay exclude each other: a
\* replay never goes on while its capture is closed under it.
ReplayKeepsItsCapture == replaying # "none" => ~stream.restarting

\* dispatchGesture: a gesture is reported, and recorded, as done only if the
\* capture the client sees is the one that carried it out, all the while.
DoneIsOfThisCapture ==
  \A c \in Callers :
    handler'[c].kind = "gesture" /\ handler'[c].answer = "ok" /\ handler[c].answer = "none"
    => handler[c].carried /\ handler[c].gen = stream'.gen /\ ~stream'.restarting

\* Whatever a request waits for is still to come: its update's turn, the
\* updates before it, the end of the replay, the start of the publisher.
NobodyIsForgotten ==
  \A c \in Callers :
    /\ handler[c].step = "chained" =>
         \E i \in DOMAIN updates : updates[i] = c
                                   /\ \A j \in 1..i : handler[updates[j]].step = "chained"
    /\ handler[c].step = "awaiting" =>
         \A d \in handler[c].behind : handler[d].step \in {"chained", "answered"}
    /\ handler[c].step = "publisher" => peering.task # 0

\* /webrtc/offer: a peer of the publisher is one whose client has its answer
\* or waits for it, and an app that has ended keeps none.
PeersAreWanted ==
  /\ \A c \in peering.peers : handler[c].step = "offering" \/ handler[c].answer = "ok"
  /\ ~AppStreams => peering.peers = {} /\ ~peering.open
=============================================================================

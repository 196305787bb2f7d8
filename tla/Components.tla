----------------------------- MODULE Components -----------------------------
(***************************************************************************)
(* The components that share no state with the device session or with each *)
(* other, as one system: a behaviour is a behaviour of one of them (part), *)
(* the others keep their initial state. What each of them promises is      *)
(* stated here once for all of them: that nothing is left behind, that     *)
(* nothing is stranded, that what is handed on is whole, and that what is  *)
(* stale is ignored.                                                       *)
(***************************************************************************)
EXTENDS Integers, Sequences, FiniteSets,
        DeviceServices, LogcatHub, RequestBodies, GrpcChannel, StreamFraming, CaptureApp,
        SessionRequests, AppRequests, EncoderOutput, ScreenshotRegion, CameraFeeds,
        ViewerWorker, ViewerMse, ViewerWebRtc, ViewerPolling

VARIABLE part   \* the component that runs

Parts == {"services", "logcat", "bodies", "grpc stream", "grpc input", "grpc geometry", "framing",
          "capture", "session requests", "app requests", "encoder", "region", "camera",
          "worker", "mse", "webrtc", "poll", "panel"}

vars == <<part, servicesVars, hubVars, bodiesVars, channelVars, framingVars, captureVars,
          requestsVars, appRequestsVars, encoderVars, regionVars, cameraVars,
          viewerWorkerVars, mseVars, viewerWebRtcVars, pollingVars>>

Init ==
  /\ part \in Parts
  /\ ServicesInit /\ HubInit /\ BodiesInit /\ ChannelInit /\ FramingInit /\ CaptureInit
  /\ RequestsInit /\ AppRequestsInit /\ EncoderInit /\ RegionInit /\ CameraInit
  /\ ViewerWorkerInit /\ MseInit /\ ViewerWebRtcInit /\ PollInit /\ PanelInit
  /\ part # "poll" => poll.interval    \* its two initial states matter to "poll" only

\* The components that do not run keep their state.
OthersUnchanged ==
  /\ UNCHANGED part
  /\ part # "services" => UNCHANGED servicesVars
  /\ part # "logcat" => UNCHANGED hubVars
  /\ part # "bodies" => UNCHANGED bodiesVars
  /\ part \notin {"grpc stream", "grpc input", "grpc geometry"} => UNCHANGED channelVars
  /\ part # "framing" => UNCHANGED framingVars
  /\ part # "capture" => UNCHANGED captureVars
  /\ part # "session requests" => UNCHANGED requestsVars
  /\ part # "app requests" => UNCHANGED appRequestsVars
  /\ part # "encoder" => UNCHANGED encoderVars
  /\ part # "region" => UNCHANGED regionVars
  /\ part # "camera" => UNCHANGED cameraVars
  /\ part # "worker" => UNCHANGED viewerWorkerVars
  /\ part # "mse" => UNCHANGED mseVars
  /\ part # "webrtc" => UNCHANGED viewerWebRtcVars
  /\ part # "poll" => UNCHANGED pollVars
  /\ part # "panel" => UNCHANGED panelVars

ServicesRun == part = "services" /\ ServicesNext /\ OthersUnchanged
LogcatRuns == part = "logcat" /\ HubNext /\ OthersUnchanged
BodiesRun == part = "bodies" /\ BodiesNext /\ OthersUnchanged
GrpcStreamRuns == part = "grpc stream" /\ StreamNext /\ OthersUnchanged
GrpcInputRuns == part = "grpc input" /\ InputNext /\ OthersUnchanged
GrpcGeometryRuns == part = "grpc geometry" /\ GeometryNext /\ OthersUnchanged
FramingRuns == part = "framing" /\ FramingNext /\ OthersUnchanged
CaptureRuns == part = "capture" /\ CaptureNext /\ OthersUnchanged
SessionRequestsRun == part = "session requests" /\ RequestsNext /\ OthersUnchanged
AppRequestsRun == part = "app requests" /\ AppRequestsNext /\ OthersUnchanged
EncoderRuns == part = "encoder" /\ EncoderNext /\ OthersUnchanged
RegionRuns == part = "region" /\ RegionNext /\ OthersUnchanged
CameraRuns == part = "camera" /\ CameraNext /\ OthersUnchanged
WorkerRuns == part = "worker" /\ ViewerWorkerNext /\ OthersUnchanged
MseRuns == part = "mse" /\ MseNext /\ OthersUnchanged
WebRtcRuns == part = "webrtc" /\ ViewerWebRtcNext /\ OthersUnchanged
PollRuns == part = "poll" /\ PollNext /\ OthersUnchanged
PanelRuns == part = "panel" /\ PanelNext /\ OthersUnchanged

Next ==
  \/ ServicesRun \/ LogcatRuns \/ BodiesRun
  \/ GrpcStreamRuns \/ GrpcInputRuns \/ GrpcGeometryRuns \/ FramingRuns \/ CaptureRuns
  \/ SessionRequestsRun \/ AppRequestsRun \/ EncoderRuns \/ RegionRuns \/ CameraRuns
  \/ WorkerRuns \/ MseRuns \/ WebRtcRuns \/ PollRuns \/ PanelRuns

Spec == Init /\ [][Next]_vars

-----------------------------------------------------------------------------
(* Properties. Each conjunct is defined, with the code it is about, in the *)
(* module of the component.                                                *)

\* What ends gives back what it held: a disposed recorder and route leave no
\* timer, gesture or location command; the last subscriber of logcat takes its
\* child process with it; a refused upload leaves no staged file; what the
\* input holds down on the emulator is known, so that the release finds it; the
\* end of the scrcpy stream is told to every reader; a stopped app leaves no
\* capture or publisher; a viewer's sessions it left are closed or aborted; an
\* AVD start that failed has no emulator; a closed encoder leaves no ffmpeg; a
\* closed region of screenshots leaves no file, a camera's image no staging file
\* without a writer; a torn down player leaves no link; peers of WebRTC are those
\* of an open request or of an answered one.
NothingLeftBehind ==
  /\ DisposedIsQuiet
  /\ HubLeavesNothing
  /\ StagingLeavesNothing
  /\ HeldIsKnown
  /\ EndIsTold
  /\ StoppedLeavesNothing
  /\ LeftSessionsAreClosed
  /\ FailedStartIsUndone
  /\ CloseLeavesNoProcess
  /\ RegionIsRemoved
  /\ FeedStagingIsOwned
  /\ PlayerHasItsLink
  /\ PeersAreWanted

\* Whatever waits has something under way that will move it on: a live route
\* its timer or its location command, a logcat subscriber its child and a
\* source that reads, an emulator stream its inactivity timer, a viewer that
\* awaits a key frame the request for one, the browser's worker, effect, WebRTC
\* run, poll and panel their next try, a player its next chunk and key frame, and
\* a request that queued behind an update or a publisher the task that answers.
NothingStranded ==
  /\ RouteKeepsMoving
  /\ SubscribersAreFed
  /\ LinesAreOnTheirWay
  /\ StreamIsWatched
  /\ AwaitingIsAskedFor
  /\ WorkerKeepsTrying
  /\ DroppingIsAskedFor
  /\ EffectIsConnected
  /\ PictureIsPursued
  /\ EveryGenerationIsPolled
  /\ PanelIsRefreshed
  /\ ChunksAreOnTheirWay
  /\ KeyFrameIsComing
  /\ NobodyIsForgotten

\* What one component hands to the next has no part missing and none of
\* another: the recorder's bytes and events agree, lines, bodies, staged files,
\* packets and captures are not torn, the encoder's pictures have the time of
\* their image and are held back no longer than until the next has begun, a
\* screenshot is what its region held at one moment and no older than what it is
\* announced by, a camera's file is all of an image, an answered setting is the
\* one the device has, and a player is fed the packets of one capture.
WhatIsHandedOnIsWhole ==
  /\ RecorderKeepsItsBooks
  /\ LinesAreWhole
  /\ BodyIsWhole
  /\ StagedIsWhole
  /\ PacketsAreWhole
  /\ NothingIsTorn
  /\ PicturesKeepTheirTime
  /\ PicturesAreNotHeldBack
  /\ ImageIsOfOneMoment
  /\ MetadataIsNewest
  /\ CamerasAreNeverMagenta
  /\ AnsweredIsSet
  /\ PlayerIsOfOneCapture

\* What belongs to what was replaced in the meantime is neither shown, nor
\* counted, nor answered: the end of an earlier capture, the pictures and the
\* health of an earlier stream, geometry read before a rotation, a replay of
\* an earlier capture, a poll that began before the change it would undo, a copy
\* of a stopped transport, and a camera's image for a session that was replaced.
CurrentIsShown ==
  /\ EndsOfItsOwn
  /\ ShownIsCurrent
  /\ DrawnIsCurrent
  /\ HealthIsOfThisSession
  /\ GeometryIsFresh
  /\ LiveIsConnected
  /\ ReplayKeepsItsCapture
  /\ MutatesItsOwnSession

StaleIsIgnored ==
  /\ []CurrentIsShown
  /\ [][/\ ReplayIsWanted /\ ReportedByCurrentRoute
        /\ PictureNeverGoesBack /\ GeometryNeverStale
        /\ PageNeverGoesBack
        /\ StoppedHandsOnNothing
        /\ AnswersAreCurrent /\ KilledIsNotStreaming
        /\ DoneIsOfThisCapture]_vars
=============================================================================

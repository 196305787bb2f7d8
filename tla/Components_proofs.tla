--------------------------- MODULE Components_proofs ---------------------------
(***************************************************************************)
(* Proofs about Components, for any values of its constants. The           *)
(* invariants of the components are in Devices_proofs and Viewers_proofs;  *)
(* here is what follows for all of them together: a step is a step of one  *)
(* component, and the others stand still.                                  *)
(***************************************************************************)
EXTENDS Components, Devices_proofs, Viewers_proofs

-----------------------------------------------------------------------------
(* The components together. A step is a step of one of them, and the others *)
(* stand still.                                                             *)

LEMMA EachStepsOrStays ==
  ASSUME [Next]_vars
  PROVE  /\ ServicesNext \/ UNCHANGED servicesVars
         /\ HubNext \/ UNCHANGED hubVars
         /\ BodiesNext \/ UNCHANGED bodiesVars
         /\ StreamNext \/ InputNext \/ GeometryNext \/ UNCHANGED channelVars
         /\ FramingNext \/ UNCHANGED framingVars
         /\ CaptureNext \/ UNCHANGED captureVars
         /\ RequestsNext \/ UNCHANGED requestsVars
         /\ AppRequestsNext \/ UNCHANGED appRequestsVars
         /\ EncoderNext \/ UNCHANGED encoderVars
         /\ RegionNext \/ UNCHANGED regionVars
         /\ CameraNext \/ UNCHANGED cameraVars
         /\ ViewerWorkerNext \/ UNCHANGED viewerWorkerVars
         /\ MseNext \/ UNCHANGED mseVars
         /\ ViewerWebRtcNext \/ UNCHANGED viewerWebRtcVars
         /\ PollNext \/ UNCHANGED pollVars
         /\ PanelNext \/ UNCHANGED panelVars
<1>1. CASE UNCHANGED vars BY <1>1 DEF vars, pollingVars
<1>2. CASE Next
  BY <1>2
  DEF Next, OthersUnchanged, ServicesRun, LogcatRuns, BodiesRun, GrpcStreamRuns, GrpcInputRuns,
      GrpcGeometryRuns, FramingRuns, CaptureRuns, SessionRequestsRun, AppRequestsRun, EncoderRuns,
      RegionRuns, CameraRuns, WorkerRuns, MseRuns, WebRtcRuns, PollRuns, PanelRuns
<1> QED BY <1>1, <1>2

ComponentsInv ==
  /\ ServicesInv /\ AdmissionOK /\ RecorderOK(recorder) /\ HubInv /\ BodiesInv
  /\ InputInv /\ WatchInv /\ GeometryInv /\ FramingInv /\ CaptureInv
  /\ SettingsInv /\ WaitingInv /\ EncoderInv /\ OutputInv /\ RegionInv /\ CameraInv
  /\ ViewerInv /\ FeedInv /\ WebRtcInv /\ PeerOK(rtc) /\ PollingInv /\ PanelInv

\* A step of any component keeps the invariant of each, and what is said of steps.
LEMMA ServicesSteps ==
  ASSUME ServicesInv, AdmissionOK, RecorderOK(recorder), [Next]_vars
  PROVE  /\ ServicesInv' /\ AdmissionOK' /\ RecorderOK(recorder')
         /\ ReplayIsWanted /\ ReportedByCurrentRoute
<1>1. AdmittedInv /\ recorder \in RecorderRecord(recorder) BY DEF ServicesInv, AdmittedInv
<1>2. AdmissionOK' /\ ReplayStep /\ LocationStep
  BY <1>1, EachStepsOrStays, AdmissionGoesOn, AdmissionStays
<1>3. RecorderOK(recorder') BY <1>1, EachStepsOrStays, RecorderGoesOn, RecorderStays
<1> QED BY <1>2, <1>3, EachStepsOrStays, ServicesGoOn, ServicesStay, StepsAreAdmitted

LEMMA ChannelSteps ==
  ASSUME WatchInv, GeometryInv, [Next]_vars
  PROVE  WatchInv' /\ GeometryInv' /\ PictureNeverGoesBack /\ GeometryNeverStale
BY EachStepsOrStays, WatchGoesOn, GeometryGoesOn, ChannelStays

LEMMA SettingsSteps ==
  ASSUME SettingsInv, [Next]_vars
  PROVE  SettingsInv' /\ AnswersAreCurrent /\ KilledIsNotStreaming
BY EachStepsOrStays, SettingsGoOn, SettingsStay

LEMMA WaitingSteps == ASSUME WaitingInv, [Next]_vars PROVE WaitingInv' /\ DoneIsOfThisCapture
BY EachStepsOrStays, WaitingGoesOn, WaitingStays

LEMMA RegionSteps == ASSUME RegionInv, [Next]_vars PROVE RegionInv' /\ StoppedHandsOnNothing
BY EachStepsOrStays, RegionGoesOn, RegionStays

LEMMA WebRtcSteps ==
  ASSUME WebRtcInv, PeerOK(rtc), [Next]_vars
  PROVE  WebRtcInv' /\ PeerOK(rtc')
<1>1. rtc \in RunRecord BY DEF WebRtcInv, RunOK
<1> QED BY <1>1, EachStepsOrStays, WebRtcGoesOn, WebRtcStays, PeerGoesOn, PeerStays

LEMMA PanelSteps == ASSUME PanelInv, [Next]_vars PROVE PanelInv' /\ PageNeverGoesBack
BY EachStepsOrStays, PanelGoesOn, PanelStays

\* What each component is built on holds from the first state on: what it has open, queued or
\* under way is accounted for in its state.
THEOREM ComponentsKeepTheirBooks == Spec => []ComponentsInv
<1>1. Init => ComponentsInv
  BY ServicesStart, AdmissionStarts, RecorderStarts, HubStarts, BodiesStart, InputStarts, ChannelStarts, FramingStarts,
     CaptureStarts, RequestsStart, CapturedStarts, SettingsStart, WaitingStarts, EncoderStarts, OutputStarts,
     RegionStarts, CamerasStart, ViewerStarts, FeedStarts, WebRtcStarts, PeerStarts, PollingStarts, PanelStarts
  DEF Init, ComponentsInv, SettingsInv, CapturedInv
<1>2. ComponentsInv /\ [Next]_vars => ComponentsInv'
  <2> SUFFICES ASSUME ComponentsInv, [Next]_vars PROVE ComponentsInv'
    OBVIOUS
  <2>1. ServicesInv' /\ AdmissionOK' /\ RecorderOK(recorder') BY ServicesSteps DEF ComponentsInv
  <2>2. HubInv' BY EachStepsOrStays, HubGoesOn, HubStays DEF ComponentsInv
  <2>3. BodiesInv' BY EachStepsOrStays, BodiesGoOn, BodiesStay DEF ComponentsInv
  <2>4. InputInv' BY EachStepsOrStays, InputGoesOn, InputStays DEF ComponentsInv
  <2>5. FramingInv' BY EachStepsOrStays, FramingGoesOn, FramingStays DEF ComponentsInv
  <2>6. CaptureInv' BY EachStepsOrStays, CaptureGoesOn, CaptureStays DEF ComponentsInv
  <2>7. SettingsInv' BY SettingsSteps DEF ComponentsInv
  <2>8. WaitingInv' BY WaitingSteps DEF ComponentsInv
  <2>9. EncoderInv' BY EachStepsOrStays, EncoderGoesOn, EncoderStays DEF ComponentsInv
  <2>18. OutputInv' BY EachStepsOrStays, OutputGoesOn, OutputStays DEF ComponentsInv
  <2>10. FeedInv' BY EachStepsOrStays, FeedGoesOn, FeedStays DEF ComponentsInv
  <2>11. WebRtcInv' /\ PeerOK(rtc') BY WebRtcSteps DEF ComponentsInv
  <2>12. WatchInv' /\ GeometryInv' BY ChannelSteps DEF ComponentsInv
  <2>13. RegionInv' BY RegionSteps DEF ComponentsInv
  <2>14. CameraInv' BY EachStepsOrStays, CameraGoesOn, CameraStays DEF ComponentsInv
  <2>15. ViewerInv' BY EachStepsOrStays, ViewerGoesOn, ViewerStays DEF ComponentsInv
  <2>16. PollingInv' BY EachStepsOrStays, PollingGoesOn, PollingStays DEF ComponentsInv
  <2>17. PanelInv' BY PanelSteps DEF ComponentsInv
  <2> QED
    BY <2>1, <2>2, <2>3, <2>4, <2>5, <2>6, <2>7, <2>8, <2>9, <2>10, <2>11, <2>12, <2>13, <2>14,
       <2>15, <2>16, <2>17, <2>18
    DEF ComponentsInv
<1> QED BY <1>1, <1>2, PTL DEF Spec

LEMMA BooksPromise ==
  ASSUME ComponentsInv
  PROVE  PeersAreWanted /\ ReplayKeepsItsCapture /\ NobodyIsForgotten
         /\ PlayerHasItsLink /\ PlayerIsOfOneCapture /\ ChunksAreOnTheirWay /\ KeyFrameIsComing
         /\ LiveIsConnected /\ PictureIsPursued /\ FailedStartIsUndone /\ AnsweredIsSet
<1>1. rtc \in RunRecord BY DEF ComponentsInv, WebRtcInv, RunOK
<1> QED
  BY <1>1, WaitingPromises, FeedPromises, PeerPromises, RequestsPromise, SettingsPromise
  DEF ComponentsInv, SettingsInv, CapturedInv

\* Whatever ends (a device state, the last logcat subscriber, a refused upload, a touch, the
\* scrcpy stream, an app, a viewer's session, an AVD start, an encoder, a region of screenshots, a
\* camera's write, a player, an offer) has given back what it held.
THEOREM NothingIsLeftBehind == Spec => []NothingLeftBehind
<1>1. ComponentsInv => NothingLeftBehind
  BY ServicesPromise, HubPromises, BodiesPromise, InputPromises, FramingPromises, CapturePromises,
     EncoderPromises, RegionPromises, CameraPromises, WebRtcPromises, BooksPromise
  DEF ComponentsInv, NothingLeftBehind
<1> QED BY <1>1, ComponentsKeepTheirBooks, PTL

\* Whatever waits is served: a route that runs has its interval, a logcat subscriber its child and
\* its lines a reader, an emulator stream its inactivity timer, a viewer that awaits a key frame
\* the request for one, the browser's worker, effect, WebRTC run, poll and panel their next try, a
\* player its key frame, a chunk the wire that brings it, and a request that queued in the app the
\* update or the publisher that answers it.
THEOREM NobodyIsStranded == Spec => []NothingStranded
<1>1. ComponentsInv => NothingStranded
  BY ServicesPromise, HubPromises, CapturePromises, ChannelPromises, ViewerPromises, PollingPromises,
     PanelPromises, BooksPromise
  DEF ComponentsInv, NothingStranded
<1> QED BY <1>1, ComponentsKeepTheirBooks, PTL

\* What a component hands on has no part missing and none of another: the recorder holds what it
\* says it holds, lines, bodies, staged files, packets and captures are not torn, a picture of the
\* encoder has the time of its own image and is handed on once the next has begun, a screenshot is
\* of one moment and no older than what it is announced by, a camera's file is all of an image, an
\* answered setting is the one the device has, and a player is fed the packets of one capture.
THEOREM WhatIsHandedOn == Spec => []WhatIsHandedOnIsWhole
<1>1. ComponentsInv => WhatIsHandedOnIsWhole
  BY RecorderPromise, HubPromises, BodiesPromise, FramingPromises, CapturePromises, OutputPromises,
     RegionPromises, CameraPromises, BooksPromise
  DEF ComponentsInv, WhatIsHandedOnIsWhole
<1> QED BY <1>1, ComponentsKeepTheirBooks, PTL

\* An app fails only by the capture it has, a viewer shows, draws and reports as healthy only what
\* is of its present stream, geometry is not older than the emulator's last word on it, a run that
\* is live is connected, a replay is of the capture it was asked for, and a camera's image of the
\* session it was sent to.
THEOREM TheCurrentIsShown == Spec => []CurrentIsShown
<1>1. ComponentsInv => CurrentIsShown
  BY CapturePromises, ViewerPromises, PollingPromises, ChannelPromises, CameraPromises, BooksPromise
  DEF ComponentsInv, CurrentIsShown
<1> QED BY <1>1, ComponentsKeepTheirBooks, PTL

\* And no step takes a picture, the geometry or a page back to an older one, replays or reports for
\* a recorder or a route that was replaced, hands on a screenshot of a stopped transport, answers a
\* request for what was replaced since, or kills the emulator that streams.
THEOREM TheStaleIsIgnored == Spec => StaleIsIgnored
<1>. DEFINE Step == /\ ReplayIsWanted /\ ReportedByCurrentRoute
                    /\ PictureNeverGoesBack /\ GeometryNeverStale
                    /\ PageNeverGoesBack
                    /\ StoppedHandsOnNothing
                    /\ AnswersAreCurrent /\ KilledIsNotStreaming
                    /\ DoneIsOfThisCapture
<1>1. ComponentsInv /\ [Next]_vars => [Step]_vars
  BY ServicesSteps, ChannelSteps, PanelSteps, RegionSteps, SettingsSteps, WaitingSteps
  DEF ComponentsInv
<1>. HIDE DEF Step
<1>2. Spec => [][Step]_vars BY <1>1, ComponentsKeepTheirBooks, PTL DEF Spec
<1> QED BY <1>2, TheCurrentIsShown DEF StaleIsIgnored, Step


=============================================================================

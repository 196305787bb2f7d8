----------------------------- MODULE Viewers_proofs -----------------------------
(***************************************************************************)
(* Proofs about the components between a page and the server: the apps'    *)
(* captures, the requests of the app and of the server; the page's own     *)
(* decoding worker, MSE player, WebRTC run, polls and panel. Each has an   *)
(* invariant of its own that its steps keep, whatever the values of its    *)
(* constants; Components_proofs composes them.                             *)
(***************************************************************************)
EXTENDS CaptureApp, AppRequests, SessionRequests, ViewerWorker, ViewerMse, ViewerWebRtc,
        ViewerPolling,
        Sums_proofs, FiniteSetTheorems, SequenceTheorems, NaturalsInduction, WellFoundedInduction, TLAPS

-----------------------------------------------------------------------------
(* CaptureApp. Of the captures only the one the app has, or the one that is *)
(* being opened in its place, is open; a capture is opened only when the    *)
(* one before it is closed. Who missed a frame awaits a key frame.          *)

CaptureRecord ==
  [state : {"unborn", "opening", "open", "ended", "closing", "closed"},
   reader : {"off", "current", "stale"}]
AppRecord ==
  [status : {"streaming", "error", "stopped"}, stop : {"none", "waiting", "done"},
   session : Captures, restarting : BOOLEAN, pending : BOOLEAN, cooling : BOOLEAN,
   asked : BOOLEAN, config : {"none", "current", "stale"}, closes : Nat, ownEnd : BOOLEAN,
   torn : BOOLEAN]
ViewerRecord == [on : BOOLEAN, awaiting : BOOLEAN, missed : BOOLEAN]
UpdateRecord == [step : {"idle", "closing", "opening", "reopening", "discarding"}, capture : Nat]

AppOK(a) ==
  /\ a \in AppRecord
  /\ a.stop # "none" => a.status # "streaming" /\ a.closes = a.session
  /\ a.status # "streaming" => ~a.pending
  /\ a.status = "error" => a.ownEnd
  /\ ~a.torn /\ a.config # "stale"

CapturesOK(caps, s, u) ==
  /\ caps \in [Captures -> CaptureRecord] /\ u \in UpdateRecord
  /\ \A c \in Captures : caps[c].state \in {"unborn", "opening"} => caps[c].reader = "off"
  /\ \A c \in Captures : caps[c].state \in {"open", "ended"} => u.step = "idle" /\ c = s
  /\ \A c \in Captures :
       caps[c].state = "opening" => u.step \in {"opening", "reopening"} /\ c = u.capture
  /\ \A c \in Captures :
       caps[c].state = "closing" => c = s \/ (u.step = "discarding" /\ c = u.capture)
  /\ caps[s].state \notin {"unborn", "opening"}
  /\ u.step = "closing" => u.capture = s
  /\ u.step \in {"opening", "reopening", "discarding"} =>
       u.capture \in Captures /\ u.capture # s /\ caps[s].state = "closed"
ReadersOK(caps, streaming) ==
  streaming => \A c \in Captures : caps[c].reader = "current" => caps[c].state \in {"open", "ended"}
StopOK(caps, a, u) ==
  /\ a.stop # "none" => caps[a.session].state \in {"closing", "closed"}
  /\ a.stop = "done" => u.step = "idle" /\ caps[a.session].state = "closed"

ViewersOK(w, a) ==
  /\ w \in [Viewers -> ViewerRecord]
  /\ \A v \in Viewers : w[v].missed => w[v].awaiting
  /\ a.status # "streaming" => \A v \in Viewers : ~w[v].on
  /\ a.status = "streaming" /\ ~a.restarting =>
       \A v \in Viewers : w[v].on /\ w[v].awaiting => a.pending \/ a.asked

CaptureInv ==
  /\ AppOK(app) /\ CapturesOK(capture, app.session, update)
  /\ ReadersOK(capture, app.status = "streaming") /\ StopOK(capture, app, update)
  /\ ViewersOK(viewer, app)
  /\ publisher \in [task : {"none", "current", "stale"}, open : BOOLEAN]
  /\ app.status # "streaming" => ~publisher.open

LEMMA CaptureStarts == CaptureInit => CaptureInv
<1>1. ASSUME CaptureInit PROVE CaptureInv
  <2>1. 1 \in Captures /\ 0 \in Nat BY CaptureAssumption DEF Captures
  <2>2. AppOK(app) /\ app.session = 1 /\ app.stop = "none" /\ app.status = "streaming"
    BY <1>1, <2>1 DEF CaptureInit, AppOK, AppRecord
  <2>3. /\ capture \in [Captures -> CaptureRecord]
        /\ capture[1].state = "open" /\ capture[1].reader = "current"
        /\ \A c \in Captures : c # 1 => capture[c].state = "unborn" /\ capture[c].reader = "off"
    BY <1>1, <2>1 DEF CaptureInit, CaptureRecord
  <2>4. update \in UpdateRecord /\ update.step = "idle" BY <1>1 DEF CaptureInit, UpdateRecord
  <2>5. /\ viewer \in [Viewers -> ViewerRecord]
        /\ \A v \in Viewers : ~viewer[v].on /\ viewer[v].awaiting
    BY <1>1 DEF CaptureInit, ViewerRecord
  <2>6. publisher \in [task : {"none", "current", "stale"}, open : BOOLEAN]
    BY <1>1 DEF CaptureInit
  <2>7. CapturesOK(capture, 1, update) BY <2>1, <2>3, <2>4 DEF CapturesOK
  <2>8. ReadersOK(capture, TRUE) BY <2>3 DEF ReadersOK
  <2>9. StopOK(capture, app, update) BY <2>2 DEF StopOK
  <2>10. ViewersOK(viewer, app) BY <2>2, <2>5 DEF ViewersOK
  <2>11. ReadersOK(capture, app.status = "streaming") BY <2>8 DEF ReadersOK
  <2> QED BY <2>2, <2>6, <2>7, <2>9, <2>10, <2>11 DEF CaptureInv
<1> QED BY <1>1

\* requestVideoReset changes what was asked for, and asks.
LEMMA ResetIs ==
  ASSUME NEW a \in AppRecord
  PROVE  LET b == ResetRequested(a)
         IN  /\ b \in AppRecord /\ b.status = a.status /\ b.stop = a.stop /\ b.session = a.session
             /\ b.restarting = a.restarting /\ b.config = a.config /\ b.closes = a.closes
             /\ b.ownEnd = a.ownEnd /\ b.torn = a.torn
             /\ a.status # "streaming" => b.pending = a.pending
             /\ a.pending \/ a.asked => b.pending \/ b.asked
             /\ a.status = "streaming" /\ ~a.restarting => b.pending \/ b.asked
<1>1. CASE a.status # "streaming" \/ a.restarting
  <2>1. ResetRequested(a) = a BY <1>1 DEF ResetRequested
  <2> QED BY <1>1, <2>1
<1>2. CASE ~(a.status # "streaming" \/ a.restarting)
  <2>1. ResetRequested(a) = IF a.cooling THEN [a EXCEPT !.pending = TRUE]
                            ELSE [a EXCEPT !.asked = TRUE, !.cooling = TRUE, !.pending = FALSE]
    BY <1>2 DEF ResetRequested
  <2>2. CASE a.cooling BY <1>2, <2>1, <2>2 DEF AppRecord
  <2>3. CASE ~a.cooling BY <1>2, <2>1, <2>3 DEF AppRecord
  <2> QED BY <2>2, <2>3
<1> QED BY <1>1, <1>2

LEMMA ResetIsOK ==
  ASSUME NEW a, AppOK(a)
  PROVE  AppOK(ResetRequested(a))
<1>. DEFINE b == ResetRequested(a)
<1>1. a \in AppRecord BY DEF AppOK
<1>2. /\ b \in AppRecord /\ b.status = a.status /\ b.stop = a.stop /\ b.session = a.session
      /\ b.restarting = a.restarting /\ b.config = a.config /\ b.closes = a.closes
      /\ b.ownEnd = a.ownEnd /\ b.torn = a.torn
      /\ (a.status # "streaming" => b.pending = a.pending)
  BY <1>1, ResetIs
<1>. HIDE DEF b
<1>3. AppOK(b) BY <1>2 DEF AppOK
<1> QED BY <1>3 DEF b

\* The state of one capture is set, or its reader.
LEMMA CaptureIsSet ==
  ASSUME NEW caps \in [Captures -> CaptureRecord], NEW c \in Captures,
         NEW x \in {"unborn", "opening", "open", "ended", "closing", "closed"}
  PROVE  LET k == [caps EXCEPT ![c].state = x]
         IN  /\ k \in [Captures -> CaptureRecord] /\ k[c].state = x /\ k[c].reader = caps[c].reader
             /\ \A d \in Captures : d # c => k[d] = caps[d]
BY DEF CaptureRecord

LEMMA ReaderIsOff ==
  ASSUME NEW caps \in [Captures -> CaptureRecord], NEW c \in Captures
  PROVE  LET k == [caps EXCEPT ![c].reader = "off"]
         IN  /\ k \in [Captures -> CaptureRecord] /\ k[c].reader = "off" /\ k[c].state = caps[c].state
             /\ \A d \in Captures : d # c => k[d] = caps[d]
BY DEF CaptureRecord

LEMMA ClosingOne ==
  ASSUME NEW caps \in [Captures -> CaptureRecord], NEW c \in Captures
  PROVE  LET k == Closing(caps, c)
         IN  /\ k \in [Captures -> CaptureRecord] /\ k[c].reader = caps[c].reader
             /\ k[c].state = IF caps[c].state \in {"open", "ended"} THEN "closing" ELSE caps[c].state
             /\ \A d \in Captures : d # c => k[d] = caps[d]
<1>1. CASE caps[c].state \in {"open", "ended"}
  <2>1. Closing(caps, c) = [caps EXCEPT ![c].state = "closing"] BY <1>1 DEF Closing
  <2>2. /\ Closing(caps, c) \in [Captures -> CaptureRecord] /\ Closing(caps, c)[c].state = "closing"
        /\ Closing(caps, c)[c].reader = caps[c].reader
        /\ \A d \in Captures : d # c => Closing(caps, c)[d] = caps[d]
    BY <2>1 DEF CaptureRecord
  <2> QED BY <1>1, <2>2
<1>2. CASE caps[c].state \notin {"open", "ended"} BY <1>2 DEF Closing
<1> QED BY <1>1, <1>2

LEMMA OutOfDateIs ==
  ASSUME NEW caps \in [Captures -> CaptureRecord]
  PROVE  LET k == OutOfDate(caps)
         IN  /\ k \in [Captures -> CaptureRecord]
             /\ \A d \in Captures : /\ k[d].state = caps[d].state
                                    /\ k[d].reader # "current"
                                    /\ caps[d].reader = "off" => k[d].reader = "off"
<1>. DEFINE k == OutOfDate(caps)
<1>1. k = [d \in Captures |-> IF caps[d].reader = "current" THEN [caps[d] EXCEPT !.reader = "stale"]
                              ELSE caps[d]]
  BY DEF OutOfDate
<1>2. ASSUME NEW d \in Captures
      PROVE  /\ k[d] \in CaptureRecord /\ k[d].state = caps[d].state /\ k[d].reader # "current"
             /\ caps[d].reader = "off" => k[d].reader = "off"
  <2>1. caps[d] \in CaptureRecord OBVIOUS
  <2>2. k[d] = IF caps[d].reader = "current" THEN [caps[d] EXCEPT !.reader = "stale"] ELSE caps[d]
    BY <1>1
  <2>. HIDE DEF k
  <2> QED BY <2>1, <2>2 DEF CaptureRecord
<1>3. k \in [Captures -> CaptureRecord]
  <2>. HIDE DEF CaptureRecord
  <2>1. \A d \in Captures : k[d] \in CaptureRecord BY <1>2
  <2>2. k = [d \in Captures |-> k[d]] BY <1>1
  <2> QED BY <2>1, <2>2
<1> QED BY <1>2, <1>3

LEMMA GoneIs ==
  ASSUME viewer \in [Viewers -> ViewerRecord]
  PROVE  /\ Gone \in [Viewers -> ViewerRecord]
         /\ \A v \in Viewers : ~Gone[v].on /\ Gone[v].awaiting = viewer[v].awaiting
                               /\ Gone[v].missed = viewer[v].missed
<1>1. ASSUME NEW v \in Viewers
      PROVE  /\ Gone[v] \in ViewerRecord /\ ~Gone[v].on
             /\ Gone[v].awaiting = viewer[v].awaiting /\ Gone[v].missed = viewer[v].missed
  <2>1. Gone[v] = [viewer[v] EXCEPT !.on = FALSE] BY DEF Gone
  <2>2. viewer[v] \in ViewerRecord OBVIOUS
  <2> QED BY <2>1, <2>2 DEF ViewerRecord
<1>2. Gone = [v \in Viewers |-> Gone[v]] BY DEF Gone
<1>3. Gone \in [Viewers -> ViewerRecord]
  <2>1. \A v \in Viewers : Gone[v] \in ViewerRecord BY <1>1
  <2> QED BY <1>2, <2>1
<1> QED BY <1>1, <1>3

LEMMA ResyncedIs ==
  ASSUME viewer \in [Viewers -> ViewerRecord]
  PROVE  /\ Resynced \in [Viewers -> ViewerRecord]
         /\ \A v \in Viewers : Resynced[v].on = viewer[v].on /\ Resynced[v].awaiting
<1>1. ASSUME NEW v \in Viewers
      PROVE  Resynced[v] \in ViewerRecord /\ Resynced[v].on = viewer[v].on /\ Resynced[v].awaiting
  <2>1. Resynced[v] = [viewer[v] EXCEPT !.awaiting = TRUE, !.missed = TRUE] BY DEF Resynced
  <2>2. viewer[v] \in ViewerRecord OBVIOUS
  <2> QED BY <2>1, <2>2 DEF ViewerRecord
<1>2. Resynced = [v \in Viewers |-> Resynced[v]] BY DEF Resynced
<1>3. Resynced \in [Viewers -> ViewerRecord]
  <2>1. \A v \in Viewers : Resynced[v] \in ViewerRecord BY <1>1
  <2> QED BY <1>2, <2>1
<1> QED BY <1>1, <1>3

\* The app moves on in what concerns neither the captures nor the viewers that are on.
LEMMA AppMovesOn ==
  ASSUME CaptureInv, NEW a, AppOK(a), a.status = app.status, a.stop = app.stop,
         a.session = app.session
  PROVE  /\ CapturesOK(capture, a.session, update)
         /\ ReadersOK(capture, a.status = "streaming") /\ StopOK(capture, a, update)
         /\ a.status # "streaming" => ~publisher.open
BY DEF CaptureInv, StopOK, AppOK

LEMMA AskingKeeps ==
  ASSUME CaptureInv, NEW a, AppOK(a), a.status = app.status, a.stop = app.stop,
         a.session = app.session, a.restarting = app.restarting,
         app.pending \/ app.asked => a.pending \/ a.asked,
         app' = a, UNCHANGED <<capture, viewer, update, publisher>>
  PROVE  CaptureInv'
<1>1. ViewersOK(viewer, a) BY DEF CaptureInv, ViewersOK
<1>2. /\ CapturesOK(capture, a.session, update)
      /\ ReadersOK(capture, a.status = "streaming") /\ StopOK(capture, a, update)
      /\ a.status # "streaming" => ~publisher.open
  BY AppMovesOn
<1> QED BY ONLY <1>1, <1>2, CaptureInv, AppOK(a), app' = a,
                UNCHANGED <<capture, viewer, update, publisher>> DEF CaptureInv

LEMMA CooldownEndsIs == ASSUME CaptureInv, CooldownEnds PROVE CaptureInv'
<1>. DEFINE calm == [app EXCEPT !.cooling = FALSE, !.pending = FALSE]
<1>1. /\ app \in AppRecord /\ AppOK(app) BY DEF CaptureInv, AppOK
<1>2. /\ calm \in AppRecord /\ calm.status = app.status /\ calm.stop = app.stop
      /\ calm.session = app.session /\ calm.restarting = app.restarting /\ calm.asked = app.asked
      /\ calm.config = app.config /\ calm.closes = app.closes /\ calm.ownEnd = app.ownEnd
      /\ calm.torn = app.torn /\ ~calm.pending
  BY <1>1 DEF AppRecord
<1>3. /\ app' = IF app.pending THEN ResetRequested(calm) ELSE calm
      /\ UNCHANGED <<capture, viewer, update, publisher>>
  BY DEF CooldownEnds
<1>. HIDE DEF calm
<1>4. AppOK(calm) BY <1>1, <1>2 DEF AppOK
<1>5. CASE ~app.pending BY <1>2, <1>3, <1>4, <1>5, AskingKeeps
<1>6. CASE app.pending
  <2>. DEFINE b == ResetRequested(calm)
  <2>1. AppOK(b) BY <1>4, ResetIsOK
  <2>2. /\ b.status = calm.status /\ b.stop = calm.stop /\ b.session = calm.session
        /\ b.restarting = calm.restarting
        /\ (calm.status = "streaming" /\ ~calm.restarting => b.pending \/ b.asked)
    BY <1>2, ResetIs
  <2>3. app' = b BY <1>3, <1>6
  <2>. HIDE DEF b
  <2>4. app.status = "streaming" BY <1>1, <1>6 DEF AppOK
  <2>5. ViewersOK(viewer, b) BY <1>2, <2>2, <2>4 DEF CaptureInv, ViewersOK
  <2>6. /\ CapturesOK(capture, b.session, update)
        /\ ReadersOK(capture, b.status = "streaming") /\ StopOK(capture, b, update)
        /\ b.status # "streaming" => ~publisher.open
    BY <1>2, <2>1, <2>2, AppMovesOn
  <2> QED BY ONLY <2>1, <2>3, <2>5, <2>6, <1>3, CaptureInv DEF CaptureInv
<1> QED BY <1>5, <1>6

LEMMA ViewerAttachesIs ==
  ASSUME CaptureInv, NEW v \in Viewers, ViewerAttaches(v)
  PROVE  CaptureInv'
<1>. DEFINE b == ResetRequested(app)
<1>1. app \in AppRecord /\ AppOK(app) BY DEF CaptureInv, AppOK
<1>2. app.status = "streaming" BY DEF ViewerAttaches, Streaming
<1>3. /\ b.status = app.status /\ b.stop = app.stop /\ b.session = app.session
      /\ b.restarting = app.restarting
      /\ (~app.restarting => b.pending \/ b.asked)
  BY <1>1, <1>2, ResetIs
<1>4. AppOK(b) BY <1>1, ResetIsOK
<1>5. /\ app' = b /\ UNCHANGED <<capture, update, publisher>>
      /\ viewer' = [viewer EXCEPT ![v] = [on |-> TRUE, awaiting |-> TRUE, missed |-> TRUE]]
  BY DEF ViewerAttaches
<1>. HIDE DEF b
<1>6. viewer' \in [Viewers -> ViewerRecord] /\ \A u \in Viewers : viewer'[u].missed => viewer'[u].awaiting
  BY <1>5 DEF CaptureInv, ViewersOK, ViewerRecord
<1>7. ViewersOK(viewer', b) BY <1>2, <1>3, <1>6 DEF ViewersOK
<1>8. /\ CapturesOK(capture, b.session, update)
      /\ ReadersOK(capture, b.status = "streaming") /\ StopOK(capture, b, update)
      /\ b.status # "streaming" => ~publisher.open
  BY <1>3, <1>4, AppMovesOn
<1> QED BY ONLY <1>4, <1>5, <1>7, <1>8, CaptureInv DEF CaptureInv

LEMMA ViewerLeavesIs ==
  ASSUME CaptureInv, NEW v \in Viewers, ViewerLeaves(v)
  PROVE  CaptureInv'
<1>1. /\ UNCHANGED <<app, capture, update, publisher>>
      /\ viewer' = [viewer EXCEPT ![v].on = FALSE]
  BY DEF ViewerLeaves
<1>2. viewer \in [Viewers -> ViewerRecord] BY DEF CaptureInv, ViewersOK
<1>3. /\ viewer' \in [Viewers -> ViewerRecord]
      /\ \A u \in Viewers : /\ viewer'[u].on => viewer[u].on
                            /\ viewer'[u].awaiting = viewer[u].awaiting
                            /\ viewer'[u].missed = viewer[u].missed
  BY <1>1, <1>2 DEF ViewerRecord
<1>4. ViewersOK(viewer', app) BY <1>3 DEF CaptureInv, ViewersOK
<1> QED BY <1>1, <1>4 DEF CaptureInv

LEMMA ViewerAsksIs ==
  ASSUME CaptureInv, NEW v \in Viewers, ViewerAsks(v)
  PROVE  CaptureInv'
<1>1. app \in AppRecord /\ AppOK(app) BY DEF CaptureInv, AppOK
<1>2. AppOK(ResetRequested(app)) BY <1>1, ResetIsOK
<1>3. app' = ResetRequested(app) /\ UNCHANGED <<capture, viewer, update, publisher>> BY DEF ViewerAsks
<1> QED BY <1>1, <1>2, <1>3, ResetIs, AskingKeeps

\* sendFrame. A viewer that awaits a key frame after it did before, or was dropped.
LEMMA SentIs ==
  ASSUME NEW w \in ViewerRecord, NEW key \in BOOLEAN, NEW buffered \in {"clear", "drop", "close"},
         w.missed => w.awaiting, w.on
  PROVE  LET x == Sent(w, key, buffered)
         IN  /\ x \in ViewerRecord /\ (x.missed => x.awaiting)
             /\ x.on /\ x.awaiting => (w.awaiting /\ ~key) \/ Dropped(w, key, buffered)
<1>1. CASE w.awaiting /\ ~key
  <2>1. Sent(w, key, buffered) = [w EXCEPT !.missed = TRUE] BY <1>1 DEF Sent
  <2> QED BY <1>1, <2>1 DEF ViewerRecord
<1>2. CASE ~(w.awaiting /\ ~key)
  <2>1. CASE buffered = "close"
    <3>1. Sent(w, key, buffered) = [w EXCEPT !.on = FALSE] BY <1>2, <2>1 DEF Sent
    <3> QED BY <3>1 DEF ViewerRecord
  <2>2. CASE buffered = "drop"
    <3>1. Sent(w, key, buffered) = [w EXCEPT !.awaiting = TRUE, !.missed = TRUE] BY <1>2, <2>2 DEF Sent
    <3>2. Dropped(w, key, buffered) BY <1>2, <2>2 DEF Dropped
    <3> QED BY <3>1, <3>2 DEF ViewerRecord
  <2>3. CASE buffered = "clear"
    <3>1. Sent(w, key, buffered) = [w EXCEPT !.awaiting = FALSE, !.missed = FALSE]
      BY <1>2, <2>3 DEF Sent
    <3> QED BY <3>1 DEF ViewerRecord
  <2> QED BY <2>1, <2>2, <2>3
<1> QED BY <1>1, <1>2

LEMMA FrameReadIs ==
  ASSUME CaptureInv, NEW c \in Captures, FrameRead(c)
  PROVE  CaptureInv'
<1>1. app \in AppRecord /\ AppOK(app) BY DEF CaptureInv, AppOK
<1>2. /\ viewer \in [Viewers -> ViewerRecord]
      /\ \A v \in Viewers : viewer[v].missed => viewer[v].awaiting
  BY DEF CaptureInv, ViewersOK
<1>3. PICK key \in BOOLEAN, buffered \in [Watching -> {"clear", "drop", "close"}] :
        LET dropped == \E v \in Watching : Dropped(viewer[v], key, buffered[v])
            torn == \E v \in Watching : Tears(viewer[v], key, buffered[v])
            read == [app EXCEPT !.asked = @ /\ ~key, !.torn = @ \/ torn]
        IN  /\ viewer' = [v \in Viewers |->
                 IF v \in Watching THEN Sent(viewer[v], key, buffered[v]) ELSE viewer[v]]
            /\ app' = IF dropped THEN ResetRequested(read) ELSE read
  BY DEF FrameRead
<1>. DEFINE dropped == \E v \in Watching : Dropped(viewer[v], key, buffered[v])
            torn == \E v \in Watching : Tears(viewer[v], key, buffered[v])
            asks == app.asked /\ ~key
            tears == app.torn \/ torn
            read == [app EXCEPT !.asked = asks, !.torn = tears]
<1>4. Watching \subseteq Viewers /\ \A v \in Viewers : v \in Watching <=> viewer[v].on BY DEF Watching
<1>5. tears = FALSE
  <2>1. ~app.torn /\ app.config # "stale" BY <1>1 DEF AppOK
  <2>2. ASSUME NEW v \in Watching PROVE ~Tears(viewer[v], key, buffered[v])
    BY <1>2, <1>4, <2>1, <2>2 DEF Tears
  <2> QED BY <1>1, <2>1, <2>2 DEF AppRecord
<1>6. asks \in BOOLEAN BY <1>1 DEF AppRecord
<1>7. /\ viewer' = [v \in Viewers |->
                 IF v \in Watching THEN Sent(viewer[v], key, buffered[v]) ELSE viewer[v]]
      /\ app' = (IF dropped THEN ResetRequested(read) ELSE read)
      /\ UNCHANGED <<capture, update, publisher>>
  BY <1>3 DEF FrameRead
<1>8. asks <=> (app.asked /\ ~key) OBVIOUS
<1>9. (\E v \in Watching : Dropped(viewer[v], key, buffered[v])) => dropped OBVIOUS
<1>. HIDE DEF asks, tears, torn, dropped
<1>10. /\ read \in AppRecord /\ read.status = app.status /\ read.stop = app.stop
       /\ read.session = app.session /\ read.restarting = app.restarting
       /\ read.asked = asks /\ read.pending = app.pending
       /\ read.config = app.config /\ read.closes = app.closes /\ read.ownEnd = app.ownEnd
       /\ read.torn = FALSE
  BY <1>1, <1>5, <1>6 DEF AppRecord
<1>. HIDE DEF read
<1>11. AppOK(read) BY <1>1, <1>10 DEF AppOK
<1>12. /\ AppOK(app') /\ app'.status = app.status /\ app'.stop = app.stop
       /\ app'.session = app.session /\ app'.restarting = app.restarting
       /\ app.pending \/ asks => app'.pending \/ app'.asked
       /\ dropped /\ app.status = "streaming" /\ ~app.restarting => app'.pending \/ app'.asked
  <2>1. CASE dropped BY <1>7, <1>10, <1>11, <2>1, ResetIs, ResetIsOK
  <2>2. CASE ~dropped BY <1>7, <1>10, <1>11, <2>2
  <2> QED BY <2>1, <2>2
<1>13. ASSUME NEW v \in Viewers
       PROVE  /\ viewer'[v] \in ViewerRecord /\ (viewer'[v].missed => viewer'[v].awaiting)
              /\ viewer'[v].on => viewer[v].on
              /\ viewer'[v].on /\ viewer'[v].awaiting => (viewer[v].awaiting /\ ~key) \/ dropped
  <2>1. viewer[v] \in ViewerRecord BY <1>2
  <2>2. CASE v \in Watching
    <3>1. viewer'[v] = Sent(viewer[v], key, buffered[v]) BY <1>7, <2>2
    <3>2. viewer[v].on BY <1>4, <2>2
    <3>3. buffered[v] \in {"clear", "drop", "close"} BY <2>2
    <3>4. Dropped(viewer[v], key, buffered[v]) => dropped BY <1>9, <2>2
    <3> QED BY ONLY <1>2, <2>1, <3>1, <3>2, <3>3, <3>4, SentIs, v \in Viewers, key \in BOOLEAN
  <2>3. CASE v \notin Watching
    <3>1. viewer'[v] = viewer[v] /\ ~viewer[v].on BY <1>4, <1>7, <2>3
    <3> QED BY <1>2, <2>1, <3>1
  <2> QED BY <2>2, <2>3
<1>14. ViewersOK(viewer', app')
  <2>1. viewer' \in [Viewers -> ViewerRecord]
    <3>1. viewer' = [v \in Viewers |-> viewer'[v]] BY <1>7
    <3> QED BY <1>13, <3>1
  <2>2. app.status = "streaming" /\ ~app.restarting =>
          \A v \in Viewers : viewer[v].on /\ viewer[v].awaiting => app.pending \/ app.asked
    BY DEF CaptureInv, ViewersOK
  <2>3. app.status # "streaming" => \A v \in Viewers : ~viewer[v].on BY DEF CaptureInv, ViewersOK
  <2> QED BY <1>8, <1>12, <1>13, <2>1, <2>2, <2>3 DEF ViewersOK
<1>15. /\ CapturesOK(capture, app'.session, update)
       /\ ReadersOK(capture, app'.status = "streaming") /\ StopOK(capture, app', update)
       /\ app'.status # "streaming" => ~publisher.open
  BY <1>12, AppMovesOn
<1> QED BY ONLY <1>7, <1>12, <1>14, <1>15, CaptureInv DEF CaptureInv

LEMMA ConfigReadIs ==
  ASSUME CaptureInv, NEW c \in Captures, ConfigRead(c)
  PROVE  CaptureInv'
<1>. DEFINE a == [app EXCEPT !.config = "current"]
<1>1. app \in AppRecord /\ AppOK(app) BY DEF CaptureInv, AppOK
<1>2. /\ a \in AppRecord /\ a.status = app.status /\ a.stop = app.stop /\ a.session = app.session
      /\ a.restarting = app.restarting /\ a.asked = app.asked /\ a.pending = app.pending
      /\ a.config = "current" /\ a.closes = app.closes /\ a.ownEnd = app.ownEnd
      /\ a.torn = app.torn
  BY <1>1 DEF AppRecord
<1>3. app' = a /\ UNCHANGED <<capture, viewer, update, publisher>> BY DEF ConfigRead
<1>. HIDE DEF a
<1>4. AppOK(a) BY <1>1, <1>2 DEF AppOK
<1> QED BY <1>2, <1>3, <1>4, AskingKeeps

LEMMA SessionReadIs ==
  ASSUME CaptureInv, NEW c \in Captures, SessionRead(c)
  PROVE  CaptureInv'
<1>. DEFINE a == [app EXCEPT !.config = "none", !.asked = TRUE]
<1>1. app \in AppRecord /\ AppOK(app) BY DEF CaptureInv, AppOK
<1>2. /\ a \in AppRecord /\ a.status = app.status /\ a.stop = app.stop /\ a.session = app.session
      /\ a.restarting = app.restarting /\ a.asked = TRUE /\ a.pending = app.pending
      /\ a.config = "none" /\ a.closes = app.closes /\ a.ownEnd = app.ownEnd
      /\ a.torn = app.torn
  BY <1>1 DEF AppRecord
<1>3. app' = a /\ viewer' = Resynced /\ UNCHANGED <<capture, update, publisher>> BY DEF SessionRead
<1>. HIDE DEF a
<1>4. AppOK(a) BY <1>1, <1>2 DEF AppOK
<1>5. viewer \in [Viewers -> ViewerRecord] BY DEF CaptureInv, ViewersOK
<1>6. /\ viewer' \in [Viewers -> ViewerRecord]
      /\ \A v \in Viewers : viewer'[v].on = viewer[v].on /\ viewer'[v].awaiting
  BY <1>3, <1>5, ResyncedIs
<1>7. ViewersOK(viewer', a) BY <1>2, <1>6 DEF CaptureInv, ViewersOK
<1>8. /\ CapturesOK(capture, a.session, update)
      /\ ReadersOK(capture, a.status = "streaming") /\ StopOK(capture, a, update)
      /\ a.status # "streaming" => ~publisher.open
  BY <1>2, <1>4, AppMovesOn
<1> QED BY ONLY <1>3, <1>4, <1>7, <1>8, CaptureInv DEF CaptureInv

LEMMA CaptureFailsIs ==
  ASSUME CaptureInv, NEW c \in Captures, CaptureFails(c)
  PROVE  CaptureInv'
<1>1. /\ capture[c].state = "open" /\ UNCHANGED <<app, viewer, update, publisher>>
      /\ capture' = [capture EXCEPT ![c].state = "ended"]
  BY DEF CaptureFails
<1>2. capture \in [Captures -> CaptureRecord] /\ app.session \in Captures
  BY DEF CaptureInv, CapturesOK, AppOK, AppRecord
<1>3. /\ capture' \in [Captures -> CaptureRecord] /\ capture'[c].state = "ended"
      /\ capture'[c].reader = capture[c].reader
      /\ \A d \in Captures : d # c => capture'[d] = capture[d]
  BY <1>1, <1>2 DEF CaptureRecord
<1>4. CapturesOK(capture', app.session, update) BY <1>1, <1>2, <1>3 DEF CaptureInv, CapturesOK
<1>5. ReadersOK(capture', app.status = "streaming") BY <1>1, <1>3 DEF CaptureInv, ReadersOK
<1>6. c = app.session BY <1>1 DEF CaptureInv, CapturesOK
<1>7. StopOK(capture', app, update) BY <1>1, <1>6 DEF CaptureInv, StopOK
<1> QED BY ONLY <1>1, <1>4, <1>5, <1>7, CaptureInv DEF CaptureInv

LEMMA CaptureClosesIs ==
  ASSUME CaptureInv, NEW c \in Captures, CaptureCloses(c)
  PROVE  CaptureInv'
<1>1. /\ capture[c].state = "closing" /\ UNCHANGED <<app, viewer, update, publisher>>
      /\ capture' = [capture EXCEPT ![c].state = "closed"]
  BY DEF CaptureCloses
<1>2. capture \in [Captures -> CaptureRecord] /\ app.session \in Captures
  BY DEF CaptureInv, CapturesOK, AppOK, AppRecord
<1>3. /\ capture' \in [Captures -> CaptureRecord] /\ capture'[c].state = "closed"
      /\ capture'[c].reader = capture[c].reader
      /\ \A d \in Captures : d # c => capture'[d] = capture[d]
  BY <1>1, <1>2 DEF CaptureRecord
<1>4. CapturesOK(capture', app.session, update) BY <1>1, <1>2, <1>3 DEF CaptureInv, CapturesOK
<1>5. ReadersOK(capture', app.status = "streaming") BY <1>1, <1>3 DEF CaptureInv, ReadersOK
<1>6. StopOK(capture', app, update) BY <1>2, <1>3 DEF CaptureInv, StopOK
<1> QED BY ONLY <1>1, <1>4, <1>5, <1>6, CaptureInv DEF CaptureInv

\* terminate: the capture that is closed is the one the app has.
LEMMA SessionCloses ==
  ASSUME NEW caps, NEW s \in Captures, NEW u, NEW k,
         CapturesOK(caps, s, u), k = Closing(caps, s)
  PROVE  /\ CapturesOK(k, s, u) /\ k[s].state \in {"closing", "closed"}
         /\ k[s].state = "closed" <=> caps[s].state = "closed"
<1>1. caps \in [Captures -> CaptureRecord] BY DEF CapturesOK
<1>2. /\ k \in [Captures -> CaptureRecord] /\ k[s].reader = caps[s].reader
      /\ k[s].state = IF caps[s].state \in {"open", "ended"} THEN "closing" ELSE caps[s].state
      /\ \A d \in Captures : d # s => k[d] = caps[d]
  BY <1>1, ClosingOne
<1>3. caps[s].state \in {"open", "ended", "closing", "closed"} BY <1>1 DEF CapturesOK, CaptureRecord
<1>4. k[s].state \in {"closing", "closed"} /\ (k[s].state = "closed" <=> caps[s].state = "closed")
  BY <1>2, <1>3
<1>5. CapturesOK(k, s, u) BY <1>1, <1>2, <1>4 DEF CapturesOK
<1> QED BY <1>4, <1>5

LEMMA EndReadIs ==
  ASSUME CaptureInv, NEW c \in Captures, EndRead(c)
  PROVE  CaptureInv'
<1>. DEFINE caps == [capture EXCEPT ![c].reader = "off"]
<1>1. capture \in [Captures -> CaptureRecord] /\ app \in AppRecord /\ AppOK(app) /\ app.session \in Captures
  BY DEF CaptureInv, CapturesOK, AppOK, AppRecord
<1>2. /\ caps \in [Captures -> CaptureRecord] /\ caps[c].reader = "off"
      /\ caps[c].state = capture[c].state
      /\ \A d \in Captures : d # c => caps[d] = capture[d]
  BY <1>1, ReaderIsOff
<1>3. /\ capture[c].state \in {"ended", "closing", "closed"} /\ capture[c].reader # "off"
      /\ update' = update
      /\ IF Stopping \/ ~Streaming \/ capture[c].reader = "stale"
         THEN capture' = caps /\ UNCHANGED <<app, viewer, publisher>>
         ELSE /\ app' = [Terminal(app) EXCEPT !.ownEnd = capture[c].state = "ended"]
              /\ capture' = Closing(caps, app.session)
              /\ viewer' = Gone
              /\ publisher' = [publisher EXCEPT !.open = FALSE]
  BY DEF EndRead
<1>. HIDE DEF caps
<1>4. CapturesOK(caps, app.session, update) BY <1>1, <1>2, <1>3 DEF CaptureInv, CapturesOK
<1>5. CASE Stopping \/ ~Streaming \/ capture[c].reader = "stale"
  <2>1. capture' = caps /\ UNCHANGED <<app, viewer, publisher, update>> BY <1>3, <1>5
  <2>2. ReadersOK(caps, app.status = "streaming") BY <1>2 DEF CaptureInv, ReadersOK
  <2>3. caps[app.session].state = capture[app.session].state BY <1>1, <1>2
  <2>4. StopOK(caps, app, update) BY <2>3 DEF CaptureInv, StopOK
  <2> QED BY ONLY <1>4, <2>1, <2>2, <2>4, CaptureInv DEF CaptureInv
<1>6. CASE ~(Stopping \/ ~Streaming \/ capture[c].reader = "stale")
  <2>. DEFINE own == capture[c].state = "ended"
              a == [Terminal(app) EXCEPT !.ownEnd = own]
  <2>1. /\ app' = a /\ capture' = Closing(caps, app.session) /\ viewer' = Gone
        /\ publisher' = [publisher EXCEPT !.open = FALSE] /\ update' = update
    BY <1>3, <1>6
  <2>2. app.stop = "none" /\ app.status = "streaming" /\ capture[c].reader = "current"
    BY <1>1, <1>3, <1>6 DEF Stopping, Streaming, CaptureRecord
  <2>3. own = TRUE
    <3>1. capture[c].state \in {"open", "ended"} BY <2>2 DEF CaptureInv, ReadersOK
    <3> QED BY <1>3, <3>1
  <2>. HIDE DEF own
  <2>4. /\ a \in AppRecord /\ a.status = "error" /\ a.stop = "none" /\ a.session = app.session
        /\ a.pending = FALSE /\ a.config = app.config /\ a.ownEnd = TRUE /\ a.torn = app.torn
    BY <1>1, <2>2, <2>3 DEF Terminal, AppRecord
  <2>. HIDE DEF a
  <2>5. AppOK(a) BY <1>1, <2>4 DEF AppOK
  <2>6. CapturesOK(capture', app.session, update) BY <1>1, <1>4, <2>1, SessionCloses
  <2>7. ReadersOK(capture', a.status = "streaming") BY <2>4 DEF ReadersOK
  <2>8. StopOK(capture', a, update) BY <2>4 DEF StopOK
  <2>9. viewer \in [Viewers -> ViewerRecord] /\ \A v \in Viewers : viewer[v].missed => viewer[v].awaiting
    BY DEF CaptureInv, ViewersOK
  <2>10. ViewersOK(viewer', a) BY <2>1, <2>4, <2>9, GoneIs DEF ViewersOK
  <2>11. publisher' \in [task : {"none", "current", "stale"}, open : BOOLEAN] /\ ~publisher'.open
    BY <2>1 DEF CaptureInv
  <2> QED BY <2>1, <2>4, <2>5, <2>6, <2>7, <2>8, <2>10, <2>11 DEF CaptureInv
<1> QED BY <1>5, <1>6

LEMMA TaskIsOutdated ==
  ASSUME publisher \in [task : {"none", "current", "stale"}, open : BOOLEAN]
  PROVE  LET p == [publisher EXCEPT !.task = OutdatedTask(@)]
         IN  p \in [task : {"none", "current", "stale"}, open : BOOLEAN] /\ p.open = publisher.open
BY DEF OutdatedTask

LEMMA UpdateBeginsIs == ASSUME CaptureInv, UpdateBegins PROVE CaptureInv'
<1>. DEFINE a == [app EXCEPT !.restarting = TRUE, !.pending = FALSE]
            u == [step |-> "closing", capture |-> app.session]
            caps == OutOfDate(capture)
<1>1. capture \in [Captures -> CaptureRecord] /\ app \in AppRecord /\ AppOK(app) /\ app.session \in Captures
  BY DEF CaptureInv, CapturesOK, AppOK, AppRecord
<1>2. /\ app' = a /\ capture' = Closing(caps, app.session)
      /\ publisher' = [publisher EXCEPT !.task = OutdatedTask(@)]
      /\ update' = u /\ viewer' = viewer
      /\ update.step = "idle" /\ app.status = "streaming" /\ app.stop = "none"
  BY DEF UpdateBegins, Streaming, Stopping
<1>3. /\ a \in AppRecord /\ a.status = app.status /\ a.stop = app.stop /\ a.session = app.session
      /\ a.restarting = TRUE /\ a.pending = FALSE /\ a.config = app.config
      /\ a.ownEnd = app.ownEnd /\ a.torn = app.torn
  BY <1>1 DEF AppRecord
<1>4. /\ caps \in [Captures -> CaptureRecord]
      /\ \A d \in Captures : /\ caps[d].state = capture[d].state
                             /\ caps[d].reader # "current"
                             /\ capture[d].reader = "off" => caps[d].reader = "off"
  BY <1>1, OutOfDateIs
<1>5. u \in UpdateRecord /\ u.step = "closing" /\ u.capture = app.session
  BY <1>1 DEF UpdateRecord, Captures
<1>. HIDE DEF a, u, caps
<1>6. AppOK(a) BY <1>1, <1>2, <1>3 DEF AppOK
<1>7. CapturesOK(caps, app.session, update) BY <1>1, <1>4 DEF CaptureInv, CapturesOK
<1>8. /\ CapturesOK(capture', app.session, update)
      /\ capture'[app.session].state \in {"closing", "closed"}
  BY <1>1, <1>2, <1>7, SessionCloses
<1>9. /\ capture'[app.session].reader = caps[app.session].reader
      /\ \A d \in Captures : d # app.session => capture'[d] = caps[d]
  BY <1>1, <1>2, <1>4, ClosingOne
<1>10. CapturesOK(capture', a.session, u) BY <1>2, <1>3, <1>5, <1>8 DEF CapturesOK
<1>11. \A d \in Captures : capture'[d].reader # "current" BY <1>1, <1>4, <1>9
<1>12. ReadersOK(capture', a.status = "streaming") BY <1>11 DEF ReadersOK
<1>13. StopOK(capture', a, u) BY <1>2, <1>3 DEF StopOK
<1>14. ViewersOK(viewer, a) BY <1>2, <1>3 DEF CaptureInv, ViewersOK
<1>15. /\ publisher' \in [task : {"none", "current", "stale"}, open : BOOLEAN]
       /\ publisher'.open = publisher.open
  BY <1>2, TaskIsOutdated DEF CaptureInv
<1> QED BY <1>2, <1>3, <1>6, <1>10, <1>12, <1>13, <1>14, <1>15 DEF CaptureInv

LEMMA NextCaptureIs ==
  ASSUME NEW c \in NextCapture
  PROVE  c \in Captures /\ capture[c].state = "unborn"
BY DEF NextCapture

LEMMA UpdateOpensIs == ASSUME CaptureInv, UpdateOpens PROVE CaptureInv'
<1>1. capture \in [Captures -> CaptureRecord] /\ app.session \in Captures
  BY DEF CaptureInv, CapturesOK, AppOK, AppRecord
<1>2. PICK c \in NextCapture : /\ update' = [step |-> "opening", capture |-> c]
                               /\ capture' = [capture EXCEPT ![c].state = "opening"]
  BY DEF UpdateOpens, CaptureAsked
<1>3. /\ update.step = "closing" /\ capture[update.capture].state = "closed"
      /\ UNCHANGED <<app, viewer, publisher>>
  BY DEF UpdateOpens
<1>4. c \in Captures /\ capture[c].state = "unborn" BY NextCaptureIs
<1>5. update.capture = app.session /\ c # app.session BY <1>3, <1>4 DEF CaptureInv, CapturesOK
<1>6. /\ capture' \in [Captures -> CaptureRecord] /\ capture'[c].state = "opening"
      /\ capture'[c].reader = capture[c].reader
      /\ \A d \in Captures : d # c => capture'[d] = capture[d]
  BY <1>1, <1>2, <1>4 DEF CaptureRecord
<1>7. update' \in UpdateRecord /\ update'.step = "opening" /\ update'.capture = c
  BY <1>2, <1>4 DEF UpdateRecord, Captures
<1>8. CapturesOK(capture', app.session, update')
  BY <1>1, <1>3, <1>4, <1>5, <1>6, <1>7 DEF CaptureInv, CapturesOK
<1>9. ReadersOK(capture', app.status = "streaming")
  BY <1>4, <1>6 DEF CaptureInv, ReadersOK, CapturesOK
<1>10. StopOK(capture', app, update') BY <1>1, <1>3, <1>5, <1>6, <1>7 DEF CaptureInv, StopOK
<1> QED BY ONLY <1>3, <1>8, <1>9, <1>10, CaptureInv DEF CaptureInv

LEMMA CaptureReadyIs == ASSUME CaptureInv, CaptureReady PROVE CaptureInv'
<1>. DEFINE n == update.capture
<1>1. capture \in [Captures -> CaptureRecord] /\ app \in AppRecord /\ AppOK(app) /\ app.session \in Captures
  BY DEF CaptureInv, CapturesOK, AppOK, AppRecord
<1>2. update.step \in {"opening", "reopening"} /\ capture[n].state = "opening"
  BY DEF CaptureReady
<1>3. update \in UpdateRecord /\ n \in Captures /\ n # app.session
  BY <1>2 DEF CaptureInv, CapturesOK
<1>4. capture[app.session].state = "closed" BY <1>2 DEF CaptureInv, CapturesOK
<1>5. CASE Stopping \/ ~Streaming
  <2>1. /\ capture' = [capture EXCEPT ![n].state = "closing"]
        /\ update' = [update EXCEPT !.step = "discarding"]
        /\ UNCHANGED <<app, viewer, publisher>>
    BY <1>5 DEF CaptureReady
  <2>2. /\ capture' \in [Captures -> CaptureRecord] /\ capture'[n].state = "closing"
        /\ capture'[n].reader = capture[n].reader
        /\ \A d \in Captures : d # n => capture'[d] = capture[d]
    BY <1>1, <1>3, <2>1 DEF CaptureRecord
  <2>3. update' \in UpdateRecord /\ update'.step = "discarding" /\ update'.capture = n
    BY <1>3, <2>1 DEF UpdateRecord
  <2>. HIDE DEF n
  <2>4. CapturesOK(capture', app.session, update')
    <3>1. \A d \in Captures : d # n => capture[d].state # "opening"
      BY <1>2 DEF n, CaptureInv, CapturesOK
    <3>2. \A d \in Captures : capture[d].state \notin {"open", "ended"} BY <1>2 DEF CaptureInv, CapturesOK
    <3>3. \A d \in Captures : capture[d].state = "closing" => d = app.session
      BY <1>2 DEF CaptureInv, CapturesOK
    <3> QED BY <1>1, <1>2, <1>3, <1>4, <2>2, <2>3, <3>1, <3>2, <3>3 DEF CaptureInv, CapturesOK
  <2>5. ReadersOK(capture', app.status = "streaming")
    <3>1. capture[n].reader = "off" BY <1>2, <1>3 DEF CaptureInv, CapturesOK
    <3> QED BY <2>2, <3>1 DEF CaptureInv, ReadersOK
  <2>6. StopOK(capture', app, update') BY <1>1, <1>2, <1>3, <2>2, <2>3 DEF CaptureInv, StopOK
  <2> QED BY ONLY <2>1, <2>4, <2>5, <2>6, CaptureInv DEF CaptureInv
<1>6. CASE ~(Stopping \/ ~Streaming)
  <2>. DEFINE fresh == [app EXCEPT !.session = n, !.restarting = FALSE, !.pending = FALSE,
                                   !.cooling = FALSE, !.asked = FALSE, !.config = "none"]
              caps == OutOfDate(capture)
              b == ResetRequested(fresh)
  <2>1. /\ app' = b
        /\ capture' = [caps EXCEPT ![n] = [state |-> "open", reader |-> "current"]]
        /\ viewer' = Resynced
        /\ publisher' = [publisher EXCEPT !.task = OutdatedTask(@)]
        /\ update' = [step |-> "idle", capture |-> 0]
    BY <1>6 DEF CaptureReady, Activated
  <2>2. app.stop = "none" /\ app.status = "streaming" BY <1>6 DEF Stopping, Streaming
  <2>3. /\ fresh \in AppRecord /\ fresh.status = "streaming" /\ fresh.stop = "none"
        /\ fresh.session = n /\ ~fresh.restarting /\ fresh.config = "none"
        /\ fresh.ownEnd = app.ownEnd /\ fresh.torn = app.torn
    BY <1>1, <1>3, <2>2 DEF AppRecord
  <2>4. /\ caps \in [Captures -> CaptureRecord]
        /\ \A d \in Captures : /\ caps[d].state = capture[d].state
                               /\ caps[d].reader # "current"
                               /\ capture[d].reader = "off" => caps[d].reader = "off"
    BY <1>1, OutOfDateIs
  <2>. HIDE DEF fresh, caps, n
  <2>5. AppOK(fresh) BY <1>1, <2>3 DEF AppOK
  <2>6. AppOK(b) BY <2>5, ResetIsOK
  <2>7. /\ b.status = "streaming" /\ b.stop = "none" /\ b.session = n
        /\ ~b.restarting /\ (b.pending \/ b.asked)
    BY <2>3, ResetIs
  <2>. HIDE DEF b
  <2>8. /\ capture' \in [Captures -> CaptureRecord]
        /\ capture'[n].state = "open" /\ capture'[n].reader = "current"
        /\ \A d \in Captures : d # n => capture'[d] = caps[d]
    BY <1>3, <2>1, <2>4 DEF CaptureRecord
  <2>9. update' \in UpdateRecord /\ update'.step = "idle" /\ update'.capture = 0
    BY <2>1 DEF UpdateRecord
  <2>10. \A d \in Captures : d # n => capture'[d].state \in {"unborn", "closed"}
    <3>1. ASSUME NEW d \in Captures, d # n PROVE capture[d].state \in {"unborn", "closed"}
      <4>1. capture[d].state \in {"unborn", "opening", "open", "ended", "closing", "closed"}
        BY <1>1 DEF CaptureRecord
      <4>2. capture[d].state \notin {"opening", "open", "ended", "closing"}
        BY <1>2, <1>4, <3>1 DEF n, CaptureInv, CapturesOK
      <4> QED BY <4>1, <4>2
    <3> QED BY <2>4, <2>8, <3>1
  <2>11. \A d \in Captures : d # n /\ capture'[d].state = "unborn" => capture'[d].reader = "off"
    BY <2>4, <2>8 DEF CaptureInv, CapturesOK
  <2>12. CapturesOK(capture', n, update') BY <1>3, <2>8, <2>9, <2>10, <2>11 DEF CapturesOK
  <2>13. \A d \in Captures : d # n => capture'[d].reader # "current" BY <2>4, <2>8
  <2>14. ReadersOK(capture', b.status = "streaming") BY <2>8, <2>13 DEF ReadersOK
  <2>15. StopOK(capture', b, update') BY <2>7 DEF StopOK
  <2>16. viewer \in [Viewers -> ViewerRecord] BY DEF CaptureInv, ViewersOK
  <2>17. viewer' \in [Viewers -> ViewerRecord] /\ \A v \in Viewers : viewer'[v].awaiting
    BY <2>1, <2>16, ResyncedIs
  <2>18. ViewersOK(viewer', b) BY <2>7, <2>17 DEF ViewersOK
  <2>19. publisher' \in [task : {"none", "current", "stale"}, open : BOOLEAN]
    BY <2>1, TaskIsOutdated DEF CaptureInv
  <2> QED BY <2>1, <2>6, <2>7, <2>12, <2>14, <2>15, <2>18, <2>19 DEF CaptureInv
<1> QED BY <1>5, <1>6

\* A capture that never came up is over; the session capture is another.
LEMMA CaptureRefusal ==
  ASSUME CaptureInv, update.step \in {"opening", "reopening"}
  PROVE  LET k == [capture EXCEPT ![update.capture].state = "closed"]
         IN  /\ k \in [Captures -> CaptureRecord]
             /\ k[app.session].state = "closed"
             /\ \A c \in Captures : /\ k[c].state \in {"unborn", "closed"}
                                    /\ k[c].reader = capture[c].reader
                                    /\ k[c].state = "unborn" => k[c].reader = "off"
<1>. DEFINE n == update.capture
            k == [capture EXCEPT ![n].state = "closed"]
<1>1. capture \in [Captures -> CaptureRecord] /\ app.session \in Captures
  BY DEF CaptureInv, CapturesOK, AppOK, AppRecord
<1>2. n \in Captures /\ n # app.session /\ capture[app.session].state = "closed"
  BY DEF CaptureInv, CapturesOK
<1>3. /\ k \in [Captures -> CaptureRecord] /\ k[n].state = "closed"
      /\ k[n].reader = capture[n].reader
      /\ \A d \in Captures : d # n => k[d] = capture[d]
  BY <1>1, <1>2 DEF CaptureRecord
<1>4. ASSUME NEW d \in Captures, d # n PROVE capture[d].state \in {"unborn", "closed"}
  <2>1. capture[d].state \in {"unborn", "opening", "open", "ended", "closing", "closed"}
    BY <1>1 DEF CaptureRecord
  <2>2. capture[d].state \notin {"opening", "open", "ended", "closing"}
    BY <1>2, <1>4 DEF CaptureInv, CapturesOK
  <2> QED BY <2>1, <2>2
<1>. HIDE DEF k
<1>5. \A d \in Captures : capture[d].state = "unborn" => capture[d].reader = "off"
  BY DEF CaptureInv, CapturesOK
<1>6. /\ k \in [Captures -> CaptureRecord]
      /\ k[app.session].state = "closed"
      /\ \A c \in Captures : /\ k[c].state \in {"unborn", "closed"}
                             /\ k[c].reader = capture[c].reader
                             /\ k[c].state = "unborn" => k[c].reader = "off"
  BY <1>1, <1>2, <1>3, <1>4, <1>5
<1> QED BY <1>6 DEF k

LEMMA CaptureRefusedIs == ASSUME CaptureInv, CaptureRefused PROVE CaptureInv'
<1>. DEFINE caps == [capture EXCEPT ![update.capture].state = "closed"]
<1>1. capture \in [Captures -> CaptureRecord] /\ app \in AppRecord /\ AppOK(app) /\ app.session \in Captures
  BY DEF CaptureInv, CapturesOK, AppOK, AppRecord
<1>2. /\ update.step \in {"opening", "reopening"}
      /\ IF Stopping \/ update.step = "reopening"
         THEN /\ capture' = caps
              /\ update' = [step |-> "idle", capture |-> 0]
              /\ app' = IF Stopping THEN app ELSE [Terminal(app) EXCEPT !.ownEnd = TRUE]
              /\ viewer' = Gone
              /\ publisher' = [publisher EXCEPT !.open = FALSE]
         ELSE /\ \E c \in NextCapture :
                   /\ capture' = [caps EXCEPT ![c].state = "opening"]
                   /\ update' = [step |-> "reopening", capture |-> c]
              /\ UNCHANGED <<app, viewer, publisher>>
  BY DEF CaptureRefused
<1>3. /\ caps \in [Captures -> CaptureRecord]
      /\ caps[app.session].state = "closed"
      /\ \A c \in Captures : /\ caps[c].state \in {"unborn", "closed"}
                             /\ caps[c].reader = capture[c].reader
                             /\ caps[c].state = "unborn" => caps[c].reader = "off"
  BY <1>2, CaptureRefusal
<1>. HIDE DEF caps
<1>4. \A c \in Captures : capture[c].reader = "current" => app.status # "streaming"
  <2>1. \A c \in Captures : capture[c].state \notin {"open", "ended"}
    BY <1>2 DEF CaptureInv, CapturesOK
  <2> QED BY <2>1 DEF CaptureInv, ReadersOK
<1>5. CASE Stopping \/ update.step = "reopening"
  <2>. DEFINE t == [Terminal(app) EXCEPT !.ownEnd = TRUE]
  <2>1. /\ capture' = caps /\ update' = [step |-> "idle", capture |-> 0]
        /\ app' = (IF Stopping THEN app ELSE t)
        /\ viewer' = Gone /\ publisher' = [publisher EXCEPT !.open = FALSE]
    BY <1>2, <1>5
  <2>2. update' \in UpdateRecord /\ update'.step = "idle" BY <2>1 DEF UpdateRecord
  <2>3. /\ t \in AppRecord /\ t.status = "error" /\ t.stop = app.stop /\ t.session = app.session
        /\ t.pending = FALSE /\ t.config = app.config /\ t.ownEnd = TRUE /\ t.torn = app.torn
        /\ t.closes = app.closes
    BY <1>1 DEF Terminal, AppRecord
  <2>. HIDE DEF t
  <2>4. AppOK(t) BY <1>1, <2>3 DEF AppOK
  <2>5. app'.status # "streaming" /\ AppOK(app') /\ app'.stop = app.stop /\ app'.session = app.session
    <3>1. CASE Stopping BY <1>1, <2>1, <3>1 DEF AppOK, Stopping
    <3>2. CASE ~Stopping BY <2>1, <2>3, <2>4, <3>2
    <3> QED BY <3>1, <3>2
  <2>6. CapturesOK(capture', app.session, update') BY <1>1, <1>3, <2>1, <2>2 DEF CapturesOK
  <2>7. ReadersOK(capture', app'.status = "streaming") BY <2>5 DEF ReadersOK
  <2>8. StopOK(capture', app', update') BY <1>3, <2>1, <2>2, <2>5 DEF StopOK
  <2>9. viewer \in [Viewers -> ViewerRecord] /\ \A v \in Viewers : viewer[v].missed => viewer[v].awaiting
    BY DEF CaptureInv, ViewersOK
  <2>10. ViewersOK(viewer', app') BY <2>1, <2>5, <2>9, GoneIs DEF ViewersOK
  <2>11. publisher' \in [task : {"none", "current", "stale"}, open : BOOLEAN] /\ ~publisher'.open
    BY <2>1 DEF CaptureInv
  <2> QED BY <2>5, <2>6, <2>7, <2>8, <2>10, <2>11 DEF CaptureInv
<1>6. CASE ~(Stopping \/ update.step = "reopening")
  <2>1. PICK c \in NextCapture : /\ capture' = [caps EXCEPT ![c].state = "opening"]
                                 /\ update' = [step |-> "reopening", capture |-> c]
    BY <1>2, <1>6
  <2>2. UNCHANGED <<app, viewer, publisher>> /\ app.stop = "none" BY <1>2, <1>6 DEF Stopping
  <2>3. c \in Captures /\ capture[c].state = "unborn" BY NextCaptureIs
  <2>4. capture[c].reader = "off" BY <2>3 DEF CaptureInv, CapturesOK
  <2>5. c # app.session BY <2>3 DEF CaptureInv, CapturesOK
  <2>6. /\ capture' \in [Captures -> CaptureRecord] /\ capture'[c].state = "opening"
        /\ capture'[c].reader = "off"
        /\ \A d \in Captures : d # c => capture'[d] = caps[d]
    BY <1>3, <2>1, <2>3, <2>4 DEF CaptureRecord
  <2>7. update' \in UpdateRecord /\ update'.step = "reopening" /\ update'.capture = c
    BY <2>1, <2>3 DEF UpdateRecord, Captures
  <2>8. CapturesOK(capture', app.session, update')
    BY <1>1, <1>3, <2>3, <2>5, <2>6, <2>7 DEF CapturesOK
  <2>9. ReadersOK(capture', app.status = "streaming") BY <1>3, <1>4, <2>6 DEF ReadersOK
  <2>10. StopOK(capture', app, update') BY <2>2 DEF StopOK
  <2> QED BY ONLY <2>2, <2>8, <2>9, <2>10, CaptureInv DEF CaptureInv
<1> QED BY <1>5, <1>6

LEMMA DiscardedIs == ASSUME CaptureInv, Discarded PROVE CaptureInv'
<1>1. /\ update.step = "discarding" /\ capture[update.capture].state = "closed"
      /\ update' = [step |-> "idle", capture |-> 0]
      /\ UNCHANGED <<app, capture, viewer, publisher>>
  BY DEF Discarded
<1>2. update' \in UpdateRecord /\ update'.step = "idle" BY <1>1 DEF UpdateRecord
<1>3. \A c \in Captures : capture[c].state = "closing" => c = app.session
  BY <1>1 DEF CaptureInv, CapturesOK
<1>4. \A c \in Captures : capture[c].state \notin {"opening", "open", "ended"}
  BY <1>1 DEF CaptureInv, CapturesOK
<1>5. CapturesOK(capture, app.session, update') BY <1>2, <1>3, <1>4 DEF CaptureInv, CapturesOK
<1>6. StopOK(capture, app, update') BY <1>2 DEF CaptureInv, StopOK
<1> QED BY ONLY <1>1, <1>5, <1>6, CaptureInv DEF CaptureInv

LEMMA PublisherOpensIs == ASSUME CaptureInv, PublisherAsked \/ PublisherOpens PROVE CaptureInv'
<1>1. UNCHANGED <<app, capture, viewer, update>> BY DEF PublisherAsked, PublisherOpens
<1>2. publisher' \in [task : {"none", "current", "stale"}, open : BOOLEAN]
  <2>1. publisher \in [task : {"none", "current", "stale"}, open : BOOLEAN] BY DEF CaptureInv
  <2>2. CASE PublisherAsked BY <2>1, <2>2 DEF PublisherAsked
  <2>3. CASE PublisherOpens
    <3>. DEFINE o == publisher.task = "current" /\ ~Stopping /\ Streaming
    <3>1. o \in BOOLEAN OBVIOUS
    <3>2. publisher' = [task |-> "none", open |-> o] BY <2>3 DEF PublisherOpens
    <3>. HIDE DEF o
    <3> QED BY <3>1, <3>2
  <2> QED BY <2>2, <2>3
<1>3. app.status # "streaming" => ~publisher'.open
  BY DEF CaptureInv, PublisherAsked, PublisherOpens, Streaming, Stopping
<1> QED BY ONLY <1>1, <1>2, <1>3, CaptureInv DEF CaptureInv

LEMMA StopRequestedIs == ASSUME CaptureInv, StopRequested PROVE CaptureInv'
<1>. DEFINE st == IF app.status = "streaming" THEN "stopped" ELSE app.status
            a == [app EXCEPT !.stop = "waiting", !.closes = app.session, !.restarting = FALSE,
                             !.pending = FALSE, !.status = st]
<1>1. app \in AppRecord /\ AppOK(app) /\ app.session \in Captures /\ app.session \in Nat
  BY DEF CaptureInv, AppOK, AppRecord, Captures
<1>2. /\ app' = a /\ capture' = Closing(capture, app.session) /\ viewer' = Gone
      /\ publisher' = [publisher EXCEPT !.open = FALSE] /\ update' = update
  BY DEF StopRequested
<1>3. st \in {"error", "stopped"} /\ (st = "error" => app.status = "error") BY <1>1 DEF AppRecord
<1>. HIDE DEF st
<1>4. /\ a \in AppRecord /\ a.status = st /\ a.stop = "waiting" /\ a.session = app.session
      /\ a.pending = FALSE /\ a.config = app.config /\ a.ownEnd = app.ownEnd /\ a.torn = app.torn
      /\ a.closes = app.session
  BY <1>1, <1>3 DEF AppRecord
<1>. HIDE DEF a
<1>5. AppOK(a) BY <1>1, <1>3, <1>4 DEF AppOK
<1>6. CapturesOK(capture, app.session, update) BY DEF CaptureInv
<1>7. /\ CapturesOK(capture', app.session, update)
      /\ capture'[app.session].state \in {"closing", "closed"}
  BY <1>1, <1>2, <1>6, SessionCloses
<1>8. ReadersOK(capture', a.status = "streaming") BY <1>3, <1>4 DEF ReadersOK
<1>9. StopOK(capture', a, update) BY <1>4, <1>7 DEF StopOK
<1>10. viewer \in [Viewers -> ViewerRecord] /\ \A v \in Viewers : viewer[v].missed => viewer[v].awaiting
  BY DEF CaptureInv, ViewersOK
<1>11. ViewersOK(viewer', a) BY <1>2, <1>3, <1>4, <1>10, GoneIs DEF ViewersOK
<1>12. publisher' \in [task : {"none", "current", "stale"}, open : BOOLEAN] /\ ~publisher'.open
  BY <1>2 DEF CaptureInv
<1> QED BY <1>2, <1>4, <1>5, <1>7, <1>8, <1>9, <1>11, <1>12 DEF CaptureInv

LEMMA StopFinishesIs == ASSUME CaptureInv, StopFinishes PROVE CaptureInv'
<1>. DEFINE a == [app EXCEPT !.stop = "done"]
<1>1. app \in AppRecord /\ AppOK(app) BY DEF CaptureInv, AppOK
<1>2. /\ app.stop = "waiting" /\ update.step = "idle" /\ capture[app.closes].state = "closed"
      /\ app' = a /\ UNCHANGED <<capture, viewer, update, publisher>>
  BY DEF StopFinishes
<1>3. /\ a \in AppRecord /\ a.status = app.status /\ a.stop = "done" /\ a.session = app.session
      /\ a.restarting = app.restarting /\ a.pending = app.pending /\ a.asked = app.asked
      /\ a.config = app.config /\ a.ownEnd = app.ownEnd /\ a.torn = app.torn
      /\ a.closes = app.closes
  BY <1>1 DEF AppRecord
<1>. HIDE DEF a
<1>4. app.closes = app.session BY <1>1, <1>2 DEF AppOK
<1>5. AppOK(a) BY <1>1, <1>2, <1>3 DEF AppOK
<1>6. StopOK(capture, a, update) BY <1>2, <1>3, <1>4 DEF StopOK
<1>7. ViewersOK(viewer, a) BY <1>3 DEF CaptureInv, ViewersOK
<1> QED BY ONLY <1>2, <1>3, <1>5, <1>6, <1>7, CaptureInv DEF CaptureInv

LEMMA CaptureGoesOn == CaptureInv /\ CaptureNext => CaptureInv'
<1>1. ASSUME CaptureInv, NEW v \in Viewers, ViewerAttaches(v) \/ ViewerLeaves(v) \/ ViewerAsks(v)
      PROVE  CaptureInv'
  BY <1>1, ViewerAttachesIs, ViewerLeavesIs, ViewerAsksIs
<1>2. ASSUME CaptureInv, NEW c \in Captures,
             \/ FrameRead(c) \/ ConfigRead(c) \/ SessionRead(c)
             \/ CaptureFails(c) \/ EndRead(c) \/ CaptureCloses(c)
      PROVE  CaptureInv'
  BY <1>2, FrameReadIs, ConfigReadIs, SessionReadIs, CaptureFailsIs, EndReadIs, CaptureClosesIs
<1> QED
  BY <1>1, <1>2, CooldownEndsIs, UpdateBeginsIs, UpdateOpensIs, CaptureReadyIs, CaptureRefusedIs,
     DiscardedIs, PublisherOpensIs, StopRequestedIs, StopFinishesIs
  DEF CaptureNext

LEMMA CaptureStays == CaptureInv /\ UNCHANGED captureVars => CaptureInv'
BY DEF CaptureInv, captureVars

LEMMA CapturePromises ==
  CaptureInv => StoppedLeavesNothing /\ NothingIsTorn /\ AwaitingIsAskedFor /\ EndsOfItsOwn
<1>1. ASSUME CaptureInv
      PROVE  StoppedLeavesNothing /\ NothingIsTorn /\ AwaitingIsAskedFor /\ EndsOfItsOwn
  <2>1. capture \in [Captures -> CaptureRecord] /\ app \in AppRecord /\ AppOK(app) /\ app.session \in Captures
    BY <1>1 DEF CaptureInv, CapturesOK, AppOK, AppRecord
  <2>2. \A c, d \in OpenCaptures : c = d
    <3>1. CASE update.step \in {"opening", "reopening"}
      <4>1. OpenCaptures \subseteq {update.capture} BY <1>1, <3>1 DEF OpenCaptures, CaptureInv, CapturesOK
      <4> QED BY <4>1
    <3>2. CASE update.step \notin {"opening", "reopening"}
      <4>1. OpenCaptures \subseteq {app.session} BY <1>1, <3>2 DEF OpenCaptures, CaptureInv, CapturesOK
      <4> QED BY <4>1
    <3> QED BY <3>1, <3>2
  <2>3. ASSUME app.stop = "done", NEW c \in Captures PROVE capture[c].state \in {"unborn", "closed"}
    <3>1. update.step = "idle" /\ capture[app.session].state = "closed"
      BY <1>1, <2>3 DEF CaptureInv, StopOK
    <3>2. capture[c].state \in {"unborn", "opening", "open", "ended", "closing", "closed"}
      BY <2>1 DEF CaptureRecord
    <3>3. capture[c].state \notin {"opening", "open", "ended", "closing"}
      BY <1>1, <3>1 DEF CaptureInv, CapturesOK
    <3> QED BY <3>2, <3>3
  <2>4. ~Streaming => Watching = {} /\ ~publisher.open /\ ~app.pending
    BY <1>1, <2>1 DEF Streaming, Watching, CaptureInv, ViewersOK, AppOK
  <2>8. app.stop = "done" => \A c \in Captures : capture[c].state \in {"unborn", "closed"} BY <2>3
  <2>5. StoppedLeavesNothing BY ONLY <2>2, <2>4, <2>8 DEF StoppedLeavesNothing
  <2>6. NothingIsTorn /\ EndsOfItsOwn BY <2>1 DEF NothingIsTorn, EndsOfItsOwn, AppOK
  <2>7. AwaitingIsAskedFor
    BY <1>1, <2>1 DEF AwaitingIsAskedFor, Streaming, Watching, CaptureInv, ViewersOK
  <2> QED BY <2>5, <2>6, <2>7
<1> QED BY <1>1

-----------------------------------------------------------------------------
(* AppRequests: the peers of its publisher. The requests in the chain of    *)
(* updates are those that wait in it, each once: the answer that ends an    *)
(* update goes to no other request.                                         *)

IsHandler(h) ==
  h \in [step : {h.step}, kind : {h.kind}, gen : {h.gen}, carried : {h.carried},
         behind : {h.behind}, aborted : {h.aborted}, answer : {h.answer}]
HandlersAre(h) == h = [c \in Callers |-> h[c]] /\ \A c \in Callers : IsHandler(h[c])

IsStream(s) ==
  s = [status |-> s.status, gen |-> s.gen, restarting |-> s.restarting, step |-> s.step]
PeeringIs(p) == p \in [open : BOOLEAN, task : {p.task}, peers : SUBSET Callers]

ChainIs(u, h) ==
  /\ u \in Seq(Callers)
  /\ \A i \in 1..Len(u) : h[u[i]].step = "chained"
  /\ \A i, j \in 1..Len(u) : u[i] = u[j] => i = j
PeersAre(p, h) ==
  /\ \A c \in p.peers : h[c].step = "offering" \/ (h[c].step = "answered" /\ h[c].answer = "ok")
  /\ ~p.open => p.peers = {}

PeeringInv ==
  /\ HandlersAre(handler) /\ IsStream(stream) /\ PeeringIs(peering)
  /\ ChainIs(updates, handler) /\ PeersAre(peering, handler)
  /\ ~AppStreams => ~peering.open
  /\ stream.step # "none" => updates # <<>>

LEMMA PeeringStarts == AppRequestsInit => PeeringInv
<1>1. ASSUME AppRequestsInit PROVE PeeringInv
  <2>1. \A c \in Callers : handler[c] = Unasked BY <1>1 DEF AppRequestsInit
  <2>2. HandlersAre(handler)
    <3>1. handler = [c \in Callers |-> handler[c]] BY <1>1 DEF AppRequestsInit
    <3>2. IsHandler(Unasked) BY DEF IsHandler, Unasked
    <3> QED BY <2>1, <3>1, <3>2 DEF HandlersAre
  <2>3. IsStream(stream) /\ stream.status = "streaming" /\ stream.step = "none"
    BY <1>1 DEF AppRequestsInit, IsStream
  <2>4. PeeringIs(peering) /\ PeersAre(peering, handler)
    BY <1>1 DEF AppRequestsInit, PeeringIs, PeersAre
  <2>5. ChainIs(updates, handler)
    <3>1. updates = <<>> BY <1>1 DEF AppRequestsInit
    <3> QED BY <3>1, EmptySeq DEF ChainIs
  <2> QED BY <2>2, <2>3, <2>4, <2>5 DEF PeeringInv, AppStreams
<1> QED BY <1>1

\* A request that neither waits in the chain nor has a peer moves on.
LEMMA OneMoves ==
  ASSUME NEW c \in Callers, NEW r, NEW h, NEW u, NEW p,
         HandlersAre(h), ChainIs(u, h), PeersAre(p, h), PeeringIs(p),
         h[c].step = "chained" => r.step = "chained", IsHandler(r),
         c \in p.peers => r.step = "offering" \/ (r.step = "answered" /\ r.answer = "ok")
  PROVE  LET k == [h EXCEPT ![c] = r]
         IN  HandlersAre(k) /\ ChainIs(u, k) /\ PeersAre(p, k)
<1>. DEFINE k == [h EXCEPT ![c] = r]
<1>1. /\ k = [d \in Callers |-> k[d]] /\ k[c] = r
      /\ \A d \in Callers : d # c => k[d] = h[d]
  BY DEF HandlersAre
<1>. HIDE DEF k
<1>2. HandlersAre(k)
  <2>1. ASSUME NEW d \in Callers PROVE IsHandler(k[d])
    BY <1>1 DEF HandlersAre
  <2> QED BY <1>1, <2>1 DEF HandlersAre
<1>3. ChainIs(u, k) BY <1>1 DEF ChainIs
<1>4. PeersAre(p, k) BY <1>1 DEF PeersAre, PeeringIs
<1> QED BY <1>2, <1>3, <1>4 DEF k

\* The first of the chain has its answer, and leaves it.
LEMMA FirstMoves ==
  ASSUME NEW r, NEW h, NEW u, NEW p,
         HandlersAre(h), ChainIs(u, h), PeersAre(p, h), PeeringIs(p), IsHandler(r), u # <<>>
  PROVE  LET k == [h EXCEPT ![Head(u)] = r]
         IN  HandlersAre(k) /\ ChainIs(Tail(u), k) /\ PeersAre(p, k)
<1>. DEFINE c == Head(u)
            k == [h EXCEPT ![c] = r]
            t == Tail(u)
<1>1. /\ u \in Seq(Callers) /\ Len(u) \in Nat /\ Len(u) # 0 /\ c = u[1] /\ c \in Callers
      /\ t \in Seq(Callers) /\ Len(t) = Len(u) - 1
      /\ \A i \in 1..Len(t) : t[i] = u[i + 1]
  BY HeadTailProperties, EmptySeq, LenProperties DEF ChainIs
<1>2. /\ k = [d \in Callers |-> k[d]] /\ k[c] = r
      /\ \A d \in Callers : d # c => k[d] = h[d]
  BY <1>1 DEF HandlersAre
<1>3. h[c].step = "chained" BY <1>1 DEF ChainIs
<1>. HIDE DEF k, c, t
<1>4. HandlersAre(k)
  <2>1. ASSUME NEW d \in Callers PROVE IsHandler(k[d])
    BY <1>2 DEF HandlersAre
  <2> QED BY <1>2, <2>1 DEF HandlersAre
<1>5. ChainIs(t, k)
  <2>1. ASSUME NEW i \in 1..Len(t) PROVE k[t[i]].step = "chained"
    <3>1. i + 1 \in 1..Len(u) /\ 1 \in 1..Len(u) /\ i + 1 # 1 /\ t[i] = u[i + 1] BY <1>1
    <3>2. t[i] # c /\ t[i] \in Callers /\ h[t[i]].step = "chained"
      BY <1>1, <3>1 DEF ChainIs
    <3> QED BY <1>2, <3>2
  <2>2. ASSUME NEW i \in 1..Len(t), NEW j \in 1..Len(t), t[i] = t[j] PROVE i = j
    <3>1. i + 1 \in 1..Len(u) /\ j + 1 \in 1..Len(u) /\ u[i + 1] = u[j + 1] BY <1>1, <2>2
    <3>2. i + 1 = j + 1 BY <3>1 DEF ChainIs
    <3> QED BY <3>2
  <2> QED BY <1>1, <2>1, <2>2 DEF ChainIs
<1>6. PeersAre(p, k)
  <2>1. c \notin p.peers BY <1>3 DEF PeersAre
  <2> QED BY <1>2, <2>1 DEF PeersAre, PeeringIs
<1> QED BY <1>4, <1>5, <1>6 DEF k, c, t

LEMMA UnaskedIs == IsHandler(Unasked)
BY DEF IsHandler, Unasked

\* A route is asked for by a caller that has asked for nothing.
LEMMA RouteIsTaken ==
  ASSUME NEW c \in Callers, PeeringInv, AppRoutes(c)
  PROVE  /\ handler[c].step = "idle"
         /\ \E r : handler' = [handler EXCEPT ![c] = r] /\ IsHandler(r)
         /\ UNCHANGED <<stream, updates, peering>>
<1>1. IsHandler(handler[c]) /\ IsHandler(Unasked) BY UnaskedIs DEF PeeringInv, HandlersAre
<1>2. ASSUME NEW kind, NEW step, Asks(c, kind, step)
      PROVE  /\ handler[c].step = "idle"
             /\ \E r : handler' = [handler EXCEPT ![c] = r] /\ IsHandler(r)
             /\ UNCHANGED <<stream, updates, peering>>
  <2>. DEFINE r == [Unasked EXCEPT !.kind = kind, !.step = step]
  <2>1. IsHandler(r) BY DEF IsHandler, Unasked
  <2>2. handler[c].step = "idle" /\ handler' = [handler EXCEPT ![c] = r]
        /\ UNCHANGED <<stream, updates, peering>>
    BY <1>2 DEF Asks, Handles, Calls
  <2>. HIDE DEF r
  <2> QED BY <2>1, <2>2
<1>3. ASSUME NEW answer, AtOnce(c, answer)
      PROVE  /\ handler[c].step = "idle"
             /\ \E r : handler' = [handler EXCEPT ![c] = r] /\ IsHandler(r)
             /\ UNCHANGED <<stream, updates, peering>>
  <2>. DEFINE r == [Unasked EXCEPT !.kind = "described", !.step = "answered", !.answer = answer]
  <2>1. IsHandler(r) BY DEF IsHandler, Unasked
  <2>2. handler[c].step = "idle" /\ handler' = [handler EXCEPT ![c] = r]
        /\ UNCHANGED <<stream, updates, peering>>
    BY <1>3 DEF AtOnce, Handles, Calls
  <2>. HIDE DEF r
  <2> QED BY <2>1, <2>2
<1>4. CASE AppSettingsRead(c)
  <2>. DEFINE b == {updates[i] : i \in DOMAIN updates}
              r == [Unasked EXCEPT !.kind = "read", !.step = "awaiting", !.behind = b]
  <2>1. handler[c].step = "idle" /\ handler' = [handler EXCEPT ![c] = r]
        /\ UNCHANGED <<stream, updates, peering>>
    BY <1>4 DEF AppSettingsRead, Handles, Calls
  <2>. HIDE DEF b
  <2>2. IsHandler(r) BY DEF IsHandler, Unasked
  <2>. HIDE DEF r
  <2> QED BY <2>1, <2>2
<1>5. CASE Calls(c, [Unasked EXCEPT !.kind = "stopReplay", !.step = "ending"])
           /\ handler[c].step = "idle" /\ UNCHANGED <<stream, updates, peering>>
  <2>. DEFINE r == [Unasked EXCEPT !.kind = "stopReplay", !.step = "ending"]
  <2>1. IsHandler(r) BY DEF IsHandler, Unasked
  <2>2. handler[c].step = "idle" /\ handler' = [handler EXCEPT ![c] = r]
        /\ UNCHANGED <<stream, updates, peering>>
    BY <1>5 DEF Calls
  <2>. HIDE DEF r
  <2> QED BY <2>1, <2>2
<1>6. CASE MessageOfViewer(c)
  <2>. DEFINE r == GestureQueues(c)
  <2>1. IsHandler(r) BY <1>1 DEF GestureQueues, Told, IsHandler
  <2>2. handler[c].step = "idle" /\ handler' = [handler EXCEPT ![c] = r]
        /\ UNCHANGED <<stream, updates, peering>>
    BY <1>6 DEF MessageOfViewer, Handles, Calls
  <2>. HIDE DEF r
  <2> QED BY <2>1, <2>2
<1>7. \/ AppSettingsRead(c) \/ MessageOfViewer(c)
      \/ Calls(c, [Unasked EXCEPT !.kind = "stopReplay", !.step = "ending"])
         /\ handler[c].step = "idle" /\ UNCHANGED <<stream, updates, peering>>
      \/ \E kind, step : Asks(c, kind, step)
      \/ \E answer : AtOnce(c, answer)
  BY DEF AppRoutes, AppDevicesRoute, AppNetworkRoute, AppFontScaleRoute, AppReduceMotionRoute,
     AppHighTextContrastRoute, AppFontWeightRoute, AppDisplayDensityRoute, AppOrientationRoute,
     AppScreenshotRoute, AppForegroundRoute, AppAccessibilityRoute, AppCommandRoute,
     AppNightModeRoute, AppLocationRoute, AppRouteRoute, AppRouteControlRoute, AppGestureRoute,
     AppKeyRoute, AppReplayRoute, AppSettingsRoute, OfferRoute, CloseRoute, DeviceRoute,
     ReadRoute, PostRoute, Refuses, AppStatsRoute, AppStatusRoute, AppHealthRoute,
     AppSessionRoute, AppLogcatRoute, AppReplayStopRoute
<1> QED BY <1>2, <1>3, <1>4, <1>5, <1>6, <1>7

LEMMA AnswerIs ==
  ASSUME NEW c \in Callers, IsHandler(handler[c]), NEW answer, NEW step
  PROVE  /\ IsHandler(Told(c, answer)) /\ Told(c, answer).step = "answered"
         /\ Told(c, answer).answer = answer
         /\ IsHandler(Steps(c, step)) /\ Steps(c, step).step = step
BY DEF IsHandler, Told, Steps

\* The body of a request: what it asks for begins.
LEMMA RequestBodyGoesOn ==
  ASSUME NEW c \in Callers, PeeringInv, AppBodyRead(c)
  PROVE  PeeringInv'
<1>1. /\ HandlersAre(handler) /\ IsStream(stream) /\ PeeringIs(peering) /\ IsHandler(handler[c])
      /\ ChainIs(updates, handler) /\ PeersAre(peering, handler) /\ handler[c].step = "body"
      /\ (~AppStreams => ~peering.open) /\ c \notin peering.peers
      /\ (stream.step # "none" => updates # <<>>)
  <2>1. handler[c].step = "body" BY DEF AppBodyRead
  <2> QED BY ONLY <2>1, PeeringInv, c \in Callers DEF PeeringInv, HandlersAre, PeersAre
<1>2. ASSUME NEW r, Handles(c, r), IsHandler(r) PROVE PeeringInv'
  <2>1. handler' = [handler EXCEPT ![c] = r] /\ UNCHANGED <<stream, updates, peering>>
    BY <1>2 DEF Handles, Calls
  <2>2. HandlersAre(handler') /\ ChainIs(updates, handler') /\ PeersAre(peering, handler')
    BY <1>1, <1>2, <2>1, OneMoves
  <2> QED BY <1>1, <2>1, <2>2 DEF PeeringInv, AppStreams
<1>3. ASSUME NEW answer, NEW step
      PROVE  IsHandler(Told(c, answer)) /\ IsHandler(Steps(c, step)) /\ Steps(c, step).step = step
  BY <1>1, AnswerIs
<1>4. IsHandler(GestureQueues(c)) BY <1>1 DEF GestureQueues, Told, IsHandler
<1>5. CASE ReplayStarts(c)
  <2>1. CASE Handles(c, Told(c, "conflict")) BY <1>2, <1>3, <2>1
  <2>2. CASE Calls(c, Told(c, "ok")) /\ UNCHANGED <<stream, updates, peering>>
    <3>1. handler' = [handler EXCEPT ![c] = Told(c, "ok")] BY <2>2 DEF Calls
    <3>2. HandlersAre(handler') /\ ChainIs(updates, handler') /\ PeersAre(peering, handler')
      BY <1>1, <1>3, <3>1, OneMoves
    <3> QED BY <1>1, <2>2, <3>2 DEF PeeringInv, AppStreams
  <2> QED BY <1>5, <2>1, <2>2 DEF ReplayStarts
<1>6. CASE updates' = Append(updates, c) /\ Calls(c, Steps(c, "chained"))
           /\ UNCHANGED <<stream, replaying, peering>>
  <2>. DEFINE u == Append(updates, c)
  <2>1. handler' = [handler EXCEPT ![c] = Steps(c, "chained")] BY <1>6 DEF Calls
  <2>2. HandlersAre(handler') /\ ChainIs(updates, handler') /\ PeersAre(peering, handler')
    BY <1>1, <1>3, <2>1, OneMoves
  <2>3. /\ updates \in Seq(Callers) /\ Len(updates) \in Nat /\ u \in Seq(Callers)
        /\ Len(u) = Len(updates) + 1 /\ u[Len(updates) + 1] = c
        /\ \A i \in 1..Len(updates) : u[i] = updates[i]
    BY <1>1, AppendProperties, LenProperties DEF ChainIs
  <2>4. handler'[c].step = "chained" BY <1>1, <1>3, <2>1 DEF HandlersAre
  <2>5. \A i \in 1..Len(updates) : updates[i] # c BY <1>1 DEF ChainIs
  <2>. HIDE DEF u
  <2>6. \A i \in 1..Len(u) : i \in 1..Len(updates) \/ i = Len(updates) + 1 BY <2>3
  <2>7. ChainIs(u, handler') BY <2>2, <2>3, <2>4, <2>5, <2>6 DEF ChainIs
  <2>8. updates' # <<>> BY <1>6, <2>3 DEF u
  <2> QED BY <1>1, <1>6, <2>2, <2>7, <2>8 DEF PeeringInv, AppStreams, u
<1>7. CASE AppOfferArrives(c)
  <2>1. CASE Handles(c, Told(c, "failed")) BY <1>2, <1>3, <2>1
  <2>2. ASSUME AppStreams,
               peering' = IF peering.open THEN [peering EXCEPT !.peers = @ \cup {c}]
                          ELSE [peering EXCEPT !.task = IF @ = 0 THEN stream.gen ELSE @],
               Calls(c, Steps(c, IF peering.open THEN "offering" ELSE "publisher")),
               UNCHANGED <<stream, updates, replaying>>
        PROVE  PeeringInv'
    <3>. DEFINE s == IF peering.open THEN "offering" ELSE "publisher"
                t == IF peering.task = 0 THEN stream.gen ELSE peering.task
                r == Steps(c, s)
    <3>1. handler' = [handler EXCEPT ![c] = r] BY <2>2 DEF Calls
    <3>2. IsHandler(r) /\ r.step = s BY <1>3
    <3>. HIDE DEF t, r
    <3>3. HandlersAre(handler') /\ ChainIs(updates, handler') /\ PeersAre(peering, handler')
      BY <1>1, <3>1, <3>2, OneMoves
    <3>4. handler'[c].step = s BY <1>1, <3>1, <3>2 DEF HandlersAre
    <3>5. peering' = IF peering.open THEN [peering EXCEPT !.peers = @ \cup {c}]
                     ELSE [peering EXCEPT !.task = t]
      BY <2>2 DEF t
    <3>6. PeeringIs(peering') /\ PeersAre(peering', handler')
      BY <1>1, <3>3, <3>4, <3>5 DEF PeeringIs, PeersAre
    <3> QED BY <1>1, <2>2, <3>3, <3>6 DEF PeeringInv, AppStreams
  <2> QED BY <1>7, <2>1, <2>2 DEF AppOfferArrives
<1>8. CASE Closed(c)
  <2>1. CASE ~peering.open BY <1>2, <1>3, <1>8, <2>1 DEF Closed
  <2>2. CASE peering.open
    <3>1. PICK peer \in Callers : peering' = [peering EXCEPT !.peers = @ \ {peer}]
                                  /\ Calls(c, Told(c, "ok")) /\ UNCHANGED <<stream, updates, replaying>>
      BY <1>8, <2>2 DEF Closed
    <3>2. handler' = [handler EXCEPT ![c] = Told(c, "ok")] BY <3>1 DEF Calls
    <3>3. HandlersAre(handler') /\ ChainIs(updates, handler') /\ PeersAre(peering, handler')
      BY <1>1, <1>3, <3>2, OneMoves
    <3>4. PeeringIs(peering') /\ PeersAre(peering', handler') /\ peering'.open = peering.open
      BY <1>1, <3>1, <3>3 DEF PeeringIs, PeersAre
    <3> QED BY <1>1, <3>1, <3>3, <3>4 DEF PeeringInv, AppStreams
  <2> QED BY <2>1, <2>2
<1>9. \/ \E answer : Handles(c, Told(c, answer))
      \/ Handles(c, Steps(c, "asking"))
      \/ Handles(c, GestureQueues(c))
      \/ ReplayStarts(c) \/ AppOfferArrives(c) \/ Closed(c)
      \/ updates' = Append(updates, c) /\ Calls(c, Steps(c, "chained"))
         /\ UNCHANGED <<stream, replaying, peering>>
  BY DEF AppBodyRead, BodyRefused, GestureBodyRead, CommandBodyRead, SettingsAreChained
<1> QED BY <1>2, <1>3, <1>4, <1>5, <1>6, <1>7, <1>8, <1>9

\* The first update of the chain has its answer.
LEMMA UpdatedIs ==
  ASSUME NEW answer, PeeringInv, updates # <<>>, Updated(answer)
  PROVE  HandlersAre(handler') /\ ChainIs(updates', handler') /\ PeersAre(peering, handler')
<1>. DEFINE c == Head(updates)
            r == Told(c, answer)
<1>1. /\ HandlersAre(handler) /\ PeeringIs(peering)
      /\ ChainIs(updates, handler) /\ PeersAre(peering, handler)
  BY DEF PeeringInv
<1>2. c \in Callers BY <1>1, HeadTailProperties DEF ChainIs
<1>3. handler' = [handler EXCEPT ![Head(updates)] = r] /\ updates' = Tail(updates)
  BY DEF Updated, Calls
<1>4. IsHandler(r)
  <2>1. IsHandler(handler[c]) BY <1>1, <1>2 DEF HandlersAre
  <2>. HIDE DEF c
  <2> QED BY <1>2, <2>1, AnswerIs
<1>. HIDE DEF r
<1> QED BY <1>1, <1>3, <1>4, FirstMoves

LEMMA PeeringGoesOn == PeeringInv /\ AppRequestsNext => PeeringInv'
<1>1. ASSUME PeeringInv, AppRequestsNext PROVE PeeringInv'
  <2>1. /\ HandlersAre(handler) /\ IsStream(stream) /\ PeeringIs(peering)
        /\ ChainIs(updates, handler) /\ PeersAre(peering, handler)
        /\ (~AppStreams => ~peering.open)
        /\ (stream.step # "none" => updates # <<>>)
    BY <1>1 DEF PeeringInv
  <2>2. ASSUME NEW c \in Callers, NEW r, handler' = [handler EXCEPT ![c] = r], IsHandler(r),
               handler[c].step = "chained" => r.step = "chained",
               c \in peering.peers => r.step = "offering" \/ (r.step = "answered" /\ r.answer = "ok"),
               UNCHANGED <<stream, updates, peering>>
        PROVE  PeeringInv'
    <3>1. HandlersAre(handler') /\ ChainIs(updates, handler') /\ PeersAre(peering, handler')
      BY <2>1, <2>2, OneMoves
    <3> QED BY <2>1, <2>2, <3>1 DEF PeeringInv, AppStreams
  <2>3. ASSUME NEW c \in Callers, AppRoutes(c) PROVE PeeringInv'
    <3>1. PICK r : handler' = [handler EXCEPT ![c] = r] /\ IsHandler(r)
      BY <1>1, <2>3, RouteIsTaken
    <3>2. handler[c].step = "idle" /\ UNCHANGED <<stream, updates, peering>>
      BY <1>1, <2>3, RouteIsTaken
    <3>3. c \notin peering.peers BY <2>1, <3>2 DEF PeersAre
    <3> QED BY <2>2, <3>1, <3>2, <3>3
  <2>4. ASSUME NEW c \in Callers, AppBodyRead(c) PROVE PeeringInv'
    BY <1>1, <2>4, RequestBodyGoesOn
  <2>5. ASSUME NEW c \in Callers,
               \/ AppSettingsTold(c) \/ AppCommandEnds(c) \/ AppGestureEnds(c) \/ AppReplayStopped(c)
        PROVE  PeeringInv'
    <3>1. IsHandler(handler[c]) BY <2>1 DEF HandlersAre
    <3>2. PICK answer : Handles(c, Told(c, answer))
      BY <2>5 DEF AppSettingsTold, AppCommandEnds, AppGestureEnds, AppReplayStopped
    <3>3. handler[c].step \in {"awaiting", "asking", "settled", "ending"}
      BY <2>5 DEF AppSettingsTold, AppCommandEnds, AppGestureEnds, AppReplayStopped
    <3>4. c \notin peering.peers BY <2>1, <3>3 DEF PeersAre
    <3>5. IsHandler(Told(c, answer)) BY <3>1, AnswerIs
    <3>6. handler' = [handler EXCEPT ![c] = Told(c, answer)] /\ UNCHANGED <<stream, updates, peering>>
      BY <3>2 DEF Handles, Calls
    <3> QED BY <2>2, <3>3, <3>4, <3>5, <3>6
  <2>6. ASSUME NEW c \in Callers, AppGestureSettles(c) PROVE PeeringInv'
    <3>1. IsHandler(handler[c]) /\ handler[c].step = "queued"
      BY <2>1, <2>6 DEF HandlersAre, AppGestureSettles
    <3>2. PICK carried \in BOOLEAN :
            Handles(c, [handler[c] EXCEPT !.step = "settled", !.carried = carried])
      BY <2>6 DEF AppGestureSettles
    <3>. DEFINE r == [handler[c] EXCEPT !.step = "settled", !.carried = carried]
    <3>3. IsHandler(r) BY <3>1 DEF IsHandler
    <3>4. handler' = [handler EXCEPT ![c] = r] /\ UNCHANGED <<stream, updates, peering>>
      BY <3>2 DEF Handles, Calls
    <3>5. c \notin peering.peers BY <2>1, <3>1 DEF PeersAre
    <3>. HIDE DEF r
    <3> QED BY <2>2, <3>1, <3>3, <3>4, <3>5
  <2>7. ASSUME NEW c \in Callers, ClientGone(c) PROVE PeeringInv'
    <3>1. IsHandler(handler[c]) /\ handler[c].step # "answered"
      BY <2>1, <2>7 DEF HandlersAre, ClientGone
    <3>. DEFINE r == [handler[c] EXCEPT !.aborted = TRUE]
    <3>2. IsHandler(r) /\ r.step = handler[c].step BY <3>1 DEF IsHandler
    <3>3. handler' = [handler EXCEPT ![c] = r] /\ UNCHANGED <<stream, updates, peering>>
      BY <2>7 DEF ClientGone, Handles, Calls
    <3>4. c \in peering.peers => handler[c].step = "offering" BY <2>1, <3>1 DEF PeersAre
    <3>. HIDE DEF r
    <3> QED BY <2>2, <3>2, <3>3, <3>4
  <2>8. ASSUME NEW c \in Callers, OfferEnds(c) PROVE PeeringInv'
    <3>1. IsHandler(handler[c]) /\ handler[c].step = "offering" /\ UNCHANGED <<stream, updates>>
      BY <2>1, <2>8 DEF HandlersAre, OfferEnds
    <3>2. CASE Calls(c, Told(c, "ok")) /\ UNCHANGED peering
      <4>1. handler' = [handler EXCEPT ![c] = Told(c, "ok")] BY <3>2 DEF Calls
      <4>2. /\ IsHandler(Told(c, "ok")) /\ Told(c, "ok").step = "answered"
            /\ Told(c, "ok").answer = "ok"
        BY <3>1, AnswerIs
      <4> QED BY <2>2, <3>1, <3>2, <4>1, <4>2
    <3>3. ASSUME NEW answer, Calls(c, Told(c, answer)),
                 peering' = [peering EXCEPT !.peers = @ \ {c}]
          PROVE  PeeringInv'
      <4>1. handler' = [handler EXCEPT ![c] = Told(c, answer)] BY <3>3 DEF Calls
      <4>2. IsHandler(Told(c, answer)) BY <3>1, AnswerIs
      <4>3. /\ PeeringIs(peering') /\ PeersAre(peering', handler) /\ c \notin peering'.peers
            /\ peering'.open = peering.open
        BY <2>1, <3>3 DEF PeeringIs, PeersAre
      <4>4. HandlersAre(handler') /\ ChainIs(updates, handler') /\ PeersAre(peering', handler')
        BY <2>1, <3>1, <4>1, <4>2, <4>3, OneMoves
      <4> QED BY <2>1, <3>1, <4>3, <4>4 DEF PeeringInv, AppStreams
    <3> QED BY <2>8, <3>2, <3>3 DEF OfferEnds
  <2>9. CASE AppReplayEnds BY <2>1, <2>9 DEF AppReplayEnds, PeeringInv, AppStreams
  <2>10. CASE SettingsUpdateBegins
    <3>1. updates # <<>> /\ stream.step = "none" /\ UNCHANGED peering
      BY <2>10 DEF SettingsUpdateBegins
    <3>2. ASSUME NEW answer, Updated(answer), UNCHANGED stream PROVE PeeringInv'
      <4>1. HandlersAre(handler') /\ ChainIs(updates', handler') /\ PeersAre(peering, handler')
        BY <1>1, <3>1, <3>2, UpdatedIs
      <4> QED BY <2>1, <3>1, <3>2, <4>1 DEF PeeringInv, AppStreams
    <3>3. ASSUME stream' = [stream EXCEPT !.restarting = TRUE, !.gen = @ + 1, !.step = "closing"],
                 UNCHANGED <<updates, handler>>
          PROVE  PeeringInv'
      <4>. DEFINE k == stream.gen + 1
      <4>1. stream' = [stream EXCEPT !.restarting = TRUE, !.gen = k, !.step = "closing"] BY <3>3
      <4>. HIDE DEF k
      <4>2. IsStream(stream') /\ stream'.status = stream.status BY <2>1, <4>1 DEF IsStream
      <4> QED BY <2>1, <3>1, <3>3, <4>2 DEF PeeringInv, AppStreams
    <3> QED BY <2>10, <3>2, <3>3 DEF SettingsUpdateBegins
  <2>11. CASE PreviousCloses
    <3>1. PICK step : stream' = [stream EXCEPT !.step = step] BY <2>11 DEF PreviousCloses
    <3>2. IsStream(stream') /\ stream'.status = stream.status BY <2>1, <3>1 DEF IsStream
    <3> QED BY <2>1, <2>11, <3>2 DEF PreviousCloses, PeeringInv, AppStreams
  <2>12. CASE ReplacementOpens
    <3>. DEFINE over == [stream EXCEPT !.step = "none"]
    <3>1. stream.step \in {"replacing", "rollback"} /\ updates # <<>>
      BY <2>1, <2>12 DEF ReplacementOpens
    <3>2. IsStream(over) /\ over.status = stream.status /\ over.step = "none" BY <2>1 DEF IsStream
    <3>3. ASSUME NEW answer, Updated(answer)
          PROVE  HandlersAre(handler') /\ ChainIs(updates', handler') /\ PeersAre(peering, handler')
      BY <1>1, <3>1, <3>3, UpdatedIs
    <3>4. ASSUME NEW answer, Updated(answer), UNCHANGED peering,
                 \/ stream' = over
                 \/ stream' = [over EXCEPT !.gen = @ + 1, !.restarting = FALSE]
          PROVE  PeeringInv'
      <4>. DEFINE k == over.gen + 1
      <4>1. stream' = over \/ stream' = [over EXCEPT !.gen = k, !.restarting = FALSE] BY <3>4
      <4>. HIDE DEF over, k
      <4>2. IsStream(stream') /\ stream'.status = stream.status /\ stream'.step = "none"
        BY <3>2, <4>1 DEF IsStream
      <4> QED BY <2>1, <3>3, <3>4, <4>2 DEF PeeringInv, AppStreams
    <3>5. ASSUME stream' = [stream EXCEPT !.step = "rollback"], UNCHANGED <<updates, handler, peering>>
          PROVE  PeeringInv'
      <4>1. IsStream(stream') /\ stream'.status = stream.status BY <2>1, <3>5 DEF IsStream
      <4> QED BY <2>1, <3>1, <3>5, <4>1 DEF PeeringInv, AppStreams
    <3>6. ASSUME Updated("failed"), stream' = AppFallen(over), peering' = NoPublisher
          PROVE  PeeringInv'
      <4>1. stream' = [over EXCEPT !.status = "error", !.restarting = FALSE] BY <3>6 DEF AppFallen
      <4>. HIDE DEF over
      <4>2. IsStream(stream') /\ stream'.step = "none" BY <3>2, <4>1 DEF IsStream
      <4>3. PeeringIs(peering') /\ ~peering'.open /\ peering'.peers = {}
        BY <2>1, <3>6 DEF NoPublisher, PeeringIs
      <4>4. HandlersAre(handler') /\ ChainIs(updates', handler') BY <3>3, <3>6
      <4>5. PeersAre(peering', handler') BY <4>3 DEF PeersAre
      <4> QED BY <4>2, <4>3, <4>4, <4>5 DEF PeeringInv
    <3> QED BY <2>12, <3>4, <3>5, <3>6 DEF ReplacementOpens
  <2>13. CASE AppEnds
    <3>1. PICK status \in {"error", "stopped"} : stream' = [AppFallen(stream) EXCEPT !.status = status]
      BY <2>13 DEF AppEnds
    <3>2. IsStream(stream') /\ stream'.step = stream.step
      BY <2>1, <3>1 DEF IsStream, AppFallen
    <3>3. PeeringIs(peering') /\ ~peering'.open /\ peering'.peers = {}
      BY <2>1, <2>13 DEF AppEnds, NoPublisher, PeeringIs
    <3>4. UNCHANGED <<updates, handler>> BY <2>13 DEF AppEnds
    <3>5. PeersAre(peering', handler') BY <3>3 DEF PeersAre
    <3> QED BY <2>1, <3>2, <3>3, <3>4, <3>5 DEF PeeringInv
  <2>14. CASE AppPublisherOpens
    <3>. DEFINE offers == {c \in Callers : handler[c].step = "publisher" /\ handler[c].kind = "offer"}
                closes == {c \in Callers : handler[c].step = "publisher" /\ handler[c].kind = "close"}
                Reply(up) == [c \in Callers |->
                  IF c \in closes THEN Told(c, "ok")
                  ELSE IF c \in offers THEN (IF up THEN Steps(c, "offering") ELSE Told(c, "failed"))
                  ELSE handler[c]]
    <3>1. \/ /\ AppStreams /\ peering' = [open |-> TRUE, task |-> 0, peers |-> offers]
             /\ handler' = Reply(TRUE)
          \/ peering' = [peering EXCEPT !.task = 0] /\ handler' = Reply(FALSE)
      BY <2>14 DEF AppPublisherOpens
    <3>2. UNCHANGED <<stream, updates>> BY <2>14 DEF AppPublisherOpens
    <3>3. \A c \in Callers : /\ IsHandler(handler[c])
                             /\ IsHandler(Told(c, "ok")) /\ IsHandler(Told(c, "failed"))
                             /\ IsHandler(Steps(c, "offering")) /\ Steps(c, "offering").step = "offering"
      BY <2>1, AnswerIs DEF HandlersAre
    <3>4. offers \subseteq Callers /\ closes \subseteq Callers /\ offers \cap closes = {}
          /\ \A c \in offers \cup closes : handler[c].step = "publisher"
      OBVIOUS
    <3>5. ASSUME NEW up \in BOOLEAN, handler' = Reply(up)
          PROVE  /\ HandlersAre(handler') /\ ChainIs(updates, handler')
                 /\ \A c \in Callers \ (offers \cup closes) : handler'[c] = handler[c]
                 /\ up => \A c \in offers : handler'[c].step = "offering"
      <4>. HIDE DEF offers, closes
      <4>1. handler' = [c \in Callers |-> handler'[c]] BY <3>5
      <4>2. \A c \in Callers : IsHandler(handler'[c]) BY <3>3, <3>5
      <4>3. \A c \in Callers \ (offers \cup closes) : handler'[c] = handler[c] BY <3>5
      <4>4. up => \A c \in offers : handler'[c].step = "offering" BY <3>3, <3>4, <3>5
      <4>5. \A i \in 1..Len(updates) : updates[i] \in Callers \ (offers \cup closes)
        <5>1. ASSUME NEW i \in 1..Len(updates) PROVE updates[i] \in Callers \ (offers \cup closes)
          <6>1. updates[i] \in Callers /\ handler[updates[i]].step = "chained"
            BY <2>1, ElementOfSeq DEF ChainIs
          <6> QED BY <3>4, <6>1
        <5> QED BY <5>1
      <4>6. ChainIs(updates, handler') BY <2>1, <4>3, <4>5 DEF ChainIs
      <4> QED BY <4>1, <4>2, <4>3, <4>4, <4>6 DEF HandlersAre
    <3>. HIDE DEF Reply
    <3>6. CASE AppStreams /\ peering' = [open |-> TRUE, task |-> 0, peers |-> offers]
               /\ handler' = Reply(TRUE)
      <4>1. /\ HandlersAre(handler') /\ ChainIs(updates, handler')
            /\ \A c \in offers : handler'[c].step = "offering"
        BY <3>5, <3>6
      <4>. HIDE DEF offers
      <4>2. PeeringIs(peering') /\ PeersAre(peering', handler')
        BY <3>4, <3>6, <4>1 DEF PeeringIs, PeersAre
      <4> QED BY <2>1, <3>2, <3>6, <4>1, <4>2 DEF PeeringInv, AppStreams
    <3>7. CASE peering' = [peering EXCEPT !.task = 0] /\ handler' = Reply(FALSE)
      <4>1. /\ HandlersAre(handler') /\ ChainIs(updates, handler')
            /\ \A c \in Callers \ (offers \cup closes) : handler'[c] = handler[c]
        BY <3>5, <3>7
      <4>2. peering.peers \subseteq Callers \ (offers \cup closes)
        BY <2>1 DEF PeersAre, PeeringIs
      <4>. HIDE DEF offers, closes
      <4>3. PeeringIs(peering') /\ peering'.peers = peering.peers /\ peering'.open = peering.open
        BY <2>1, <3>7 DEF PeeringIs
      <4>4. PeersAre(peering', handler') BY <2>1, <4>1, <4>2, <4>3 DEF PeersAre
      <4> QED BY <2>1, <3>2, <4>1, <4>3, <4>4 DEF PeeringInv, AppStreams
    <3> QED BY <3>1, <3>6, <3>7
  <2> QED
    BY <1>1, <2>3, <2>4, <2>5, <2>6, <2>7, <2>8, <2>9, <2>10, <2>11, <2>12, <2>13, <2>14
    DEF AppRequestsNext
<1> QED BY <1>1

LEMMA PeeringStays == PeeringInv /\ UNCHANGED appRequestsVars => PeeringInv'
BY DEF PeeringInv, appRequestsVars, AppStreams

LEMMA PeeringPromises == PeeringInv => PeersAreWanted
BY DEF PeeringInv, PeersAre, PeersAreWanted

\* What the requests wait for. A request whose update is chained stands in the
\* chain; one that waits for updates waits for such as are chained or over; one
\* that waits for a publisher has one starting; and a gesture has only steps of
\* its own. That a replay keeps its capture needs no more than itself.
HasSteps(r) ==
  /\ r.kind = "gesture" => r.step \in {"body", "queued", "settled", "answered"}
  /\ r.step = "publisher" => r.kind \in {"offer", "close"}
  /\ r.step # "answered" => r.answer = "none"
IsInChain(c, u) == \E i \in 1..Len(u) : u[i] = c
BehindOnes(b, h) ==
  \A d \in b : d \in Callers /\ h[d].step \in {"chained", "answered"}
WaitsOK(h, u, task) ==
  \A c \in Callers :
    /\ HasSteps(h[c])
    /\ h[c].step = "publisher" => task # 0
    /\ h[c].step = "chained" => IsInChain(c, u)
    /\ h[c].step = "awaiting" => BehindOnes(h[c].behind, h)
GenIs(s) == s.gen \in Nat \ {0}

WaitingInv ==
  /\ PeeringInv
  /\ WaitsOK(handler, updates, peering.task)
  /\ GenIs(stream)
  /\ ReplayKeepsItsCapture

LEMMA WaitingStarts == AppRequestsInit => WaitingInv
<1>1. ASSUME AppRequestsInit PROVE WaitingInv
  <2>1. \A c \in Callers : handler[c] = Unasked BY <1>1 DEF AppRequestsInit
  <2>2. Unasked.step = "idle" /\ Unasked.kind = "none" /\ Unasked.answer = "none" BY DEF Unasked
  <2>3. WaitsOK(handler, updates, peering.task) BY <2>1, <2>2 DEF WaitsOK, HasSteps
  <2>4. GenIs(stream) /\ ReplayKeepsItsCapture
    BY <1>1 DEF AppRequestsInit, GenIs, ReplayKeepsItsCapture
  <2> QED BY <1>1, <2>3, <2>4, PeeringStarts DEF WaitingInv
<1> QED BY <1>1

\* One request moves on. It does not leave the chain but with its answer.
LEMMA OneWaits ==
  ASSUME NEW c \in Callers, NEW r, NEW h, NEW u, NEW t, NEW s,
         HandlersAre(h), WaitsOK(h, u, t), HasSteps(r),
         t # 0 => s # 0,
         h[c].step \in {"chained", "answered"} => r.step \in {"chained", "answered"},
         r.step = "publisher" => s # 0,
         r.step = "chained" => IsInChain(c, u),
         r.step = "awaiting" => BehindOnes(r.behind, h)
  PROVE  WaitsOK([h EXCEPT ![c] = r], u, s)
<1>. DEFINE k == [h EXCEPT ![c] = r]
<1>1. k[c] = r /\ \A d \in Callers : d # c => k[d] = h[d] BY DEF HandlersAre
<1>. HIDE DEF k
<1>2. ASSUME NEW b, BehindOnes(b, h) PROVE BehindOnes(b, k)
  BY <1>1, <1>2 DEF BehindOnes
<1>3. ASSUME NEW d \in Callers
      PROVE  /\ HasSteps(k[d]) /\ (k[d].step = "publisher" => s # 0)
             /\ (k[d].step = "chained" => IsInChain(d, u))
             /\ (k[d].step = "awaiting" => BehindOnes(k[d].behind, k))
  <2>1. CASE d = c BY <1>1, <1>2, <2>1
  <2>2. CASE d # c
    <3>1. k[d] = h[d] BY <1>1, <2>2
    <3>2. /\ HasSteps(h[d]) /\ (h[d].step = "publisher" => t # 0)
          /\ (h[d].step = "chained" => IsInChain(d, u))
          /\ (h[d].step = "awaiting" => BehindOnes(h[d].behind, h))
      BY DEF WaitsOK
    <3> QED BY <1>2, <3>1, <3>2
  <2> QED BY <2>1, <2>2
<1> QED BY <1>3 DEF WaitsOK, k

\* The first of the chain has its answer: the others stand where they stood,
\* one place further on.
LEMMA FirstIsServed ==
  ASSUME NEW r, NEW h, NEW u, NEW t, HandlersAre(h), ChainIs(u, h), WaitsOK(h, u, t), u # <<>>,
         HasSteps(r), r.step = "answered"
  PROVE  WaitsOK([h EXCEPT ![Head(u)] = r], Tail(u), t)
<1>. DEFINE c == Head(u)
            k == [h EXCEPT ![c] = r]
            v == Tail(u)
<1>1. /\ u \in Seq(Callers) /\ Len(u) \in Nat /\ Len(u) # 0 /\ c = u[1] /\ c \in Callers
      /\ Len(v) = Len(u) - 1 /\ \A i \in 1..Len(v) : v[i] = u[i + 1]
  BY HeadTailProperties, EmptySeq, LenProperties DEF ChainIs
<1>2. k[c] = r /\ \A d \in Callers : d # c => k[d] = h[d] BY <1>1 DEF HandlersAre
<1>. HIDE DEF k, c, v
<1>3. ASSUME NEW b, BehindOnes(b, h) PROVE BehindOnes(b, k)
  BY <1>2, <1>3 DEF BehindOnes
<1>4. ASSUME NEW d \in Callers, d # c, IsInChain(d, u) PROVE IsInChain(d, v)
  <2>1. \E i \in 1..Len(u) : u[i] = d BY <1>4 DEF IsInChain
  <2>2. ASSUME NEW i \in 1..Len(u), u[i] = d PROVE \E j \in 1..Len(v) : v[j] = d
    <3>1. i # 1 BY <1>1, <1>4, <2>2
    <3>2. i - 1 \in 1..Len(v) /\ v[i - 1] = u[(i - 1) + 1] /\ (i - 1) + 1 = i BY <1>1, <3>1
    <3> QED BY <2>2, <3>2
  <2> QED BY <2>1, <2>2 DEF IsInChain
<1>5. ASSUME NEW d \in Callers
      PROVE  /\ HasSteps(k[d]) /\ (k[d].step = "publisher" => t # 0)
             /\ (k[d].step = "chained" => IsInChain(d, v))
             /\ (k[d].step = "awaiting" => BehindOnes(k[d].behind, k))
  <2>1. CASE d = c BY <1>2, <2>1
  <2>2. CASE d # c
    <3>1. k[d] = h[d] BY <1>2, <2>2
    <3>2. /\ HasSteps(h[d]) /\ (h[d].step = "publisher" => t # 0)
          /\ (h[d].step = "chained" => IsInChain(d, u))
          /\ (h[d].step = "awaiting" => BehindOnes(h[d].behind, h))
      BY DEF WaitsOK
    <3> QED BY <1>3, <1>4, <2>2, <3>1, <3>2
  <2> QED BY <2>1, <2>2
<1> QED BY <1>5 DEF WaitsOK, k, c, v

LEMMA ToldIs ==
  ASSUME NEW c \in Callers, IsHandler(handler[c]), HasSteps(handler[c]), NEW answer
  PROVE  HasSteps(Told(c, answer)) /\ Told(c, answer).step = "answered"
BY DEF IsHandler, HasSteps, Told

\* A step of one request, the chain unchanged.
LEMMA OneSteps ==
  ASSUME NEW c \in Callers, NEW r, WaitingInv, PeeringInv', handler' = [handler EXCEPT ![c] = r],
         UNCHANGED updates, HasSteps(r), peering.task # 0 => peering'.task # 0,
         handler[c].step \in {"chained", "answered"} => r.step \in {"chained", "answered"},
         r.step = "publisher" => peering'.task # 0,
         r.step = "chained" => IsInChain(c, updates),
         r.step = "awaiting" => BehindOnes(r.behind, handler),
         GenIs(stream'), ReplayKeepsItsCapture',
         r.kind = "gesture" /\ r.answer = "ok" =>
           handler[c].carried /\ handler[c].gen = stream'.gen /\ ~stream'.restarting
  PROVE  WaitingInv' /\ DoneIsOfThisCapture
<1>1. HandlersAre(handler) /\ WaitsOK(handler, updates, peering.task)
  BY DEF WaitingInv, PeeringInv
<1>2. WaitsOK(handler', updates, peering'.task) BY <1>1, OneWaits
<1>3. handler'[c] = r /\ \A d \in Callers : d # c => handler'[d] = handler[d]
  BY <1>1 DEF HandlersAre
<1>4. DoneIsOfThisCapture BY <1>3 DEF DoneIsOfThisCapture
<1> QED BY <1>2, <1>4 DEF WaitingInv

\* A step of no request.
LEMMA NoneSteps ==
  ASSUME WaitingInv, PeeringInv', UNCHANGED <<handler, updates>>,
         peering.task # 0 => peering'.task # 0, GenIs(stream'), ReplayKeepsItsCapture'
  PROVE  WaitingInv' /\ DoneIsOfThisCapture
<1>1. WaitsOK(handler', updates', peering'.task) BY DEF WaitingInv, WaitsOK
<1>2. DoneIsOfThisCapture BY DEF DoneIsOfThisCapture
<1> QED BY <1>1, <1>2 DEF WaitingInv

\* What a route asks for.
LEMMA RouteAsks ==
  ASSUME NEW c \in Callers, WaitingInv, AppRoutes(c)
  PROVE  /\ UNCHANGED <<stream, updates, peering>>
         /\ replaying' = replaying \/ replaying # "none"
         /\ \E r : /\ handler' = [handler EXCEPT ![c] = r] /\ HasSteps(r)
                   /\ r.step \notin {"chained", "publisher"}
                   /\ r.step = "awaiting" => BehindOnes(r.behind, handler)
                   /\ ~(r.kind = "gesture" /\ r.answer = "ok")
<1>. DEFINE IsAsked(r) ==
       /\ HasSteps(r) /\ r.step \notin {"chained", "publisher"}
       /\ r.step = "awaiting" => BehindOnes(r.behind, handler)
       /\ ~(r.kind = "gesture" /\ r.answer = "ok")
<1>1. /\ IsHandler(handler[c]) /\ HasSteps(handler[c]) /\ ChainIs(updates, handler)
  BY DEF WaitingInv, PeeringInv, HandlersAre, WaitsOK
<1>2. ASSUME NEW kind, NEW step, step = "body" \/ (kind = "command" /\ step = "asking"),
             Asks(c, kind, step)
      PROVE  /\ UNCHANGED <<stream, updates, peering, replaying>>
             /\ \E r : handler' = [handler EXCEPT ![c] = r] /\ IsAsked(r)
  <2>. DEFINE r == [Unasked EXCEPT !.kind = kind, !.step = step]
  <2>1. IsAsked(r) BY <1>2 DEF HasSteps, Unasked
  <2>2. handler' = [handler EXCEPT ![c] = r] /\ UNCHANGED <<stream, updates, peering, replaying>>
    BY <1>2 DEF Asks, Handles, Calls
  <2>. HIDE DEF r, IsAsked
  <2> QED BY <2>1, <2>2
<1>3. ASSUME NEW answer, AtOnce(c, answer)
      PROVE  /\ UNCHANGED <<stream, updates, peering, replaying>>
             /\ \E r : handler' = [handler EXCEPT ![c] = r] /\ IsAsked(r)
  <2>. DEFINE r == [Unasked EXCEPT !.kind = "described", !.step = "answered", !.answer = answer]
  <2>1. IsAsked(r) BY DEF HasSteps, Unasked
  <2>2. handler' = [handler EXCEPT ![c] = r] /\ UNCHANGED <<stream, updates, peering, replaying>>
    BY <1>3 DEF AtOnce, Handles, Calls
  <2>. HIDE DEF r, IsAsked
  <2> QED BY <2>1, <2>2
<1>4. ASSUME AppSettingsRead(c)
      PROVE  /\ UNCHANGED <<stream, updates, peering, replaying>>
             /\ \E r : handler' = [handler EXCEPT ![c] = r] /\ IsAsked(r)
  <2>. DEFINE b == {updates[i] : i \in DOMAIN updates}
              r == [Unasked EXCEPT !.kind = "read", !.step = "awaiting", !.behind = b]
  <2>1. handler' = [handler EXCEPT ![c] = r] /\ UNCHANGED <<stream, updates, peering, replaying>>
    BY <1>4 DEF AppSettingsRead, Handles, Calls
  <2>2. BehindOnes(b, handler)
    <3>1. ASSUME NEW i \in DOMAIN updates
          PROVE  updates[i] \in Callers /\ handler[updates[i]].step = "chained"
      <4>1. updates \in Seq(Callers) /\ i \in 1..Len(updates) BY <1>1, <3>1, LenProperties DEF ChainIs
      <4> QED BY <1>1, <4>1, ElementOfSeq DEF ChainIs
    <3> QED BY <3>1 DEF BehindOnes
  <2>. HIDE DEF b
  <2>3. IsAsked(r) BY <2>2 DEF HasSteps, Unasked
  <2>. HIDE DEF r, IsAsked
  <2> QED BY <2>1, <2>3
<1>5. ASSUME Calls(c, [Unasked EXCEPT !.kind = "stopReplay", !.step = "ending"]),
             replaying' = IF replaying = "none" THEN "none" ELSE "cancelling",
             UNCHANGED <<stream, updates, peering>>
      PROVE  /\ replaying' = replaying \/ replaying # "none"
             /\ \E r : handler' = [handler EXCEPT ![c] = r] /\ IsAsked(r)
  <2>. DEFINE r == [Unasked EXCEPT !.kind = "stopReplay", !.step = "ending"]
  <2>1. IsAsked(r) BY DEF HasSteps, Unasked
  <2>2. handler' = [handler EXCEPT ![c] = r] BY <1>5 DEF Calls
  <2>. HIDE DEF r, IsAsked
  <2> QED BY <1>5, <2>1, <2>2
<1>6. ASSUME MessageOfViewer(c)
      PROVE  /\ UNCHANGED <<stream, updates, peering, replaying>>
             /\ \E r : handler' = [handler EXCEPT ![c] = r] /\ IsAsked(r)
  <2>. DEFINE r == GestureQueues(c)
  <2>1. IsAsked(r)
    <3>1. handler[c].step = "idle" BY <1>6 DEF MessageOfViewer
    <3>2. CASE ~AppStreams \/ stream.restarting
      <4>1. r = Told(c, "failed") BY <3>2 DEF GestureQueues
      <4>2. /\ HasSteps(Told(c, "failed")) /\ Told(c, "failed").step = "answered"
            /\ Told(c, "failed").answer = "failed"
        BY <1>1, ToldIs, AnswerIs
      <4>. HIDE DEF r
      <4> QED BY <4>1, <4>2
    <3>3. CASE AppStreams /\ ~stream.restarting
      <4>1. r = [handler[c] EXCEPT !.step = "queued", !.kind = "gesture", !.gen = stream.gen]
        BY <3>3 DEF GestureQueues
      <4> QED BY <1>1, <3>1, <4>1 DEF HasSteps, IsHandler
    <3> QED BY <3>2, <3>3
  <2>2. handler' = [handler EXCEPT ![c] = r] /\ UNCHANGED <<stream, updates, peering, replaying>>
    BY <1>6 DEF MessageOfViewer, Handles, Calls
  <2>. HIDE DEF r, IsAsked
  <2> QED BY <2>1, <2>2
<1>. HIDE DEF IsAsked
<1>7. \/ AppSettingsRead(c) \/ MessageOfViewer(c)
      \/ /\ Calls(c, [Unasked EXCEPT !.kind = "stopReplay", !.step = "ending"])
         /\ replaying' = IF replaying = "none" THEN "none" ELSE "cancelling"
         /\ UNCHANGED <<stream, updates, peering>>
      \/ \E kind : Asks(c, kind, "body")
      \/ Asks(c, "command", "asking")
      \/ \E answer : AtOnce(c, answer)
  BY DEF AppRoutes, AppDevicesRoute, AppNetworkRoute, AppFontScaleRoute, AppReduceMotionRoute,
     AppHighTextContrastRoute, AppFontWeightRoute, AppDisplayDensityRoute, AppOrientationRoute,
     AppScreenshotRoute, AppForegroundRoute, AppAccessibilityRoute, AppCommandRoute,
     AppNightModeRoute, AppLocationRoute, AppRouteRoute, AppRouteControlRoute, AppGestureRoute,
     AppKeyRoute, AppReplayRoute, AppSettingsRoute, OfferRoute, CloseRoute, DeviceRoute,
     ReadRoute, PostRoute, Refuses, AppStatsRoute, AppStatusRoute, AppHealthRoute,
     AppSessionRoute, AppLogcatRoute, AppReplayStopRoute
<1>8. UNCHANGED <<stream, updates, peering>> BY <1>7, <1>2, <1>3, <1>4, <1>6
<1>9. replaying' = replaying \/ replaying # "none" BY <1>7, <1>2, <1>3, <1>4, <1>5, <1>6
<1>10. \E r : handler' = [handler EXCEPT ![c] = r] /\ IsAsked(r)
  <2>1. ASSUME NEW kind, Asks(c, kind, "body")
        PROVE  \E r : handler' = [handler EXCEPT ![c] = r] /\ IsAsked(r)
    BY <1>2, <2>1
  <2>2. ASSUME Asks(c, "command", "asking")
        PROVE  \E r : handler' = [handler EXCEPT ![c] = r] /\ IsAsked(r)
    BY <1>2, <2>2
  <2> QED BY <1>7, <1>3, <1>4, <1>5, <1>6, <2>1, <2>2
<1> QED BY <1>8, <1>9, <1>10 DEF IsAsked

\* The body of a request: it may begin to wait.
LEMMA BodyWaits ==
  ASSUME NEW c \in Callers, WaitingInv, PeeringInv', AppBodyRead(c)
  PROVE  WaitingInv' /\ DoneIsOfThisCapture
<1>1. /\ IsHandler(handler[c]) /\ HasSteps(handler[c]) /\ handler[c].step = "body"
      /\ handler[c].answer = "none" /\ ChainIs(updates, handler) /\ PeeringIs(peering)
      /\ HandlersAre(handler) /\ WaitsOK(handler, updates, peering.task) /\ GenIs(stream)
      /\ ReplayKeepsItsCapture
  BY DEF WaitingInv, PeeringInv, HandlersAre, WaitsOK, AppBodyRead, HasSteps
<1>2. ASSUME NEW r, Calls(c, r), UNCHANGED <<stream, updates>>, HasSteps(r),
             peering.task # 0 => peering'.task # 0,
             r.step \in {"queued", "asking", "offering", "answered"}
             \/ (r.step = "publisher" /\ peering'.task # 0),
             ~(r.kind = "gesture" /\ r.answer = "ok"),
             replaying' = replaying \/ ~stream.restarting
      PROVE  WaitingInv' /\ DoneIsOfThisCapture
  <2>1. handler' = [handler EXCEPT ![c] = r] BY <1>2 DEF Calls
  <2>2. GenIs(stream') /\ ReplayKeepsItsCapture' BY <1>1, <1>2 DEF GenIs, ReplayKeepsItsCapture
  <2> QED BY <1>1, <1>2, <2>1, <2>2, OneSteps
<1>3. ASSUME NEW answer
      PROVE  /\ HasSteps(Told(c, answer)) /\ Told(c, answer).step = "answered"
             /\ Told(c, answer).answer = answer /\ Told(c, answer).kind = handler[c].kind
  BY <1>1 DEF Told, HasSteps, IsHandler
<1>4. ASSUME NEW step
      PROVE  /\ Steps(c, step).step = step /\ Steps(c, step).kind = handler[c].kind
             /\ Steps(c, step).answer = "none"
  BY <1>1 DEF Steps, IsHandler
<1>5. CASE \/ BodyRefused(c)
           \/ handler[c].kind # "gesture" /\ Handles(c, Told(c, "ok"))
           \/ Handles(c, Told(c, "conflict")) \/ Handles(c, Told(c, "failed"))
  <2>1. ASSUME NEW answer, Handles(c, Told(c, answer)),
               handler[c].kind # "gesture" \/ answer # "ok"
        PROVE  WaitingInv' /\ DoneIsOfThisCapture
    <3>1. Calls(c, Told(c, answer)) /\ UNCHANGED <<stream, updates, replaying, peering>>
      BY <2>1 DEF Handles
    <3>2. ~(Told(c, answer).kind = "gesture" /\ Told(c, answer).answer = "ok") BY <1>3, <2>1
    <3> QED BY <1>2, <1>3, <3>1, <3>2
  <2>2. BodyRefused(c) => Handles(c, Told(c, "refused")) BY DEF BodyRefused
  <2> QED BY <1>5, <2>1, <2>2
<1>6. CASE handler[c].kind = "command" /\ CommandBodyRead(c)
  <2>1. Calls(c, Steps(c, "asking")) /\ UNCHANGED <<stream, updates, replaying, peering>>
    BY <1>6 DEF CommandBodyRead, Handles
  <2>2. HasSteps(Steps(c, "asking")) BY <1>4, <1>6 DEF HasSteps
  <2> QED BY <1>2, <1>4, <1>6, <2>1, <2>2
<1>7. CASE handler[c].kind = "gesture" /\ GestureBodyRead(c)
  <2>. DEFINE r == GestureQueues(c)
  <2>1. Calls(c, r) /\ UNCHANGED <<stream, updates, replaying, peering>>
    BY <1>7 DEF GestureBodyRead, Handles
  <2>2. HasSteps(r) /\ r.step \in {"queued", "answered"} /\ r.answer # "ok"
    <3>1. CASE ~AppStreams \/ stream.restarting
      <4>1. r = Told(c, "failed") BY <3>1 DEF GestureQueues
      <4>. HIDE DEF r
      <4> QED BY <1>3, <4>1
    <3>2. CASE AppStreams /\ ~stream.restarting
      <4>1. r = [handler[c] EXCEPT !.step = "queued", !.kind = "gesture", !.gen = stream.gen]
        BY <3>2 DEF GestureQueues
      <4> QED BY <1>1, <4>1 DEF HasSteps, IsHandler
    <3> QED BY <3>1, <3>2
  <2>. HIDE DEF r
  <2> QED BY <1>2, <2>1, <2>2
<1>8. CASE handler[c].kind = "replay" /\ ReplayStarts(c)
  <2>1. CASE Handles(c, Told(c, "conflict")) BY <1>5, <2>1
  <2>2. CASE ~stream.restarting /\ Calls(c, Told(c, "ok")) /\ UNCHANGED <<stream, updates, peering>>
    BY <1>2, <1>3, <1>8, <2>2
  <2> QED BY <1>8, <2>1, <2>2 DEF ReplayStarts
<1>9. CASE handler[c].kind = "settings" /\ SettingsAreChained(c)
  <2>. DEFINE u == Append(updates, c)
              r == Steps(c, "chained")
  <2>1. handler' = [handler EXCEPT ![c] = r] /\ updates' = u /\ UNCHANGED <<stream, replaying, peering>>
    BY <1>9 DEF SettingsAreChained, Calls
  <2>2. /\ Len(updates) \in Nat /\ Len(u) = Len(updates) + 1 /\ u[Len(updates) + 1] = c
        /\ \A i \in 1..Len(updates) : u[i] = updates[i]
    BY <1>1, AppendProperties, LenProperties DEF ChainIs
  <2>3. HasSteps(r) /\ r.step = "chained" /\ r.answer = "none" BY <1>4, <1>9 DEF HasSteps
  <2>. HIDE DEF u, r
  <2>4. ASSUME NEW d, IsInChain(d, updates) PROVE IsInChain(d, u)
    BY <2>2, <2>4 DEF IsInChain
  <2>5. IsInChain(c, u) BY <2>2 DEF IsInChain
  <2>6. WaitsOK(handler, u, peering.task) BY <1>1, <2>4 DEF WaitsOK
  <2>7. WaitsOK(handler', u, peering'.task) BY <1>1, <2>1, <2>3, <2>5, <2>6, OneWaits
  <2>8. handler'[c] = r /\ \A d \in Callers : d # c => handler'[d] = handler[d]
    BY <1>1, <2>1 DEF HandlersAre
  <2>9. DoneIsOfThisCapture BY <2>3, <2>8 DEF DoneIsOfThisCapture
  <2> QED BY <1>1, <2>1, <2>7, <2>9 DEF WaitingInv, GenIs, ReplayKeepsItsCapture
<1>10. CASE handler[c].kind = "offer" /\ AppOfferArrives(c)
  <2>1. CASE Handles(c, Told(c, "failed")) BY <1>5, <2>1
  <2>2. ASSUME peering' = IF peering.open THEN [peering EXCEPT !.peers = @ \cup {c}]
                          ELSE [peering EXCEPT !.task = IF @ = 0 THEN stream.gen ELSE @],
               Calls(c, Steps(c, IF peering.open THEN "offering" ELSE "publisher")),
               UNCHANGED <<stream, updates, replaying>>
        PROVE  WaitingInv' /\ DoneIsOfThisCapture
    <3>. DEFINE s == IF peering.open THEN "offering" ELSE "publisher"
                t == IF peering.task = 0 THEN stream.gen ELSE peering.task
                r == Steps(c, s)
    <3>1. t # 0 BY <1>1 DEF GenIs
    <3>2. peering' = IF peering.open THEN [peering EXCEPT !.peers = @ \cup {c}]
                     ELSE [peering EXCEPT !.task = t]
      BY <2>2 DEF t
    <3>3. r.step = s /\ r.answer = "none" /\ r.kind = "offer" BY <1>4, <1>10
    <3>. HIDE DEF t, r
    <3>4. peering'.task = IF peering.open THEN peering.task ELSE t
      BY <1>1, <3>2 DEF PeeringIs
    <3>5. HasSteps(r) BY <3>3 DEF HasSteps
    <3>6. Calls(c, r) BY <2>2 DEF r
    <3> QED BY <1>2, <2>2, <3>1, <3>3, <3>4, <3>5, <3>6
  <2> QED BY <1>10, <2>1, <2>2 DEF AppOfferArrives
<1>11. CASE handler[c].kind = "close" /\ Closed(c)
  <2>1. CASE ~peering.open /\ peering.task = 0
    BY <1>5, <1>11, <2>1 DEF Closed
  <2>2. CASE ~peering.open /\ peering.task # 0
    <3>1. Calls(c, Steps(c, "publisher")) /\ UNCHANGED <<stream, updates, replaying, peering>>
      BY <1>11, <2>2 DEF Closed, Handles
    <3>2. HasSteps(Steps(c, "publisher")) BY <1>4, <1>11 DEF HasSteps
    <3> QED BY <1>2, <1>4, <2>2, <3>1, <3>2
  <2>3. CASE peering.open
    <3>1. PICK peer \in Callers : peering' = [peering EXCEPT !.peers = @ \ {peer}]
                                  /\ Calls(c, Told(c, "ok")) /\ UNCHANGED <<stream, updates, replaying>>
      BY <1>11, <2>3 DEF Closed
    <3>2. peering'.task = peering.task BY <1>1, <3>1 DEF PeeringIs
    <3> QED BY <1>2, <1>3, <1>11, <3>1, <3>2
  <2> QED BY <2>1, <2>2, <2>3
<1>12. \/ BodyRefused(c)
       \/ handler[c].kind # "gesture" /\ Handles(c, Told(c, "ok"))
       \/ handler[c].kind = "command" /\ CommandBodyRead(c)
       \/ handler[c].kind = "gesture" /\ GestureBodyRead(c)
       \/ handler[c].kind = "replay" /\ ReplayStarts(c)
       \/ handler[c].kind = "settings" /\ SettingsAreChained(c)
       \/ handler[c].kind = "offer" /\ AppOfferArrives(c)
       \/ handler[c].kind = "close" /\ Closed(c)
  BY DEF AppBodyRead
<1> QED BY <1>5, <1>6, <1>7, <1>8, <1>9, <1>10, <1>11, <1>12

\* The first update of the chain is answered.
LEMMA UpdateEndsWaits ==
  ASSUME NEW answer, WaitingInv, PeeringInv', updates # <<>>, Updated(answer),
         peering'.task = peering.task, GenIs(stream'), ReplayKeepsItsCapture'
  PROVE  WaitingInv' /\ DoneIsOfThisCapture
<1>. DEFINE c == Head(updates)
            r == Told(c, answer)
<1>1. /\ HandlersAre(handler) /\ ChainIs(updates, handler) /\ WaitsOK(handler, updates, peering.task)
  BY DEF WaitingInv, PeeringInv
<1>2. c \in Callers /\ handler[c].step = "chained"
  <2>1. /\ updates \in Seq(Callers) /\ Len(updates) \in Nat /\ Len(updates) # 0
        /\ c = updates[1] /\ c \in Callers
    BY <1>1, HeadTailProperties, EmptySeq, LenProperties DEF ChainIs
  <2> QED BY <1>1, <2>1 DEF ChainIs
<1>3. IsHandler(handler[c]) /\ HasSteps(handler[c]) BY <1>1, <1>2 DEF HandlersAre, WaitsOK
<1>4. handler' = [handler EXCEPT ![c] = r] /\ updates' = Tail(updates) BY DEF Updated, Calls
<1>. HIDE DEF c
<1>5. HasSteps(r) /\ r.step = "answered" BY <1>2, <1>3, ToldIs
<1>6. r.kind = handler[c].kind /\ r.kind # "gesture" BY <1>2, <1>3 DEF Told, IsHandler, HasSteps
<1>. HIDE DEF r
<1>7. WaitsOK([handler EXCEPT ![Head(updates)] = r], Tail(updates), peering.task)
  BY <1>1, <1>5, FirstIsServed
<1>8. WaitsOK(handler', updates', peering'.task) BY <1>4, <1>7 DEF c
<1>9. handler'[c] = r /\ \A d \in Callers : d # c => handler'[d] = handler[d]
  BY <1>1, <1>2, <1>4 DEF HandlersAre
<1>10. DoneIsOfThisCapture BY <1>6, <1>9 DEF DoneIsOfThisCapture
<1> QED BY <1>8, <1>10 DEF WaitingInv

\* A publisher comes up, or not: nobody waits for it any more.
LEMMA PublisherIsThere ==
  ASSUME WaitingInv, PeeringInv', AppPublisherOpens
  PROVE  WaitingInv' /\ DoneIsOfThisCapture
<1>. DEFINE offers == {c \in Callers : handler[c].step = "publisher" /\ handler[c].kind = "offer"}
            closes == {c \in Callers : handler[c].step = "publisher" /\ handler[c].kind = "close"}
            Reply(up) == [c \in Callers |->
              IF c \in closes THEN Told(c, "ok")
              ELSE IF c \in offers THEN (IF up THEN Steps(c, "offering") ELSE Told(c, "failed"))
              ELSE handler[c]]
<1>1. /\ WaitsOK(handler, updates, peering.task) /\ GenIs(stream) /\ ReplayKeepsItsCapture
      /\ \A c \in Callers : IsHandler(handler[c]) /\ HasSteps(handler[c])
  BY DEF WaitingInv, PeeringInv, HandlersAre, WaitsOK
<1>2. \E up : handler' = Reply(up) BY DEF AppPublisherOpens
<1>3. UNCHANGED <<stream, updates, replaying>> BY DEF AppPublisherOpens
<1>4. /\ offers \subseteq Callers /\ closes \subseteq Callers
      /\ \A c \in offers : handler[c].step = "publisher" /\ handler[c].kind = "offer"
      /\ \A c \in closes : handler[c].step = "publisher" /\ handler[c].kind = "close"
      /\ \A c \in Callers : handler[c].step = "publisher" => c \in offers \cup closes
  BY <1>1 DEF HasSteps
<1>5. ASSUME NEW c \in offers \cup closes, NEW answer
      PROVE  /\ HasSteps(Told(c, answer)) /\ Told(c, answer).step = "answered"
             /\ Told(c, answer).kind = handler[c].kind
             /\ HasSteps(Steps(c, "offering")) /\ Steps(c, "offering").step = "offering"
             /\ Steps(c, "offering").kind = handler[c].kind
  <2>1. c \in Callers /\ IsHandler(handler[c]) /\ HasSteps(handler[c])
        /\ handler[c].kind \in {"offer", "close"} /\ handler[c].step = "publisher"
    BY <1>1, <1>4
  <2> QED BY <2>1 DEF Told, Steps, HasSteps, IsHandler
<1>. HIDE DEF offers, closes
<1>6. ASSUME NEW c \in Callers, c \in offers \cup closes
      PROVE  /\ HasSteps(handler'[c]) /\ handler'[c].step \in {"answered", "offering"}
             /\ handler'[c].kind # "gesture"
  <2>1. \/ handler'[c] = Told(c, "ok") \/ handler'[c] = Told(c, "failed")
        \/ handler'[c] = Steps(c, "offering")
    BY <1>2, <1>4, <1>6
  <2>2. handler[c].kind # "gesture" BY <1>4, <1>6
  <2> QED BY <1>5, <1>6, <2>1, <2>2
<1>7. ASSUME NEW c \in Callers, c \notin offers \cup closes
      PROVE  handler'[c] = handler[c] /\ handler[c].step # "publisher"
  BY <1>2, <1>4, <1>7
<1>8. ASSUME NEW b, BehindOnes(b, handler) PROVE BehindOnes(b, handler')
  <2>1. ASSUME NEW d \in b PROVE d \in Callers /\ handler'[d].step \in {"chained", "answered"}
    <3>1. d \in Callers /\ handler[d].step \in {"chained", "answered"}
      BY <1>8 DEF BehindOnes
    <3>2. d \notin offers \cup closes BY <1>4, <3>1
    <3> QED BY <1>7, <3>1, <3>2
  <2> QED BY <2>1 DEF BehindOnes
<1>9. ASSUME NEW c \in Callers
      PROVE  /\ HasSteps(handler'[c]) /\ handler'[c].step # "publisher"
             /\ (handler'[c].step = "chained" => IsInChain(c, updates))
             /\ (handler'[c].step = "awaiting" => BehindOnes(handler'[c].behind, handler'))
  <2>1. CASE c \in offers \cup closes BY <1>6, <2>1
  <2>2. CASE c \notin offers \cup closes
    <3>1. handler'[c] = handler[c] /\ handler[c].step # "publisher" BY <1>7, <2>2
    <3>2. /\ HasSteps(handler[c]) /\ (handler[c].step = "chained" => IsInChain(c, updates))
          /\ (handler[c].step = "awaiting" => BehindOnes(handler[c].behind, handler))
      BY <1>1 DEF WaitsOK
    <3> QED BY <1>8, <3>1, <3>2
  <2> QED BY <2>1, <2>2
<1>10. WaitsOK(handler', updates, peering'.task) BY <1>9 DEF WaitsOK
<1>11. DoneIsOfThisCapture
  <2>1. ASSUME NEW c \in Callers, handler'[c].kind = "gesture" PROVE handler'[c] = handler[c]
    BY <1>6, <1>7, <2>1
  <2> QED BY <2>1 DEF DoneIsOfThisCapture
<1> QED BY <1>1, <1>3, <1>10, <1>11 DEF WaitingInv, GenIs, ReplayKeepsItsCapture

\* The update of the settings moves on: while it has the capture closed there
\* is no replay.
LEMMA UpdateWaits ==
  ASSUME WaitingInv, PeeringInv',
         SettingsUpdateBegins \/ PreviousCloses \/ ReplacementOpens \/ AppEnds
  PROVE  WaitingInv' /\ DoneIsOfThisCapture
<1>1. /\ IsStream(stream) /\ GenIs(stream) /\ ReplayKeepsItsCapture /\ PeeringIs(peering)
      /\ (stream.step # "none" => updates # <<>>)
  BY DEF WaitingInv, PeeringInv
<1>2. stream.gen + 1 \in Nat \ {0} BY <1>1 DEF GenIs
<1>3. CASE SettingsUpdateBegins
  <2>1. updates # <<>> /\ UNCHANGED <<replaying, peering>> BY <1>3 DEF SettingsUpdateBegins
  <2>2. ASSUME NEW answer, Updated(answer), UNCHANGED stream
        PROVE  WaitingInv' /\ DoneIsOfThisCapture
    <3>1. GenIs(stream') /\ ReplayKeepsItsCapture'
      BY <1>1, <2>1, <2>2 DEF GenIs, ReplayKeepsItsCapture
    <3> QED BY <2>1, <2>2, <3>1, UpdateEndsWaits
  <2>3. ASSUME replaying = "none", UNCHANGED <<updates, handler>>,
               stream' = [stream EXCEPT !.restarting = TRUE, !.gen = @ + 1, !.step = "closing"]
        PROVE  WaitingInv' /\ DoneIsOfThisCapture
    <3>. DEFINE k == stream.gen + 1
    <3>1. stream' = [stream EXCEPT !.restarting = TRUE, !.gen = k, !.step = "closing"] BY <2>3
    <3>2. k \in Nat \ {0} BY <1>2
    <3>. HIDE DEF k
    <3>3. GenIs(stream') BY <1>1, <3>1, <3>2 DEF IsStream, GenIs
    <3>4. ReplayKeepsItsCapture' BY <2>1, <2>3 DEF ReplayKeepsItsCapture
    <3> QED BY <2>1, <2>3, <3>3, <3>4, NoneSteps
  <2> QED BY <1>3, <2>2, <2>3 DEF SettingsUpdateBegins
<1>4. CASE PreviousCloses
  <2>1. /\ \E step : stream' = [stream EXCEPT !.step = step]
        /\ UNCHANGED <<updates, replaying, peering, handler>>
    BY <1>4 DEF PreviousCloses
  <2>2. stream'.gen = stream.gen /\ stream'.restarting = stream.restarting
    BY <1>1, <2>1 DEF IsStream
  <2>3. GenIs(stream') /\ ReplayKeepsItsCapture'
    BY <1>1, <2>1, <2>2 DEF GenIs, ReplayKeepsItsCapture
  <2> QED BY <2>1, <2>3, NoneSteps
<1>5. CASE ReplacementOpens
  <2>. DEFINE over == [stream EXCEPT !.step = "none"]
  <2>1. updates # <<>> BY <1>1, <1>5 DEF ReplacementOpens
  <2>2. IsStream(over) /\ over.gen = stream.gen /\ over.restarting = stream.restarting
    BY <1>1 DEF IsStream
  <2>3. ASSUME NEW answer, Updated(answer), UNCHANGED <<replaying, peering>>,
               \/ stream' = over
               \/ stream' = [over EXCEPT !.gen = @ + 1, !.restarting = FALSE]
        PROVE  WaitingInv' /\ DoneIsOfThisCapture
    <3>. DEFINE k == over.gen + 1
    <3>1. stream' = over \/ stream' = [over EXCEPT !.gen = k, !.restarting = FALSE] BY <2>3
    <3>2. k \in Nat \ {0} BY <1>2, <2>2
    <3>. HIDE DEF over, k
    <3>3. GenIs(stream') BY <1>1, <2>2, <3>1, <3>2 DEF IsStream, GenIs
    <3>4. stream'.restarting => stream.restarting BY <2>2, <3>1 DEF IsStream
    <3>5. ReplayKeepsItsCapture' BY <1>1, <2>3, <3>4 DEF ReplayKeepsItsCapture
    <3> QED BY <2>1, <2>3, <3>3, <3>5, UpdateEndsWaits
  <2>4. ASSUME stream' = [stream EXCEPT !.step = "rollback"],
               UNCHANGED <<updates, handler, replaying, peering>>
        PROVE  WaitingInv' /\ DoneIsOfThisCapture
    <3>1. stream'.gen = stream.gen /\ stream'.restarting = stream.restarting
      BY <1>1, <2>4 DEF IsStream
    <3>2. GenIs(stream') /\ ReplayKeepsItsCapture'
      BY <1>1, <2>4, <3>1 DEF GenIs, ReplayKeepsItsCapture
    <3> QED BY <2>4, <3>2, NoneSteps
  <2>5. ASSUME Updated("failed"), stream' = AppFallen(over), peering' = NoPublisher
        PROVE  WaitingInv' /\ DoneIsOfThisCapture
    <3>1. stream' = [over EXCEPT !.status = "error", !.restarting = FALSE] BY <2>5 DEF AppFallen
    <3>. HIDE DEF over
    <3>2. ~stream'.restarting /\ stream'.gen = stream.gen BY <2>2, <3>1 DEF IsStream
    <3>3. peering'.task = peering.task BY <1>1, <2>5 DEF NoPublisher, PeeringIs
    <3>4. GenIs(stream') /\ ReplayKeepsItsCapture' BY <1>1, <3>2 DEF GenIs, ReplayKeepsItsCapture
    <3> QED BY <2>1, <2>5, <3>3, <3>4, UpdateEndsWaits
  <2> QED BY <1>5, <2>3, <2>4, <2>5 DEF ReplacementOpens
<1>6. CASE AppEnds
  <2>1. /\ \E status : stream' = [AppFallen(stream) EXCEPT !.status = status]
        /\ peering' = NoPublisher /\ UNCHANGED <<updates, handler>>
    BY <1>6 DEF AppEnds
  <2>2. ~stream'.restarting /\ stream'.gen = stream.gen BY <1>1, <2>1 DEF AppFallen, IsStream
  <2>3. peering'.task = peering.task BY <1>1, <2>1 DEF NoPublisher, PeeringIs
  <2>4. GenIs(stream') /\ ReplayKeepsItsCapture' BY <1>1, <2>2 DEF GenIs, ReplayKeepsItsCapture
  <2> QED BY <2>1, <2>3, <2>4, NoneSteps
<1> QED BY <1>3, <1>4, <1>5, <1>6

LEMMA WaitingGoesOn ==
  WaitingInv /\ AppRequestsNext => WaitingInv' /\ DoneIsOfThisCapture
<1>1. ASSUME WaitingInv, AppRequestsNext PROVE WaitingInv' /\ DoneIsOfThisCapture
  <2>1. PeeringInv' BY <1>1, PeeringGoesOn DEF WaitingInv
  <2>2. /\ GenIs(stream) /\ ReplayKeepsItsCapture /\ PeeringIs(peering)
        /\ \A c \in Callers : /\ IsHandler(handler[c]) /\ HasSteps(handler[c])
                              /\ handler[c].step = "awaiting" => BehindOnes(handler[c].behind, handler)
    BY <1>1 DEF WaitingInv, PeeringInv, HandlersAre, WaitsOK
  <2>3. ASSUME NEW c \in Callers, NEW r, Calls(c, r), UNCHANGED <<stream, updates>>,
               peering'.task = peering.task, replaying' = replaying \/ replaying # "none",
               HasSteps(r), r.step \notin {"chained", "publisher"} \/ r.step = handler[c].step,
               handler[c].step \in {"chained", "answered"} => r.step \in {"chained", "answered"},
               r.step = "publisher" => peering.task # 0,
               r.step = "chained" => IsInChain(c, updates),
               r.step = "awaiting" => BehindOnes(r.behind, handler),
               r.kind = "gesture" /\ r.answer = "ok" =>
                 handler[c].carried /\ handler[c].gen = stream.gen /\ ~stream.restarting
        PROVE  WaitingInv' /\ DoneIsOfThisCapture
    <3>1. handler' = [handler EXCEPT ![c] = r] BY <2>3 DEF Calls
    <3>2. GenIs(stream') /\ ReplayKeepsItsCapture'
      BY <2>2, <2>3 DEF GenIs, ReplayKeepsItsCapture
    <3> QED BY <1>1, <2>1, <2>3, <3>1, <3>2, OneSteps
  <2>4. ASSUME NEW c \in Callers, AppRoutes(c) PROVE WaitingInv' /\ DoneIsOfThisCapture
    <3>1. /\ UNCHANGED <<stream, updates, peering>>
          /\ replaying' = replaying \/ replaying # "none"
          /\ \E r : /\ handler' = [handler EXCEPT ![c] = r] /\ HasSteps(r)
                    /\ r.step \notin {"chained", "publisher"}
                    /\ r.step = "awaiting" => BehindOnes(r.behind, handler)
                    /\ ~(r.kind = "gesture" /\ r.answer = "ok")
      BY <1>1, <2>4, RouteAsks
    <3>2. handler[c].step = "idle" BY <1>1, <2>4, RouteIsTaken DEF WaitingInv
    <3> QED BY <2>3, <3>1, <3>2 DEF Calls
  <2>5. ASSUME NEW c \in Callers, NEW answer, Handles(c, Told(c, answer)),
               handler[c].kind = "gesture" /\ answer = "ok" =>
                 handler[c].carried /\ handler[c].gen = stream.gen /\ ~stream.restarting
        PROVE  WaitingInv' /\ DoneIsOfThisCapture
    <3>1. /\ HasSteps(Told(c, answer)) /\ Told(c, answer).step = "answered"
          /\ Told(c, answer).kind = handler[c].kind /\ Told(c, answer).answer = answer
      BY <2>2 DEF Told, HasSteps, IsHandler
    <3> QED BY <2>3, <2>5, <3>1 DEF Handles
  <2>6. ASSUME NEW c \in Callers,
               AppSettingsTold(c) \/ AppCommandEnds(c) \/ AppGestureEnds(c) \/ AppReplayStopped(c)
        PROVE  WaitingInv' /\ DoneIsOfThisCapture
    <3>1. HasSteps(handler[c]) BY <2>2
    <3>2. CASE AppSettingsTold(c)
      <4>1. handler[c].kind # "gesture" BY <3>1, <3>2 DEF AppSettingsTold, HasSteps
      <4> QED BY <2>5, <3>2, <4>1 DEF AppSettingsTold
    <3>3. CASE AppCommandEnds(c)
      <4>1. handler[c].kind # "gesture" BY <3>1, <3>3 DEF AppCommandEnds, HasSteps
      <4> QED BY <2>5, <3>3, <4>1 DEF AppCommandEnds
    <3>4. CASE AppGestureEnds(c)
      <4>. DEFINE a == IF handler[c].carried /\ handler[c].gen = stream.gen /\ ~stream.restarting
                       THEN "ok" ELSE "failed"
      <4>1. Handles(c, Told(c, a)) BY <3>4 DEF AppGestureEnds
      <4>2. a = "ok" => handler[c].carried /\ handler[c].gen = stream.gen /\ ~stream.restarting
        OBVIOUS
      <4>. HIDE DEF a
      <4> QED BY <2>5, <4>1, <4>2
    <3>5. CASE AppReplayStopped(c)
      <4>1. handler[c].kind # "gesture" BY <3>1, <3>5 DEF AppReplayStopped, HasSteps
      <4> QED BY <2>5, <3>5, <4>1 DEF AppReplayStopped
    <3> QED BY <2>6, <3>2, <3>3, <3>4, <3>5
  <2>7. ASSUME NEW c \in Callers, AppGestureSettles(c) PROVE WaitingInv' /\ DoneIsOfThisCapture
    <3>1. handler[c].step = "queued"
          /\ \E carried : Handles(c, [handler[c] EXCEPT !.step = "settled", !.carried = carried])
      BY <2>7 DEF AppGestureSettles
    <3>2. ASSUME NEW carried, Handles(c, [handler[c] EXCEPT !.step = "settled", !.carried = carried])
          PROVE  WaitingInv' /\ DoneIsOfThisCapture
      <4>. DEFINE r == [handler[c] EXCEPT !.step = "settled", !.carried = carried]
      <4>1. HasSteps(r) /\ r.step = "settled" /\ r.answer # "ok"
        BY <2>2, <3>1 DEF HasSteps, IsHandler
      <4>2. Calls(c, r) /\ UNCHANGED <<stream, updates, replaying, peering>> BY <3>2 DEF Handles
      <4>. HIDE DEF r
      <4> QED BY <2>3, <3>1, <4>1, <4>2
    <3> QED BY <3>1, <3>2
  <2>8. ASSUME NEW c \in Callers, ClientGone(c) PROVE WaitingInv' /\ DoneIsOfThisCapture
    <3>. DEFINE r == [handler[c] EXCEPT !.aborted = TRUE]
    <3>1. /\ IsHandler(handler[c]) /\ HasSteps(handler[c])
          /\ handler[c].kind = "offer" /\ handler[c].step # "answered"
      BY <2>2, <2>8 DEF ClientGone
    <3>2. /\ r.step = handler[c].step /\ r.kind = "offer" /\ r.answer = handler[c].answer
          /\ r.behind = handler[c].behind
      BY <3>1 DEF IsHandler
    <3>3. Calls(c, r) /\ UNCHANGED <<stream, updates, replaying, peering>>
      BY <2>8 DEF ClientGone, Handles
    <3>4. WaitsOK(handler, updates, peering.task) BY <1>1 DEF WaitingInv
    <3>5. /\ handler[c].step = "publisher" => peering.task # 0
          /\ handler[c].step = "chained" => IsInChain(c, updates)
          /\ handler[c].step = "awaiting" => BehindOnes(handler[c].behind, handler)
      BY <3>4 DEF WaitsOK
    <3>. HIDE DEF r
    <3>6. HasSteps(r) BY <3>1, <3>2 DEF HasSteps
    <3> QED BY <2>3, <3>1, <3>2, <3>3, <3>5, <3>6
  <2>9. ASSUME NEW c \in Callers, OfferEnds(c) PROVE WaitingInv' /\ DoneIsOfThisCapture
    <3>1. /\ handler[c].step = "offering" /\ UNCHANGED <<stream, updates, replaying>>
          /\ peering'.task = peering.task
      BY <2>2, <2>9 DEF OfferEnds, PeeringIs
    <3>2. \E answer : Calls(c, Told(c, answer)) BY <2>9 DEF OfferEnds
    <3>3. handler[c].kind # "gesture" /\ IsHandler(handler[c]) /\ HasSteps(handler[c])
      BY <2>2, <3>1 DEF HasSteps
    <3>4. ASSUME NEW answer
          PROVE  /\ HasSteps(Told(c, answer)) /\ Told(c, answer).step = "answered"
                 /\ Told(c, answer).kind # "gesture"
      BY <3>3 DEF Told, HasSteps, IsHandler
    <3> QED BY <2>3, <3>1, <3>2, <3>4
  <2>10. CASE AppReplayEnds
    <3>1. GenIs(stream') /\ ReplayKeepsItsCapture'
      BY <2>2, <2>10 DEF AppReplayEnds, GenIs, ReplayKeepsItsCapture
    <3> QED BY <1>1, <2>1, <2>10, <3>1, NoneSteps DEF AppReplayEnds
  <2> QED
    BY <1>1, <2>1, <2>4, <2>6, <2>7, <2>8, <2>9, <2>10, BodyWaits, UpdateWaits, PublisherIsThere
    DEF AppRequestsNext
<1> QED BY <1>1

LEMMA WaitingStays ==
  WaitingInv /\ UNCHANGED appRequestsVars => WaitingInv' /\ DoneIsOfThisCapture
BY PeeringStays
DEF WaitingInv, appRequestsVars, WaitsOK, GenIs, ReplayKeepsItsCapture, DoneIsOfThisCapture

LEMMA WaitingPromises ==
  WaitingInv => PeersAreWanted /\ ReplayKeepsItsCapture /\ NobodyIsForgotten
<1>1. ASSUME WaitingInv PROVE NobodyIsForgotten
  <2>1. ChainIs(updates, handler) /\ WaitsOK(handler, updates, peering.task)
    BY <1>1 DEF WaitingInv, PeeringInv
  <2>2. ASSUME NEW c \in Callers, handler[c].step = "chained"
        PROVE  \E i \in DOMAIN updates : updates[i] = c
                                         /\ \A j \in 1..i : handler[updates[j]].step = "chained"
    <3>1. \E i \in 1..Len(updates) : updates[i] = c BY <2>1, <2>2 DEF WaitsOK, IsInChain
    <3>2. DOMAIN updates = 1..Len(updates) /\ Len(updates) \in Nat
      BY <2>1, LenProperties DEF ChainIs
    <3>3. \A i \in 1..Len(updates) : \A j \in 1..i : handler[updates[j]].step = "chained"
      BY <2>1, <3>2 DEF ChainIs
    <3> QED BY <3>1, <3>2, <3>3
  <2>3. ASSUME NEW c \in Callers
        PROVE  /\ handler[c].step = "awaiting" =>
                    \A d \in handler[c].behind : handler[d].step \in {"chained", "answered"}
               /\ handler[c].step = "publisher" => peering.task # 0
    BY <2>1 DEF WaitsOK, BehindOnes
  <2> QED BY <2>2, <2>3 DEF NobodyIsForgotten
<1> QED BY <1>1, PeeringPromises DEF WaitingInv

-----------------------------------------------------------------------------
(* SessionRequests: the emulator a start has spawned. Only a start owns one, *)
(* and from the spawn to the answer there are four steps; each client waits *)
(* in the tail of the manager at most once, at the step that belongs to it. *)

IsRequest(r) ==
  r \in [step : {r.step}, kind : {r.kind}, setting : {r.setting}, gen : {r.gen},
         serial : {r.serial}, target : {r.target}, plan : {r.plan}, reading : {r.reading},
         read : {r.read}, alone : {r.alone}, since : {r.since}, select : {r.select}, owns : {r.owns},
         stopped : {r.stopped}, answer : {r.answer}]
RequestOK(r) ==
  /\ IsRequest(r) /\ r.owns \in BOOLEAN /\ r.stopped \in BOOLEAN /\ r.target \in Serials
  /\ r.owns => r.step \in {"booting", "launched", "switching", "answered"}
  /\ r.step # "answered" => r.answer = "none"
  /\ r.owns /\ r.answer \in {"failed", "changed"} => r.stopped
RequestsAre(q) == q = [c \in Clients |-> q[c]] /\ \A c \in Clients : RequestOK(q[c])

TailIs(t, q) ==
  /\ t \in Seq([client : Clients, kind : {"switch", "stop"}, serial : Serials])
  /\ \A i \in 1..Len(t) :
       q[t[i].client].step = IF t[i].kind = "switch" THEN "switching" ELSE "stopping"
  /\ \A i, j \in 1..Len(t) : t[i].client = t[j].client => i = j

RequestsInv == RequestsAre(request) /\ TailIs(transitions, request)

LEMMA RequestsStart == RequestsInit => RequestsInv
<1>1. ASSUME RequestsInit PROVE RequestsInv
  <2>1. request = [c \in Clients |-> Unmade] /\ transitions = <<>> BY <1>1 DEF RequestsInit
  <2>2. RequestOK(Unmade) BY DEF RequestOK, IsRequest, Unmade, Serials
  <2>3. RequestsAre(request) BY <2>1, <2>2 DEF RequestsAre
  <2>4. TailIs(transitions, request) BY <2>1, EmptySeq DEF TailIs
  <2> QED BY <2>3, <2>4 DEF RequestsInv
<1> QED BY <1>1

\* A request that does not wait in the tail moves on.
LEMMA RequestMoves ==
  ASSUME NEW c \in Clients, NEW r, NEW q, NEW t,
         RequestsAre(q), TailIs(t, q), q[c].step \notin {"switching", "stopping"}, RequestOK(r)
  PROVE  LET k == [q EXCEPT ![c] = r]
         IN  RequestsAre(k) /\ TailIs(t, k) /\ k[c] = r
<1>. DEFINE k == [q EXCEPT ![c] = r]
<1>1. /\ k = [d \in Clients |-> k[d]] /\ k[c] = r
      /\ \A d \in Clients : d # c => k[d] = q[d]
  BY DEF RequestsAre
<1>. HIDE DEF k
<1>2. RequestsAre(k)
  <2>1. ASSUME NEW d \in Clients PROVE RequestOK(k[d]) BY <1>1 DEF RequestsAre
  <2> QED BY <1>1, <2>1 DEF RequestsAre
<1>3. \A i \in 1..Len(t) : t[i].client \in Clients /\ t[i].client # c
  <2>1. ASSUME NEW i \in 1..Len(t) PROVE t[i].client \in Clients /\ t[i].client # c
    <3>1. t[i] \in [client : Clients, kind : {"switch", "stop"}, serial : Serials]
      BY ElementOfSeq DEF TailIs
    <3>2. q[t[i].client].step \in {"switching", "stopping"} BY DEF TailIs
    <3> QED BY <3>1, <3>2
  <2> QED BY <2>1
<1>4. TailIs(t, k) BY <1>1, <1>3 DEF TailIs
<1> QED BY <1>1, <1>2, <1>4 DEF k

\* The first of the tail is done with.
LEMMA HeadMoves ==
  ASSUME NEW r, NEW q, NEW t, t # <<>>, RequestsAre(q), TailIs(t, q), RequestOK(r)
  PROVE  LET k == [q EXCEPT ![Head(t).client] = r]
         IN  /\ RequestsAre(k) /\ TailIs(Tail(t), k)
             /\ Head(t).client \in Clients
             /\ q[Head(t).client].step = IF Head(t).kind = "switch" THEN "switching" ELSE "stopping"
<1>. DEFINE T == [client : Clients, kind : {"switch", "stop"}, serial : Serials]
            h == Head(t)
            c == h.client
            k == [q EXCEPT ![c] = r]
            u == Tail(t)
<1>1. t \in Seq(T) BY DEF TailIs
<1>. HIDE DEF T
<1>2. /\ Len(t) \in Nat /\ Len(t) # 0 /\ h = t[1] /\ h \in T
      /\ u \in Seq(T) /\ Len(u) = Len(t) - 1
      /\ \A i \in 1..Len(u) : u[i] = t[i + 1]
  BY <1>1, HeadTailProperties, EmptySeq, LenProperties
<1>3. c \in Clients BY <1>2 DEF T
<1>4. /\ k = [d \in Clients |-> k[d]] /\ k[c] = r
      /\ \A d \in Clients : d # c => k[d] = q[d]
  BY <1>3 DEF RequestsAre
<1>5. q[c].step = IF h.kind = "switch" THEN "switching" ELSE "stopping"
  <2>1. 1 \in 1..Len(t) BY <1>2
  <2> QED BY <1>2, <2>1 DEF TailIs
<1>6. \A i \in 1..Len(u) : /\ u[i].client \in Clients /\ u[i].client # c
                           /\ q[u[i].client].step =
                                IF u[i].kind = "switch" THEN "switching" ELSE "stopping"
  <2>1. ASSUME NEW i \in 1..Len(u)
        PROVE  /\ u[i].client \in Clients /\ u[i].client # c
               /\ q[u[i].client].step = IF u[i].kind = "switch" THEN "switching" ELSE "stopping"
    <3>1. i + 1 \in 1..Len(t) /\ 1 \in 1..Len(t) /\ i + 1 # 1 /\ u[i] = t[i + 1] BY <1>2
    <3>2. u[i] \in T BY <1>1, <3>1, ElementOfSeq
    <3>3. u[i].client # c BY <1>2, <3>1 DEF TailIs
    <3> QED BY <3>1, <3>2, <3>3 DEF TailIs, T
  <2> QED BY <2>1
<1>7. \A i, j \in 1..Len(u) : u[i].client = u[j].client => i = j
  <2>1. ASSUME NEW i \in 1..Len(u), NEW j \in 1..Len(u), u[i].client = u[j].client PROVE i = j
    <3>1. i + 1 \in 1..Len(t) /\ j + 1 \in 1..Len(t) /\ u[i] = t[i + 1] /\ u[j] = t[j + 1] BY <1>2
    <3>2. i + 1 = j + 1 BY <2>1, <3>1 DEF TailIs
    <3> QED BY <3>2
  <2> QED BY <2>1
<1>. HIDE DEF k, u, c, h
<1>8. RequestsAre(k)
  <2>1. ASSUME NEW d \in Clients PROVE RequestOK(k[d]) BY <1>4 DEF RequestsAre
  <2> QED BY <1>4, <2>1 DEF RequestsAre
<1>9. TailIs(u, k)
  <2>1. u \in Seq([client : Clients, kind : {"switch", "stop"}, serial : Serials]) BY <1>2 DEF T
  <2>2. \A i \in 1..Len(u) :
          k[u[i].client].step = IF u[i].kind = "switch" THEN "switching" ELSE "stopping"
    <3>1. ASSUME NEW i \in 1..Len(u)
          PROVE  k[u[i].client].step = IF u[i].kind = "switch" THEN "switching" ELSE "stopping"
      <4>. DEFINE e == u[i].client
      <4>1. /\ e \in Clients /\ e # c
            /\ q[e].step = IF u[i].kind = "switch" THEN "switching" ELSE "stopping"
        BY <1>6
      <4>. HIDE DEF e
      <4>2. k[e] = q[e] BY <1>4, <4>1
      <4> QED BY <4>1, <4>2 DEF e
    <3> QED BY <3>1
  <2> QED BY <1>7, <2>1, <2>2 DEF TailIs
<1> QED BY <1>3, <1>5, <1>8, <1>9 DEF k, u, c, h

\* One that does not wait in the tail begins to.
LEMMA RequestWaits ==
  ASSUME NEW c \in Clients, NEW r, NEW q, NEW t, NEW kind \in {"switch", "stop"}, NEW s \in Serials,
         RequestsAre(q), TailIs(t, q), q[c].step \notin {"switching", "stopping"}, RequestOK(r),
         r.step = IF kind = "switch" THEN "switching" ELSE "stopping"
  PROVE  LET k == [q EXCEPT ![c] = r]
             u == Append(t, [client |-> c, kind |-> kind, serial |-> s])
         IN  RequestsAre(k) /\ TailIs(u, k)
<1>. DEFINE T == [client : Clients, kind : {"switch", "stop"}, serial : Serials]
            w == [client |-> c, kind |-> kind, serial |-> s]
            k == [q EXCEPT ![c] = r]
            u == Append(t, w)
<1>1. t \in Seq(T) /\ w \in T /\ w.client = c /\ w.kind = kind BY DEF TailIs
<1>2. RequestsAre(k) /\ TailIs(t, k) /\ k[c] = r BY RequestMoves
<1>3. \A i \in 1..Len(t) : t[i].client # c
  <2>1. ASSUME NEW i \in 1..Len(t) PROVE t[i].client # c
    <3>1. q[t[i].client].step \in {"switching", "stopping"} BY DEF TailIs
    <3> QED BY <3>1
  <2> QED BY <2>1
<1>. HIDE DEF T, w, k
<1>4. /\ Len(t) \in Nat /\ u \in Seq(T) /\ Len(u) = Len(t) + 1 /\ u[Len(t) + 1] = w
      /\ \A i \in 1..Len(t) : u[i] = t[i]
  BY <1>1, AppendProperties, LenProperties
<1>. HIDE DEF u
<1>5. \A i \in 1..Len(u) : i \in 1..Len(t) \/ i = Len(t) + 1 BY <1>4
<1>6. \A i \in 1..Len(u) :
        k[u[i].client].step = IF u[i].kind = "switch" THEN "switching" ELSE "stopping"
  BY <1>1, <1>2, <1>4, <1>5 DEF TailIs
<1>7. \A i, j \in 1..Len(u) : u[i].client = u[j].client => i = j
  BY <1>1, <1>2, <1>3, <1>4, <1>5 DEF TailIs
<1>8. TailIs(u, k) BY <1>4, <1>6, <1>7 DEF TailIs, T
<1> QED BY <1>2, <1>8 DEF k, u, w

LEMMA RequestSteps ==
  ASSUME NEW c \in Clients, RequestOK(request[c]), request[c].step # "answered", NEW step
  PROVE  LET r == Moves(c, step)
         IN  /\ IsRequest(r) /\ r.step = step /\ r.owns = request[c].owns
             /\ (~request[c].owns \/ step \in {"booting", "launched", "switching"}) /\ step # "answered"
                => RequestOK(r)
BY DEF Moves, RequestOK, IsRequest

LEMMA RequestIsAnswered ==
  ASSUME NEW r, RequestOK(r), NEW answer,
         r.owns /\ answer \in {"failed", "changed"} => r.stopped
  PROVE  RequestOK(AnsweredWith(r, answer))
BY DEF AnsweredWith, RequestOK, IsRequest

LEMMA RequestArrives ==
  ASSUME NEW c \in Clients, NEW kind, NEW step, step # "answered"
  PROVE  RequestOK(Arrives(c, kind, step)) /\ ~Arrives(c, kind, step).owns
BY DEF Arrives, Unmade, RequestOK, IsRequest, Serials

LEMMA StoppedIs ==
  ASSUME NEW c \in Clients, RequestOK(request[c]), NEW answer
  PROVE  RequestOK(AnsweredWith([request[c] EXCEPT !.stopped = @ \/ request[c].owns], answer))
<1>. DEFINE s == request[c].stopped \/ request[c].owns
            r == [request[c] EXCEPT !.stopped = s]
<1>1. s \in BOOLEAN /\ (request[c].owns => s) BY DEF RequestOK
<1>. HIDE DEF s
<1>2. /\ RequestOK(r) /\ (r.owns => r.stopped) BY <1>1 DEF RequestOK, IsRequest
<1>3. RequestOK(AnsweredWith(r, answer)) BY <1>2, RequestIsAnswered
<1> QED BY <1>3 DEF r, s

\* Requests that do not wait in the tail move on together.
LEMMA ManyMove ==
  ASSUME NEW q, NEW k, NEW t, RequestsAre(q), TailIs(t, q),
         k = [d \in Clients |-> k[d]], \A d \in Clients : RequestOK(k[d]),
         \A d \in Clients : q[d].step \in {"switching", "stopping"} => k[d].step = q[d].step
  PROVE  RequestsAre(k) /\ TailIs(t, k)
<1>1. RequestsAre(k) BY DEF RequestsAre
<1>2. \A i \in 1..Len(t) : k[t[i].client].step = q[t[i].client].step
  <2>1. ASSUME NEW i \in 1..Len(t) PROVE k[t[i].client].step = q[t[i].client].step
    <3>3. t[i] \in [client : Clients, kind : {"switch", "stop"}, serial : Serials]
      BY ElementOfSeq DEF TailIs
    <3>1. t[i].client \in Clients BY <3>3
    <3>2. q[t[i].client].step \in {"switching", "stopping"} BY DEF TailIs
    <3> QED BY <3>1, <3>2
  <2> QED BY <2>1
<1> QED BY <1>1, <1>2 DEF TailIs

\* The routes, as far as the first wait or the answer.
RequestRoutes(c) ==
  \/ OrientationRoute(c) \/ NightModeRoute(c) \/ FontScaleRoute(c) \/ NetworkRoute(c)
  \/ ReduceMotionRoute(c) \/ HighTextContrastRoute(c) \/ FontWeightRoute(c)
  \/ DisplayDensityRoute(c) \/ ScreenshotRoute(c) \/ ForegroundRoute(c)
  \/ DevicesRoute(c) \/ DeviceGridRoute(c) \/ AnsweredAtOnce(c)
  \/ GestureRoute(c) \/ KeyRoute(c) \/ AccessibilityTapRoute(c) \/ AppRoute(c)
  \/ SelectRoute(c) \/ StartAvdRoute(c) \/ StopAvdRoute(c)

LEMMA RequestRouteIsTaken ==
  ASSUME NEW c \in Clients, RequestRoutes(c)
  PROVE  request[c].step = "idle" /\ \E r : Only(c, r) /\ RequestOK(r)
<1>1. ASSUME NEW kind, NEW step, step # "answered", request[c].step = "idle",
             Only(c, Arrives(c, kind, step))
      PROVE  request[c].step = "idle" /\ \E r : Only(c, r) /\ RequestOK(r)
  BY <1>1, RequestArrives
<1>2. ASSUME NEW kind, request[c].step = "idle", NEW answer,
             Only(c, AnsweredWith(Arrives(c, kind, "none"), answer))
      PROVE  request[c].step = "idle" /\ \E r : Only(c, r) /\ RequestOK(r)
  <2>1. RequestOK(Arrives(c, kind, "none")) /\ ~Arrives(c, kind, "none").owns BY RequestArrives
  <2>2. RequestOK(AnsweredWith(Arrives(c, kind, "none"), answer)) BY <2>1, RequestIsAnswered
  <2> QED BY <1>2, <2>2
<1>3. ASSUME NEW setting, SettingRoute(c, setting)
      PROVE  request[c].step = "idle" /\ \E r : Only(c, r) /\ RequestOK(r)
  <2>. DEFINE a == Arrives(c, "set", "body")
              b == Arrives(c, "get", "reading")
              keys == KeysOf(setting)
              r == [a EXCEPT !.setting = setting]
              s == [b EXCEPT !.setting = setting, !.reading = keys]
  <2>1. RequestOK(a) /\ RequestOK(b) BY RequestArrives
  <2>2. request[c].step = "idle" /\ (Only(c, r) \/ Only(c, s)
           \/ Only(c, AnsweredWith(Arrives(c, "get", "none"), "changed")))
    BY <1>3 DEF SettingRoute
  <2>. HIDE DEF a, b, keys
  <2>3. RequestOK(r) /\ RequestOK(s) BY <2>1 DEF RequestOK, IsRequest
  <2>. HIDE DEF r, s
  <2> QED BY <1>2, <2>2, <2>3
<1>4. ASSUME NEW kind, NEW s \in Serials, request[c].step = "idle",
             Only(c, [Arrives(c, kind, "body") EXCEPT !.target = s])
      PROVE  request[c].step = "idle" /\ \E r : Only(c, r) /\ RequestOK(r)
  <2>. DEFINE a == Arrives(c, kind, "body")
              r == [a EXCEPT !.target = s]
  <2>1. RequestOK(a) /\ Only(c, r) BY <1>4, RequestArrives
  <2>. HIDE DEF a
  <2>2. RequestOK(r) BY <2>1 DEF RequestOK, IsRequest
  <2>. HIDE DEF r
  <2> QED BY <1>4, <2>1, <2>2
<1>5. CASE StartAvdRoute(c)
  <2>1. PICK select \in BOOLEAN :
          Only(c, [Arrives(c, "start", "body") EXCEPT !.target = "emulator", !.select = select])
    BY <1>5 DEF StartAvdRoute
  <2>. DEFINE a == Arrives(c, "start", "body")
              r == [a EXCEPT !.target = "emulator", !.select = select]
  <2>2. RequestOK(a) /\ Only(c, r) BY <2>1, RequestArrives
  <2>. HIDE DEF a
  <2>3. RequestOK(r) BY <2>2 DEF RequestOK, IsRequest, Serials
  <2>. HIDE DEF r
  <2> QED BY <1>5, <2>2, <2>3 DEF StartAvdRoute
<1>6. CASE SelectRoute(c) \/ StopAvdRoute(c)
  <2>1. "emulator" \in Serials BY DEF Serials
  <2> QED BY <1>4, <1>6, <2>1 DEF SelectRoute, StopAvdRoute
<1>7. CASE ScreenshotRoute(c) \/ ForegroundRoute(c)
  BY <1>1, <1>2, <1>7 DEF ScreenshotRoute, ForegroundRoute
<1>8. CASE AnsweredAtOnce(c) BY <1>2, <1>8 DEF AnsweredAtOnce
<1>9. CASE \/ DevicesRoute(c) \/ DeviceGridRoute(c) \/ GestureRoute(c) \/ KeyRoute(c)
           \/ AccessibilityTapRoute(c) \/ AppRoute(c)
  BY <1>1, <1>9 DEF DevicesRoute, DeviceGridRoute, GestureRoute, KeyRoute, AccessibilityTapRoute,
     AppRoute
<1>10. CASE \/ OrientationRoute(c) \/ NightModeRoute(c) \/ FontScaleRoute(c) \/ NetworkRoute(c)
            \/ ReduceMotionRoute(c) \/ HighTextContrastRoute(c) \/ FontWeightRoute(c)
            \/ DisplayDensityRoute(c)
  BY <1>3, <1>10 DEF OrientationRoute, NightModeRoute, FontScaleRoute, NetworkRoute,
     ReduceMotionRoute, HighTextContrastRoute, FontWeightRoute, DisplayDensityRoute
<1> QED BY <1>5, <1>6, <1>7, <1>8, <1>9, <1>10 DEF RequestRoutes

\* What one step of one request does to it, whether or not it begins to wait
\* in the tail of the manager.
RequestStep(c) ==
  \E r : /\ Becomes(c, r) /\ RequestOK(r)
         /\ \/ UNCHANGED transitions
            \/ \E kind \in {"switch", "stop"}, s \in Serials :
                 Transition(c, kind, s) /\ r.step = IF kind = "switch" THEN "switching" ELSE "stopping"

LEMMA RequestStepIs ==
  ASSUME RequestsInv, NEW c \in Clients, request[c].step \notin {"switching", "stopping"},
         RequestStep(c)
  PROVE  RequestsInv'
<1>1. PICK r : /\ Becomes(c, r) /\ RequestOK(r)
               /\ \/ UNCHANGED transitions
                  \/ \E kind \in {"switch", "stop"}, s \in Serials :
                       Transition(c, kind, s)
                       /\ r.step = IF kind = "switch" THEN "switching" ELSE "stopping"
  BY DEF RequestStep
<1>2. RequestsAre(request) /\ TailIs(transitions, request) BY DEF RequestsInv
<1>3. request' = [request EXCEPT ![c] = r] BY <1>1 DEF Becomes
<1>4. CASE UNCHANGED transitions
  <2>1. RequestsAre(request') /\ TailIs(transitions, request')
    BY <1>1, <1>2, <1>3, RequestMoves
  <2> QED BY <1>4, <2>1 DEF RequestsInv
<1>5. ASSUME NEW kind \in {"switch", "stop"}, NEW s \in Serials, Transition(c, kind, s),
             r.step = IF kind = "switch" THEN "switching" ELSE "stopping"
      PROVE  RequestsInv'
  <2>1. transitions' = Append(transitions, [client |-> c, kind |-> kind, serial |-> s])
    BY <1>5 DEF Transition
  <2>2. RequestsAre(request') /\ TailIs(transitions', request')
    BY <1>1, <1>2, <1>3, <1>5, <2>1, RequestWaits
  <2> QED BY <2>2 DEF RequestsInv
<1> QED BY <1>1, <1>4, <1>5

\* The kill of a device begins, or waits for its turn.
LEMMA StopsIs ==
  ASSUME NEW c \in Clients, RequestOK(request[c]), ~request[c].owns,
         request[c].step # "answered", Stops(c)
  PROVE  RequestStep(c)
<1>1. RequestOK(Moves(c, "stopping")) /\ Moves(c, "stopping").step = "stopping"
      /\ RequestOK(Moves(c, "killing")) /\ request[c].target \in Serials
  BY RequestSteps DEF RequestOK
<1> QED BY <1>1 DEF Stops, RequestStep, Only

LEMMA LaunchStopsIs ==
  ASSUME NEW c \in Clients, RequestOK(request[c]), NEW answer, LaunchStops(c, answer),
         UNCHANGED transitions
  PROVE  RequestStep(c)
<1>. DEFINE r == AnsweredWith([request[c] EXCEPT !.stopped = @ \/ request[c].owns], answer)
<1>1. RequestOK(r) BY StoppedIs
<1>2. Becomes(c, r) BY DEF LaunchStops
<1>. HIDE DEF r
<1> QED BY <1>1, <1>2 DEF RequestStep

LEMMA BodyReadIs ==
  ASSUME RequestsInv, NEW c \in Clients, BodyRead(c)
  PROVE  RequestsInv'
<1>1. /\ RequestsAre(request) /\ TailIs(transitions, request) /\ RequestOK(request[c])
      /\ request[c].step = "body" /\ ~request[c].owns /\ request[c].target \in Serials
  BY DEF RequestsInv, RequestsAre, BodyRead, RequestOK
<1>2. \A answer : RequestOK(AnsweredWith(request[c], answer))
  BY <1>1, RequestIsAnswered
<1>3. \A step : Moves(c, step).step = step /\ (step # "answered" => RequestOK(Moves(c, step)))
  BY <1>1, RequestSteps
<1>4. CASE SetterStarts(c) /\ UNCHANGED <<session, tree, transitions, device>>
  <2>. DEFINE a == ~\E e \in Clients \ {c} : request[e].step = "writing"
                                             /\ request[e].serial = request[c].serial
              plan == Writes[request[c].setting]
              kills == device[request[c].serial].kills
              r == [request[c] EXCEPT !.step = "writing", !.plan = plan, !.since = kills, !.alone = a]
  <2>1. request' = [d \in Clients |->
          IF d = c THEN r
          ELSE IF request[d].step \in {"writing", "reading"} /\ request[d].serial = request[c].serial
          THEN [request[d] EXCEPT !.alone = FALSE] ELSE request[d]]
    BY <1>4 DEF SetterStarts
  <2>. HIDE DEF a, plan, kills
  <2>2. RequestOK(r) BY <1>1 DEF RequestOK, IsRequest
  <2>. HIDE DEF r
  <2>3. ASSUME NEW d \in Clients
        PROVE  /\ RequestOK(request'[d])
               /\ request[d].step \in {"switching", "stopping"} => request'[d].step = request[d].step
    <3>1. RequestOK(request[d]) BY <1>1 DEF RequestsAre
    <3>. DEFINE f == [request[d] EXCEPT !.alone = FALSE]
    <3>2. RequestOK(f) /\ f.step = request[d].step BY <3>1 DEF RequestOK, IsRequest
    <3>3. (request'[d] = r /\ d = c) \/ request'[d] = f \/ request'[d] = request[d] BY <2>1
    <3>. HIDE DEF f
    <3> QED BY <1>1, <2>2, <3>1, <3>2, <3>3
  <2>4. request' = [d \in Clients |-> request'[d]] BY <2>1
  <2>5. RequestsAre(request') /\ TailIs(transitions, request')
    BY <1>1, <2>3, <2>4, ManyMove
  <2> QED BY <1>4, <2>5 DEF RequestsInv
<1>5. ASSUME NEW r, Only(c, r), RequestOK(r) PROVE RequestStep(c)
  BY <1>5 DEF Only, RequestStep
<1>6. CASE Stops(c) BY <1>1, <1>6, StopsIs, RequestStepIs
<1>7. CASE Becomes(c, Moves(c, "switching")) /\ Transition(c, "switch", request[c].target)
  <2>1. RequestStep(c) BY <1>1, <1>3, <1>7 DEF RequestStep
  <2> QED BY <1>1, <2>1, RequestStepIs
<1>8. ASSUME NEW step, step # "answered", Becomes(c, Moves(c, step)), UNCHANGED transitions
      PROVE  RequestsInv'
  <2>1. RequestStep(c) BY <1>3, <1>8 DEF RequestStep
  <2> QED BY <1>1, <2>1, RequestStepIs
<1>9. ASSUME NEW answer, Only(c, AnsweredWith(request[c], answer)) PROVE RequestsInv'
  <2>1. RequestStep(c) BY <1>2, <1>5, <1>9
  <2> QED BY <1>1, <2>1, RequestStepIs
<1>10. \/ SetterStarts(c) /\ UNCHANGED <<session, tree, transitions, device>>
       \/ Stops(c)
       \/ Becomes(c, Moves(c, "switching")) /\ Transition(c, "switch", request[c].target)
       \/ \E step \in {"asking", "queued", "found", "waiting", "listing"} :
            Becomes(c, Moves(c, step)) /\ UNCHANGED transitions
       \/ \E answer : Only(c, AnsweredWith(request[c], answer))
  BY DEF BodyRead, Only
<1> QED BY <1>4, <1>6, <1>7, <1>8, <1>9, <1>10

\* The steps of a request after its body, one by one.
LEMMA LaterStepIs ==
  ASSUME RequestsInv, NEW c \in Clients,
         \/ WriteEnds(c) \/ ReadEnds(c) \/ CommandEnds(c) \/ GestureSettles(c)
         \/ TreeAborted(c) \/ NodeFound(c) \/ ListingEnds(c) \/ BootEnds(c) \/ Launched(c)
         \/ KillEnds(c)
  PROVE  RequestStep(c) /\ request[c].step \notin {"switching", "stopping"}
<1>1. RequestOK(request[c]) BY DEF RequestsInv, RequestsAre
<1>2. request[c].step \in {"writing", "reading", "asking", "queued", "waiting", "found",
                           "listing", "booting", "launched", "killing"}
  BY DEF WriteEnds, ReadEnds, CommandEnds, GestureSettles, TreeAborted, NodeFound, ListingEnds,
     BootEnds, Launched, KillEnds
<1>3. ASSUME NEW r, Becomes(c, r), UNCHANGED transitions, RequestOK(r) PROVE RequestStep(c)
  BY <1>3 DEF RequestStep
<1>4. ASSUME NEW answer, ~request[c].owns \/ answer = "ok",
             Becomes(c, AnsweredWith(request[c], answer)), UNCHANGED transitions
      PROVE  RequestStep(c)
  <2>1. RequestOK(AnsweredWith(request[c], answer)) BY <1>1, <1>4, RequestIsAnswered
  <2> QED BY <1>3, <1>4, <2>1
<1>5. ASSUME NEW step, ~request[c].owns \/ step = "launched", step # "answered",
             Becomes(c, Moves(c, step)), UNCHANGED transitions
      PROVE  RequestStep(c)
  <2>1. RequestOK(Moves(c, step)) BY <1>1, <1>2, <1>5, RequestSteps
  <2> QED BY <1>3, <1>5, <2>1
<1>6. CASE WriteEnds(c)
  <2>. DEFINE r == request[c]
              rest == Tail(r.plan)
              keys == KeysOf(r.setting)
              s == [r EXCEPT !.plan = rest]
              t == [r EXCEPT !.plan = <<>>, !.step = "reading", !.reading = keys]
  <2>1. /\ r.step = "writing" /\ UNCHANGED transitions
        /\ Becomes(c, s) \/ Becomes(c, t) \/ Becomes(c, AnsweredWith(r, "failed"))
    BY <1>6 DEF WriteEnds
  <2>2. ~r.owns BY <1>1, <2>1 DEF RequestOK
  <2>. HIDE DEF rest, keys
  <2>3. RequestOK(s) /\ RequestOK(t) BY <1>1, <2>1, <2>2 DEF RequestOK, IsRequest
  <2>. HIDE DEF s, t
  <2> QED BY <1>2, <1>3, <1>4, <2>1, <2>2, <2>3
<1>7. CASE ReadEnds(c)
  <2>1. request[c].step = "reading" /\ ~request[c].owns
    BY <1>1, <1>7 DEF ReadEnds, RequestOK
  <2>2. CASE Only(c, AnsweredWith(request[c], "failed"))
    BY <1>2, <1>4, <2>1, <2>2 DEF Only
  <2>3. ASSUME NEW k \in request[c].reading,
               LET r == [request[c] EXCEPT !.reading = @ \ {k},
                                           !.read = @ \cup {device[request[c].serial].set[k]}]
               IN  Only(c, IF r.reading = {} THEN Finished(c, r) ELSE r)
        PROVE  RequestStep(c)
    <3>. DEFINE a == request[c].reading \ {k}
                b == request[c].read \cup {device[request[c].serial].set[k]}
                r == [request[c] EXCEPT !.reading = a, !.read = b]
    <3>1. Only(c, IF r.reading = {} THEN Finished(c, r) ELSE r) BY <2>3
    <3>. HIDE DEF a, b
    <3>2. RequestOK(r) /\ ~r.owns BY <1>1, <2>1 DEF RequestOK, IsRequest
    <3>. HIDE DEF r
    <3>3. \A answer : RequestOK(AnsweredWith(r, answer)) BY <3>2, RequestIsAnswered
    <3>4. RequestOK(Finished(c, r)) BY <3>3 DEF Finished
    <3> QED BY <1>3, <3>1, <3>2, <3>4 DEF Only
  <2> QED BY <1>2, <1>7, <2>2, <2>3 DEF ReadEnds
<1>8. CASE CommandEnds(c)
  BY <1>1, <1>2, <1>4, <1>8 DEF CommandEnds, Finished, Only, RequestOK
<1>9. CASE GestureSettles(c) \/ TreeAborted(c)
  BY <1>1, <1>2, <1>4, <1>9 DEF GestureSettles, TreeAborted, Only, RequestOK
<1>10. CASE NodeFound(c)
  BY <1>1, <1>2, <1>4, <1>5, <1>10 DEF NodeFound, Only, RequestOK
<1>11. CASE ListingEnds(c)
  <2>1. request[c].step = "listing" /\ ~request[c].owns
    BY <1>1, <1>11 DEF ListingEnds, RequestOK
  <2>2. CASE Only(c, AnsweredWith(request[c], "failed")) \/ Only(c, AnsweredWith(request[c], "changed"))
    BY <1>2, <1>4, <2>1, <2>2 DEF Only
  <2>3. CASE Only(c, Listed(c)) BY <1>2, <1>4, <2>1, <2>3 DEF Only, Listed
  <2>4. CASE Launches(c)
    <3>1. CASE Only(c, Moves(c, "launched")) BY <1>2, <1>5, <2>1, <3>1 DEF Only
    <3>2. CASE Becomes(c, [Moves(c, "booting") EXCEPT !.owns = TRUE])
               /\ UNCHANGED <<session, tree, transitions>>
      <4>. DEFINE m == Moves(c, "booting")
                  r == [m EXCEPT !.owns = TRUE]
      <4>1. RequestOK(m) /\ m.step = "booting" BY <1>1, <2>1, RequestSteps
      <4>. HIDE DEF m
      <4>2. RequestOK(r) BY <4>1 DEF RequestOK, IsRequest
      <4>3. Becomes(c, r) BY <3>2 DEF m
      <4>. HIDE DEF r
      <4> QED BY <1>3, <1>2, <3>2, <4>2, <4>3
    <3> QED BY <2>4, <1>2, <3>1, <3>2 DEF Launches
  <2>5. CASE Stops(c)
    <3>1. RequestStep(c) BY <1>1, <2>1, <2>5, StopsIs
    <3> QED BY <2>1, <3>1
  <2> QED BY <1>11, <2>2, <2>3, <2>4, <2>5 DEF ListingEnds
<1>12. CASE BootEnds(c)
  <2>1. CASE Only(c, Moves(c, "launched")) BY <1>2, <1>5, <2>1 DEF Only
  <2>2. CASE LaunchStops(c, "failed") /\ UNCHANGED <<session, tree, transitions>>
    BY <1>1, <1>2, <2>2, LaunchStopsIs
  <2> QED BY <1>12, <2>1, <2>2 DEF BootEnds
<1>13. CASE Launched(c)
  <2>1. CASE ~request[c].owns /\ Only(c, AnsweredWith(request[c], "failed"))
    BY <1>2, <1>4, <2>1 DEF Only
  <2>2. CASE LaunchStops(c, "changed") /\ UNCHANGED <<session, tree, transitions>>
    BY <1>1, <1>2, <2>2, LaunchStopsIs
  <2>3. CASE Only(c, AnsweredWith(request[c], "ok")) BY <1>2, <1>4, <2>3 DEF Only
  <2>4. CASE Becomes(c, Moves(c, "switching")) /\ Transition(c, "switch", "emulator")
    <3>1. request[c].step # "answered" BY <1>2
    <3>2. RequestOK(Moves(c, "switching")) /\ Moves(c, "switching").step = "switching"
      BY <1>1, <3>1, RequestSteps
    <3>3. "emulator" \in Serials BY DEF Serials
    <3> QED BY <1>2, <2>4, <3>2, <3>3 DEF RequestStep
  <2> QED BY <1>13, <2>1, <2>2, <2>3, <2>4 DEF Launched
<1>14. CASE KillEnds(c)
  <2>1. ~request[c].owns BY <1>1, <1>14 DEF KillEnds, RequestOK
  <2> QED BY <1>2, <1>4, <1>14, <2>1 DEF KillEnds, Listed
<1> QED BY <1>6, <1>7, <1>8, <1>9, <1>10, <1>11, <1>12, <1>13, <1>14

LEMMA RequestsGoOn == RequestsInv /\ RequestsNext => RequestsInv'
<1>1. ASSUME RequestsInv, RequestsNext PROVE RequestsInv'
  <2>1. RequestsAre(request) /\ TailIs(transitions, request) BY <1>1 DEF RequestsInv
  <2>2. ASSUME NEW c \in Clients, RequestRoutes(c) PROVE RequestsInv'
    <3>1. request[c].step = "idle" /\ \E r : Only(c, r) /\ RequestOK(r)
      BY <2>2, RequestRouteIsTaken
    <3>2. RequestStep(c) BY <3>1 DEF Only, RequestStep
    <3> QED BY <1>1, <3>1, <3>2, RequestStepIs
  <2>3. ASSUME NEW c \in Clients, BodyRead(c) PROVE RequestsInv'
    BY <1>1, <2>3, BodyReadIs
  <2>4. ASSUME NEW c \in Clients,
               \/ WriteEnds(c) \/ ReadEnds(c) \/ CommandEnds(c) \/ GestureSettles(c)
               \/ TreeAborted(c) \/ NodeFound(c) \/ ListingEnds(c) \/ BootEnds(c) \/ Launched(c)
               \/ KillEnds(c)
        PROVE  RequestsInv'
    <3>1. RequestStep(c) /\ request[c].step \notin {"switching", "stopping"}
      BY <1>1, <2>4, LaterStepIs
    <3> QED BY <1>1, <3>1, RequestStepIs
  <2>5. CASE TreeExpires \/ Boots \/ SessionEnds
    BY <2>1, <2>5 DEF TreeExpires, Boots, SessionEnds, RequestsInv
  <2>6. CASE TreeLoads
    <3>1. PICK loaded \in BOOLEAN :
            request' = [c \in Clients |->
              IF request[c].step = "waiting" /\ StillPublished(c)
              THEN IF loaded THEN Moves(c, "found") ELSE AnsweredWith(request[c], "failed")
              ELSE request[c]]
      BY <2>6 DEF TreeLoads
    <3>2. ASSUME NEW c \in Clients
          PROVE  /\ RequestOK(request'[c])
                 /\ request[c].step \in {"switching", "stopping"} => request'[c].step = request[c].step
      <4>1. RequestOK(request[c]) BY <2>1 DEF RequestsAre
      <4>2. CASE request[c].step = "waiting"
        <5>1. ~request[c].owns BY <4>1, <4>2 DEF RequestOK
        <5>2. RequestOK(Moves(c, "found")) BY <4>1, <4>2, <5>1, RequestSteps
        <5>3. RequestOK(AnsweredWith(request[c], "failed")) BY <4>1, <5>1, RequestIsAnswered
        <5> QED BY <3>1, <4>1, <4>2, <5>2, <5>3
      <4>3. CASE request[c].step # "waiting" BY <3>1, <4>1, <4>3
      <4> QED BY <4>2, <4>3
    <3>3. request' = [c \in Clients |-> request'[c]] BY <3>1
    <3>4. RequestsAre(request') /\ TailIs(transitions, request')
      BY <2>1, <3>2, <3>3, ManyMove
    <3> QED BY <2>6, <3>4 DEF RequestsInv, TreeLoads
  <2>7. ASSUME NEW r, RequestOK(r), transitions # <<>>,
               Becomes(Head(transitions).client, r), transitions' = Tail(transitions)
        PROVE  RequestsInv'
    <3>1. request' = [request EXCEPT ![Head(transitions).client] = r] BY <2>7 DEF Becomes
    <3>2. RequestsAre(request') /\ TailIs(Tail(transitions), request')
      BY <2>1, <2>7, <3>1, HeadMoves
    <3> QED BY <2>7, <3>2 DEF RequestsInv
  <2>8. CASE SwitchEnds
    <3>. DEFINE c == Head(transitions).client
                r == AnsweredWith([request[c] EXCEPT !.stopped = @ \/ request[c].owns], "failed")
    <3>1. transitions # <<>> /\ transitions' = Tail(transitions) BY <2>8 DEF SwitchEnds
    <3>2. RequestOK(Unmade) BY DEF RequestOK, IsRequest, Unmade, Serials
    <3>3. c \in Clients BY <2>1, <3>1, <3>2, HeadMoves
    <3>4. RequestOK(request[c]) BY <2>1, <3>3 DEF RequestsAre
    <3>5. Becomes(c, AnsweredWith(request[c], "ok")) \/ Becomes(c, r)
      BY <2>8 DEF SwitchEnds, LaunchStops
    <3>6. RequestOK(AnsweredWith(request[c], "ok"))
      <4>. HIDE DEF c
      <4> QED BY <3>4, RequestIsAnswered
    <3>7. RequestOK(r)
      <4>. HIDE DEF c
      <4> QED BY <3>3, <3>4, StoppedIs
    <3>. HIDE DEF r
    <3> QED BY <2>7, <3>1, <3>5, <3>6, <3>7
  <2>9. CASE StopEnds
    <3>. DEFINE c == Head(transitions).client
    <3>1. transitions # <<>> /\ transitions' = Tail(transitions) /\ Head(transitions).kind = "stop"
      BY <2>9 DEF StopEnds
    <3>2. RequestOK(Unmade) BY DEF RequestOK, IsRequest, Unmade, Serials
    <3>3. c \in Clients /\ request[c].step = "stopping" BY <2>1, <3>1, <3>2, HeadMoves
    <3>4. RequestOK(request[c]) BY <2>1, <3>3 DEF RequestsAre
    <3>5. Becomes(c, Moves(c, "killing")) \/ Becomes(c, AnsweredWith(request[c], "changed"))
      BY <2>9 DEF StopEnds
    <3>6. ~request[c].owns BY <3>3, <3>4 DEF RequestOK
    <3>7. RequestOK(AnsweredWith(request[c], "changed"))
      <4>. HIDE DEF c
      <4> QED BY <3>4, <3>6, RequestIsAnswered
    <3>8. RequestOK(Moves(c, "killing"))
      <4>. HIDE DEF c
      <4> QED BY <3>3, <3>4, <3>6, RequestSteps
    <3> QED BY <2>7, <3>1, <3>5, <3>7, <3>8
  <2> QED
    BY <1>1, <2>2, <2>3, <2>4, <2>5, <2>6, <2>8, <2>9 DEF RequestsNext, RequestRoutes
<1> QED BY <1>1

LEMMA RequestsStay == RequestsInv /\ UNCHANGED requestsVars => RequestsInv'
BY DEF RequestsInv, requestsVars

LEMMA RequestsPromise == RequestsInv => FailedStartIsUndone
BY DEF RequestsInv, RequestsAre, RequestOK, FailedStartIsUndone

\* What a request has captured: the session that was published when it came,
\* and so no later one; and each step a request is at belongs to its kind.
SessionRecord == [gen : Nat, serial : Serials, usable : BOOLEAN]
StepFits(r) ==
  /\ r.step = "idle" => r.kind = "none"
  /\ r.step = "writing" => r.kind = "set"
  /\ r.kind = "set" => r.step \in {"body", "writing", "reading", "answered"}
  /\ r.step \in {"booting", "launched"} => r.kind = "start"
  /\ r.step = "switching" => r.kind \in {"select", "start"}
  /\ r.step \in {"stopping", "killing"} => r.kind \in {"stop", "stopAvd"}
Captured(r, s) ==
  r.step # "idle" => r.gen \in Nat /\ r.gen <= s.gen /\ (r.gen = s.gen => r.serial = s.serial)
CapturedOK ==
  /\ session \in SessionRecord
  /\ \A c \in Clients : StepFits(request[c]) /\ Captured(request[c], session)
CapturedInv == RequestsInv /\ CapturedOK

ActingKinds == {"set", "get", "screenshot", "foreground", "command", "gesture", "tap"}

\* A setting that was asked for and is not set yet.
Fresh(r) ==
  r.kind = "set" => /\ r.step = "body" /\ r.answer = "none" /\ r.setting \in Settings
                    /\ r.read = {} /\ r.since = 0

\* What a step makes of a request, q before it and p after it.
Goes(q, p) ==
  /\ p.step # "idle" /\ StepFits(p)
  /\ p.kind = q.kind \/ (q.kind = "none" /\ Fresh(p) /\ p.serial = session.serial)
  /\ \/ p.gen = q.gen /\ p.serial = q.serial /\ q.step # "idle"
     \/ p.gen = session.gen /\ p.serial = session.serial
  /\ q.answer = "none" /\ p.answer = "ok" /\ q.kind \in ActingKinds
     => q.gen = session'.gen /\ session'.usable
  /\ q.step # "killing" /\ p.step = "killing" => ~(session'.serial = q.target /\ session'.usable)
SessionGoes ==
  \/ session' = session
  \/ session' = [session EXCEPT !.usable = FALSE]
  \/ session' \in SessionRecord /\ session'.gen = session.gen + 1

EachDoes == \A c \in Clients : request'[c] = request[c] \/ Goes(request[c], request'[c])
RequestsAdvance == CapturedOK' /\ AnswersAreCurrent /\ KilledIsNotStreaming /\ EachDoes

LEMMA CapturedStarts == RequestsInit => CapturedOK
<1>1. ASSUME RequestsInit PROVE CapturedOK
  <2>1. session = [gen |-> 0, serial |-> "attached", usable |-> TRUE]
        /\ request = [c \in Clients |-> Unmade]
    BY <1>1 DEF RequestsInit
  <2>2. session \in SessionRecord BY <2>1 DEF SessionRecord, Serials
  <2>3. StepFits(Unmade) /\ Unmade.step = "idle" BY DEF StepFits, Unmade
  <2> QED BY <2>1, <2>2, <2>3 DEF CapturedOK, Captured
<1> QED BY <1>1

LEMMA EachGoes ==
  ASSUME CapturedInv, SessionGoes,
         \A c \in Clients : request'[c] = request[c] \/ Goes(request[c], request'[c])
  PROVE  RequestsAdvance
<1>1. /\ session \in SessionRecord /\ session' \in SessionRecord /\ session.gen \in Nat
      /\ session'.gen \in Nat /\ session.gen <= session'.gen
      /\ session'.gen = session.gen => session'.serial = session.serial
  <2>1. session \in SessionRecord BY DEF CapturedInv, CapturedOK
  <2>2. CASE session' = session BY <2>1, <2>2 DEF SessionRecord
  <2>3. CASE session' = [session EXCEPT !.usable = FALSE]
    <3>1. session' \in SessionRecord BY <2>1, <2>3 DEF SessionRecord
    <3>2. session'.gen = session.gen /\ session'.serial = session.serial /\ session.gen \in Nat
      BY <2>1, <2>3 DEF SessionRecord
    <3> QED BY <2>1, <3>1, <3>2
  <2>4. CASE session' \in SessionRecord /\ session'.gen = session.gen + 1
    BY <2>1, <2>4 DEF SessionRecord
  <2> QED BY <2>2, <2>3, <2>4 DEF SessionGoes
<1>2. ASSUME NEW c \in Clients
      PROVE  StepFits(request'[c]) /\ Captured(request'[c], session')
  <2>1. StepFits(request[c]) /\ Captured(request[c], session) BY DEF CapturedInv, CapturedOK
  <2>2. CASE request'[c] = request[c] BY <1>1, <2>1, <2>2 DEF Captured
  <2>3. CASE Goes(request[c], request'[c]) BY <1>1, <2>1, <2>3 DEF Captured, Goes
  <2> QED BY <2>2, <2>3
<1>3. CapturedOK' BY <1>1, <1>2 DEF CapturedOK
<1>4. AnswersAreCurrent
  <2>1. ASSUME NEW c \in Clients, request[c].answer = "none", request'[c].answer = "ok",
               request[c].kind \in ActingKinds
        PROVE  request[c].gen = session'.gen /\ session'.usable
    BY <2>1 DEF Goes
  <2> QED BY <2>1 DEF AnswersAreCurrent, ActingKinds
<1>5. KilledIsNotStreaming
  <2>1. ASSUME NEW c \in Clients, request[c].step # "killing", request'[c].step = "killing"
        PROVE  ~(session'.serial = request[c].target /\ session'.usable)
    BY <2>1 DEF Goes
  <2> QED BY <2>1 DEF KilledIsNotStreaming
<1>6. EachDoes BY DEF EachDoes
<1> QED BY <1>3, <1>4, <1>5, <1>6 DEF RequestsAdvance

\* One request goes on, the others stay.
OneGoes(c) == \E r : Becomes(c, r) /\ Goes(request[c], r)

LEMMA OneGoesOn ==
  ASSUME CapturedInv, SessionGoes, NEW c \in Clients, OneGoes(c)
  PROVE  RequestsAdvance
<1>1. PICK r : request' = [request EXCEPT ![c] = r] /\ Goes(request[c], r)
  BY DEF OneGoes, Becomes
<1>2. request = [d \in Clients |-> request[d]] BY DEF CapturedInv, RequestsInv, RequestsAre
<1>3. \A d \in Clients : request'[d] = IF d = c THEN r ELSE request[d] BY <1>1, <1>2
<1> QED BY <1>1, <1>3, EachGoes

\* What the makers of requests make.
LEMMA AnsweredHas ==
  ASSUME NEW r, IsRequest(r), NEW answer
  PROVE  LET x == AnsweredWith(r, answer)
         IN  /\ x.step = "answered" /\ x.answer = answer /\ x.gen = r.gen /\ x.serial = r.serial
             /\ x.kind = r.kind /\ StepFits(x)
BY DEF AnsweredWith, IsRequest, StepFits

LEMMA MovesHas ==
  ASSUME NEW c, IsRequest(request[c]), NEW step
  PROVE  LET x == Moves(c, step)
         IN  /\ x.step = step /\ x.answer = request[c].answer /\ x.gen = request[c].gen
             /\ x.serial = request[c].serial /\ x.kind = request[c].kind /\ IsRequest(x)
BY DEF Moves, IsRequest

LEMMA ArrivesHas ==
  ASSUME NEW c, NEW kind, NEW step
  PROVE  LET x == Arrives(c, kind, step)
         IN  /\ x.step = step /\ x.answer = "none" /\ x.gen = session.gen
             /\ x.serial = session.serial /\ x.kind = kind /\ IsRequest(x)
             /\ x.read = {} /\ x.since = 0
BY DEF Arrives, Unmade, IsRequest

\* A request that is answered, or goes to another step.
LEMMA AnswerGoes ==
  ASSUME NEW q, IsRequest(q), q.step # "idle", NEW r, IsRequest(r), r.gen = q.gen, r.serial = q.serial,
         r.kind = q.kind, NEW answer,
         answer # "ok" \/ q.kind \notin ActingKinds \/ (q.gen = session'.gen /\ session'.usable)
  PROVE  Goes(q, AnsweredWith(r, answer))
<1>. DEFINE x == AnsweredWith(r, answer)
<1>1. /\ x.step = "answered" /\ x.answer = answer /\ x.gen = r.gen /\ x.serial = r.serial
      /\ x.kind = r.kind /\ StepFits(x)
  BY AnsweredHas
<1>2. Goes(q, x)
  <2>. HIDE DEF x
  <2> QED BY <1>1 DEF Goes
<1> QED BY <1>2

LEMMA MoveGoes ==
  ASSUME NEW q, q.step # "idle", q.answer = "none", NEW p, p.gen = q.gen, p.serial = q.serial,
         p.answer = "none", p.step # "idle", p.kind = q.kind, StepFits(p),
         p.step = "killing" => ~(session'.serial = q.target /\ session'.usable)
  PROVE  Goes(q, p)
BY DEF Goes

\* A request that comes: it captures the session there is.
Arrived(r) ==
  /\ r.step \in {"body", "reading", "asking", "listing", "answered"}
  /\ r.gen = session.gen /\ r.serial = session.serial /\ Fresh(r)

LEMMA ArrivalGoes ==
  ASSUME NEW q, q.kind = "none", NEW p, Arrived(p)
  PROVE  Goes(q, p)
BY DEF Arrived, Goes, StepFits, ActingKinds, Fresh

LEMMA SettingsAre ==
  Settings = {"orientation", "nightMode", "fontScale", "network", "reduceMotion",
              "highTextContrast", "fontWeight", "displayDensity"}
BY DEF Settings, Writes

LEMMA RouteArrives ==
  ASSUME NEW c \in Clients, RequestRoutes(c)
  PROVE  request[c].step = "idle" /\ \E r : Only(c, r) /\ Arrived(r)
<1>. DEFINE Comes == request[c].step = "idle" /\ \E r : Only(c, r) /\ Arrived(r)
<1>1. ASSUME NEW kind, kind # "set", NEW step, step \in {"body", "reading", "asking", "listing"},
             request[c].step = "idle", Only(c, Arrives(c, kind, step))
      PROVE  Comes
  <2>1. Arrived(Arrives(c, kind, step)) BY <1>1, ArrivesHas DEF Arrived, Fresh
  <2> QED BY <1>1, <2>1
<1>2. ASSUME NEW kind, kind # "set", request[c].step = "idle", NEW answer,
             Only(c, AnsweredWith(Arrives(c, kind, "none"), answer))
      PROVE  Comes
  <2>1. Arrived(AnsweredWith(Arrives(c, kind, "none"), answer))
    BY <1>2, ArrivesHas, AnsweredHas DEF Arrived, Fresh
  <2> QED BY <1>2, <2>1
<1>3. ASSUME NEW setting \in Settings, SettingRoute(c, setting) PROVE Comes
  <2>. DEFINE a == Arrives(c, "set", "body")
              b == Arrives(c, "get", "reading")
              keys == KeysOf(setting)
              r == [a EXCEPT !.setting = setting]
              s == [b EXCEPT !.setting = setting, !.reading = keys]
  <2>1. /\ IsRequest(a) /\ a.step = "body" /\ a.gen = session.gen /\ a.serial = session.serial
        /\ a.answer = "none" /\ a.read = {} /\ a.since = 0 /\ b.kind = "get"
        /\ IsRequest(b) /\ b.step = "reading" /\ b.gen = session.gen /\ b.serial = session.serial
    BY ArrivesHas
  <2>2. request[c].step = "idle" /\ (Only(c, r) \/ Only(c, s)
           \/ Only(c, AnsweredWith(Arrives(c, "get", "none"), "changed")))
    BY <1>3 DEF SettingRoute
  <2>. HIDE DEF a, b, keys
  <2>3. Arrived(r) /\ Arrived(s) BY <2>1 DEF Arrived, Fresh, IsRequest
  <2>. HIDE DEF r, s
  <2> QED BY <1>2, <2>2, <2>3
<1>4. ASSUME NEW kind, kind # "set", NEW s, request[c].step = "idle",
             Only(c, [Arrives(c, kind, "body") EXCEPT !.target = s])
      PROVE  Comes
  <2>. DEFINE a == Arrives(c, kind, "body")
              r == [a EXCEPT !.target = s]
  <2>1. /\ IsRequest(a) /\ a.step = "body" /\ a.gen = session.gen /\ a.serial = session.serial
        /\ Only(c, r) /\ a.kind # "set"
    BY <1>4, ArrivesHas
  <2>. HIDE DEF a
  <2>2. Arrived(r) BY <2>1 DEF Arrived, Fresh, IsRequest
  <2>. HIDE DEF r
  <2> QED BY <1>4, <2>1, <2>2
<1>5. CASE StartAvdRoute(c)
  <2>1. PICK select \in BOOLEAN :
          Only(c, [Arrives(c, "start", "body") EXCEPT !.target = "emulator", !.select = select])
    BY <1>5 DEF StartAvdRoute
  <2>. DEFINE a == Arrives(c, "start", "body")
              r == [a EXCEPT !.target = "emulator", !.select = select]
  <2>2. /\ IsRequest(a) /\ a.step = "body" /\ a.gen = session.gen /\ a.serial = session.serial
        /\ Only(c, r) /\ a.kind # "set"
    BY <2>1, ArrivesHas
  <2>. HIDE DEF a
  <2>3. Arrived(r) BY <2>2 DEF Arrived, Fresh, IsRequest
  <2>. HIDE DEF r
  <2> QED BY <1>5, <2>2, <2>3 DEF StartAvdRoute
<1>6. CASE SelectRoute(c) \/ StopAvdRoute(c) BY <1>4, <1>6 DEF SelectRoute, StopAvdRoute
<1>7. CASE ScreenshotRoute(c) \/ ForegroundRoute(c)
  BY <1>1, <1>2, <1>7 DEF ScreenshotRoute, ForegroundRoute
<1>8. CASE AnsweredAtOnce(c) BY <1>2, <1>8 DEF AnsweredAtOnce
<1>9. CASE \/ DevicesRoute(c) \/ DeviceGridRoute(c) \/ GestureRoute(c) \/ KeyRoute(c)
           \/ AccessibilityTapRoute(c) \/ AppRoute(c)
  BY <1>1, <1>9 DEF DevicesRoute, DeviceGridRoute, GestureRoute, KeyRoute, AccessibilityTapRoute,
     AppRoute
<1>10. CASE \/ OrientationRoute(c) \/ NightModeRoute(c) \/ FontScaleRoute(c) \/ NetworkRoute(c)
            \/ ReduceMotionRoute(c) \/ HighTextContrastRoute(c) \/ FontWeightRoute(c)
            \/ DisplayDensityRoute(c)
  BY <1>3, <1>10, SettingsAre DEF OrientationRoute, NightModeRoute, FontScaleRoute, NetworkRoute,
     ReduceMotionRoute, HighTextContrastRoute, FontWeightRoute, DisplayDensityRoute
<1> QED BY <1>5, <1>6, <1>7, <1>8, <1>9, <1>10 DEF RequestRoutes

LEMMA RouteGoes ==
  ASSUME CapturedInv, NEW c \in Clients, RequestRoutes(c)
  PROVE  OneGoes(c) /\ UNCHANGED session
<1>1. request[c].kind = "none" BY RouteArrives DEF CapturedInv, CapturedOK, StepFits
<1> QED BY <1>1, RouteArrives, ArrivalGoes DEF OneGoes, Only

\* What is known of a request on its way.
LEMMA RequestFacts ==
  ASSUME CapturedInv, NEW c \in Clients, request[c].step \notin {"idle", "answered"}
  PROVE  /\ IsRequest(request[c]) /\ request[c].answer = "none" /\ StepFits(request[c])
         /\ session \in SessionRecord
         /\ StillPublished(c) => request[c].serial = session.serial
BY DEF CapturedInv, CapturedOK, RequestsInv, RequestsAre, RequestOK, Captured, StillPublished

\* It is answered: with anything but "ok" at any time.
LEMMA OneIsAnswered ==
  ASSUME CapturedInv, NEW c \in Clients, request[c].step \notin {"idle", "answered"}, NEW answer,
         answer # "ok" \/ request[c].kind \notin ActingKinds \/ (Current(c) /\ UNCHANGED session),
         Becomes(c, AnsweredWith(request[c], answer))
  PROVE  OneGoes(c)
<1>1. Goes(request[c], AnsweredWith(request[c], answer))
  <2>1. IsRequest(request[c]) BY RequestFacts
  <2>2. \/ answer # "ok" \/ request[c].kind \notin ActingKinds
        \/ (request[c].gen = session'.gen /\ session'.usable)
    BY DEF Current, StillPublished
  <2> QED BY <2>1, <2>2, AnswerGoes
<1> QED BY <1>1 DEF OneGoes

\* It goes to a step of its kind.
LEMMA ClientMoves ==
  ASSUME CapturedInv, NEW c \in Clients, request[c].step \notin {"idle", "answered"}, NEW step,
         step # "idle", \A r : r.step = step /\ r.kind = request[c].kind => StepFits(r),
         step = "killing" => ~(session'.serial = request[c].target /\ session'.usable),
         Becomes(c, Moves(c, step))
  PROVE  OneGoes(c)
<1>. DEFINE p == Moves(c, step)
<1>1. IsRequest(request[c]) /\ request[c].answer = "none" BY RequestFacts
<1>2. /\ p.step = step /\ p.answer = "none" /\ p.gen = request[c].gen
      /\ p.serial = request[c].serial /\ p.kind = request[c].kind
  BY <1>1, MovesHas
<1>3. Becomes(c, p) OBVIOUS
<1>. HIDE DEF p
<1>4. StepFits(p) BY <1>2
<1>5. Goes(request[c], p) BY <1>1, <1>2, <1>4, MoveGoes
<1> QED BY <1>3, <1>5 DEF OneGoes

LEMMA FreeSteps ==
  \A r : /\ r.step \in {"body", "reading", "asking", "queued", "found", "waiting", "listing"}
         /\ r.kind = "set" => r.step \in {"body", "reading"}
         => StepFits(r)
BY DEF StepFits

\* A kill that needs no stop is that of another device than the one published.
LEMMA StopsGoes ==
  ASSUME CapturedInv, NEW c \in Clients, request[c].step \notin {"idle", "answered"}, Stops(c),
         request[c].kind \in {"stop", "stopAvd"}, StillPublished(c)
  PROVE  OneGoes(c) /\ UNCHANGED session
<1>1. UNCHANGED session BY DEF Stops, Only
<1>2. CASE Becomes(c, Moves(c, "stopping"))
  <2>1. \A r : r.step = "stopping" /\ r.kind = request[c].kind => StepFits(r) BY DEF StepFits
  <2> QED BY <1>1, <1>2, <2>1, ClientMoves
<1>3. CASE request[c].target # request[c].serial /\ Becomes(c, Moves(c, "killing"))
  <2>1. \A r : r.step = "killing" /\ r.kind = request[c].kind => StepFits(r) BY DEF StepFits
  <2>2. session'.serial # request[c].target BY <1>1, <1>3, RequestFacts
  <2> QED BY <1>1, <1>3, <2>1, <2>2, ClientMoves
<1> QED BY <1>1, <1>2, <1>3 DEF Stops, Only

LEMMA BodyGoes ==
  ASSUME CapturedInv, NEW c \in Clients, BodyRead(c)
  PROVE  RequestsAdvance
<1>1. /\ request[c].step = "body" /\ UNCHANGED session
  BY DEF BodyRead, Only, Stops
<1>2. SessionGoes BY <1>1 DEF SessionGoes
<1>3. ASSUME NEW step, step \in {"asking", "queued", "found", "waiting", "listing"},
             request[c].kind # "set", Becomes(c, Moves(c, step))
      PROVE  OneGoes(c)
  <2>1. \A r : r.step = step /\ r.kind = request[c].kind => StepFits(r) BY <1>3, FreeSteps
  <2> QED BY <1>1, <1>3, <2>1, ClientMoves
<1>4. ASSUME NEW answer, answer \in {"refused", "changed"}, Only(c, AnsweredWith(request[c], answer))
      PROVE  OneGoes(c)
  BY <1>1, <1>4, OneIsAnswered DEF Only
<1>5. CASE request[c].kind = "select" /\ Becomes(c, Moves(c, "switching"))
  <2>1. \A r : r.step = "switching" /\ r.kind = request[c].kind => StepFits(r) BY <1>5 DEF StepFits
  <2>2. OneGoes(c) BY <1>1, <1>5, <2>1, ClientMoves
  <2> QED BY <1>2, <2>2, OneGoesOn
<1>6. CASE request[c].kind = "stop" /\ StillPublished(c) /\ Stops(c)
  BY <1>1, <1>2, <1>6, StopsGoes, OneGoesOn
<1>7. CASE request[c].kind = "set" /\ SetterStarts(c)
  <2>. DEFINE a == ~\E e \in Clients \ {c} : request[e].step = "writing"
                                             /\ request[e].serial = request[c].serial
              plan == Writes[request[c].setting]
              kills == device[request[c].serial].kills
              r == [request[c] EXCEPT !.step = "writing", !.plan = plan, !.since = kills, !.alone = a]
  <2>1. request' = [d \in Clients |->
          IF d = c THEN r
          ELSE IF request[d].step \in {"writing", "reading"} /\ request[d].serial = request[c].serial
          THEN [request[d] EXCEPT !.alone = FALSE] ELSE request[d]]
    BY <1>7 DEF SetterStarts
  <2>. HIDE DEF a, plan, kills
  <2>2. Goes(request[c], r)
    <3>1. IsRequest(request[c]) /\ request[c].answer = "none" BY <1>1, RequestFacts
    <3>2. /\ r.step = "writing" /\ r.gen = request[c].gen /\ r.serial = request[c].serial
          /\ r.answer = "none" /\ r.kind = request[c].kind
      BY <3>1 DEF IsRequest
    <3>. HIDE DEF r
    <3>3. StepFits(r) BY <1>7, <3>2 DEF StepFits
    <3> QED BY <1>1, <3>1, <3>2, <3>3, MoveGoes
  <2>. HIDE DEF r
  <2>3. ASSUME NEW d \in Clients PROVE request'[d] = request[d] \/ Goes(request[d], request'[d])
    <3>. DEFINE f == [request[d] EXCEPT !.alone = FALSE]
    <3>1. CASE d = c BY <2>1, <2>2, <3>1
    <3>2. CASE request'[d] = f /\ request[d].step \in {"writing", "reading"}
      <4>1. IsRequest(request[d]) /\ request[d].answer = "none" /\ StepFits(request[d])
        BY <3>2, RequestFacts
      <4>2. /\ f.step = request[d].step /\ f.gen = request[d].gen /\ f.serial = request[d].serial
            /\ f.answer = "none" /\ f.kind = request[d].kind
        BY <4>1 DEF IsRequest
      <4>. HIDE DEF f
      <4>3. StepFits(f) BY <3>2, <4>1, <4>2 DEF StepFits
      <4>4. Goes(request[d], f) BY <3>2, <4>1, <4>2, <4>3, MoveGoes
      <4> QED BY <3>2, <4>4
    <3>3. CASE d # c /\ ~(request'[d] = f /\ request[d].step \in {"writing", "reading"})
      BY <2>1, <3>3
    <3> QED BY <3>1, <3>2, <3>3
  <2> QED BY <1>2, <2>3, EachGoes
<1>8. \/ request[c].kind = "set" /\ SetterStarts(c)
      \/ request[c].kind = "stop" /\ StillPublished(c) /\ Stops(c)
      \/ request[c].kind = "select" /\ Becomes(c, Moves(c, "switching"))
      \/ /\ request[c].kind # "set"
         /\ \E step \in {"asking", "queued", "found", "waiting", "listing"} : Becomes(c, Moves(c, step))
      \/ \E answer \in {"refused", "changed"} : Only(c, AnsweredWith(request[c], answer))
  BY DEF BodyRead, BodyUsable, Only
<1> QED BY <1>2, <1>3, <1>4, <1>5, <1>6, <1>7, <1>8, OneGoesOn

LEMMA LaunchStopGoes ==
  ASSUME CapturedInv, NEW c \in Clients, request[c].step \notin {"idle", "answered"}, NEW answer,
         answer # "ok", LaunchStops(c, answer)
  PROVE  OneGoes(c)
<1>. DEFINE s == request[c].stopped \/ request[c].owns
            r == [request[c] EXCEPT !.stopped = s]
<1>1. IsRequest(request[c]) BY RequestFacts
<1>2. Becomes(c, AnsweredWith(r, answer)) BY DEF LaunchStops
<1>. HIDE DEF s
<1>3. IsRequest(r) /\ r.gen = request[c].gen /\ r.serial = request[c].serial
      /\ r.kind = request[c].kind
  BY <1>1 DEF IsRequest
<1>. HIDE DEF r
<1>4. Goes(request[c], AnsweredWith(r, answer)) BY <1>1, <1>3, AnswerGoes
<1> QED BY <1>2, <1>4 DEF OneGoes

LEMMA LaterStepGoes ==
  ASSUME CapturedInv, NEW c \in Clients,
         \/ WriteEnds(c) \/ ReadEnds(c) \/ CommandEnds(c) \/ GestureSettles(c)
         \/ TreeAborted(c) \/ NodeFound(c) \/ ListingEnds(c) \/ BootEnds(c) \/ Launched(c)
         \/ KillEnds(c)
  PROVE  OneGoes(c) /\ UNCHANGED session
<1>1. request[c].step \in {"writing", "reading", "asking", "queued", "waiting", "found",
                           "listing", "booting", "launched", "killing"}
  BY DEF WriteEnds, ReadEnds, CommandEnds, GestureSettles, TreeAborted, NodeFound, ListingEnds,
     BootEnds, Launched, KillEnds
<1>2. UNCHANGED session
  BY DEF WriteEnds, ReadEnds, CommandEnds, GestureSettles, TreeAborted, NodeFound, ListingEnds,
     BootEnds, Launched, KillEnds, Only, Stops, Launches
<1>3. /\ IsRequest(request[c]) /\ request[c].answer = "none" /\ StepFits(request[c])
      /\ request[c].step \notin {"idle", "answered"}
      /\ request[c].step \notin {"writing", "reading"} => request[c].kind # "set"
  BY <1>1, RequestFacts DEF StepFits
<1>4. ASSUME NEW answer, Becomes(c, AnsweredWith(request[c], answer)),
             answer # "ok" \/ request[c].kind \notin ActingKinds \/ Current(c)
      PROVE  OneGoes(c)
  BY <1>2, <1>3, <1>4, OneIsAnswered
<1>5. ASSUME NEW step, step \in {"queued", "booting", "launched"},
             request[c].kind # "set", step # "queued" => request[c].kind = "start",
             Becomes(c, Moves(c, step))
      PROVE  OneGoes(c)
  <2>1. \A r : r.step = step /\ r.kind = request[c].kind => StepFits(r) BY <1>5 DEF StepFits
  <2> QED BY <1>3, <1>5, <2>1, ClientMoves
<1>6. ASSUME Becomes(c, Finished(c, request[c])) PROVE OneGoes(c)
  BY <1>4, <1>6 DEF Finished
<1>7. CASE WriteEnds(c)
  <2>. DEFINE r == request[c]
              rest == Tail(r.plan)
              keys == KeysOf(r.setting)
              s == [r EXCEPT !.plan = rest]
              t == [r EXCEPT !.plan = <<>>, !.step = "reading", !.reading = keys]
  <2>1. Becomes(c, s) \/ Becomes(c, t) \/ Becomes(c, AnsweredWith(r, "failed"))
    BY <1>7 DEF WriteEnds
  <2>2. r.step = "writing" BY <1>7 DEF WriteEnds
  <2>. HIDE DEF rest, keys
  <2>3. /\ s.step = "writing" /\ s.gen = r.gen /\ s.serial = r.serial /\ s.answer = "none"
        /\ t.step = "reading" /\ t.gen = r.gen /\ t.serial = r.serial /\ t.answer = "none"
        /\ s.kind = r.kind /\ t.kind = r.kind
    BY <1>3, <2>2 DEF IsRequest
  <2>. HIDE DEF s, t
  <2>4. StepFits(s) /\ StepFits(t) BY <1>3, <2>2, <2>3 DEF StepFits
  <2>5. Goes(r, s) /\ Goes(r, t) BY <1>3, <2>3, <2>4, MoveGoes
  <2> QED BY <1>2, <1>4, <2>1, <2>5 DEF OneGoes
<1>8. CASE ReadEnds(c)
  <2>1. CASE Only(c, AnsweredWith(request[c], "failed")) BY <1>2, <1>4, <2>1 DEF Only
  <2>2. ASSUME NEW k \in request[c].reading,
               LET r == [request[c] EXCEPT !.reading = @ \ {k},
                                           !.read = @ \cup {device[request[c].serial].set[k]}]
               IN  Only(c, IF r.reading = {} THEN Finished(c, r) ELSE r)
        PROVE  OneGoes(c)
    <3>. DEFINE a == request[c].reading \ {k}
                b == request[c].read \cup {device[request[c].serial].set[k]}
                r == [request[c] EXCEPT !.reading = a, !.read = b]
    <3>1. Becomes(c, IF r.reading = {} THEN Finished(c, r) ELSE r) BY <2>2 DEF Only
    <3>. HIDE DEF a, b
    <3>2. /\ r.step = "reading" /\ r.gen = request[c].gen /\ r.serial = request[c].serial
          /\ r.answer = "none" /\ r.kind = request[c].kind /\ IsRequest(r)
      BY <1>3, <1>8 DEF IsRequest, ReadEnds
    <3>. HIDE DEF r
    <3>3. StepFits(r) BY <3>2, FreeSteps
    <3>4. Goes(request[c], r) BY <1>3, <3>2, <3>3, MoveGoes
    <3>5. \A answer : answer # "ok" \/ Current(c) => Goes(request[c], AnsweredWith(r, answer))
      BY <1>2, <1>3, <3>2, AnswerGoes DEF Current, StillPublished
    <3>6. Goes(request[c], Finished(c, r)) BY <3>5 DEF Finished
    <3> QED BY <3>1, <3>4, <3>6 DEF OneGoes
  <2> QED BY <1>2, <1>8, <2>1, <2>2 DEF ReadEnds
<1>9. CASE CommandEnds(c) BY <1>2, <1>4, <1>6, <1>9 DEF CommandEnds, Only
<1>10. CASE GestureSettles(c) \/ TreeAborted(c)
  BY <1>2, <1>4, <1>10 DEF GestureSettles, TreeAborted, Only
<1>11. CASE NodeFound(c) BY <1>2, <1>3, <1>4, <1>5, <1>11 DEF NodeFound, Only
<1>12. CASE ListingEnds(c)
  <2>1. CASE Only(c, AnsweredWith(request[c], "failed")) \/ Only(c, AnsweredWith(request[c], "changed"))
    BY <1>2, <1>4, <2>1 DEF Only
  <2>2. CASE request[c].kind \in {"devices", "grid"} /\ Only(c, Listed(c))
    BY <1>2, <1>4, <2>2 DEF Only, Listed, ActingKinds
  <2>3. CASE request[c].kind = "start" /\ Launches(c)
    <3>1. CASE Only(c, Moves(c, "launched")) BY <1>2, <1>5, <2>3, <3>1 DEF Only
    <3>2. CASE Becomes(c, [Moves(c, "booting") EXCEPT !.owns = TRUE])
      <4>. DEFINE m == Moves(c, "booting")
                  r == [m EXCEPT !.owns = TRUE]
      <4>1. /\ IsRequest(m) /\ m.step = "booting" /\ m.answer = "none" /\ m.gen = request[c].gen
            /\ m.serial = request[c].serial /\ m.kind = "start"
        BY <1>3, <2>3, MovesHas
      <4>. HIDE DEF m
      <4>2. /\ r.step = "booting" /\ r.answer = "none" /\ r.gen = request[c].gen
            /\ r.serial = request[c].serial /\ r.kind = "start"
        BY <4>1 DEF IsRequest
      <4>3. Becomes(c, r) BY <3>2 DEF m
      <4>. HIDE DEF r
      <4>4. StepFits(r) BY <4>2 DEF StepFits
      <4>5. Goes(request[c], r) BY <1>3, <2>3, <4>2, <4>4, MoveGoes
      <4> QED BY <1>2, <4>3, <4>5 DEF OneGoes
    <3> QED BY <2>3, <3>1, <3>2 DEF Launches
  <2>4. CASE request[c].kind = "stopAvd" /\ StillPublished(c) /\ Stops(c)
    BY <1>3, <2>4, StopsGoes
  <2> QED BY <1>12, <2>1, <2>2, <2>3, <2>4 DEF ListingEnds
<1>13. CASE BootEnds(c)
  <2>1. request[c].kind = "start" BY <1>3, <1>13 DEF BootEnds, StepFits
  <2>2. CASE Only(c, Moves(c, "launched")) BY <1>2, <1>5, <2>1, <2>2 DEF Only
  <2>3. CASE LaunchStops(c, "failed") BY <1>2, <2>3, LaunchStopGoes, <1>3
  <2> QED BY <1>13, <2>2, <2>3 DEF BootEnds
<1>14. CASE Launched(c)
  <2>1. request[c].kind = "start" BY <1>3, <1>14 DEF Launched, StepFits
  <2>2. CASE Only(c, AnsweredWith(request[c], "failed")) \/ Only(c, AnsweredWith(request[c], "ok"))
    BY <1>2, <1>4, <2>1, <2>2 DEF Only, ActingKinds
  <2>3. CASE LaunchStops(c, "changed") BY <1>2, <2>3, LaunchStopGoes, <1>3
  <2>4. CASE Becomes(c, Moves(c, "switching"))
    <3>1. \A r : r.step = "switching" /\ r.kind = request[c].kind => StepFits(r)
      BY <2>1 DEF StepFits
    <3> QED BY <1>2, <1>3, <2>4, <3>1, ClientMoves
  <2> QED BY <1>14, <2>2, <2>3, <2>4 DEF Launched
<1>15. CASE KillEnds(c)
  <2>1. request[c].kind \in {"stop", "stopAvd"} BY <1>3, <1>15 DEF KillEnds, StepFits
  <2> QED BY <1>2, <1>4, <1>15, <2>1 DEF KillEnds, Listed, ActingKinds
<1> QED BY <1>7, <1>8, <1>9, <1>10, <1>11, <1>12, <1>13, <1>14, <1>15

\* The first of the tail is a request at the step that waits there.
LEMMA FirstWaits ==
  ASSUME CapturedInv, transitions # <<>>
  PROVE  /\ Head(transitions).client \in Clients /\ Head(transitions).serial \in Serials
         /\ request[Head(transitions).client].step =
              IF Head(transitions).kind = "switch" THEN "switching" ELSE "stopping"
<1>. DEFINE T == [client : Clients, kind : {"switch", "stop"}, serial : Serials]
<1>1. TailIs(transitions, request) BY DEF CapturedInv, RequestsInv
<1>2. transitions \in Seq(T) BY <1>1 DEF TailIs
<1>. HIDE DEF T
<1>3. Head(transitions) \in T /\ Head(transitions) = transitions[1] /\ 1 \in 1 .. Len(transitions)
  BY <1>2, HeadTailProperties, EmptySeq, LenProperties
<1> QED BY <1>1, <1>3 DEF TailIs, T

LEMMA SwitchGoes == ASSUME CapturedInv, SwitchEnds PROVE RequestsAdvance
<1>. DEFINE c == Head(transitions).client
            serial == Head(transitions).serial
<1>1. /\ c \in Clients /\ serial \in Serials /\ request[c].step = "switching"
      /\ \/ UNCHANGED session /\ Becomes(c, AnsweredWith(request[c], "ok"))
         \/ Switches(serial) /\ Becomes(c, AnsweredWith(request[c], "ok"))
         \/ UNCHANGED session /\ LaunchStops(c, "failed")
  BY FirstWaits DEF SwitchEnds
<1>. HIDE DEF c, serial
<1>2. request[c].kind \notin ActingKinds /\ session \in SessionRecord
  BY <1>1, RequestFacts DEF StepFits, ActingKinds
<1>3. SessionGoes
  <2>1. CASE UNCHANGED session BY <2>1 DEF SessionGoes
  <2>2. CASE Switches(serial)
    <3>. DEFINE n == session.gen + 1
    <3>1. n \in Nat BY <1>2 DEF SessionRecord
    <3>2. session' = [gen |-> n, serial |-> serial, usable |-> TRUE] BY <2>2 DEF Switches
    <3>. HIDE DEF n
    <3>3. session' \in SessionRecord /\ session'.gen = n BY <1>1, <3>1, <3>2 DEF SessionRecord
    <3> QED BY <3>3 DEF SessionGoes, n
  <2> QED BY <1>1, <2>1, <2>2
<1>4. OneGoes(c) BY <1>1, <1>2, OneIsAnswered, LaunchStopGoes
<1> QED BY <1>1, <1>3, <1>4, OneGoesOn

LEMMA StopGoes == ASSUME CapturedInv, StopEnds PROVE RequestsAdvance
<1>. DEFINE c == Head(transitions).client
<1>1. /\ c \in Clients /\ request[c].step = "stopping"
      /\ \/ session' = [session EXCEPT !.usable = FALSE] /\ Becomes(c, Moves(c, "killing"))
         \/ UNCHANGED session /\ Becomes(c, AnsweredWith(request[c], "changed"))
  BY FirstWaits DEF StopEnds
<1>. HIDE DEF c
<1>2. request[c].kind \in {"stop", "stopAvd"} /\ session \in SessionRecord
  BY <1>1, RequestFacts DEF StepFits
<1>3. SessionGoes BY <1>1 DEF SessionGoes
<1>4. CASE Becomes(c, Moves(c, "killing")) /\ session' = [session EXCEPT !.usable = FALSE]
  <2>1. \A r : r.step = "killing" /\ r.kind = request[c].kind => StepFits(r)
    BY <1>2 DEF StepFits
  <2>2. ~session'.usable BY <1>2, <1>4 DEF SessionRecord
  <2>3. OneGoes(c) BY <1>1, <1>4, <2>1, <2>2, ClientMoves
  <2> QED BY <1>1, <1>3, <2>3, OneGoesOn
<1>5. CASE Becomes(c, AnsweredWith(request[c], "changed"))
  <2>1. OneGoes(c) BY <1>1, <1>5, OneIsAnswered
  <2> QED BY <1>1, <1>3, <2>1, OneGoesOn
<1> QED BY <1>1, <1>4, <1>5

\* Those that waited for the accessibility tree go on together.
LEMMA TreeGoes == ASSUME CapturedInv, TreeLoads PROVE RequestsAdvance
<1>1. PICK loaded \in BOOLEAN :
        request' = [c \in Clients |->
          IF request[c].step = "waiting" /\ StillPublished(c)
          THEN IF loaded THEN Moves(c, "found") ELSE AnsweredWith(request[c], "failed")
          ELSE request[c]]
  BY DEF TreeLoads
<1>2. SessionGoes BY DEF TreeLoads, SessionGoes
<1>3. ASSUME NEW c \in Clients PROVE request'[c] = request[c] \/ Goes(request[c], request'[c])
  <2>1. CASE request[c].step = "waiting"
    <3>1. IsRequest(request[c]) /\ request[c].answer = "none" BY <2>1, RequestFacts
    <3>. DEFINE p == Moves(c, "found")
    <3>2. /\ p.step = "found" /\ p.answer = "none" /\ p.gen = request[c].gen
          /\ p.serial = request[c].serial /\ p.kind = request[c].kind
      BY <3>1, MovesHas
    <3>. HIDE DEF p
    <3>6. StepFits(p) BY <2>1, <3>2, FreeSteps, RequestFacts DEF StepFits
    <3>3. Goes(request[c], p) BY <2>1, <3>1, <3>2, <3>6, MoveGoes
    <3>4. Goes(request[c], AnsweredWith(request[c], "failed")) BY <2>1, <3>1, AnswerGoes
    <3>5. \/ request'[c] = p \/ request'[c] = AnsweredWith(request[c], "failed")
          \/ request'[c] = request[c]
      BY <1>1 DEF p
    <3> QED BY <3>3, <3>4, <3>5
  <2>2. CASE request[c].step # "waiting" BY <1>1, <2>2
  <2> QED BY <2>1, <2>2
<1> QED BY <1>2, <1>3, EachGoes

LEMMA CapturedGoesOn ==
  CapturedInv /\ RequestsNext =>
    CapturedInv' /\ AnswersAreCurrent /\ KilledIsNotStreaming /\ EachDoes
<1>1. ASSUME CapturedInv, RequestsNext PROVE RequestsAdvance
  <2>1. ASSUME NEW c \in Clients, RequestRoutes(c) PROVE RequestsAdvance
    BY <1>1, <2>1, RouteGoes, OneGoesOn DEF SessionGoes
  <2>2. ASSUME NEW c \in Clients,
               \/ WriteEnds(c) \/ ReadEnds(c) \/ CommandEnds(c) \/ GestureSettles(c)
               \/ TreeAborted(c) \/ NodeFound(c) \/ ListingEnds(c) \/ BootEnds(c) \/ Launched(c)
               \/ KillEnds(c)
        PROVE  RequestsAdvance
    BY <1>1, <2>2, LaterStepGoes, OneGoesOn DEF SessionGoes
  <2>3. CASE TreeExpires \/ Boots \/ SessionEnds
    <3>1. request' = request /\ SessionGoes
      BY <2>3 DEF TreeExpires, Boots, SessionEnds, SessionGoes
    <3> QED BY <1>1, <3>1, EachGoes
  <2> QED
    BY <1>1, <2>1, <2>2, <2>3, BodyGoes, SwitchGoes, StopGoes, TreeGoes DEF RequestsNext, RequestRoutes
<1>2. CapturedInv /\ RequestsNext => RequestsInv' BY RequestsGoOn DEF CapturedInv
<1> QED BY <1>1, <1>2 DEF RequestsAdvance, CapturedInv

LEMMA CapturedStays ==
  CapturedInv /\ UNCHANGED requestsVars => CapturedInv' /\ AnswersAreCurrent /\ KilledIsNotStreaming
<1>1. ASSUME CapturedInv, UNCHANGED requestsVars PROVE RequestsAdvance
  <2>1. request' = request /\ SessionGoes BY <1>1 DEF requestsVars, SessionGoes
  <2> QED BY <1>1, <2>1, EachGoes
<1>2. CapturedInv /\ UNCHANGED requestsVars => RequestsInv' BY RequestsStay DEF CapturedInv
<1> QED BY <1>1, <1>2 DEF RequestsAdvance, CapturedInv

-----------------------------------------------------------------------------
(* A setting that was set. While a request writes a setting it had its       *)
(* device to itself, if no other writes there and nobody has killed what     *)
(* runs on it: then each key is set already or its command is still to come. *)

Commands == {"rotation", "night", "font_scale", "wifi", "data", "transition", "window", "animator",
             "contrast", "weight", "density"}
InPlan(plan) == {plan[i] : i \in 1..Len(plan)}
DeviceIs(d) ==
  /\ d \in [state : {d.state}, set : {d.set}, kills : Nat]
  /\ d.set = [k \in SettingKeys |-> d.set[k]]
DevicesAre(v) == v = [s \in Serials |-> v[s]] /\ \A s \in Serials : DeviceIs(v[s])

NooneWrites(c, q) ==
  \A e \in Clients \ {c} : ~(q[e].step = "writing" /\ q[e].serial = q[c].serial)
IsSet(c, r, set) ==
  /\ r.step = "writing" =>
       r.read = {} /\ \A k \in KeysOf(r.setting) : set[k] = c \/ k \in InPlan(r.plan)
  /\ r.step = "reading" => /\ r.read \subseteq {c} /\ (r.read = {} => r.reading # {})
                           /\ r.reading \subseteq KeysOf(r.setting)
                           /\ \A k \in KeysOf(r.setting) : set[k] = c
  /\ r.answer = "ok" => r.read = {c}
IsSetting(r, d) ==
  /\ r.serial \in Serials /\ r.setting \in Settings /\ r.since \in Nat /\ r.since <= d.kills
  /\ r.step = "body" => r.read = {} /\ r.since = 0
  /\ r.step = "writing" => r.plan \in Seq(Commands) /\ r.plan # <<>>
Sole(r, d) == r.alone /\ r.since = d.kills
SettingKept(c, q, v) ==
  q[c].kind = "set" =>
    /\ IsSetting(q[c], v[q[c].serial])
    /\ Sole(q[c], v[q[c].serial]) =>
         /\ IsSet(c, q[c], v[q[c].serial].set)
         /\ q[c].step \in {"writing", "reading"} => NooneWrites(c, q)
SettingsAreKept == DevicesAre(device) /\ \A c \in Clients : SettingKept(c, request, device)
SettingsInv == CapturedInv /\ SettingsAreKept

LEMMA SettingsStart == RequestsInit => SettingsAreKept
<1>1. ASSUME RequestsInit PROVE SettingsAreKept
  <2>1. ASSUME NEW c \in Clients PROVE SettingKept(c, request, device)
    <3>1. request[c].kind = "none" BY <1>1 DEF RequestsInit, Unmade
    <3> QED BY <3>1 DEF SettingKept
  <2>. DEFINE default == [k \in SettingKeys |-> "default"]
              state(s) == IF s = "attached" THEN "device" ELSE "off"
  <2>2. device = [s \in Serials |-> [state |-> state(s), set |-> default, kills |-> 0]]
    BY <1>1 DEF RequestsInit
  <2>3. default = [k \in SettingKeys |-> default[k]] OBVIOUS
  <2>. HIDE DEF default, state
  <2>4. DevicesAre(device)
    <3>1. ASSUME NEW s \in Serials PROVE DeviceIs(device[s])
      BY <2>2, <2>3 DEF DeviceIs
    <3> QED BY <2>2, <3>1 DEF DevicesAre
  <2> QED BY <2>1, <2>4 DEF SettingsAreKept
<1> QED BY <1>1

\* What else happens to the devices: nothing, or one is killed.
DevicesGo ==
  /\ DevicesAre(device')
  /\ \A s \in Serials : \/ device'[s].set = device[s].set /\ device'[s].kills = device[s].kills
                        \/ device'[s].kills = device[s].kills + 1

LEMMA DevicesStay == ASSUME DevicesAre(device), UNCHANGED device PROVE DevicesGo
BY DEF DevicesGo

LEMMA EmulatorGoes ==
  ASSUME DevicesAre(device), NEW d, device' = [device EXCEPT !["emulator"] = d], DeviceIs(d),
         \/ d.set = device["emulator"].set /\ d.kills = device["emulator"].kills
         \/ d.kills = device["emulator"].kills + 1
  PROVE  DevicesGo
<1>1. "emulator" \in Serials BY DEF Serials
<1>2. device'["emulator"] = d /\ device' = [s \in Serials |-> device'[s]]
      /\ \A s \in Serials : s # "emulator" => device'[s] = device[s]
  BY <1>1 DEF DevicesAre
<1>3. ASSUME NEW s \in Serials
      PROVE  /\ DeviceIs(device'[s])
             /\ \/ device'[s].set = device[s].set /\ device'[s].kills = device[s].kills
                \/ device'[s].kills = device[s].kills + 1
  <2>1. CASE s = "emulator" BY <1>2, <2>1
  <2>2. CASE s # "emulator" BY <1>2, <2>2 DEF DevicesAre
  <2> QED BY <2>1, <2>2
<1> QED BY <1>2, <1>3 DEF DevicesGo, DevicesAre

LEMMA StateGoes ==
  ASSUME DevicesAre(device), NEW x, device' = [device EXCEPT !["emulator"].state = x]
  PROVE  DevicesGo
<1>. DEFINE d == [device["emulator"] EXCEPT !.state = x]
<1>1. "emulator" \in Serials BY DEF Serials
<1>2. DeviceIs(device["emulator"]) BY <1>1 DEF DevicesAre
<1>3. DeviceIs(d) /\ d.set = device["emulator"].set /\ d.kills = device["emulator"].kills
  BY <1>2 DEF DeviceIs
<1>4. device' = [device EXCEPT !["emulator"] = d] OBVIOUS
<1>. HIDE DEF d
<1> QED BY <1>3, <1>4, EmulatorGoes

LEMMA KillGoes ==
  ASSUME DevicesAre(device), KillDevice("emulator")
  PROVE  DevicesGo
<1>. DEFINE default == [k \in SettingKeys |-> "default"]
            n == device["emulator"].kills + 1
            d == [state |-> "off", set |-> default, kills |-> n]
<1>1. "emulator" \in Serials BY DEF Serials
<1>2. DeviceIs(device["emulator"]) BY <1>1 DEF DevicesAre
<1>3. n \in Nat /\ default = [k \in SettingKeys |-> default[k]] BY <1>2 DEF DeviceIs
<1>4. device' = [device EXCEPT !["emulator"] = d] BY DEF KillDevice
<1>. HIDE DEF default
<1>5. d.kills = n OBVIOUS
<1>6. DeviceIs(d)
  <2>. HIDE DEF n
  <2> QED BY <1>3 DEF DeviceIs
<1>. HIDE DEF d
<1> QED BY <1>4, <1>5, <1>6, EmulatorGoes DEF n

\* A step after which a request has not set anything.
Quiet(p) ==
  /\ p.step # "writing"
  /\ p.kind = "set" =>
       /\ p.step \in {"body", "answered"} /\ p.answer # "ok" /\ p.serial \in Serials
       /\ p.setting \in Settings /\ p.since = 0 /\ (p.step = "body" => p.read = {})
AllQuiet == \A c \in Clients : request'[c] = request[c] \/ Quiet(request'[c])

LEMMA QuietKeeps ==
  ASSUME SettingsInv, DevicesGo, AllQuiet
  PROVE  SettingsAreKept'
<1>1. ASSUME NEW c \in Clients PROVE SettingKept(c, request', device')
  <2>. DEFINE r == request[c]
              p == request'[c]
  <2>1. CASE Quiet(p)
    <3>1. ASSUME p.kind = "set"
          PROVE  /\ IsSetting(p, device'[p.serial])
                 /\ IsSet(c, p, device'[p.serial].set)
                 /\ p.step \notin {"writing", "reading"}
      <4>1. p.serial \in Serials BY <2>1, <3>1 DEF Quiet
      <4>2. device'[p.serial].kills \in Nat BY <4>1 DEF DevicesGo, DevicesAre, DeviceIs
      <4> QED BY <2>1, <3>1, <4>2 DEF Quiet, IsSetting, IsSet
    <3> QED BY <3>1 DEF SettingKept
  <2>2. CASE p = r
    <3>1. ASSUME r.kind = "set" PROVE SettingKept(c, request', device')
      <4>1. IsSetting(r, device[r.serial]) BY <3>1 DEF SettingsInv, SettingsAreKept, SettingKept
      <4>2. r.serial \in Serials /\ r.since \in Nat /\ r.since <= device[r.serial].kills
        BY <4>1 DEF IsSetting
      <4>3. device[r.serial].kills \in Nat /\ device'[r.serial].kills \in Nat
        BY <4>2 DEF SettingsInv, SettingsAreKept, DevicesGo, DevicesAre, DeviceIs
      <4>4. \/ device'[r.serial].set = device[r.serial].set
               /\ device'[r.serial].kills = device[r.serial].kills
            \/ device'[r.serial].kills = device[r.serial].kills + 1
        BY <4>2 DEF DevicesGo
      <4>5. r.since <= device'[r.serial].kills BY <4>2, <4>3, <4>4
      <4>6. IsSetting(p, device'[p.serial]) BY <2>2, <4>1, <4>5 DEF IsSetting
      <4>7. ASSUME Sole(p, device'[p.serial])
            PROVE  /\ IsSet(c, p, device'[p.serial].set)
                   /\ p.step \in {"writing", "reading"} => NooneWrites(c, request')
        <5>1. r.since = device'[r.serial].kills /\ r.alone BY <2>2, <4>7 DEF Sole
        <5>2. device'[r.serial].set = device[r.serial].set
              /\ device'[r.serial].kills = device[r.serial].kills
          BY <4>2, <4>3, <4>4, <5>1
        <5>3. Sole(r, device[r.serial]) BY <5>1, <5>2 DEF Sole
        <5>4. /\ IsSet(c, r, device[r.serial].set)
              /\ r.step \in {"writing", "reading"} => NooneWrites(c, request)
          BY <3>1, <5>3 DEF SettingsInv, SettingsAreKept, SettingKept
        <5>5. IsSet(c, p, device'[p.serial].set) BY <2>2, <5>2, <5>4
        <5>6. ASSUME p.step \in {"writing", "reading"}, NEW e \in Clients \ {c}
              PROVE  ~(request'[e].step = "writing" /\ request'[e].serial = request'[c].serial)
          <6>1. ~(request[e].step = "writing" /\ request[e].serial = request[c].serial)
            BY <2>2, <5>4, <5>6 DEF NooneWrites
          <6>2. request'[e] = request[e] \/ request'[e].step # "writing" BY DEF AllQuiet, Quiet
          <6> QED BY <2>2, <6>1, <6>2
        <5> QED BY <5>5, <5>6 DEF NooneWrites
      <4> QED BY <4>6, <4>7 DEF SettingKept
    <3> QED BY <2>2, <3>1 DEF SettingKept
  <2> QED BY <2>1, <2>2 DEF AllQuiet
<1> QED BY <1>1 DEF SettingsAreKept, DevicesGo

\* It is enough that the requests for settings are quiet.
LEMMA OthersAreQuiet ==
  ASSUME SettingsInv, EachDoes,
         \A c \in Clients : request[c].kind = "set"
                            => request'[c] = request[c] \/ Quiet(request'[c])
  PROVE  AllQuiet
<1>1. session.serial \in Serials BY DEF SettingsInv, CapturedInv, CapturedOK, SessionRecord
<1>2. ASSUME NEW c \in Clients, request[c].kind # "set", Goes(request[c], request'[c])
      PROVE  Quiet(request'[c])
  <2>. DEFINE q == request[c]
              p == request'[c]
  <2>1. /\ StepFits(p)
        /\ p.kind = q.kind \/ (q.kind = "none" /\ Fresh(p) /\ p.serial = session.serial)
    BY <1>2 DEF Goes
  <2>. HIDE DEF q, p
  <2>2. p.kind # "set" => Quiet(p) BY <2>1 DEF StepFits, Quiet
  <2>3. ASSUME p.kind = "set" PROVE Quiet(p)
    <3>1. Fresh(p) /\ p.serial = session.serial BY <1>2, <2>1, <2>3 DEF q
    <3> QED BY <1>1, <2>3, <3>1 DEF Fresh, Quiet
  <2> QED BY <2>2, <2>3 DEF p
<1> QED BY <1>2 DEF AllQuiet, EachDoes

LEMMA TuplesAre ==
  ASSUME NEW S
  PROVE  /\ \A a \in S : <<a>> \in Seq(S) /\ Len(<<a>>) = 1
         /\ \A a, b \in S : <<a, b>> \in Seq(S) /\ Len(<<a, b>>) = 2
         /\ \A a, b, d \in S : <<a, b, d>> \in Seq(S) /\ Len(<<a, b, d>>) = 3
<1>1. ASSUME NEW a \in S PROVE <<a>> \in Seq(S) /\ Len(<<a>>) = 1 OBVIOUS
<1>2. ASSUME NEW a \in S, NEW b \in S PROVE <<a, b>> \in Seq(S) /\ Len(<<a, b>>) = 2 OBVIOUS
<1>3. ASSUME NEW a \in S, NEW b \in S, NEW d \in S
      PROVE  <<a, b, d>> \in Seq(S) /\ Len(<<a, b, d>>) = 3
  OBVIOUS
<1> QED BY <1>1, <1>2, <1>3

LEMMA KeysAre ==
  ASSUME NEW setting \in Settings
  PROVE  LET plan == Writes[setting]
         IN  /\ plan \in Seq(Commands) /\ plan # <<>> /\ KeysOf(setting) = InPlan(plan)
             /\ KeysOf(setting) # {} /\ KeysOf(setting) \subseteq SettingKeys
<1>. DEFINE plan == Writes[setting]
<1>1. plan \in Seq(Commands) /\ Len(plan) \in Nat /\ Len(plan) > 0
  <2>1. /\ {"rotation", "night", "font_scale", "wifi", "data"} \subseteq Commands
        /\ {"transition", "window", "animator", "contrast", "weight", "density"} \subseteq Commands
    BY DEF Commands
  <2>2. CASE setting = "network"
    <3>1. plan = <<"wifi", "data">> BY <2>2 DEF Writes
    <3> QED BY <2>1, <3>1, TuplesAre
  <2>3. CASE setting = "reduceMotion"
    <3>1. plan = <<"transition", "window", "animator">> BY <2>3 DEF Writes
    <3> QED BY <2>1, <3>1, TuplesAre
  <2>4. CASE setting \notin {"network", "reduceMotion"}
    <3>1. \E k \in Commands : plan = <<k>> BY <2>1, <2>4, SettingsAre DEF Writes
    <3> QED BY <3>1, TuplesAre
  <2> QED BY <2>2, <2>3, <2>4
<1>2. DOMAIN plan = 1..Len(plan) BY <1>1
<1>3. KeysOf(setting) = InPlan(plan) BY <1>2 DEF KeysOf, InPlan
<1>4. plan # <<>> BY <1>1, EmptySeq
<1>5. KeysOf(setting) # {}
  <2>1. plan[1] \in InPlan(plan) BY <1>1 DEF InPlan
  <2> QED BY <1>3, <2>1
<1>6. KeysOf(setting) \subseteq SettingKeys BY DEF SettingKeys
<1> QED BY <1>1, <1>3, <1>4, <1>5, <1>6

\* What a plan was before its first command has run.
LEMMA PlanIs ==
  ASSUME NEW plan \in Seq(Commands), plan # <<>>
  PROVE  /\ Tail(plan) \in Seq(Commands)
         /\ \A k \in InPlan(plan) : k = Head(plan) \/ k \in InPlan(Tail(plan))
         /\ Tail(plan) = <<>> => \A k \in InPlan(plan) : k = Head(plan)
<1>. DEFINE rest == Tail(plan)
<1>1. /\ Len(plan) \in Nat /\ Len(plan) > 0 /\ Head(plan) = plan[1]
      /\ rest \in Seq(Commands) /\ Len(rest) = Len(plan) - 1
      /\ \A i \in 1..Len(rest) : rest[i] = plan[i + 1]
  BY HeadTailProperties, EmptySeq, LenProperties
<1>. HIDE DEF rest
<1>2. ASSUME NEW i \in 1..Len(plan) PROVE plan[i] = Head(plan) \/ plan[i] \in InPlan(rest)
  <2>1. CASE i = 1 BY <1>1, <2>1
  <2>2. CASE i # 1
    <3>1. i - 1 \in 1..Len(rest) /\ (i - 1) + 1 = i BY <1>1, <2>2
    <3>2. rest[i - 1] = plan[i] BY <1>1, <3>1
    <3> QED BY <3>1, <3>2 DEF InPlan
  <2> QED BY <2>1, <2>2
<1>3. ASSUME rest = <<>>, NEW i \in 1..Len(plan) PROVE plan[i] = Head(plan)
  <2>1. Len(rest) = 0 BY <1>1, <1>3, EmptySeq
  <2>2. Len(plan) = 1 BY <1>1, <2>1
  <2>3. i = 1 BY <1>1, <2>2
  <2> QED BY <1>1, <2>3
<1> QED BY <1>1, <1>2, <1>3 DEF InPlan, rest

\* A command of a setter ends: no other writes there.
LEMMA WriteKeeps ==
  ASSUME SettingsInv, NEW c \in Clients, WriteEnds(c)
  PROVE  SettingsAreKept'
<1>. DEFINE r == request[c]
            s == r.serial
            set == device[s].set
            rest == Tail(r.plan)
            keys == KeysOf(r.setting)
            goesOn == [r EXCEPT !.plan = rest]
            reads == [r EXCEPT !.plan = <<>>, !.step = "reading", !.reading = keys]
            fails == AnsweredWith(r, "failed")
            Writes1 == device' = [device EXCEPT ![s].set[Head(r.plan)] = c]
            p == request'[c]
            Wrote == \A k \in SettingKeys : device'[s].set[k] = IF k = Head(r.plan) THEN c ELSE set[k]
<1>1. /\ IsRequest(r) /\ r.step = "writing" /\ r.kind = "set" /\ r.answer = "none"
      /\ request = [d \in Clients |-> request[d]]
  <2>1. r.step = "writing" /\ CapturedInv BY DEF WriteEnds, SettingsInv
  <2> QED BY <2>1, RequestFacts DEF StepFits, CapturedInv, RequestsInv, RequestsAre
<1>2. SettingKept(c, request, device) /\ DevicesAre(device) BY DEF SettingsInv, SettingsAreKept
<1>3. /\ IsSetting(r, device[s]) /\ r.plan \in Seq(Commands) /\ r.plan # <<>> /\ s \in Serials
      /\ r.setting \in Settings
  BY <1>1, <1>2 DEF SettingKept, IsSetting
<1>4. \/ Writes1 /\ rest # <<>> /\ Becomes(c, goesOn)
      \/ Writes1 /\ rest = <<>> /\ Becomes(c, reads)
      \/ (Writes1 \/ UNCHANGED device) /\ Becomes(c, fails)
  BY DEF WriteEnds
<1>5. DeviceIs(device[s]) /\ device = [t \in Serials |-> device[t]]
  BY <1>2, <1>3 DEF DevicesAre
<1>6. /\ device' = [t \in Serials |-> device'[t]] /\ \A t \in Serials : t # s => device'[t] = device[t]
      /\ DeviceIs(device'[s]) /\ device'[s].kills = device[s].kills /\ (Writes1 => Wrote)
  <2>1. CASE UNCHANGED device /\ ~Writes1 BY <1>5, <2>1
  <2>2. CASE Writes1
    <3>. DEFINE new == [set EXCEPT ![Head(r.plan)] = c]
                d == [device[s] EXCEPT !.set = new]
    <3>1. set = [k \in SettingKeys |-> set[k]] BY <1>5 DEF DeviceIs
    <3>2. \A k \in SettingKeys : new[k] = IF k = Head(r.plan) THEN c ELSE set[k] BY <3>1
    <3>3. new = [k \in SettingKeys |-> new[k]] BY <3>1
    <3>4. device' = [device EXCEPT ![s] = d] BY <2>2
    <3>. HIDE DEF new
    <3>5. DeviceIs(d) /\ d.set = new /\ d.kills = device[s].kills BY <1>5, <3>3 DEF DeviceIs
    <3>. HIDE DEF d
    <3>6. device'[s] = d /\ device' = [t \in Serials |-> device'[t]]
          /\ \A t \in Serials : t # s => device'[t] = device[t]
      BY <1>3, <1>5, <3>4
    <3> QED BY <3>2, <3>5, <3>6
  <2> QED BY <1>4, <2>1, <2>2
<1>7. DevicesAre(device')
  <2>1. ASSUME NEW t \in Serials PROVE DeviceIs(device'[t])
    <3>1. CASE t = s BY <1>6, <3>1
    <3>2. CASE t # s BY <1>2, <1>6, <3>2 DEF DevicesAre
    <3> QED BY <3>1, <3>2
  <2> QED BY <1>6, <2>1 DEF DevicesAre
<1>8. /\ \A d \in Clients \ {c} : request'[d] = request[d]
      /\ p.kind = "set" /\ p.serial = s /\ p.setting = r.setting /\ p.since = r.since
      /\ p.alone = r.alone /\ p.read = r.read
      /\ \/ p.step = "writing" /\ p.plan = rest /\ rest # <<>> /\ p.answer = "none" /\ Writes1
         \/ p.step = "reading" /\ p.reading = keys /\ rest = <<>> /\ p.answer = "none" /\ Writes1
         \/ p.step = "answered" /\ p.answer = "failed"
  <2>. HIDE DEF rest, keys, Writes1
  <2>1. \A x : Becomes(c, x) => p = x /\ \A d \in Clients \ {c} : request'[d] = request[d]
    BY <1>1 DEF Becomes
  <2>2. /\ goesOn.kind = "set" /\ goesOn.serial = s /\ goesOn.setting = r.setting
        /\ goesOn.since = r.since /\ goesOn.alone = r.alone /\ goesOn.read = r.read
        /\ goesOn.step = "writing" /\ goesOn.plan = rest /\ goesOn.answer = "none"
    BY <1>1 DEF IsRequest
  <2>3. /\ reads.kind = "set" /\ reads.serial = s /\ reads.setting = r.setting
        /\ reads.since = r.since /\ reads.alone = r.alone /\ reads.read = r.read
        /\ reads.step = "reading" /\ reads.reading = keys /\ reads.answer = "none"
    BY <1>1 DEF IsRequest
  <2>4. /\ fails.kind = "set" /\ fails.serial = s /\ fails.setting = r.setting
        /\ fails.since = r.since /\ fails.alone = r.alone /\ fails.read = r.read
        /\ fails.step = "answered" /\ fails.answer = "failed"
    BY <1>1 DEF IsRequest, AnsweredWith
  <2>. HIDE DEF goesOn, reads, fails, p
  <2> QED BY <1>4, <2>1, <2>2, <2>3, <2>4
<1>. HIDE DEF Writes1, p
<1>9. SettingKept(c, request', device')
  <2>1. /\ rest \in Seq(Commands)
        /\ \A k \in InPlan(r.plan) : k = Head(r.plan) \/ k \in InPlan(rest)
        /\ rest = <<>> => \A k \in InPlan(r.plan) : k = Head(r.plan)
    BY <1>3, PlanIs
  <2>2. keys \subseteq SettingKeys /\ keys # {} BY <1>3, KeysAre
  <2>. HIDE DEF rest, keys
  <2>3. IsSetting(p, device'[s]) BY <1>3, <1>6, <1>8, <2>1 DEF IsSetting
  <2>4. ASSUME Sole(p, device'[s])
        PROVE  IsSet(c, p, device'[s].set) /\ NooneWrites(c, request')
    <3>1. Sole(r, device[s]) BY <1>6, <1>8, <2>4 DEF Sole
    <3>2. IsSet(c, r, set) /\ NooneWrites(c, request) BY <1>1, <1>2, <3>1 DEF SettingKept
    <3>3. r.read = {} /\ \A k \in keys : set[k] = c \/ k \in InPlan(r.plan)
      BY <1>1, <3>2 DEF IsSet, keys
    <3>4. NooneWrites(c, request') BY <1>8, <3>2 DEF NooneWrites, p
    <3>5. ASSUME p.step = "writing" PROVE IsSet(c, p, device'[s].set)
      <4>1. \A k \in keys : device'[s].set[k] = c \/ k \in InPlan(rest)
        BY <1>6, <1>8, <2>1, <2>2, <3>3, <3>5
      <4> QED BY <1>8, <3>3, <3>5, <4>1 DEF IsSet, keys
    <3>6. ASSUME p.step = "reading" PROVE IsSet(c, p, device'[s].set)
      <4>1. \A k \in keys : device'[s].set[k] = c
        BY <1>6, <1>8, <2>1, <2>2, <3>3, <3>6
      <4> QED BY <1>8, <2>2, <3>3, <3>6, <4>1 DEF IsSet, keys
    <3>7. p.step = "answered" => IsSet(c, p, device'[s].set) BY <1>8 DEF IsSet
    <3> QED BY <1>8, <3>4, <3>5, <3>6, <3>7
  <2> QED BY <1>8, <2>3, <2>4 DEF SettingKept, p
<1>10. ASSUME NEW d \in Clients, d # c PROVE SettingKept(d, request', device')
  <2>. DEFINE o == request[d]
  <2>1. request'[d] = o /\ SettingKept(d, request, device)
    BY <1>8, <1>10 DEF SettingsInv, SettingsAreKept
  <2>2. ASSUME o.kind = "set"
        PROVE  /\ IsSetting(o, device'[o.serial])
               /\ Sole(o, device'[o.serial]) =>
                    /\ IsSet(d, o, device'[o.serial].set)
                    /\ o.step \in {"writing", "reading"} => NooneWrites(d, request')
    <3>1. IsSetting(o, device[o.serial]) /\ o.serial \in Serials
      BY <2>1, <2>2 DEF SettingKept, IsSetting
    <3>2. device'[o.serial].kills = device[o.serial].kills BY <1>6, <3>1
    <3>3. IsSetting(o, device'[o.serial]) BY <3>1, <3>2 DEF IsSetting
    <3>4. ASSUME Sole(o, device'[o.serial])
          PROVE  /\ IsSet(d, o, device'[o.serial].set)
                 /\ o.step \in {"writing", "reading"} => NooneWrites(d, request')
      <4>1. Sole(o, device[o.serial]) BY <3>2, <3>4 DEF Sole
      <4>2. /\ IsSet(d, o, device[o.serial].set)
            /\ o.step \in {"writing", "reading"} => NooneWrites(d, request)
        BY <2>1, <2>2, <4>1 DEF SettingKept
      <4>3. CASE o.serial = s
        <5>1. o.step \notin {"writing", "reading"} BY <1>1, <1>10, <4>2, <4>3 DEF NooneWrites
        <5> QED BY <4>2, <5>1 DEF IsSet
      <4>4. CASE o.serial # s
        <5>1. device'[o.serial] = device[o.serial] BY <1>6, <3>1, <4>4
        <5>2. ASSUME o.step \in {"writing", "reading"}, NEW e \in Clients \ {d}
              PROVE  ~(request'[e].step = "writing" /\ request'[e].serial = request'[d].serial)
          <6>1. CASE e = c BY <1>8, <2>1, <4>4, <6>1 DEF p
          <6>2. CASE e # c BY <1>8, <2>1, <4>2, <5>2, <6>2 DEF NooneWrites
          <6> QED BY <6>1, <6>2
        <5> QED BY <4>2, <5>1, <5>2 DEF NooneWrites
      <4> QED BY <4>3, <4>4
    <3> QED BY <3>3, <3>4
  <2> QED BY <2>1, <2>2 DEF SettingKept
<1> QED BY <1>7, <1>9, <1>10 DEF SettingsAreKept

\* A key is read back, or the setter fails while it reads.
LEMMA ReadKeeps ==
  ASSUME SettingsInv, NEW c \in Clients, ReadEnds(c), request[c].kind = "set"
  PROVE  SettingsAreKept'
<1>. DEFINE r == request[c]
            s == r.serial
            p == request'[c]
            keys == KeysOf(r.setting)
            fails == AnsweredWith(r, "failed")
<1>1. /\ IsRequest(r) /\ r.step = "reading" /\ r.answer = "none"
      /\ request = [d \in Clients |-> request[d]]
  <2>1. r.step = "reading" /\ CapturedInv BY DEF ReadEnds, SettingsInv
  <2> QED BY <2>1, RequestFacts DEF CapturedInv, RequestsInv, RequestsAre
<1>2. SettingKept(c, request, device) /\ UNCHANGED device
  BY DEF SettingsInv, SettingsAreKept, ReadEnds, Only
<1>3. IsSetting(r, device[s]) BY <1>2 DEF SettingKept
<1>4. \A x : Becomes(c, x) => p = x /\ \A d \in Clients \ {c} : request'[d] = request[d]
  BY <1>1 DEF Becomes
<1>5. /\ fails.kind = "set" /\ fails.serial = s /\ fails.setting = r.setting
      /\ fails.since = r.since /\ fails.alone = r.alone
      /\ fails.step = "answered" /\ fails.answer = "failed"
  BY <1>1 DEF IsRequest, AnsweredWith
<1>6. /\ \A d \in Clients \ {c} : request'[d] = request[d]
      /\ p.kind = "set" /\ p.serial = s /\ p.setting = r.setting /\ p.since = r.since
      /\ p.alone = r.alone /\ p.step \in {"reading", "answered"}
      /\ \/ p.step = "answered" /\ p.answer # "ok"
         \/ \E k \in r.reading :
              /\ p.reading = r.reading \ {k} /\ p.read = r.read \cup {device[s].set[k]}
              /\ \/ p.step = "reading" /\ p.reading # {} /\ p.answer = "none"
                 \/ p.step = "answered"
  <2>1. CASE Only(c, fails)
    <3>1. p = fails /\ \A d \in Clients \ {c} : request'[d] = request[d] BY <1>4, <2>1 DEF Only
    <3>. HIDE DEF fails
    <3> QED BY <1>5, <3>1
  <2>2. ASSUME NEW k \in r.reading,
               LET x == [r EXCEPT !.reading = @ \ {k}, !.read = @ \cup {device[s].set[k]}]
               IN  Only(c, IF x.reading = {} THEN Finished(c, x) ELSE x)
        PROVE  /\ \A d \in Clients \ {c} : request'[d] = request[d]
               /\ p.kind = "set" /\ p.serial = s /\ p.setting = r.setting /\ p.since = r.since
               /\ p.alone = r.alone
               /\ p.reading = r.reading \ {k} /\ p.read = r.read \cup {device[s].set[k]}
               /\ \/ p.step = "reading" /\ p.reading # {} /\ p.answer = "none"
                  \/ p.step = "answered"
    <3>. DEFINE a == r.reading \ {k}
                b == r.read \cup {device[s].set[k]}
                x == [r EXCEPT !.reading = a, !.read = b]
    <3>1. Becomes(c, IF x.reading = {} THEN Finished(c, x) ELSE x) BY <2>2 DEF Only
    <3>. HIDE DEF a, b
    <3>2. /\ IsRequest(x) /\ x.kind = "set" /\ x.serial = s /\ x.setting = r.setting
          /\ x.since = r.since /\ x.alone = r.alone /\ x.reading = a /\ x.read = b
          /\ x.step = "reading" /\ x.answer = "none"
      BY <1>1 DEF IsRequest
    <3>. HIDE DEF x
    <3>3. \A answer : LET y == AnsweredWith(x, answer)
                      IN  /\ y.kind = "set" /\ y.serial = s /\ y.setting = r.setting
                          /\ y.since = r.since /\ y.alone = r.alone /\ y.reading = a /\ y.read = b
                          /\ y.step = "answered"
      BY <3>2 DEF IsRequest, AnsweredWith
    <3>. DEFINE y == Finished(c, x)
    <3>4. /\ y.kind = "set" /\ y.serial = s /\ y.setting = r.setting
          /\ y.since = r.since /\ y.alone = r.alone /\ y.reading = a /\ y.read = b
          /\ y.step = "answered"
      BY <3>3 DEF Finished
    <3>. HIDE DEF y
    <3>5. /\ \A d \in Clients \ {c} : request'[d] = request[d]
          /\ (p = y /\ x.reading = {}) \/ (p = x /\ x.reading # {})
      BY <1>4, <3>1 DEF y
    <3> QED BY <3>2, <3>4, <3>5 DEF a, b
  <2>3. \/ Only(c, fails)
        \/ \E k \in r.reading :
             LET x == [r EXCEPT !.reading = @ \ {k}, !.read = @ \cup {device[s].set[k]}]
             IN  Only(c, IF x.reading = {} THEN Finished(c, x) ELSE x)
    BY DEF ReadEnds
  <2>. HIDE DEF p, fails
  <2> QED BY <2>1, <2>2, <2>3
<1>. HIDE DEF p
<1>7. SettingKept(c, request', device')
  <2>1. IsSetting(p, device'[s]) BY <1>2, <1>3, <1>6 DEF IsSetting
  <2>2. ASSUME Sole(p, device'[s])
        PROVE  IsSet(c, p, device'[s].set) /\ NooneWrites(c, request')
    <3>1. Sole(r, device[s]) BY <1>2, <1>6, <2>2 DEF Sole
    <3>2. IsSet(c, r, device[s].set) /\ NooneWrites(c, request) BY <1>1, <1>2, <3>1 DEF SettingKept
    <3>3. /\ r.read \subseteq {c} /\ r.reading \subseteq keys /\ \A k \in keys : device[s].set[k] = c
      BY <1>1, <3>2 DEF IsSet
    <3>4. NooneWrites(c, request') BY <1>6, <3>2 DEF NooneWrites, p
    <3>5. ASSUME NEW k \in r.reading, p.read = r.read \cup {device[s].set[k]}
          PROVE  p.read = {c}
      BY <3>3, <3>5
    <3>6. ASSUME p.step = "reading" PROVE IsSet(c, p, device'[s].set)
      <4>1. /\ p.read = {c} /\ p.reading \subseteq r.reading /\ p.reading # {} /\ p.answer = "none"
        BY <1>6, <3>5, <3>6
      <4> QED BY <1>2, <1>6, <3>3, <3>6, <4>1 DEF IsSet
    <3>7. ASSUME p.step = "answered" PROVE IsSet(c, p, device'[s].set)
      <4>1. p.answer = "ok" => p.read = {c} BY <1>6, <3>5
      <4> QED BY <3>7, <4>1 DEF IsSet
    <3> QED BY <1>6, <3>4, <3>6, <3>7
  <2> QED BY <1>6, <2>1, <2>2 DEF SettingKept, p
<1>8. ASSUME NEW d \in Clients, d # c PROVE SettingKept(d, request', device')
  <2>1. request'[d] = request[d] /\ SettingKept(d, request, device)
    BY <1>6, <1>8 DEF SettingsInv, SettingsAreKept
  <2>2. NooneWrites(d, request) => NooneWrites(d, request')
    BY <1>6, <2>1 DEF NooneWrites, p
  <2> QED BY <1>2, <2>1, <2>2 DEF SettingKept
<1>9. DevicesAre(device') BY <1>2 DEF SettingsInv, SettingsAreKept
<1> QED BY <1>7, <1>8, <1>9 DEF SettingsAreKept

\* A setter starts: it has the device to itself unless another writes there,
\* and no other has from now on.
LEMMA SetterKeeps ==
  ASSUME SettingsInv, NEW c \in Clients, request[c].step = "body", request[c].kind = "set",
         SetterStarts(c), UNCHANGED device
  PROVE  SettingsAreKept'
<1>. DEFINE r == request[c]
            s == r.serial
            a == ~\E e \in Clients \ {c} : request[e].step = "writing" /\ request[e].serial = s
            plan == Writes[r.setting]
            kills == device[s].kills
            x == [r EXCEPT !.step = "writing", !.plan = plan, !.since = kills, !.alone = a]
            f(d) == [request[d] EXCEPT !.alone = FALSE]
<1>1. IsRequest(r) /\ r.answer = "none" BY RequestFacts DEF SettingsInv
<1>2. SettingKept(c, request, device) BY DEF SettingsInv, SettingsAreKept
<1>3. /\ IsSetting(r, device[s]) /\ r.read = {} /\ s \in Serials /\ r.setting \in Settings
  BY <1>2 DEF SettingKept, IsSetting
<1>4. kills \in Nat BY <1>3 DEF SettingsInv, SettingsAreKept, DevicesAre, DeviceIs
<1>5. request' = [d \in Clients |->
        IF d = c THEN x
        ELSE IF request[d].step \in {"writing", "reading"} /\ request[d].serial = s
        THEN f(d) ELSE request[d]]
  BY DEF SetterStarts
<1>6. plan \in Seq(Commands) /\ plan # <<>> /\ KeysOf(r.setting) = InPlan(plan) BY <1>3, KeysAre
<1>. HIDE DEF a, plan, kills
<1>7. /\ x.step = "writing" /\ x.plan = plan /\ x.since = kills /\ x.alone = a
      /\ x.kind = "set" /\ x.serial = s /\ x.setting = r.setting /\ x.read = {} /\ x.answer = "none"
  BY <1>1, <1>3 DEF IsRequest
<1>8. ASSUME NEW d \in Clients, d # c
      PROVE  /\ request'[d].step = request[d].step /\ request'[d].serial = request[d].serial
             /\ \/ request'[d] = request[d]
                   /\ ~(request[d].step \in {"writing", "reading"} /\ request[d].serial = s)
                \/ request'[d] = f(d) /\ IsRequest(request[d])
  <2>1. IsRequest(request[d]) BY DEF SettingsInv, CapturedInv, RequestsInv, RequestsAre, RequestOK
  <2>2. f(d).step = request[d].step /\ f(d).serial = request[d].serial BY <2>1 DEF IsRequest
  <2>3. request'[d] = IF request[d].step \in {"writing", "reading"} /\ request[d].serial = s
                      THEN f(d) ELSE request[d]
    BY <1>5, <1>8
  <2>. HIDE DEF f
  <2> QED BY <2>1, <2>2, <2>3
<1>9. request'[c] = x BY <1>5
<1>. HIDE DEF x
<1>10. SettingKept(c, request', device')
  <2>1. IsSetting(x, device'[s]) BY <1>3, <1>4, <1>6, <1>7 DEF IsSetting, kills
  <2>2. IsSet(c, x, device'[s].set) BY <1>6, <1>7 DEF IsSet
  <2>3. ASSUME Sole(x, device'[s]) PROVE NooneWrites(c, request')
    <3>1. a BY <1>7, <2>3 DEF Sole
    <3>2. ASSUME NEW e \in Clients \ {c}
          PROVE  ~(request'[e].step = "writing" /\ request'[e].serial = request'[c].serial)
      BY <1>7, <1>8, <1>9, <3>1 DEF a
    <3> QED BY <3>2 DEF NooneWrites
  <2> QED BY <1>7, <1>9, <2>1, <2>2, <2>3 DEF SettingKept
<1>11. ASSUME NEW d \in Clients, d # c PROVE SettingKept(d, request', device')
  <2>. DEFINE o == request[d]
              p == request'[d]
  <2>1. SettingKept(d, request, device) BY DEF SettingsInv, SettingsAreKept
  <2>2. CASE p = f(d) /\ IsRequest(o)
    <3>1. /\ p.kind = o.kind /\ p.serial = o.serial /\ p.setting = o.setting /\ p.since = o.since
          /\ p.step = o.step /\ p.read = o.read /\ p.plan = o.plan /\ p.alone = FALSE
      BY <2>2 DEF IsRequest
    <3>. HIDE DEF p, o
    <3>2. ASSUME p.kind = "set" PROVE IsSetting(p, device'[p.serial]) /\ ~Sole(p, device'[p.serial])
      <4>1. IsSetting(o, device[o.serial]) BY <2>1, <3>1, <3>2 DEF SettingKept, o
      <4> QED BY <3>1, <4>1 DEF IsSetting, Sole
    <3> QED BY <3>2 DEF SettingKept, p
  <2>3. CASE p = o /\ ~(o.step \in {"writing", "reading"} /\ o.serial = s)
    <3>1. ASSUME o.step \in {"writing", "reading"}, NooneWrites(d, request)
          PROVE  NooneWrites(d, request')
      <4>1. ASSUME NEW e \in Clients \ {d}
            PROVE  ~(request'[e].step = "writing" /\ request'[e].serial = request'[d].serial)
        <5>1. CASE e = c BY <1>7, <1>9, <2>3, <3>1, <5>1
        <5>2. CASE e # c BY <1>8, <2>3, <3>1, <5>2 DEF NooneWrites
        <5> QED BY <5>1, <5>2
      <4> QED BY <4>1 DEF NooneWrites
    <3> QED BY <2>1, <2>3, <3>1 DEF SettingKept
  <2> QED BY <1>8, <1>11, <2>2, <2>3
<1>12. DevicesAre(device') BY DEF SettingsInv, SettingsAreKept
<1> QED BY <1>10, <1>11, <1>12 DEF SettingsAreKept

\* What else a client does is quiet, and does no more to the devices than
\* start one or kill one.
LEMMA LaunchStopDevices ==
  ASSUME DevicesAre(device), NEW c, NEW answer, LaunchStops(c, answer)
  PROVE  DevicesGo
BY KillGoes, DevicesStay DEF LaunchStops

LEMMA BodyKeeps ==
  ASSUME SettingsInv, NEW c \in Clients, BodyRead(c), EachDoes
  PROVE  SettingsAreKept'
<1>1. /\ CapturedInv /\ DevicesAre(device) /\ request[c].step = "body"
      /\ SettingKept(c, request, device) /\ IsRequest(request[c])
      /\ request = [d \in Clients |-> request[d]]
  BY DEF SettingsInv, SettingsAreKept, BodyRead, CapturedInv, RequestsInv, RequestsAre, RequestOK
<1>2. CASE request[c].kind = "set" /\ SetterStarts(c) /\ UNCHANGED device
  BY <1>1, <1>2, SetterKeeps
<1>3. ASSUME NEW r, Becomes(c, r), UNCHANGED device, request[c].kind = "set" => Quiet(r)
      PROVE  SettingsAreKept'
  <2>1. request'[c] = r /\ \A d \in Clients \ {c} : request'[d] = request[d]
    BY <1>1, <1>3 DEF Becomes
  <2>2. AllQuiet BY <1>3, <2>1, OthersAreQuiet
  <2> QED BY <1>1, <1>3, <2>2, DevicesStay, QuietKeeps
<1>4. ASSUME NEW answer, answer # "ok", Only(c, AnsweredWith(request[c], answer))
      PROVE  SettingsAreKept'
  <2>. DEFINE r == request[c]
              p == AnsweredWith(r, answer)
  <2>1. /\ p.kind = r.kind /\ p.step = "answered" /\ p.answer = answer /\ p.serial = r.serial
        /\ p.setting = r.setting /\ p.since = r.since
    BY <1>1 DEF IsRequest, AnsweredWith
  <2>2. Becomes(c, p) /\ UNCHANGED device BY <1>4 DEF Only
  <2>. HIDE DEF p
  <2>3. r.kind = "set" => IsSetting(r, device[r.serial]) BY <1>1 DEF SettingKept
  <2>4. r.kind = "set" => Quiet(p) BY <1>1, <1>4, <2>1, <2>3 DEF IsSetting, Quiet
  <2> QED BY <1>3, <2>2, <2>4
<1>5. \/ request[c].kind = "set" /\ SetterStarts(c) /\ UNCHANGED device
      \/ request[c].kind # "set" /\ UNCHANGED device /\ \E r : Becomes(c, r)
      \/ \E answer \in {"refused", "changed"} : Only(c, AnsweredWith(request[c], answer))
  BY DEF BodyRead, Only, Stops
<1> QED BY <1>2, <1>3, <1>4, <1>5

LEMMA LaterStepKeeps ==
  ASSUME SettingsInv, NEW c \in Clients, EachDoes,
         \/ WriteEnds(c) \/ ReadEnds(c) \/ CommandEnds(c) \/ GestureSettles(c)
         \/ TreeAborted(c) \/ NodeFound(c) \/ ListingEnds(c) \/ BootEnds(c) \/ Launched(c)
         \/ KillEnds(c)
  PROVE  SettingsAreKept'
<1>1. /\ CapturedInv /\ DevicesAre(device) /\ StepFits(request[c])
      /\ request = [d \in Clients |-> request[d]]
  BY DEF SettingsInv, SettingsAreKept, CapturedInv, CapturedOK, RequestsInv, RequestsAre
<1>2. OneGoes(c) BY <1>1, LaterStepGoes
<1>3. ASSUME request[c].kind # "set" PROVE AllQuiet
  <2>1. \A d \in Clients \ {c} : request'[d] = request[d] BY <1>1, <1>2 DEF OneGoes, Becomes
  <2> QED BY <1>3, <2>1, OthersAreQuiet
<1>4. CASE WriteEnds(c) BY <1>4, WriteKeeps
<1>5. CASE ReadEnds(c)
  <2>1. UNCHANGED device BY <1>5 DEF ReadEnds, Only
  <2> QED BY <1>1, <1>3, <1>5, <2>1, ReadKeeps, DevicesStay, QuietKeeps
<1>6. CASE \/ CommandEnds(c) \/ GestureSettles(c) \/ TreeAborted(c) \/ NodeFound(c) \/ ListingEnds(c)
           \/ BootEnds(c) \/ Launched(c) \/ KillEnds(c)
  <2>1. request[c].step \in {"asking", "queued", "waiting", "found", "listing", "booting", "launched",
                             "killing"}
    BY <1>6 DEF CommandEnds, GestureSettles, TreeAborted, NodeFound, ListingEnds, BootEnds, Launched,
       KillEnds
  <2>2. AllQuiet BY <1>1, <1>3, <2>1 DEF StepFits
  <2>3. DevicesGo
    <3>1. CASE CommandEnds(c) \/ GestureSettles(c) \/ TreeAborted(c) \/ NodeFound(c)
      <4>1. UNCHANGED device
        BY <3>1 DEF CommandEnds, GestureSettles, TreeAborted, NodeFound, Only
      <4> QED BY <1>1, <4>1, DevicesStay
    <3>2. CASE ListingEnds(c)
      <4>1. UNCHANGED device \/ device' = [device EXCEPT !["emulator"].state = "spawned"]
        BY <3>2 DEF ListingEnds, Only, Launches, Stops
      <4> QED BY <1>1, <4>1, DevicesStay, StateGoes
    <3>3. CASE BootEnds(c)
      <4>1. UNCHANGED device \/ LaunchStops(c, "failed") BY <3>3 DEF BootEnds, Only
      <4> QED BY <1>1, <4>1, DevicesStay, LaunchStopDevices
    <3>4. CASE Launched(c)
      <4>1. UNCHANGED device \/ LaunchStops(c, "changed") BY <3>4 DEF Launched, Only
      <4> QED BY <1>1, <4>1, DevicesStay, LaunchStopDevices
    <3>5. CASE KillEnds(c)
      <4>1. UNCHANGED device \/ KillDevice("emulator") BY <3>5 DEF KillEnds
      <4> QED BY <1>1, <4>1, DevicesStay, KillGoes
    <3> QED BY <1>6, <3>1, <3>2, <3>3, <3>4, <3>5
  <2> QED BY <2>2, <2>3, QuietKeeps
<1> QED BY <1>4, <1>5, <1>6

LEMMA SettingsGoOn ==
  SettingsInv /\ RequestsNext => SettingsInv' /\ AnswersAreCurrent /\ KilledIsNotStreaming
<1>1. ASSUME SettingsInv, RequestsNext, EachDoes PROVE SettingsAreKept'
  <2>1. /\ CapturedInv /\ DevicesAre(device) /\ \A c \in Clients : StepFits(request[c])
        /\ request = [d \in Clients |-> request[d]]
    BY <1>1 DEF SettingsInv, SettingsAreKept, CapturedInv, CapturedOK, RequestsInv, RequestsAre
  <2>2. ASSUME NEW c \in Clients, request[c].kind # "set", \E r : Becomes(c, r), DevicesGo
        PROVE  SettingsAreKept'
    <3>1. \A d \in Clients \ {c} : request'[d] = request[d] BY <2>1, <2>2 DEF Becomes
    <3>2. AllQuiet BY <1>1, <2>2, <3>1, OthersAreQuiet
    <3> QED BY <1>1, <2>2, <3>2, QuietKeeps
  <2>3. ASSUME NEW c \in Clients, RequestRoutes(c) PROVE SettingsAreKept'
    <3>1. request[c].step = "idle" /\ \E r : Only(c, r) BY <2>3, RouteArrives
    <3>2. request[c].kind # "set" BY <2>1, <3>1 DEF StepFits
    <3>3. DevicesGo BY <2>1, <3>1, DevicesStay DEF Only
    <3> QED BY <2>2, <3>1, <3>2, <3>3 DEF Only
  <2>4. CASE TreeExpires \/ Boots \/ SessionEnds
    <3>1. request' = request BY <2>4 DEF TreeExpires, Boots, SessionEnds
    <3>2. DevicesGo
      <4>1. \/ UNCHANGED device
            \/ \E x : device' = [device EXCEPT !["emulator"].state = x]
        <5>. DEFINE x == IF device["emulator"].state = "spawned" THEN "booting" ELSE "device"
        <5>1. CASE Boots
          <6>1. device' = [device EXCEPT !["emulator"].state = x] BY <5>1 DEF Boots
          <6> QED BY <6>1
        <5>2. CASE TreeExpires \/ SessionEnds BY <5>2 DEF TreeExpires, SessionEnds
        <5> QED BY <2>4, <5>1, <5>2
      <4> QED BY <2>1, <4>1, DevicesStay, StateGoes
    <3> QED BY <1>1, <3>1, <3>2, QuietKeeps DEF AllQuiet
  <2>5. CASE TreeLoads
    <3>1. ASSUME NEW c \in Clients, request[c].kind = "set" PROVE request'[c] = request[c]
      <4>1. request[c].step # "waiting" BY <2>1, <3>1 DEF StepFits
      <4> QED BY <2>5, <4>1 DEF TreeLoads
    <3>2. AllQuiet BY <1>1, <3>1, OthersAreQuiet
    <3>3. DevicesGo BY <2>1, <2>5, DevicesStay DEF TreeLoads
    <3> QED BY <1>1, <3>2, <3>3, QuietKeeps
  <2>6. CASE SwitchEnds \/ StopEnds
    <3>. DEFINE c == Head(transitions).client
    <3>1. /\ c \in Clients /\ request[c].step \in {"switching", "stopping"}
          /\ \E r : Becomes(c, r)
          /\ UNCHANGED device \/ LaunchStops(c, "failed")
      BY <2>1, <2>6, FirstWaits DEF SwitchEnds, StopEnds, LaunchStops
    <3>. HIDE DEF c
    <3>2. request[c].kind # "set" BY <2>1, <3>1 DEF StepFits
    <3>3. DevicesGo BY <2>1, <3>1, DevicesStay, LaunchStopDevices
    <3> QED BY <2>2, <3>1, <3>2, <3>3
  <2> QED
    BY <1>1, <2>3, <2>4, <2>5, <2>6, BodyKeeps, LaterStepKeeps DEF RequestsNext, RequestRoutes
<1>2. SettingsInv /\ RequestsNext =>
        CapturedInv' /\ AnswersAreCurrent /\ KilledIsNotStreaming /\ EachDoes
  BY CapturedGoesOn DEF SettingsInv
<1> QED BY <1>1, <1>2 DEF SettingsInv

LEMMA SettingsStay ==
  SettingsInv /\ UNCHANGED requestsVars => SettingsInv' /\ AnswersAreCurrent /\ KilledIsNotStreaming
<1>1. ASSUME SettingsInv, UNCHANGED requestsVars PROVE SettingsAreKept'
  <2>1. request' = request /\ device' = device BY <1>1 DEF requestsVars
  <2>2. DevicesGo BY <1>1, <2>1, DevicesStay DEF SettingsInv, SettingsAreKept
  <2> QED BY <1>1, <2>1, <2>2, QuietKeeps DEF AllQuiet
<1>2. SettingsInv /\ UNCHANGED requestsVars => CapturedInv' /\ AnswersAreCurrent /\ KilledIsNotStreaming
  BY CapturedStays DEF SettingsInv
<1> QED BY <1>1, <1>2 DEF SettingsInv

LEMMA SettingsPromise == SettingsInv => AnsweredIsSet
<1>1. ASSUME SettingsInv, NEW c \in Clients, request[c].kind = "set", request[c].answer = "ok",
             HadItsDevice(c)
      PROVE  request[c].read = {c}
  <2>1. SettingKept(c, request, device) BY <1>1 DEF SettingsInv, SettingsAreKept
  <2>2. Sole(request[c], device[request[c].serial]) BY <1>1 DEF Sole, HadItsDevice
  <2> QED BY <1>1, <2>1, <2>2 DEF SettingKept, IsSet
<1> QED BY <1>1 DEF AnsweredIsSet

-----------------------------------------------------------------------------
(* ViewerWorker. The effects number their commands: the n-th start is       *)
(* number 2n - 1 and the stop that follows it 2n; the commands on their way *)
(* are what is between the worker and the effect.                           *)

Reasons == {"none", "connect", "stop", "disconnect", "reconnect", "video-session", "decoder-recovery"}
WorkerRecord ==
  [epoch : Nat, generation : Nat, born : BOOLEAN, failed : BOOLEAN, stopped : BOOLEAN,
   socket : {"none", "opening", "open"}, retry : BOOLEAN, older : BOOLEAN, drawn : BOOLEAN,
   dropping : BOOLEAN, asked : BOOLEAN, cooling : BOOLEAN, overrun : BOOLEAN]
DecodingRecord == [decoder : Nat, older : Nat, queued : Nat, callback : Nat]
CommandRecord == [kind : {"init", "connect", "stop"}, epoch : Nat]
EventRecord ==
  [kind : {"lifecycle", "rendered"}, reason : Reasons, generation : Nat, epoch : Nat, drawn : BOOLEAN]
HookRecord ==
  [epoch : Nat, alive : BOOLEAN, generation : Nat, awaiting : BOOLEAN, live : BOOLEAN, seen : Nat,
   terminal : Nat]
HealthRecord == [step : {"none", "inFlight", "timer"}, generation : Nat, aborted : BOOLEAN]

WorkerOK(w) ==
  /\ w \in WorkerRecord
  /\ w.born /\ ~w.stopped => (w.socket = "none" <=> w.retry)
  /\ w.stopped => w.socket = "none" /\ ~w.retry
  /\ w.dropping /\ w.socket = "open" => w.asked \/ w.overrun
  /\ w.socket = "opening" => ~w.dropping
  /\ w.epoch > 0 => w.born \/ w.failed
  /\ w.epoch = 0 => ~w.stopped
DecodingOK(d, w) ==
  /\ d \in DecodingRecord
  /\ d.queued \in {None, w.generation}
  /\ w.socket = "opening" => d.decoder = None /\ d.queued = None

Number(c) == IF c.kind = "stop" THEN 2 * c.epoch ELSE 2 * c.epoch - 1
Ahead(h) == IF h.alive THEN 2 * h.epoch - 1 ELSE 2 * h.epoch
CommandsOK(cs, h, w) ==
  /\ cs \in Seq(CommandRecord)
  /\ h.alive => h.epoch > 0
  /\ \A i \in 1 .. Len(cs) :
       /\ Number(cs[i]) = Ahead(h) - Len(cs) + i
       /\ cs[i].epoch > 0 /\ (cs[i].kind = "init" => cs[i].epoch = 1)
       /\ (cs[i].kind = "connect" => cs[i].epoch > 1)
  /\ Ahead(h) - Len(cs) \in {2 * w.epoch - 1, 2 * w.epoch}
  /\ w.epoch = 0 => Ahead(h) = Len(cs)
  /\ w.epoch > 0 /\ ~w.failed => (Ahead(h) - Len(cs) = 2 * w.epoch <=> w.stopped)

IsDrawn(epoch, g, r) == <<epoch, g, g>> \in r
EventsOK(es, g, n, r) ==
  /\ es \in Seq(EventRecord) /\ g \in Nat /\ n \in Nat /\ g <= n
  /\ \A i \in 1 .. Len(es) :
       /\ g <= es[i].generation /\ es[i].generation <= n
       /\ es[i].kind = "lifecycle" => g < es[i].generation
       /\ es[i].kind = "rendered" => IsDrawn(es[i].epoch, es[i].generation, r)
  /\ \A i, j \in 1 .. Len(es) : i < j =>
       /\ es[i].generation <= es[j].generation
       /\ es[j].kind = "lifecycle" => es[i].generation < es[j].generation

IsStart(e, epoch) == e.kind = "lifecycle" /\ e.reason = "connect" /\ e.epoch = epoch
StartIsTold(es, h, w) ==
  h.alive /\ h.awaiting /\ w.epoch = h.epoch => \E i \in 1 .. Len(es) : IsStart(es[i], h.epoch)

HookOK(h, he, r) ==
  /\ h \in HookRecord /\ he \in HealthRecord
  /\ h.live => h.alive /\ IsDrawn(h.epoch, h.generation, r)
  /\ h.terminal \in {0, h.generation}
  /\ h.alive <=> he.step # "none"

ViewerInv ==
  /\ WorkerOK(worker) /\ DecodingOK(decoding, worker)
  /\ CommandsOK(commands, hook, worker)
  /\ EventsOK(events, hook.generation, worker.generation, rendered)
  /\ StartIsTold(events, hook, worker)
  /\ HookOK(hook, health, rendered)
  /\ \A f \in rendered : f[2] = f[3]

LEMMA ViewerStarts == ViewerWorkerInit => ViewerInv
<1>1. ASSUME ViewerWorkerInit PROVE ViewerInv
  <2>1. WorkerOK(worker) BY <1>1 DEF ViewerWorkerInit, WorkerOK, WorkerRecord
  <2>2. DecodingOK(decoding, worker)
    BY <1>1 DEF ViewerWorkerInit, DecodingOK, DecodingRecord, None
  <2>3. CommandsOK(commands, hook, worker)
    BY <1>1 DEF ViewerWorkerInit, CommandsOK, Ahead
  <2>4. EventsOK(events, hook.generation, worker.generation, rendered)
        /\ StartIsTold(events, hook, worker)
    BY <1>1 DEF ViewerWorkerInit, EventsOK, StartIsTold
  <2>5. HookOK(hook, health, rendered) /\ \A f \in rendered : f[2] = f[3]
    BY <1>1 DEF ViewerWorkerInit, HookOK, HookRecord, HealthRecord
  <2> QED BY <2>1, <2>2, <2>3, <2>4, <2>5 DEF ViewerInv
<1> QED BY <1>1

\* What the two see of the worker.
Same(v, w) == v.epoch = w.epoch /\ v.born = w.born /\ v.failed = w.failed /\ v.stopped = w.stopped

LEMMA NextGenerationIs ==
  ASSUME NEW w \in WorkerRecord
  PROVE  LET v == NextGeneration(w)
         IN  /\ v \in WorkerRecord /\ Same(v, w) /\ v.generation = w.generation + 1
             /\ v.socket = w.socket /\ v.retry = w.retry /\ v.older = w.older
             /\ ~v.drawn /\ ~v.dropping /\ ~v.asked /\ ~v.cooling /\ ~v.overrun
<1>. DEFINE n == w.generation + 1
            u == [w EXCEPT !.generation = n, !.drawn = FALSE, !.dropping = FALSE]
            v == [u EXCEPT !.asked = FALSE, !.cooling = FALSE, !.overrun = FALSE]
<1>1. n \in Nat BY DEF WorkerRecord
<1>2. NextGeneration(w) = v BY DEF NextGeneration, WorkerRecord
<1>. HIDE DEF n
<1>3. u \in WorkerRecord /\ Same(u, w) /\ u.generation = n /\ u.socket = w.socket /\ u.retry = w.retry
      /\ u.older = w.older /\ ~u.drawn /\ ~u.dropping
  BY <1>1 DEF WorkerRecord, Same
<1>. HIDE DEF u
<1>4. v \in WorkerRecord /\ Same(v, u) /\ v.generation = u.generation /\ v.socket = u.socket
      /\ v.retry = u.retry /\ v.older = u.older /\ v.drawn = u.drawn /\ v.dropping = u.dropping
      /\ ~v.asked /\ ~v.cooling /\ ~v.overrun
  BY <1>3 DEF WorkerRecord, Same
<1>. HIDE DEF v
<1> QED BY <1>2, <1>3, <1>4 DEF Same, n

LEMMA AskedIs ==
  ASSUME NEW w \in WorkerRecord
  PROVE  LET v == Asked(w)
         IN  /\ v \in WorkerRecord /\ Same(v, w) /\ v.generation = w.generation
             /\ v.socket = w.socket /\ v.retry = w.retry /\ v.dropping = w.dropping
             /\ v.overrun = w.overrun /\ v.drawn = w.drawn
             /\ w.asked \/ (w.socket = "open" /\ ~w.cooling) => v.asked
<1>1. CASE w.socket = "open" /\ ~w.cooling
  <2>. DEFINE v == [w EXCEPT !.asked = TRUE, !.cooling = TRUE]
  <2>1. Asked(w) = v BY <1>1 DEF Asked
  <2>2. /\ v \in WorkerRecord /\ v.epoch = w.epoch /\ v.born = w.born /\ v.failed = w.failed
        /\ v.stopped = w.stopped /\ v.generation = w.generation /\ v.socket = w.socket
        /\ v.retry = w.retry /\ v.dropping = w.dropping /\ v.overrun = w.overrun
        /\ v.drawn = w.drawn /\ v.asked
    BY DEF WorkerRecord
  <2>. HIDE DEF v
  <2> QED BY <2>1, <2>2 DEF Same
<1>2. CASE ~(w.socket = "open" /\ ~w.cooling) BY <1>2 DEF Asked, Same
<1> QED BY <1>1, <1>2

LEMMA EventIs ==
  ASSUME NEW w \in WorkerRecord, NEW kind \in {"lifecycle", "rendered"}, NEW reason \in Reasons
  PROVE  LET e == Event(kind, reason, w)
         IN  /\ e \in EventRecord /\ e.kind = kind /\ e.reason = reason
             /\ e.generation = w.generation /\ e.epoch = w.epoch /\ e.drawn = w.drawn
BY DEF Event, EventRecord, WorkerRecord

LEMMA DecodingReset ==
  ASSUME ResetDecoding, decoding \in DecodingRecord
  PROVE  decoding' \in DecodingRecord /\ decoding'.decoder = None /\ decoding'.queued = None
<1>. DEFINE o == IF decoding.older = None THEN decoding.decoder ELSE decoding.older
            none == None
<1>1. o \in Nat /\ none \in Nat BY DEF DecodingRecord, None
<1>2. decoding' = [decoding EXCEPT !.decoder = none, !.older = o, !.queued = none]
  BY DEF ResetDecoding, DecodingRecord
<1>. HIDE DEF o, none
<1>3. decoding' \in DecodingRecord /\ decoding'.decoder = none /\ decoding'.queued = none
  BY <1>1, <1>2 DEF DecodingRecord
<1> QED BY <1>3 DEF none

\* A generation begins: what the effect is told is newer than what it was told before.
LEMMA TellsNewer ==
  ASSUME NEW es, NEW g, NEW n, NEW r, EventsOK(es, g, n, r), NEW e \in EventRecord,
         e.generation = n + 1, e.kind = "lifecycle"
  PROVE  EventsOK(Append(es, e), g, n + 1, r)
<1>. DEFINE m == Len(es)
            fs == Append(es, e)
<1>1. /\ es \in Seq(EventRecord) /\ m \in Nat /\ n \in Nat /\ g \in Nat /\ g <= n
      /\ \A i \in 1 .. m : es[i].generation \in Nat /\ es[i].generation <= n
  <2>1. es \in Seq(EventRecord) BY DEF EventsOK
  <2>2. m \in Nat /\ \A i \in 1 .. m : es[i] \in EventRecord BY <2>1, ElementOfSeq
  <2>3. \A i \in 1 .. m : es[i].generation \in Nat BY <2>2 DEF EventRecord
  <2> QED BY <2>1, <2>2, <2>3 DEF EventsOK
<1>2. /\ fs \in Seq(EventRecord) /\ Len(fs) = m + 1 /\ fs[m + 1] = e
      /\ \A i \in 1 .. m : fs[i] = es[i]
  BY <1>1
<1>. HIDE DEF fs
<1>3. ASSUME NEW i \in 1 .. m + 1
      PROVE  /\ g <= fs[i].generation /\ fs[i].generation <= n + 1
             /\ fs[i].kind = "lifecycle" => g < fs[i].generation
             /\ fs[i].kind = "rendered" => IsDrawn(fs[i].epoch, fs[i].generation, r)
  <2>1. CASE i = m + 1 BY <1>1, <1>2, <2>1
  <2>2. CASE i # m + 1
    <3>1. i \in 1 .. m BY <1>1, <2>2
    <3> QED BY <1>1, <1>2, <3>1 DEF EventsOK
  <2> QED BY <2>1, <2>2
<1>4. ASSUME NEW i \in 1 .. m + 1, NEW j \in 1 .. m + 1, i < j
      PROVE  /\ fs[i].generation <= fs[j].generation
             /\ fs[j].kind = "lifecycle" => fs[i].generation < fs[j].generation
  <2>1. i \in 1 .. m BY <1>1, <1>4
  <2>2. CASE j = m + 1 BY <1>1, <1>2, <2>1, <2>2
  <2>3. CASE j # m + 1
    <3>1. j \in 1 .. m BY <1>1, <2>3
    <3> QED BY <1>2, <1>4, <2>1, <3>1 DEF EventsOK
  <2> QED BY <2>2, <2>3
<1> QED BY <1>1, <1>2, <1>3, <1>4 DEF EventsOK

LEMMA TellsDrawn ==
  ASSUME NEW es, NEW g, NEW n, NEW r, EventsOK(es, g, n, r), NEW e \in EventRecord,
         e.generation = n, e.kind = "rendered", NEW s, r \subseteq s,
         IsDrawn(e.epoch, n, s)
  PROVE  EventsOK(Append(es, e), g, n, s)
<1>. DEFINE m == Len(es)
            fs == Append(es, e)
<1>1. /\ es \in Seq(EventRecord) /\ m \in Nat /\ n \in Nat /\ g \in Nat /\ g <= n
      /\ \A i \in 1 .. m : es[i].generation \in Nat /\ es[i].generation <= n
  <2>1. es \in Seq(EventRecord) BY DEF EventsOK
  <2>2. m \in Nat /\ \A i \in 1 .. m : es[i] \in EventRecord BY <2>1, ElementOfSeq
  <2>3. \A i \in 1 .. m : es[i].generation \in Nat BY <2>2 DEF EventRecord
  <2> QED BY <2>1, <2>2, <2>3 DEF EventsOK
<1>2. /\ fs \in Seq(EventRecord) /\ Len(fs) = m + 1 /\ fs[m + 1] = e
      /\ \A i \in 1 .. m : fs[i] = es[i]
  BY <1>1
<1>. HIDE DEF fs
<1>3. ASSUME NEW i \in 1 .. m + 1
      PROVE  /\ g <= fs[i].generation /\ fs[i].generation <= n
             /\ fs[i].kind = "lifecycle" => g < fs[i].generation
             /\ fs[i].kind = "rendered" => IsDrawn(fs[i].epoch, fs[i].generation, s)
  <2>1. CASE i = m + 1 BY <1>1, <1>2, <2>1
  <2>2. CASE i # m + 1
    <3>1. i \in 1 .. m BY <1>1, <2>2
    <3>2. \A epoch, k : IsDrawn(epoch, k, r) => IsDrawn(epoch, k, s) BY DEF IsDrawn
    <3> QED BY <1>1, <1>2, <3>1, <3>2 DEF EventsOK
  <2> QED BY <2>1, <2>2
<1>4. ASSUME NEW i \in 1 .. m + 1, NEW j \in 1 .. m + 1, i < j
      PROVE  /\ fs[i].generation <= fs[j].generation
             /\ fs[j].kind = "lifecycle" => fs[i].generation < fs[j].generation
  <2>1. i \in 1 .. m BY <1>1, <1>4
  <2>2. CASE j = m + 1 BY <1>1, <1>2, <2>1, <2>2
  <2>3. CASE j # m + 1
    <3>1. j \in 1 .. m BY <1>1, <2>3
    <3> QED BY <1>2, <1>4, <2>1, <3>1 DEF EventsOK
  <2> QED BY <2>2, <2>3
<1> QED BY <1>1, <1>2, <1>3, <1>4 DEF EventsOK

LEMMA ToldStays ==
  ASSUME NEW es \in Seq(EventRecord), NEW e \in EventRecord, NEW h, NEW w, NEW v,
         StartIsTold(es, h, w), v.epoch = w.epoch \/ IsStart(e, v.epoch)
  PROVE  StartIsTold(Append(es, e), h, v)
<1>. DEFINE fs == Append(es, e)
<1>1. /\ Len(es) \in Nat /\ Len(fs) = Len(es) + 1 /\ fs[Len(es) + 1] = e
      /\ \A i \in 1 .. Len(es) : fs[i] = es[i] /\ i \in 1 .. Len(es) + 1
  OBVIOUS
<1>. HIDE DEF fs
<1>2. CASE v.epoch = w.epoch BY <1>1, <1>2 DEF StartIsTold
<1>3. CASE IsStart(e, v.epoch)
  <2>1. Len(es) + 1 \in 1 .. Len(fs) BY <1>1
  <2> QED BY <1>1, <1>3, <2>1 DEF StartIsTold
<1> QED BY <1>2, <1>3

LEMMA WorkerFacts ==
  ASSUME ViewerInv
  PROVE  /\ worker \in WorkerRecord /\ decoding \in DecodingRecord /\ events \in Seq(EventRecord)
         /\ commands \in Seq(CommandRecord) /\ hook \in HookRecord /\ health \in HealthRecord
         /\ worker.generation \in Nat /\ worker.epoch \in Nat /\ hook.epoch \in Nat
         /\ hook.generation \in Nat
BY DEF ViewerInv, WorkerOK, DecodingOK, EventsOK, CommandsOK, HookOK, WorkerRecord, HookRecord

\* The worker goes on within its generation, or begins the next one and tells.
LEMMA WithinGeneration ==
  ASSUME ViewerInv, UNCHANGED <<commands, events, hook, health, rendered>>,
         WorkerOK(worker'), DecodingOK(decoding', worker'), Same(worker', worker),
         worker'.generation = worker.generation
  PROVE  ViewerInv'
BY DEF ViewerInv, CommandsOK, StartIsTold, Same

LEMMA BeginsGeneration ==
  ASSUME ViewerInv, UNCHANGED <<commands, hook, health, rendered>>,
         WorkerOK(worker'), Same(worker', worker), worker'.generation = worker.generation + 1,
         ResetDecoding, NEW reason \in Reasons, Posted(reason, worker')
  PROVE  ViewerInv'
<1>. DEFINE e == Event("lifecycle", reason, worker')
<1>1. worker' \in WorkerRecord BY DEF WorkerOK
<1>2. /\ e \in EventRecord /\ e.kind = "lifecycle" /\ e.generation = worker.generation + 1
      /\ e.epoch = worker'.epoch
  BY <1>1, EventIs
<1>3. events' = Append(events, e) BY DEF Posted
<1>. HIDE DEF e
<1>4. EventsOK(events', hook.generation, worker'.generation, rendered)
  BY <1>2, <1>3, TellsNewer DEF ViewerInv
<1>5. StartIsTold(events', hook, worker')
  BY <1>2, <1>3, WorkerFacts, ToldStays DEF ViewerInv, Same
<1>6. DecodingOK(decoding', worker') BY WorkerFacts, DecodingReset DEF DecodingOK
<1>7. CommandsOK(commands, hook, worker') BY DEF ViewerInv, CommandsOK, Same
<1> QED BY <1>4, <1>5, <1>6, <1>7 DEF ViewerInv


\* A worker that connects has a socket that is opening, and is not stopped.
LEMMA ConnectedIs ==
  ASSUME NEW w \in WorkerRecord, NEW reason \in Reasons, Connected(w, reason),
         w.epoch > 0 => w.born \/ w.failed
  PROVE  /\ WorkerOK(worker') /\ worker'.epoch = w.epoch /\ worker'.born = w.born
         /\ worker'.failed = w.failed /\ ~worker'.stopped
         /\ worker'.generation = w.generation + 1
         /\ ResetDecoding /\ Posted(reason, worker')
<1>. DEFINE v == NextGeneration(w)
            older == v.older \/ w.socket # "none"
            u == [v EXCEPT !.stopped = FALSE, !.retry = FALSE, !.socket = "opening", !.older = older]
<1>1. /\ v \in WorkerRecord /\ v.epoch = w.epoch /\ v.born = w.born /\ v.failed = w.failed
      /\ v.generation = w.generation + 1 /\ ~v.dropping
  BY NextGenerationIs DEF Same
<1>2. older = TRUE \/ older = FALSE BY <1>1 DEF WorkerRecord
<1>3. worker' = u /\ ResetDecoding /\ Posted(reason, u)
  BY <1>1 DEF Connected, WorkerRecord
<1>. HIDE DEF v, older
<1>4. /\ u \in WorkerRecord /\ u.epoch = v.epoch /\ u.born = v.born /\ u.failed = v.failed
      /\ ~u.stopped /\ ~u.retry /\ u.socket = "opening" /\ u.generation = v.generation
      /\ u.dropping = v.dropping
  BY <1>1, <1>2 DEF WorkerRecord
<1>. HIDE DEF u
<1>5. WorkerOK(worker') BY <1>1, <1>3, <1>4 DEF WorkerOK
<1> QED BY <1>1, <1>3, <1>4, <1>5

\* The small steps of the worker.
LEMMA WorkerRests ==
  ASSUME ViewerInv, RequestCools \/ SocketOpens \/ OlderCloses
  PROVE  ViewerInv'
<1>1. /\ worker \in WorkerRecord /\ WorkerOK(worker) /\ DecodingOK(decoding, worker)
      /\ UNCHANGED <<decoding, commands, events, hook, health, rendered>>
  BY WorkerFacts DEF ViewerInv, RequestCools, SocketOpens, OlderCloses
<1>2. CASE RequestCools
  <2>1. worker' = [worker EXCEPT !.cooling = FALSE] BY <1>2 DEF RequestCools
  <2>2. WorkerOK(worker') /\ Same(worker', worker) /\ worker'.generation = worker.generation
        /\ worker'.socket = worker.socket
    BY <1>1, <2>1 DEF WorkerOK, WorkerRecord, Same
  <2>3. DecodingOK(decoding', worker') BY <1>1, <2>2 DEF DecodingOK
  <2> QED BY <1>1, <2>2, <2>3, WithinGeneration
<1>3. CASE SocketOpens
  <2>1. worker' = [worker EXCEPT !.socket = "open"] /\ worker.socket = "opening"
    BY <1>3 DEF SocketOpens
  <2>2. /\ worker' \in WorkerRecord /\ worker'.epoch = worker.epoch /\ worker'.born = worker.born
        /\ worker'.failed = worker.failed /\ worker'.stopped = worker.stopped
        /\ worker'.generation = worker.generation /\ worker'.socket = "open"
        /\ worker'.retry = worker.retry /\ worker'.dropping = worker.dropping
    BY <1>1, <2>1 DEF WorkerRecord
  <2>3. WorkerOK(worker') /\ Same(worker', worker) BY <1>1, <2>1, <2>2 DEF WorkerOK, Same
  <2>4. DecodingOK(decoding', worker') BY <1>1, <2>2 DEF DecodingOK
  <2> QED BY <1>1, <2>2, <2>3, <2>4, WithinGeneration
<1>4. CASE OlderCloses
  <2>1. worker' = [worker EXCEPT !.older = FALSE] BY <1>4 DEF OlderCloses
  <2>2. WorkerOK(worker') /\ Same(worker', worker) /\ worker'.generation = worker.generation
        /\ worker'.socket = worker.socket
    BY <1>1, <2>1 DEF WorkerOK, WorkerRecord, Same
  <2>3. DecodingOK(decoding', worker') BY <1>1, <2>2 DEF DecodingOK
  <2> QED BY <1>1, <2>2, <2>3, WithinGeneration
<1> QED BY <1>2, <1>3, <1>4

LEMMA FrameIsFed ==
  ASSUME ViewerInv, FrameFed
  PROVE  ViewerInv'
<1>1. /\ worker \in WorkerRecord /\ WorkerOK(worker) /\ DecodingOK(decoding, worker)
      /\ decoding \in DecodingRecord /\ worker.generation \in Nat /\ worker.socket = "open"
      /\ UNCHANGED <<commands, events, hook, health, rendered>>
  BY WorkerFacts DEF ViewerInv, FrameFed
<1>2. PICK key \in BOOLEAN, overrun \in BOOLEAN :
       CASE key /\ overrun ->
              worker' = [Asked([worker EXCEPT !.asked = FALSE, !.dropping = TRUE]) EXCEPT !.overrun = TRUE]
              /\ decoding' = [decoding EXCEPT !.decoder = worker.generation]
         [] key /\ ~overrun ->
              worker' = [worker EXCEPT !.asked = FALSE, !.dropping = FALSE, !.overrun = FALSE]
              /\ decoding' = [decoding EXCEPT !.decoder = worker.generation]
         [] OTHER ->
              /\ UNCHANGED decoding
              /\ worker' = IF worker.dropping THEN worker
                           ELSE IF decoding.decoder = None THEN Asked(worker)
                           ELSE IF overrun
                           THEN [Asked([worker EXCEPT !.dropping = TRUE]) EXCEPT !.overrun = TRUE]
                           ELSE worker
  BY DEF FrameFed
<1>3. decoding' = decoding \/ decoding' = [decoding EXCEPT !.decoder = worker.generation] BY <1>2
<1>4. decoding' \in DecodingRecord /\ decoding'.queued = decoding.queued
  BY <1>1, <1>3 DEF DecodingRecord
<1>5. ASSUME NEW w \in WorkerRecord, Same(w, worker), w.generation = worker.generation,
             w.socket = worker.socket, w.retry = worker.retry,
             worker' = [Asked(w) EXCEPT !.overrun = TRUE]
      PROVE  WorkerOK(worker') /\ Same(worker', worker) /\ worker'.generation = worker.generation
             /\ worker'.socket = "open"
  <2>. DEFINE v == Asked(w)
  <2>1. /\ v \in WorkerRecord /\ Same(v, worker) /\ v.generation = worker.generation
        /\ v.socket = "open" /\ v.retry = worker.retry
    BY <1>1, <1>5, AskedIs DEF Same
  <2>2. worker' = [v EXCEPT !.overrun = TRUE] BY <1>5
  <2>. HIDE DEF v
  <2>3. /\ worker' \in WorkerRecord /\ worker'.overrun /\ worker'.socket = v.socket
        /\ worker'.retry = v.retry /\ worker'.generation = v.generation /\ worker'.epoch = v.epoch
        /\ worker'.born = v.born /\ worker'.failed = v.failed /\ worker'.stopped = v.stopped
    BY <2>1, <2>2 DEF WorkerRecord
  <2> QED BY <1>1, <2>1, <2>3 DEF WorkerOK, Same
<1>6. ASSUME worker' = worker \/ worker' = Asked(worker)
             \/ worker' = [worker EXCEPT !.asked = FALSE, !.dropping = FALSE, !.overrun = FALSE]
      PROVE  WorkerOK(worker') /\ Same(worker', worker) /\ worker'.generation = worker.generation
             /\ worker'.socket = "open"
  <2>1. CASE worker' = worker BY <1>1, <2>1 DEF Same
  <2>2. CASE worker' = Asked(worker)
    BY <1>1, <2>2, AskedIs DEF WorkerOK, Same
  <2>3. CASE worker' = [worker EXCEPT !.asked = FALSE, !.dropping = FALSE, !.overrun = FALSE]
    <3>1. /\ worker' \in WorkerRecord /\ ~worker'.dropping /\ worker'.socket = worker.socket
          /\ worker'.retry = worker.retry /\ worker'.generation = worker.generation
          /\ worker'.epoch = worker.epoch /\ worker'.born = worker.born
          /\ worker'.failed = worker.failed /\ worker'.stopped = worker.stopped
      BY <1>1, <2>3 DEF WorkerRecord
    <3> QED BY <1>1, <3>1 DEF WorkerOK, Same
  <2> QED BY <1>6, <2>1, <2>2, <2>3
<1>7. WorkerOK(worker') /\ Same(worker', worker) /\ worker'.generation = worker.generation
      /\ worker'.socket = "open"
  <2>1. CASE key /\ overrun
    <3>. DEFINE w == [worker EXCEPT !.asked = FALSE, !.dropping = TRUE]
    <3>1. worker' = [Asked(w) EXCEPT !.overrun = TRUE] BY <1>2, <2>1
    <3>2. /\ w \in WorkerRecord /\ Same(w, worker) /\ w.generation = worker.generation
          /\ w.socket = worker.socket /\ w.retry = worker.retry
      BY <1>1 DEF WorkerRecord, Same
    <3>. HIDE DEF w
    <3> QED BY <1>5, <3>1, <3>2
  <2>2. CASE key /\ ~overrun BY <1>2, <1>6, <2>2
  <2>3. CASE ~key
    <3>. DEFINE w == [worker EXCEPT !.dropping = TRUE]
    <3>1. worker' = worker \/ worker' = Asked(worker) \/ worker' = [Asked(w) EXCEPT !.overrun = TRUE]
      BY <1>2, <2>3
    <3>2. /\ w \in WorkerRecord /\ Same(w, worker) /\ w.generation = worker.generation
          /\ w.socket = worker.socket /\ w.retry = worker.retry
      BY <1>1 DEF WorkerRecord, Same
    <3>. HIDE DEF w
    <3> QED BY <1>5, <1>6, <3>1, <3>2
  <2> QED BY <2>1, <2>2, <2>3
<1>8. DecodingOK(decoding', worker') BY <1>1, <1>4, <1>7 DEF DecodingOK
<1> QED BY <1>1, <1>7, <1>8, WithinGeneration

LEMMA DecodedIs ==
  ASSUME ViewerInv, NEW g \in Nat, Decoded(g)
  PROVE  ViewerInv'
<1>1. /\ worker \in WorkerRecord /\ WorkerOK(worker) /\ DecodingOK(decoding, worker)
      /\ decoding \in DecodingRecord /\ g # None
      /\ UNCHANGED <<worker, commands, events, hook, health, rendered>>
      /\ decoding' = IF g = decoding.decoder /\ g = worker.generation
                     THEN [decoding EXCEPT !.queued = g, !.callback = IF @ = None THEN g ELSE @]
                     ELSE [decoding EXCEPT !.older = None]
  BY WorkerFacts DEF ViewerInv, Decoded
<1>2. DecodingOK(decoding', worker')
  <2>1. CASE g = decoding.decoder /\ g = worker.generation
    <3>. DEFINE callback == IF decoding.callback = None THEN g ELSE decoding.callback
    <3>1. decoding' = [decoding EXCEPT !.queued = g, !.callback = callback]
      BY <1>1, <2>1 DEF DecodingRecord
    <3>2. callback \in Nat BY <1>1 DEF DecodingRecord
    <3>. HIDE DEF callback
    <3>3. decoding' \in DecodingRecord /\ decoding'.queued = g /\ decoding'.decoder = decoding.decoder
      BY <1>1, <3>1, <3>2 DEF DecodingRecord
    <3> QED BY <1>1, <2>1, <3>3 DEF DecodingOK
  <2>2. CASE ~(g = decoding.decoder /\ g = worker.generation)
    <3>. DEFINE none == None
    <3>1. none \in Nat /\ decoding' = [decoding EXCEPT !.older = none] BY <1>1, <2>2 DEF None
    <3>. HIDE DEF none
    <3>2. decoding' \in DecodingRecord /\ decoding'.queued = decoding.queued
          /\ decoding'.decoder = decoding.decoder
      BY <1>1, <3>1 DEF DecodingRecord
    <3> QED BY <1>1, <3>2 DEF DecodingOK
  <2> QED BY <2>1, <2>2
<1>3. WorkerOK(worker') /\ Same(worker', worker) /\ worker'.generation = worker.generation
  BY <1>1 DEF Same
<1> QED BY <1>1, <1>2, <1>3, WithinGeneration

\* Generations that begin without a command.
LEMMA RecoveredIs ==
  ASSUME ViewerInv, worker.socket # "opening", Recovered,
         UNCHANGED <<commands, hook, health, rendered>>
  PROVE  ViewerInv'
<1>. DEFINE n == NextGeneration(worker)
            w == [n EXCEPT !.dropping = TRUE]
            v == Asked(w)
<1>1. worker \in WorkerRecord /\ WorkerOK(worker) BY WorkerFacts DEF ViewerInv
<1>2. /\ n \in WorkerRecord /\ Same(n, worker) /\ n.generation = worker.generation + 1
      /\ n.socket = worker.socket /\ n.retry = worker.retry /\ ~n.cooling
  BY <1>1, NextGenerationIs
<1>. HIDE DEF n
<1>3. /\ w \in WorkerRecord /\ w.epoch = n.epoch /\ w.born = n.born /\ w.failed = n.failed
      /\ w.stopped = n.stopped /\ w.generation = n.generation /\ w.socket = n.socket
      /\ w.retry = n.retry /\ w.cooling = n.cooling
  BY <1>2 DEF WorkerRecord
<1>. HIDE DEF w
<1>4. /\ v \in WorkerRecord /\ Same(v, w) /\ v.generation = w.generation /\ v.socket = w.socket
      /\ v.retry = w.retry /\ (v.socket = "open" => v.asked)
  BY <1>2, <1>3, AskedIs
<1>. HIDE DEF v
<1>5. WorkerOK(v) /\ Same(v, worker) /\ v.generation = worker.generation + 1
  BY <1>1, <1>2, <1>3, <1>4 DEF WorkerOK, Same
<1>6. worker' = v /\ ResetDecoding /\ \E e : e = Event("lifecycle", "decoder-recovery", w)
      /\ events' = Append(events, e)
  BY DEF Recovered, Posted, w, n, v
<1>7. Posted("decoder-recovery", v)
  <2>1. Event("lifecycle", "decoder-recovery", w) = Event("lifecycle", "decoder-recovery", v)
    <3>1. v.generation = w.generation /\ v.epoch = w.epoch /\ v.drawn = w.drawn
      BY <1>3, AskedIs DEF v, Same
    <3> QED BY <3>1 DEF Event
  <2> QED BY <1>6, <2>1 DEF Posted
<1> QED BY <1>5, <1>6, <1>7, BeginsGeneration DEF Reasons

LEMMA SessionBegins ==
  ASSUME ViewerInv, SessionMessage
  PROVE  ViewerInv'
<1>. DEFINE n == NextGeneration(worker)
            w == [n EXCEPT !.dropping = TRUE]
            v == Asked(w)
<1>1. worker \in WorkerRecord /\ WorkerOK(worker) /\ worker.socket = "open"
  BY WorkerFacts DEF ViewerInv, SessionMessage
<1>2. /\ n \in WorkerRecord /\ Same(n, worker) /\ n.generation = worker.generation + 1
      /\ n.socket = worker.socket /\ n.retry = worker.retry /\ ~n.cooling
  BY <1>1, NextGenerationIs
<1>. HIDE DEF n
<1>3. /\ w \in WorkerRecord /\ w.epoch = n.epoch /\ w.born = n.born /\ w.failed = n.failed
      /\ w.stopped = n.stopped /\ w.generation = n.generation /\ w.socket = n.socket
      /\ w.retry = n.retry /\ w.cooling = n.cooling
  BY <1>2 DEF WorkerRecord
<1>. HIDE DEF w
<1>4. /\ v \in WorkerRecord /\ Same(v, w) /\ v.generation = w.generation /\ v.socket = w.socket
      /\ v.retry = w.retry /\ v.asked /\ v.drawn = w.drawn
  BY <1>1, <1>2, <1>3, AskedIs
<1>. HIDE DEF v
<1>5. WorkerOK(v) /\ Same(v, worker) /\ v.generation = worker.generation + 1
  BY <1>1, <1>2, <1>3, <1>4 DEF WorkerOK, Same
<1>6. worker' = v /\ ResetDecoding /\ Posted("video-session", w)
      /\ UNCHANGED <<commands, hook, health, rendered>>
  BY DEF SessionMessage, w, n, v
<1>7. Posted("video-session", v)
  <2>1. Event("lifecycle", "video-session", w) = Event("lifecycle", "video-session", v)
    BY <1>3, <1>4 DEF Event, Same
  <2> QED BY <1>6, <2>1 DEF Posted
<1> QED BY <1>5, <1>6, <1>7, BeginsGeneration DEF Reasons

LEMMA SocketGoes ==
  ASSUME ViewerInv, SocketCloses \/ RetryFires
  PROVE  ViewerInv'
<1>1. worker \in WorkerRecord /\ WorkerOK(worker) BY WorkerFacts DEF ViewerInv
<1>2. CASE SocketCloses
  <2>. DEFINE w == [worker EXCEPT !.socket = "none", !.retry = TRUE]
              v == NextGeneration(w)
  <2>1. /\ w \in WorkerRecord /\ Same(w, worker) /\ w.generation = worker.generation
        /\ w.socket = "none" /\ w.retry
    BY <1>1 DEF WorkerRecord, Same
  <2>2. worker.socket # "none" /\ worker' = v /\ ResetDecoding /\ Posted("disconnect", v)
        /\ UNCHANGED <<commands, hook, health, rendered>>
    BY <1>2 DEF SocketCloses
  <2>. HIDE DEF w
  <2>3. /\ v \in WorkerRecord /\ Same(v, w) /\ v.generation = w.generation + 1
        /\ v.socket = w.socket /\ v.retry = w.retry /\ ~v.dropping
    BY <2>1, NextGenerationIs
  <2>. HIDE DEF v
  <2>4. WorkerOK(v) /\ Same(v, worker) /\ v.generation = worker.generation + 1
    BY <1>1, <2>1, <2>2, <2>3 DEF WorkerOK, Same
  <2> QED BY <2>2, <2>4, BeginsGeneration DEF Reasons
<1>3. CASE RetryFires
  <2>1. worker.retry /\ Connected(worker, "reconnect") /\ UNCHANGED <<commands, hook, health, rendered>>
    BY <1>3 DEF RetryFires
  <2>2. ~worker.stopped BY <1>1, <2>1 DEF WorkerOK
  <2>3. "reconnect" \in Reasons /\ (worker.epoch > 0 => worker.born \/ worker.failed)
    BY <1>1 DEF Reasons, WorkerOK
  <2>4. /\ WorkerOK(worker') /\ worker'.epoch = worker.epoch /\ worker'.born = worker.born
        /\ worker'.failed = worker.failed /\ ~worker'.stopped
        /\ worker'.generation = worker.generation + 1
        /\ ResetDecoding /\ Posted("reconnect", worker')
    BY <1>1, <2>1, <2>3, ConnectedIs
  <2>5. worker.stopped = FALSE /\ worker'.stopped = FALSE
    BY <1>1, <2>2, <2>4 DEF WorkerOK, WorkerRecord
  <2>6. Same(worker', worker) BY <2>4, <2>5 DEF Same
  <2> QED BY <2>1, <2>3, <2>4, <2>6, BeginsGeneration
<1> QED BY <1>2, <1>3


LEMMA FeedStops ==
  ASSUME ViewerInv, FeedFails
  PROVE  ViewerInv'
BY RecoveredIs DEF FeedFails

\* A frame that is drawn is of the generation the worker is in.
LEMMA DrawnStays ==
  ASSUME NEW r, NEW s, r \subseteq s, NEW es, NEW g, NEW n, EventsOK(es, g, n, r),
         NEW h, NEW he, HookOK(h, he, r)
  PROVE  EventsOK(es, g, n, s) /\ HookOK(h, he, s)
<1>1. \A epoch, k : IsDrawn(epoch, k, r) => IsDrawn(epoch, k, s) BY DEF IsDrawn
<1>2. EventsOK(es, g, n, s) BY <1>1 DEF EventsOK
<1>3. HookOK(h, he, s) BY <1>1 DEF HookOK
<1> QED BY <1>2, <1>3

LEMMA FrameIsDrawn ==
  ASSUME ViewerInv, Draw
  PROVE  ViewerInv'
<1>1. /\ worker \in WorkerRecord /\ WorkerOK(worker) /\ DecodingOK(decoding, worker)
      /\ decoding \in DecodingRecord /\ worker.generation \in Nat
      /\ UNCHANGED <<commands, hook, health>>
  BY WorkerFacts DEF ViewerInv, Draw
<1>2. CASE decoding.callback # worker.generation \/ decoding.queued = None
  <2>. DEFINE none == None
  <2>1. decoding' = [decoding EXCEPT !.callback = none] /\ none \in Nat
        /\ UNCHANGED <<worker, events, rendered>>
    BY <1>2 DEF Draw, None
  <2>. HIDE DEF none
  <2>2. decoding' \in DecodingRecord /\ decoding'.queued = decoding.queued
        /\ decoding'.decoder = decoding.decoder
    BY <1>1, <2>1 DEF DecodingRecord
  <2>3. DecodingOK(decoding', worker') BY <1>1, <2>1, <2>2 DEF DecodingOK
  <2>4. WorkerOK(worker') /\ Same(worker', worker) /\ worker'.generation = worker.generation
    BY <1>1, <2>1 DEF Same
  <2> QED BY <1>1, <2>1, <2>3, <2>4, WithinGeneration
<1>3. CASE decoding.callback = worker.generation /\ decoding.queued # None
  <2>1. decoding.queued = worker.generation /\ worker.socket # "opening"
    BY <1>1, <1>3 DEF DecodingOK
  <2>2. CASE Recovered /\ UNCHANGED rendered BY <1>1, <2>1, <2>2, RecoveredIs
  <2>3. CASE ~(Recovered /\ UNCHANGED rendered)
    <3>. DEFINE none == None
                v == [worker EXCEPT !.drawn = TRUE]
                e == Event("rendered", "none", v)
                f == <<worker.epoch, worker.generation, worker.generation>>
    <3>1. /\ decoding' = [decoding EXCEPT !.callback = none, !.queued = none]
          /\ rendered' = rendered \cup {f} /\ worker' = v
          /\ events' = IF worker.drawn THEN events ELSE Append(events, e)
      BY <1>1, <1>3, <2>1, <2>3 DEF Draw
    <3>2. none \in Nat BY DEF None
    <3>3. decoding' \in DecodingRecord /\ decoding'.queued = none /\ decoding'.decoder = decoding.decoder
      <4>. HIDE DEF none
      <4> QED BY <1>1, <3>1, <3>2 DEF DecodingRecord
    <3>4. /\ v \in WorkerRecord /\ WorkerOK(v) /\ Same(v, worker) /\ v.epoch = worker.epoch
          /\ v.generation = worker.generation /\ v.socket = worker.socket
      BY <1>1 DEF WorkerRecord, WorkerOK, Same
    <3>5. DecodingOK(decoding', worker') BY <1>1, <2>1, <3>1, <3>3, <3>4 DEF DecodingOK
    <3>6. e \in EventRecord /\ e.kind = "rendered" /\ e.generation = worker.generation
          /\ e.epoch = worker.epoch
      <4>. HIDE DEF v
      <4> QED BY <3>4, EventIs DEF Reasons
    <3>. HIDE DEF v, e, none
    <3>7. rendered \subseteq rendered' /\ IsDrawn(worker.epoch, worker.generation, rendered')
      BY <3>1 DEF IsDrawn
    <3>8. /\ EventsOK(events, hook.generation, worker.generation, rendered)
          /\ StartIsTold(events, hook, worker) /\ HookOK(hook, health, rendered)
          /\ events \in Seq(EventRecord)
      BY WorkerFacts DEF ViewerInv
    <3>9. EventsOK(events', hook.generation, worker.generation, rendered')
      <4>1. CASE worker.drawn BY <3>1, <3>7, <3>8, <4>1, DrawnStays
      <4>2. CASE ~worker.drawn BY <3>1, <3>6, <3>7, <3>8, <4>2, TellsDrawn
      <4> QED BY <4>1, <4>2
    <3>10. StartIsTold(events', hook, worker')
      <4>1. CASE worker.drawn BY <3>1, <3>4, <3>8, <4>1 DEF StartIsTold
      <4>2. CASE ~worker.drawn BY <3>1, <3>4, <3>6, <3>8, <4>2, ToldStays
      <4> QED BY <4>1, <4>2
    <3>11. HookOK(hook, health, rendered') BY <3>7, <3>8, DrawnStays
    <3>12. CommandsOK(commands, hook, worker') BY <3>1, <3>4 DEF ViewerInv, CommandsOK, Same
    <3>13. \A d \in rendered' : d[2] = d[3] BY <3>1 DEF ViewerInv
    <3> QED BY <1>1, <3>1, <3>4, <3>5, <3>9, <3>10, <3>11, <3>12, <3>13 DEF ViewerInv
  <2> QED BY <2>2, <2>3
<1> QED BY <1>2, <1>3

\* The command that arrives is the one after those the worker has taken.
LEMMA CommandIs ==
  ASSUME ViewerInv, commands # <<>>
  PROVE  LET c == Head(commands)
             e == worker.epoch
         IN  /\ c \in CommandRecord /\ c.epoch > 0
             /\ (c.kind = "init" => c.epoch = 1) /\ (c.kind = "connect" => c.epoch > 1)
             /\ Number(c) - 1 \in {2 * e - 1, 2 * e}
             /\ (e > 0 /\ ~worker.failed => (Number(c) - 1 = 2 * e <=> worker.stopped))
             /\ Number(c) = Ahead(hook) - Len(commands) + 1
<1>. DEFINE c == Head(commands)
            n == Ahead(hook) - Len(commands)
<1>1. /\ commands \in Seq(CommandRecord) /\ Len(commands) \in Nat \ {0} /\ hook.epoch \in Nat
      /\ worker.epoch \in Nat
  <2>1. commands \in Seq(CommandRecord) /\ hook.epoch \in Nat /\ worker.epoch \in Nat BY WorkerFacts
  <2>2. Len(commands) \in Nat /\ Len(commands) # 0 BY <2>1
  <2> QED BY <2>1, <2>2
<1>2. c = commands[1] /\ 1 \in 1 .. Len(commands) /\ c \in CommandRecord
  <2>1. c = commands[1] /\ 1 \in 1 .. Len(commands) BY <1>1
  <2> QED BY <1>1, <2>1, ElementOfSeq
<1>3. n \in Int BY <1>1 DEF Ahead
<1>4. Number(c) = n + 1 /\ c.epoch > 0 /\ (c.kind = "init" => c.epoch = 1)
      /\ (c.kind = "connect" => c.epoch > 1)
  BY <1>2 DEF ViewerInv, CommandsOK
<1>5. n \in {2 * worker.epoch - 1, 2 * worker.epoch}
      /\ (worker.epoch > 0 /\ ~worker.failed => (n = 2 * worker.epoch <=> worker.stopped))
  BY DEF ViewerInv, CommandsOK
<1>. HIDE DEF n
<1>6. Number(c) - 1 = n BY <1>3, <1>4
<1> QED BY <1>2, <1>4, <1>5, <1>6 DEF n

LEMMA CommandTaken ==
  ASSUME ViewerInv, Take, UNCHANGED hook, NEW v, v.epoch \in Nat \ {0},
         Number(Head(commands)) \in {2 * v.epoch - 1, 2 * v.epoch},
         ~v.failed => (Number(Head(commands)) = 2 * v.epoch <=> v.stopped)
  PROVE  CommandsOK(commands', hook', v)
<1>. DEFINE m == Len(commands)
            cs == Tail(commands)
            a == Ahead(hook)
<1>1. commands # <<>> /\ commands' = cs /\ commands \in Seq(CommandRecord) /\ hook.epoch \in Nat
  BY WorkerFacts DEF Take
<1>2. /\ cs \in Seq(CommandRecord) /\ Len(cs) = m - 1 /\ m \in Nat \ {0}
      /\ \A i \in 1 .. m - 1 : cs[i] = commands[i + 1] /\ i + 1 \in 1 .. m
  <2>1. m \in Nat /\ m # 0 BY <1>1
  <2>2. cs \in Seq(CommandRecord) /\ Len(cs) = m - 1 BY <1>1, HeadTailProperties
  <2>3. ASSUME NEW i \in 1 .. m - 1 PROVE cs[i] = commands[i + 1] /\ i + 1 \in 1 .. m
    BY <1>1, <2>1, <2>2, HeadTailProperties
  <2> QED BY <2>1, <2>2, <2>3
<1>3. a \in Int BY <1>1 DEF Ahead
<1>4. Number(Head(commands)) = a - m + 1 BY <1>1, CommandIs
<1>5. /\ hook.alive => hook.epoch > 0
      /\ \A i \in 1 .. m :
           /\ Number(commands[i]) = a - m + i
           /\ commands[i].epoch > 0 /\ (commands[i].kind = "init" => commands[i].epoch = 1)
           /\ (commands[i].kind = "connect" => commands[i].epoch > 1)
  BY DEF ViewerInv, CommandsOK
<1>. HIDE DEF cs
<1>6. a - Len(cs) = a - m + 1 BY <1>2, <1>3
<1>7. ASSUME NEW i \in 1 .. Len(cs)
      PROVE  /\ Number(cs[i]) = a - Len(cs) + i
             /\ cs[i].epoch > 0 /\ (cs[i].kind = "init" => cs[i].epoch = 1)
             /\ (cs[i].kind = "connect" => cs[i].epoch > 1)
  <2>1. cs[i] = commands[i + 1] /\ i + 1 \in 1 .. m BY <1>2
  <2>2. Number(commands[i + 1]) = a - m + (i + 1) BY <1>5, <2>1
  <2>3. a - m + (i + 1) = a - Len(cs) + i BY <1>2, <1>3
  <2> QED BY <1>5, <2>1, <2>2, <2>3
<1>8. /\ a - Len(cs) \in {2 * v.epoch - 1, 2 * v.epoch} /\ v.epoch # 0
      /\ ~v.failed => (a - Len(cs) = 2 * v.epoch <=> v.stopped)
  BY <1>4, <1>6
<1>. HIDE DEF a
<1>9. CommandsOK(cs, hook, v)
  <2>1. a = Ahead(hook) BY DEF a
  <2> QED BY <1>2, <1>5, <1>7, <1>8, <2>1 DEF CommandsOK
<1> QED BY <1>1, <1>9

LEMMA CommandBegins ==
  ASSUME ViewerInv, Take, UNCHANGED <<hook, health, rendered>>,
         WorkerOK(worker'), worker'.generation = worker.generation + 1, worker'.epoch > 0,
         ResetDecoding, NEW reason \in Reasons, Posted(reason, worker'),
         Number(Head(commands)) \in {2 * worker'.epoch - 1, 2 * worker'.epoch},
         ~worker'.failed => (Number(Head(commands)) = 2 * worker'.epoch <=> worker'.stopped),
         worker'.epoch = worker.epoch \/ reason = "connect"
  PROVE  ViewerInv'
<1>. DEFINE e == Event("lifecycle", reason, worker')
<1>1. worker' \in WorkerRecord /\ worker'.epoch \in Nat \ {0}
  <2>1. worker' \in WorkerRecord BY DEF WorkerOK
  <2>2. worker'.epoch \in Nat BY <2>1 DEF WorkerRecord
  <2> QED BY <2>1, <2>2
<1>2. /\ e \in EventRecord /\ e.kind = "lifecycle" /\ e.generation = worker.generation + 1
      /\ e.epoch = worker'.epoch /\ e.reason = reason
  BY <1>1, EventIs
<1>3. events' = Append(events, e) BY DEF Posted
<1>. HIDE DEF e
<1>4. EventsOK(events', hook.generation, worker'.generation, rendered)
  BY <1>2, <1>3, TellsNewer DEF ViewerInv
<1>5. worker'.epoch = worker.epoch \/ IsStart(e, worker'.epoch) BY <1>2 DEF IsStart
<1>6. StartIsTold(events', hook, worker')
  BY <1>2, <1>3, <1>5, WorkerFacts, ToldStays DEF ViewerInv
<1>7. DecodingOK(decoding', worker') BY WorkerFacts, DecodingReset DEF DecodingOK
<1>8. CommandsOK(commands', hook', worker') BY <1>1, CommandTaken
<1> QED BY <1>4, <1>6, <1>7, <1>8 DEF ViewerInv


LEMMA InitIsTaken ==
  ASSUME ViewerInv, InitCommand
  PROVE  ViewerInv'
<1>. DEFINE c == Head(commands)
<1>1. /\ worker \in WorkerRecord /\ WorkerOK(worker) /\ worker.epoch \in Nat /\ Take /\ c.kind = "init"
      /\ UNCHANGED <<hook, health, rendered>>
  BY WorkerFacts DEF ViewerInv, InitCommand
<1>2. c \in CommandRecord /\ c.epoch = 1 /\ Number(c) - 1 \in {2 * worker.epoch - 1, 2 * worker.epoch}
  BY <1>1, CommandIs DEF Take
<1>3. Number(c) = 1
  <2>1. Number(c) = 2 * c.epoch - 1 BY <1>1 DEF Number
  <2> QED BY <1>2, <2>1
<1>4. worker.epoch = 0 BY <1>1, <1>2, <1>3
<1>5. ~worker.stopped BY <1>1, <1>4 DEF WorkerOK
<1>6. PICK ok \in BOOLEAN :
       LET w == [worker EXCEPT !.epoch = c.epoch, !.born = ok, !.failed = ~ok]
       IN  IF ok THEN Connected(w, "connect")
           ELSE /\ worker' = NextGeneration(w)
                /\ ResetDecoding
                /\ Posted("connect", NextGeneration(w))
  BY DEF InitCommand
<1>7. CASE ok = TRUE
  <2>. DEFINE w == [worker EXCEPT !.epoch = 1, !.born = TRUE, !.failed = FALSE]
  <2>1. Connected(w, "connect")
    <3>1. w = [worker EXCEPT !.epoch = c.epoch, !.born = ok, !.failed = ~ok] BY <1>2, <1>7
    <3> QED BY <1>6, <1>7, <3>1
  <2>2. /\ w \in WorkerRecord /\ w.epoch = 1 /\ w.born /\ ~w.failed
        /\ w.generation = worker.generation
    BY <1>1 DEF WorkerRecord
  <2>. HIDE DEF w
  <2>3. "connect" \in Reasons /\ (w.epoch > 0 => w.born \/ w.failed) BY <2>2 DEF Reasons
  <2>4. /\ WorkerOK(worker') /\ worker'.epoch = w.epoch /\ ~worker'.stopped
        /\ worker'.generation = w.generation + 1
        /\ ResetDecoding /\ Posted("connect", worker')
    BY <2>1, <2>2, <2>3, ConnectedIs
  <2>5. worker'.epoch = 1 /\ worker'.generation = worker.generation + 1 BY <2>2, <2>4
  <2> QED BY <1>1, <1>3, <2>3, <2>4, <2>5, CommandBegins
<1>8. CASE ok = FALSE
  <2>. DEFINE w == [worker EXCEPT !.epoch = 1, !.born = FALSE, !.failed = TRUE]
              v == NextGeneration(w)
  <2>1. worker' = v /\ ResetDecoding /\ Posted("connect", v)
    <3>1. w = [worker EXCEPT !.epoch = c.epoch, !.born = ok, !.failed = ~ok] BY <1>2, <1>8
    <3> QED BY <1>6, <1>8, <3>1
  <2>2. /\ w \in WorkerRecord /\ w.epoch = 1 /\ ~w.born /\ w.failed /\ ~w.stopped
        /\ w.generation = worker.generation
    BY <1>1, <1>5 DEF WorkerRecord
  <2>. HIDE DEF w
  <2>3. /\ v \in WorkerRecord /\ v.epoch = 1 /\ ~v.born /\ v.failed /\ ~v.stopped /\ ~v.dropping
        /\ v.generation = worker.generation + 1
    BY <2>2, NextGenerationIs DEF Same
  <2>. HIDE DEF v
  <2>4. WorkerOK(v) BY <2>3 DEF WorkerOK
  <2>5. "connect" \in Reasons BY DEF Reasons
  <2> QED BY <1>1, <1>3, <2>1, <2>3, <2>4, <2>5, CommandBegins
<1> QED BY <1>7, <1>8

LEMMA ConnectIsTaken ==
  ASSUME ViewerInv, ConnectCommand
  PROVE  ViewerInv'
<1>. DEFINE c == Head(commands)
            e == c.epoch
            w == [worker EXCEPT !.epoch = e]
            v == NextGeneration(w)
<1>1. /\ worker \in WorkerRecord /\ WorkerOK(worker) /\ worker.epoch \in Nat /\ Take
      /\ c.kind = "connect" /\ UNCHANGED <<hook, health, rendered>>
  BY WorkerFacts DEF ViewerInv, ConnectCommand
<1>2. /\ c \in CommandRecord /\ c.epoch > 1 /\ c.epoch \in Nat
      /\ Number(c) - 1 \in {2 * worker.epoch - 1, 2 * worker.epoch}
      /\ (worker.epoch > 0 /\ ~worker.failed => (Number(c) - 1 = 2 * worker.epoch <=> worker.stopped))
  <2>1. c \in CommandRecord /\ c.epoch > 1 BY <1>1, CommandIs DEF Take
  <2>2. c.epoch \in Nat BY <2>1 DEF CommandRecord
  <2> QED BY <1>1, <2>1, <2>2, CommandIs DEF Take
<1>3. Number(c) = 2 * e - 1 BY <1>1, <1>2 DEF Number
<1>4. worker.epoch > 0 /\ Number(c) - 1 = 2 * worker.epoch BY <1>1, <1>2, <1>3
<1>5. worker.failed \/ (worker.born /\ worker.stopped) BY <1>1, <1>2, <1>4 DEF WorkerOK
<1>6. /\ w \in WorkerRecord /\ w.epoch = e /\ w.born = worker.born /\ w.failed = worker.failed
      /\ w.stopped = worker.stopped /\ w.generation = worker.generation
      /\ w.socket = worker.socket /\ w.retry = worker.retry
  BY <1>1, <1>2 DEF WorkerRecord
<1>7. CASE w.failed
  <2>1. worker' = v /\ ResetDecoding /\ Posted("connect", v) BY <1>7 DEF ConnectCommand
  <2>. HIDE DEF w
  <2>2. /\ v \in WorkerRecord /\ v.epoch = e /\ v.born = w.born /\ v.failed = w.failed
        /\ v.stopped = w.stopped /\ ~v.dropping /\ v.socket = w.socket /\ v.retry = w.retry
        /\ v.generation = worker.generation + 1
    BY <1>6, NextGenerationIs DEF Same
  <2>. HIDE DEF v
  <2>3. WorkerOK(v) BY <1>1, <1>2, <1>4, <1>6, <2>2 DEF WorkerOK
  <2>4. "connect" \in Reasons /\ v.failed BY <1>7, <2>2 DEF Reasons
  <2> QED BY <1>1, <1>2, <1>3, <2>1, <2>2, <2>3, <2>4, CommandBegins
<1>8. CASE ~w.failed
  <2>1. Connected(w, "connect") BY <1>5, <1>6, <1>8 DEF ConnectCommand
  <2>. HIDE DEF w
  <2>2. "connect" \in Reasons /\ (w.epoch > 0 => w.born \/ w.failed) BY <1>5, <1>6 DEF Reasons
  <2>3. /\ WorkerOK(worker') /\ worker'.epoch = w.epoch /\ ~worker'.stopped
        /\ worker'.generation = w.generation + 1
        /\ ResetDecoding /\ Posted("connect", worker')
    BY <1>6, <2>1, <2>2, ConnectedIs
  <2>4. worker'.epoch = e /\ worker'.generation = worker.generation + 1 BY <1>6, <2>3
  <2>5. worker'.epoch > 0 /\ Number(c) = 2 * worker'.epoch - 1 /\ Number(c) # 2 * worker'.epoch
    BY <1>2, <1>3, <2>4
  <2> QED BY <1>1, <2>2, <2>3, <2>4, <2>5, CommandBegins
<1> QED BY <1>7, <1>8

LEMMA StopIsTaken ==
  ASSUME ViewerInv, StopCommand
  PROVE  ViewerInv'
<1>. DEFINE c == Head(commands)
            older == worker.older \/ worker.socket # "none"
            w == [worker EXCEPT !.stopped = TRUE, !.retry = FALSE, !.socket = "none", !.older = older]
            v == NextGeneration(w)
<1>1. /\ worker \in WorkerRecord /\ WorkerOK(worker) /\ worker.epoch \in Nat /\ Take
      /\ c.kind = "stop" /\ UNCHANGED <<hook, health, rendered>>
  BY WorkerFacts DEF ViewerInv, StopCommand
<1>2. /\ c \in CommandRecord /\ c.epoch > 0 /\ c.epoch \in Nat
      /\ Number(c) - 1 \in {2 * worker.epoch - 1, 2 * worker.epoch}
  <2>1. c \in CommandRecord /\ c.epoch > 0 BY <1>1, CommandIs DEF Take
  <2>2. c.epoch \in Nat BY <2>1 DEF CommandRecord
  <2> QED BY <1>1, <2>1, <2>2, CommandIs DEF Take
<1>3. Number(c) = 2 * c.epoch BY <1>1, <1>2 DEF Number
<1>4. c.epoch = worker.epoch BY <1>1, <1>2, <1>3
<1>5. worker' = v /\ ResetDecoding /\ Posted("stop", v) BY <1>1, <1>4 DEF StopCommand, WorkerRecord
<1>6. older = TRUE \/ older = FALSE BY <1>1 DEF WorkerRecord
<1>. HIDE DEF older
<1>7. /\ w \in WorkerRecord /\ w.epoch = worker.epoch /\ w.born = worker.born
      /\ w.failed = worker.failed /\ w.stopped /\ w.generation = worker.generation
      /\ w.socket = "none" /\ ~w.retry
  BY <1>1, <1>6 DEF WorkerRecord
<1>. HIDE DEF w
<1>8. /\ v \in WorkerRecord /\ v.epoch = w.epoch /\ v.born = w.born /\ v.failed = w.failed
      /\ v.stopped = w.stopped /\ ~v.dropping /\ v.socket = w.socket /\ v.retry = w.retry
      /\ v.generation = worker.generation + 1
  BY <1>7, NextGenerationIs DEF Same
<1>. HIDE DEF v
<1>9. WorkerOK(v) BY <1>1, <1>2, <1>4, <1>7, <1>8 DEF WorkerOK
<1>10. "stop" \in Reasons /\ Number(c) = 2 * v.epoch /\ v.epoch = worker.epoch /\ v.stopped
  BY <1>3, <1>4, <1>7, <1>8 DEF Reasons
<1> QED BY <1>1, <1>2, <1>4, <1>5, <1>8, <1>9, <1>10, CommandBegins

\* The effect runs, and is cleaned up: each posts the command that comes next.
LEMMA CommandGiven ==
  ASSUME NEW cs, NEW h, NEW w, CommandsOK(cs, h, w), NEW k, NEW c \in CommandRecord,
         h.epoch \in Nat, k.epoch \in Nat, w.epoch \in Nat, Ahead(k) = Ahead(h) + 1,
         k.alive => k.epoch > 0,
         Number(c) = Ahead(k), c.epoch > 0, c.kind = "init" => c.epoch = 1,
         c.kind = "connect" => c.epoch > 1
  PROVE  CommandsOK(Append(cs, c), k, w)
<1>. DEFINE m == Len(cs)
            ds == Append(cs, c)
            a == Ahead(h)
<1>1. cs \in Seq(CommandRecord) /\ m \in Nat /\ a \in Int BY DEF CommandsOK, Ahead
<1>2. /\ ds \in Seq(CommandRecord) /\ Len(ds) = m + 1 /\ ds[m + 1] = c
      /\ \A i \in 1 .. m : ds[i] = cs[i]
  BY <1>1
<1>. HIDE DEF ds
<1>3. Ahead(k) = a + 1 /\ Ahead(k) - Len(ds) = a - m BY <1>1, <1>2
<1>4. ASSUME NEW i \in 1 .. Len(ds)
      PROVE  /\ Number(ds[i]) = Ahead(k) - Len(ds) + i
             /\ ds[i].epoch > 0 /\ (ds[i].kind = "init" => ds[i].epoch = 1)
             /\ (ds[i].kind = "connect" => ds[i].epoch > 1)
  <2>1. CASE i = m + 1
    <3>1. Number(ds[i]) = a + 1 BY <1>2, <1>3, <2>1
    <3>2. a + 1 = Ahead(k) - Len(ds) + i BY <1>1, <1>2, <1>3, <2>1
    <3> QED BY <1>2, <2>1, <3>1, <3>2
  <2>2. CASE i # m + 1
    <3>1. i \in 1 .. m BY <1>1, <1>2, <2>2
    <3>2. Number(cs[i]) = a - m + i /\ cs[i].epoch > 0 /\ (cs[i].kind = "init" => cs[i].epoch = 1)
          /\ (cs[i].kind = "connect" => cs[i].epoch > 1)
      BY <3>1 DEF CommandsOK
    <3> QED BY <1>2, <1>3, <3>1, <3>2
  <2> QED BY <2>1, <2>2
<1>5. /\ a - m \in {2 * w.epoch - 1, 2 * w.epoch}
      /\ w.epoch = 0 => a = m
      /\ w.epoch > 0 /\ ~w.failed => (a - m = 2 * w.epoch <=> w.stopped)
  BY DEF CommandsOK
<1>. HIDE DEF a
<1>6. /\ Ahead(k) - Len(ds) \in {2 * w.epoch - 1, 2 * w.epoch}
      /\ w.epoch = 0 => Ahead(k) = Len(ds)
      /\ w.epoch > 0 /\ ~w.failed => (Ahead(k) - Len(ds) = 2 * w.epoch <=> w.stopped)
  BY <1>1, <1>2, <1>3, <1>5
<1> QED BY <1>2, <1>4, <1>6 DEF CommandsOK

LEMMA EffectBegins ==
  ASSUME ViewerInv, EffectRuns
  PROVE  ViewerInv'
<1>. DEFINE n == hook.epoch + 1
            kind == IF hook.epoch = 0 THEN "init" ELSE "connect"
            c == [kind |-> kind, epoch |-> n]
            awaiting == hook.epoch > 0
<1>1. /\ worker \in WorkerRecord /\ worker.epoch \in Nat /\ hook \in HookRecord /\ hook.epoch \in Nat
      /\ hook.generation \in Nat /\ ~hook.alive
      /\ UNCHANGED <<worker, decoding, events, rendered>>
  BY WorkerFacts DEF EffectRuns
<1>2. n \in Nat /\ (awaiting = TRUE \/ awaiting = FALSE) BY <1>1
<1>3. /\ hook' = [hook EXCEPT !.epoch = n, !.alive = TRUE, !.awaiting = awaiting, !.live = FALSE,
                              !.terminal = 0]
      /\ commands' = Append(commands, c)
      /\ health' = Poll(hook.generation)
  BY <1>1 DEF EffectRuns, HookRecord
<1>4. c \in CommandRecord /\ Number(c) = 2 * n - 1 /\ c.epoch = n
  BY <1>1 DEF CommandRecord, Number
<1>5. (kind = "init" => n = 1) /\ (kind = "connect" => n > 1) /\ n > 0 BY <1>1
<1>. HIDE DEF awaiting
<1>6. /\ hook' \in HookRecord /\ hook'.epoch = n /\ hook'.alive /\ ~hook'.live /\ hook'.terminal = 0
      /\ hook'.generation = hook.generation
  <2>. HIDE DEF n
  <2> QED BY <1>1, <1>2, <1>3 DEF HookRecord
<1>7. Ahead(hook') = 2 * n - 1 /\ Ahead(hook') = Ahead(hook) + 1 BY <1>1, <1>6 DEF Ahead
<1>8. CommandsOK(commands', hook', worker)
  <2>1. c.kind = kind BY DEF c
  <2>. HIDE DEF c, n
  <2> QED BY <1>1, <1>2, <1>3, <1>4, <1>5, <1>6, <1>7, <2>1, CommandGiven DEF ViewerInv
<1>9. StartIsTold(events, hook', worker)
  <2>. DEFINE a == Ahead(hook)
              m == Len(commands)
  <2>1. a = 2 * hook.epoch /\ m \in Nat BY <1>1, WorkerFacts DEF Ahead
  <2>2. a - m \in {2 * worker.epoch - 1, 2 * worker.epoch} BY DEF ViewerInv, CommandsOK
  <2>. HIDE DEF a, m
  <2>3. worker.epoch # n BY <1>1, <2>1, <2>2
  <2> QED BY <1>6, <2>3 DEF StartIsTold
<1>10. HookOK(hook', health', rendered)
  <2>1. health' \in HealthRecord /\ health'.step = "inFlight" BY <1>1, <1>3 DEF Poll, HealthRecord
  <2> QED BY <1>6, <2>1 DEF HookOK
<1> QED BY <1>1, <1>6, <1>8, <1>9, <1>10 DEF ViewerInv

LEMMA EffectCleaned ==
  ASSUME ViewerInv, CleanedUp
  PROVE  ViewerInv'
<1>. DEFINE c == [kind |-> "stop", epoch |-> hook.epoch]
<1>1. /\ worker \in WorkerRecord /\ worker.epoch \in Nat /\ hook \in HookRecord /\ hook.epoch \in Nat
      /\ hook.generation \in Nat /\ hook.alive /\ health \in HealthRecord
      /\ UNCHANGED <<worker, decoding, events, rendered>>
      /\ hook' = [hook EXCEPT !.alive = FALSE, !.live = FALSE]
      /\ commands' = Append(commands, c)
      /\ health' = [health EXCEPT !.step = "none"]
  BY WorkerFacts DEF CleanedUp
<1>2. hook.epoch > 0 BY <1>1 DEF ViewerInv, CommandsOK
<1>3. c \in CommandRecord /\ Number(c) = 2 * hook.epoch /\ c.epoch = hook.epoch /\ c.kind = "stop"
  BY <1>1 DEF CommandRecord, Number
<1>4. /\ hook' \in HookRecord /\ hook'.epoch = hook.epoch /\ ~hook'.alive /\ ~hook'.live
      /\ hook'.terminal = hook.terminal /\ hook'.generation = hook.generation
  BY <1>1 DEF HookRecord
<1>5. Ahead(hook') = 2 * hook.epoch /\ Ahead(hook') = Ahead(hook) + 1 BY <1>1, <1>4 DEF Ahead
<1>. HIDE DEF c
<1>6. CommandsOK(commands', hook', worker)
  BY <1>1, <1>2, <1>3, <1>4, <1>5, CommandGiven DEF ViewerInv
<1>7. StartIsTold(events, hook', worker) BY <1>4 DEF StartIsTold
<1>8. HookOK(hook', health', rendered)
  <2>1. health' \in HealthRecord /\ health'.step = "none" BY <1>1 DEF HealthRecord
  <2> QED BY <1>4, <2>1 DEF ViewerInv, HookOK
<1> QED BY <1>1, <1>4, <1>6, <1>7, <1>8 DEF ViewerInv


\* What the effect is told: of an earlier run it is nothing.
LEMMA EventTaken ==
  ASSUME NEW es, NEW g, NEW n, NEW r, EventsOK(es, g, n, r), es # <<>>, NEW k \in {g, Head(es).generation}
  PROVE  EventsOK(Tail(es), k, n, r)
<1>. DEFINE m == Len(es)
            fs == Tail(es)
            e == Head(es)
<1>1. es \in Seq(EventRecord) /\ n \in Nat /\ g \in Nat BY DEF EventsOK
<1>2. /\ fs \in Seq(EventRecord) /\ Len(fs) = m - 1 /\ m \in Nat \ {0}
      /\ \A i \in 1 .. m - 1 : fs[i] = es[i + 1] /\ i + 1 \in 1 .. m
  <2>1. m \in Nat /\ m # 0 BY <1>1
  <2>2. fs \in Seq(EventRecord) /\ Len(fs) = m - 1 BY <1>1, HeadTailProperties
  <2>3. ASSUME NEW i \in 1 .. m - 1 PROVE fs[i] = es[i + 1] /\ i + 1 \in 1 .. m
    BY <1>1, <2>1, <2>2, HeadTailProperties
  <2> QED BY <2>1, <2>2, <2>3
<1>3. e = es[1] /\ 1 \in 1 .. m BY <1>1, <1>2
<1>4. e.generation \in Nat /\ g <= e.generation /\ e.generation <= n
  <2>1. e \in EventRecord BY <1>1, <1>3, ElementOfSeq
  <2>2. e.generation \in Nat BY <2>1 DEF EventRecord
  <2> QED BY <1>3, <2>2 DEF EventsOK
<1>5. k \in Nat /\ k <= n /\ k \in {g, e.generation} BY <1>1, <1>4 DEF EventsOK
<1>. HIDE DEF fs
<1>6. ASSUME NEW i \in 1 .. m - 1
      PROVE  /\ k <= fs[i].generation /\ fs[i].generation <= n
             /\ fs[i].kind = "lifecycle" => k < fs[i].generation
             /\ fs[i].kind = "rendered" => IsDrawn(fs[i].epoch, fs[i].generation, r)
  <2>1. fs[i] = es[i + 1] /\ i + 1 \in 1 .. m /\ 1 < i + 1 BY <1>2
  <2>2. /\ g <= es[i + 1].generation /\ es[i + 1].generation <= n
        /\ es[i + 1].kind = "lifecycle" => g < es[i + 1].generation
        /\ es[i + 1].kind = "rendered" => IsDrawn(es[i + 1].epoch, es[i + 1].generation, r)
        /\ e.generation <= es[i + 1].generation
        /\ es[i + 1].kind = "lifecycle" => e.generation < es[i + 1].generation
    BY <1>3, <2>1 DEF EventsOK
  <2> QED BY <1>5, <2>1, <2>2
<1>7. ASSUME NEW i \in 1 .. m - 1, NEW j \in 1 .. m - 1, i < j
      PROVE  /\ fs[i].generation <= fs[j].generation
             /\ fs[j].kind = "lifecycle" => fs[i].generation < fs[j].generation
  <2>1. /\ fs[i] = es[i + 1] /\ i + 1 \in 1 .. m /\ fs[j] = es[j + 1] /\ j + 1 \in 1 .. m
        /\ i + 1 < j + 1
    BY <1>2, <1>7
  <2> QED BY <2>1 DEF EventsOK
<1> QED BY <1>1, <1>2, <1>5, <1>6, <1>7 DEF EventsOK

LEMMA ShownIs ==
  ASSUME ViewerInv, NEW e \in EventRecord, e.epoch = hook.epoch, hook.alive, GatePasses(e),
         e.kind = "rendered" => IsDrawn(e.epoch, e.generation, rendered)
  PROVE  LET k == Shown(e)
         IN  /\ k \in HookRecord /\ k.epoch = hook.epoch /\ k.alive /\ ~k.awaiting
             /\ k.generation = e.generation
             /\ k.live => IsDrawn(k.epoch, k.generation, rendered)
             /\ k.terminal \in {0, k.generation}
<1>. DEFINE n == e.generation
            k == Shown(e)
            seen == IF e.drawn THEN n ELSE hook.seen
            zero == IF e.drawn THEN n ELSE 0
<1>1. hook \in HookRecord /\ n \in Nat BY WorkerFacts DEF EventRecord
<1>2. seen \in Nat /\ zero \in Nat BY <1>1 DEF HookRecord
<1>3. CASE Boundary(e)
  <2>1. k = [hook EXCEPT !.generation = n, !.awaiting = FALSE, !.live = FALSE, !.terminal = 0,
                         !.seen = zero]
    BY <1>3 DEF Shown
  <2>. HIDE DEF k, zero, n
  <2>2. /\ k \in HookRecord /\ k.epoch = hook.epoch /\ k.alive = hook.alive /\ ~k.awaiting
        /\ k.generation = n /\ ~k.live /\ k.terminal = 0
    BY <1>1, <1>2, <2>1 DEF HookRecord
  <2> QED BY <2>2 DEF n, k
<1>4. CASE ~Boundary(e)
  <2>. DEFINE live == hook.live \/ e.kind = "rendered"
  <2>1. ~hook.awaiting /\ n = hook.generation BY <1>4 DEF GatePasses
  <2>2. live = TRUE \/ live = FALSE BY <1>1 DEF HookRecord
  <2>3. k = [hook EXCEPT !.live = live, !.seen = seen] BY <1>1, <1>4 DEF Shown, HookRecord
  <2>. HIDE DEF k, seen, live
  <2>4. /\ k \in HookRecord /\ k.epoch = hook.epoch /\ k.alive = hook.alive
        /\ k.awaiting = hook.awaiting /\ k.generation = hook.generation /\ k.live = live
        /\ k.terminal = hook.terminal
    BY <1>1, <1>2, <2>2, <2>3 DEF HookRecord
  <2>5. live => IsDrawn(hook.epoch, hook.generation, rendered)
    <3>1. hook.live => IsDrawn(hook.epoch, hook.generation, rendered) BY DEF ViewerInv, HookOK
    <3> QED BY <2>1, <3>1 DEF live, n
  <2>6. hook.terminal \in {0, hook.generation} BY DEF ViewerInv, HookOK
  <2> QED BY <2>1, <2>4, <2>5, <2>6 DEF k, n
<1> QED BY <1>3, <1>4

LEMMA MessageIsTaken ==
  ASSUME ViewerInv, Message
  PROVE  ViewerInv'
<1>. DEFINE e == Head(events)
            m == Len(events)
<1>1. /\ hook \in HookRecord /\ health \in HealthRecord /\ hook.generation \in Nat
      /\ events \in Seq(EventRecord) /\ events # <<>> /\ events' = Tail(events)
      /\ UNCHANGED <<worker, decoding, commands, rendered>>
  BY WorkerFacts DEF Message
<1>2. e = events[1] /\ 1 \in 1 .. m /\ e \in EventRecord /\ m \in Nat \ {0}
  <2>1. m \in Nat /\ m # 0 BY <1>1
  <2>2. e = events[1] /\ 1 \in 1 .. m BY <1>1, <2>1
  <2> QED BY <1>1, <2>1, <2>2, ElementOfSeq
<1>3. /\ EventsOK(events, hook.generation, worker.generation, rendered)
      /\ e.kind = "rendered" => IsDrawn(e.epoch, e.generation, rendered)
      /\ e.kind = "lifecycle" => hook.generation < e.generation
  BY <1>2 DEF ViewerInv, EventsOK
<1>4. e.generation \in Nat BY <1>2 DEF EventRecord
<1>5. CASE hook.alive /\ e.epoch = hook.epoch /\ GatePasses(e)
  <2>1. /\ hook' = Shown(e)
        /\ health' = IF ~Boundary(e) THEN health
                     ELSE [Refreshed EXCEPT !.generation =
                             IF health.step = "inFlight" THEN @ ELSE e.generation]
    BY <1>5 DEF Message
  <2>2. /\ hook' \in HookRecord /\ hook'.epoch = hook.epoch /\ hook'.alive /\ ~hook'.awaiting
        /\ hook'.generation = e.generation
        /\ hook'.live => IsDrawn(hook'.epoch, hook'.generation, rendered)
        /\ hook'.terminal \in {0, hook'.generation}
    <3>. HIDE DEF e
    <3> QED BY <1>2, <1>3, <1>5, <2>1, ShownIs
  <2>3. health' \in HealthRecord /\ health'.step # "none"
    <3>. DEFINE n == e.generation
    <3>1. health.step # "none" BY <1>5 DEF ViewerInv, HookOK
    <3>2. CASE ~Boundary(e) BY <1>1, <2>1, <3>1, <3>2
    <3>3. CASE Boundary(e) /\ health.step = "inFlight"
      <4>. DEFINE o == health.generation
                  r == [health EXCEPT !.aborted = TRUE]
      <4>1. o \in Nat /\ r \in HealthRecord /\ r.step = "inFlight" /\ r.generation = o
        BY <1>1, <3>3 DEF HealthRecord
      <4>2. health' = [r EXCEPT !.generation = o] BY <2>1, <3>3, <4>1 DEF Refreshed
      <4>. HIDE DEF r, o
      <4> QED BY <4>1, <4>2 DEF HealthRecord
    <3>4. CASE Boundary(e) /\ health.step # "inFlight"
      <4>1. health' = [Poll(hook.generation) EXCEPT !.generation = n] BY <2>1, <3>4 DEF Refreshed
      <4>. HIDE DEF n
      <4>2. n \in Nat BY <1>4 DEF n
      <4> QED BY <1>1, <4>1, <4>2 DEF HealthRecord, Poll
    <3> QED BY <3>2, <3>3, <3>4
  <2>4. EventsOK(events', hook'.generation, worker'.generation, rendered')
    BY <1>1, <1>3, <2>2, EventTaken
  <2>5. HookOK(hook', health', rendered') BY <1>1, <2>2, <2>3 DEF HookOK
  <2>6. StartIsTold(events', hook', worker') BY <2>2 DEF StartIsTold
  <2>7. CommandsOK(commands', hook', worker')
    <3>1. hook.alive /\ hook'.alive = TRUE /\ hook.alive = TRUE
      BY <1>1, <1>5, <2>2 DEF HookRecord
    <3> QED BY <1>1, <2>2, <3>1 DEF ViewerInv, CommandsOK, Ahead
  <2> QED BY <1>1, <2>4, <2>5, <2>6, <2>7 DEF ViewerInv
<1>6. CASE ~(hook.alive /\ e.epoch = hook.epoch /\ GatePasses(e))
  <2>1. UNCHANGED <<hook, health>> BY <1>6 DEF Message
  <2>2. EventsOK(events', hook'.generation, worker'.generation, rendered')
    BY <1>1, <1>3, <2>1, EventTaken
  <2>3. StartIsTold(events', hook, worker)
    <3>1. SUFFICES ASSUME hook.alive, hook.awaiting, worker.epoch = hook.epoch
                   PROVE  \E i \in 1 .. Len(events') : IsStart(events'[i], hook.epoch)
      BY DEF StartIsTold
    <3>2. PICK i \in 1 .. m : IsStart(events[i], hook.epoch) BY <3>1 DEF ViewerInv, StartIsTold
    <3>3. ~IsStart(e, hook.epoch) BY <1>3, <1>6, <3>1 DEF IsStart, GatePasses, Boundary
    <3>4. i # 1 BY <1>2, <3>2, <3>3
    <3>5. Len(events') = m - 1 /\ i - 1 \in 1 .. m - 1 /\ events'[i - 1] = events[i]
      <4>1. i - 1 \in 1 .. m - 1 /\ (i - 1) + 1 = i BY <1>2, <3>4
      <4>2. Len(events') = m - 1 BY <1>1, HeadTailProperties
      <4> QED BY <1>1, <4>1, <4>2, HeadTailProperties
    <3> QED BY <3>2, <3>5
  <2> QED BY <1>1, <2>1, <2>2, <2>3 DEF ViewerInv
<1> QED BY <1>5, <1>6

LEMMA HealthGoesOn ==
  ASSUME ViewerInv, HealthAnswered \/ HealthTimer
  PROVE  ViewerInv'
<1>1. /\ hook \in HookRecord /\ health \in HealthRecord /\ hook.generation \in Nat
      /\ HookOK(hook, health, rendered) /\ health.generation \in Nat
      /\ UNCHANGED <<worker, decoding, commands, events, rendered>>
  BY WorkerFacts DEF ViewerInv, HealthAnswered, HealthTimer, HealthRecord
<1>2. CASE HealthAnswered
  <2>. DEFINE g == health.generation
  <2>1. /\ health.step = "inFlight"
        /\ health' = [step |-> "timer", generation |-> g, aborted |-> FALSE]
        /\ hook' = hook \/ (g = hook.generation /\ hook' = [hook EXCEPT !.terminal = g])
    BY <1>2 DEF HealthAnswered
  <2>2. health' \in HealthRecord /\ health'.step = "timer" BY <1>1, <2>1 DEF HealthRecord
  <2>3. /\ hook' \in HookRecord /\ hook'.epoch = hook.epoch /\ hook'.alive = hook.alive
        /\ hook'.awaiting = hook.awaiting /\ hook'.live = hook.live
        /\ hook'.generation = hook.generation /\ hook'.terminal \in {0, hook'.generation}
    <3>1. CASE hook' = hook BY <1>1, <3>1 DEF HookOK
    <3>2. CASE g = hook.generation /\ hook' = [hook EXCEPT !.terminal = g]
      <4>1. g \in Nat BY <1>1
      <4>. HIDE DEF g
      <4> QED BY <1>1, <3>2, <4>1 DEF HookRecord
    <3> QED BY <2>1, <3>1, <3>2
  <2>4. HookOK(hook', health', rendered') BY <1>1, <2>1, <2>2, <2>3 DEF HookOK
  <2>5. CommandsOK(commands', hook', worker') BY <1>1, <2>3 DEF ViewerInv, CommandsOK, Ahead
  <2>6. StartIsTold(events', hook', worker') BY <1>1, <2>3 DEF ViewerInv, StartIsTold
  <2> QED BY <1>1, <2>3, <2>4, <2>5, <2>6 DEF ViewerInv
<1>3. CASE HealthTimer
  <2>1. /\ health.step = "timer" /\ hook' = hook
        /\ health' = [step |-> "inFlight", generation |-> hook.generation, aborted |-> FALSE]
    BY <1>3 DEF HealthTimer, Poll
  <2>2. health' \in HealthRecord /\ health'.step = "inFlight" BY <1>1, <2>1 DEF HealthRecord
  <2>3. HookOK(hook', health', rendered') BY <1>1, <2>1, <2>2 DEF HookOK
  <2> QED BY <1>1, <2>1, <2>3 DEF ViewerInv
<1> QED BY <1>2, <1>3

LEMMA ViewerGoesOn ==
  ASSUME ViewerInv, ViewerWorkerNext
  PROVE  ViewerInv'
<1>1. CASE InitCommand \/ ConnectCommand \/ StopCommand
  BY <1>1, InitIsTaken, ConnectIsTaken, StopIsTaken
<1>2. CASE SocketOpens \/ SocketCloses \/ OlderCloses \/ RetryFires \/ SessionMessage \/ RequestCools
  BY <1>2, WorkerRests, SocketGoes, SessionBegins
<1>3. CASE FrameFed \/ FeedFails \/ Draw BY <1>3, FrameIsFed, FeedStops, FrameIsDrawn
<1>4. CASE \E g \in 1 .. MaxGenerations : Decoded(g)
  <2>1. PICK g \in 1 .. MaxGenerations : Decoded(g) BY <1>4
  <2>2. g \in Nat BY ViewerWorkerAssumption
  <2> QED BY <2>1, <2>2, DecodedIs
<1>5. CASE EffectRuns \/ CleanedUp \/ Message \/ HealthAnswered \/ HealthTimer
  BY <1>5, EffectBegins, EffectCleaned, MessageIsTaken, HealthGoesOn
<1> QED BY <1>1, <1>2, <1>3, <1>4, <1>5 DEF ViewerWorkerNext

LEMMA ViewerStays ==
  ASSUME ViewerInv, UNCHANGED viewerWorkerVars
  PROVE  ViewerInv'
BY DEF ViewerInv, viewerWorkerVars

\* ShownIsCurrent, DrawnIsCurrent and what is waited for, from the invariant.
LEMMA ViewerPromises ==
  ASSUME ViewerInv
  PROVE  ShownIsCurrent /\ DrawnIsCurrent /\ WorkerKeepsTrying /\ DroppingIsAskedFor
         /\ EffectIsConnected
<1>1. ShownIsCurrent BY DEF ViewerInv, HookOK, IsDrawn, ShownIsCurrent
<1>2. DrawnIsCurrent BY DEF ViewerInv, DrawnIsCurrent
<1>3. WorkerKeepsTrying
  <2>1. worker.retry = TRUE \/ worker.retry = FALSE BY WorkerFacts DEF WorkerRecord
  <2> QED BY <2>1 DEF ViewerInv, WorkerOK, HookOK, WorkerKeepsTrying
<1>4. DroppingIsAskedFor BY DEF ViewerInv, WorkerOK, DroppingIsAskedFor
<1>5. EffectIsConnected
  <2>1. SUFFICES ASSUME hook.alive, commands = <<>>, events = <<>>
                 PROVE  ~hook.awaiting /\ worker.epoch = hook.epoch
    BY DEF EffectIsConnected
  <2>2. Len(commands) = 0 /\ Len(events) = 0 BY <2>1
  <2>3. hook.epoch \in Nat /\ worker.epoch \in Nat BY WorkerFacts
  <2>4. Ahead(hook) = 2 * hook.epoch - 1 BY <2>1 DEF Ahead
  <2>5. Ahead(hook) - 0 \in {2 * worker.epoch - 1, 2 * worker.epoch}
    BY <2>2 DEF ViewerInv, CommandsOK
  <2>6. worker.epoch = hook.epoch BY <2>3, <2>4, <2>5
  <2>7. ~hook.awaiting BY <2>1, <2>2, <2>6 DEF ViewerInv, StartIsTold
  <2> QED BY <2>6, <2>7
<1> QED BY <1>1, <1>2, <1>3, <1>4, <1>5

-----------------------------------------------------------------------------
(* ViewerPolling, the polls of the store. Whatever moves the barrier leaves *)
(* no run of the generation that follows it but those that began after it.  *)

RunIsOf(g) == [generation : 1 .. g, aborted : BOOLEAN, read : Nat]
PollRecord(p) ==
  [active : BOOLEAN, visible : BOOLEAN, interval : BOOLEAN, timer : BOOLEAN, generation : Nat,
   polled : Nat, run : {p.run}]
PollBase(p, barrier) ==
  /\ p \in PollRecord(p) /\ p.generation >= 1
  /\ p.run # NoRun => p.run \in RunIsOf(p.generation)
  /\ p.run # NoRun /\ p.run.generation = p.generation => p.run.read = barrier
PollOK(p, barrier) ==
  /\ PollBase(p, barrier)
  /\ p.timer => Live(p) /\ p.run = NoRun
  /\ Live(p) /\ p.run = NoRun => p.polled = p.generation /\ p.timer = p.interval
StoreOK(s, as) ==
  /\ s \in [revision : Nat, depth : Nat, barrier : Nat, from : Nat] /\ s.from \in {0, s.barrier}
  /\ as \subseteq Nat /\ IsFiniteSet(as) /\ s.depth = Cardinality(as)
  /\ \A a \in as : a <= s.barrier
  /\ as # {} => s.from = 0
PollingInv ==
  /\ PollOK(poll, store.barrier) /\ StoreOK(store, actions)
  /\ actions # {} => ~poll.active

LEMMA PollingStarts == PollInit => PollingInv
<1>1. ASSUME PollInit PROVE PollingInv
  <2>1. PICK i \in BOOLEAN :
          poll = [active |-> TRUE, visible |-> TRUE, interval |-> i, timer |-> FALSE, generation |-> 1,
                  polled |-> 0, run |-> [NoRun EXCEPT !.generation = 1]]
    BY <1>1 DEF PollInit
  <2>2. poll.run = [generation |-> 1, aborted |-> FALSE, read |-> 0] BY <2>1 DEF NoRun
  <2>3. poll.run \in RunIsOf(1) /\ poll.run.read = 0 /\ poll.run # NoRun BY <2>2 DEF RunIsOf, NoRun
  <2>4. store.barrier = 0 /\ actions = {} /\ StoreOK(store, actions)
    BY <1>1, FS_EmptySet DEF PollInit, StoreOK
  <2>5. PollOK(poll, 0) BY <2>1, <2>3 DEF PollOK, PollBase, PollRecord, Live
  <2> QED BY <2>4, <2>5 DEF PollingInv
<1> QED BY <1>1

LEMMA SupersededIs ==
  ASSUME NEW p, NEW b \in Nat, PollBase(p, b)
  PROVE  /\ Superseded(p) \in PollRecord(Superseded(p))
         /\ Superseded(p).generation = p.generation + 1 /\ p.generation \in Nat
         /\ ~Superseded(p).timer /\ Superseded(p).active = p.active
         /\ Superseded(p).run # NoRun => Superseded(p).run \in RunIsOf(p.generation)
         /\ \A c \in Nat : PollBase(Superseded(p), c)
<1>1. p \in PollRecord(p) /\ p.generation \in Nat /\ p.generation >= 1
  BY DEF PollBase, PollRecord
<1>. DEFINE run == IF p.run = NoRun THEN p.run ELSE [p.run EXCEPT !.aborted = TRUE]
            n == p.generation + 1
<1>2. run # NoRun => run \in RunIsOf(p.generation) BY <1>1 DEF PollBase, RunIsOf
<1>3. n \in Nat /\ n > p.generation /\ n >= 1 BY <1>1
<1>4. Superseded(p) = [p EXCEPT !.generation = n, !.timer = FALSE, !.run = run]
  BY <1>1 DEF Superseded, PollRecord
<1>. HIDE DEF run, n
<1>5. /\ Superseded(p).generation = n /\ Superseded(p).run = run /\ ~Superseded(p).timer
      /\ Superseded(p).active = p.active /\ Superseded(p) \in PollRecord(Superseded(p))
  BY <1>1, <1>3, <1>4 DEF PollRecord
<1>6. run # NoRun => run.generation \in 1 .. p.generation /\ run \in RunIsOf(n)
  BY <1>1, <1>2, <1>3 DEF RunIsOf
<1>7. \A c \in Nat : PollBase(Superseded(p), c)
  BY <1>1, <1>3, <1>5, <1>6 DEF PollBase
<1> QED BY <1>1, <1>2, <1>5, <1>7 DEF n

LEMMA RunOfPoll ==
  ASSUME NEW p, PollBase(p, store.barrier), store.barrier \in Nat, ~p.timer
  PROVE  /\ PollOK(Run(p), store.barrier) /\ Run(p).active = p.active
         /\ Run(p).generation = p.generation
         /\ Run(p).run # p.run => Run(p).run.generation = p.generation
<1>1. p \in PollRecord(p) /\ p.generation \in Nat /\ p.generation >= 1
  BY DEF PollBase, PollRecord
<1>2. CASE Live(p) /\ p.run = NoRun
  <2>. DEFINE run == [generation |-> p.generation, aborted |-> FALSE, read |-> store.barrier]
  <2>1. run \in RunIsOf(p.generation) /\ run # NoRun /\ run.read = store.barrier
        /\ run.generation = p.generation
    BY <1>1 DEF RunIsOf, NoRun
  <2>2. Run(p) = [p EXCEPT !.run = run] BY <1>2 DEF Run
  <2>. HIDE DEF run
  <2>3. /\ Run(p) \in PollRecord(Run(p)) /\ Run(p).run = run /\ Run(p).generation = p.generation
        /\ ~Run(p).timer /\ Run(p).active = p.active
    BY <1>1, <2>2 DEF PollRecord
  <2> QED BY <1>1, <2>1, <2>3 DEF PollOK, PollBase
<1>3. CASE ~(Live(p) /\ p.run = NoRun)
  BY <1>3 DEF Run, PollOK
<1> QED BY <1>2, <1>3

LEMMA RestartedIs ==
  ASSUME NEW p, PollBase(p, store.barrier), store.barrier \in Nat
  PROVE  /\ PollOK(Restarted(p), store.barrier)
         /\ Restarted(p).generation = p.generation + 1 /\ p.generation \in Nat
         /\ Restarted(p).run # NoRun /\ Restarted(p).run.generation # p.generation + 1
              => Restarted(p).run \in RunIsOf(p.generation)
<1>. DEFINE q == [p EXCEPT !.active = TRUE]
            s == Superseded(q)
<1>1. PollBase(q, store.barrier) /\ q.generation = p.generation BY DEF PollBase, PollRecord
<1>. HIDE DEF q
<1>2. /\ PollBase(s, store.barrier) /\ ~s.timer /\ s.generation = p.generation + 1
      /\ (s.run # NoRun => s.run \in RunIsOf(p.generation)) /\ p.generation \in Nat
  BY <1>1, SupersededIs
<1>. HIDE DEF s
<1>3. Restarted(p) = Run(s) BY DEF Restarted, s, q
<1> QED BY <1>2, <1>3, RunOfPoll

LEMMA RenderedIs ==
  ASSUME PollingInv, NEW s, s.barrier \in Nat
  PROVE  PollOK(Rendered(s), s.barrier) /\ (s.depth > 0 => ~Rendered(s).active)
<1>1. store.barrier \in Nat /\ PollBase(poll, store.barrier) /\ poll \in PollRecord(poll)
  BY DEF PollingInv, StoreOK, PollOK, PollBase
<1>2. CASE s.depth > 0
  <2>1. CASE ~poll.active /\ poll.run = NoRun /\ ~poll.timer
    BY <1>1, <1>2, <2>1 DEF Rendered, PollStopped, PollOK, PollBase, Live
  <2>2. CASE ~(~poll.active /\ poll.run = NoRun /\ ~poll.timer)
    <3>. DEFINE q == [poll EXCEPT !.active = FALSE]
    <3>1. PollBase(q, store.barrier) /\ ~q.active BY <1>1 DEF PollBase, PollRecord
    <3>2. Rendered(s) = Superseded(q) BY <1>2, <2>2 DEF Rendered, PollStopped
    <3>. HIDE DEF q
    <3>3. PollBase(Rendered(s), s.barrier) /\ ~Rendered(s).timer /\ Rendered(s).active = q.active
      BY <1>1, <3>1, <3>2, SupersededIs
    <3> QED BY <3>1, <3>3 DEF PollOK, Live
  <2> QED BY <2>1, <2>2
<1>3. CASE ~(s.depth > 0)
  <2>. DEFINE q == Restarted(poll)
              run == IF q.run.generation = poll.generation + 1 THEN [q.run EXCEPT !.read = s.barrier]
                     ELSE q.run
  <2>1. /\ PollOK(q, store.barrier) /\ q.generation = poll.generation + 1 /\ poll.generation \in Nat
        /\ q.run # NoRun /\ q.run.generation # poll.generation + 1 => q.run \in RunIsOf(poll.generation)
    BY <1>1, RestartedIs
  <2>2. Rendered(s) = [q EXCEPT !.run = run]
    BY <1>3, <2>1 DEF Rendered, PollOK, PollBase, PollRecord
  <2>3. q.run # NoRun => q.run \in RunIsOf(q.generation) BY <2>1 DEF PollOK, PollBase
  <2>4. q.run = NoRun => run = NoRun
    <3>1. poll.generation + 1 # NoRun.generation BY <2>1 DEF NoRun
    <3> QED BY <3>1
  <2>5. q.run # NoRun => run \in RunIsOf(q.generation) /\ run # NoRun
                         /\ (run.generation = q.generation => run.read = s.barrier)
    BY <1>1, <2>1, <2>3 DEF RunIsOf, NoRun
  <2>6. q \in PollRecord(q) /\ q.generation >= 1 BY <2>1 DEF PollOK, PollBase
  <2>. HIDE DEF q, run
  <2>7. /\ Rendered(s) \in PollRecord(Rendered(s)) /\ Rendered(s).run = run
        /\ Rendered(s).generation = q.generation /\ Rendered(s).timer = q.timer
        /\ Rendered(s).polled = q.polled /\ Rendered(s).active = q.active
        /\ Rendered(s).visible = q.visible /\ Rendered(s).interval = q.interval
    BY <2>2, <2>6 DEF PollRecord
  <2> QED BY <1>3, <2>1, <2>4, <2>5, <2>6, <2>7 DEF PollOK, PollBase, Live
<1> QED BY <1>2, <1>3

LEMMA SettledPoll ==
  ASSUME PollingInv, poll.run # NoRun
  PROVE  PollOK(Settled(poll), store.barrier) /\ Settled(poll).active = poll.active
<1>1. /\ store.barrier \in Nat /\ poll \in PollRecord(poll) /\ poll.generation \in Nat
      /\ poll.generation >= 1 /\ poll.run \in RunIsOf(poll.generation) /\ ~poll.timer
  BY DEF PollingInv, StoreOK, PollOK, PollBase, PollRecord
<1>. DEFINE none == NoRun
            g == poll.run.generation
            idle == [poll EXCEPT !.run = none, !.polled = g]
<1>2. g \in Nat BY <1>1 DEF RunIsOf
<1>3. Settled(poll) = IF g # poll.generation THEN Run(idle)
                      ELSE [idle EXCEPT !.timer = Live(poll) /\ poll.interval]
  BY DEF Settled
<1>. HIDE DEF none, g
<1>4. /\ idle \in PollRecord(idle) /\ idle.run = none /\ idle.polled = g /\ ~idle.timer
      /\ idle.active = poll.active /\ idle.visible = poll.visible /\ idle.interval = poll.interval
      /\ idle.generation = poll.generation
  BY <1>1, <1>2 DEF PollRecord
<1>5. PollBase(idle, store.barrier) BY <1>1, <1>4 DEF PollBase, none
<1>. HIDE DEF idle
<1>6. CASE g # poll.generation BY <1>1, <1>3, <1>4, <1>5, <1>6, RunOfPoll
<1>7. CASE g = poll.generation
  <2>. DEFINE t == Live(poll) /\ poll.interval
  <2>1. t \in BOOLEAN BY <1>1 DEF PollRecord
  <2>2. Settled(poll) = [idle EXCEPT !.timer = t] BY <1>3, <1>7
  <2>3. t = TRUE \/ t = FALSE BY <2>1
  <2>4. Live(poll) => t = poll.interval BY <1>1 DEF PollRecord
  <2>5. t => Live(poll) OBVIOUS
  <2>. HIDE DEF t
  <2>6. LET q == Settled(poll)
        IN  /\ q \in PollRecord(q) /\ q.run = none /\ q.timer = t /\ q.polled = g
            /\ q.active = poll.active /\ q.visible = poll.visible /\ q.interval = poll.interval
            /\ q.generation = poll.generation
    BY <1>4, <2>2, <2>3 DEF PollRecord
  <2> QED BY <1>1, <1>7, <2>4, <2>5, <2>6 DEF PollOK, PollBase, Live, none
<1> QED BY <1>6, <1>7


LEMMA PollMoves ==
  ASSUME PollingInv, UNCHANGED <<store, actions>>, PollOK(poll', store.barrier),
         poll'.active = poll.active \/ poll.active
  PROVE  PollingInv'
BY DEF PollingInv

LEMMA PollsAlone ==
  ASSUME PollingInv, VisibilityChanges \/ IntervalChanges \/ Refresh \/ TimerFires
  PROVE  PollingInv'
<1>1. /\ store.barrier \in Nat /\ poll \in PollRecord(poll) /\ PollBase(poll, store.barrier)
      /\ PollOK(poll, store.barrier) /\ poll.generation \in Nat
  BY DEF PollingInv, StoreOK, PollOK, PollBase, PollRecord
<1>2. CASE VisibilityChanges
  <2>. DEFINE v == ~poll.visible
              p == [poll EXCEPT !.visible = v]
              s == Superseded(p)
  <2>1. v \in BOOLEAN OBVIOUS
  <2>2. poll' = Run(s) BY <1>2, <1>1 DEF VisibilityChanges, PollRecord
  <2>. HIDE DEF v
  <2>3. PollBase(p, store.barrier) /\ p.active = poll.active BY <1>1, <2>1 DEF PollBase, PollRecord
  <2>. HIDE DEF p
  <2>4. PollBase(s, store.barrier) /\ ~s.timer /\ s.active = poll.active
    BY <1>1, <2>3, SupersededIs
  <2>. HIDE DEF s
  <2>5. PollOK(poll', store.barrier) /\ poll'.active = poll.active BY <1>1, <2>2, <2>4, RunOfPoll
  <2> QED BY <1>2, <2>5, PollMoves DEF VisibilityChanges
<1>3. CASE IntervalChanges
  <2>. DEFINE i == ~poll.interval
              p == [poll EXCEPT !.interval = i]
              t == p.interval /\ Live(p) /\ p.run = NoRun
  <2>1. i \in BOOLEAN OBVIOUS
  <2>2. poll' = [p EXCEPT !.timer = t] BY <1>3, <1>1 DEF IntervalChanges, PollRecord
  <2>. HIDE DEF i
  <2>3. /\ p \in PollRecord(p) /\ p.active = poll.active /\ p.visible = poll.visible /\ p.interval = i
        /\ p.run = poll.run /\ p.generation = poll.generation /\ p.polled = poll.polled
    BY <1>1, <2>1 DEF PollRecord
  <2>4. t = TRUE \/ t = FALSE BY <2>3 DEF PollRecord
  <2>5. (t => Live(p) /\ p.run = NoRun) /\ (Live(p) /\ p.run = NoRun => t = i) BY <2>3, <2>1
  <2>. HIDE DEF p, t
  <2>6. /\ poll' \in PollRecord(poll') /\ poll'.active = poll.active /\ poll'.visible = poll.visible
        /\ poll'.interval = i /\ poll'.run = poll.run /\ poll'.generation = poll.generation
        /\ poll'.polled = poll.polled /\ poll'.timer = t
    BY <2>2, <2>3, <2>4 DEF PollRecord
  <2>7. PollOK(poll', store.barrier)
    BY <1>1, <2>3, <2>5, <2>6 DEF PollOK, PollBase, Live
  <2> QED BY <1>3, <2>6, <2>7, PollMoves DEF IntervalChanges
<1>4. CASE Refresh
  <2>1. PollOK(poll', store.barrier) BY <1>1, <1>4, RestartedIs DEF Refresh
  <2> QED BY <1>4, <2>1, PollMoves DEF Refresh
<1>5. CASE TimerFires
  <2>. DEFINE p == [poll EXCEPT !.timer = FALSE]
  <2>1. PollBase(p, store.barrier) /\ ~p.timer /\ p.active = poll.active
    BY <1>1 DEF PollBase, PollRecord
  <2>2. poll' = Run(p) BY <1>5 DEF TimerFires
  <2>. HIDE DEF p
  <2>3. PollOK(poll', store.barrier) /\ poll'.active = poll.active BY <1>1, <2>1, <2>2, RunOfPoll
  <2> QED BY <1>5, <2>3, PollMoves DEF TimerFires
<1> QED BY <1>2, <1>3, <1>4, <1>5

\* Health that was asked for in this generation was asked for after the barrier.
LEMMA HealthIsCurrent ==
  ASSUME PollingInv, PollSettles
  PROVE  PollingInv'
<1>1. /\ store.barrier \in Nat /\ store \in [revision : Nat, depth : Nat, barrier : Nat, from : Nat]
      /\ PollOK(poll, store.barrier) /\ PollBase(poll, store.barrier) /\ poll.run # NoRun
      /\ PollOK(Settled(poll), store.barrier) /\ Settled(poll).active = poll.active
      /\ UNCHANGED actions /\ StoreOK(store, actions)
  BY SettledPoll DEF PollingInv, StoreOK, PollOK, PollSettles
<1>2. CASE poll' = Settled(poll) /\ UNCHANGED store BY <1>1, <1>2 DEF PollingInv
<1>3. CASE /\ Live(poll) /\ poll.run.generation = poll.generation /\ ~poll.run.aborted
           /\ HealthApplied(Settled(poll), poll.run.read)
  <2>. DEFINE from == poll.run.read
  <2>1. from = store.barrier BY <1>1, <1>3 DEF PollBase
  <2>2. ASSUME store.depth = 0 PROVE actions = {}
    BY <1>1, <2>2, FS_EmptySet DEF StoreOK
  <2>3. CASE /\ MayPublish /\ store.depth = 0
             /\ store' = [store EXCEPT !.revision = @ + 1, !.from = from]
             /\ poll' = Restarted(Settled(poll))
    <3>. DEFINE revision == store.revision + 1
    <3>1. revision \in Nat BY <1>1
    <3>2. store' = [store EXCEPT !.revision = revision, !.from = store.barrier]
      BY <2>1, <2>3
    <3>. HIDE DEF revision
    <3>3. StoreOK(store', actions') /\ store'.barrier = store.barrier
      BY <1>1, <2>2, <2>3, <3>1, <3>2 DEF StoreOK
    <3>4. PollOK(poll', store.barrier) BY <1>1, <2>3, RestartedIs DEF PollOK
    <3> QED BY <1>1, <2>2, <2>3, <3>3, <3>4 DEF PollingInv
  <2>4. CASE /\ store' = IF store.depth = 0 THEN [store EXCEPT !.from = from] ELSE store
             /\ poll' = Settled(poll)
    <3>1. StoreOK(store', actions') /\ store'.barrier = store.barrier
      BY <1>1, <2>1, <2>2, <2>4 DEF StoreOK
    <3> QED BY <1>1, <2>4, <3>1 DEF PollingInv
  <2> QED BY <1>3, <2>3, <2>4 DEF HealthApplied
<1> QED BY <1>2, <1>3 DEF PollSettles

LEMMA PublishedIs ==
  ASSUME PollingInv, NEW s \in [revision : Nat, depth : Nat, barrier : Nat, from : Nat],
         Published(s), StoreOK(s, actions'), actions' # {} => s.depth > 0
  PROVE  PollingInv'
<1>. DEFINE revision == s.revision + 1
<1>1. revision \in Nat OBVIOUS
<1>2. store' = [s EXCEPT !.revision = revision] BY DEF Published
<1>. HIDE DEF revision
<1>3. StoreOK(store', actions') /\ store'.barrier = s.barrier BY <1>1, <1>2 DEF StoreOK
<1>4. PollOK(poll', s.barrier) /\ (s.depth > 0 => ~poll'.active) BY RenderedIs DEF Published
<1> QED BY <1>3, <1>4 DEF PollingInv

LEMMA ActionBeginsIs ==
  ASSUME PollingInv, ActionBegins
  PROVE  PollingInv'
<1>1. /\ store \in [revision : Nat, depth : Nat, barrier : Nat, from : Nat]
      /\ actions \subseteq Nat /\ IsFiniteSet(actions) /\ store.depth = Cardinality(actions)
      /\ \A a \in actions : a <= store.barrier
  BY DEF PollingInv, StoreOK
<1>. DEFINE depth == store.depth + 1
            barrier == store.barrier + 1
            s == [store EXCEPT !.depth = depth, !.barrier = barrier, !.from = 0]
<1>2. depth \in Nat /\ barrier \in Nat /\ depth > 0 /\ barrier > store.barrier BY <1>1
<1>3. Published(s) /\ actions' = actions \cup {barrier} BY DEF ActionBegins
<1>4. /\ IsFiniteSet(actions') /\ Cardinality(actions') = depth
      /\ \A a \in actions' : a \in Nat /\ a <= barrier
  <2>1. barrier \notin actions BY <1>1, <1>2
  <2>2. IsFiniteSet(actions') /\ Cardinality(actions') = depth BY <1>1, <1>3, <2>1, FS_AddElement
  <2>3. \A a \in actions' : a \in Nat /\ a <= barrier BY <1>1, <1>2, <1>3
  <2> QED BY <2>2, <2>3
<1>. HIDE DEF depth, barrier
<1>5. /\ s \in [revision : Nat, depth : Nat, barrier : Nat, from : Nat]
      /\ s.depth = depth /\ s.barrier = barrier /\ s.from = 0
  BY <1>1, <1>2
<1>. HIDE DEF s
<1>6. StoreOK(s, actions') BY <1>2, <1>4, <1>5 DEF StoreOK
<1> QED BY <1>2, <1>3, <1>5, <1>6, PublishedIs

LEMMA ActionEndsIs ==
  ASSUME PollingInv, NEW a, ActionEnds(a)
  PROVE  PollingInv'
<1>1. /\ store \in [revision : Nat, depth : Nat, barrier : Nat, from : Nat]
      /\ actions \subseteq Nat /\ IsFiniteSet(actions) /\ store.depth = Cardinality(actions)
      /\ (\A d \in actions : d <= store.barrier) /\ store.from = 0 /\ ~poll.active
      /\ a \in actions /\ actions' = actions \ {a} /\ PollOK(poll, store.barrier)
  BY DEF PollingInv, StoreOK, ActionEnds
<1>. DEFINE depth == store.depth - 1
            barrier == store.barrier + 1
            s == [store EXCEPT !.depth = depth]
<1>2. /\ IsFiniteSet(actions') /\ Cardinality(actions') = depth /\ depth \in Nat
      /\ actions' \subseteq Nat
  BY <1>1, FS_RemoveElement, FS_CardinalityType
<1>3. barrier \in Nat /\ \A d \in actions' : d <= barrier /\ d <= store.barrier BY <1>1
<1>4. /\ s \in [revision : Nat, depth : Nat, barrier : Nat, from : Nat]
      /\ s.depth = depth /\ s.barrier = store.barrier /\ s.from = 0
  BY <1>1, <1>2
<1>5. IF s.depth > 0 THEN store' = s /\ UNCHANGED poll
      ELSE \E answered \in BOOLEAN :
             Published([s EXCEPT !.barrier = @ + 1, !.from = IF answered THEN s.barrier + 1 ELSE 0])
  BY DEF ActionEnds
<1>. HIDE DEF depth, s
<1>6. CASE s.depth > 0
  <2>1. StoreOK(s, actions') BY <1>1, <1>2, <1>3, <1>4 DEF StoreOK
  <2> QED BY <1>1, <1>4, <1>5, <1>6, <2>1 DEF PollingInv
<1>7. CASE ~(s.depth > 0)
  <2>1. actions' = {} /\ depth = 0 BY <1>2, <1>4, <1>7, FS_EmptySet
  <2>2. PICK answered \in BOOLEAN :
          Published([s EXCEPT !.barrier = @ + 1, !.from = IF answered THEN s.barrier + 1 ELSE 0])
    BY <1>5, <1>7
  <2>. DEFINE from == IF answered THEN barrier ELSE 0
              t == [s EXCEPT !.barrier = barrier, !.from = from]
  <2>3. Published(t) BY <1>4, <2>2
  <2>4. from \in Nat /\ from \in {0, barrier} BY <1>3
  <2>. HIDE DEF from, barrier
  <2>5. /\ t \in [revision : Nat, depth : Nat, barrier : Nat, from : Nat]
        /\ t.depth = 0 /\ t.barrier = barrier /\ t.from = from
    BY <1>3, <1>4, <2>1, <2>4
  <2>. HIDE DEF t
  <2>6. StoreOK(t, actions') BY <1>2, <1>3, <2>1, <2>4, <2>5 DEF StoreOK
  <2> QED BY <2>1, <2>3, <2>5, <2>6, PublishedIs
<1> QED BY <1>6, <1>7

LEMMA PollingGoesOn == PollingInv /\ PollNext => PollingInv'
BY PollsAlone, HealthIsCurrent, ActionBeginsIs, ActionEndsIs DEF PollNext

LEMMA PollingStays == PollingInv /\ UNCHANGED pollVars => PollingInv'
<1>1. ASSUME PollingInv, UNCHANGED pollVars PROVE PollingInv'
  <2>1. UNCHANGED <<poll, store, actions>> BY <1>1 DEF pollVars
  <2> QED BY <1>1, <2>1 DEF PollingInv
<1> QED BY <1>1

LEMMA PollingPromises == PollingInv => EveryGenerationIsPolled /\ HealthIsOfThisSession
<1>1. ASSUME PollingInv PROVE EveryGenerationIsPolled
  BY <1>1 DEF PollingInv, PollOK, PollBase, PollRecord, EveryGenerationIsPolled
<1>2. ASSUME PollingInv PROVE HealthIsOfThisSession
  <2>1. actions # {} => store.depth > 0
    BY <1>2, FS_EmptySet, FS_CardinalityType DEF PollingInv, StoreOK
  <2> QED BY <1>2, <2>1 DEF PollingInv, StoreOK, HealthIsOfThisSession
<1> QED BY <1>1, <1>2

-----------------------------------------------------------------------------
(* ViewerPolling, the panel. A page that is still wanted is not older than  *)
(* what is shown: a mutation aborts the read before it, and its answer.     *)

FlightRecord == [generation : Nat, aborted : BOOLEAN, page : Nat]
FlightIs(f) == f \in FlightRecord /\ (f # NoFlight => f.generation >= 1)
PollerRecord ==
  [active : BOOLEAN, disposed : BOOLEAN, generation : Nat, flight : FlightRecord, after : BOOLEAN,
   timer : BOOLEAN]
PanelRecord == [mounted : BOOLEAN, generation : Nat, shown : Nat]
ServedRecord ==
  [version : Nat, sent : SUBSET Nat,
   answers : SUBSET [mutation : Nat, ok : BOOLEAN, version : Nat]]
PollerOK(p, page, version) ==
  /\ p \in PollerRecord /\ FlightIs(p.flight)
  /\ p.disposed => ~p.active
  /\ p.flight # NoFlight =>
       p.flight.page <= version /\ (p.flight.aborted \/ page <= p.flight.page)
Polling(p) == p.flight # NoFlight \/ p.timer
Awaited(g, s) == g \in s.sent \cup {a.mutation : a \in s.answers}
PanelInv ==
  /\ PollerOK(poller, panel.shown, served.version)
  /\ panel \in PanelRecord /\ panel.shown <= served.version
  /\ served \in ServedRecord /\ \A a \in served.answers : a.version <= served.version
  /\ poller.active => Polling(poller) \/ Awaited(panel.generation, served)

LEMMA PanelStarts == PanelInit => PanelInv
BY DEF PanelInit, PanelInv, PollerOK, PollerRecord, PanelRecord, ServedRecord, FlightIs, FlightRecord,
       NoFlight

LEMMA PollBeginsIs ==
  ASSUME NEW p, NEW page \in Nat, PollerOK(p, page, served.version), served.version \in Nat,
         page <= served.version
  PROVE  /\ PollerOK(PollBegins(p), page, served.version) /\ PollBegins(p).active = p.active
         /\ p.active => Polling(PollBegins(p))
<1>1. CASE p.disposed \/ ~p.active \/ p.flight # NoFlight
  BY <1>1 DEF PollBegins, PollerOK, Polling
<1>2. CASE ~(p.disposed \/ ~p.active \/ p.flight # NoFlight)
  <2>. DEFINE n == p.generation + 1
              f == [generation |-> n, aborted |-> FALSE, page |-> served.version]
  <2>1. n \in Nat /\ n >= 1 BY DEF PollerOK, PollerRecord
  <2>2. f \in FlightRecord /\ FlightIs(f) /\ f # NoFlight /\ f.page = served.version /\ ~f.aborted
    BY <2>1 DEF FlightRecord, FlightIs, NoFlight
  <2>3. PollBegins(p) = [p EXCEPT !.generation = n, !.after = FALSE, !.flight = f]
    BY <1>2 DEF PollBegins, PollerOK, PollerRecord
  <2>. HIDE DEF n, f
  <2>4. LET q == PollBegins(p)
        IN  q \in PollerRecord /\ q.flight = f /\ q.active = p.active /\ q.disposed = p.disposed
    BY <2>1, <2>2, <2>3 DEF PollerOK, PollerRecord
  <2> QED BY <1>2, <2>2, <2>4 DEF PollerOK, Polling
<1> QED BY <1>1, <1>2

LEMMA InvalidatedPollerIs ==
  ASSUME NEW p, NEW page \in Nat, NEW version \in Nat, PollerOK(p, page, version)
  PROVE  LET q == PollerInvalidated(p)
         IN  /\ q.active = p.active /\ q.disposed = p.disposed
             /\ \A s \in Nat : PollerOK(q, s, version)
<1>. DEFINE n == p.generation + 1
            f == IF p.flight = NoFlight THEN p.flight ELSE [p.flight EXCEPT !.aborted = TRUE]
<1>1. p \in PollerRecord /\ n \in Nat BY DEF PollerOK, PollerRecord
<1>2. f \in FlightRecord /\ FlightIs(f) BY <1>1 DEF PollerOK, PollerRecord, FlightIs, FlightRecord
<1>3. f # NoFlight => f.aborted /\ f.page <= version
  BY <1>1 DEF PollerOK, PollerRecord, FlightRecord
<1>4. PollerInvalidated(p) = [p EXCEPT !.generation = n, !.after = FALSE, !.timer = FALSE, !.flight = f]
  BY <1>1 DEF PollerInvalidated, PollerRecord
<1>. HIDE DEF n, f
<1>5. LET q == PollerInvalidated(p)
      IN  q \in PollerRecord /\ q.flight = f /\ q.active = p.active /\ q.disposed = p.disposed
  BY <1>1, <1>2, <1>4 DEF PollerRecord
<1> QED BY <1>2, <1>3, <1>5 DEF PollerOK

LEMMA PolledNowIs ==
  ASSUME NEW p, NEW page \in Nat, PollerOK(p, page, served.version), served.version \in Nat,
         page <= served.version
  PROVE  /\ PollerOK(PolledNow(p), page, served.version) /\ PolledNow(p).active = p.active
         /\ p.active => Polling(PolledNow(p))
<1>1. CASE ~p.active BY <1>1 DEF PolledNow
<1>2. CASE p.active /\ p.flight # NoFlight
  <2>1. PolledNow(p) = [p EXCEPT !.timer = FALSE, !.after = TRUE] BY <1>2 DEF PolledNow
  <2>2. LET q == PolledNow(p)
        IN  /\ q \in PollerRecord /\ q.flight = p.flight /\ q.active = p.active
            /\ q.disposed = p.disposed
    BY <2>1 DEF PollerOK, PollerRecord
  <2> QED BY <1>2, <2>2 DEF PollerOK, Polling
<1>3. CASE p.active /\ p.flight = NoFlight
  <2>. DEFINE r == [p EXCEPT !.timer = FALSE]
  <2>1. PolledNow(p) = PollBegins(r) BY <1>3 DEF PolledNow
  <2>2. r \in PollerRecord /\ r.flight = p.flight /\ r.active = p.active /\ r.disposed = p.disposed
    BY DEF PollerOK, PollerRecord
  <2>3. PollerOK(r, page, served.version) BY <2>2 DEF PollerOK
  <2>. HIDE DEF r
  <2> QED BY <2>1, <2>2, <2>3, PollBeginsIs
<1> QED BY <1>1, <1>2, <1>3


LEMMA PanelFacts ==
  ASSUME PanelInv
  PROVE  /\ PollerOK(poller, panel.shown, served.version) /\ poller \in PollerRecord
         /\ panel \in PanelRecord /\ panel.shown \in Nat /\ panel.generation \in Nat
         /\ served \in ServedRecord /\ served.version \in Nat /\ panel.shown <= served.version
BY DEF PanelInv, PollerOK, PanelRecord, ServedRecord

LEMMA PollerMoves ==
  ASSUME PanelInv, UNCHANGED <<panel, served>>, PollerOK(poller', panel.shown, served.version),
         poller'.active => Polling(poller') \/ (poller.active /\ ~Polling(poller))
  PROVE  PanelInv' /\ PageNeverGoesBack
<1>1. panel'.shown = panel.shown /\ panel.shown \in Nat BY PanelFacts
<1> QED BY <1>1 DEF PanelInv, PageNeverGoesBack

LEMMA PollerAlone ==
  ASSUME PanelInv, SetActive \/ PageRead \/ PollerFires
  PROVE  PanelInv' /\ PageNeverGoesBack
<1>1. CASE SetActive
  <2>1. CASE poller.active
    <3>. DEFINE p == [poller EXCEPT !.active = FALSE]
    <3>1. poller' = PollerInvalidated(p) BY <1>1, <2>1 DEF SetActive
    <3>2. PollerOK(p, panel.shown, served.version) /\ ~p.active
      BY PanelFacts DEF PollerOK, PollerRecord
    <3>. HIDE DEF p
    <3>3. PollerOK(poller', panel.shown, served.version) /\ ~poller'.active
      BY <3>1, <3>2, PanelFacts, InvalidatedPollerIs
    <3> QED BY <1>1, <3>3, PollerMoves DEF SetActive
  <2>2. CASE ~poller.active
    <3>. DEFINE p == [poller EXCEPT !.active = TRUE]
    <3>1. poller' = PolledNow(p) BY <1>1, <2>2 DEF SetActive
    <3>2. PollerOK(p, panel.shown, served.version) /\ p.active
      BY <1>1, PanelFacts DEF PollerOK, PollerRecord, SetActive
    <3>. HIDE DEF p
    <3>3. PollerOK(poller', panel.shown, served.version) /\ Polling(poller')
      BY <3>1, <3>2, PanelFacts, PolledNowIs
    <3> QED BY <1>1, <3>3, PollerMoves DEF SetActive
  <2> QED BY <2>1, <2>2
<1>2. CASE PageRead
  <2>. DEFINE v == served.version
              f == [poller.flight EXCEPT !.page = v]
  <2>1. poller.flight \in FlightRecord /\ FlightIs(poller.flight) /\ poller.flight # NoFlight /\ v \in Nat
    BY <1>2, PanelFacts DEF PageRead, PollerOK, PollerRecord
  <2>2. poller' = [poller EXCEPT !.flight = f] BY <1>2, PanelFacts DEF PageRead, PollerRecord
  <2>3. f \in FlightRecord /\ f.page = v /\ f.generation = poller.flight.generation
    BY <2>1 DEF FlightRecord
  <2>4. f.generation >= 1 BY <2>1, <2>3 DEF FlightIs
  <2>5. FlightIs(f) /\ f # NoFlight BY <2>3, <2>4 DEF FlightIs, NoFlight
  <2>. HIDE DEF f
  <2>6. /\ poller' \in PollerRecord /\ poller'.flight = f /\ poller'.active = poller.active
        /\ poller'.disposed = poller.disposed
    BY <2>2, <2>3, PanelFacts DEF PollerRecord
  <2>7. PollerOK(poller', panel.shown, served.version) /\ Polling(poller')
    BY <2>1, <2>3, <2>5, <2>6, PanelFacts DEF PollerOK, Polling
  <2> QED BY <1>2, <2>7, PollerMoves DEF PageRead
<1>3. CASE PollerFires
  <2>. DEFINE p == [poller EXCEPT !.timer = FALSE]
  <2>1. poller' = PollBegins(p) BY <1>3 DEF PollerFires
  <2>2. PollerOK(p, panel.shown, served.version) BY PanelFacts DEF PollerOK, PollerRecord
  <2>. HIDE DEF p
  <2>3. PollerOK(poller', panel.shown, served.version) /\ (poller'.active => Polling(poller'))
    BY <2>1, <2>2, PanelFacts, PollBeginsIs
  <2> QED BY <1>3, <2>3, PollerMoves DEF PollerFires
<1> QED BY <1>1, <1>2, <1>3

LEMMA PageIsShown ==
  ASSUME PanelInv, PageArrives
  PROVE  PanelInv' /\ PageNeverGoesBack
<1>. DEFINE f == poller.flight
            none == NoFlight
            p == [poller EXCEPT !.flight = none]
<1>1. /\ f # NoFlight /\ UNCHANGED served
      /\ poller' = IF p.disposed \/ ~p.active THEN p
                   ELSE IF p.after THEN PollBegins(p) ELSE [p EXCEPT !.timer = TRUE]
      /\ \E ok \in BOOLEAN :
           panel' = IF ok /\ p.active /\ ~f.aborted /\ f.generation = p.generation
                    THEN [panel EXCEPT !.shown = f.page] ELSE panel
  BY DEF PageArrives
<1>2. /\ f \in FlightRecord /\ f.page \in Nat /\ f.page <= served.version
      /\ (f.aborted \/ panel.shown <= f.page)
  BY <1>1, PanelFacts DEF PollerOK, PollerRecord, FlightRecord
<1>3. none \in FlightRecord /\ FlightIs(none) BY DEF FlightRecord, NoFlight, FlightIs
<1>4. /\ panel' \in PanelRecord /\ panel'.generation = panel.generation
      /\ panel'.shown \in Nat /\ panel.shown <= panel'.shown /\ panel'.shown <= served.version
  <2>1. CASE panel' = panel BY <2>1, PanelFacts
  <2>2. CASE panel' = [panel EXCEPT !.shown = f.page] /\ ~f.aborted
    BY <1>2, <2>2, PanelFacts DEF PanelRecord
  <2> QED BY <1>1, <2>1, <2>2
<1>. HIDE DEF f
<1>5. p \in PollerRecord /\ p.flight = none /\ p.active = poller.active /\ p.disposed = poller.disposed
  <2>. HIDE DEF none
  <2> QED BY <1>3, PanelFacts DEF PollerRecord
<1>6. PollerOK(p, panel'.shown, served.version) BY <1>3, <1>5, PanelFacts DEF PollerOK
<1>. HIDE DEF p, none
<1>7. PollerOK(poller', panel'.shown, served.version) /\ (poller'.active => Polling(poller'))
  <2>1. CASE p.disposed \/ ~p.active
    BY <1>1, <1>6, <2>1 DEF PollerOK
  <2>2. CASE ~(p.disposed \/ ~p.active) /\ p.after
    <3>1. poller' = PollBegins(p) BY <1>1, <2>2
    <3> QED BY <1>4, <1>6, <2>2, <3>1, PanelFacts, PollBeginsIs
  <2>3. CASE ~(p.disposed \/ ~p.active) /\ ~p.after
    <3>1. poller' = [p EXCEPT !.timer = TRUE] BY <1>1, <2>3
    <3>2. /\ poller' \in PollerRecord /\ poller'.flight = p.flight /\ poller'.timer
          /\ poller'.active = p.active /\ poller'.disposed = p.disposed
      BY <1>5, <3>1 DEF PollerRecord
    <3> QED BY <1>6, <3>2 DEF PollerOK, Polling
  <2> QED BY <2>1, <2>2, <2>3
<1>8. PageNeverGoesBack BY <1>4, PanelFacts DEF PageNeverGoesBack
<1> QED BY <1>1, <1>4, <1>7, <1>8 DEF PanelInv

LEMMA MutationsAre ==
  ASSUME PanelInv, Mutate \/ Unmounted \/ (\E m \in served.sent : MutationServed(m))
  PROVE  PanelInv' /\ PageNeverGoesBack
<1>1. CASE Mutate
  <2>. DEFINE n == panel.generation + 1
              sent == served.sent \cup {n}
  <2>1. n \in Nat /\ sent \subseteq Nat BY PanelFacts DEF ServedRecord
  <2>2. /\ panel' = [panel EXCEPT !.generation = n] /\ poller' = PollerInvalidated(poller)
        /\ served' = [served EXCEPT !.sent = sent]
    BY <1>1 DEF Mutate
  <2>3. n \in sent OBVIOUS
  <2>. HIDE DEF n, sent
  <2>4. panel' \in PanelRecord /\ panel'.generation = n /\ panel'.shown = panel.shown
    BY <2>1, <2>2, PanelFacts DEF PanelRecord
  <2>5. /\ served' \in ServedRecord /\ served'.sent = sent /\ served'.version = served.version
        /\ served'.answers = served.answers
    BY <2>1, <2>2, PanelFacts DEF ServedRecord
  <2>6. PollerOK(poller', panel.shown, served.version) BY <2>2, PanelFacts, InvalidatedPollerIs
  <2>7. Awaited(n, served') BY <2>3, <2>5 DEF Awaited
  <2> QED BY <2>4, <2>5, <2>6, <2>7, PanelFacts DEF PanelInv, PageNeverGoesBack
<1>2. CASE Unmounted
  <2>. DEFINE n == panel.generation + 1
              p == [poller EXCEPT !.disposed = TRUE, !.active = FALSE]
  <2>1. n \in Nat BY PanelFacts
  <2>2. /\ panel' = [panel EXCEPT !.mounted = FALSE, !.generation = n]
        /\ poller' = PollerInvalidated(p) /\ UNCHANGED served
    BY <1>2 DEF Unmounted
  <2>3. PollerOK(p, panel.shown, served.version) /\ ~p.active
    BY PanelFacts DEF PollerOK, PollerRecord
  <2>. HIDE DEF n, p
  <2>4. panel' \in PanelRecord /\ panel'.shown = panel.shown
    BY <2>1, <2>2, PanelFacts DEF PanelRecord
  <2>5. PollerOK(poller', panel.shown, served.version) /\ ~poller'.active
    BY <2>2, <2>3, PanelFacts, InvalidatedPollerIs
  <2> QED BY <2>2, <2>4, <2>5, PanelFacts DEF PanelInv, PageNeverGoesBack
<1>3. ASSUME NEW m \in served.sent, MutationServed(m) PROVE PanelInv' /\ PageNeverGoesBack
  <2>1. PICK ok \in BOOLEAN :
          LET v == IF ok THEN served.version + 1 ELSE served.version
          IN  served' = [version |-> v, sent |-> served.sent \ {m},
                         answers |-> served.answers \cup {[mutation |-> m, ok |-> ok, version |-> v]}]
    BY <1>3 DEF MutationServed
  <2>. DEFINE v == IF ok THEN served.version + 1 ELSE served.version
              a == [mutation |-> m, ok |-> ok, version |-> v]
  <2>2. v \in Nat /\ served.version <= v BY PanelFacts
  <2>3. m \in Nat /\ served.sent \subseteq Nat
        /\ served.answers \subseteq [mutation : Nat, ok : BOOLEAN, version : Nat]
    BY PanelFacts DEF ServedRecord
  <2>4. a \in [mutation : Nat, ok : BOOLEAN, version : Nat] /\ a.version = v /\ a.mutation = m
    BY <2>2, <2>3
  <2>5. /\ served'.version = v /\ served'.sent = served.sent \ {m}
        /\ served'.answers = served.answers \cup {a} /\ served' \in ServedRecord
    BY <2>1, <2>2, <2>3, <2>4 DEF ServedRecord
  <2>6. UNCHANGED <<panel, poller>> BY <1>3 DEF MutationServed
  <2>. HIDE DEF v, a
  <2>7. \A b \in served'.answers : b.version <= v
    <3>1. \A b \in served.answers : b.version \in Nat /\ b.version <= served.version
      BY <2>3 DEF PanelInv
    <3> QED BY <2>2, <2>4, <2>5, <3>1, PanelFacts
  <2>8. Awaited(panel.generation, served) => Awaited(panel.generation, served')
    BY <2>4, <2>5 DEF Awaited
  <2>9. PollerOK(poller, panel.shown, v)
    BY <2>2, PanelFacts DEF PollerOK, PollerRecord, FlightRecord
  <2>10. panel.shown <= v BY <2>2, PanelFacts
  <2>11. panel'.shown = panel.shown BY <2>6
  <2>12. PanelInv' BY <2>5, <2>6, <2>7, <2>8, <2>9, <2>10 DEF PanelInv
  <2> QED BY <2>11, <2>12, PanelFacts DEF PageNeverGoesBack
<1> QED BY <1>1, <1>2, <1>3

LEMMA AnswerIsShown ==
  ASSUME PanelInv, NEW a \in served.answers, Mutated(a)
  PROVE  PanelInv' /\ PageNeverGoesBack
<1>. DEFINE answers == served.answers \ {a}
<1>1. /\ served.answers \subseteq [mutation : Nat, ok : BOOLEAN, version : Nat]
      /\ a.version \in Nat /\ a.version <= served.version
  BY PanelFacts DEF ServedRecord, PanelInv
<1>2. served' = [served EXCEPT !.answers = answers] BY DEF Mutated
<1>3. answers # served.answers /\ answers \in SUBSET [mutation : Nat, ok : BOOLEAN, version : Nat]
  BY <1>1
<1>. HIDE DEF answers
<1>4. /\ served' \in ServedRecord /\ served'.version = served.version /\ served'.sent = served.sent
      /\ served'.answers = answers
  BY <1>2, <1>3, PanelFacts DEF ServedRecord
<1>5. PageNeverGoesBack BY <1>3, <1>4 DEF PageNeverGoesBack
<1>6. \A b \in served'.answers : b.version <= served'.version BY <1>4 DEF PanelInv, answers
<1>7. CASE a.mutation # panel.generation
  <2>1. UNCHANGED <<panel, poller>> BY <1>7 DEF Mutated
  <2>2. Awaited(panel.generation, served) => Awaited(panel.generation, served')
    BY <1>4, <1>7 DEF Awaited, answers
  <2>3. PanelInv' BY <1>4, <1>6, <2>1, <2>2 DEF PanelInv
  <2> QED BY <1>5, <2>3
<1>8. CASE a.mutation = panel.generation
  <2>. DEFINE p == PollerInvalidated(poller)
  <2>1. panel' = (IF a.ok THEN [panel EXCEPT !.shown = a.version] ELSE panel) /\ poller' = PolledNow(p)
    BY <1>8 DEF Mutated
  <2>2. panel' \in PanelRecord /\ panel'.shown \in Nat /\ panel'.shown <= served.version
    BY <1>1, <2>1, PanelFacts DEF PanelRecord
  <2>3. PollerOK(p, panel'.shown, served.version) BY <2>2, PanelFacts, InvalidatedPollerIs
  <2>. HIDE DEF p
  <2>4. PollerOK(poller', panel'.shown, served.version) /\ (poller'.active => Polling(poller'))
    BY <2>1, <2>2, <2>3, PanelFacts, PolledNowIs
  <2>5. PanelInv' BY <1>4, <1>6, <2>2, <2>4 DEF PanelInv
  <2> QED BY <1>5, <2>5
<1> QED BY <1>7, <1>8

LEMMA PanelGoesOn == PanelInv /\ PanelNext => PanelInv' /\ PageNeverGoesBack
BY PollerAlone, PageIsShown, MutationsAre, AnswerIsShown DEF PanelNext

LEMMA PanelStays == PanelInv /\ UNCHANGED panelVars => PanelInv' /\ PageNeverGoesBack
<1>1. ASSUME PanelInv, UNCHANGED panelVars PROVE PanelInv' /\ PageNeverGoesBack
  <2>1. UNCHANGED <<panel, poller, served>> BY <1>1 DEF panelVars
  <2>2. PanelInv' BY <1>1, <2>1 DEF PanelInv
  <2>3. PageNeverGoesBack BY <1>1, <2>1, PanelFacts DEF PageNeverGoesBack
  <2> QED BY <2>2, <2>3
<1> QED BY <1>1

LEMMA PanelPromises == PanelInv => PanelIsRefreshed
BY DEF PanelInv, PanelIsRefreshed, Polling, Awaited

-----------------------------------------------------------------------------
(* ViewerMse.                                                               *)

LinkRecord ==
  [transport : {"websocket", "webrtc", "none"}, state : {"connecting", "open", "waiting", "closed"},
   links : Nat, effects : Nat]

MseInv == link \in LinkRecord /\ PlayerHasItsLink

LEMMA MseStarts == MseInit => MseInv
BY DEF MseInit, MseInv, LinkRecord, PlayerHasItsLink, NoPlayer

\* While there is a player nothing but the end of its link changes the link.
LEMMA MseGoesOn == MseInv /\ MseNext => MseInv'
<1>1. ASSUME MseInv, MseNext PROVE MseInv'
  <2>1. link \in LinkRecord /\ (player.alive => link.transport = "websocket" /\ link.state = "open")
    BY <1>1 DEF MseInv, PlayerHasItsLink
  <2>2. CASE SourceOpens \/ UpdateEnds \/ Paints
    BY <2>1, <2>2 DEF SourceOpens, UpdateEnds, Paints, Player, MseInv, PlayerHasItsLink
  <2>3. CASE Opens BY <2>1, <2>3 DEF Opens, MseInv, PlayerHasItsLink, LinkRecord
  <2>4. CASE MessageArrives
    <3>1. link.state = "open" /\ UNCHANGED link /\ (link.transport # "websocket" => UNCHANGED player)
      BY <2>4 DEF MessageArrives
    <3> QED BY <2>1, <3>1 DEF MseInv, PlayerHasItsLink
  <2>5. CASE LinkCloses
    BY <2>1, <2>5 DEF LinkCloses, MseInv, PlayerHasItsLink, LinkRecord, NoPlayer
  <2>6. CASE MseRetryFires
    <3>. DEFINE k == link.links + 1
    <3>1. link.state = "waiting" /\ link' = [link EXCEPT !.state = "connecting", !.links = k]
          /\ UNCHANGED player
      BY <2>6 DEF MseRetryFires
    <3>2. k \in Nat BY <2>1 DEF LinkRecord
    <3>. HIDE DEF k
    <3> QED BY <2>1, <3>1, <3>2 DEF MseInv, PlayerHasItsLink, LinkRecord
  <2>7. CASE MseEffectRuns
    <3>1. PICK transport \in {"websocket", "webrtc", "none"} :
            link' = [transport |-> transport,
                     state |-> IF transport = "none" THEN "closed" ELSE "connecting",
                     links |-> link.links, effects |-> link.effects + 1]
      BY <2>7 DEF MseEffectRuns
    <3>2. ~player'.alive BY <2>7 DEF MseEffectRuns, NoPlayer
    <3>3. link.links \in Nat /\ link.effects + 1 \in Nat BY <2>1 DEF LinkRecord
    <3> QED BY <3>1, <3>2, <3>3 DEF MseInv, PlayerHasItsLink, LinkRecord
  <2>8. CASE ServerSends \/ CaptureReplaced
    BY <2>1, <2>8 DEF ServerSends, CaptureReplaced, MseInv, PlayerHasItsLink
  <2> QED BY <1>1, <2>2, <2>3, <2>4, <2>5, <2>6, <2>7, <2>8 DEF MseNext
<1> QED BY <1>1

LEMMA MseStays == MseInv /\ UNCHANGED mseVars => MseInv'
BY DEF MseInv, mseVars, PlayerHasItsLink

\* What the player is fed. The packets on the wire are those of one capture up
\* to the message that announces the next, and the last is of the capture the
\* server has; behind each such message a key frame is on its way, or the
\* server waits for one.
PlayerRecord ==
  [alive : BOOLEAN, capture : Nat, fed : SUBSET Nat, ready : BOOLEAN, open : BOOLEAN,
   buffer : BOOLEAN, updating : BOOLEAN, queue : Nat, stuck : BOOLEAN, decoded : BOOLEAN,
   painted : BOOLEAN]
MessageRecord == [kind : {"key", "delta", "session"}, capture : Nat]
MseServerRecord == [capture : Nat, awaitsKey : BOOLEAN, sent : Nat]

FedOK(p) ==
  /\ p \in PlayerRecord
  /\ p.fed \subseteq {p.capture}
  /\ p.queue > 0 => p.ready
  /\ ~p.alive => ~p.ready
ChunksMove(p) == p.alive /\ p.open /\ p.buffer /\ p.queue > 0 => p.updating \/ p.stuck

Joined(w, current) ==
  /\ w \in Seq(MessageRecord)
  /\ \A i \in 1 .. Len(w) : i > 1 => w[i].kind = "session" \/ w[i].capture = w[i - 1].capture
  /\ Len(w) > 0 => w[Len(w)].capture = current
GoesOnWith(w, current, p) ==
  p.alive => IF Len(w) = 0 THEN p.capture = current
             ELSE w[1].kind = "session" \/ w[1].capture = p.capture
KeyBehind(w, n) == \E j \in 1 .. Len(w) : j > n /\ w[j].kind = "key"
KeysFollow(w, awaits) ==
  \A i \in 1 .. Len(w) : w[i].kind = "session" => awaits \/ KeyBehind(w, i)

FeedOK ==
  /\ link.state # "open" => wire = <<>>
  /\ server \in MseServerRecord
  /\ FedOK(player) /\ ChunksMove(player)
  /\ Joined(wire, server.capture) /\ GoesOnWith(wire, server.capture, player)
  /\ KeysFollow(wire, server.awaitsKey)
  /\ link.state = "open" /\ link.transport = "websocket" /\ ~player.ready
     => server.awaitsKey \/ KeyBehind(wire, 0)
FeedInv == MseInv /\ FeedOK

LEMMA FeedStarts == MseInit => FeedInv
<1>1. ASSUME MseInit PROVE FeedOK
  <2>1. wire = <<>> /\ Len(wire) = 0 /\ wire \in Seq(MessageRecord) BY <1>1 DEF MseInit
  <2>2. player = NoPlayer /\ server \in MseServerRecord /\ link.state # "open"
    BY <1>1 DEF MseInit, MseServerRecord
  <2>3. FedOK(player) /\ ChunksMove(player) /\ ~player.alive
    BY <2>2 DEF FedOK, ChunksMove, PlayerRecord, NoPlayer
  <2> QED BY <2>1, <2>2, <2>3 DEF FeedOK, Joined, GoesOnWith, KeysFollow
<1> QED BY <1>1, MseStarts DEF FeedInv

\* What the player does with its buffer.
Alike(q, p) == q.alive = p.alive /\ q.capture = p.capture /\ q.ready = p.ready

LEMMA PumpedIs ==
  ASSUME NEW p, FedOK(p), NEW q \in Pumped(p)
  PROVE  FedOK(q) /\ ChunksMove(q) /\ Alike(q, p)
<1>1. p \in PlayerRecord BY DEF FedOK
<1>2. CASE ~p.buffer \/ p.updating \/ ~p.open \/ p.queue = 0
  <2>1. q = p BY <1>2 DEF Pumped
  <2> QED BY <1>1, <1>2, <2>1 DEF ChunksMove, Alike, PlayerRecord
<1>3. CASE ~(~p.buffer \/ p.updating \/ ~p.open \/ p.queue = 0)
  <2>. DEFINE n == p.queue - 1
              a == [p EXCEPT !.updating = TRUE, !.stuck = FALSE]
              b == [p EXCEPT !.updating = TRUE, !.queue = n, !.decoded = TRUE, !.stuck = FALSE]
              c == [p EXCEPT !.queue = n, !.stuck = TRUE]
              d == [p EXCEPT !.stuck = TRUE]
  <2>1. q = a \/ q = b \/ q = c \/ q = d BY <1>3 DEF Pumped
  <2>2. n \in Nat /\ (n > 0 => p.queue > 0) BY <1>1, <1>3 DEF PlayerRecord
  <2>. HIDE DEF n
  <2>3. FedOK(a) /\ ChunksMove(a) /\ Alike(a, p)
    BY <1>1 DEF FedOK, ChunksMove, Alike, PlayerRecord
  <2>4. FedOK(b) /\ ChunksMove(b) /\ Alike(b, p)
    BY <1>1, <2>2 DEF FedOK, ChunksMove, Alike, PlayerRecord
  <2>5. FedOK(c) /\ ChunksMove(c) /\ Alike(c, p)
    BY <1>1, <2>2 DEF FedOK, ChunksMove, Alike, PlayerRecord
  <2>6. FedOK(d) /\ ChunksMove(d) /\ Alike(d, p)
    BY <1>1 DEF FedOK, ChunksMove, Alike, PlayerRecord
  <2>. HIDE DEF a, b, c, d
  <2> QED BY <2>1, <2>3, <2>4, <2>5, <2>6
<1> QED BY <1>2, <1>3

LEMMA BufferedIs ==
  ASSUME NEW p, FedOK(p), NEW q \in WithBuffer(p)
  PROVE  FedOK(q) /\ Alike(q, p)
<1>. DEFINE b == [p EXCEPT !.buffer = TRUE]
<1>1. q = p \/ q = b BY DEF WithBuffer
<1>2. FedOK(b) /\ Alike(b, p) BY DEF FedOK, Alike, PlayerRecord
<1>. HIDE DEF b
<1> QED BY <1>1, <1>2 DEF Alike

LEMMA BufferedThenPumped ==
  ASSUME NEW p, FedOK(p), NEW q \in UNION {Pumped(r) : r \in WithBuffer(p)}
  PROVE  FedOK(q) /\ ChunksMove(q) /\ Alike(q, p)
<1>1. PICK r \in WithBuffer(p) : q \in Pumped(r) OBVIOUS
<1>2. FedOK(r) /\ Alike(r, p) BY BufferedIs
<1> QED BY <1>1, <1>2, PumpedIs DEF Alike

LEMMA FedIs ==
  ASSUME NEW p, FedOK(p), ChunksMove(p), p.alive, NEW m, m.capture = p.capture, NEW q \in Fed(p, m)
  PROVE  /\ FedOK(q) /\ ChunksMove(q) /\ q.alive /\ q.capture = p.capture
         /\ p.ready \/ m.kind = "key" => q.ready
<1>. DEFINE f == p.fed \cup {m.capture}
            n == p.queue + 1
            k == p.queue + 2
            a == [p EXCEPT !.fed = f, !.ready = TRUE, !.queue = k]
            b == [p EXCEPT !.fed = f, !.queue = n]
<1>1. p \in PlayerRecord /\ f \subseteq {p.capture} /\ f \in SUBSET Nat /\ n \in Nat /\ k \in Nat
  BY DEF FedOK, PlayerRecord
<1>2. \/ ~p.ready /\ m.kind # "key" /\ q = p
      \/ q \in UNION {Pumped(r) : r \in WithBuffer(a)}
      \/ p.ready /\ q \in Pumped(b)
  <2>. DEFINE fed == [p EXCEPT !.fed = f]
              x == [fed EXCEPT !.ready = TRUE, !.queue = @ + 2]
              y == [fed EXCEPT !.queue = @ + 1]
  <2>1. x = a /\ y = b BY <1>1 DEF PlayerRecord
  <2>2. \/ ~p.ready /\ m.kind # "key" /\ q = p
        \/ q \in UNION {Pumped(r) : r \in WithBuffer(x)}
        \/ p.ready /\ q \in Pumped(y)
    BY DEF Fed
  <2>. HIDE DEF x, y, a, b
  <2> QED BY <2>1, <2>2
<1>. HIDE DEF f, n, k
<1>3. FedOK(a) /\ a.alive /\ a.capture = p.capture /\ a.ready
  BY <1>1 DEF FedOK, PlayerRecord
<1>4. p.ready => FedOK(b) /\ b.alive /\ b.capture = p.capture /\ b.ready
  BY <1>1 DEF FedOK, PlayerRecord
<1>. HIDE DEF a, b
<1> QED BY <1>2, <1>3, <1>4, PumpedIs, BufferedThenPumped DEF Alike

\* The wire without its first message, and with one more.
LEMMA WireTail ==
  ASSUME NEW w \in Seq(MessageRecord), w # <<>>
  PROVE  /\ Tail(w) \in Seq(MessageRecord) /\ Len(w) \in Nat /\ Len(w) > 0
         /\ Head(w) = w[1] /\ w[1] \in MessageRecord
         /\ Len(Tail(w)) = Len(w) - 1 /\ \A i \in 1 .. Len(Tail(w)) : Tail(w)[i] = w[i + 1]
BY HeadTailProperties, EmptySeq, LenProperties, ElementOfSeq

LEMMA WireGrows ==
  ASSUME NEW w \in Seq(MessageRecord), NEW m \in MessageRecord
  PROVE  /\ Append(w, m) \in Seq(MessageRecord) /\ Len(w) \in Nat
         /\ Len(Append(w, m)) = Len(w) + 1 /\ Append(w, m)[Len(w) + 1] = m
         /\ \A i \in 1 .. Len(w) : Append(w, m)[i] = w[i]
BY AppendProperties, LenProperties

LEMMA JoinedTail ==
  ASSUME NEW w, NEW current, Joined(w, current), w # <<>>, NEW p, GoesOnWith(w, current, p), NEW q,
         q.alive => w[1].kind # "session" /\ q.capture = w[1].capture
  PROVE  Joined(Tail(w), current) /\ GoesOnWith(Tail(w), current, q)
<1>. DEFINE v == Tail(w)
            n == Len(v)
<1>1. /\ v \in Seq(MessageRecord) /\ Len(w) \in Nat /\ Len(w) > 0 /\ n \in Nat /\ Len(w) = n + 1
      /\ \A i \in 1 .. n : v[i] = w[i + 1]
  BY WireTail, LenProperties DEF Joined
<1>. HIDE DEF v
<1>2. ASSUME NEW i \in 1 .. n, i > 1 PROVE v[i].kind = "session" \/ v[i].capture = v[i - 1].capture
  <2>1. i + 1 \in 1 .. Len(w) /\ i + 1 > 1 /\ (i + 1) - 1 = i /\ i - 1 \in 1 .. n /\ (i - 1) + 1 = i
    BY <1>1, <1>2
  <2>2. w[i + 1].kind = "session" \/ w[i + 1].capture = w[(i + 1) - 1].capture
    BY <2>1 DEF Joined
  <2> QED BY <1>1, <2>1, <2>2
<1>3. n > 0 => v[n].capture = current
  BY <1>1 DEF Joined
<1>4. n > 0 => w[2].kind = "session" \/ w[2].capture = w[1].capture
  <2>1. n > 0 => 2 \in 1 .. Len(w) /\ 2 > 1 /\ 2 - 1 = 1 BY <1>1
  <2> QED BY <2>1 DEF Joined
<1>5. n > 0 => v[1] = w[2] BY <1>1
<1>6. n = 0 => w[1].capture = current BY <1>1 DEF Joined
<1>7. GoesOnWith(v, current, q) BY <1>1, <1>4, <1>5, <1>6 DEF GoesOnWith
<1>8. Joined(v, current) BY <1>1, <1>2, <1>3 DEF Joined
<1> QED BY <1>7, <1>8 DEF v

LEMMA JoinedGrows ==
  ASSUME NEW w, NEW current, Joined(w, current), NEW p, GoesOnWith(w, current, p),
         NEW m \in MessageRecord, NEW next, m.capture = next, m.kind = "session" \/ next = current
  PROVE  Joined(Append(w, m), next) /\ GoesOnWith(Append(w, m), next, p)
<1>. DEFINE v == Append(w, m)
            n == Len(w)
<1>1. /\ v \in Seq(MessageRecord) /\ n \in Nat /\ Len(v) = n + 1 /\ v[n + 1] = m
      /\ \A i \in 1 .. n : v[i] = w[i]
  BY WireGrows DEF Joined
<1>. HIDE DEF v, n
<1>2. ASSUME NEW i \in 1 .. n + 1, i > 1
      PROVE  v[i].kind = "session" \/ v[i].capture = v[i - 1].capture
  <2>1. i - 1 \in 1 .. n BY <1>1, <1>2
  <2>2. CASE i = n + 1
    <3>1. v[i - 1] = w[n] /\ n > 0 BY <1>1, <2>1, <2>2
    <3>2. w[n].capture = current BY <1>1, <3>1 DEF Joined, n
    <3> QED BY <1>1, <2>2, <3>1, <3>2
  <2>3. CASE i # n + 1
    <3>1. i \in 1 .. n BY <1>1, <2>3
    <3>2. w[i].kind = "session" \/ w[i].capture = w[i - 1].capture
      BY <1>2, <3>1 DEF Joined, n
    <3> QED BY <1>1, <2>1, <3>1, <3>2
  <2> QED BY <2>2, <2>3
<1>3. v[Len(v)].capture = next BY <1>1
<1>4. GoesOnWith(v, next, p)
  <2>1. CASE n = 0 BY <1>1, <2>1 DEF GoesOnWith, n
  <2>2. CASE n # 0
    <3>1. v[1] = w[1] /\ Len(v) # 0 BY <1>1, <2>2
    <3> QED BY <2>2, <3>1 DEF GoesOnWith, n
  <2> QED BY <2>1, <2>2
<1>5. Joined(v, next) BY <1>1, <1>2, <1>3 DEF Joined
<1> QED BY <1>4, <1>5 DEF v

LEMMA KeysTail ==
  ASSUME NEW w \in Seq(MessageRecord), w # <<>>, NEW awaits, KeysFollow(w, awaits)
  PROVE  /\ KeysFollow(Tail(w), awaits)
         /\ KeyBehind(w, 1) => KeyBehind(Tail(w), 0)
         /\ KeyBehind(w, 0) /\ w[1].kind # "key" => KeyBehind(Tail(w), 0)
<1>. DEFINE v == Tail(w)
            n == Len(v)
<1>1. /\ v \in Seq(MessageRecord) /\ Len(w) \in Nat /\ n \in Nat /\ Len(w) = n + 1
      /\ \A i \in 1 .. n : v[i] = w[i + 1]
  BY WireTail, LenProperties
<1>. HIDE DEF v
<1>2. ASSUME NEW i \in 0 .. n, KeyBehind(w, i + 1) PROVE KeyBehind(v, i)
  <2>1. PICK j \in 1 .. Len(w) : j > i + 1 /\ w[j].kind = "key" BY <1>2 DEF KeyBehind
  <2>2. j - 1 \in 1 .. n /\ j - 1 > i /\ (j - 1) + 1 = j BY <1>1, <2>1
  <2>3. v[j - 1].kind = "key" BY <1>1, <2>1, <2>2
  <2> QED BY <2>2, <2>3 DEF KeyBehind
<1>3. ASSUME NEW i \in 1 .. n, v[i].kind = "session" PROVE awaits \/ KeyBehind(v, i)
  <2>1. i + 1 \in 1 .. Len(w) /\ i \in 0 .. n BY <1>1
  <2>2. awaits \/ KeyBehind(w, i + 1) BY <1>1, <1>3, <2>1 DEF KeysFollow
  <2> QED BY <1>2, <2>1, <2>2
<1>4. 0 \in 0 .. n BY <1>1
<1>5. KeyBehind(w, 0) /\ w[1].kind # "key" => KeyBehind(w, 1)
  <2>1. ASSUME NEW j \in 1 .. Len(w), w[j].kind = "key", w[1].kind # "key" PROVE j > 1
    BY <1>1, <2>1
  <2> QED BY <2>1 DEF KeyBehind
<1>6. KeyBehind(w, 1) => KeyBehind(v, 0) BY <1>2, <1>4
<1> QED BY <1>3, <1>5, <1>6 DEF KeysFollow, v

LEMMA KeysGrow ==
  ASSUME NEW w \in Seq(MessageRecord), NEW m \in MessageRecord, NEW awaits, KeysFollow(w, awaits),
         NEW next, m.kind = "session" => next, awaits => next \/ m.kind = "key"
  PROVE  /\ KeysFollow(Append(w, m), next)
         /\ awaits \/ KeyBehind(w, 0) => next \/ KeyBehind(Append(w, m), 0)
<1>. DEFINE v == Append(w, m)
            n == Len(w)
<1>1. /\ v \in Seq(MessageRecord) /\ n \in Nat /\ Len(v) = n + 1 /\ v[n + 1] = m
      /\ \A i \in 1 .. n : v[i] = w[i]
  BY WireGrows
<1>. HIDE DEF v
<1>2. ASSUME NEW i \in 0 .. n, KeyBehind(w, i) PROVE KeyBehind(v, i)
  <2>1. PICK j \in 1 .. n : j > i /\ w[j].kind = "key" BY <1>2 DEF KeyBehind
  <2>2. j \in 1 .. Len(v) /\ v[j] = w[j] BY <1>1, <2>1
  <2> QED BY <2>1, <2>2 DEF KeyBehind
<1>3. ASSUME NEW i \in 0 .. n, m.kind = "key" PROVE KeyBehind(v, i)
  <2>1. n + 1 \in 1 .. Len(v) /\ n + 1 > i BY <1>1
  <2> QED BY <1>1, <1>3, <2>1 DEF KeyBehind
<1>4. ASSUME NEW i \in 1 .. n + 1, v[i].kind = "session" PROVE next \/ KeyBehind(v, i)
  <2>1. CASE i = n + 1 BY <1>1, <1>4, <2>1
  <2>2. CASE i # n + 1
    <3>1. i \in 1 .. n /\ i \in 0 .. n BY <1>1, <2>2
    <3>2. awaits \/ KeyBehind(w, i) BY <1>1, <1>4, <3>1 DEF KeysFollow
    <3> QED BY <1>2, <1>3, <3>1, <3>2
  <2> QED BY <2>1, <2>2
<1>5. 0 \in 0 .. n BY <1>1
<1> QED BY <1>1, <1>2, <1>3, <1>4, <1>5 DEF KeysFollow, v

LEMMA NoWire ==
  ASSUME NEW current, NEW p, ~p.alive, NEW awaits
  PROVE  Joined(<<>>, current) /\ GoesOnWith(<<>>, current, p) /\ KeysFollow(<<>>, awaits)
BY DEF Joined, GoesOnWith, KeysFollow

LEMMA NobodyPlays == FedOK(NoPlayer) /\ ChunksMove(NoPlayer) /\ ~NoPlayer.alive /\ ~NoPlayer.ready
BY DEF FedOK, ChunksMove, NoPlayer, PlayerRecord

\* The player goes on with what it has.
LEMMA PlayerGoes ==
  ASSUME FeedOK, UNCHANGED <<link, wire, server>>, FedOK(player'), ChunksMove(player'),
         Alike(player', player)
  PROVE  FeedOK'
BY DEF FeedOK, Alike, GoesOnWith

LEMMA PlayerRuns ==
  ASSUME FeedOK, SourceOpens \/ UpdateEnds \/ Paints
  PROVE  FeedOK'
<1>. DEFINE a == [player EXCEPT !.open = TRUE]
            b == [player EXCEPT !.updating = FALSE]
            d == [player EXCEPT !.painted = TRUE]
<1>1. FedOK(player) /\ ChunksMove(player) BY DEF FeedOK
<1>2. /\ FedOK(a) /\ Alike(a, player) /\ FedOK(b) /\ Alike(b, player) /\ FedOK(d) /\ Alike(d, player)
      /\ ChunksMove(d)
  BY <1>1 DEF FedOK, Alike, PlayerRecord, ChunksMove
<1>3. /\ UNCHANGED <<link, wire, server>>
      /\ \/ player' \in UNION {Pumped(q) : q \in WithBuffer(a)}
         \/ player' \in Pumped(b)
         \/ player' = d
  BY DEF SourceOpens, UpdateEnds, Paints, Player
<1>. HIDE DEF a, b, d
<1>4. FedOK(player') /\ ChunksMove(player') /\ Alike(player', player)
  BY <1>2, <1>3, PumpedIs, BufferedThenPumped DEF Alike
<1> QED BY <1>3, <1>4, PlayerGoes

\* There is no link any more, or a new one.
LEMMA LinkGoes ==
  ASSUME FeedOK, player' = NoPlayer, wire' = <<>>, UNCHANGED server, link'.state # "open"
  PROVE  FeedOK'
BY NobodyPlays, NoWire DEF FeedOK

LEMMA OpensKeeps == ASSUME FeedInv, Opens PROVE FeedOK'
<1>1. FeedOK /\ link \in LinkRecord /\ ~player.alive
  BY DEF FeedInv, MseInv, PlayerHasItsLink, Opens
<1>2. wire = <<>> /\ wire' = wire /\ player' = player /\ link' = [link EXCEPT !.state = "open"]
      /\ server' = [server EXCEPT !.awaitsKey = TRUE]
  BY <1>1 DEF FeedOK, Opens
<1>3. server' \in MseServerRecord /\ server'.awaitsKey
  BY <1>1, <1>2 DEF FeedOK, MseServerRecord
<1>4. link'.state = "open" BY <1>1, <1>2 DEF LinkRecord
<1> QED BY <1>1, <1>2, <1>3, <1>4, NoWire DEF FeedOK

LEMMA MessageKeeps == ASSUME FeedInv, MessageArrives PROVE FeedOK'
<1>. DEFINE m == Head(wire)
            fresh == [NoPlayer EXCEPT !.alive = TRUE, !.capture = m.capture]
            p == IF player.alive THEN player ELSE fresh
<1>1. /\ FeedOK /\ link.state = "open" /\ wire # <<>> /\ wire' = Tail(wire)
      /\ UNCHANGED <<link, server>>
      /\ \/ link.transport # "websocket" /\ player' = player
         \/ link.transport = "websocket" /\ m.kind = "session" /\ player' = NoPlayer
         \/ link.transport = "websocket" /\ m.kind # "session" /\ player' \in Fed(p, m)
  BY DEF MessageArrives, FeedInv
<1>2. /\ Joined(wire, server.capture) /\ GoesOnWith(wire, server.capture, player)
      /\ KeysFollow(wire, server.awaitsKey) /\ FedOK(player) /\ ChunksMove(player)
      /\ wire \in Seq(MessageRecord)
  BY <1>1 DEF FeedOK, Joined
<1>3. m = wire[1] /\ m \in MessageRecord /\ Len(wire) > 0 /\ Len(wire) \in Nat /\ 1 \in 1 .. Len(wire)
  BY <1>1, <1>2, WireTail
<1>. HIDE DEF m
<1>4. FedOK(fresh) /\ ChunksMove(fresh) /\ fresh.alive /\ fresh.capture = m.capture
  <2>1. PICK none : none = NoPlayer OBVIOUS
  <2>2. none \in PlayerRecord /\ none.fed = {} /\ none.queue = 0 /\ ~none.ready
    BY <2>1 DEF NoPlayer, PlayerRecord
  <2>3. fresh = [none EXCEPT !.alive = TRUE, !.capture = m.capture] BY <2>1
  <2>4. m.capture \in Nat BY <1>3 DEF MessageRecord
  <2>. HIDE DEF fresh
  <2>5. /\ fresh \in PlayerRecord /\ fresh.alive /\ fresh.capture = m.capture /\ fresh.fed = {}
        /\ fresh.queue = 0
    BY <2>2, <2>3, <2>4 DEF PlayerRecord
  <2> QED BY <2>5 DEF FedOK, ChunksMove
<1>. HIDE DEF fresh
<1>5. m.kind # "session" => FedOK(p) /\ ChunksMove(p) /\ p.alive /\ m.capture = p.capture
  BY <1>2, <1>3, <1>4 DEF GoesOnWith
<1>6. link.transport = "websocket" /\ ~player.ready => server.awaitsKey \/ KeyBehind(wire, 0)
  BY <1>1 DEF FeedOK
<1>7. p.ready <=> player.ready
  <2>1. PICK none : none = NoPlayer OBVIOUS
  <2>2. none \in PlayerRecord /\ ~none.ready BY <2>1 DEF NoPlayer, PlayerRecord
  <2>3. fresh = [none EXCEPT !.alive = TRUE, !.capture = m.capture] BY <2>1 DEF fresh
  <2>4. ~fresh.ready BY <2>2, <2>3 DEF PlayerRecord
  <2> QED BY <1>2, <2>4 DEF FedOK
<1>. HIDE DEF p
<1>8. CASE link.transport # "websocket" /\ player' = player
  <2>1. ~player.alive BY <1>8 DEF FeedInv, MseInv, PlayerHasItsLink
  <2> QED BY <1>1, <1>2, <1>8, <2>1, JoinedTail, KeysTail DEF FeedOK
<1>9. CASE m.kind = "session" /\ player' = NoPlayer
  <2>1. Joined(wire', server.capture) /\ GoesOnWith(wire', server.capture, NoPlayer)
        /\ KeysFollow(wire', server.awaitsKey)
    BY <1>1, <1>2, JoinedTail, KeysTail, NobodyPlays
  <2>2. server.awaitsKey \/ KeyBehind(wire, 1) BY <1>2, <1>3, <1>9 DEF KeysFollow
  <2>3. server.awaitsKey \/ KeyBehind(wire', 0) BY <1>1, <1>2, <2>2, KeysTail
  <2> QED BY <1>1, <1>9, <2>1, <2>3, NobodyPlays DEF FeedOK
<1>10. CASE m.kind # "session" /\ link.transport = "websocket" /\ player' \in Fed(p, m)
  <2>1. /\ FedOK(player') /\ ChunksMove(player') /\ player'.capture = m.capture
        /\ p.ready \/ m.kind = "key" => player'.ready
    BY <1>5, <1>10, FedIs
  <2>2. Joined(wire', server.capture) /\ GoesOnWith(wire', server.capture, player')
        /\ KeysFollow(wire', server.awaitsKey)
    BY <1>1, <1>2, <1>3, <1>10, <2>1, JoinedTail, KeysTail
  <2>3. ~player'.ready => server.awaitsKey \/ KeyBehind(wire', 0)
    BY <1>1, <1>2, <1>3, <1>6, <1>7, <1>10, <2>1, KeysTail
  <2> QED BY <1>1, <1>2, <2>1, <2>2, <2>3 DEF FeedOK
<1> QED BY <1>1, <1>8, <1>9, <1>10

LEMMA SendingKeeps == ASSUME FeedInv, ServerSends PROVE FeedOK'
<1>1. /\ FeedOK /\ server \in MseServerRecord /\ Joined(wire, server.capture)
      /\ GoesOnWith(wire, server.capture, player) /\ KeysFollow(wire, server.awaitsKey)
      /\ wire \in Seq(MessageRecord) /\ link.state = "open" /\ UNCHANGED <<link, player>>
      /\ FedOK(player) /\ ChunksMove(player)
      /\ link.transport = "websocket" /\ ~player.ready => server.awaitsKey \/ KeyBehind(wire, 0)
  BY DEF FeedInv, FeedOK, Joined, ServerSends
<1>2. PICK kind \in {"key", "delta"} :
        /\ kind = "delta" => ~server.awaitsKey
        /\ wire' = Append(wire, [kind |-> kind, capture |-> server.capture])
  BY DEF ServerSends
<1>. DEFINE m == [kind |-> kind, capture |-> server.capture]
            n == server.sent + 1
<1>3. m \in MessageRecord /\ m.kind = kind /\ m.capture = server.capture /\ n \in Nat
  BY <1>1 DEF MessageRecord, MseServerRecord
<1>4. wire' = Append(wire, m) /\ server' = [server EXCEPT !.sent = n, !.awaitsKey = FALSE]
  BY <1>2 DEF ServerSends
<1>. HIDE DEF m, n
<1>5. server' \in MseServerRecord /\ server'.capture = server.capture /\ server'.awaitsKey = FALSE
  BY <1>1, <1>3, <1>4 DEF MseServerRecord
<1>6. Joined(wire', server'.capture) /\ GoesOnWith(wire', server'.capture, player)
  BY <1>1, <1>3, <1>4, <1>5, JoinedGrows
<1>7. server.awaitsKey => m.kind = "key" BY <1>2, <1>3
<1>8. m.kind # "session" BY <1>3
<1>9. /\ KeysFollow(wire', server'.awaitsKey)
      /\ server.awaitsKey \/ KeyBehind(wire, 0) => server'.awaitsKey \/ KeyBehind(wire', 0)
  <2>. DEFINE was == server.awaitsKey
              is == server'.awaitsKey
  <2>1. KeysFollow(wire, was) BY <1>1
  <2>2. (m.kind = "session" => is) /\ (was => is \/ m.kind = "key") BY <1>7, <1>8
  <2>. HIDE DEF was, is
  <2>3. KeysFollow(wire', is) /\ (was \/ KeyBehind(wire, 0) => is \/ KeyBehind(wire', 0))
    BY <1>1, <1>3, <1>4, <2>1, <2>2, KeysGrow
  <2> QED BY <2>3 DEF was, is
<1> QED BY <1>1, <1>5, <1>6, <1>9 DEF FeedOK

LEMMA ReplacingKeeps == ASSUME FeedInv, CaptureReplaced PROVE FeedOK'
<1>1. /\ FeedOK /\ server \in MseServerRecord /\ Joined(wire, server.capture)
      /\ GoesOnWith(wire, server.capture, player) /\ KeysFollow(wire, server.awaitsKey)
      /\ wire \in Seq(MessageRecord) /\ UNCHANGED <<link, player>> /\ FedOK(player) /\ ChunksMove(player)
      /\ link.state # "open" => wire = <<>> /\ ~player.alive
  BY DEF FeedInv, MseInv, PlayerHasItsLink, FeedOK, Joined, CaptureReplaced
<1>. DEFINE next == server.capture + 1
            n == server.sent + 1
            m == [kind |-> "session", capture |-> next]
<1>2. m \in MessageRecord /\ m.kind = "session" /\ m.capture = next /\ next \in Nat /\ n \in Nat
  BY <1>1 DEF MessageRecord, MseServerRecord
<1>3. /\ server' = [server EXCEPT !.capture = next, !.sent = n, !.awaitsKey = TRUE]
      /\ wire' = IF link.state = "open" THEN Append(wire, m) ELSE wire
  BY DEF CaptureReplaced
<1>. HIDE DEF m, n, next
<1>4. server' \in MseServerRecord /\ server'.capture = next /\ server'.awaitsKey = TRUE
  BY <1>1, <1>2, <1>3 DEF MseServerRecord
<1>5. CASE link.state = "open"
  <2>1. Joined(wire', next) /\ GoesOnWith(wire', next, player)
    BY <1>1, <1>2, <1>3, <1>5, JoinedGrows
  <2>2. KeysFollow(wire', TRUE) BY <1>1, <1>2, <1>3, <1>5, KeysGrow
  <2> QED BY <1>1, <1>4, <1>5, <2>1, <2>2 DEF FeedOK
<1>6. CASE link.state # "open"
  <2>1. wire' = <<>> /\ ~player.alive BY <1>1, <1>3, <1>6
  <2>2. Joined(wire', server'.capture) /\ GoesOnWith(wire', server'.capture, player)
        /\ KeysFollow(wire', server'.awaitsKey)
    BY <2>1, NoWire
  <2> QED BY <1>1, <1>4, <1>6, <2>1, <2>2 DEF FeedOK
<1> QED BY <1>5, <1>6

LEMMA FeedGoesOn == FeedInv /\ MseNext => FeedInv'
<1>1. ASSUME FeedInv, MseNext PROVE FeedOK'
  <2>1. FeedOK /\ link \in LinkRecord BY <1>1 DEF FeedInv, MseInv
  <2>2. CASE LinkCloses
    <3>1. link'.state # "open" BY <2>1, <2>2 DEF LinkCloses, LinkRecord
    <3> QED BY <2>1, <2>2, <3>1, LinkGoes DEF LinkCloses
  <2>3. CASE MseEffectRuns
    <3>1. link'.state # "open" BY <2>3 DEF MseEffectRuns
    <3> QED BY <2>1, <2>3, <3>1, LinkGoes DEF MseEffectRuns
  <2>4. CASE MseRetryFires
    <3>. DEFINE n == link.links + 1
    <3>1. link' = [link EXCEPT !.state = "connecting", !.links = n] /\ UNCHANGED <<wire, player, server>>
          /\ link.state # "open"
      BY <2>4 DEF MseRetryFires
    <3>. HIDE DEF n
    <3>2. link'.state # "open" BY <2>1, <3>1 DEF LinkRecord
    <3> QED BY <2>1, <3>1, <3>2 DEF FeedOK
  <2> QED
    BY <1>1, <2>1, <2>2, <2>3, <2>4, PlayerRuns, OpensKeeps, MessageKeeps, SendingKeeps, ReplacingKeeps
    DEF MseNext
<1> QED BY <1>1, MseGoesOn DEF FeedInv

LEMMA FeedStays == FeedInv /\ UNCHANGED mseVars => FeedInv'
<1>1. FeedInv /\ UNCHANGED mseVars => FeedOK' BY DEF FeedInv, FeedOK, mseVars
<1> QED BY <1>1, MseStays DEF FeedInv

LEMMA FeedPromises ==
  FeedInv => PlayerHasItsLink /\ PlayerIsOfOneCapture /\ ChunksAreOnTheirWay /\ KeyFrameIsComing
<1>1. ASSUME FeedInv PROVE KeyFrameIsComing
  <2>1. ASSUME KeyBehind(wire, 0) PROVE \E i \in DOMAIN wire : wire[i].kind = "key"
    <3>1. wire \in Seq(MessageRecord) BY <1>1 DEF FeedInv, FeedOK, Joined
    <3>2. DOMAIN wire = 1 .. Len(wire) BY <3>1
    <3> QED BY <2>1, <3>2 DEF KeyBehind
  <2> QED BY <1>1, <2>1 DEF FeedInv, FeedOK, KeyFrameIsComing
<1>2. FeedInv => PlayerHasItsLink /\ PlayerIsOfOneCapture /\ ChunksAreOnTheirWay
  BY DEF FeedInv, MseInv, FeedOK, FedOK, ChunksMove, PlayerIsOfOneCapture, ChunksAreOnTheirWay
<1> QED BY <1>1, <1>2

-----------------------------------------------------------------------------
(* ViewerWebRtc: the sessions that are left. An offer on its way is the one *)
(* the effect waits for, or was aborted with it; for the effect that runs   *)
(* there is at most one of the offer, its pending peer and its answer. So   *)
(* nothing arrives late for a session the effect believes to be over.       *)

RunRecord ==
  [session : Nat, alive : BOOLEAN, failing : BOOLEAN, closed : BOOLEAN, hidden : BOOLEAN,
   offer : {"gathering", "posted", "busy", "over"},
   link : {"new", "connected", "disconnected", "closed"}, track : BOOLEAN, ready : BOOLEAN,
   decoded : BOOLEAN, firstFrame : BOOLEAN, grace : BOOLEAN, retry : BOOLEAN,
   permanent : BOOLEAN, live : BOOLEAN]
RunOK(r) ==
  /\ r \in RunRecord
  /\ r.failing \/ r.track \/ r.firstFrame \/ r.grace \/ ~r.alive => r.offer = "over"
  /\ r.alive => r.session # 0

Statuses == {"ok", "busy", "error"}
AnswerRecord == [session : Nat, status : Statuses]
PostsRecord ==
  [offers : SUBSET Nat, closes : SUBSET Nat, answers : SUBSET AnswerRecord, aborted : SUBSET Nat,
   hidden : SUBSET Nat]
SignalingRecord ==
  [publisher : BOOLEAN, pending : Nat, open : SUBSET Nat, cancelled : SUBSET Nat]

\* What concerns only the effect that runs: its session n, what its offer is
\* at, and what is on its way.
OneRound(n, offer, p, pending) ==
  /\ \A s \in p.offers \cup p.aborted : s <= n
  /\ \A a \in p.answers : a.session <= n
  /\ pending <= n
  /\ offer \in {"gathering", "busy"} =>
       n \notin p.offers /\ pending # n /\ \A a \in p.answers : a.session # n
  /\ offer = "posted" =>
       /\ \A a, b \in p.answers : a.session = n /\ b.session = n => a = b
       /\ n \in p.offers => pending # n /\ \A a \in p.answers : a.session # n
       /\ pending = n => \A a \in p.answers : a.session # n
OffersAreAwaited(n, offer, p) ==
  \A s \in p.offers : s \in p.aborted \/ (s = n /\ offer = "posted")
LeftIsClosed(n, live, p, g) ==
  \A s \in g.open \ p.hidden :
    \/ s = n /\ live
    \/ s \in p.closes
    \/ s = g.pending /\ s \in p.aborted

WebRtcOK(r, p, g) ==
  /\ OneRound(r.session, r.offer, p, g.pending)
  /\ OffersAreAwaited(r.session, r.offer, p)
  /\ LeftIsClosed(r.session, r.alive /\ ~r.failing, p, g)
  /\ r.session \in p.aborted => ~r.alive \/ r.failing
  /\ r.closed => r.failing \/ ~r.alive \/ r.session \in p.hidden
  /\ ~g.publisher => g.open = {}
  /\ 0 \notin p.aborted

WebRtcInv ==
  /\ RunOK(rtc) /\ posts \in PostsRecord /\ signaling \in SignalingRecord
  /\ WebRtcOK(rtc, posts, signaling)

LEMMA WebRtcStarts == ViewerWebRtcInit => WebRtcInv
<1>1. ASSUME ViewerWebRtcInit PROVE WebRtcInv
  <2>1. /\ RunOK(rtc) /\ rtc.session = 0 /\ ~rtc.alive /\ rtc.offer = "over" /\ ~rtc.closed
    BY <1>1 DEF ViewerWebRtcInit, NewRun, RunOK, RunRecord
  <2>2. /\ posts \in PostsRecord /\ posts.offers = {} /\ posts.answers = {} /\ posts.aborted = {}
    BY <1>1 DEF ViewerWebRtcInit, PostsRecord
  <2>3. /\ signaling \in SignalingRecord /\ signaling.pending = 0 /\ signaling.open = {}
    BY <1>1 DEF ViewerWebRtcInit, SignalingRecord
  <2>4. WebRtcOK(rtc, posts, signaling)
    BY <2>1, <2>2, <2>3 DEF WebRtcOK, OneRound, OffersAreAwaited, LeftIsClosed
  <2> QED BY <2>1, <2>2, <2>3, <2>4 DEF WebRtcInv
<1> QED BY <1>1

\* closePeer and closeRemoteSession, and what the effect's clean-up does.
LEMMA PeerClosedIs ==
  ASSUME NEW r \in RunRecord
  PROVE  LET c == PeerClosed(r)
         IN  /\ c \in RunRecord /\ c.session = r.session /\ c.alive = r.alive /\ c.failing
             /\ c.closed /\ c.offer = r.offer /\ c.track = r.track /\ ~c.firstFrame /\ ~c.grace
BY DEF PeerClosed, RunRecord

LEMMA RemoteClosedIs ==
  ASSUME NEW r \in RunRecord, NEW p \in PostsRecord
  PROVE  LET q == RemoteClosed(p, r)
         IN  /\ q \in PostsRecord /\ q.offers = p.offers /\ q.answers = p.answers
             /\ q.aborted = p.aborted /\ q.hidden = p.hidden /\ p.closes \subseteq q.closes
             /\ ~r.closed => r.session \in q.closes
<1>. DEFINE c == p.closes \cup {r.session}
            q == [p EXCEPT !.closes = c]
<1>1. r.session \in Nat BY DEF RunRecord
<1>2. c \in SUBSET Nat /\ p.closes \subseteq c /\ r.session \in c BY <1>1 DEF PostsRecord
<1>3. RemoteClosed(p, r) = IF r.closed THEN p ELSE q BY DEF RemoteClosed
<1>. HIDE DEF c
<1>4. /\ q \in PostsRecord /\ q.offers = p.offers /\ q.answers = p.answers
      /\ q.aborted = p.aborted /\ q.hidden = p.hidden /\ q.closes = c
  BY <1>2 DEF PostsRecord
<1>. HIDE DEF q
<1> QED BY <1>2, <1>3, <1>4

\* The effect gives up on its peer, or ends: its session is closed. An offer
\* it waits for is over only if it is aborted.
LEMMA EffectFails ==
  ASSUME WebRtcInv, RunOK(rtc'), posts' \in PostsRecord, UNCHANGED signaling,
         rtc'.session = rtc.session, ~rtc'.alive \/ rtc'.failing, rtc'.offer = "over",
         posts'.offers = posts.offers, posts'.answers \subseteq posts.answers,
         posts'.hidden = posts.hidden, posts.closes \subseteq posts'.closes,
         rtc.closed \/ rtc.session \in posts'.closes \/ ~rtc.alive,
         \/ posts'.aborted = posts.aborted /\ (rtc.session \in posts.offers => rtc.offer # "posted")
         \/ posts'.aborted = posts.aborted \cup {rtc.session} /\ rtc.session # 0
  PROVE  WebRtcInv'
<1>. DEFINE n == rtc.session
<1>1. /\ n \in Nat /\ rtc.alive \in BOOLEAN /\ rtc.failing \in BOOLEAN /\ rtc.closed \in BOOLEAN
      /\ posts.offers \subseteq Nat /\ posts.aborted \subseteq Nat
      /\ posts.aborted \subseteq posts'.aborted
      /\ posts'.aborted \subseteq posts.aborted \cup {n}
      /\ signaling \in SignalingRecord
  BY DEF WebRtcInv, RunOK, RunRecord, PostsRecord
<1>2. WebRtcOK(rtc, posts, signaling) BY DEF WebRtcInv
<1>3. OneRound(n, rtc'.offer, posts', signaling.pending)
  BY <1>1, <1>2 DEF WebRtcOK, OneRound
<1>4. OffersAreAwaited(n, rtc'.offer, posts')
  BY <1>1, <1>2 DEF WebRtcOK, OffersAreAwaited
<1>5. LeftIsClosed(n, FALSE, posts', signaling)
  BY <1>1, <1>2 DEF WebRtcOK, LeftIsClosed
<1>6. (~signaling.publisher => signaling.open = {}) /\ 0 \notin posts'.aborted
  BY <1>1, <1>2 DEF WebRtcOK
<1> QED BY <1>1, <1>3, <1>4, <1>5, <1>6 DEF WebRtcInv, WebRtcOK, LeftIsClosed

LEMMA LeftIs ==
  ASSUME rtc \in RunRecord, posts \in PostsRecord
  PROVE  LET q == Left(posts)
         IN  /\ q \in PostsRecord /\ q.offers = posts.offers /\ q.answers = posts.answers
             /\ q.hidden = posts.hidden /\ posts.closes \subseteq q.closes
             /\ q.aborted = IF rtc.alive /\ rtc.offer = "posted" THEN posts.aborted \cup {rtc.session}
                            ELSE posts.aborted
             /\ ~rtc.alive \/ rtc.closed \/ rtc.session \in q.closes
<1>. DEFINE n == rtc.session
<1>1. n \in Nat BY DEF RunRecord
<1>2. CASE ~rtc.alive BY <1>2 DEF Left
<1>3. CASE rtc.alive
  <2>. DEFINE q == RemoteClosed(posts, rtc)
              b == IF rtc.offer = "posted" THEN posts.aborted \cup {n} ELSE posts.aborted
              l == [q EXCEPT !.aborted = b]
  <2>1. /\ q \in PostsRecord /\ q.offers = posts.offers /\ q.answers = posts.answers
        /\ q.aborted = posts.aborted /\ q.hidden = posts.hidden /\ posts.closes \subseteq q.closes
        /\ (~rtc.closed => n \in q.closes)
    BY RemoteClosedIs
  <2>2. b \in SUBSET Nat BY <1>1 DEF PostsRecord
  <2>3. Left(posts) = l BY <1>3, <2>1 DEF Left
  <2>4. b = IF rtc.alive /\ rtc.offer = "posted" THEN posts.aborted \cup {rtc.session}
            ELSE posts.aborted
    BY <1>3
  <2>. HIDE DEF q, b
  <2>5. /\ l \in PostsRecord /\ l.offers = q.offers /\ l.answers = q.answers
        /\ l.hidden = q.hidden /\ l.closes = q.closes /\ l.aborted = b
    BY <2>1, <2>2 DEF PostsRecord
  <2>. HIDE DEF l
  <2> QED BY <2>1, <2>3, <2>4, <2>5
<1> QED BY <1>2, <1>3

\* Another run of the effect, with a session of its own.
LEMMA AnotherRun ==
  ASSUME WebRtcInv, UNCHANGED signaling, rtc' = NewRun(rtc.session + 1), posts' = Left(posts)
  PROVE  WebRtcInv'
<1>. DEFINE n == rtc.session
            m == n + 1
<1>1. /\ rtc \in RunRecord /\ RunOK(rtc) /\ posts \in PostsRecord /\ signaling \in SignalingRecord
      /\ n \in Nat /\ WebRtcOK(rtc, posts, signaling)
  BY DEF WebRtcInv, RunOK, RunRecord
<1>2. m \in Nat /\ m > n /\ m # 0 BY <1>1
<1>3. rtc' = NewRun(m) OBVIOUS
<1>. HIDE DEF m
<1>4. /\ RunOK(rtc') /\ rtc'.session = m /\ rtc'.alive /\ ~rtc'.failing /\ ~rtc'.closed
      /\ rtc'.offer = "gathering"
  BY <1>2, <1>3 DEF NewRun, RunOK, RunRecord
<1>5. /\ posts' \in PostsRecord /\ posts'.offers = posts.offers /\ posts'.answers = posts.answers
      /\ posts'.hidden = posts.hidden /\ posts.closes \subseteq posts'.closes
      /\ posts.aborted \subseteq posts'.aborted
      /\ posts'.aborted \subseteq posts.aborted \cup {n}
      /\ ~rtc.alive \/ rtc.closed \/ n \in posts'.closes
      /\ rtc.alive /\ rtc.offer = "posted" => n \in posts'.aborted
      /\ 0 \notin posts'.aborted
  <2>1. 0 \notin posts.aborted /\ (rtc.alive => rtc.session # 0) BY <1>1 DEF WebRtcOK, RunOK
  <2> QED BY <1>1, <2>1, LeftIs
<1>6. /\ posts.offers \subseteq Nat /\ posts.aborted \subseteq Nat /\ signaling.pending \in Nat
      /\ \A a \in posts.answers : a.session \in Nat
  BY <1>1 DEF PostsRecord, SignalingRecord, AnswerRecord
<1>. HIDE DEF n
<1>7. OneRound(m, "gathering", posts', signaling.pending)
  BY <1>1, <1>2, <1>5, <1>6 DEF WebRtcOK, OneRound, n
<1>8. OffersAreAwaited(m, "gathering", posts')
  <2>1. ~rtc.alive => rtc.offer = "over" BY <1>1 DEF RunOK
  <2> QED BY <1>1, <1>5, <2>1 DEF WebRtcOK, OffersAreAwaited, n
<1>9. LeftIsClosed(m, TRUE, posts', signaling)
  BY <1>1, <1>5 DEF WebRtcOK, LeftIsClosed, n
<1>10. m \notin posts'.aborted
  BY <1>1, <1>2, <1>5, <1>6 DEF WebRtcOK, OneRound, n
<1> QED BY <1>1, <1>4, <1>5, <1>7, <1>8, <1>9, <1>10 DEF WebRtcInv, WebRtcOK

\* The effect goes on: what it shows changes, not what it waits for.
LEMMA EffectGoesOn ==
  ASSUME WebRtcInv, rtc' \in RunRecord, UNCHANGED <<posts, signaling>>,
         rtc'.session = rtc.session, rtc'.alive = rtc.alive, rtc'.failing = rtc.failing,
         rtc'.closed = rtc.closed, rtc'.offer = rtc.offer, rtc.offer = "over"
  PROVE  WebRtcInv'
<1>1. RunOK(rtc) /\ WebRtcOK(rtc, posts, signaling) BY DEF WebRtcInv
<1>2. RunOK(rtc') BY <1>1 DEF RunOK
<1>3. WebRtcOK(rtc', posts', signaling') BY <1>1 DEF WebRtcOK
<1> QED BY <1>2, <1>3 DEF WebRtcInv

LEMMA RetryIs ==
  ASSUME WebRtcInv, RetryTransport, UNCHANGED signaling, rtc.offer = "over"
  PROVE  WebRtcInv'
<1>1. /\ rtc \in RunRecord /\ posts \in PostsRecord /\ RunOK(rtc)
  BY DEF WebRtcInv, RunOK
<1>2. CASE rtc.failing BY <1>2 DEF RetryTransport, WebRtcInv
<1>3. CASE ~rtc.failing
  <2>. DEFINE c == PeerClosed(rtc)
  <2>1. /\ c \in RunRecord /\ c.session = rtc.session /\ c.alive = rtc.alive /\ c.failing
        /\ c.closed /\ c.offer = rtc.offer
    BY <1>1, PeerClosedIs
  <2>2. rtc' = [c EXCEPT !.retry = TRUE] /\ posts' = RemoteClosed(posts, rtc)
    BY <1>3 DEF RetryTransport, Failing
  <2>. HIDE DEF c
  <2>3. /\ rtc' \in RunRecord /\ rtc'.session = rtc.session /\ rtc'.alive = rtc.alive /\ rtc'.failing
        /\ rtc'.offer = "over"
    BY <2>1, <2>2 DEF RunRecord
  <2>4. RunOK(rtc') BY <1>1, <2>3 DEF RunOK
  <2>5. /\ posts' \in PostsRecord /\ posts'.offers = posts.offers /\ posts'.answers = posts.answers
        /\ posts'.aborted = posts.aborted /\ posts'.hidden = posts.hidden
        /\ posts.closes \subseteq posts'.closes
        /\ rtc.closed \/ rtc.session \in posts'.closes
    BY <1>1, <2>2, RemoteClosedIs DEF RunRecord
  <2> QED BY <2>3, <2>4, <2>5, EffectFails
<1> QED BY <1>2, <1>3

\* The effect ends, or its offer fails or is not answered in time.
LEMMA EffectEnds ==
  ASSUME WebRtcInv, RtcCleanedUp \/ GatheringFails \/ OfferTimesOut
  PROVE  WebRtcInv'
<1>. DEFINE c == PeerClosed(rtc)
<1>1. /\ rtc \in RunRecord /\ posts \in PostsRecord /\ RunOK(rtc) /\ UNCHANGED signaling
      /\ rtc.session \in Nat /\ (rtc.alive => rtc.session # 0)
  BY DEF WebRtcInv, RunOK, RunRecord, RtcCleanedUp, GatheringFails, OfferTimesOut
<1>2. /\ c \in RunRecord /\ c.session = rtc.session /\ c.alive = rtc.alive /\ c.failing
      /\ c.closed /\ c.offer = rtc.offer
  BY <1>1, PeerClosedIs
<1>3. CASE RtcCleanedUp
  <2>1. rtc' = [c EXCEPT !.alive = FALSE, !.retry = FALSE, !.offer = "over"] /\ posts' = Left(posts)
        /\ rtc.alive
    BY <1>3 DEF RtcCleanedUp
  <2>. HIDE DEF c
  <2>2. rtc' \in RunRecord /\ rtc'.session = rtc.session /\ ~rtc'.alive /\ rtc'.offer = "over"
    BY <1>2, <2>1 DEF RunRecord
  <2>3. RunOK(rtc') BY <2>2 DEF RunOK
  <2>4. /\ posts' \in PostsRecord /\ posts'.offers = posts.offers /\ posts'.answers = posts.answers
        /\ posts'.hidden = posts.hidden /\ posts.closes \subseteq posts'.closes
        /\ posts'.aborted = IF rtc.offer = "posted" THEN posts.aborted \cup {rtc.session}
                            ELSE posts.aborted
        /\ rtc.closed \/ rtc.session \in posts'.closes
    BY <1>1, <2>1, LeftIs
  <2>5. \/ posts'.aborted = posts.aborted /\ (rtc.session \in posts.offers => rtc.offer # "posted")
        \/ posts'.aborted = posts.aborted \cup {rtc.session} /\ rtc.session # 0
    BY <1>1, <2>1, <2>4
  <2>6. posts'.answers \subseteq posts.answers BY <2>4
  <2> QED BY <1>1, <2>2, <2>3, <2>4, <2>5, <2>6, EffectFails
<1>4. CASE GatheringFails \/ OfferTimesOut
  <2>. DEFINE q == RemoteClosed(posts, rtc)
              b == posts.aborted \cup {rtc.session}
  <2>1. rtc' = [c EXCEPT !.retry = TRUE, !.offer = "over"]
        /\ ((posts' = q /\ rtc.offer # "posted") \/ posts' = [q EXCEPT !.aborted = b])
    <3>1. CASE GatheringFails BY <3>1 DEF GatheringFails, Failing
    <3>2. CASE OfferTimesOut
      <4>1. q.aborted = posts.aborted BY <1>1, RemoteClosedIs
      <4> QED BY <3>2, <4>1 DEF OfferTimesOut
    <3> QED BY <1>4, <3>1, <3>2
  <2>. HIDE DEF c
  <2>2. /\ rtc' \in RunRecord /\ rtc'.session = rtc.session /\ rtc'.failing
        /\ rtc'.alive = rtc.alive /\ rtc'.offer = "over"
    BY <1>2, <2>1 DEF RunRecord
  <2>3. RunOK(rtc') BY <1>1, <2>2 DEF RunOK
  <2>4. /\ q \in PostsRecord /\ q.offers = posts.offers /\ q.answers = posts.answers
        /\ q.aborted = posts.aborted /\ q.hidden = posts.hidden /\ posts.closes \subseteq q.closes
        /\ (~rtc.closed => rtc.session \in q.closes)
    BY <1>1, RemoteClosedIs
  <2>5. b \in SUBSET Nat BY <1>1 DEF PostsRecord
  <2>6. b = posts.aborted \cup {rtc.session} OBVIOUS
  <2>. HIDE DEF q, b
  <2>7. /\ posts' \in PostsRecord /\ posts'.offers = q.offers /\ posts'.answers = q.answers
        /\ posts'.hidden = q.hidden /\ posts'.closes = q.closes
        /\ (posts'.aborted = q.aborted /\ rtc.offer # "posted") \/ posts'.aborted = b
    BY <2>1, <2>4, <2>5 DEF PostsRecord
  <2>8. rtc.closed \in BOOLEAN BY <1>1 DEF RunRecord
  <2>9. rtc.closed \/ rtc.session \in posts'.closes BY <2>4, <2>7, <2>8
  <2>10. \/ posts'.aborted = posts.aborted /\ (rtc.session \in posts.offers => rtc.offer # "posted")
         \/ posts'.aborted = posts.aborted \cup {rtc.session} /\ rtc.session # 0
    <3>1. rtc.session # 0 BY <1>1, <1>4 DEF GatheringFails, OfferTimesOut
    <3> QED BY <2>4, <2>6, <2>7, <3>1
  <2>11. /\ posts'.answers \subseteq posts.answers /\ posts'.offers = posts.offers
         /\ posts'.hidden = posts.hidden /\ posts.closes \subseteq posts'.closes
    BY <2>4, <2>7
  <2> QED BY <1>1, <2>2, <2>3, <2>7, <2>9, <2>10, <2>11, EffectFails
<1> QED BY <1>3, <1>4

LEMMA PageHidesIs == WebRtcInv /\ PageHides => WebRtcInv'
<1>1. ASSUME WebRtcInv, PageHides PROVE WebRtcInv'
  <2>. DEFINE n == rtc.session
              q == RemoteClosed(posts, rtc)
              h == q.hidden \cup {n}
  <2>1. /\ rtc \in RunRecord /\ posts \in PostsRecord /\ RunOK(rtc) /\ n \in Nat
        /\ WebRtcOK(rtc, posts, signaling) /\ UNCHANGED signaling
    BY <1>1 DEF WebRtcInv, RunOK, RunRecord, PageHides
  <2>2. /\ rtc' = [rtc EXCEPT !.closed = TRUE, !.hidden = TRUE]
        /\ posts' = [q EXCEPT !.hidden = h]
    BY <1>1 DEF PageHides
  <2>3. /\ q \in PostsRecord /\ q.offers = posts.offers /\ q.answers = posts.answers
        /\ q.aborted = posts.aborted /\ q.hidden = posts.hidden /\ posts.closes \subseteq q.closes
    BY <2>1, RemoteClosedIs
  <2>4. h \in SUBSET Nat /\ posts.hidden \subseteq h /\ n \in h BY <2>1, <2>3 DEF PostsRecord
  <2>5. /\ RunOK(rtc') /\ rtc'.session = n /\ rtc'.alive = rtc.alive /\ rtc'.failing = rtc.failing
        /\ rtc'.offer = rtc.offer
    BY <2>1, <2>2 DEF RunOK, RunRecord
  <2>. HIDE DEF q, h
  <2>6. /\ posts' \in PostsRecord /\ posts'.offers = q.offers /\ posts'.answers = q.answers
        /\ posts'.hidden = h /\ posts'.closes = q.closes /\ posts'.aborted = q.aborted
    BY <2>2, <2>3, <2>4 DEF PostsRecord
  <2>7. WebRtcOK(rtc', posts', signaling)
    BY <2>1, <2>3, <2>4, <2>5, <2>6 DEF WebRtcOK, OneRound, OffersAreAwaited, LeftIsClosed
  <2> QED BY <1>1, <2>1, <2>5, <2>6, <2>7 DEF WebRtcInv
<1> QED BY <1>1

LEMMA OfferPostedIs == WebRtcInv /\ OfferPosted => WebRtcInv'
<1>1. ASSUME WebRtcInv, OfferPosted PROVE WebRtcInv'
  <2>. DEFINE n == rtc.session
              o == posts.offers \cup {n}
  <2>1. /\ rtc \in RunRecord /\ posts \in PostsRecord /\ RunOK(rtc) /\ n \in Nat
        /\ WebRtcOK(rtc, posts, signaling) /\ UNCHANGED signaling
        /\ rtc.offer \in {"gathering", "busy"} /\ rtc.alive /\ signaling \in SignalingRecord
    BY <1>1 DEF WebRtcInv, RunOK, RunRecord, OfferPosted
  <2>2. rtc' = [rtc EXCEPT !.offer = "posted"] /\ posts' = [posts EXCEPT !.offers = o]
    BY <1>1 DEF OfferPosted
  <2>3. o \in SUBSET Nat /\ o = posts.offers \cup {n} BY <2>1 DEF PostsRecord
  <2>4. /\ RunOK(rtc') /\ rtc'.session = n /\ rtc'.alive = rtc.alive /\ rtc'.failing = rtc.failing
        /\ rtc'.offer = "posted" /\ rtc'.closed = rtc.closed
    BY <2>1, <2>2 DEF RunOK, RunRecord
  <2>. HIDE DEF o
  <2>5. /\ posts' \in PostsRecord /\ posts'.offers = o /\ posts'.answers = posts.answers
        /\ posts'.hidden = posts.hidden /\ posts'.closes = posts.closes
        /\ posts'.aborted = posts.aborted
    BY <2>1, <2>2, <2>3 DEF PostsRecord
  <2>6. OneRound(n, "posted", posts', signaling.pending)
    BY <2>1, <2>3, <2>5 DEF WebRtcOK, OneRound
  <2>7. OffersAreAwaited(n, "posted", posts')
    BY <2>1, <2>3, <2>5 DEF WebRtcOK, OffersAreAwaited
  <2>8. WebRtcOK(rtc', posts', signaling)
    BY <2>1, <2>4, <2>5, <2>6, <2>7 DEF WebRtcOK, LeftIsClosed
  <2> QED BY <1>1, <2>1, <2>4, <2>5, <2>8 DEF WebRtcInv
<1> QED BY <1>1

LEMMA ArmedIs ==
  ASSUME NEW r \in RunRecord
  PROVE  LET f == Armed(r)
         IN  /\ f \in RunRecord /\ f.session = r.session /\ f.alive = r.alive
             /\ f.failing = r.failing /\ f.closed = r.closed /\ f.offer = r.offer
             /\ f.track = r.track /\ f.grace = r.grace
             /\ f.firstFrame => r.firstFrame \/ r.track
<1>. DEFINE b == r.firstFrame \/ (r.track /\ r.ready /\ ~r.decoded)
            f == [r EXCEPT !.firstFrame = b]
<1>1. b \in BOOLEAN /\ (b => r.firstFrame \/ r.track) BY DEF RunRecord
<1>2. Armed(r) = f BY DEF Armed
<1>. HIDE DEF b
<1> QED BY <1>1, <1>2 DEF RunRecord

LEMMA AnswerArrivesIs ==
  ASSUME WebRtcInv, NEW a, AnswerArrives(a)
  PROVE  WebRtcInv'
<1>. DEFINE n == rtc.session
            left == posts.answers \ {a}
            c == PeerClosed(rtc)
<1>1. /\ rtc \in RunRecord /\ posts \in PostsRecord /\ RunOK(rtc) /\ n \in Nat
      /\ WebRtcOK(rtc, posts, signaling) /\ UNCHANGED signaling /\ a \in posts.answers
      /\ signaling \in SignalingRecord
  BY DEF WebRtcInv, RunOK, RunRecord, AnswerArrives
<1>2. left \in SUBSET AnswerRecord /\ left = posts.answers \ {a} BY <1>1 DEF PostsRecord
<1>3. CASE UNCHANGED rtc /\ posts' = [posts EXCEPT !.answers = left]
  <2>. HIDE DEF left
  <2>1. /\ posts' \in PostsRecord /\ posts'.offers = posts.offers /\ posts'.answers = left
        /\ posts'.hidden = posts.hidden /\ posts'.closes = posts.closes
        /\ posts'.aborted = posts.aborted
    BY <1>1, <1>2, <1>3 DEF PostsRecord
  <2>2. WebRtcOK(rtc, posts', signaling)
    BY <1>1, <1>2, <2>1 DEF WebRtcOK, OneRound, OffersAreAwaited, LeftIsClosed
  <2> QED BY <1>1, <1>3, <2>1, <2>2 DEF WebRtcInv
<1>4. ASSUME rtc.alive, a.session = n, rtc.offer = "posted",
             NEW r, rtc' = Armed(r),
             posts' = [(IF r.failing THEN RemoteClosed(posts, rtc) ELSE posts) EXCEPT !.answers = @ \ {a}],
             r \in {[rtc EXCEPT !.offer = "over", !.track = TRUE], [rtc EXCEPT !.offer = "busy"],
                    [c EXCEPT !.permanent = TRUE, !.offer = "over"],
                    [c EXCEPT !.retry = TRUE, !.offer = "over"]}
      PROVE  WebRtcInv'
  <2>1. /\ ~rtc.failing /\ ~rtc.track /\ ~rtc.firstFrame /\ ~rtc.grace
        /\ n \notin posts.offers /\ signaling.pending # n
        /\ \A b \in left : b.session # n
    BY <1>1, <1>4 DEF RunOK, WebRtcOK, OneRound
  <2>2. /\ c \in RunRecord /\ c.session = n /\ c.alive = rtc.alive /\ c.failing /\ c.closed
        /\ ~c.track /\ ~c.firstFrame /\ ~c.grace
    BY <1>1, <2>1, PeerClosedIs
  <2>. HIDE DEF c
  <2>3. /\ r \in RunRecord /\ r.session = n /\ r.alive = rtc.alive
        /\ r.failing \/ (~r.failing /\ r.closed = rtc.closed)
        /\ \/ r.offer = "over"
           \/ r.offer = "busy" /\ ~r.failing /\ ~r.track /\ ~r.firstFrame /\ ~r.grace
    <3>1. CASE r = [rtc EXCEPT !.offer = "over", !.track = TRUE]
      BY <1>1, <2>1, <3>1 DEF RunRecord
    <3>2. CASE r = [rtc EXCEPT !.offer = "busy"] BY <1>1, <2>1, <3>2 DEF RunRecord
    <3>3. CASE r = [c EXCEPT !.permanent = TRUE, !.offer = "over"]
      BY <2>2, <3>3 DEF RunRecord
    <3>4. CASE r = [c EXCEPT !.retry = TRUE, !.offer = "over"]
      BY <2>2, <3>4 DEF RunRecord
    <3> QED BY <1>4, <3>1, <3>2, <3>3, <3>4
  <2>4. /\ rtc' \in RunRecord /\ rtc'.session = n /\ rtc'.alive = rtc.alive
        /\ rtc'.failing = r.failing /\ rtc'.closed = r.closed /\ rtc'.offer = r.offer
        /\ rtc'.track = r.track /\ rtc'.grace = r.grace
        /\ (rtc'.firstFrame => r.firstFrame \/ r.track)
    BY <1>4, <2>3, ArmedIs
  <2>5. RunOK(rtc')
    <3>1. rtc.session # 0 BY <1>1, <1>4 DEF RunOK
    <3>2. rtc'.alive = TRUE BY <1>1, <1>4, <2>4 DEF RunRecord
    <3>3. rtc'.failing \/ rtc'.track \/ rtc'.firstFrame \/ rtc'.grace => rtc'.offer = "over"
      BY <2>3, <2>4
    <3> QED BY <2>4, <3>1, <3>2, <3>3 DEF RunOK
  <2>6. CASE r.failing
    <3>. DEFINE q == RemoteClosed(posts, rtc)
    <3>1. /\ q \in PostsRecord /\ q.offers = posts.offers /\ q.answers = posts.answers
          /\ q.aborted = posts.aborted /\ q.hidden = posts.hidden /\ posts.closes \subseteq q.closes
          /\ (~rtc.closed => rtc.session \in q.closes)
      BY <1>1, RemoteClosedIs
    <3>2. posts' = [q EXCEPT !.answers = left] BY <1>4, <2>6, <3>1
    <3>. HIDE DEF q, left
    <3>3. /\ posts' \in PostsRecord /\ posts'.offers = q.offers /\ posts'.answers = left
          /\ posts'.hidden = q.hidden /\ posts'.closes = q.closes /\ posts'.aborted = q.aborted
      BY <1>2, <3>1, <3>2 DEF PostsRecord
    <3>4. rtc.closed \/ rtc.session \in posts'.closes BY <1>1, <3>1, <3>3 DEF RunRecord
    <3>5. rtc'.failing /\ rtc'.offer = "over" BY <2>3, <2>4, <2>6
    <3>6. posts'.answers \subseteq posts.answers BY <1>2, <3>3
    <3> QED BY <1>1, <2>1, <2>4, <2>5, <3>1, <3>3, <3>4, <3>5, <3>6, EffectFails
  <2>7. CASE ~r.failing
    <3>1. posts' = [posts EXCEPT !.answers = left] BY <1>4, <2>7
    <3>. HIDE DEF left
    <3>2. /\ posts' \in PostsRecord /\ posts'.offers = posts.offers /\ posts'.answers = left
          /\ posts'.hidden = posts.hidden /\ posts'.closes = posts.closes
          /\ posts'.aborted = posts.aborted
      BY <1>1, <1>2, <3>1 DEF PostsRecord
    <3>3. rtc'.closed = rtc.closed /\ ~rtc'.failing /\ rtc'.alive = rtc.alive
          /\ rtc'.offer \in {"over", "busy"}
      BY <2>3, <2>4, <2>7
    <3>4. OneRound(n, rtc'.offer, posts', signaling.pending)
      BY <1>1, <1>2, <2>1, <3>2, <3>3 DEF WebRtcOK, OneRound
    <3>5. OffersAreAwaited(n, rtc'.offer, posts')
      BY <1>1, <2>1, <3>2 DEF WebRtcOK, OffersAreAwaited
    <3>6. WebRtcOK(rtc', posts', signaling)
      BY <1>1, <2>1, <2>4, <3>2, <3>3, <3>4, <3>5 DEF WebRtcOK, LeftIsClosed
    <3> QED BY <1>1, <2>5, <3>2, <3>6 DEF WebRtcInv
  <2> QED BY <2>6, <2>7
<1>5. ~(~rtc.alive \/ a.session # rtc.session \/ rtc.offer # "posted")
      => \E r : /\ rtc' = Armed(r)
                /\ posts' = [(IF r.failing THEN RemoteClosed(posts, rtc) ELSE posts)
                              EXCEPT !.answers = @ \ {a}]
                /\ r \in {[rtc EXCEPT !.offer = "over", !.track = TRUE], [rtc EXCEPT !.offer = "busy"],
                          [c EXCEPT !.permanent = TRUE, !.offer = "over"],
                          [c EXCEPT !.retry = TRUE, !.offer = "over"]}
  <2>. HIDE DEF c
  <2> QED BY DEF AnswerArrives, c
<1>6. (~rtc.alive \/ a.session # rtc.session \/ rtc.offer # "posted")
      => UNCHANGED rtc /\ posts' = [posts EXCEPT !.answers = left]
  BY DEF AnswerArrives
<1> QED BY <1>3, <1>4, <1>5, <1>6

LEMMA AnswerSentIs ==
  ASSUME NEW p \in PostsRecord, NEW s \in Nat, NEW status \in Statuses
  PROVE  LET q == AnswerSent(p, s, status)
         IN  /\ q \in PostsRecord /\ q.offers = p.offers /\ q.closes = p.closes
             /\ q.aborted = p.aborted /\ q.hidden = p.hidden
             /\ OfferAnswer(s, status).session = s
             /\ \/ q.answers = p.answers
                \/ q.answers = p.answers \cup {OfferAnswer(s, status)}
<1>. DEFINE a == OfferAnswer(s, status)
            b == p.answers \cup {a}
            q == [p EXCEPT !.answers = b]
<1>1. a.session = s /\ a \in AnswerRecord BY DEF OfferAnswer, AnswerRecord
<1>2. b \in SUBSET AnswerRecord BY <1>1 DEF PostsRecord
<1>3. AnswerSent(p, s, status) = IF s \in p.aborted THEN p ELSE q BY DEF AnswerSent
<1>4. b = p.answers \cup {OfferAnswer(s, status)} /\ OfferAnswer(s, status).session = s BY <1>1
<1>. HIDE DEF a, b
<1>5. /\ q \in PostsRecord /\ q.offers = p.offers /\ q.closes = p.closes
      /\ q.aborted = p.aborted /\ q.hidden = p.hidden /\ q.answers = b
  BY <1>2 DEF PostsRecord
<1>. HIDE DEF q
<1> QED BY <1>3, <1>4, <1>5

LEMMA OfferArrivesIs ==
  ASSUME WebRtcInv, NEW s, OfferArrives(s)
  PROVE  WebRtcInv'
<1>. DEFINE n == rtc.session
            o == posts.offers \ {s}
            p == [posts EXCEPT !.offers = o]
            q == AnswerSent(p, s, "busy")
            g == signaling
<1>1. /\ rtc \in RunRecord /\ posts \in PostsRecord /\ RunOK(rtc) /\ n \in Nat
      /\ WebRtcOK(rtc, posts, g) /\ UNCHANGED rtc /\ s \in posts.offers
      /\ g \in SignalingRecord /\ s \in Nat
  BY DEF WebRtcInv, RunOK, RunRecord, OfferArrives, PostsRecord
<1>2. o \in SUBSET Nat /\ o = posts.offers \ {s} BY <1>1 DEF PostsRecord
<1>3. \/ /\ posts' = q /\ signaling' = [g EXCEPT !.publisher = TRUE]
      \/ /\ g.pending = 0 /\ posts' = p
         /\ signaling' = [g EXCEPT !.publisher = TRUE, !.pending = s, !.open = @ \cup {s}]
  BY DEF OfferArrives
<1>. HIDE DEF o
<1>4. /\ p \in PostsRecord /\ p.offers = o /\ p.answers = posts.answers
      /\ p.hidden = posts.hidden /\ p.closes = posts.closes /\ p.aborted = posts.aborted
  BY <1>1, <1>2 DEF PostsRecord
<1>. HIDE DEF p
<1>5. /\ OneRound(n, rtc.offer, posts, g.pending) /\ OffersAreAwaited(n, rtc.offer, posts)
      /\ LeftIsClosed(n, rtc.alive /\ ~rtc.failing, posts, g)
      /\ 0 \notin posts.aborted /\ (s \in posts.aborted \/ (s = n /\ rtc.offer = "posted"))
  BY <1>1 DEF WebRtcOK, OffersAreAwaited
<1>6. CASE posts' = q /\ signaling' = [g EXCEPT !.publisher = TRUE]
  <2>1. /\ q \in PostsRecord /\ q.offers = o /\ q.closes = posts.closes
        /\ q.aborted = posts.aborted /\ q.hidden = posts.hidden
        /\ OfferAnswer(s, "busy").session = s
        /\ q.answers = posts.answers \/ q.answers = posts.answers \cup {OfferAnswer(s, "busy")}
    <3>1. p \in PostsRecord /\ s \in Nat /\ "busy" \in Statuses BY <1>1, <1>4 DEF Statuses
    <3>2. /\ q \in PostsRecord /\ q.offers = p.offers /\ q.closes = p.closes
          /\ q.aborted = p.aborted /\ q.hidden = p.hidden
          /\ OfferAnswer(s, "busy").session = s
          /\ \/ q.answers = p.answers
             \/ q.answers = p.answers \cup {OfferAnswer(s, "busy")}
      BY ONLY <3>1, AnswerSentIs
    <3> QED BY <1>4, <3>2
  <2>2. /\ signaling' \in SignalingRecord /\ signaling'.publisher /\ signaling'.open = g.open
        /\ signaling'.pending = g.pending
    BY <1>1, <1>6 DEF SignalingRecord
  <2>. HIDE DEF q
  <2>3. OneRound(n, rtc.offer, q, g.pending)
    <3>1. CASE q.answers = posts.answers BY <1>2, <1>5, <2>1, <3>1 DEF OneRound
    <3>2. ASSUME NEW a, a.session = s, q.answers = posts.answers \cup {a}
          PROVE  OneRound(n, rtc.offer, q, g.pending)
      <4>1. s <= n BY <1>1, <1>5 DEF OneRound
      <4> QED BY <1>1, <1>2, <1>5, <2>1, <3>2, <4>1 DEF OneRound
    <3> QED BY <2>1, <3>1, <3>2
  <2>4. OffersAreAwaited(n, rtc.offer, q) BY <1>2, <1>5, <2>1 DEF OffersAreAwaited
  <2>5. WebRtcOK(rtc, q, signaling')
    BY <1>1, <1>5, <2>1, <2>2, <2>3, <2>4 DEF WebRtcOK, LeftIsClosed
  <2> QED BY <1>1, <1>6, <2>1, <2>2, <2>5 DEF WebRtcInv
<1>7. CASE g.pending = 0 /\ posts' = p
           /\ signaling' = [g EXCEPT !.publisher = TRUE, !.pending = s, !.open = @ \cup {s}]
  <2>. DEFINE b == g.open \cup {s}
  <2>1. b \in SUBSET Nat /\ b = g.open \cup {s} BY <1>1 DEF SignalingRecord
  <2>2. signaling' = [g EXCEPT !.publisher = TRUE, !.pending = s, !.open = b] BY <1>7
  <2>. HIDE DEF b
  <2>3. /\ signaling' \in SignalingRecord /\ signaling'.publisher /\ signaling'.open = b
        /\ signaling'.pending = s
    BY <1>1, <2>1, <2>2 DEF SignalingRecord
  <2>4. OneRound(n, rtc.offer, p, s)
    <3>1. s <= n BY <1>1, <1>5 DEF OneRound
    <3> QED BY <1>1, <1>2, <1>4, <1>5, <3>1 DEF OneRound
  <2>5. OffersAreAwaited(n, rtc.offer, p) BY <1>2, <1>4, <1>5 DEF OffersAreAwaited
  <2>6. LeftIsClosed(n, rtc.alive /\ ~rtc.failing, p, signaling')
    <3>1. ASSUME NEW t \in g.open \ p.hidden, t # s
          PROVE  (t = n /\ rtc.alive /\ ~rtc.failing) \/ t \in p.closes
      BY <1>4, <1>5, <1>7, <3>1 DEF LeftIsClosed
    <3>2. s \in p.aborted \/ (s = n /\ rtc.alive /\ ~rtc.failing)
      BY <1>1, <1>4, <1>5 DEF RunOK
    <3> QED BY <2>1, <2>3, <3>1, <3>2 DEF LeftIsClosed
  <2>7. WebRtcOK(rtc, p, signaling')
    BY <1>1, <1>4, <1>5, <2>3, <2>4, <2>5, <2>6 DEF WebRtcOK
  <2> QED BY <1>1, <1>4, <1>7, <2>3, <2>7 DEF WebRtcInv
<1> QED BY <1>3, <1>6, <1>7

LEMMA OfferSettlesIs == WebRtcInv /\ OfferSettles => WebRtcInv'
<1>1. ASSUME WebRtcInv, OfferSettles PROVE WebRtcInv'
  <2>. DEFINE n == rtc.session
              g == signaling
              s == g.pending
  <2>1. /\ rtc \in RunRecord /\ posts \in PostsRecord /\ RunOK(rtc) /\ n \in Nat
        /\ WebRtcOK(rtc, posts, g) /\ UNCHANGED rtc /\ s # 0
        /\ g \in SignalingRecord /\ s \in Nat
    BY <1>1 DEF WebRtcInv, RunOK, RunRecord, OfferSettles, SignalingRecord
  <2>2. PICK ok :
          /\ posts' = AnswerSent(posts, s, IF ok THEN "ok" ELSE "error")
          /\ signaling' =
               [g EXCEPT !.pending = 0,
                         !.open = IF ok /\ s \notin posts.aborted THEN @ ELSE @ \ {s},
                         !.cancelled = IF ok /\ s \in posts.aborted THEN @ \cup {s} ELSE @]
    BY <1>1 DEF OfferSettles
  <2>. DEFINE status == IF ok THEN "ok" ELSE "error"
              b == IF ok /\ s \notin posts.aborted THEN g.open ELSE g.open \ {s}
              x == IF ok /\ s \in posts.aborted THEN g.cancelled \cup {s} ELSE g.cancelled
  <2>3. status \in Statuses BY DEF Statuses
  <2>4. /\ b \in SUBSET Nat /\ b \subseteq g.open /\ x \in SUBSET Nat
        /\ (s \in b => s \notin posts.aborted)
    BY <2>1 DEF SignalingRecord
  <2>5. posts' = AnswerSent(posts, s, status) /\ signaling' = [g EXCEPT !.pending = 0, !.open = b, !.cancelled = x]
    BY <2>2
  <2>. HIDE DEF status, b, x
  <2>6. /\ posts' \in PostsRecord /\ posts'.offers = posts.offers /\ posts'.closes = posts.closes
        /\ posts'.aborted = posts.aborted /\ posts'.hidden = posts.hidden
        /\ OfferAnswer(s, status).session = s
        /\ posts'.answers = posts.answers \/ posts'.answers = posts.answers \cup {OfferAnswer(s, status)}
    <3>1. posts \in PostsRecord BY <2>1
    <3>2. ASSUME NEW t \in Nat, NEW st \in Statuses
          PROVE  LET q == AnswerSent(posts, t, st)
                 IN  /\ q \in PostsRecord /\ q.offers = posts.offers /\ q.closes = posts.closes
                     /\ q.aborted = posts.aborted /\ q.hidden = posts.hidden
                     /\ OfferAnswer(t, st).session = t
                     /\ \/ q.answers = posts.answers
                        \/ q.answers = posts.answers \cup {OfferAnswer(t, st)}
      BY ONLY <3>1, <3>2, AnswerSentIs
    <3> QED BY <2>1, <2>3, <2>5, <3>2
  <2>7. /\ signaling' \in SignalingRecord /\ signaling'.publisher = g.publisher
        /\ signaling'.open = b /\ signaling'.pending = 0
    BY <2>1, <2>4, <2>5 DEF SignalingRecord
  <2>8. /\ OneRound(n, rtc.offer, posts, s) /\ OffersAreAwaited(n, rtc.offer, posts)
        /\ LeftIsClosed(n, rtc.alive /\ ~rtc.failing, posts, g)
        /\ 0 \notin posts.aborted
    BY <2>1 DEF WebRtcOK
  <2>9. rtc.offer # "over" => n # 0 BY <2>1 DEF RunOK, RunRecord
  <2>10. OneRound(n, rtc.offer, posts', 0)
    <3>1. CASE posts'.answers = posts.answers
      BY <2>1, <2>6, <2>8, <2>9, <3>1 DEF OneRound
    <3>2. ASSUME NEW a, a.session = s, posts'.answers = posts.answers \cup {a}
          PROVE  OneRound(n, rtc.offer, posts', 0)
      <4>1. s <= n BY <2>8 DEF OneRound
      <4> QED BY <2>1, <2>6, <2>8, <2>9, <3>2, <4>1 DEF OneRound
    <3> QED BY <2>6, <3>1, <3>2
  <2>11. OffersAreAwaited(n, rtc.offer, posts') BY <2>6, <2>8 DEF OffersAreAwaited
  <2>12. LeftIsClosed(n, rtc.alive /\ ~rtc.failing, posts', signaling')
    BY <2>4, <2>6, <2>7, <2>8 DEF LeftIsClosed
  <2>13. g.publisher \in BOOLEAN /\ signaling'.publisher \in BOOLEAN
    BY <2>1, <2>7 DEF SignalingRecord
  <2>14. ~signaling'.publisher => signaling'.open = {}
    BY <2>1, <2>4, <2>7, <2>13 DEF WebRtcOK
  <2>15. WebRtcOK(rtc, posts', signaling')
    BY <2>1, <2>6, <2>7, <2>8, <2>10, <2>11, <2>12, <2>14 DEF WebRtcOK
  <2> QED BY <2>1, <2>6, <2>7, <2>15 DEF WebRtcInv
<1> QED BY <1>1

LEMMA CloseArrivesIs ==
  ASSUME WebRtcInv, NEW s, CloseArrives(s)
  PROVE  WebRtcInv'
<1>. DEFINE n == rtc.session
            g == signaling
            c == posts.closes \ {s}
            x == g.cancelled \cup {s}
            b == g.open \ {s}
<1>1. /\ rtc \in RunRecord /\ posts \in PostsRecord /\ RunOK(rtc)
      /\ WebRtcOK(rtc, posts, g) /\ UNCHANGED rtc /\ g \in SignalingRecord
      /\ g.publisher \in BOOLEAN
  BY DEF WebRtcInv, RunOK, CloseArrives, SignalingRecord
<1>2. /\ c \in SUBSET Nat /\ c = posts.closes \ {s} /\ x \in SUBSET Nat
      /\ b \in SUBSET Nat /\ b = g.open \ {s}
  BY <1>1 DEF PostsRecord, SignalingRecord, CloseArrives
<1>3. /\ posts' = [posts EXCEPT !.closes = c]
      /\ signaling' = IF g.publisher THEN [g EXCEPT !.cancelled = x, !.open = b] ELSE g
  BY DEF CloseArrives
<1>. HIDE DEF c, x, b
<1>4. /\ posts' \in PostsRecord /\ posts'.offers = posts.offers /\ posts'.answers = posts.answers
      /\ posts'.hidden = posts.hidden /\ posts'.closes = c /\ posts'.aborted = posts.aborted
  BY <1>1, <1>2, <1>3 DEF PostsRecord
<1>5. /\ signaling' \in SignalingRecord /\ signaling'.publisher = g.publisher
      /\ signaling'.open = (IF g.publisher THEN b ELSE g.open) /\ signaling'.pending = g.pending
  BY <1>1, <1>2, <1>3 DEF SignalingRecord
<1>6. signaling'.open \subseteq g.open \ {s} BY <1>1, <1>2, <1>5 DEF WebRtcOK
<1>7. ~signaling'.publisher => signaling'.open = {} BY <1>1, <1>5, <1>6 DEF WebRtcOK
<1>8. WebRtcOK(rtc, posts', signaling')
  <2>1. OneRound(n, rtc.offer, posts', signaling'.pending) BY <1>1, <1>4, <1>5 DEF WebRtcOK, OneRound
  <2>2. OffersAreAwaited(n, rtc.offer, posts') BY <1>1, <1>4 DEF WebRtcOK, OffersAreAwaited
  <2>3. LeftIsClosed(n, rtc.alive /\ ~rtc.failing, posts', signaling')
    BY <1>1, <1>2, <1>4, <1>5, <1>6 DEF WebRtcOK, LeftIsClosed
  <2> QED BY <1>1, <1>4, <1>7, <2>1, <2>2, <2>3 DEF WebRtcOK
<1> QED BY <1>1, <1>4, <1>5, <1>8 DEF WebRtcInv

LEMMA WebRtcGoesOn == WebRtcInv /\ ViewerWebRtcNext => WebRtcInv'
<1>1. ASSUME WebRtcInv, ViewerWebRtcNext PROVE WebRtcInv'
  <2>1. rtc \in RunRecord /\ RunOK(rtc) BY <1>1 DEF WebRtcInv, RunOK
  <2>2. CASE RtcRuns BY <1>1, <2>2, AnotherRun DEF RtcRuns
  <2>3. CASE RetryTimerFires
    <3>1. CASE rtc.session < MaxSessions BY <1>1, <2>3, <3>1, AnotherRun DEF RetryTimerFires
    <3>2. CASE ~(rtc.session < MaxSessions) BY <1>1, <2>3, <3>2 DEF RetryTimerFires, WebRtcInv
    <3> QED BY <3>1, <3>2
  <2>4. CASE RtcCleanedUp \/ GatheringFails \/ OfferTimesOut BY <1>1, <2>4, EffectEnds
  <2>5. CASE PageHides BY <1>1, <2>5, PageHidesIs
  <2>6. CASE OfferPosted BY <1>1, <2>6, OfferPostedIs
  <2>7. ASSUME NEW a, AnswerArrives(a) PROVE WebRtcInv' BY <1>1, <2>7, AnswerArrivesIs
  <2>8. CASE LinkFails \/ FirstFrameTimesOut \/ GraceEnds
    <3>1. RetryTransport /\ UNCHANGED signaling /\ rtc.offer = "over"
      BY <2>1, <2>8 DEF LinkFails, FirstFrameTimesOut, GraceEnds, Linked, RunOK
    <3> QED BY <1>1, <3>1, RetryIs
  <2>9. CASE LinkConnects \/ LinkDrops \/ FrameDecoded
    <3>1. rtc.offer = "over" /\ UNCHANGED <<posts, signaling>>
      BY <2>1, <2>9 DEF LinkConnects, LinkDrops, FrameDecoded, Linked, RunOK
    <3>2. /\ rtc' \in RunRecord /\ rtc'.session = rtc.session /\ rtc'.alive = rtc.alive
          /\ rtc'.failing = rtc.failing /\ rtc'.closed = rtc.closed /\ rtc'.offer = rtc.offer
      <4>1. CASE LinkConnects
        <5>. DEFINE r == [rtc EXCEPT !.link = "connected", !.ready = TRUE, !.grace = FALSE]
        <5>1. rtc' = Armed(r) BY <4>1 DEF LinkConnects
        <5>2. /\ r \in RunRecord /\ r.session = rtc.session /\ r.alive = rtc.alive
              /\ r.failing = rtc.failing /\ r.closed = rtc.closed /\ r.offer = rtc.offer
          BY <2>1 DEF RunRecord
        <5>. HIDE DEF r
        <5> QED BY <5>1, <5>2, ArmedIs
      <4>2. CASE LinkDrops BY <2>1, <4>2 DEF LinkDrops, RunRecord
      <4>3. CASE FrameDecoded
        <5>. DEFINE l == rtc.live \/ ~rtc.decoded
        <5>1. l \in BOOLEAN OBVIOUS
        <5>2. rtc' = [rtc EXCEPT !.decoded = TRUE, !.firstFrame = FALSE, !.live = l]
          BY <4>3 DEF FrameDecoded
        <5>. HIDE DEF l
        <5> QED BY <2>1, <5>1, <5>2 DEF RunRecord
      <4> QED BY <2>9, <4>1, <4>2, <4>3
    <3> QED BY <1>1, <3>1, <3>2, EffectGoesOn
  <2>10. ASSUME NEW s, OfferArrives(s) PROVE WebRtcInv' BY <1>1, <2>10, OfferArrivesIs
  <2>11. CASE OfferSettles BY <1>1, <2>11, OfferSettlesIs
  <2>12. ASSUME NEW s, CloseArrives(s) PROVE WebRtcInv' BY <1>1, <2>12, CloseArrivesIs
  <2> QED
    BY <1>1, <2>2, <2>3, <2>4, <2>5, <2>6, <2>7, <2>8, <2>9, <2>10, <2>11, <2>12
    DEF ViewerWebRtcNext
<1> QED BY <1>1

LEMMA WebRtcStays == WebRtcInv /\ UNCHANGED viewerWebRtcVars => WebRtcInv'
BY DEF WebRtcInv, viewerWebRtcVars

LEMMA WebRtcPromises == WebRtcInv => LeftSessionsAreClosed
BY DEF WebRtcInv, WebRtcOK, LeftIsClosed, LeftSessionsAreClosed

\* What the effect's peer is at: given up with all its timers but the one for
\* the next run; connected and awaited; lost and in grace; or not yet connected.
PeerOK(r) ==
  /\ r.failing => ~r.live /\ r.link = "closed"
  /\ r.retry => r.failing
  /\ r.live => r.alive /\ r.decoded
  /\ r.link = "connected" => r.decoded \/ r.firstFrame
  /\ r.link = "disconnected" => r.grace
  /\ r.link = "closed" => ~r.alive \/ r.retry \/ r.permanent

LEMMA ARunStarts ==
  ASSUME NEW s \in Nat
  PROVE  PeerOK(NewRun(s)) /\ PeerOK([NewRun(s) EXCEPT !.alive = FALSE, !.offer = "over"])
BY DEF PeerOK, NewRun

\* closePeer, with the timer for the next run or for good.
LEMMA PeerEnds ==
  ASSUME NEW r \in RunRecord
  PROVE  /\ PeerOK([PeerClosed(r) EXCEPT !.retry = TRUE])
         /\ PeerOK([PeerClosed(r) EXCEPT !.retry = TRUE, !.offer = "over"])
         /\ PeerOK([PeerClosed(r) EXCEPT !.permanent = TRUE, !.offer = "over"])
         /\ PeerOK([PeerClosed(r) EXCEPT !.alive = FALSE, !.retry = FALSE, !.offer = "over"])
<1>. DEFINE c == PeerClosed(r)
<1>1. c \in RunRecord /\ c.failing /\ ~c.live /\ c.link = "closed"
  BY DEF PeerClosed, RunRecord
<1>. HIDE DEF c
<1>2. PeerOK([c EXCEPT !.retry = TRUE]) BY <1>1 DEF PeerOK, RunRecord
<1>3. PeerOK([c EXCEPT !.retry = TRUE, !.offer = "over"]) BY <1>1 DEF PeerOK, RunRecord
<1>4. PeerOK([c EXCEPT !.permanent = TRUE, !.offer = "over"]) BY <1>1 DEF PeerOK, RunRecord
<1>5. PeerOK([c EXCEPT !.alive = FALSE, !.retry = FALSE, !.offer = "over"])
  BY <1>1 DEF PeerOK, RunRecord
<1> QED BY <1>2, <1>3, <1>4, <1>5 DEF c

\* armFirstFrameTimeout disturbs nothing.
LEMMA ArmedKeepsPeer ==
  ASSUME NEW r \in RunRecord, PeerOK(r)
  PROVE  PeerOK(Armed(r))
<1>. DEFINE b == r.firstFrame \/ (r.track /\ r.ready /\ ~r.decoded)
<1>1. b \in BOOLEAN /\ (r.firstFrame => b) /\ Armed(r) = [r EXCEPT !.firstFrame = b]
  BY DEF RunRecord, Armed
<1>. HIDE DEF b
<1> QED BY <1>1 DEF PeerOK, RunRecord

LEMMA TriesAgain ==
  ASSUME rtc \in RunRecord, PeerOK(rtc), RetryTransport
  PROVE  PeerOK(rtc')
BY PeerEnds DEF RetryTransport, Failing

LEMMA ConnectionMoves ==
  ASSUME rtc \in RunRecord, PeerOK(rtc), LinkConnects \/ LinkDrops \/ FrameDecoded
  PROVE  PeerOK(rtc')
<1>1. CASE LinkConnects
  <2>. DEFINE r == [rtc EXCEPT !.link = "connected", !.ready = TRUE, !.grace = FALSE]
              b == r.firstFrame \/ (r.track /\ r.ready /\ ~r.decoded)
  <2>1. rtc' = [r EXCEPT !.firstFrame = b] /\ rtc.alive /\ rtc.track /\ rtc.link # "closed"
    BY <1>1 DEF LinkConnects, Linked, Armed
  <2>2. /\ r \in RunRecord /\ r.link = "connected" /\ r.ready /\ r.track /\ r.alive
        /\ r.failing = rtc.failing /\ r.live = rtc.live /\ r.decoded = rtc.decoded /\ r.retry = rtc.retry
    BY <2>1 DEF RunRecord
  <2>. HIDE DEF r
  <2>3. b \in BOOLEAN /\ (~r.decoded => b) BY <2>2 DEF RunRecord
  <2>. HIDE DEF b
  <2> QED BY <2>1, <2>2, <2>3 DEF PeerOK, RunRecord
<1>2. CASE LinkDrops BY <1>2 DEF LinkDrops, Linked, PeerOK, RunRecord
<1>3. CASE FrameDecoded
  <2>. DEFINE b == rtc.live \/ ~rtc.decoded
  <2>1. rtc' = [rtc EXCEPT !.decoded = TRUE, !.firstFrame = FALSE, !.live = b]
    BY <1>3 DEF FrameDecoded
  <2>2. b \in BOOLEAN /\ rtc.alive /\ rtc.link = "connected" BY <1>3 DEF FrameDecoded, Linked, RunRecord
  <2>. HIDE DEF b
  <2> QED BY <2>1, <2>2 DEF PeerOK, RunRecord
<1> QED BY <1>1, <1>2, <1>3

LEMMA AnswerKeepsPeer ==
  ASSUME rtc \in RunRecord, PeerOK(rtc), NEW a, AnswerArrives(a)
  PROVE  PeerOK(rtc')
<1>. DEFINE c == PeerClosed(rtc)
<1>1. c \in RunRecord BY DEF PeerClosed, RunRecord
<1>2. \/ UNCHANGED rtc
      \/ \E r \in {[rtc EXCEPT !.offer = "over", !.track = TRUE], [rtc EXCEPT !.offer = "busy"],
                   [c EXCEPT !.permanent = TRUE, !.offer = "over"],
                   [c EXCEPT !.retry = TRUE, !.offer = "over"]} : rtc' = Armed(r)
  <2>. HIDE DEF c
  <2> QED BY DEF AnswerArrives, c
<1>3. PeerOK([rtc EXCEPT !.offer = "over", !.track = TRUE]) /\ PeerOK([rtc EXCEPT !.offer = "busy"])
  BY DEF PeerOK, RunRecord
<1>4. /\ [rtc EXCEPT !.offer = "over", !.track = TRUE] \in RunRecord
      /\ [rtc EXCEPT !.offer = "busy"] \in RunRecord
  BY DEF RunRecord
<1>5. /\ PeerOK([c EXCEPT !.permanent = TRUE, !.offer = "over"])
      /\ PeerOK([c EXCEPT !.retry = TRUE, !.offer = "over"])
  BY PeerEnds
<1>. HIDE DEF c
<1>6. /\ [c EXCEPT !.permanent = TRUE, !.offer = "over"] \in RunRecord
      /\ [c EXCEPT !.retry = TRUE, !.offer = "over"] \in RunRecord
  BY <1>1 DEF RunRecord
<1> QED BY <1>2, <1>3, <1>4, <1>5, <1>6, ArmedKeepsPeer

LEMMA PeerGoesOn ==
  rtc \in RunRecord /\ PeerOK(rtc) /\ ViewerWebRtcNext => PeerOK(rtc')
<1>1. ASSUME rtc \in RunRecord, PeerOK(rtc), ViewerWebRtcNext PROVE PeerOK(rtc')
  <2>1. rtc.session \in Nat /\ rtc.session + 1 \in Nat BY <1>1 DEF RunRecord
  <2>2. CASE RtcRuns \/ RetryTimerFires
    BY <1>1, <2>1, <2>2, ARunStarts DEF RtcRuns, RetryTimerFires
  <2>3. CASE RtcCleanedUp BY <1>1, <2>3, PeerEnds DEF RtcCleanedUp
  <2>4. CASE PageHides \/ OfferPosted
    BY <1>1, <2>4 DEF PageHides, OfferPosted, PeerOK, RunRecord
  <2>5. CASE GatheringFails \/ OfferTimesOut
    BY <1>1, <2>5, PeerEnds DEF GatheringFails, OfferTimesOut, Failing
  <2>6. ASSUME NEW a, AnswerArrives(a) PROVE PeerOK(rtc') BY <1>1, <2>6, AnswerKeepsPeer
  <2>7. CASE LinkConnects \/ LinkDrops \/ FrameDecoded BY <1>1, <2>7, ConnectionMoves
  <2>8. CASE LinkFails \/ FirstFrameTimesOut \/ GraceEnds
    BY <1>1, <2>8, TriesAgain DEF LinkFails, FirstFrameTimesOut, GraceEnds
  <2>9. CASE OfferSettles BY <1>1, <2>9 DEF OfferSettles
  <2>10. ASSUME NEW s, OfferArrives(s) \/ CloseArrives(s) PROVE PeerOK(rtc')
    BY <1>1, <2>10 DEF OfferArrives, CloseArrives
  <2> QED
    BY <1>1, <2>2, <2>3, <2>4, <2>5, <2>6, <2>7, <2>8, <2>9, <2>10 DEF ViewerWebRtcNext
<1> QED BY <1>1

LEMMA PeerPromises ==
  rtc \in RunRecord /\ PeerOK(rtc) => LiveIsConnected /\ PictureIsPursued
BY DEF PeerOK, RunRecord, LiveIsConnected, PictureIsPursued

\* A peer of the run that has not begun, and what the others leave alone.
LEMMA PeerStarts == ViewerWebRtcInit => PeerOK(rtc)
BY ARunStarts, 0 \in Nat DEF ViewerWebRtcInit

LEMMA PeerStays == PeerOK(rtc) /\ UNCHANGED viewerWebRtcVars => PeerOK(rtc')
BY DEF viewerWebRtcVars


=============================================================================

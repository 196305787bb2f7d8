---------------------------- MODULE ViewerWebRtc ----------------------------
(***************************************************************************)
(* The viewer over WebRTC: the effect of useStream that makes an offer,    *)
(* waits for the first frame of the peer, tries again with a session of    *)
(* its own, and has the server close every session it leaves.              *)
(*                                                                         *)
(* Source: the WebRTC effect of ui/lib/use-stream.ts, webrtc-negotiation.ts*)
(* and, for the requests, /webrtc/offer and /webrtc/close of server.ts.    *)
(* SDP, candidates and statistics are left out; what the server's peers do *)
(* after an answer is in WebRtcPublisher.                                  *)
(***************************************************************************)
LOCAL INSTANCE Integers

CONSTANTS MaxSessions   \* bound: runs of the effect, each with a session of its own

ASSUME ViewerWebRtcAssumption == MaxSessions \in Nat \ {0}

VARIABLES
  rtc,        \* the variables of the effect that runs
  posts,      \* requests and answers on their way
  signaling   \* the publisher: its pending offer, its sessions, the cancelled ones

viewerWebRtcVars == <<rtc, posts, signaling>>

NewRun(s) ==
  [session |-> s, alive |-> TRUE, failing |-> FALSE, closed |-> FALSE, hidden |-> FALSE,
   offer |-> "gathering", link |-> "new", track |-> FALSE, ready |-> FALSE, decoded |-> FALSE,
   firstFrame |-> FALSE, grace |-> FALSE, retry |-> FALSE, permanent |-> FALSE, live |-> FALSE]

ViewerWebRtcInit ==
  /\ rtc = [NewRun(0) EXCEPT !.alive = FALSE, !.offer = "over"]
  /\ posts = [offers |-> {}, closes |-> {}, answers |-> {}, aborted |-> {}, hidden |-> {}]
  /\ signaling = [publisher |-> FALSE, pending |-> 0, open |-> {}, cancelled |-> {}]

-----------------------------------------------------------------------------
(* The effect.                                                              *)

\* closeRemoteSession: once for a session.
RemoteClosed(p, r) == IF r.closed THEN p ELSE [p EXCEPT !.closes = @ \cup {r.session}]

\* closePeer and closeRemoteSession
PeerClosed(r) ==
  [r EXCEPT !.failing = TRUE, !.closed = TRUE, !.live = FALSE, !.firstFrame = FALSE,
            !.grace = FALSE, !.link = "closed"]
Failing(r) == rtc' = r /\ posts' = RemoteClosed(posts, rtc)

BugRetryTransport ==
  IF rtc.failing THEN UNCHANGED <<rtc, posts>>
  ELSE rtc' = [PeerClosed(rtc) EXCEPT !.retry = TRUE] /\ UNCHANGED posts
RetryTransport ==
  IF rtc.failing THEN UNCHANGED <<rtc, posts>> ELSE Failing([PeerClosed(rtc) EXCEPT !.retry = TRUE])
FailPermanently ==
  IF rtc.failing THEN UNCHANGED <<rtc, posts>> ELSE Failing([PeerClosed(rtc) EXCEPT !.permanent = TRUE])

\* armFirstFrameTimeout
Armed(r) == [r EXCEPT !.firstFrame = @ \/ (r.track /\ r.ready /\ ~r.decoded)]

\* The effect's clean-up: the offer request is aborted, the session closed.
Left(p) ==
  IF ~rtc.alive THEN p
  ELSE [RemoteClosed(p, rtc) EXCEPT !.aborted = IF rtc.offer = "posted" THEN @ \cup {rtc.session} ELSE @]

\* The first run, or one after a change of what the effect depends on.
RtcRuns ==
  /\ rtc.session < MaxSessions
  /\ rtc' = NewRun(rtc.session + 1)
  /\ posts' = Left(posts)
  /\ UNCHANGED signaling

RtcCleanedUp ==
  /\ rtc.alive
  /\ rtc' = [PeerClosed(rtc) EXCEPT !.alive = FALSE, !.retry = FALSE, !.offer = "over"]
  /\ posts' = Left(posts)
  /\ UNCHANGED signaling

RetryTimerFires ==
  /\ rtc.retry
  /\ IF rtc.session < MaxSessions
     THEN rtc' = NewRun(rtc.session + 1) /\ posts' = Left(posts)
     ELSE UNCHANGED <<rtc, posts>>
  /\ UNCHANGED signaling

\* "pagehide" and "beforeunload": the page may go away or stay.
PageHides ==
  /\ rtc.alive /\ ~rtc.closed
  /\ posts' = [RemoteClosed(posts, rtc) EXCEPT !.hidden = @ \cup {rtc.session}]
  /\ rtc' = [rtc EXCEPT !.closed = TRUE, !.hidden = TRUE]
  /\ UNCHANGED signaling

OfferPosted ==
  /\ rtc.alive /\ rtc.offer \in {"gathering", "busy"}
  /\ rtc' = [rtc EXCEPT !.offer = "posted"]
  /\ posts' = [posts EXCEPT !.offers = @ \cup {rtc.session}]
  /\ UNCHANGED signaling

GatheringFails ==
  /\ rtc.alive /\ rtc.offer = "gathering" /\ ~rtc.failing
  /\ Failing([PeerClosed(rtc) EXCEPT !.retry = TRUE, !.offer = "over"])
  /\ UNCHANGED signaling

OfferTimesOut ==
  /\ rtc.alive /\ rtc.offer = "posted" /\ ~rtc.failing
  /\ rtc' = [PeerClosed(rtc) EXCEPT !.retry = TRUE, !.offer = "over"]
  /\ posts' = [RemoteClosed(posts, rtc) EXCEPT !.aborted = @ \cup {rtc.session}]
  /\ UNCHANGED signaling

\* The answer of a request that was not aborted: 200, 409 (asked again, up to
\* busyRetryCount times), what may be tried again, what may not.
AnswerArrives(a) ==
  /\ a \in posts.answers
  /\ IF ~rtc.alive \/ a.session # rtc.session \/ rtc.offer # "posted"
     THEN UNCHANGED rtc /\ posts' = [posts EXCEPT !.answers = @ \ {a}]
     ELSE \E r \in CASE a.status = "ok" -> {[rtc EXCEPT !.offer = "over", !.track = TRUE],
                                            [PeerClosed(rtc) EXCEPT !.permanent = TRUE, !.offer = "over"]}
                     [] a.status = "busy" -> {[rtc EXCEPT !.offer = "busy"],
                                              [PeerClosed(rtc) EXCEPT !.retry = TRUE, !.offer = "over"]}
                     [] OTHER -> {[PeerClosed(rtc) EXCEPT !.retry = TRUE, !.offer = "over"],
                                  [PeerClosed(rtc) EXCEPT !.permanent = TRUE, !.offer = "over"]} :
            /\ rtc' = Armed(r)
            /\ posts' = [(IF r.failing THEN RemoteClosed(posts, rtc) ELSE posts)
                          EXCEPT !.answers = @ \ {a}]
  /\ UNCHANGED signaling

-----------------------------------------------------------------------------
(* The effect: its peer connection and its video element.                   *)

Linked == rtc.alive /\ rtc.track /\ rtc.link # "closed"

BugLinkConnects ==
  /\ Linked /\ rtc.link # "connected"
  /\ rtc' = [rtc EXCEPT !.link = "connected", !.ready = TRUE, !.grace = FALSE]
  /\ UNCHANGED <<posts, signaling>>
LinkConnects ==
  /\ Linked /\ rtc.link # "connected"
  /\ rtc' = Armed([rtc EXCEPT !.link = "connected", !.ready = TRUE, !.grace = FALSE])
  /\ UNCHANGED <<posts, signaling>>

LinkDrops ==
  /\ Linked /\ rtc.link = "connected"
  /\ rtc' = [rtc EXCEPT !.link = "disconnected", !.ready = FALSE, !.grace = TRUE]
  /\ UNCHANGED <<posts, signaling>>

\* "failed", the end of the track, a first frame that does not come, a connection that
\* does not come back.
LinkFails ==
  /\ Linked
  /\ RetryTransport
  /\ UNCHANGED signaling

FirstFrameTimesOut ==
  /\ rtc.firstFrame /\ ~rtc.decoded
  /\ RetryTransport
  /\ UNCHANGED signaling

GraceEnds ==
  /\ rtc.grace
  /\ RetryTransport
  /\ UNCHANGED signaling

FrameDecoded ==
  /\ Linked /\ rtc.link = "connected"
  /\ rtc' = [rtc EXCEPT !.decoded = TRUE, !.firstFrame = FALSE, !.live = @ \/ ~rtc.decoded]
  /\ UNCHANGED <<posts, signaling>>

-----------------------------------------------------------------------------
(* The server.                                                              *)

OfferAnswer(s, status) == [session |-> s, status |-> status]
AnswerSent(p, s, status) ==
  IF s \in p.aborted THEN p ELSE [p EXCEPT !.answers = @ \cup {OfferAnswer(s, status)}]

\* One offer at a time; a cancelled session is refused.
OfferArrives(s) ==
  /\ s \in posts.offers
  /\ LET p == [posts EXCEPT !.offers = @ \ {s}]
     IN  IF signaling.pending # 0 \/ s \in signaling.cancelled \cup signaling.open
         THEN /\ posts' = AnswerSent(p, s, "busy")
              /\ signaling' = [signaling EXCEPT !.publisher = TRUE]
         ELSE /\ posts' = p
              /\ signaling' = [signaling EXCEPT !.publisher = TRUE, !.pending = s, !.open = @ \cup {s}]
  /\ UNCHANGED rtc

\* A peer that was closed meanwhile, or whose negotiation fails, is an error; the session
\* of a request nobody waits for is closed.
BugOfferSettles ==
  /\ signaling.pending # 0
  /\ LET s == signaling.pending
     IN  \E ok \in BOOLEAN :
           /\ ok => s \in signaling.open
           /\ posts' = AnswerSent(posts, s, IF ok THEN "ok" ELSE "error")
           /\ signaling' = [signaling EXCEPT !.pending = 0, !.open = IF ok THEN @ ELSE @ \ {s}]
  /\ UNCHANGED rtc
OfferSettles ==
  /\ signaling.pending # 0
  /\ LET s == signaling.pending
     IN  \E ok \in BOOLEAN :
           /\ ok => s \in signaling.open
           /\ posts' = AnswerSent(posts, s, IF ok THEN "ok" ELSE "error")
           /\ signaling' =
                [signaling EXCEPT !.pending = 0,
                                  !.open = IF ok /\ s \notin posts.aborted THEN @ ELSE @ \ {s},
                                  !.cancelled = IF ok /\ s \in posts.aborted THEN @ \cup {s} ELSE @]
  /\ UNCHANGED rtc

\* Without a publisher there is nothing to close, and nothing is remembered.
CloseArrives(s) ==
  /\ s \in posts.closes
  /\ posts' = [posts EXCEPT !.closes = @ \ {s}]
  /\ signaling' = IF signaling.publisher
                  THEN [signaling EXCEPT !.cancelled = @ \cup {s}, !.open = @ \ {s}]
                  ELSE signaling
  /\ UNCHANGED rtc

ViewerWebRtcNext ==
  \/ RtcRuns \/ RtcCleanedUp \/ RetryTimerFires \/ PageHides
  \/ OfferPosted \/ GatheringFails \/ OfferTimesOut
  \/ \E a \in posts.answers : AnswerArrives(a)
  \/ LinkConnects \/ LinkDrops \/ LinkFails \/ FirstFrameTimesOut \/ GraceEnds \/ FrameDecoded
  \/ \E s \in posts.offers : OfferArrives(s)
  \/ OfferSettles
  \/ \E s \in posts.closes : CloseArrives(s)

-----------------------------------------------------------------------------

\* closeRemoteSession, /webrtc/offer: a session of the server is the one of the effect that
\* runs, or its close is on its way, or its offer was aborted before it was answered; the one
\* of a page that was hidden while it made its offer is left to the connection's end.
LeftSessionsAreClosed ==
  \A s \in signaling.open \ posts.hidden :
    \/ s = rtc.session /\ rtc.alive /\ ~rtc.failing
    \/ s \in posts.closes
    \/ s = signaling.pending /\ s \in posts.aborted

\* retryTransport, armFirstFrameTimeout: an effect that shows no picture waits for an answer,
\* for the connection or for a timer, unless it gave up.
PictureIsPursued ==
  rtc.alive /\ ~rtc.decoded /\ ~rtc.permanent =>
    \/ rtc.offer \in {"gathering", "posted", "busy"} \/ rtc.link = "new"
    \/ rtc.firstFrame \/ rtc.grace \/ rtc.retry

\* markTransportLive: the viewer says "live" only of a peer that is not given up.
LiveIsConnected == rtc.live => rtc.alive /\ rtc.decoded /\ ~rtc.failing /\ ~rtc.retry
=============================================================================

----------------------------- MODULE WebRtcPublisher -----------------------------
(***************************************************************************)
(* The WebRTC publisher of one device session: its peers from the offer of *)
(* a browser to their end, and what it remembers of sessions it closed.    *)
(*                                                                         *)
(* Source: webrtc-publisher.ts. The peer connection, its track and the two *)
(* deadlines are the environment; SDP and RTP are data and left out. A     *)
(* request for a key frame goes to the recovery of the session, which      *)
(* StreamDelivery adds to the actions defined here.                        *)
(***************************************************************************)
EXTENDS Naturals, Sequences, FiniteSets

CONSTANTS
  SessionIds,     \* ids browsers choose for their WebRTC sessions
  MaxCancelled,   \* MAX_CANCELLED_SESSION_IDS
  NoSession       \* no pending session

VARIABLES
  peer,           \* peer[s]: the WebRtcPeer of session id s in #peers
  pending,        \* pendingSessionId
  cancelledOrder  \* cancelledSessionIdOrder

publisherVars == <<peer, pending, cancelledOrder>>

(* intact: every frame since a key frame reached the track of the peer.     *)
(* link: the signalling and the connectivity of the peer, with its deadline:*)
(* "answered" runs the one of the connection, "lost" the one of the grace.  *)
Peer == [link : {"none", "offered", "answered", "connected", "lost"},
         track : {"none", "attached", "open"}, awaiting : BOOLEAN, intact : BOOLEAN]

NoPeer == [link |-> "none", track |-> "none", awaiting |-> FALSE, intact |-> FALSE]
NewPeer == [link |-> "offered", track |-> "none", awaiting |-> TRUE, intact |-> FALSE]

PublisherInit ==
  /\ peer = [s \in SessionIds |-> NoPeer]
  /\ pending = NoSession
  /\ cancelledOrder = <<>>

-----------------------------------------------------------------------------
IsCancelled(s) == \E i \in DOMAIN cancelledOrder : cancelledOrder[i] = s

Open(p) == p.link # "none"

\* activePeerCount > 0
ActivePeer == \E s \in SessionIds : peer[s].link = "connected"
NeedsKeyFrame(p) == Open(p) /\ p.awaiting

\* close of a peer: onClose takes it out of the map.
ClosePeer(s) == peer' = [peer EXCEPT ![s] = NoPeer]

\* rememberCancelledSession
Remember(s) ==
  cancelledOrder' = IF IsCancelled(s) THEN cancelledOrder
                    ELSE IF Len(cancelledOrder) < MaxCancelled THEN Append(cancelledOrder, s)
                    ELSE Append(Tail(cancelledOrder), s)

-----------------------------------------------------------------------------
(* Signalling.                                                              *)

OfferAdmitted(s) == ~IsCancelled(s) /\ pending = NoSession /\ ~Open(peer[s])

HandleOffer(s) ==
  /\ OfferAdmitted(s)
  /\ peer' = [peer EXCEPT ![s] = NewPeer]
  /\ pending' = s
  /\ UNCHANGED cancelledOrder

\* The local description is there and ICE gathering is over, or has had its time.
Answered(s) ==
  /\ pending = s /\ Open(peer[s])
  /\ peer' = [peer EXCEPT ![s].link = "answered"]
  /\ pending' = NoSession
  /\ UNCHANGED cancelledOrder

\* No answer in time, an unusable offer, or the peer was closed meanwhile.
OfferFails(s) ==
  /\ pending = s
  /\ ClosePeer(s)
  /\ pending' = NoSession
  /\ UNCHANGED cancelledOrder

CloseSession(s) ==
  /\ Remember(s)
  /\ ClosePeer(s)
  /\ UNCHANGED pending

\* The close of the publisher.
ClosePublisher ==
  /\ peer' = [s \in SessionIds |-> NoPeer]
  /\ pending' = NoSession
  /\ cancelledOrder' = <<>>

-----------------------------------------------------------------------------
(* The peer connection and its track.                                       *)

TrackAttaches(s) ==
  /\ Open(peer[s]) /\ peer[s].track = "none"
  /\ peer' = [peer EXCEPT ![s].track = "attached"]
  /\ UNCHANGED <<pending, cancelledOrder>>

TrackOpens(s) ==
  /\ peer[s].track = "attached"
  /\ peer' = [peer EXCEPT ![s].track = "open", ![s].awaiting = TRUE]
  /\ UNCHANGED <<pending, cancelledOrder>>

\* reconcileConnectivity. The browser connects once it has the answer.
ConnectivityChanges(s) ==
  /\ peer[s].link \in {"answered", "connected", "lost"}
  /\ peer' = [peer EXCEPT ![s].link = IF @ = "connected" THEN "lost" ELSE "connected"]
  /\ UNCHANGED <<pending, cancelledOrder>>

\* A failed or closed connection, a failed or closed track, or the deadline
\* of a peer that is not connected.
PeerEnds(s) ==
  /\ Open(peer[s])
  /\ ClosePeer(s)
  /\ UNCHANGED <<pending, cancelledOrder>>

-----------------------------------------------------------------------------
(* Frames. A track takes a frame, refuses it (back-pressure) or throws.      *)

Outcomes == {"taken", "refused", "throws"}

\* sendFrame of one peer, with what its track does; whole: the config is in front.
BugFed(p, isKey, whole, outcome) ==
  IF ~Open(p) \/ p.track # "open" \/ (p.awaiting /\ ~isKey) THEN p
  ELSE CASE outcome = "taken"   -> [p EXCEPT !.awaiting = FALSE, !.intact = @ \/ (isKey /\ whole)]
         [] outcome = "refused" -> [p EXCEPT !.awaiting = FALSE, !.intact = FALSE]
         [] outcome = "throws"  -> NoPeer
Fed(p, isKey, whole, outcome) ==
  IF ~Open(p) \/ p.track # "open" THEN p
  ELSE IF p.awaiting /\ ~isKey THEN [p EXCEPT !.intact = FALSE]
  ELSE CASE outcome = "taken"   -> [p EXCEPT !.awaiting = FALSE, !.intact = @ \/ (isKey /\ whole)]
         [] outcome = "refused" -> [p EXCEPT !.awaiting = TRUE, !.intact = FALSE]
         [] outcome = "throws"  -> NoPeer

\* The peers that try to send a frame.
Sending(isKey) ==
  {s \in SessionIds : /\ peer[s].track = "open"
                      /\ isKey \/ ~peer[s].awaiting}

\* resetVideoSource
SourceReset ==
  [s \in SessionIds |-> IF Open(peer[s])
                        THEN [peer[s] EXCEPT !.awaiting = TRUE, !.intact = FALSE]
                        ELSE peer[s]]

=============================================================================

----------------------------- MODULE StreamDelivery -----------------------------
(***************************************************************************)
(* Delivery of the video of one published session: the frame pump, the     *)
(* websocket clients and WebRTC peers it feeds, and the watchdog that asks *)
(* the encoder for a key frame as long as somebody waits for one.          *)
(*                                                                         *)
(* Sources: server.ts (publisherFor, createRecovery, dropUntilKeyFrame,    *)
(* sendFrame, startFramePump, activateContext, the /webrtc and /ws         *)
(* endpoints) and session-recovery-watchdog.ts. The clock is modelled by   *)
(* ages, which stop growing once they are past every limit they are        *)
(* compared with. Packets of a source come in the order of H.264: after    *)
(* each session packet, the config and a key frame before any other frame. *)
(***************************************************************************)
EXTENDS WebRtcPublisher

CONSTANTS
  Clients,        \* websocket clients that take video
  Interval,       \* intervalMs of the watchdog
  Cooldown,       \* sessionResetCooldownMs
  FirstFrame,     \* firstFrameResetMs
  Stall,          \* sourceStallResetMs
  Retry           \* awaitingKeyFrameResetMs

ASSUME DeliveryAssumption ==
  /\ {Interval, Cooldown, FirstFrame, Stall, Retry} \subseteq Nat \ {0}
  /\ MaxCancelled \in Nat \ {0}
  /\ NoSession \notin SessionIds

VARIABLES
  phase,          \* of the session: live, ended (not current), clean (disposed)
  publisher,      \* publishers and publisherTasks of the session
  client,         \* client[c]: its websocket and its RecoveryClientState
  web,            \* webRtcState, the RecoveryClientState all peers share
  source,         \* the last packet of the source
  cachedConfig,   \* the config of the current video session is cached
  watchdog,       \* the SessionRecoveryWatchdog
  neglect         \* ghost: time an overdue client has been without an attempt

deliveryVars == <<phase, publisher, client, web, source, cachedConfig, watchdog, neglect>>
framesVars == <<publisherVars, deliveryVars>>

\* since: the age of lastKeyFrameRequestMs ?? awaitingKeyFrameSinceMs.
Ages(limit) == 0 .. limit
Waiting == [awaiting : BOOLEAN, since : Ages(Retry)]
Client == [ws : {"out", "upgrading", "in"}, awaiting : BOOLEAN, since : Ages(Retry),
           intact : BOOLEAN]
QuietLimit == IF FirstFrame > Stall THEN FirstFrame ELSE Stall

NoClient == [ws |-> "out", awaiting |-> FALSE, since |-> 0, intact |-> FALSE]

DeliveryTypeOK ==
  /\ peer \in [SessionIds -> Peer]
  /\ pending \in SessionIds \cup {NoSession}
  /\ cancelledOrder \in Seq(SessionIds) /\ Len(cancelledOrder) <= MaxCancelled
  /\ phase \in {"live", "ended", "clean"}
  /\ publisher \in {"none", "opening", "ready", "closed"}
  /\ client \in [Clients -> Client]
  /\ web \in Waiting
  /\ source \in {"session", "config", "frames"}
  /\ cachedConfig \in BOOLEAN
  /\ watchdog \in [running : BOOLEAN, attempt : Ages(Cooldown), frames : BOOLEAN,
                   quiet : Ages(QuietLimit), timer : Ages(Interval)]
  /\ neglect \in Ages(Interval + Cooldown)

-----------------------------------------------------------------------------
(* SessionRecoveryWatchdog.                                                 *)

MarkAwaiting(x) == IF x.awaiting THEN x ELSE [x EXCEPT !.awaiting = TRUE, !.since = 0]
KeyFrameAccepted(x) == [x EXCEPT !.awaiting = FALSE, !.since = 0]
Requested(x) == [x EXCEPT !.since = 0]

\* The clients() of createRecovery that have waited for Retry since they began
\* to wait or were last covered by an admitted request.
Overdue ==
  \/ \E c \in Clients : client[c].ws = "in" /\ client[c].awaiting /\ client[c].since >= Retry
  \/ ActivePeer /\ web.awaiting /\ web.since >= Retry

\* The ghost forgets a client that is not overdue or not watched any more.
Forgotten == neglect' = IF Overdue' THEN neglect ELSE 0

Watched == ActivePeer \/ \E c \in Clients : client[c].ws = "in"

\* requestVideoReset once the clients are cs, webRtcState is w and the watchdog
\* is dog. An attempt consumes the cooldown even if it is not admitted: the
\* session is over or the input queue refuses.
RequestVideoReset(dog, cs, w, active) ==
  IF dog.attempt < Cooldown
  THEN client' = cs /\ web' = w /\ watchdog' = dog /\ Forgotten
  ELSE /\ \/ client' = cs /\ web' = w
          \/ /\ phase = "live"
             /\ client' = [c \in Clients |-> IF cs[c].ws = "in" THEN Requested(cs[c]) ELSE cs[c]]
             /\ web' = IF active THEN Requested(w) ELSE w
       /\ watchdog' = [dog EXCEPT !.attempt = 0]
       /\ neglect' = 0

\* tick. The last disjunct of the code's retry is shared by all its branches:
\* a second request of one tick falls into the cooldown of the first.
BugTickDue ==
  \/ watchdog.quiet >= (IF watchdog.frames THEN Stall ELSE FirstFrame)
  \/ ~watchdog.frames /\ Overdue
TickDue ==
  \/ watchdog.quiet >= (IF watchdog.frames THEN Stall ELSE FirstFrame)
  \/ Overdue

WatchdogTicks ==
  /\ watchdog.running /\ watchdog.timer = Interval
  /\ UNCHANGED <<publisherVars, phase, publisher, source, cachedConfig>>
  /\ LET dog == [watchdog EXCEPT !.timer = 0]
     IN  IF Watched /\ TickDue
         THEN RequestVideoReset(dog, client, web, ActivePeer)
         ELSE watchdog' = dog /\ UNCHANGED <<client, web, neglect>>

Older(age, limit) == IF age < limit THEN age + 1 ELSE age
Grow(x) == IF x.awaiting THEN [x EXCEPT !.since = Older(@, Retry)] ELSE x

\* Time passes; the event loop is not so late that it misses a tick.
TimePasses ==
  /\ watchdog.running => watchdog.timer < Interval
  /\ watchdog' = [watchdog EXCEPT !.attempt = Older(@, Cooldown),
                                  !.quiet = Older(@, QuietLimit),
                                  !.timer = IF watchdog.running THEN @ + 1 ELSE @]
  /\ client' = [c \in Clients |-> Grow(client[c])]
  /\ web' = Grow(web)
  /\ neglect' = IF watchdog.running /\ Overdue THEN Older(neglect, Interval + Cooldown) ELSE 0
  /\ UNCHANGED <<publisherVars, phase, publisher, source, cachedConfig>>

-----------------------------------------------------------------------------
(* The websocket clients.                                                   *)

ClientUpgrades(c) ==
  /\ phase = "live" /\ client[c].ws = "out"
  /\ client' = [client EXCEPT ![c] = [NoClient EXCEPT !.ws = "upgrading"]]
  /\ UNCHANGED <<publisherVars, phase, publisher, web, source, cachedConfig, watchdog, neglect>>

\* open: a client of a session that is over is closed (1012).
ClientOpens(c) ==
  /\ client[c].ws = "upgrading"
  /\ UNCHANGED <<publisherVars, phase, publisher, source, cachedConfig>>
  /\ IF phase = "live"
     THEN RequestVideoReset(watchdog, [client EXCEPT ![c] = MarkAwaiting([@ EXCEPT !.ws = "in"])],
                            web, ActivePeer)
     ELSE client' = [client EXCEPT ![c] = NoClient] /\ UNCHANGED <<web, watchdog, neglect>>

ClientCloses(c) ==
  /\ client[c].ws # "out"
  /\ client' = [client EXCEPT ![c] = NoClient]
  /\ UNCHANGED <<publisherVars, phase, publisher, web, source, cachedConfig, watchdog>>
  /\ Forgotten

-----------------------------------------------------------------------------
(* The WebRTC endpoints and the events of the peers. onKeyframeRequest marks *)
(* webRtcState and asks for a reset.                                         *)

KeyFrameWanted == RequestVideoReset(watchdog, client, MarkAwaiting(web), ActivePeer')

PublisherRequested ==
  /\ phase = "live" /\ publisher = "none"
  /\ publisher' = "opening"
  /\ UNCHANGED <<publisherVars, phase, client, web, source, cachedConfig, watchdog, neglect>>

BugPublisherOpened ==
  /\ publisher = "opening"
  /\ publisher' = "ready"
  /\ UNCHANGED <<publisherVars, phase, client, web, source, cachedConfig, watchdog, neglect>>
PublisherOpened ==
  /\ publisher = "opening"
  /\ publisher' = IF phase = "live" THEN "ready" ELSE "closed"
  /\ UNCHANGED <<publisherVars, phase, client, web, source, cachedConfig, watchdog, neglect>>

PublisherFails ==
  /\ publisher = "opening"
  /\ publisher' = "none"
  /\ UNCHANGED <<publisherVars, phase, client, web, source, cachedConfig, watchdog, neglect>>

\* An offer marks webRtcState, whether or not the publisher then takes it.
Offer(s) ==
  /\ phase = "live" /\ publisher = "ready"
  /\ HandleOffer(s) \/ (~OfferAdmitted(s) /\ UNCHANGED publisherVars)
  /\ web' = MarkAwaiting(web)
  /\ UNCHANGED <<phase, publisher, client, source, cachedConfig, watchdog, neglect>>

OfferAnswered(s) ==
  /\ Answered(s)
  /\ KeyFrameWanted
  /\ UNCHANGED <<phase, publisher, source, cachedConfig>>

\* /webrtc/close, or an offer whose request was aborted meanwhile.
BrowserCloses(s) ==
  /\ phase = "live" /\ publisher = "ready"
  /\ CloseSession(s)
  /\ UNCHANGED <<phase, publisher, client, web, source, cachedConfig, watchdog>>
  /\ Forgotten

TrackReady(s) ==
  /\ TrackOpens(s)
  /\ KeyFrameWanted
  /\ UNCHANGED <<phase, publisher, source, cachedConfig>>

PeerChanges(s) ==
  /\ OfferFails(s) \/ TrackAttaches(s) \/ ConnectivityChanges(s) \/ PeerEnds(s)
  /\ UNCHANGED <<phase, publisher, client, web, source, cachedConfig, watchdog>>
  /\ Forgotten

-----------------------------------------------------------------------------
(* startFramePump, a packet at a time.                                      *)

ConfigArrives ==
  /\ phase = "live" /\ source \in {"session", "frames"}
  /\ source' = IF source = "session" THEN "config" ELSE source
  /\ cachedConfig' = TRUE
  /\ UNCHANGED <<publisherVars, phase, publisher, client, web, watchdog, neglect>>

SessionArrives ==
  /\ phase = "live"
  /\ source' = "session"
  /\ cachedConfig' = FALSE
  /\ peer' = SourceReset
  /\ RequestVideoReset(watchdog,
                       [c \in Clients |-> IF client[c].ws = "in"
                                          THEN MarkAwaiting([client[c] EXCEPT !.intact = FALSE])
                                          ELSE client[c]],
                       MarkAwaiting(web), ActivePeer)
  /\ UNCHANGED <<pending, cancelledOrder, phase, publisher>>

\* What sendFrame makes of a client: the frame is sent, dropped (its buffer is
\* full before or after the send) or the client is given up.
Sends == {"sent", "dropped", "gone"}
SendFrame(x, isKey, outcome) ==
  IF x.ws # "in" THEN x
  ELSE IF x.awaiting /\ ~isKey THEN [x EXCEPT !.intact = FALSE]
  ELSE CASE outcome = "sent"    ->
              [(IF isKey THEN KeyFrameAccepted(x) ELSE x)
                 EXCEPT !.intact = @ \/ (isKey /\ cachedConfig)]
         [] outcome = "dropped" -> [MarkAwaiting(x) EXCEPT !.intact = FALSE]
         [] outcome = "gone"    -> NoClient

\* The pump clears webRtcState once a peer took the key frame and none waits on.
BugServed(isKey, taken, after) == isKey /\ taken # {}
Served(isKey, taken, after) ==
  isKey /\ taken # {} /\ ~\E s \in SessionIds : NeedsKeyFrame(after[s])

FrameArrives(isKey) ==
  /\ phase = "live"
  /\ isKey => source \in {"config", "frames"}
  /\ ~isKey => source = "frames"
  /\ source' = "frames"
  /\ \E out \in [Sending(isKey) -> Outcomes],
        sends \in [{c \in Clients : client[c].ws = "in" /\ (isKey \/ ~client[c].awaiting)}
                     -> Sends] :
       LET after == [s \in SessionIds |->
                       Fed(peer[s], isKey, cachedConfig,
                           IF s \in DOMAIN out THEN out[s] ELSE "taken")]
           taken == {s \in DOMAIN out : out[s] = "taken"}
           cs == [c \in Clients |->
                    SendFrame(client[c], isKey, IF c \in DOMAIN sends THEN sends[c] ELSE "sent")]
           refused == \E s \in DOMAIN out : out[s] = "refused"
           dropped == \E c \in DOMAIN sends : sends[c] = "dropped"
           w == IF Served(isKey, taken, after) THEN KeyFrameAccepted(web)
                ELSE IF refused THEN MarkAwaiting(web) ELSE web
           fresh == [watchdog EXCEPT !.frames = TRUE, !.quiet = 0]
       IN  /\ peer' = after
           /\ IF refused \/ dropped
              THEN RequestVideoReset(fresh, cs, w, ActivePeer')
              ELSE client' = cs /\ web' = w /\ watchdog' = fresh /\ Forgotten
  /\ UNCHANGED <<pending, cancelledOrder, phase, publisher, cachedConfig>>

\* The source ends or fails, or the session is replaced.
SessionEnds ==
  /\ phase = "live"
  /\ phase' = "ended"
  /\ UNCHANGED <<publisherVars, publisher, client, web, source, cachedConfig, watchdog, neglect>>

\* The registered cleanups: recovery.stop and the close of the publisher.
CleanUp ==
  /\ phase = "ended"
  /\ phase' = "clean"
  /\ watchdog' = [watchdog EXCEPT !.running = FALSE]
  /\ neglect' = 0
  /\ IF publisher = "ready"
     THEN publisher' = "closed" /\ ClosePublisher
     ELSE UNCHANGED <<publisher, publisherVars>>
  /\ UNCHANGED <<client, web, source, cachedConfig>>

-----------------------------------------------------------------------------
\* activateContext
DeliveryInit ==
  /\ PublisherInit
  /\ phase = "live"
  /\ publisher = "none"
  /\ client = [c \in Clients |-> NoClient]
  /\ web = [awaiting |-> FALSE, since |-> 0]
  /\ source = "session"
  /\ cachedConfig = FALSE
  /\ watchdog = [running |-> TRUE, attempt |-> Cooldown, frames |-> FALSE, quiet |-> 0,
                 timer |-> 0]
  /\ neglect = 0

DeliveryNext ==
  \/ WatchdogTicks \/ TimePasses
  \/ \E c \in Clients : ClientUpgrades(c) \/ ClientOpens(c) \/ ClientCloses(c)
  \/ PublisherRequested \/ PublisherOpened \/ PublisherFails
  \/ \E s \in SessionIds :
       Offer(s) \/ OfferAnswered(s) \/ BrowserCloses(s) \/ TrackReady(s) \/ PeerChanges(s)
  \/ ConfigArrives \/ SessionArrives
  \/ \E isKey \in BOOLEAN : FrameArrives(isKey)
  \/ SessionEnds \/ CleanUp

DeliverySpec == DeliveryInit /\ [][DeliveryNext]_framesVars

-----------------------------------------------------------------------------
(* A decoder is never handed frames it cannot decode: whoever is not waiting *)
(* for a key frame has, since the last video session began, received one    *)
(* with its config and every frame after it. Back-pressure in the middle of *)
(* a frame, a restart of the encoder and a late track must each restore     *)
(* "waiting" (sendFrame of the server and of WebRtcPeer).                   *)
IntactWhenServed ==
  /\ \A c \in Clients : client[c].ws = "in" /\ ~client[c].awaiting => client[c].intact
  /\ \A s \in SessionIds : peer[s].track = "open" /\ ~peer[s].awaiting => peer[s].intact

(* Nobody waits for a key frame unnoticed: from the moment a watched client *)
(* is overdue, the next attempt to reset the encoder is made within an      *)
(* interval of the watchdog and a cooldown, however requests of other       *)
(* clients, frames and refused attempts are interleaved (tick,              *)
(* requestVideoReset).                                                      *)
AwaitingIsRetried == neglect < Interval + Cooldown

(* All peers share one recovery state. It may only be cleared when no peer  *)
(* waits any more: a connected peer that needs a key frame keeps it waiting *)
(* although other peers are served (startFramePump, onKeyframeRequest).     *)
PeersAreTracked ==
  phase = "live" =>
    \A s \in SessionIds : NeedsKeyFrame(peer[s]) => web.awaiting

(* A publisher that is still being opened when the session ends does not    *)
(* survive it: after the cleanup there is no usable publisher, no peer and  *)
(* no watchdog (publisherFor, activateContext).                             *)
NothingOutlivesSession ==
  phase = "clean" =>
    /\ publisher # "ready"
    /\ ~watchdog.running
    /\ \A s \in SessionIds : ~Open(peer[s])

=============================================================================

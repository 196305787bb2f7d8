------------------------------- MODULE ViewerMse -------------------------------
(***************************************************************************)
(* The viewer in a browser without WebCodecs: the socket of the page takes *)
(* the video itself and plays it through Media Source Extensions. With     *)
(* WebRTC the same socket only carries input. The transport may change,    *)
(* the socket may close, and the server may replace the capture at any     *)
(* moment; the source buffer takes one operation at a time.                *)
(*                                                                         *)
(* Sources: ui/lib/use-stream.ts (the MSE and the control effects),        *)
(* ui/lib/mse-player.ts, ui/lib/mp4-muxer.ts.                              *)
(***************************************************************************)
EXTENDS Naturals, Sequences

CONSTANTS
  MaxPackets,      \* packets and session messages the server sends
  MaxLinks,        \* sockets opened
  MaxMseEffects       \* changes of the transport

ASSUME MseAssumption == {MaxPackets, MaxLinks, MaxMseEffects} \subseteq Nat

VARIABLES
  link,        \* the socket of the effect that runs
  wire,        \* what the server has sent on it
  player,      \* MsePlayer
  server       \* the client as the server sees it, and the capture it has

mseVars == <<link, wire, player, server>>

NoPlayer == [alive |-> FALSE, capture |-> 0, fed |-> {}, ready |-> FALSE, open |-> FALSE,
             buffer |-> FALSE, updating |-> FALSE, queue |-> 0, stuck |-> FALSE,
             decoded |-> FALSE, painted |-> FALSE]

MseInit ==
  /\ link = [transport |-> "websocket", state |-> "connecting", links |-> 1, effects |-> 0]
  /\ wire = <<>>
  /\ player = NoPlayer
  /\ server = [capture |-> 1, awaitsKey |-> TRUE, sent |-> 0]

-----------------------------------------------------------------------------
(* MsePlayer.                                                               *)

\* A chunk is appended, is refused because the buffer is full (it is put
\* back, and what has been played is removed), or is lost; before, what lies
\* far behind may be removed.
Pumped(p) ==
  IF ~p.buffer \/ p.updating \/ ~p.open \/ p.queue = 0 THEN {p}
  ELSE {[p EXCEPT !.updating = TRUE, !.stuck = FALSE],   \* a removal, before or for want of room
        [p EXCEPT !.updating = TRUE, !.queue = @ - 1, !.decoded = TRUE, !.stuck = FALSE],
        [p EXCEPT !.queue = @ - 1, !.stuck = TRUE],                              \* reported
        [p EXCEPT !.stuck = TRUE]}   \* no room, nothing to remove

\* The source buffer is added once the source is open and the codec known. A
\* codec the browser cannot play is reported and no buffer is made.
WithBuffer(p) == IF p.open /\ p.ready /\ ~p.buffer THEN {[p EXCEPT !.buffer = TRUE], p} ELSE {p}

\* A key frame brings the parameter sets, and an initialisation segment when
\* they are new. Without them nothing else can be muxed.
Fed(p, packet) ==
  LET fed == [p EXCEPT !.fed = @ \cup {packet.capture}]
  IN  IF ~p.ready /\ packet.kind # "key" THEN {p}
      ELSE IF packet.kind = "key" /\ ~p.ready
      THEN UNION {Pumped(q) : q \in WithBuffer([fed EXCEPT !.ready = TRUE, !.queue = @ + 2])}
      ELSE Pumped([fed EXCEPT !.queue = @ + 1])

Player(next) == player' \in next /\ UNCHANGED <<link, wire, server>>

SourceOpens ==
  /\ player.alive /\ ~player.open
  /\ Player(UNION {Pumped(q) : q \in WithBuffer([player EXCEPT !.open = TRUE])})
BugUpdateEnds ==
  /\ player.alive /\ player.updating
  /\ Player({[player EXCEPT !.updating = FALSE]})
UpdateEnds ==
  /\ player.alive /\ player.updating
  /\ Player(Pumped([player EXCEPT !.updating = FALSE]))
\* The picture is drawn with every animation frame once there is one.
Paints ==
  /\ player.alive /\ player.decoded /\ ~player.painted
  /\ Player({[player EXCEPT !.painted = TRUE]})

-----------------------------------------------------------------------------
(* The socket.                                                              *)

Opens ==
  /\ link.state = "connecting"
  /\ link' = [link EXCEPT !.state = "open"]
  /\ server' = [server EXCEPT !.awaitsKey = TRUE]
  /\ UNCHANGED <<wire, player>>

\* A message of a new capture takes the player away, a packet is fed to it.
BugMessageArrives ==
  /\ link.state = "open" /\ wire # <<>>
  /\ LET m == Head(wire)
         p == IF player.alive THEN player ELSE [NoPlayer EXCEPT !.alive = TRUE, !.capture = m.capture]
     IN  IF link.transport # "websocket" \/ m.kind = "session" THEN UNCHANGED player
         ELSE player' \in Fed(p, m)
  /\ wire' = Tail(wire)
  /\ UNCHANGED <<link, server>>
MessageArrives ==
  /\ link.state = "open" /\ wire # <<>>
  /\ LET m == Head(wire)
         p == IF player.alive THEN player ELSE [NoPlayer EXCEPT !.alive = TRUE, !.capture = m.capture]
     IN  IF link.transport # "websocket" THEN UNCHANGED player
         ELSE IF m.kind = "session" THEN player' = NoPlayer
         ELSE player' \in Fed(p, m)
  /\ wire' = Tail(wire)
  /\ UNCHANGED <<link, server>>

\* The link is lost: the player goes with it, another link follows a delay.
LinkCloses ==
  /\ link.state \in {"connecting", "open"}
  /\ link' = [link EXCEPT !.state = "waiting"]
  /\ wire' = <<>>
  /\ player' = NoPlayer
  /\ UNCHANGED server
MseRetryFires ==
  /\ link.state = "waiting" /\ link.links < MaxLinks
  /\ link' = [link EXCEPT !.state = "connecting", !.links = @ + 1]
  /\ UNCHANGED <<wire, player, server>>

\* The effect of another transport begins with the end of this one, and the
\* page may go altogether.
BugMseEffectRuns ==
  /\ link.effects < MaxMseEffects
  /\ \E transport \in {"websocket", "webrtc", "none"} \ {link.transport} :
       link' = [transport |-> transport, state |-> IF transport = "none" THEN "closed" ELSE "connecting",
                links |-> link.links, effects |-> link.effects + 1]
  /\ wire' = <<>>
  /\ UNCHANGED <<player, server>>
MseEffectRuns ==
  /\ link.effects < MaxMseEffects
  /\ \E transport \in {"websocket", "webrtc", "none"} \ {link.transport} :
       link' = [transport |-> transport, state |-> IF transport = "none" THEN "closed" ELSE "connecting",
                links |-> link.links, effects |-> link.effects + 1]
  /\ wire' = <<>>
  /\ player' = NoPlayer
  /\ UNCHANGED server

-----------------------------------------------------------------------------
(* The server's side: a client gets no picture before a key frame.          *)

ServerSends ==
  /\ link.state = "open" /\ link.transport = "websocket" /\ server.sent < MaxPackets
  /\ \E kind \in {"key", "delta"} :
       /\ kind = "delta" => ~server.awaitsKey
       /\ wire' = Append(wire, [kind |-> kind, capture |-> server.capture])
  /\ server' = [server EXCEPT !.sent = @ + 1, !.awaitsKey = FALSE]
  /\ UNCHANGED <<link, player>>
CaptureReplaced ==
  /\ server.sent < MaxPackets
  /\ server' = [server EXCEPT !.capture = @ + 1, !.sent = @ + 1, !.awaitsKey = TRUE]
  /\ wire' = IF link.state = "open" THEN Append(wire, [kind |-> "session", capture |-> server.capture + 1])
             ELSE wire
  /\ UNCHANGED <<link, player>>

MseNext ==
  \/ SourceOpens \/ UpdateEnds \/ Paints \/ Opens \/ MessageArrives \/ LinkCloses \/ MseRetryFires
  \/ MseEffectRuns \/ ServerSends \/ CaptureReplaced

-----------------------------------------------------------------------------
(* Properties.                                                              *)

\* A player is given the packets of one capture only, from a key frame on: a
\* segment of another one would be decoded with parameters that are not its
\* own (the reset on "video-session" and on the close of the socket).
PlayerIsOfOneCapture ==
  /\ player.fed \subseteq {player.capture}
  /\ player.queue > 0 => player.ready

\* Chunks never wait for an event that does not come: while some are queued
\* and a source buffer is there, an operation of it is under way whose end
\* pumps the next one. The exceptions are a buffer that is full with nothing
\* to remove and a chunk the browser refused, which is reported: the rest
\* then waits for the next packet.
ChunksAreOnTheirWay ==
  player.alive /\ player.open /\ player.buffer /\ player.queue > 0 => player.updating \/ player.stuck

\* A page that has left the transport keeps no player, whose element and
\* animation frame would go on for ever, and one that plays has its link.
PlayerHasItsLink == player.alive => link.transport = "websocket" /\ link.state = "open"

\* A player that cannot start yet is one the server knows to wait for a key
\* frame, or whose key frame is on its way.
KeyFrameIsComing ==
  link.state = "open" /\ link.transport = "websocket" /\ ~player.ready
  => server.awaitsKey \/ \E i \in DOMAIN wire : wire[i].kind = "key"
=============================================================================

------------------------------ MODULE GrpcChannel ------------------------------
(***************************************************************************)
(* What a screenshot session exchanges with the gRPC server of an          *)
(* emulator: the paced stream of screenshots with the probes that tell a   *)
(* still display from a dead one, the downs and ups of its input, and the  *)
(* refresh of the geometry its touches are mapped with. The three share    *)
(* the connection and nothing else.                                        *)
(*                                                                         *)
(* Sources: emulator-grpc.ts (EmulatorGrpcClient, GrpcMessagePacer),       *)
(* grpc-session.ts (GrpcInputState, GrpcNativeTouchGeometryMonitor, touch, *)
(* tapTouch, dispatchGesture). A screenshot, a size of the display and an  *)
(* image of it are the number of changes the display had gone through.     *)
(***************************************************************************)
EXTENDS Integers, FiniteSets

CONSTANTS
  Touches,       \* pointer identifiers
  Keys,          \* keys that may be held
  MaxDisplay,    \* bound: changes of the display
  MaxProbes,     \* bound: probes whose answer is awaited
  MaxForced      \* bound: forced refreshes of the geometry

ASSUME ChannelAssumption ==
  /\ {MaxDisplay, MaxProbes, MaxForced} \subseteq Nat \ {0}
  /\ Touches \cap Keys = {}

VARIABLES
  display,    \* changes of the display of the emulator so far
  call,       \* the streamScreenshot request and its pacer
  probes,     \* getScreenshot requests made because the stream was silent
  shown,      \* the newest image given to the session
  input,      \* GrpcInputState and the gesture being sent
  held,       \* what the emulator holds down
  geometry    \* GrpcNativeTouchGeometryMonitor

channelVars == <<display, call, probes, shown, input, held, geometry>>
streamVars == <<call, probes, shown>>
inputVars == <<input, held>>

NoMessage == -1

ChannelInit ==
  /\ display = 0
  /\ call = [settled |-> "no", aborted |-> FALSE, begun |-> FALSE, paused |-> FALSE,
             slot |-> FALSE, pending |-> NoMessage, inactivity |-> FALSE]
  /\ probes = {}
  /\ shown = 0
  /\ input = [op |-> "none", on |-> {}, active |-> {}, aborted |-> FALSE, release |-> "no",
              failed |-> FALSE]
  /\ held = {}
  /\ geometry = [size |-> 0, native |-> 0, step |-> "idle", read |-> 0, force |-> FALSE,
                 generation |-> 0, pending |-> FALSE, asked |-> 0, since |-> 0]

\* The display turns, or what it shows changes.
DisplayChanges ==
  /\ display < MaxDisplay
  /\ display' = display + 1
  /\ UNCHANGED <<streamVars, inputVars, geometry>>

-----------------------------------------------------------------------------
(* The stream of screenshots.                                               *)

Unsettled == call.settled = "no"

\* settle: timers and pacer are gone, whatever was pending is dropped.
Settle(c, outcome) ==
  [c EXCEPT !.settled = outcome, !.slot = FALSE, !.pending = NoMessage, !.inactivity = FALSE]

\* A probe is of this silence until a message rearms the timer; its image is
\* the newest until a message comes.
Older(ps) == {[p EXCEPT !.current = FALSE] : p \in ps}
Outdated(ps) == {[p EXCEPT !.silent = FALSE] : p \in ps}

\* emitMessage: the stream is paused until the next slot. A message that cannot
\* be decoded ends the call; any other rearms the inactivity timer.
Emit(c, message) ==
  \/ /\ call' = Settle([c EXCEPT !.paused = TRUE], "error")
     /\ probes' = Outdated(probes)
     /\ shown' = shown
  \/ /\ call' = [c EXCEPT !.paused = TRUE, !.slot = TRUE, !.inactivity = TRUE, !.begun = TRUE]
     /\ probes' = Older(Outdated(probes))
     /\ shown' = message

\* A chunk of data with one message, or with two of which the pause keeps the
\* newer. What was paused is delivered by the stream when it resumes.
DataArrives ==
  /\ Unsettled /\ ~call.paused
  /\ \E older \in shown .. display, two \in BOOLEAN :
       Emit([call EXCEPT !.pending = IF two THEN display ELSE NoMessage],
            IF two THEN older ELSE display)
  /\ UNCHANGED <<display, inputVars, geometry>>

SlotOpens ==
  /\ call.slot
  /\ IF call.pending # NoMessage
     THEN Emit([call EXCEPT !.pending = NoMessage, !.slot = FALSE], call.pending)
     ELSE call' = [call EXCEPT !.paused = FALSE, !.slot = FALSE] /\ UNCHANGED <<probes, shown>>
  /\ UNCHANGED <<display, inputVars, geometry>>

\* No message for streamInactivityTimeoutMs, many slots long.
InactivityFires ==
  /\ call.inactivity /\ ~call.slot /\ Cardinality(probes) < MaxProbes
  /\ call' = [call EXCEPT !.inactivity = FALSE]
  /\ probes' = probes \cup {[current |-> TRUE, silent |-> TRUE, image |-> display]}
  /\ UNCHANGED <<display, shown, inputVars, geometry>>

\* The answer to a probe counts only if the stream has been silent since: its
\* image is shown, its failure ends the call, and the timer is armed again.
BugProbeAnswered(p) ==
  \/ /\ shown' = p.image
     /\ IF Unsettled /\ p.current
        THEN call' = [call EXCEPT !.inactivity = TRUE] /\ probes' = Older(probes \ {p})
        ELSE call' = call /\ probes' = probes \ {p}
  \/ /\ shown' = shown
     /\ call' = IF Unsettled /\ p.current THEN Settle(call, "error") ELSE call
     /\ probes' = probes \ {p}
ProbeAnswered(p) ==
  \/ /\ shown' = IF p.silent /\ ~call.aborted THEN p.image ELSE shown
     /\ IF Unsettled /\ p.current
        THEN call' = [call EXCEPT !.inactivity = TRUE] /\ probes' = Older(probes \ {p})
        ELSE call' = call /\ probes' = probes \ {p}
  \/ /\ shown' = shown
     /\ call' = IF Unsettled /\ p.current THEN Settle(call, "error") ELSE call
     /\ probes' = probes \ {p}
ProbeEnds ==
  /\ \E p \in probes : ProbeAnswered(p)
  /\ UNCHANGED <<display, inputVars, geometry>>

\* The stream ends, or its connection, or the session stops it.
StreamEnds ==
  /\ Unsettled
  /\ \/ \E outcome \in {"ok", "error"} : call' = Settle(call, outcome)
     \/ call' = [Settle(call, "aborted") EXCEPT !.aborted = TRUE]
  /\ UNCHANGED <<display, probes, shown, inputVars, geometry>>

-----------------------------------------------------------------------------
(* Input. Operations follow each other; a gesture is one or two of them.    *)

\* dispatchGesture: a touch or a key goes down or up, or a tap does both.
GestureDispatched ==
  /\ input.op = "none" /\ ~input.aborted
  /\ \E i \in Touches \cup Keys, op \in {"down", "up", "tap"} :
       /\ op = "tap" => i \in Touches
       /\ input' = [input EXCEPT !.op = op, !.on = {i},
                                 !.active = IF op = "up" THEN @ ELSE @ \cup {i}]
  /\ UNCHANGED <<display, streamVars, held, geometry>>

\* sendTouch or sendKey is answered. One that failed may have been carried out.
BugSendEnds ==
  /\ input.op \in {"down", "up", "tap"}
  /\ \E ok, done \in BOOLEAN :
       /\ ok => done
       /\ held' = IF ~done THEN held
                  ELSE IF input.op = "up" THEN held \ input.on ELSE held \cup input.on
       /\ input' = [input EXCEPT !.op = IF ok /\ input.op = "tap" THEN "sleep" ELSE "none",
                                 !.active = IF input.op = "up" \/ ~ok
                                            THEN @ \ input.on ELSE @]
  /\ UNCHANGED <<display, streamVars, geometry>>
SendEnds ==
  /\ input.op \in {"down", "up", "tap"}
  /\ \E ok, done \in BOOLEAN :
       /\ ok => done
       /\ held' = IF ~done THEN held
                  ELSE IF input.op = "up" THEN held \ input.on ELSE held \cup input.on
       /\ input' = [input EXCEPT !.op = IF ok /\ input.op = "tap" THEN "sleep" ELSE "none",
                                 !.active = IF ok /\ input.op = "up" THEN @ \ input.on ELSE @]
  /\ UNCHANGED <<display, streamVars, geometry>>

\* 20 ms after the down of a tap: its up, unless the input was aborted.
TapGoesUp ==
  /\ input.op = "sleep"
  /\ input' = [input EXCEPT !.op = IF input.aborted THEN "none" ELSE "up"]
  /\ UNCHANGED <<display, streamVars, held, geometry>>

\* The input is closed: gestures are aborted, and releaseAll follows them.
InputClosed ==
  /\ ~input.aborted
  /\ input' = [input EXCEPT !.aborted = TRUE, !.release = "queued"]
  /\ UNCHANGED <<display, streamVars, held, geometry>>

\* releaseAll: one message for the touches, one for each key.
ReleaseBegins ==
  /\ input.release = "queued" /\ input.op = "none"
  /\ input' = [input EXCEPT !.release = "sending"]
  /\ UNCHANGED <<display, streamVars, held, geometry>>
ReleaseSends ==
  /\ input.release = "sending"
  /\ LET touches == input.active \cap Touches
         left == input.active \cap Keys
         batches == IF touches # {} /\ ~input.failed THEN {touches} ELSE {{k} : k \in left}
     IN  IF batches = {}
         THEN input' = [input EXCEPT !.release = "done"] /\ UNCHANGED held
         ELSE \E batch \in batches, ok \in BOOLEAN :
                IF ok THEN /\ held' = held \ batch
                           /\ input' = [input EXCEPT !.active = @ \ batch]
                ELSE /\ input' = [input EXCEPT !.failed = TRUE,
                                    !.release = IF batch \subseteq Keys THEN "done" ELSE @]
                     /\ \E done \in SUBSET batch : held' = held \ done
  /\ UNCHANGED <<display, streamVars, geometry>>

-----------------------------------------------------------------------------
(* Touch geometry: the size signal is read, then an image if it changed.    *)

\* poll. A forced poll makes one that is under way begin again.
PollGeometry ==
  /\ \E force \in BOOLEAN :
       /\ force => geometry.asked < MaxForced
       /\ force \/ geometry.step = "idle"
       /\ LET asked == IF force THEN [geometry EXCEPT !.pending = TRUE, !.asked = @ + 1,
                                                      !.since = display]
                       ELSE geometry
          IN  geometry' = IF geometry.step # "idle" THEN asked
                          ELSE [asked EXCEPT !.step = "size", !.force = force, !.pending = FALSE,
                                             !.generation = asked.asked]
  /\ UNCHANGED <<display, streamVars, inputVars>>

\* The end of pollOnce: another turn if a forced poll came meanwhile.
NextPoll(g) ==
  IF g.pending THEN [g EXCEPT !.step = "size", !.force = TRUE, !.pending = FALSE,
                              !.generation = g.asked]
  ELSE [g EXCEPT !.step = "idle"]

SizeRead ==
  /\ geometry.step = "size"
  /\ geometry' =
       IF ~geometry.force /\ display = geometry.size THEN NextPoll(geometry)
       ELSE [geometry EXCEPT !.step = "image", !.read = display]
  /\ UNCHANGED <<display, streamVars, inputVars>>

\* The image shows the display of any moment since it was asked for.
BugNativeImageRead(image) ==
  geometry' = NextPoll([geometry EXCEPT !.native = image, !.size = geometry.read])
NativeImageRead(image) ==
  geometry' = NextPoll(IF geometry.generation = geometry.asked
                       THEN [geometry EXCEPT !.native = image, !.size = geometry.read]
                       ELSE geometry)
GeometryRead ==
  /\ geometry.step = "image"
  /\ \E image \in geometry.read .. display : NativeImageRead(image)
  /\ UNCHANGED <<display, streamVars, inputVars>>
PollFails ==
  /\ geometry.step \in {"size", "image"}
  /\ geometry' = NextPoll(geometry)
  /\ UNCHANGED <<display, streamVars, inputVars>>

StreamNext ==
  DisplayChanges \/ DataArrives \/ SlotOpens \/ InactivityFires \/ ProbeEnds \/ StreamEnds
InputNext ==
  GestureDispatched \/ SendEnds \/ TapGoesUp \/ InputClosed \/ ReleaseBegins \/ ReleaseSends
GeometryNext ==
  DisplayChanges \/ PollGeometry \/ SizeRead \/ GeometryRead \/ PollFails

-----------------------------------------------------------------------------
(* Properties.                                                              *)

\* A stream that has begun is watched until it ends: the inactivity timer is
\* armed, or a probe made in this silence is awaited; and a paused stream has
\* the slot that will resume it.
StreamIsWatched ==
  Unsettled =>
    /\ call.begun => call.inactivity \/ \E p \in probes : p.current
    /\ call.paused => call.slot

\* The picture never goes back: an image that a probe or a pause has delayed is
\* not shown after a newer one.
PictureNeverGoesBack == shown' >= shown

\* What the emulator may hold down is known, so that it can be released.
HeldIsKnown ==
  /\ held \subseteq input.active
  /\ input.release = "done" /\ ~input.failed => held = {}

\* Touches are mapped with the size that goes with the recorded signal or a
\* later one, and never with one that was read before the last forced refresh
\* once a refresh that followed it was taken over.
GeometryIsFresh ==
  /\ geometry.size <= geometry.native
  /\ geometry.step = "image" /\ geometry.generation = geometry.asked =>
       geometry.read >= geometry.since
GeometryNeverStale ==
  geometry'.native # geometry.native => geometry'.native >= geometry.since
=============================================================================

---------------------------- MODULE SessionRequests ----------------------------
(***************************************************************************)
(* The HTTP routes of the standalone server that act on a device. A        *)
(* request captures the session published when it arrives; while it reads  *)
(* its body, runs its adb commands, boots or kills an emulator, the        *)
(* session may end or be replaced, so a route asks again before it acts    *)
(* and before it answers.                                                  *)
(*                                                                         *)
(* Sources: server.ts (fetch), device-session-context.ts, adb.ts,          *)
(* emulator.ts, accessibility.ts.                                          *)
(* Two clients make one request each. A client that sets something sets it *)
(* to its own name, so that the values tell whose commands have run. The   *)
(* answers a route gives from the captured session without waiting are     *)
(* AnsweredAtOnce; uploads, replay, route and control input are modelled   *)
(* in modules of their own.                                                *)
(***************************************************************************)
EXTENDS Naturals, Sequences

CONSTANTS
  Clients,          \* each makes one request
  MaxPublications       \* generations after the first

ASSUME RequestsAssumption == MaxPublications \in Nat

VARIABLES
  session,     \* the published DeviceContext
  tree,        \* its accessibility snapshot: "none", "loading", "cached"
  transitions, \* the tail of DeviceSessionManager: what is waiting to be done
  request,     \* [Clients -> the request's handler]
  device       \* [Serials -> what runs on it and how it is set]

requestsVars == <<session, tree, transitions, request, device>>

\* The device served first, and the port an AVD is started on.
Serials == {"attached", "emulator"}

\* What the setters write, in the order of their commands, and what the
\* getters read back. The other routes only run one command.
Writes ==
  [orientation |-> <<"rotation">>, nightMode |-> <<"night">>, fontScale |-> <<"font_scale">>,
   network |-> <<"wifi", "data">>, reduceMotion |-> <<"transition", "window", "animator">>,
   highTextContrast |-> <<"contrast">>, fontWeight |-> <<"weight">>,
   displayDensity |-> <<"density">>]
Settings == DOMAIN Writes
KeysOf(setting) == {Writes[setting][i] : i \in DOMAIN Writes[setting]}
SettingKeys == UNION {KeysOf(setting) : setting \in Settings}

Unmade == [step |-> "idle", kind |-> "none", setting |-> "none", gen |-> 0, serial |-> "attached",
         target |-> "attached", plan |-> <<>>, reading |-> {}, read |-> {}, alone |-> TRUE, since |-> 0,
         select |-> FALSE, owns |-> FALSE, stopped |-> FALSE, answer |-> "none"]

RequestsInit ==
  /\ session = [gen |-> 0, serial |-> "attached", usable |-> TRUE]
  /\ tree = "none"
  /\ transitions = <<>>
  /\ request = [c \in Clients |-> Unmade]
  /\ device = [s \in Serials |->
                 [state |-> IF s = "attached" THEN "device" ELSE "off",
                  set |-> [k \in SettingKeys |-> "default"], kills |-> 0]]

-----------------------------------------------------------------------------
(* assertPublished and assertCurrent of the captured session.               *)

StillPublished(c) == request[c].gen = session.gen
Current(c) == StillPublished(c) /\ session.usable

Becomes(c, next) == request' = [request EXCEPT ![c] = next]
AnsweredWith(r, answer) == [r EXCEPT !.step = "answered", !.answer = answer]
Moves(c, step) == [request[c] EXCEPT !.step = step]

\* The end of runForContext and of runForPublishedContext.
BugFinished(c, r) == AnsweredWith(r, "ok")
Finished(c, r) == AnsweredWith(r, IF Current(c) THEN "ok" ELSE "changed")
Listed(c) == AnsweredWith(request[c], IF StillPublished(c) THEN "ok" ELSE "changed")

Arrives(c, kind, step) ==
  [Unmade EXCEPT !.kind = kind, !.step = step, !.gen = session.gen, !.serial = session.serial]

Only(c, next) == Becomes(c, next) /\ UNCHANGED <<session, tree, transitions, device>>

-----------------------------------------------------------------------------
(* The routes.                                                              *)

\* A GET reads within runForContext, a POST first reads its body.
SettingRoute(c, setting) ==
  /\ request[c].step = "idle"
  /\ \/ Only(c, [Arrives(c, "set", "body") EXCEPT !.setting = setting])
     \/
        /\ Only(c, IF ~session.usable THEN AnsweredWith(Arrives(c, "get", "none"), "changed")
                ELSE [Arrives(c, "get", "reading") EXCEPT
                        !.setting = setting, !.reading = KeysOf(setting)])

OrientationRoute(c) == SettingRoute(c, "orientation")
NightModeRoute(c) == SettingRoute(c, "nightMode")
FontScaleRoute(c) == SettingRoute(c, "fontScale")
NetworkRoute(c) == SettingRoute(c, "network")
ReduceMotionRoute(c) == SettingRoute(c, "reduceMotion")
HighTextContrastRoute(c) == SettingRoute(c, "highTextContrast")
FontWeightRoute(c) == SettingRoute(c, "fontWeight")
DisplayDensityRoute(c) == SettingRoute(c, "displayDensity")

\* The screenshot and the foreground app are asked for within runForContext.
ScreenshotRoute(c) ==
  /\ request[c].step = "idle"
  /\ Only(c, IF session.usable THEN Arrives(c, "screenshot", "asking")
             ELSE AnsweredWith(Arrives(c, "screenshot", "none"), "changed"))
ForegroundRoute(c) ==
  /\ request[c].step = "idle"
  /\ Only(c, IF session.usable THEN Arrives(c, "foreground", "asking")
             ELSE AnsweredWith(Arrives(c, "foreground", "none"), "changed"))

\* Lists of devices need a published session only.
DevicesRoute(c) ==
  request[c].step = "idle" /\ Only(c, Arrives(c, "devices", "listing"))
DeviceGridRoute(c) ==
  request[c].step = "idle" /\ Only(c, Arrives(c, "grid", "listing"))

\* /api, /health and the pages of the recording answer at once; what is not
\* current is still described.
AnsweredAtOnce(c) ==
  /\ request[c].step = "idle"
  /\ Only(c, AnsweredWith(Arrives(c, "described", "none"), "ok"))

GestureRoute(c) == request[c].step = "idle" /\ Only(c, Arrives(c, "gesture", "body"))
KeyRoute(c) == request[c].step = "idle" /\ Only(c, Arrives(c, "gesture", "body"))
AccessibilityTapRoute(c) == request[c].step = "idle" /\ Only(c, Arrives(c, "tap", "body"))
AppRoute(c) == request[c].step = "idle" /\ Only(c, Arrives(c, "command", "body"))
SelectRoute(c) ==
  /\ request[c].step = "idle"
  /\ \E s \in Serials : Only(c, [Arrives(c, "select", "body") EXCEPT !.target = s])
StartAvdRoute(c) ==
  /\ request[c].step = "idle"
  /\ \E select \in BOOLEAN :
       Only(c, [Arrives(c, "start", "body") EXCEPT !.target = "emulator", !.select = select])
\* An emulator is stopped by its serial, or by the AVD that runs on it.
StopAvdRoute(c) ==
  /\ request[c].step = "idle"
  /\ \E kind \in {"stop", "stopAvd"} :
       Only(c, [Arrives(c, kind, "body") EXCEPT !.target = "emulator"])

-----------------------------------------------------------------------------
(* What follows the body.                                                   *)

Transition(c, kind, serial) ==
  transitions' = Append(transitions, [client |-> c, kind |-> kind, serial |-> serial])

\* Stopping the emulator of the captured session stops the session first.
Stops(c) ==
  IF request[c].target = request[c].serial
  THEN /\ Becomes(c, Moves(c, "stopping"))
       /\ Transition(c, "stop", request[c].target)
       /\ UNCHANGED <<session, tree, device>>
  ELSE Only(c, Moves(c, "killing"))

\* One who writes while another does may find a mixture, and one whose
\* emulator is killed what the next one comes up with: alone and since, the
\* number of kills before, tell who has had the same device to itself.
SetterStarts(c) ==
  request' = [d \in Clients |->
    IF d = c THEN [request[c] EXCEPT !.step = "writing", !.plan = Writes[request[c].setting],
                     !.since = device[request[c].serial].kills,
                     !.alone = ~\E e \in Clients \ {c} : request[e].step = "writing"
                                                         /\ request[e].serial = request[c].serial]
    ELSE IF request[d].step \in {"writing", "reading"} /\ request[d].serial = request[c].serial
    THEN [request[d] EXCEPT !.alone = FALSE] ELSE request[d]]

BodyUsable(c) ==
  IF request[c].kind \in {"select", "start", "stop", "stopAvd"} THEN StillPublished(c) ELSE Current(c)

BodyRead(c) ==
  /\ request[c].step = "body"
  /\ \/ Only(c, AnsweredWith(request[c], "refused"))         \* no JSON, or not what is asked for
     \/ ~BodyUsable(c) /\ Only(c, AnsweredWith(request[c], "changed"))
     \/ /\ BodyUsable(c)
        /\ CASE request[c].kind = "set" ->
                  SetterStarts(c) /\ UNCHANGED <<session, tree, transitions, device>>
             [] request[c].kind = "command" -> Only(c, Moves(c, "asking"))
             [] request[c].kind = "gesture" -> Only(c, Moves(c, "queued"))
             [] request[c].kind = "tap" ->
                  /\ tree' = IF tree = "none" THEN "loading" ELSE tree
                  /\ Becomes(c, Moves(c, IF tree = "cached" THEN "found" ELSE "waiting"))
                  /\ UNCHANGED <<session, transitions, device>>
             [] request[c].kind = "select" ->
                  /\ Becomes(c, Moves(c, "switching"))
                  /\ Transition(c, "switch", request[c].target)
                  /\ UNCHANGED <<session, tree, device>>
             [] request[c].kind = "stop" -> Stops(c)
             [] OTHER -> Only(c, Moves(c, "listing"))

-----------------------------------------------------------------------------
(* Commands and queries.                                                    *)

\* A setter runs its commands one after the other and reads the setting back.
\* A command that fails, or is not answered in time, may have had its effect.
BugWriteEnds(c) ==
  /\ request[c].step = "writing"
  /\ LET r == request[c]
         rest == Tail(r.plan)
         written == device' = [device EXCEPT ![r.serial].set[Head(r.plan)] = c]
     IN  \/ /\ device[r.serial].state = "device" /\ written
            /\ Becomes(c, IF Len(rest) > 1 THEN [r EXCEPT !.plan = rest]
                          ELSE [r EXCEPT !.plan = <<>>, !.step = "reading",
                                         !.reading = KeysOf(r.setting)])
         \/ (written \/ UNCHANGED device) /\ Becomes(c, AnsweredWith(r, "failed"))
  /\ UNCHANGED <<session, tree, transitions>>
WriteEnds(c) ==
  /\ request[c].step = "writing"
  /\ LET r == request[c]
         rest == Tail(r.plan)
         written == device' = [device EXCEPT ![r.serial].set[Head(r.plan)] = c]
     IN  \/ /\ device[r.serial].state = "device" /\ written
            /\ Becomes(c, IF rest # <<>> THEN [r EXCEPT !.plan = rest]
                          ELSE [r EXCEPT !.plan = <<>>, !.step = "reading",
                                         !.reading = KeysOf(r.setting)])
         \/ (written \/ UNCHANGED device) /\ Becomes(c, AnsweredWith(r, "failed"))
  /\ UNCHANGED <<session, tree, transitions>>

\* The keys of a setting are read together, each at its own time.
ReadEnds(c) ==
  /\ request[c].step = "reading"
  /\ \/ \E k \in request[c].reading :
          LET r == [request[c] EXCEPT !.reading = @ \ {k},
                                      !.read = @ \cup {device[request[c].serial].set[k]}]
          IN  /\ device[r.serial].state = "device"
              /\ Only(c, IF r.reading = {} THEN Finished(c, r) ELSE r)
     \/ Only(c, AnsweredWith(request[c], "failed"))

\* launch, clear, force-stop, grant, screenshot, foreground.
CommandEnds(c) ==
  /\ request[c].step = "asking"
  /\ \/ Only(c, Finished(c, request[c]))
     \/ Only(c, AnsweredWith(request[c], "failed"))

\* The queue of a session that ends rejects what it holds.
GestureSettles(c) ==
  /\ request[c].step = "queued"
  /\ \/ Current(c) /\ Only(c, AnsweredWith(request[c], "ok"))
     \/ Only(c, AnsweredWith(request[c], "failed"))

\* One snapshot of a session is loaded at a time and shared for a while.
TreeLoads ==
  /\ tree = "loading" /\ session.usable
  /\ \E loaded \in BOOLEAN :
       /\ tree' = IF loaded THEN "cached" ELSE "none"
       /\ request' = [c \in Clients |->
            IF request[c].step = "waiting" /\ StillPublished(c)
            THEN IF loaded THEN Moves(c, "found") ELSE AnsweredWith(request[c], "failed")
            ELSE request[c]]
  /\ UNCHANGED <<session, transitions, device>>
TreeExpires == tree = "cached" /\ tree' = "none" /\ UNCHANGED <<session, transitions, request, device>>
TreeAborted(c) ==
  /\ request[c].step = "waiting" /\ ~Current(c)
  /\ Only(c, AnsweredWith(request[c], "changed"))
\* The node is looked up and tapped, unless the session has changed.
NodeFound(c) ==
  /\ request[c].step = "found"
  /\ \/ Only(c, IF Current(c) THEN Moves(c, "queued") ELSE AnsweredWith(request[c], "changed"))
     \/ Only(c, AnsweredWith(request[c], "refused"))

-----------------------------------------------------------------------------
(* Devices, and the emulators that are started and stopped.                 *)

KillDevice(s) ==
  device' = [device EXCEPT ![s] = [state |-> "off", set |-> [k \in SettingKeys |-> "default"],
                                   kills |-> device[s].kills + 1]]

\* startEmulator: an AVD that runs is taken as it is, any other is spawned
\* on a port that adb does not list. An emulator that has not told adb of
\* itself yet is not seen.
Launches(c) ==
  LET seen == device["emulator"].state
  IN  \/ /\ seen \in {"booting", "device"}
         /\ Only(c, Moves(c, "launched"))
      \/ /\ seen \in {"off", "spawned"}
         /\ device' = [device EXCEPT !["emulator"].state = "spawned"]
         /\ Becomes(c, [Moves(c, "booting") EXCEPT !.owns = TRUE])
         /\ UNCHANGED <<session, tree, transitions>>

\* The lists of devices, and of the AVDs that run.
BugListingEnds(c) ==
  /\ request[c].step = "listing"
  /\ \/ Only(c, AnsweredWith(request[c], "failed"))
     \/ request[c].kind \in {"devices", "grid"} /\ Only(c, Listed(c))
     \/ request[c].kind = "start" /\ Launches(c)
     \/ /\ request[c].kind = "stopAvd" /\ device["emulator"].state # "off"
        /\ Stops(c)
ListingEnds(c) ==
  /\ request[c].step = "listing"
  /\ \/ Only(c, AnsweredWith(request[c], "failed"))
     \/ request[c].kind \in {"devices", "grid"} /\ Only(c, Listed(c))
     \/ request[c].kind = "start" /\ Launches(c)
     \/ request[c].kind = "stopAvd" /\ ~StillPublished(c) /\ Only(c, AnsweredWith(request[c], "changed"))
     \/ /\ request[c].kind = "stopAvd" /\ StillPublished(c) /\ device["emulator"].state # "off"
        /\ Stops(c)

\* stop of a launch: a kill by way of adb, and a signal to the process it has.
LaunchStops(c, answer) ==
  /\ Becomes(c, AnsweredWith([request[c] EXCEPT !.stopped = @ \/ request[c].owns], answer))
  /\ IF request[c].owns THEN KillDevice("emulator") ELSE UNCHANGED device

\* waitForBoot raced with the error and the exit of the process.
BootEnds(c) ==
  /\ request[c].step = "booting"
  /\ \/ device["emulator"].state = "device" /\ Only(c, Moves(c, "launched"))
     \/ LaunchStops(c, "failed") /\ UNCHANGED <<session, tree, transitions>>

Boots ==
  /\ device["emulator"].state \in {"spawned", "booting"}
  /\ device' = [device EXCEPT !["emulator"].state = IF @ = "spawned" THEN "booting" ELSE "device"]
  /\ UNCHANGED <<session, tree, transitions, request>>

\* An AVD that ran without its camera wired is refused, but was not launched here.
BugLaunched(c) ==
  /\ request[c].step = "launched"
  /\ \/ ~request[c].owns /\ Only(c, AnsweredWith(request[c], "failed"))
     \/ ~StillPublished(c) /\ Only(c, AnsweredWith(request[c], "changed"))
     \/ StillPublished(c) /\ ~request[c].select /\ Only(c, AnsweredWith(request[c], "ok"))
     \/ /\ StillPublished(c) /\ request[c].select
        /\ Becomes(c, Moves(c, "switching")) /\ Transition(c, "switch", "emulator")
        /\ UNCHANGED <<session, tree, device>>
Launched(c) ==
  /\ request[c].step = "launched"
  /\ \/ ~request[c].owns /\ Only(c, AnsweredWith(request[c], "failed"))
     \/ ~StillPublished(c) /\ LaunchStops(c, "changed") /\ UNCHANGED <<session, tree, transitions>>
     \/ StillPublished(c) /\ ~request[c].select /\ Only(c, AnsweredWith(request[c], "ok"))
     \/ /\ StillPublished(c) /\ request[c].select
        /\ Becomes(c, Moves(c, "switching")) /\ Transition(c, "switch", "emulator")
        /\ UNCHANGED <<session, tree, device>>

\* killEmulator, after which the answer still asks for the session.
KillEnds(c) ==
  /\ request[c].step = "killing"
  /\ \/ KillDevice("emulator") /\ Becomes(c, Listed(c))
     \/ Becomes(c, AnsweredWith(request[c], "failed")) /\ UNCHANGED device
  /\ UNCHANGED <<session, tree, transitions>>

-----------------------------------------------------------------------------
(* The session.                                                             *)

SessionEnds ==
  /\ session.usable
  /\ session' = [session EXCEPT !.usable = FALSE]
  /\ tree' = "none"
  /\ UNCHANGED <<transitions, request, device>>

\* A switch to the device that is served does nothing. Otherwise the next
\* session is prepared while the previous one stays published.
Switches(serial) ==
  /\ device[serial].state = "device" /\ session.gen < MaxPublications
  /\ session' = [gen |-> session.gen + 1, serial |-> serial, usable |-> TRUE]
  /\ tree' = "none"
SwitchEnds ==
  /\ transitions # <<>> /\ Head(transitions).kind = "switch"
  /\ LET c == Head(transitions).client
         serial == Head(transitions).serial
     IN  IF session.serial = serial /\ session.usable
         THEN Becomes(c, AnsweredWith(request[c], "ok")) /\ UNCHANGED <<session, tree, device>>
         ELSE \/ Switches(serial) /\ Becomes(c, AnsweredWith(request[c], "ok")) /\ UNCHANGED device
              \/ LaunchStops(c, "failed") /\ UNCHANGED <<session, tree>>
  /\ transitions' = Tail(transitions)
StopEnds ==
  /\ transitions # <<>> /\ Head(transitions).kind = "stop"
  /\ LET c == Head(transitions).client
     IN  IF StillPublished(c)
         THEN /\ session' = [session EXCEPT !.usable = FALSE] /\ tree' = "none"
              /\ Becomes(c, Moves(c, "killing"))
         ELSE Becomes(c, AnsweredWith(request[c], "changed")) /\ UNCHANGED <<session, tree>>
  /\ transitions' = Tail(transitions)
  /\ UNCHANGED device

-----------------------------------------------------------------------------
RequestsNext ==
  \/ \E c \in Clients :
       \/ OrientationRoute(c) \/ NightModeRoute(c) \/ FontScaleRoute(c) \/ NetworkRoute(c)
       \/ ReduceMotionRoute(c) \/ HighTextContrastRoute(c) \/ FontWeightRoute(c)
       \/ DisplayDensityRoute(c) \/ ScreenshotRoute(c) \/ ForegroundRoute(c)
       \/ DevicesRoute(c) \/ DeviceGridRoute(c) \/ AnsweredAtOnce(c)
       \/ GestureRoute(c) \/ KeyRoute(c) \/ AccessibilityTapRoute(c) \/ AppRoute(c)
       \/ SelectRoute(c) \/ StartAvdRoute(c) \/ StopAvdRoute(c)
       \/ BodyRead(c) \/ WriteEnds(c) \/ ReadEnds(c) \/ CommandEnds(c) \/ GestureSettles(c)
       \/ TreeAborted(c) \/ NodeFound(c)
       \/ ListingEnds(c) \/ BootEnds(c) \/ Launched(c) \/ KillEnds(c)
  \/ TreeLoads \/ TreeExpires \/ Boots \/ SessionEnds \/ SwitchEnds \/ StopEnds

-----------------------------------------------------------------------------
(* Properties.                                                              *)

\* A setter that had its device to itself, and had one device all the time,
\* answers with what it was asked to set, in every one of the keys the
\* setting is made of (setNetworkEnabled, setReduceMotion): no key is left
\* behind by a loop that ends early.
HadItsDevice(c) == request[c].alone /\ request[c].since = device[request[c].serial].kills
AnsweredIsSet ==
  \A c \in Clients :
    request[c].kind = "set" /\ request[c].answer = "ok" /\ HadItsDevice(c) => request[c].read = {c}

\* An emulator that a failed or overtaken start has spawned is not left
\* running: every error after the spawn goes through the launch's stop.
FailedStartIsUndone ==
  \A c \in Clients :
    request[c].owns /\ request[c].answer \in {"failed", "changed"} => request[c].stopped

\* A route that acts on a device answers "ok" only while the session it has
\* captured is the one published (and usable, unless it only manages
\* devices): a client never takes the state of one device for another's.
AnswersAreCurrent ==
  \A c \in Clients :
    /\ request[c].answer = "none" /\ request'[c].answer = "ok"
    /\ request[c].kind \in {"set", "get", "screenshot", "foreground", "command", "gesture", "tap"}
    => request[c].gen = session'.gen /\ session'.usable

\* When the kill of an emulator begins no session streams from it: the
\* session of that device, if it is the published one, was stopped first.
KilledIsNotStreaming ==
  \A c \in Clients :
    request[c].step # "killing" /\ request'[c].step = "killing"
    => ~(session'.serial = request[c].target /\ session'.usable)
=============================================================================

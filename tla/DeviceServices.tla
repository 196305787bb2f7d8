---------------------------- MODULE DeviceServices ----------------------------
(***************************************************************************)
(* What a device state owns besides its logcat hub: the recorder of the    *)
(* session with its replays, and the route that moves the location of the  *)
(* device. Both set locations, as a client may, and all of them end when   *)
(* the last owner releases the state.                                      *)
(*                                                                         *)
(* Sources: session-recorder.ts (SessionRecorder), session-replay-api.ts,  *)
(* route-playback.ts (RoutePlayback), device-session-state.ts              *)
(* (DeviceSessionState) and their endpoints in server.ts. An event is the  *)
(* number of its bytes; a route is its number of steps; a location is who  *)
(* set it.                                                                 *)
(***************************************************************************)
EXTENDS Integers, Sequences, Sums

CONSTANTS
  EventSizes,    \* bytes of a recorded event
  EventLimit,    \* maxEvents of the recorder
  ByteLimit,     \* maxBytes of the recorder
  RouteSteps,    \* ticks from the start of a route to its end
  MaxRuns,       \* bound: routes begun or stopped
  MaxEpochs      \* bound: replays started, recordings cleared, replays stopped

ASSUME ServicesAssumption ==
  /\ EventSizes \subseteq Nat \ {0}
  /\ {EventLimit, RouteSteps, MaxRuns, MaxEpochs} \subseteq Nat \ {0}
  /\ ByteLimit \in Nat /\ ByteLimit >= 2

VARIABLES
  recorder,    \* events, retainedBytes, closed, admissionEpoch and replayStatus
  replay,      \* activeReplay: where it is in its events, and whether it is aborted
  admission,     \* a replay request whose body is being read, with its epoch
  route,       \* the state of RoutePlayback
  fixes,       \* location commands under way
  location,    \* who set lastLocation
  disposal     \* disposeTask: none, waiting, done

servicesVars == <<recorder, replay, admission, route, fixes, location, disposal>>

EmptyArrayBytes == 2
NoReplay == [step |-> "none", left |-> 0, aborted |-> FALSE]
NoRequest == [epoch |-> -1, overtaken |-> FALSE]
NoLocation == [by |-> "nobody", run |-> 0]

ServicesInit ==
  /\ recorder = [events |-> <<>>, bytes |-> EmptyArrayBytes, closed |-> FALSE,
                 epoch |-> 0, started |-> 0, status |-> "idle"]
  /\ replay = NoReplay
  /\ admission = NoRequest
  /\ route = [run |-> 0, live |-> FALSE, status |-> "idle", starting |-> 0, applying |-> 0,
              timer |-> 0, left |-> 0, loop |-> FALSE, closed |-> FALSE]
  /\ fixes = {}
  /\ location = NoLocation
  /\ disposal = "none"

Disposed == disposal # "none"
Replaying == replay.step # "none"

-----------------------------------------------------------------------------
(* The recorder.                                                            *)

\* Events leave at the front, each with the comma that separated it.
BugShifted(r) == [r EXCEPT !.events = Tail(@), !.bytes = @ - Head(r.events)]
Shifted(r) ==
  [r EXCEPT !.events = Tail(@),
            !.bytes = @ - Head(r.events) - IF Len(r.events) > 1 THEN 1 ELSE 0]

Within(r) == Len(r.events) <= EventLimit /\ r.bytes <= ByteLimit

\* r without the oldest events, as few of them as the limits allow.
Trimmed(r) ==
  LET after[n \in 0 .. Len(r.events)] == IF n = 0 THEN r ELSE Shifted(after[n - 1])
      n == CHOOSE n \in DOMAIN after :
             Within(after[n]) /\ \A m \in 0 .. n - 1 : ~Within(after[m])
  IN  after[n]

\* #record.
Recorded(r, size) ==
  IF r.closed \/ Replaying \/ EmptyArrayBytes + size > ByteLimit
  THEN r
  ELSE LET kept == Trimmed([r EXCEPT !.events = Append(@, size),
                                     !.bytes = @ + size + IF r.events = <<>> THEN 0 ELSE 1])
       IN  [r EXCEPT !.events = kept.events, !.bytes = kept.bytes]

\* A gesture that was accepted for the queue.
GestureAccepted ==
  /\ ~Disposed
  /\ \E size \in EventSizes : recorder' = Recorded(recorder, size)
  /\ UNCHANGED <<replay, admission, route, fixes, location, disposal>>

\* What came before it does not count any more for the replay requests that
\* are still reading their body.
NewEpoch(r) == [r EXCEPT !.epoch = @ + 1]
Overtaken == admission' = [admission EXCEPT !.overtaken = @ \/ admission # NoRequest]

BugClear ==
  /\ recorder.epoch < MaxEpochs /\ ~Disposed /\ ~Replaying /\ ~recorder.closed
  /\ recorder' = [recorder EXCEPT !.events = <<>>, !.bytes = EmptyArrayBytes, !.status = "idle"]
  /\ Overtaken
  /\ UNCHANGED <<replay, route, fixes, location, disposal>>
Clear ==
  /\ recorder.epoch < MaxEpochs /\ ~Disposed /\ ~Replaying /\ ~recorder.closed
  /\ recorder' = [NewEpoch(recorder) EXCEPT !.events = <<>>, !.bytes = EmptyArrayBytes,
                                            !.status = "idle"]
  /\ Overtaken
  /\ UNCHANGED <<replay, route, fixes, location, disposal>>

\* POST /api/session/replay: the epoch is read before the body.
ReplayRequested ==
  /\ admission = NoRequest /\ recorder.started < MaxEpochs
  /\ admission' = [epoch |-> recorder.epoch, overtaken |-> FALSE]
  /\ UNCHANGED <<recorder, replay, route, fixes, location, disposal>>

\* startReplay, when the body was read. The events are those of this moment.
StartReplay ==
  /\ admission # NoRequest
  /\ admission' = NoRequest
  /\ IF /\ admission.epoch = recorder.epoch /\ ~Disposed
        /\ ~recorder.closed /\ ~Replaying /\ recorder.events # <<>>
     THEN /\ replay' = [step |-> "begin", left |-> Len(recorder.events), aborted |-> FALSE]
          /\ recorder' = [recorder EXCEPT !.status = "running", !.started = @ + 1]
     ELSE UNCHANGED <<replay, recorder>>
  /\ UNCHANGED <<route, fixes, location, disposal>>

Aborted(p) == [p EXCEPT !.aborted = (p.step # "none")]

\* cancelAndWait: the request is answered when the replay has finished.
StopReplay ==
  /\ recorder.epoch < MaxEpochs
  /\ recorder' = NewEpoch(recorder)
  /\ Overtaken
  /\ replay' = Aborted(replay)
  /\ UNCHANGED <<route, fixes, location, disposal>>

ReplayEnds(outcome) ==
  /\ replay' = NoReplay
  /\ recorder' = [recorder EXCEPT !.status = outcome]

-----------------------------------------------------------------------------
(* Route playback.                                                          *)

RunActive(r) == ~route.closed /\ route.run = r /\ route.live

Invalidated(rt) == [rt EXCEPT !.run = @ + 1, !.live = FALSE, !.timer = 0]
Stopped(rt) == IF rt.closed THEN rt ELSE [Invalidated(rt) EXCEPT !.status = "idle", !.left = 0]
Shut(rt) ==
  IF rt.closed THEN rt
  ELSE [Invalidated(rt) EXCEPT !.status = "closed", !.left = 0, !.closed = TRUE]

\* scheduleTimer. An interval that is there already is replaced.
ScheduledFor(rt, r) ==
  IF rt.status = "running" /\ rt.run = r /\ rt.live /\ ~rt.closed
  THEN [rt EXCEPT !.timer = r] ELSE rt

\* applyCurrentLocation up to the command. The device state refuses at once
\* when it is disposed of, which the caller then sees as a failed command.
Applying(rt, r) == [rt EXCEPT !.applying = r]
RouteFix(kind, r) == [by |-> "route", kind |-> kind, run |-> r]

\* POST /api/route.
StartRoute ==
  /\ route.run < MaxRuns
  /\ ~route.closed /\ ~(route.starting = route.run /\ route.starting # 0)
  /\ \E loop \in BOOLEAN :
       LET rt == [Invalidated(route) EXCEPT !.live = TRUE, !.status = "running", !.loop = loop,
                                            !.left = RouteSteps, !.starting = route.run + 1]
       IN  /\ route' = Applying(rt, rt.run)
           /\ fixes' = fixes \cup {RouteFix("start", rt.run)}
  /\ UNCHANGED <<recorder, replay, admission, location, disposal>>

PauseRoute ==
  /\ ~route.closed /\ route.status = "running"
  /\ route' = [route EXCEPT !.status = "paused", !.timer = 0]
  /\ UNCHANGED <<recorder, replay, admission, fixes, location, disposal>>

BugResumeRoute ==
  /\ route.status = "paused" /\ RunActive(route.run)
  /\ LET rt == [route EXCEPT !.status = "running"]
     IN  route' = IF route.applying = route.run THEN rt ELSE ScheduledFor(rt, route.run)
  /\ UNCHANGED <<recorder, replay, admission, fixes, location, disposal>>
ResumeRoute ==
  /\ route.status = "paused" /\ RunActive(route.run)
  /\ LET rt == [route EXCEPT !.status = "running"]
     IN  route' = IF route.starting = route.run THEN rt ELSE ScheduledFor(rt, route.run)
  /\ UNCHANGED <<recorder, replay, admission, fixes, location, disposal>>

StopRoute ==
  /\ route.run < MaxRuns
  /\ route' = Stopped(route)
  /\ UNCHANGED <<recorder, replay, admission, fixes, location, disposal>>

\* The interval of the current run. A tick is skipped while its run applies;
\* the last one of a loop begins it again.
Moved(rt) ==
  IF rt.left > 1 THEN [rt EXCEPT !.left = @ - 1]
  ELSE IF rt.loop THEN [rt EXCEPT !.left = RouteSteps]
  ELSE [rt EXCEPT !.left = 0, !.status = "completed", !.timer = 0]
Tick ==
  /\ route.timer # 0
  /\ RunActive(route.timer) /\ route.status = "running" /\ route.applying # route.timer
  /\ route' = Applying(Moved(route), route.run)
  /\ fixes' = fixes \cup {RouteFix("tick", route.run)}
  /\ UNCHANGED <<recorder, replay, admission, location, disposal>>

\* The command of a run is answered. A run that is no longer active, or a
\* command that was aborted with it, changes nothing.
BugRouteFixEnds(f, ok) ==
  LET r == f.run
      rt == [route EXCEPT !.applying = IF @ = r THEN 0 ELSE @,
                          !.starting = IF f.kind = "start" /\ @ = r THEN 0 ELSE @]
  IN  IF ok /\ ~Disposed
      THEN /\ location' = [by |-> "route", run |-> r]
           /\ route' = IF f.kind = "start" THEN ScheduledFor(rt, r) ELSE rt
      ELSE /\ route' = IF RunActive(r) THEN [rt EXCEPT !.status = "error", !.timer = 0] ELSE rt
           /\ UNCHANGED location
RouteFixEnds(f, ok) ==
  LET r == f.run
      rt == [route EXCEPT !.applying = IF @ = r THEN 0 ELSE @,
                          !.starting = IF f.kind = "start" /\ @ = r THEN 0 ELSE @]
  IN  IF ~RunActive(r)
      THEN route' = rt /\ UNCHANGED location
      ELSE IF ok /\ ~Disposed
      THEN /\ location' = [by |-> "route", run |-> r]
           /\ route' = IF f.kind = "start" THEN ScheduledFor(rt, r) ELSE rt
      ELSE /\ route' = [rt EXCEPT !.status = "error", !.timer = 0]
           /\ UNCHANGED location

-----------------------------------------------------------------------------
(* Locations.                                                               *)

ClientFix == [by |-> "client", kind |-> "client", run |-> 0]
ReplayFix == [by |-> "replay", kind |-> "replay", run |-> 0]

\* POST /api/location: the route gives way to the client.
ClientSetsLocation ==
  /\ ~Disposed /\ ClientFix \notin fixes /\ route.run < MaxRuns
  /\ route' = Stopped(route)
  /\ fixes' = fixes \cup {ClientFix}
  /\ UNCHANGED <<recorder, replay, admission, location, disposal>>

\* A location that was set is recorded, unless a replay or the end came between.
ClientFixEnds(ok) ==
  /\ IF ok /\ ~Disposed
     THEN /\ location' = [by |-> "client", run |-> 0]
          /\ \E size \in EventSizes : recorder' = Recorded(recorder, size)
     ELSE UNCHANGED <<location, recorder>>
  /\ UNCHANGED <<replay, admission, route>>

\* A location command of adb ends, well or not; one whose signal was aborted
\* may have reached the device all the same.
FixEnds ==
  /\ \E f \in fixes, ok \in BOOLEAN :
       /\ f.by # "replay"
       /\ fixes' = fixes \ {f}
       /\ \/ /\ f.by = "client" /\ ClientFixEnds(ok)
          \/ /\ f.by = "route" /\ RouteFixEnds(f, ok)
             /\ UNCHANGED <<recorder, replay, admission>>
  /\ UNCHANGED disposal

-----------------------------------------------------------------------------
(* A replay runs.                                                           *)

NextEvent(p) == IF p.left = 0 THEN p ELSE [p EXCEPT !.step = "delay"]

\* The microtask that begins, or the delay before an event that is over or cut
\* short by the abort.
ReplayBegins ==
  /\ replay.step = "begin"
  /\ IF replay.aborted THEN ReplayEnds("cancelled")
     ELSE replay' = NextEvent(replay) /\ UNCHANGED recorder
  /\ UNCHANGED <<admission, route, fixes, location, disposal>>

BugDelayEnds ==
  /\ replay.step = "delay"
  /\ replay' = [replay EXCEPT !.step = "gesture", !.left = @ - 1]
  /\ UNCHANGED <<recorder, admission, route, fixes, location, disposal>>
DelayEnds ==
  /\ replay.step = "delay"
  /\ IF replay.aborted
     THEN ReplayEnds("cancelled") /\ UNCHANGED <<route, fixes>>
     ELSE /\ UNCHANGED recorder
          /\ \/ /\ replay' = [replay EXCEPT !.step = "gesture", !.left = @ - 1]
                /\ UNCHANGED <<route, fixes>>
             \/ /\ replay' = [replay EXCEPT !.step = "location", !.left = @ - 1]
                /\ route.run < MaxRuns
                /\ route' = Stopped(route)
                /\ fixes' = fixes \cup {ReplayFix}
  /\ UNCHANGED <<admission, location, disposal>>

\* dispatchGesture or setLocation is answered: the next event, or the end.
HandlerSettles ==
  /\ replay.step \in {"gesture", "location"}
  /\ fixes' = fixes \ {ReplayFix}
  /\ \E ok \in BOOLEAN :
       /\ location' = IF ok /\ replay.step = "location" /\ ~replay.aborted
                      THEN [by |-> "replay", run |-> 0] ELSE location
       /\ IF replay.aborted THEN ReplayEnds("cancelled")
          ELSE IF ~ok THEN ReplayEnds("error")
          ELSE IF replay.left = 0 THEN ReplayEnds("completed")
          ELSE replay' = NextEvent(replay) /\ UNCHANGED recorder
  /\ UNCHANGED <<admission, route, disposal>>

-----------------------------------------------------------------------------
(* The end of the device state.                                             *)

\* The last owner releases the state: everything is told to stop, and the
\* replay is waited for.
BugDispose ==
  /\ ~Disposed
  /\ route' = Stopped(route)
  /\ recorder' = [NewEpoch(recorder) EXCEPT !.closed = TRUE]
  /\ replay' = Aborted(replay)
  /\ Overtaken
  /\ disposal' = "waiting"
  /\ UNCHANGED <<fixes, location>>
Dispose ==
  /\ ~Disposed
  /\ route' = Shut(Stopped(route))
  /\ recorder' = [NewEpoch(recorder) EXCEPT !.closed = TRUE]
  /\ replay' = Aborted(replay)
  /\ Overtaken
  /\ disposal' = "waiting"
  /\ UNCHANGED <<fixes, location>>

DisposalEnds ==
  /\ disposal = "waiting" /\ ~Replaying
  /\ route' = Shut(Stopped(route))
  /\ disposal' = "done"
  /\ UNCHANGED <<recorder, replay, admission, fixes, location>>

ServicesNext ==
  \/ GestureAccepted \/ Clear \/ ReplayRequested \/ StartReplay \/ StopReplay
  \/ StartRoute \/ PauseRoute \/ ResumeRoute \/ StopRoute \/ Tick
  \/ ClientSetsLocation \/ FixEnds
  \/ ReplayBegins \/ DelayEnds \/ HandlerSettles
  \/ Dispose \/ DisposalEnds

-----------------------------------------------------------------------------
(* Properties.                                                              *)

\* What the recorder says it holds is what its events would take as JSON, and
\* it is within its limits, however events came, left or were cleared.
JsonBytes(events) ==
  EmptyArrayBytes + Total(events) + IF events = <<>> THEN 0 ELSE Len(events) - 1
RecorderKeepsItsBooks ==
  /\ Len(recorder.events) <= EventLimit
  /\ recorder.bytes <= ByteLimit
  /\ recorder.bytes = JsonBytes(recorder.events)

\* A route that runs has the interval that moves it, and no other interval is
\* left behind, whatever the order of starts, pauses, stops and answers.
RouteKeepsMoving ==
  /\ route.status = "running" /\ route.starting # route.run => route.timer = route.run
  /\ route.timer # 0 => route.status = "running" /\ RunActive(route.timer)

\* A replay is never started by a request that the user has overtaken by
\* stopping replays or clearing the recording, and one that is told to stop
\* never begins another event.
ReplayIsWanted ==
  /\ (~Replaying /\ replay'.step # "none") => ~admission.overtaken
  /\ replay.aborted => replay'.step \in {replay.step, "none"}

\* A location is reported by a route only while it is the current one.
ReportedByCurrentRoute ==
  location' # location /\ location'.by = "route" => RunActive(location'.run) /\ ~Disposed

\* When a device state is disposed of nothing of it acts on the device again.
DisposedIsQuiet ==
  /\ Disposed => route.timer = 0 /\ route.closed /\ recorder.closed
  /\ disposal = "done" => ~Replaying /\ ReplayFix \notin fixes
=============================================================================

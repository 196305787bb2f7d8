----------------------------- MODULE Devices_proofs -----------------------------
(***************************************************************************)
(* Proofs about the components between the server and a device: what the   *)
(* server does for it (recorder, replay and routes, camera feeds, logcat,  *)
(* staged files), the gRPC channel, the screenshot region, the scrcpy      *)
(* framing and the encoder's output. Each has an invariant of its own that *)
(* its steps keep, whatever the values of its constants; Components_proofs *)
(* composes them.                                                          *)
(***************************************************************************)
EXTENDS DeviceServices, CameraFeeds, LogcatHub, RequestBodies, GrpcChannel, ScreenshotRegion,
        StreamFraming, EncoderOutput,
        Sums_proofs, FiniteSetTheorems, SequenceTheorems, NaturalsInduction, WellFoundedInduction, TLAPS

-----------------------------------------------------------------------------
(* DeviceServices. A route that was shut has no run and no interval, and    *)
(* only a replay that sets a location has one under way. What the recorder  *)
(* holds has an invariant of its own, RecorderOK.                           *)

RecorderRecord(r) ==
  [events : {r.events}, bytes : {r.bytes}, closed : BOOLEAN, epoch : {r.epoch},
   started : {r.started}, status : {r.status}]
ReplayRecord(p) ==
  [step : {"none", "begin", "delay", "gesture", "location"}, left : {p.left}, aborted : BOOLEAN]
RouteRecord ==
  [run : Nat, live : BOOLEAN, status : {"idle", "running", "paused", "completed", "error", "closed"},
   starting : Nat, applying : Nat, timer : Nat, left : Nat, loop : BOOLEAN, closed : BOOLEAN]

\* The run that is running is the live one, and only its interval is set.
RouteOK(rt) ==
  /\ rt \in RouteRecord
  /\ rt.status = "running" => rt.live /\ ~rt.closed
  /\ rt.status = "running" /\ rt.starting # rt.run => rt.timer = rt.run
  /\ rt.timer # 0 => rt.status = "running" /\ rt.timer = rt.run

ServicesInv ==
  /\ recorder \in RecorderRecord(recorder) /\ replay \in ReplayRecord(replay)
  /\ RouteOK(route)
  /\ disposal \in {"none", "waiting", "done"}
  /\ disposal # "none" => route.closed /\ recorder.closed
  /\ disposal = "done" => replay.step = "none"
  /\ ReplayFix \in fixes => replay.step = "location"

LEMMA ServicesStart == ServicesInit => ServicesInv
<1>1. ASSUME ServicesInit PROVE ServicesInv
  <2>1. recorder \in RecorderRecord(recorder) BY <1>1 DEF ServicesInit, RecorderRecord
  <2>2. replay \in ReplayRecord(replay) BY <1>1 DEF ServicesInit, NoReplay, ReplayRecord
  <2>3. RouteOK(route) BY <1>1 DEF ServicesInit, RouteOK, RouteRecord
  <2> QED BY <1>1, <2>1, <2>2, <2>3 DEF ServicesInit, ServicesInv
<1> QED BY <1>1

LEMMA InvalidatedIs ==
  ASSUME NEW rt \in RouteRecord
  PROVE  LET x == Invalidated(rt)
         IN  /\ x \in RouteRecord /\ x.timer = 0 /\ x.closed = rt.closed /\ x.run = rt.run + 1
             /\ ~x.live
<1>. DEFINE n == rt.run + 1
<1>1. Invalidated(rt) = [rt EXCEPT !.run = n, !.live = FALSE, !.timer = 0]
  BY DEF Invalidated, RouteRecord
<1>2. n \in Nat BY DEF RouteRecord
<1>. HIDE DEF n
<1>. DEFINE x == Invalidated(rt)
<1>3. x = [rt EXCEPT !.run = n, !.live = FALSE, !.timer = 0] BY <1>1
<1>. HIDE DEF x
<1>4. x \in RouteRecord /\ x.timer = 0 /\ x.closed = rt.closed /\ x.run = n /\ ~x.live
  BY <1>2, <1>3 DEF RouteRecord
<1> QED BY <1>4 DEF n, x

LEMMA RouteStopped ==
  ASSUME NEW rt, RouteOK(rt)
  PROVE  LET x == Stopped(rt)
         IN  RouteOK(x) /\ x.timer = 0 /\ x.closed = rt.closed
<1>1. CASE rt.closed BY <1>1 DEF Stopped, RouteOK, RouteRecord
<1>2. CASE ~rt.closed
  <2>. DEFINE y == Invalidated(rt)
              x == [y EXCEPT !.status = "idle", !.left = 0]
  <2>1. Stopped(rt) = x BY <1>2 DEF Stopped
  <2>2. y \in RouteRecord /\ y.timer = 0 /\ y.closed = rt.closed BY InvalidatedIs DEF RouteOK
  <2>. HIDE DEF y
  <2>3. x \in RouteRecord /\ x.timer = 0 /\ x.closed = rt.closed /\ x.status = "idle"
    BY <2>2 DEF RouteRecord
  <2>. HIDE DEF x
  <2> QED BY <2>1, <2>3 DEF RouteOK
<1> QED BY <1>1, <1>2

LEMMA ShutIs ==
  ASSUME NEW rt, RouteOK(rt)
  PROVE  LET x == Shut(rt)
         IN  RouteOK(x) /\ x.timer = 0 /\ x.closed
<1>1. CASE rt.closed BY <1>1 DEF Shut, RouteOK, RouteRecord
<1>2. CASE ~rt.closed
  <2>. DEFINE y == Invalidated(rt)
              x == [y EXCEPT !.status = "closed", !.left = 0, !.closed = TRUE]
  <2>1. Shut(rt) = x BY <1>2 DEF Shut
  <2>2. y \in RouteRecord /\ y.timer = 0 BY InvalidatedIs DEF RouteOK
  <2>. HIDE DEF y
  <2>3. x \in RouteRecord /\ x.timer = 0 /\ x.closed /\ x.status = "closed"
    BY <2>2 DEF RouteRecord
  <2>. HIDE DEF x
  <2> QED BY <2>1, <2>3 DEF RouteOK
<1> QED BY <1>1, <1>2

LEMMA ScheduledIs ==
  ASSUME NEW rt \in RouteRecord, NEW r,
         rt.status = "running" => rt.live /\ ~rt.closed /\ rt.run = r,
         rt.timer # 0 => rt.status = "running" /\ rt.timer = rt.run
  PROVE  LET x == ScheduledFor(rt, r)
         IN  RouteOK(x) /\ x.closed = rt.closed
<1>1. CASE rt.status = "running"
  <2>. DEFINE x == [rt EXCEPT !.timer = r]
  <2>1. ScheduledFor(rt, r) = x BY <1>1 DEF ScheduledFor
  <2>2. /\ x \in RouteRecord /\ x.timer = rt.run /\ x.run = rt.run /\ x.status = "running"
        /\ x.live /\ ~x.closed /\ x.closed = rt.closed
    BY <1>1 DEF RouteRecord
  <2>. HIDE DEF x
  <2> QED BY <2>1, <2>2 DEF RouteOK
<1>2. CASE rt.status # "running"
  <2>1. ScheduledFor(rt, r) = rt BY <1>2 DEF ScheduledFor
  <2> QED BY <1>2, <2>1 DEF RouteOK
<1> QED BY <1>1, <1>2

\* A route moves on, and what the rest of the state holds is kept.
LEMMA RouteMoves ==
  ASSUME ServicesInv, RouteOK(route'), route.closed => route'.closed,
         ReplayFix \in fixes' => ReplayFix \in fixes,
         UNCHANGED <<recorder, replay, disposal>>
  PROVE  ServicesInv'
<1>1. ReplayFix' = ReplayFix BY DEF ReplayFix
<1> QED BY <1>1 DEF ServicesInv, RecorderRecord, ReplayRecord

\* The recorder moves on.
LEMMA RecorderMoves ==
  ASSUME ServicesInv, recorder' \in RecorderRecord(recorder'), recorder.closed => recorder'.closed,
         UNCHANGED <<replay, route, fixes, disposal>>
  PROVE  ServicesInv'
<1>1. ReplayFix' = ReplayFix BY DEF ReplayFix
<1> QED BY <1>1 DEF ServicesInv, ReplayRecord

LEMMA RecordedIs ==
  ASSUME NEW r, r \in RecorderRecord(r), NEW size
  PROVE  LET x == Recorded(r, size)
         IN  x \in RecorderRecord(x) /\ x.closed = r.closed
<1>. DEFINE kept == Trimmed([r EXCEPT !.events = Append(@, size),
                                      !.bytes = @ + size + IF r.events = <<>> THEN 0 ELSE 1])
            e == kept.events
            b == kept.bytes
<1>1. Recorded(r, size) = r \/ Recorded(r, size) = [r EXCEPT !.events = e, !.bytes = b]
  BY DEF Recorded
<1>. HIDE DEF e, b
<1> QED BY <1>1 DEF RecorderRecord

LEMMA NewEpochIs ==
  ASSUME NEW r, r \in RecorderRecord(r)
  PROVE  LET x == NewEpoch(r)
         IN  x \in RecorderRecord(x) /\ x.closed = r.closed
<1>. DEFINE e == r.epoch + 1
<1>1. NewEpoch(r) = [r EXCEPT !.epoch = e] BY DEF NewEpoch, RecorderRecord
<1>. HIDE DEF e
<1> QED BY <1>1 DEF RecorderRecord

LEMMA RouteStarts == ASSUME ServicesInv, StartRoute PROVE ServicesInv'
<1>1. RouteOK(route) /\ ~route.closed BY DEF ServicesInv, StartRoute
<1>2. PICK loop \in BOOLEAN :
        LET rt == [Invalidated(route) EXCEPT !.live = TRUE, !.status = "running", !.loop = loop,
                                             !.left = RouteSteps, !.starting = route.run + 1]
        IN  /\ route' = Applying(rt, rt.run)
            /\ fixes' = fixes \cup {RouteFix("start", rt.run)}
  BY DEF StartRoute
<1>. DEFINE n == route.run + 1
            y == Invalidated(route)
            z == [y EXCEPT !.live = TRUE, !.status = "running", !.loop = loop, !.left = RouteSteps,
                           !.starting = n]
            x == [z EXCEPT !.applying = n]
<1>3. y \in RouteRecord /\ y.timer = 0 /\ ~y.closed /\ y.run = n
  BY <1>1, InvalidatedIs DEF RouteOK
<1>4. n \in Nat /\ RouteSteps \in Nat BY <1>1, ServicesAssumption DEF RouteOK, RouteRecord
<1>5. route' = Applying(z, z.run) /\ fixes' = fixes \cup {RouteFix("start", z.run)} BY <1>2
<1>. HIDE DEF n, y
<1>6. /\ z \in RouteRecord /\ z.status = "running" /\ z.live /\ ~z.closed /\ z.timer = 0
      /\ z.starting = n /\ z.run = n
  BY <1>3, <1>4 DEF RouteRecord
<1>. HIDE DEF z
<1>7. route' = x BY <1>5, <1>6 DEF Applying
<1>8. /\ x \in RouteRecord /\ x.status = "running" /\ x.live /\ ~x.closed /\ x.timer = 0
      /\ x.starting = x.run
  BY <1>4, <1>6 DEF RouteRecord
<1>. HIDE DEF x
<1>9. RouteOK(route') BY <1>7, <1>8 DEF RouteOK
<1>10. ReplayFix \in fixes' => ReplayFix \in fixes BY <1>5 DEF RouteFix, ReplayFix
<1> QED BY <1>1, <1>9, <1>10, RouteMoves DEF StartRoute

LEMMA RouteRests ==
  ASSUME ServicesInv, PauseRoute \/ ResumeRoute \/ StopRoute
  PROVE  ServicesInv'
<1>1. RouteOK(route) /\ route \in RouteRecord BY DEF ServicesInv, RouteOK
<1>2. UNCHANGED <<fixes, recorder, replay, disposal>> BY DEF PauseRoute, ResumeRoute, StopRoute
<1>3. CASE PauseRoute
  <2>1. route' = [route EXCEPT !.status = "paused", !.timer = 0] BY <1>3 DEF PauseRoute
  <2>2. /\ route' \in RouteRecord /\ route'.status = "paused" /\ route'.timer = 0
        /\ route'.closed = route.closed
    BY <1>1, <2>1 DEF RouteRecord
  <2>3. RouteOK(route') BY <2>2 DEF RouteOK
  <2> QED BY <1>2, <2>2, <2>3, RouteMoves
<1>4. CASE ResumeRoute
  <2>. DEFINE rt == [route EXCEPT !.status = "running"]
  <2>1. /\ route.status = "paused" /\ route.live /\ ~route.closed
        /\ route' = IF route.starting = route.run THEN rt ELSE ScheduledFor(rt, route.run)
    BY <1>4 DEF ResumeRoute, RunActive
  <2>2. route.timer = 0 BY <1>1, <2>1 DEF RouteOK
  <2>3. /\ rt \in RouteRecord /\ rt.status = "running" /\ rt.run = route.run /\ rt.timer = 0
        /\ rt.starting = route.starting /\ rt.live /\ ~rt.closed
    BY <1>1, <2>1, <2>2 DEF RouteRecord
  <2>. HIDE DEF rt
  <2>4. CASE route.starting = route.run
    <3>1. RouteOK(rt) BY <2>3, <2>4 DEF RouteOK
    <3> QED BY <1>2, <2>1, <2>3, <2>4, <3>1, RouteMoves
  <2>5. CASE route.starting # route.run
    <3>1. RouteOK(route') BY <2>1, <2>3, <2>5, ScheduledIs
    <3> QED BY <1>2, <2>1, <3>1, RouteMoves
  <2> QED BY <2>4, <2>5
<1>5. CASE StopRoute
  <2>1. route' = Stopped(route) BY <1>5 DEF StopRoute
  <2>2. RouteOK(route') /\ route'.closed = route.closed BY <1>1, <2>1, RouteStopped
  <2> QED BY <1>2, <2>2, RouteMoves
<1> QED BY <1>3, <1>4, <1>5

LEMMA RouteTicks == ASSUME ServicesInv, Tick PROVE ServicesInv'
<1>1. RouteOK(route) /\ route \in RouteRecord BY DEF ServicesInv, RouteOK
<1>2. /\ route.timer # 0 /\ RunActive(route.timer) /\ route.status = "running"
      /\ route' = Applying(Moved(route), route.run)
      /\ fixes' = fixes \cup {RouteFix("tick", route.run)}
      /\ UNCHANGED <<recorder, replay, admission, location, disposal>>
  BY DEF Tick
<1>3. ~route.closed /\ route.live BY <1>2 DEF RunActive
<1>. DEFINE n == route.left - 1
            k == route.run
<1>4. (route.left > 1 => n \in Nat) /\ k \in Nat /\ RouteSteps \in Nat
  BY <1>1, ServicesAssumption DEF RouteRecord
<1>5. \/ route.left > 1 /\ route' = [route EXCEPT !.left = n, !.applying = k]
      \/ route' = [route EXCEPT !.left = RouteSteps, !.applying = k]
      \/ route' = [route EXCEPT !.left = 0, !.status = "completed", !.timer = 0, !.applying = k]
  BY <1>1, <1>2 DEF Moved, Applying, RouteRecord
<1>. HIDE DEF n, k
<1>6. RouteOK(route')
  <2>1. ASSUME NEW l \in Nat, route' = [route EXCEPT !.left = l, !.applying = k] PROVE RouteOK(route')
    <3>1. /\ route' \in RouteRecord /\ route'.status = route.status /\ route'.live = route.live
          /\ route'.closed = route.closed /\ route'.run = route.run /\ route'.timer = route.timer
          /\ route'.starting = route.starting
      BY <1>1, <1>4, <2>1 DEF RouteRecord
    <3> QED BY <1>1, <3>1 DEF RouteOK
  <2>2. ASSUME route' = [route EXCEPT !.left = 0, !.status = "completed", !.timer = 0, !.applying = k]
        PROVE  RouteOK(route')
    <3>1. route' \in RouteRecord /\ route'.status = "completed" /\ route'.timer = 0
      BY <1>1, <1>4, <2>2 DEF RouteRecord
    <3> QED BY <3>1 DEF RouteOK
  <2> QED BY <1>4, <1>5, <2>1, <2>2
<1>7. ReplayFix \in fixes' => ReplayFix \in fixes BY <1>2 DEF RouteFix, ReplayFix
<1> QED BY <1>2, <1>3, <1>6, <1>7, RouteMoves

\* The command of a run is answered: whatever is left of it belongs to another run, or it
\* is the one that moves the route on.
LEMMA RouteFixIs ==
  ASSUME RouteOK(route), NEW f, NEW ok \in BOOLEAN, RouteFixEnds(f, ok)
  PROVE  RouteOK(route') /\ route'.closed = route.closed
<1>. DEFINE r == f.run
            ap == IF route.applying = r THEN 0 ELSE route.applying
            st == IF f.kind = "start" /\ route.starting = r THEN 0 ELSE route.starting
            rt == [route EXCEPT !.applying = ap, !.starting = st]
            failed == [rt EXCEPT !.status = "error", !.timer = 0]
<1>1. \/ ~RunActive(r) /\ route' = rt
      \/ RunActive(r) /\ f.kind = "start" /\ route' = ScheduledFor(rt, r)
      \/ RunActive(r) /\ f.kind # "start" /\ route' = rt
      \/ route' = failed
  BY DEF RouteFixEnds, RouteOK, RouteRecord
<1>2. route \in RouteRecord /\ ap \in Nat /\ st \in Nat BY DEF RouteOK, RouteRecord
<1>3. st = route.starting \/ (f.kind = "start" /\ route.starting = r /\ st = 0) OBVIOUS
<1>. HIDE DEF ap, st
<1>4. /\ rt \in RouteRecord /\ rt.status = route.status /\ rt.live = route.live
      /\ rt.closed = route.closed /\ rt.run = route.run /\ rt.timer = route.timer
      /\ rt.starting = st
  BY <1>2 DEF RouteRecord
<1>5. /\ failed \in RouteRecord /\ failed.status = "error" /\ failed.timer = 0
      /\ failed.closed = route.closed
  BY <1>2 DEF RouteRecord
<1>. HIDE DEF rt, failed
<1>6. CASE ~RunActive(r) /\ route' = rt
  <2>1. route.status = "running" => route.run # r BY <1>6 DEF RunActive, RouteOK
  <2> QED BY <1>3, <1>4, <1>6, <2>1 DEF RouteOK
<1>7. CASE RunActive(r) /\ f.kind = "start" /\ route' = ScheduledFor(rt, r)
  <2>1. route.run = r BY <1>7 DEF RunActive
  <2>2. /\ rt.status = "running" => rt.live /\ ~rt.closed /\ rt.run = r
        /\ rt.timer # 0 => rt.status = "running" /\ rt.timer = rt.run
    BY <1>4, <2>1 DEF RouteOK
  <2>. HIDE DEF r
  <2> QED BY <1>4, <1>7, <2>2, ScheduledIs
<1>8. CASE RunActive(r) /\ f.kind # "start" /\ route' = rt BY <1>3, <1>4, <1>8 DEF RouteOK
<1>9. CASE route' = failed BY <1>5, <1>9 DEF RouteOK
<1> QED BY <1>1, <1>6, <1>7, <1>8, <1>9

LEMMA FixEndsIs == ASSUME ServicesInv, FixEnds PROVE ServicesInv'
<1>1. PICK f \in fixes, ok \in BOOLEAN :
        /\ f.by # "replay"
        /\ fixes' = fixes \ {f}
        /\ \/ /\ f.by = "client" /\ ClientFixEnds(ok)
           \/ /\ f.by = "route" /\ RouteFixEnds(f, ok)
              /\ UNCHANGED <<recorder, replay, admission>>
  BY DEF FixEnds
<1>2. UNCHANGED disposal BY DEF FixEnds
<1>3. ReplayFix \in fixes' => ReplayFix \in fixes BY <1>1
<1>4. CASE f.by = "route" /\ RouteFixEnds(f, ok) /\ UNCHANGED <<recorder, replay, admission>>
  <2>1. RouteOK(route) BY DEF ServicesInv
  <2>2. RouteOK(route') /\ route'.closed = route.closed BY <1>4, <2>1, RouteFixIs
  <2> QED BY <1>2, <1>3, <1>4, <2>2, RouteMoves
<1>5. CASE f.by = "client" /\ ClientFixEnds(ok)
  <2>1. UNCHANGED <<replay, route>> BY <1>5 DEF ClientFixEnds
  <2>2. recorder' \in RecorderRecord(recorder') /\ (recorder.closed => recorder'.closed)
    <3>1. recorder \in RecorderRecord(recorder) BY DEF ServicesInv
    <3>2. recorder' = recorder \/ \E size \in EventSizes : recorder' = Recorded(recorder, size)
      BY <1>5 DEF ClientFixEnds
    <3> QED BY <3>1, <3>2, RecordedIs
  <2>3. ReplayFix' = ReplayFix BY DEF ReplayFix
  <2> QED BY <1>2, <1>3, <2>1, <2>2, <2>3 DEF ServicesInv, ReplayRecord
<1> QED BY <1>1, <1>4, <1>5

LEMMA ReplayIs ==
  ASSUME NEW p, p \in ReplayRecord(p)
  PROVE  /\ LET x == Aborted(p)
            IN  x \in ReplayRecord(x) /\ x.step = p.step
         /\ LET x == NextEvent(p)
            IN  x \in ReplayRecord(x) /\ x.step \in {p.step, "delay"}
         /\ NoReplay \in ReplayRecord(NoReplay) /\ NoReplay.step = "none"
         /\ \A s \in {"gesture", "location"} :
              LET x == [p EXCEPT !.step = s, !.left = @ - 1]
              IN  x \in ReplayRecord(x) /\ x.step = s
<1>1. LET x == Aborted(p) IN x \in ReplayRecord(x) /\ x.step = p.step
  <2>. DEFINE b == p.step # "none"
  <2>1. Aborted(p) = [p EXCEPT !.aborted = b] /\ b \in BOOLEAN BY DEF Aborted
  <2>. HIDE DEF b
  <2> QED BY <2>1 DEF ReplayRecord
<1>2. LET x == NextEvent(p) IN x \in ReplayRecord(x) /\ x.step \in {p.step, "delay"}
  <2>1. NextEvent(p) = p \/ NextEvent(p) = [p EXCEPT !.step = "delay"] BY DEF NextEvent
  <2> QED BY <2>1 DEF ReplayRecord
<1>3. NoReplay \in ReplayRecord(NoReplay) /\ NoReplay.step = "none" BY DEF NoReplay, ReplayRecord
<1>4. ASSUME NEW s \in {"gesture", "location"}
      PROVE  LET x == [p EXCEPT !.step = s, !.left = @ - 1]
             IN  x \in ReplayRecord(x) /\ x.step = s
  <2>. DEFINE l == p.left - 1
              x == [p EXCEPT !.step = s, !.left = l]
  <2>1. [p EXCEPT !.step = s, !.left = @ - 1] = x BY DEF ReplayRecord
  <2>. HIDE DEF l
  <2>2. x \in ReplayRecord(x) /\ x.step = s BY DEF ReplayRecord
  <2> QED BY <2>1, <2>2
<1> QED BY <1>1, <1>2, <1>3, <1>4

\* The replay and the recorder move on together.
LEMMA ReplayMoves ==
  ASSUME ServicesInv, recorder' \in RecorderRecord(recorder'), recorder'.closed = recorder.closed,
         replay' \in ReplayRecord(replay'), RouteOK(route'), route.closed => route'.closed,
         disposal = "done" => replay'.step = "none",
         ReplayFix \in fixes' => replay'.step = "location", UNCHANGED disposal
  PROVE  ServicesInv'
<1>1. ReplayFix' = ReplayFix BY DEF ReplayFix
<1> QED BY <1>1 DEF ServicesInv

\* The status of the recorder is that of its last replay.
LEMMA StatusIs ==
  ASSUME NEW r, r \in RecorderRecord(r), NEW s
  PROVE  LET x == [r EXCEPT !.status = s]
         IN  x \in RecorderRecord(x) /\ x.closed = r.closed
BY DEF RecorderRecord

LEMMA StartReplayIs == ASSUME ServicesInv, StartReplay PROVE ServicesInv'
<1>1. recorder \in RecorderRecord(recorder) /\ replay \in ReplayRecord(replay) /\ RouteOK(route)
  BY DEF ServicesInv
<1>2. UNCHANGED <<route, fixes, disposal>> BY DEF StartReplay
<1>3. \/ UNCHANGED <<replay, recorder>>
      \/ /\ disposal = "none" /\ replay.step = "none"
         /\ replay' = [step |-> "begin", left |-> Len(recorder.events), aborted |-> FALSE]
         /\ recorder' = [recorder EXCEPT !.status = "running", !.started = @ + 1]
  BY DEF StartReplay, Disposed, Replaying
<1>4. CASE UNCHANGED <<replay, recorder>>
  <2>1. ReplayFix' = ReplayFix BY DEF ReplayFix
  <2> QED BY <1>2, <1>4, <2>1 DEF ServicesInv, RecorderRecord, ReplayRecord
<1>5. CASE /\ disposal = "none" /\ replay.step = "none"
           /\ replay' = [step |-> "begin", left |-> Len(recorder.events), aborted |-> FALSE]
           /\ recorder' = [recorder EXCEPT !.status = "running", !.started = @ + 1]
  <2>. DEFINE l == Len(recorder.events)
              n == recorder.started + 1
  <2>1. /\ replay' = [step |-> "begin", left |-> l, aborted |-> FALSE]
        /\ recorder' = [recorder EXCEPT !.status = "running", !.started = n]
    BY <1>1, <1>5 DEF RecorderRecord
  <2>. HIDE DEF l, n
  <2>2. replay' \in ReplayRecord(replay') /\ replay'.step = "begin" BY <2>1 DEF ReplayRecord
  <2>3. recorder' \in RecorderRecord(recorder') /\ recorder'.closed = recorder.closed
    BY <1>1, <2>1 DEF RecorderRecord
  <2>4. ReplayFix \notin fixes' BY <1>2, <1>5 DEF ServicesInv
  <2> QED BY <1>1, <1>2, <1>5, <2>2, <2>3, <2>4, ReplayMoves
<1> QED BY <1>3, <1>4, <1>5

LEMMA StopReplayIs == ASSUME ServicesInv, StopReplay PROVE ServicesInv'
<1>1. recorder \in RecorderRecord(recorder) /\ replay \in ReplayRecord(replay) /\ RouteOK(route)
  BY DEF ServicesInv
<1>2. /\ recorder' = NewEpoch(recorder) /\ replay' = Aborted(replay)
      /\ UNCHANGED <<route, fixes, location, disposal>>
  BY DEF StopReplay
<1>3. recorder' \in RecorderRecord(recorder') /\ recorder'.closed = recorder.closed
  BY <1>1, <1>2, NewEpochIs
<1>4. replay' \in ReplayRecord(replay') /\ replay'.step = replay.step BY <1>1, <1>2, ReplayIs
<1>5. ReplayFix \in fixes' => replay'.step = "location" BY <1>2, <1>4 DEF ServicesInv, ReplayFix
<1>6. disposal = "done" => replay'.step = "none" BY <1>4 DEF ServicesInv
<1> QED BY <1>1, <1>2, <1>3, <1>4, <1>5, <1>6, ReplayMoves

LEMMA ReplayEndsIs ==
  ASSUME ServicesInv, NEW o, ReplayEnds(o)
  PROVE  /\ recorder' \in RecorderRecord(recorder') /\ recorder'.closed = recorder.closed
         /\ replay' \in ReplayRecord(replay') /\ replay'.step = "none"
<1>1. recorder \in RecorderRecord(recorder) /\ replay \in ReplayRecord(replay) BY DEF ServicesInv
<1>2. replay' = NoReplay /\ recorder' = [recorder EXCEPT !.status = o] BY DEF ReplayEnds
<1>3. recorder' \in RecorderRecord(recorder') /\ recorder'.closed = recorder.closed
  BY <1>1, <1>2, StatusIs
<1> QED BY <1>1, <1>2, <1>3, ReplayIs

LEMMA ReplayRuns == ASSUME ServicesInv, ReplayBegins \/ DelayEnds \/ HandlerSettles PROVE ServicesInv'
<1>1. recorder \in RecorderRecord(recorder) /\ replay \in ReplayRecord(replay) /\ RouteOK(route)
  BY DEF ServicesInv
<1>2. CASE ReplayBegins
  <2>1. replay.step = "begin" /\ UNCHANGED <<route, fixes, disposal>> BY <1>2 DEF ReplayBegins
  <2>2. ReplayFix \notin fixes /\ ReplayFix \notin fixes' BY <2>1 DEF ServicesInv, ReplayFix
  <2>3. disposal # "done" BY <2>1 DEF ServicesInv
  <2>4. CASE ReplayEnds("cancelled") BY <1>1, <2>1, <2>2, <2>3, <2>4, ReplayEndsIs, ReplayMoves
  <2>5. CASE replay' = NextEvent(replay) /\ UNCHANGED recorder
    <3>1. replay' \in ReplayRecord(replay') BY <1>1, <2>5, ReplayIs
    <3>2. recorder' \in RecorderRecord(recorder') /\ recorder'.closed = recorder.closed BY <1>1, <2>5
    <3> QED BY <1>1, <2>1, <2>2, <2>3, <3>1, <3>2, ReplayMoves
  <2> QED BY <1>2, <2>4, <2>5 DEF ReplayBegins
<1>3. CASE DelayEnds
  <2>1. replay.step = "delay" /\ UNCHANGED <<disposal>> BY <1>3 DEF DelayEnds
  <2>2. ReplayFix \notin fixes BY <2>1 DEF ServicesInv
  <2>3. disposal # "done" BY <2>1 DEF ServicesInv
  <2>4. CASE ReplayEnds("cancelled") /\ UNCHANGED <<route, fixes>>
    <3>1. ReplayFix \notin fixes' BY <2>2, <2>4 DEF ReplayFix
    <3> QED BY <1>1, <2>1, <2>3, <2>4, <3>1, ReplayEndsIs, ReplayMoves
  <2>5. CASE /\ replay' = [replay EXCEPT !.step = "gesture", !.left = @ - 1]
             /\ UNCHANGED <<recorder, route, fixes>>
    <3>1. ReplayFix \notin fixes' BY <2>2, <2>5 DEF ReplayFix
    <3>2. replay' \in ReplayRecord(replay') BY <1>1, <2>5, ReplayIs
    <3>3. recorder' \in RecorderRecord(recorder') /\ recorder'.closed = recorder.closed BY <1>1, <2>5
    <3> QED BY <1>1, <2>1, <2>3, <2>5, <3>1, <3>2, <3>3, ReplayMoves
  <2>6. CASE /\ replay' = [replay EXCEPT !.step = "location", !.left = @ - 1]
             /\ route' = Stopped(route) /\ UNCHANGED recorder
    <3>1. replay' \in ReplayRecord(replay') /\ replay'.step = "location" BY <1>1, <2>6, ReplayIs
    <3>2. recorder' \in RecorderRecord(recorder') /\ recorder'.closed = recorder.closed BY <1>1, <2>6
    <3>3. RouteOK(route') /\ route'.closed = route.closed BY <1>1, <2>6, RouteStopped
    <3> QED BY <2>1, <2>3, <3>1, <3>2, <3>3, ReplayMoves
  <2> QED BY <1>3, <2>4, <2>5, <2>6 DEF DelayEnds
<1>4. CASE HandlerSettles
  <2>1. /\ replay.step \in {"gesture", "location"} /\ UNCHANGED <<route, disposal>>
        /\ ReplayFix \notin fixes'
    BY <1>4 DEF HandlerSettles
  <2>2. disposal # "done" BY <2>1 DEF ServicesInv
  <2>3. \/ \E o \in {"cancelled", "error", "completed"} : ReplayEnds(o)
        \/ replay' = NextEvent(replay) /\ UNCHANGED recorder
    BY <1>4 DEF HandlerSettles
  <2>4. ASSUME NEW o, ReplayEnds(o) PROVE ServicesInv'
    BY <1>1, <2>1, <2>2, <2>4, ReplayEndsIs, ReplayMoves
  <2>5. CASE replay' = NextEvent(replay) /\ UNCHANGED recorder
    <3>1. replay' \in ReplayRecord(replay') BY <1>1, <2>5, ReplayIs
    <3>2. recorder' \in RecorderRecord(recorder') /\ recorder'.closed = recorder.closed BY <1>1, <2>5
    <3> QED BY <1>1, <2>1, <2>2, <3>1, <3>2, ReplayMoves
  <2> QED BY <2>3, <2>4, <2>5
<1> QED BY <1>2, <1>3, <1>4

LEMMA DisposeIs == ASSUME ServicesInv, Dispose \/ DisposalEnds PROVE ServicesInv'
<1>1. recorder \in RecorderRecord(recorder) /\ replay \in ReplayRecord(replay) /\ RouteOK(route)
  BY DEF ServicesInv
<1>2. route' = Shut(Stopped(route)) /\ UNCHANGED fixes BY DEF Dispose, DisposalEnds
<1>3. RouteOK(route') /\ route'.closed BY <1>1, <1>2, RouteStopped, ShutIs
<1>4. ReplayFix' = ReplayFix BY DEF ReplayFix
<1>5. CASE Dispose
  <2>. DEFINE r == NewEpoch(recorder)
  <2>1. recorder' = [r EXCEPT !.closed = TRUE] /\ replay' = Aborted(replay) /\ disposal' = "waiting"
    BY <1>5 DEF Dispose
  <2>2. r \in RecorderRecord(r) BY <1>1, NewEpochIs
  <2>. HIDE DEF r
  <2>3. recorder' \in RecorderRecord(recorder') /\ recorder'.closed BY <2>1, <2>2 DEF RecorderRecord
  <2>4. replay' \in ReplayRecord(replay') /\ replay'.step = replay.step BY <1>1, <2>1, ReplayIs
  <2> QED BY <1>2, <1>3, <1>4, <2>1, <2>3, <2>4 DEF ServicesInv
<1>6. CASE DisposalEnds
  <2>1. /\ disposal = "waiting" /\ replay.step = "none" /\ disposal' = "done"
        /\ UNCHANGED <<recorder, replay>>
    BY <1>6 DEF DisposalEnds, Replaying
  <2>2. recorder' \in RecorderRecord(recorder') /\ replay' \in ReplayRecord(replay') BY <1>1, <2>1
  <2>3. recorder'.closed BY <2>1 DEF ServicesInv
  <2> QED BY <1>2, <1>3, <1>4, <2>1, <2>2, <2>3 DEF ServicesInv
<1> QED BY <1>5, <1>6

LEMMA ServicesGoOn == ServicesInv /\ ServicesNext => ServicesInv'
<1>1. ASSUME ServicesInv, GestureAccepted PROVE ServicesInv'
  <2>1. recorder \in RecorderRecord(recorder) BY <1>1 DEF ServicesInv
  <2>2. PICK size \in EventSizes : recorder' = Recorded(recorder, size) BY <1>1 DEF GestureAccepted
  <2>3. recorder' \in RecorderRecord(recorder') /\ recorder'.closed = recorder.closed
    BY <2>1, <2>2, RecordedIs
  <2> QED BY <1>1, <2>3, RecorderMoves DEF GestureAccepted
<1>2. ASSUME ServicesInv, Clear PROVE ServicesInv'
  <2>. DEFINE r == NewEpoch(recorder)
  <2>1. recorder' = [r EXCEPT !.events = <<>>, !.bytes = EmptyArrayBytes, !.status = "idle"]
    BY <1>2 DEF Clear
  <2>2. r \in RecorderRecord(r) /\ r.closed = recorder.closed BY <1>2, NewEpochIs DEF ServicesInv
  <2>. HIDE DEF r
  <2>3. recorder' \in RecorderRecord(recorder') /\ recorder'.closed = recorder.closed
    BY <2>1, <2>2 DEF RecorderRecord
  <2> QED BY <1>2, <2>3, RecorderMoves DEF Clear
<1>3. ASSUME ServicesInv, ReplayRequested PROVE ServicesInv'
  <2>1. recorder' \in RecorderRecord(recorder') BY <1>3 DEF ServicesInv, ReplayRequested, RecorderRecord
  <2> QED BY <1>3, <2>1, RecorderMoves DEF ReplayRequested
<1>4. ASSUME ServicesInv, ClientSetsLocation PROVE ServicesInv'
  <2>1. RouteOK(route') /\ route'.closed = route.closed
    BY <1>4, RouteStopped DEF ServicesInv, ClientSetsLocation
  <2>2. ReplayFix \in fixes' => ReplayFix \in fixes BY <1>4 DEF ClientSetsLocation, ReplayFix, ClientFix
  <2> QED BY <1>4, <2>1, <2>2, RouteMoves DEF ClientSetsLocation
<1> QED
  BY <1>1, <1>2, <1>3, <1>4, StartReplayIs, StopReplayIs, RouteStarts, RouteRests, RouteTicks, FixEndsIs,
     ReplayRuns, DisposeIs
  DEF ServicesNext

LEMMA ServicesStay == ServicesInv /\ UNCHANGED servicesVars => ServicesInv'
<1>1. ReplayFix' = ReplayFix BY DEF ReplayFix
<1> QED BY <1>1 DEF ServicesInv, servicesVars, RecorderRecord, ReplayRecord

LEMMA ServicesPromise == ServicesInv => DisposedIsQuiet /\ RouteKeepsMoving
<1>1. ASSUME ServicesInv PROVE DisposedIsQuiet
  BY <1>1 DEF ServicesInv, DisposedIsQuiet, Disposed, Replaying, RouteOK, RouteRecord
<1>2. ASSUME ServicesInv PROVE RouteKeepsMoving
  BY <1>2 DEF ServicesInv, RouteKeepsMoving, RunActive, RouteOK
<1> QED BY <1>1, <1>2


\* The recorder's books. What it holds after n shifts is what the JSON of the
\* events from the n + 1st on takes, and with all of them gone it is within its
\* limits: so the shifts end, and end within.

RecorderOK(r) ==
  /\ r.events \in Seq(Nat)
  /\ r.bytes = JsonBytes(r.events)
  /\ Len(r.events) <= EventLimit /\ r.bytes <= ByteLimit

LEMMA JsonOf ==
  ASSUME NEW s, s \in Seq(Nat)
  PROVE  /\ JsonBytes(s) \in Nat
         /\ JsonBytes(<<>>) = EmptyArrayBytes
         /\ s # <<>> => /\ Tail(s) \in Seq(Nat) /\ Head(s) \in Nat
                        /\ JsonBytes(Tail(s))
                             = (JsonBytes(s) - Head(s)) - IF Len(s) > 1 THEN 1 ELSE 0
<1>1. Total(s) \in Nat /\ Len(s) \in Nat BY SumsKnown
<1>2. s # <<>> => Len(s) > 0 OBVIOUS
<1>3. JsonBytes(s) \in Nat BY <1>1, <1>2 DEF JsonBytes, EmptyArrayBytes
<1>4. JsonBytes(<<>>) = EmptyArrayBytes BY SumOfNone DEF JsonBytes, EmptyArrayBytes
<1>5. ASSUME s # <<>>
      PROVE  /\ Tail(s) \in Seq(Nat) /\ Head(s) \in Nat
             /\ JsonBytes(Tail(s)) = (JsonBytes(s) - Head(s)) - IF Len(s) > 1 THEN 1 ELSE 0
  <2>1. /\ Tail(s) \in Seq(Nat) /\ Head(s) = s[1] /\ s[1] \in Nat /\ Len(Tail(s)) = Len(s) - 1
        /\ Tail(s) = <<>> <=> Len(s) = 1
    <3>1. /\ Tail(s) \in Seq(Nat) /\ Head(s) = s[1] /\ Len(Tail(s)) = Len(s) - 1
          /\ Len(s) \in Nat
      BY <1>5
    <3>2. s[1] \in Nat BY <1>1, <1>2, <1>5, ElementOfSeq
    <3>. DEFINE t == Tail(s)
    <3>. HIDE DEF t
    <3>3. t = <<>> <=> Len(t) = 0 BY <3>1, EmptySeq DEF t
    <3>4. t = <<>> <=> Len(s) = 1 BY <3>1, <3>3 DEF t
    <3> QED BY <3>1, <3>2, <3>4 DEF t
  <2>2. Total(Tail(s)) \in Nat BY <2>1, SumsKnown
  <2>3. Total(s) = s[1] + Total(Tail(s)) BY <1>5, SumFromHead
  <2>. DEFINE t == Total(Tail(s))  n == Len(s)  h == s[1]
  <2>4. JsonBytes(s) = EmptyArrayBytes + (h + t) + (n - 1) BY <1>5, <2>3 DEF JsonBytes
  <2>5. JsonBytes(Tail(s)) = EmptyArrayBytes + t + (IF n = 1 THEN 0 ELSE (n - 1) - 1)
    BY <2>1 DEF JsonBytes
  <2>6. t \in Nat /\ h \in Nat /\ n \in Nat /\ n > 0 BY <1>1, <1>2, <1>5, <2>1, <2>2
  <2>. HIDE DEF t, n, h
  <2>7. JsonBytes(Tail(s)) = (JsonBytes(s) - h) - IF n > 1 THEN 1 ELSE 0
    BY <2>4, <2>5, <2>6 DEF EmptyArrayBytes
  <2> QED BY <2>1, <2>7 DEF n, h
<1> QED BY <1>3, <1>4, <1>5

\* One more event, with its comma.
LEMMA JsonWith ==
  ASSUME NEW s, s \in Seq(Nat), NEW size \in Nat
  PROVE  /\ Append(s, size) \in Seq(Nat)
         /\ JsonBytes(Append(s, size)) = JsonBytes(s) + size + IF s = <<>> THEN 0 ELSE 1
<1>. DEFINE v == Append(s, size)  n == Len(s)
<1>1. /\ v \in Seq(Nat) /\ Len(v) = n + 1 /\ n \in Nat /\ v # <<>> /\ v[n + 1] = size
      /\ \A i \in 1 .. n : v[i] = s[i]
      /\ s = <<>> <=> n = 0
  OBVIOUS
<1>. HIDE DEF v
<1>2. Total(v) = Total(s) + v[Len(v)] BY <1>1, SumToLast
<1>3. Total(s) \in Nat BY SumsKnown
<1>. DEFINE t == Total(s)
<1>4. JsonBytes(v) = EmptyArrayBytes + (t + size) + ((n + 1) - 1) BY <1>1, <1>2 DEF JsonBytes
<1>5. JsonBytes(s) = EmptyArrayBytes + t + (IF n = 0 THEN 0 ELSE n - 1) BY <1>1 DEF JsonBytes
<1>6. t \in Nat /\ n \in Nat BY <1>1, <1>3
<1>7. (s = <<>>) = (n = 0) BY <1>1
<1>. HIDE DEF t, n
<1>8. JsonBytes(v) = JsonBytes(s) + size + IF n = 0 THEN 0 ELSE 1
  BY <1>4, <1>5, <1>6 DEF EmptyArrayBytes
<1> QED BY <1>1, <1>7, <1>8 DEF v

\* after[n] is r after n shifts.
ShiftsOf(after, r) ==
  after = [n \in 0 .. Len(r.events) |-> IF n = 0 THEN r ELSE Shifted(after[n - 1])]

\* The rest of r, from the n + 1st event on.
Rest(r, n) ==
  LET left == SubSeq(r.events, n + 1, Len(r.events))
  IN  [r EXCEPT !.events = left, !.bytes = JsonBytes(left)]

LEMMA RestIs ==
  ASSUME NEW r, r \in RecorderRecord(r), r.events \in Seq(Nat), r.bytes = JsonBytes(r.events),
         NEW n \in 0 .. Len(r.events)
  PROVE  /\ Rest(r, n) \in RecorderRecord(Rest(r, n))
         /\ Rest(r, n).events = SubSeq(r.events, n + 1, Len(r.events))
         /\ Rest(r, n).events \in Seq(Nat) /\ Len(Rest(r, n).events) = Len(r.events) - n
         /\ Rest(r, n).bytes = JsonBytes(Rest(r, n).events)
         /\ n = 0 => Rest(r, n) = r
<1>. DEFINE left == SubSeq(r.events, n + 1, Len(r.events))
            b == JsonBytes(left)
<1>1. left \in Seq(Nat) /\ Len(left) = Len(r.events) - n /\ (n = 0 => left = r.events) OBVIOUS
<1>2. n = 0 => b = r.bytes BY <1>1
<1>3. Rest(r, n) = [r EXCEPT !.events = left, !.bytes = b] BY DEF Rest
<1>. HIDE DEF b, left
<1>4. /\ Rest(r, n) \in RecorderRecord(Rest(r, n)) /\ Rest(r, n).events = left /\ Rest(r, n).bytes = b
      /\ left = r.events /\ b = r.bytes => Rest(r, n) = r
  BY <1>3 DEF RecorderRecord
<1> QED BY <1>1, <1>2, <1>4 DEF b, left

\* A shift takes what is left to what is left after it.
LEMMA RestShifted ==
  ASSUME NEW r, r \in RecorderRecord(r), r.events \in Seq(Nat), r.bytes = JsonBytes(r.events),
         NEW n \in 0 .. Len(r.events), n # 0
  PROVE  Shifted(Rest(r, n - 1)) = Rest(r, n)
<1>. DEFINE p == Rest(r, n - 1)
            q == Rest(r, n)
            m == Len(r.events)
            e == Tail(p.events)
            b == p.bytes - Head(p.events) - IF Len(p.events) > 1 THEN 1 ELSE 0
<1>1. m \in Nat /\ n \in Nat /\ n - 1 \in 0 .. m OBVIOUS
<1>2. /\ p \in RecorderRecord(p) /\ p.events = SubSeq(r.events, (n - 1) + 1, m)
      /\ p.events \in Seq(Nat) /\ Len(p.events) = m - (n - 1) /\ p.bytes = JsonBytes(p.events)
  BY <1>1, RestIs
<1>3. q.events = SubSeq(r.events, n + 1, m) /\ q.bytes = JsonBytes(q.events) BY RestIs
<1>4. p.events # <<>> /\ Tail(p.events) = q.events
  <2>1. p.events = SubSeq(r.events, n, m) /\ n \in 1 .. m BY <1>1, <1>2
  <2>2. SubSeq(r.events, n, m) # <<>> /\ Tail(SubSeq(r.events, n, m)) = SubSeq(r.events, n + 1, m)
    <3>1. m \in n .. Len(r.events) BY <1>1, <2>1
    <3>2. Tail(SubSeq(r.events, n, m)) = SubSeq(r.events, n + 1, m) BY <2>1, <3>1, HeadTailOfSubSeq
    <3>3. Len(SubSeq(r.events, n, m)) = (m - n) + 1 BY <1>1, <2>1
    <3>. DEFINE x == SubSeq(r.events, n, m)
    <3>. HIDE DEF x
    <3>4. x # <<>>
      <4>1. Len(<<>>) = 0 BY EmptySeq
      <4>2. Len(x) > 0 BY <1>1, <2>1, <3>3 DEF x
      <4> QED BY <4>1, <4>2
    <3> QED BY <3>2, <3>4 DEF x
  <2>. HIDE DEF p, q
  <2> QED BY <1>3, <2>1, <2>2
<1>5. b = q.bytes
  <2>. HIDE DEF p, q
  <2> QED BY <1>2, <1>3, <1>4, JsonOf
<1>6. Shifted(p) = [p EXCEPT !.events = e, !.bytes = b] BY DEF Shifted
<1>7. p.closed = r.closed /\ p.epoch = r.epoch /\ p.started = r.started /\ p.status = r.status
      /\ q.closed = r.closed /\ q.epoch = r.epoch /\ q.started = r.started /\ q.status = r.status
  BY DEF Rest, RecorderRecord
<1>8. q \in RecorderRecord(q) BY RestIs
<1>. HIDE DEF p, q, e, b
<1>9. e = q.events BY <1>4 DEF e
<1>10. [p EXCEPT !.events = e, !.bytes = b] = q BY <1>2, <1>5, <1>7, <1>8, <1>9 DEF RecorderRecord
<1> QED BY <1>6, <1>10 DEF p, q

\* So what is after n shifts is the rest.
LEMMA ShiftsAre ==
  ASSUME NEW r, r \in RecorderRecord(r), r.events \in Seq(Nat), r.bytes = JsonBytes(r.events)
  PROVE  /\ \E after : ShiftsOf(after, r)
         /\ \A after : ShiftsOf(after, r) =>
              /\ DOMAIN after = 0 .. Len(r.events)
              /\ \A n \in 0 .. Len(r.events) : after[n] = Rest(r, n)
<1>. DEFINE m == Len(r.events)
<1>0. m \in Nat OBVIOUS
<1>1. \E after : ShiftsOf(after, r)
  <2>. DEFINE f == [n \in 0 .. m |-> Rest(r, n)]
  <2>1. ASSUME NEW n \in 0 .. m PROVE f[n] = IF n = 0 THEN r ELSE Shifted(f[n - 1])
    <3>1. n # 0 => n - 1 \in 0 .. m BY <1>0
    <3>2. n # 0 => f[n - 1] = Rest(r, n - 1) BY <3>1
    <3>3. f[n] = Rest(r, n) OBVIOUS
    <3>4. n = 0 => Rest(r, n) = r BY RestIs
    <3>5. n # 0 => Shifted(Rest(r, n - 1)) = Rest(r, n) BY RestShifted
    <3>. HIDE DEF f
    <3> QED BY <3>2, <3>3, <3>4, <3>5
  <2>2. f = [n \in 0 .. m |-> f[n]] OBVIOUS
  <2>. HIDE DEF f
  <2>3. f = [n \in 0 .. m |-> IF n = 0 THEN r ELSE Shifted(f[n - 1])] BY <2>1, <2>2
  <2> QED BY <2>3 DEF ShiftsOf
<1>2. ASSUME NEW after, ShiftsOf(after, r)
      PROVE  DOMAIN after = 0 .. m /\ \A n \in 0 .. m : after[n] = Rest(r, n)
  <2>1. DOMAIN after = 0 .. m BY <1>2 DEF ShiftsOf
  <2>2. ASSUME NEW n \in 0 .. m PROVE after[n] = IF n = 0 THEN r ELSE Shifted(after[n - 1])
    BY <1>2, Zenon DEF ShiftsOf
  <2>. DEFINE T == {n \in 0 .. m : after[n] # Rest(r, n)}
  <2>3. T = {}
    <3>1. SUFFICES ASSUME T # {} PROVE FALSE OBVIOUS
    <3>2. PICK k \in T : \A n \in T : k <= n
      <4>1. T \subseteq Nat BY <1>0
      <4>. HIDE DEF T
      <4> QED BY <3>1, <4>1, Least
    <3>3. k \in 0 .. m /\ k \in Nat /\ after[k] # Rest(r, k) BY <1>0
    <3>4. k # 0
      <4>1. k = 0 => after[k] = r BY <2>2, <3>3
      <4>2. k = 0 => Rest(r, k) = r BY <3>3, RestIs
      <4> QED BY <3>3, <4>1, <4>2
    <3>5. k - 1 \in 0 .. m /\ ~(k <= k - 1) BY <1>0, <3>3, <3>4
    <3>6. after[k - 1] = Rest(r, k - 1) BY <3>2, <3>5
    <3>7. Shifted(Rest(r, k - 1)) = Rest(r, k) BY <3>3, <3>4, RestShifted
    <3>8. after[k] = Shifted(after[k - 1]) BY <2>2, <3>3, <3>4
    <3> QED BY <3>3, <3>6, <3>7, <3>8
  <2>4. \A n \in 0 .. m : after[n] = Rest(r, n) BY <2>3
  <2> QED BY <2>1, <2>4
<1> QED BY <1>1, <1>2

\* What is left is within the limits, and as its books say.
LEMMA TrimmedIs ==
  ASSUME NEW r, r \in RecorderRecord(r), r.events \in Seq(Nat), r.bytes = JsonBytes(r.events)
  PROVE  /\ Trimmed(r).events \in Seq(Nat)
         /\ Trimmed(r).bytes = JsonBytes(Trimmed(r).events)
         /\ Within(Trimmed(r))
<1>. DEFINE m == Len(r.events)
            after == CHOOSE f : f = [n \in 0 .. m |-> IF n = 0 THEN r ELSE Shifted(f[n - 1])]
            First(n) == Within(after[n]) /\ \A k \in 0 .. n - 1 : ~Within(after[k])
            n0 == CHOOSE n \in DOMAIN after : First(n)
<1>1. Trimmed(r) = after[n0] BY DEF Trimmed
<1>2. ShiftsOf(after, r)
  <2>1. PICK f : f = [n \in 0 .. m |-> IF n = 0 THEN r ELSE Shifted(f[n - 1])]
    BY ShiftsAre DEF ShiftsOf
  <2>2. after = [n \in 0 .. m |-> IF n = 0 THEN r ELSE Shifted(after[n - 1])] BY <2>1
  <2>. HIDE DEF after
  <2> QED BY <2>2 DEF ShiftsOf
<1>. HIDE DEF after
<1>3. DOMAIN after = 0 .. m /\ \A n \in 0 .. m : after[n] = Rest(r, n) BY <1>2, ShiftsAre
<1>4. m \in Nat /\ m \in 0 .. m OBVIOUS
<1>5. Within(after[m])
  <2>1. after[m] = Rest(r, m) BY <1>3, <1>4
  <2>2. /\ Rest(r, m).events \in Seq(Nat) /\ Len(Rest(r, m).events) = m - m
        /\ Rest(r, m).bytes = JsonBytes(Rest(r, m).events)
    BY <1>4, RestIs
  <2>. DEFINE e == Rest(r, m).events
  <2>3. e \in Seq(Nat) /\ Len(e) = 0 BY <1>4, <2>2
  <2>. HIDE DEF e
  <2>4. e = <<>> BY <2>3
  <2>5. JsonBytes(e) = 2 BY <2>4, SumOfNone DEF JsonBytes, EmptyArrayBytes
  <2>6. Len(Rest(r, m).events) = 0 /\ Rest(r, m).bytes = 2 BY <2>2, <2>3, <2>5 DEF e
  <2> QED BY <2>1, <2>6, ServicesAssumption DEF Within
<1>6. \E n \in DOMAIN after : First(n)
  <2>. DEFINE T == {n \in 0 .. m : Within(after[n])}
  <2>1. m \in T BY <1>4, <1>5
  <2>2. PICK k \in T : \A n \in T : k <= n
    <3>1. T \subseteq Nat BY <1>4
    <3>. HIDE DEF T
    <3> QED BY <2>1, <3>1, Least
  <2>3. k \in 0 .. m /\ Within(after[k]) OBVIOUS
  <2>4. ASSUME NEW j \in 0 .. k - 1 PROVE ~Within(after[j])
    <3>1. j \in 0 .. m /\ ~(k <= j) BY <1>4, <2>3
    <3> QED BY <2>2, <3>1
  <2> QED BY <1>3, <2>3, <2>4
<1>7. n0 \in DOMAIN after /\ First(n0)
  <2>. HIDE DEF First
  <2> QED BY <1>6
<1>. HIDE DEF n0
<1>8. n0 \in 0 .. m /\ Within(after[n0]) BY <1>3, <1>7
<1>9. after[n0] = Rest(r, n0) BY <1>3, <1>8
<1>10. Rest(r, n0).events \in Seq(Nat) /\ Rest(r, n0).bytes = JsonBytes(Rest(r, n0).events)
  BY <1>8, RestIs
<1> QED BY <1>1, <1>8, <1>9, <1>10

LEMMA RecordedBalances ==
  ASSUME NEW r, r \in RecorderRecord(r), RecorderOK(r), NEW size \in Nat
  PROVE  RecorderOK(Recorded(r, size))
<1>. DEFINE e0 == Append(r.events, size)
            b0 == r.bytes + size + IF r.events = <<>> THEN 0 ELSE 1
            longer == [r EXCEPT !.events = e0, !.bytes = b0]
            kept == Trimmed(longer)
            e == kept.events
            b == kept.bytes
<1>1. \/ Recorded(r, size) = r
      \/ Recorded(r, size) = [r EXCEPT !.events = e, !.bytes = b]
  BY DEF Recorded
<1>2. e0 \in Seq(Nat) /\ b0 = JsonBytes(e0) BY JsonWith DEF RecorderOK
<1>3. longer \in RecorderRecord(longer) /\ longer.events = e0 /\ longer.bytes = b0
  <2>. HIDE DEF e0, b0
  <2> QED BY DEF RecorderRecord
<1>. HIDE DEF e0, b0, longer
<1>4. e \in Seq(Nat) /\ b = JsonBytes(e) /\ Len(e) <= EventLimit /\ b <= ByteLimit
  BY <1>2, <1>3, TrimmedIs DEF Within
<1>. HIDE DEF kept, e, b
<1>5. [r EXCEPT !.events = e, !.bytes = b].events = e /\ [r EXCEPT !.events = e, !.bytes = b].bytes = b
  BY DEF RecorderRecord
<1> QED BY <1>1, <1>4, <1>5 DEF RecorderOK

\* Nothing else a step does to the recorder is about its events.
LEMMA SameEvents ==
  ASSUME NEW r, r \in RecorderRecord(r)
  PROVE  /\ NewEpoch(r).events = r.events /\ NewEpoch(r).bytes = r.bytes
         /\ LET x == [NewEpoch(r) EXCEPT !.closed = TRUE]
            IN  x.events = r.events /\ x.bytes = r.bytes
         /\ LET x == [NewEpoch(r) EXCEPT !.events = <<>>, !.bytes = EmptyArrayBytes,
                                         !.status = "idle"]
            IN  x.events = <<>> /\ x.bytes = EmptyArrayBytes
         /\ LET x == [r EXCEPT !.status = "running", !.started = @ + 1]
            IN  x.events = r.events /\ x.bytes = r.bytes
         /\ \A o : LET x == [r EXCEPT !.status = o] IN x.events = r.events /\ x.bytes = r.bytes
<1>. DEFINE e == r.epoch + 1
            n == r.started + 1
            q == [r EXCEPT !.epoch = e]
<1>1. NewEpoch(r) = q BY DEF NewEpoch, RecorderRecord
<1>2. [r EXCEPT !.status = "running", !.started = @ + 1]
        = [r EXCEPT !.status = "running", !.started = n]
  BY DEF RecorderRecord
<1>. HIDE DEF e, n
<1>3. q.events = r.events /\ q.bytes = r.bytes /\ q \in RecorderRecord(q) BY DEF RecorderRecord
<1>. HIDE DEF q
<1>4. /\ [q EXCEPT !.closed = TRUE].events = q.events /\ [q EXCEPT !.closed = TRUE].bytes = q.bytes
      /\ LET x == [q EXCEPT !.events = <<>>, !.bytes = EmptyArrayBytes, !.status = "idle"]
         IN  x.events = <<>> /\ x.bytes = EmptyArrayBytes
  BY <1>3 DEF RecorderRecord
<1>5. /\ LET x == [r EXCEPT !.status = "running", !.started = n]
         IN  x.events = r.events /\ x.bytes = r.bytes
      /\ \A o : LET x == [r EXCEPT !.status = o] IN x.events = r.events /\ x.bytes = r.bytes
  BY DEF RecorderRecord
<1> QED BY <1>1, <1>2, <1>3, <1>4, <1>5

LEMMA RecorderStarts == ServicesInit => RecorderOK(recorder)
<1>1. ASSUME ServicesInit PROVE RecorderOK(recorder)
  <2>1. recorder.events = <<>> /\ recorder.bytes = EmptyArrayBytes BY <1>1 DEF ServicesInit
  <2>2. <<>> \in Seq(Nat) /\ Len(<<>>) = 0 OBVIOUS
  <2>3. JsonBytes(<<>>) = EmptyArrayBytes BY <2>2, JsonOf
  <2> QED BY <2>1, <2>2, <2>3, ServicesAssumption DEF RecorderOK, EmptyArrayBytes
<1> QED BY <1>1

LEMMA RecorderGoesOn ==
  recorder \in RecorderRecord(recorder) /\ RecorderOK(recorder) /\ ServicesNext => RecorderOK(recorder')
<1> SUFFICES ASSUME recorder \in RecorderRecord(recorder), RecorderOK(recorder), ServicesNext
             PROVE  RecorderOK(recorder')
  OBVIOUS
<1>1. ASSUME recorder'.events = recorder.events, recorder'.bytes = recorder.bytes
      PROVE  RecorderOK(recorder')
  BY <1>1 DEF RecorderOK
<1>2. ASSUME NEW size \in EventSizes, recorder' = Recorded(recorder, size)
      PROVE  RecorderOK(recorder')
  BY <1>2, RecordedBalances, ServicesAssumption
<1>3. ASSUME recorder'.events = <<>>, recorder'.bytes = EmptyArrayBytes PROVE RecorderOK(recorder')
  <2>1. <<>> \in Seq(Nat) /\ Len(<<>>) = 0 OBVIOUS
  <2>2. JsonBytes(<<>>) = EmptyArrayBytes BY <2>1, JsonOf
  <2> QED BY <1>3, <2>1, <2>2, ServicesAssumption DEF RecorderOK, EmptyArrayBytes
<1>4. ASSUME NEW o, ReplayEnds(o) PROVE RecorderOK(recorder')
  BY <1>1, <1>4, SameEvents DEF ReplayEnds
<1>5. CASE GestureAccepted BY <1>2, <1>5 DEF GestureAccepted
<1>6. CASE Clear BY <1>3, <1>6, SameEvents DEF Clear
<1>7. CASE StartReplay BY <1>1, <1>7, SameEvents DEF StartReplay
<1>8. CASE StopReplay \/ Dispose BY <1>1, <1>8, SameEvents DEF StopReplay, Dispose
<1>9. CASE FixEnds
  <2>1. \/ UNCHANGED recorder
        \/ \E size \in EventSizes : recorder' = Recorded(recorder, size)
    BY <1>9 DEF FixEnds, ClientFixEnds
  <2> QED BY <1>1, <1>2, <2>1
<1>10. CASE ReplayBegins \/ DelayEnds \/ HandlerSettles
  <2>1. UNCHANGED recorder \/ \E o : ReplayEnds(o)
    BY <1>10 DEF ReplayBegins, DelayEnds, HandlerSettles
  <2> QED BY <1>1, <1>4, <2>1
<1>11. CASE \/ ReplayRequested \/ StartRoute \/ PauseRoute \/ ResumeRoute \/ StopRoute \/ Tick
            \/ ClientSetsLocation \/ DisposalEnds
  BY <1>1, <1>11
  DEF ReplayRequested, StartRoute, PauseRoute, ResumeRoute, StopRoute, Tick, ClientSetsLocation,
      DisposalEnds
<1> QED BY <1>5, <1>6, <1>7, <1>8, <1>9, <1>10, <1>11 DEF ServicesNext

LEMMA RecorderStays == RecorderOK(recorder) /\ UNCHANGED servicesVars => RecorderOK(recorder')
BY DEF servicesVars

LEMMA RecorderPromise == RecorderOK(recorder) => RecorderKeepsItsBooks
BY DEF RecorderOK, RecorderKeepsItsBooks

\* The request for a replay. Whatever overtakes it takes the recorder to a
\* later epoch than the one the request has read; and only a replay that runs
\* is aborted.
AdmissionOK ==
  /\ recorder.epoch \in Nat
  /\ admission \in [epoch : Int, overtaken : BOOLEAN]
  /\ admission.epoch <= recorder.epoch
  /\ admission.overtaken => admission.epoch < recorder.epoch
  /\ replay.aborted => replay.step # "none"
AdmittedInv ==
  /\ recorder \in RecorderRecord(recorder) /\ replay \in ReplayRecord(replay)
  /\ AdmissionOK

LEMMA AdmissionStarts == ServicesInit => AdmissionOK
BY DEF ServicesInit, AdmissionOK, NoReplay, NoRequest

\* What an event or its answer does to the recorder leaves the epoch.
LEMMA EpochStays ==
  ASSUME NEW r, r \in RecorderRecord(r), NEW size
  PROVE  Recorded(r, size).epoch = r.epoch
<1>. DEFINE kept == Trimmed([r EXCEPT !.events = Append(@, size),
                                      !.bytes = @ + size + IF r.events = <<>> THEN 0 ELSE 1])
            e == kept.events
            b == kept.bytes
<1>1. Recorded(r, size) = r \/ Recorded(r, size) = [r EXCEPT !.events = e, !.bytes = b]
  BY DEF Recorded
<1>. HIDE DEF e, b, kept
<1>2. [r EXCEPT !.events = e, !.bytes = b].epoch = r.epoch BY DEF RecorderRecord
<1> QED BY <1>1, <1>2

\* A new epoch overtakes the request that is being read.
LEMMA OvertakenIs ==
  ASSUME AdmittedInv, Overtaken, recorder'.epoch = recorder.epoch + 1,
         replay'.aborted => replay'.step # "none"
  PROVE  AdmissionOK'
<1>. DEFINE o == admission.overtaken \/ admission # NoRequest
<1>1. admission' = [admission EXCEPT !.overtaken = o] BY DEF Overtaken
<1>2. o \in BOOLEAN /\ admission.epoch \in Int /\ recorder.epoch \in Nat
      /\ admission.epoch <= recorder.epoch /\ admission \in [epoch : Int, overtaken : BOOLEAN]
  BY DEF AdmittedInv, AdmissionOK
<1>. HIDE DEF o
<1>3. admission' \in [epoch : Int, overtaken : BOOLEAN] /\ admission'.epoch = admission.epoch
  BY <1>1, <1>2
<1>4. recorder'.epoch \in Nat /\ admission'.epoch < recorder'.epoch BY <1>2, <1>3
<1> QED BY <1>3, <1>4 DEF AdmissionOK

\* Nothing overtakes it.
LEMMA NotOvertaken ==
  ASSUME AdmittedInv, UNCHANGED admission, recorder'.epoch = recorder.epoch,
         replay'.aborted => replay'.step # "none"
  PROVE  AdmissionOK'
BY DEF AdmittedInv, AdmissionOK

ReplayStep ==
  /\ (~Replaying /\ replay'.step # "none") => ~admission.overtaken
  /\ replay.aborted => replay'.step \in {replay.step, "none"}
LocationStep ==
  location' # location /\ location'.by = "route" => RunActive(location'.run) /\ ~Disposed

LEMMA AbortingHas ==
  ASSUME NEW p, p \in ReplayRecord(p)
  PROVE  Aborted(p).step = p.step /\ (Aborted(p).aborted => Aborted(p).step # "none")
BY DEF Aborted, ReplayRecord

LEMMA NewEpochHas ==
  ASSUME NEW r, r \in RecorderRecord(r), r.epoch \in Nat
  PROVE  /\ NewEpoch(r).epoch = r.epoch + 1
         /\ [NewEpoch(r) EXCEPT !.closed = TRUE].epoch = r.epoch + 1
         /\ [NewEpoch(r) EXCEPT !.events = <<>>, !.bytes = EmptyArrayBytes,
                                !.status = "idle"].epoch = r.epoch + 1
<1>. DEFINE n == r.epoch + 1
            q == [r EXCEPT !.epoch = n]
<1>1. NewEpoch(r) = q BY DEF NewEpoch, RecorderRecord
<1>2. q.epoch = n /\ q \in [events : {r.events}, bytes : {r.bytes}, closed : BOOLEAN, epoch : {n},
                            started : {r.started}, status : {r.status}]
  BY DEF RecorderRecord
<1>. HIDE DEF n, q
<1>3. /\ [q EXCEPT !.closed = TRUE].epoch = n
      /\ [q EXCEPT !.events = <<>>, !.bytes = EmptyArrayBytes, !.status = "idle"].epoch = n
  BY <1>2
<1> QED BY <1>1, <1>2, <1>3 DEF n

LEMMA AdmissionGoesOn ==
  AdmittedInv /\ ServicesNext => AdmissionOK' /\ ReplayStep /\ LocationStep
<1>1. ASSUME AdmittedInv, ServicesNext PROVE AdmissionOK' /\ ReplayStep /\ LocationStep
  <2>1. /\ recorder \in RecorderRecord(recorder) /\ replay \in ReplayRecord(replay)
        /\ recorder.epoch \in Nat /\ (replay.aborted => replay.step # "none") /\ AdmissionOK
    BY <1>1 DEF AdmittedInv, AdmissionOK
  <2>2. ASSUME UNCHANGED <<admission, replay, location>>, recorder'.epoch = recorder.epoch
        PROVE  AdmissionOK' /\ ReplayStep /\ LocationStep
    BY <1>1, <2>1, <2>2, NotOvertaken DEF ReplayStep, LocationStep, Replaying
  <2>3. CASE GestureAccepted
    <3>1. \E size : recorder' = Recorded(recorder, size) BY <2>3 DEF GestureAccepted
    <3>2. recorder'.epoch = recorder.epoch BY <2>1, <3>1, EpochStays
    <3> QED BY <2>2, <2>3, <3>2 DEF GestureAccepted
  <2>4. CASE Clear
    <3>1. recorder'.epoch = recorder.epoch + 1 /\ Overtaken /\ UNCHANGED <<replay, location>>
      BY <2>1, <2>4, NewEpochHas DEF Clear
    <3> QED BY <1>1, <2>1, <3>1, OvertakenIs DEF ReplayStep, LocationStep, Replaying
  <2>5. CASE ReplayRequested
    <3>1. admission' = [epoch |-> recorder.epoch, overtaken |-> FALSE]
          /\ UNCHANGED <<recorder, replay, location>>
      BY <2>5 DEF ReplayRequested
    <3>2. AdmissionOK' BY <2>1, <3>1 DEF AdmissionOK
    <3> QED BY <3>1, <3>2 DEF ReplayStep, LocationStep, Replaying
  <2>6. CASE StartReplay
    <3>1. admission' = NoRequest /\ UNCHANGED location BY <2>6 DEF StartReplay
    <3>2. CASE UNCHANGED <<replay, recorder>>
      <4>1. AdmissionOK' BY <2>1, <3>1, <3>2 DEF AdmissionOK, NoRequest
      <4> QED BY <3>1, <3>2, <4>1 DEF ReplayStep, LocationStep, Replaying
    <3>3. CASE /\ admission.epoch = recorder.epoch /\ ~Replaying
               /\ replay' = [step |-> "begin", left |-> Len(recorder.events), aborted |-> FALSE]
               /\ recorder' = [recorder EXCEPT !.status = "running", !.started = @ + 1]
      <4>. DEFINE n == recorder.started + 1
      <4>1. recorder' = [recorder EXCEPT !.status = "running", !.started = n] BY <3>3
      <4>. HIDE DEF n
      <4>2. recorder'.epoch = recorder.epoch BY <2>1, <4>1 DEF RecorderRecord
      <4>3. AdmissionOK' BY <2>1, <3>1, <3>3, <4>2 DEF AdmissionOK, NoRequest
      <4>4. ~admission.overtaken BY <2>1, <3>3 DEF AdmissionOK
      <4>5. ~replay.aborted BY <2>1, <3>3 DEF Replaying, ReplayRecord
      <4> QED BY <3>1, <4>3, <4>4, <4>5 DEF ReplayStep, LocationStep
    <3> QED BY <2>6, <3>2, <3>3 DEF StartReplay
  <2>7. CASE StopReplay
    <3>1. recorder'.epoch = recorder.epoch + 1 /\ Overtaken /\ replay' = Aborted(replay)
          /\ UNCHANGED location
      BY <2>1, <2>7, NewEpochHas DEF StopReplay
    <3>2. replay'.step = replay.step /\ (replay'.aborted => replay'.step # "none")
      BY <2>1, <3>1, AbortingHas
    <3>3. AdmissionOK' BY <1>1, <3>1, <3>2, OvertakenIs
    <3> QED BY <3>1, <3>2, <3>3 DEF ReplayStep, LocationStep, Replaying
  <2>8. CASE Dispose
    <3>1. recorder'.epoch = recorder.epoch + 1 /\ Overtaken /\ replay' = Aborted(replay)
          /\ UNCHANGED location
      BY <2>1, <2>8, NewEpochHas DEF Dispose
    <3>2. replay'.step = replay.step /\ (replay'.aborted => replay'.step # "none")
      BY <2>1, <3>1, AbortingHas
    <3>3. AdmissionOK' BY <1>1, <3>1, <3>2, OvertakenIs
    <3> QED BY <3>1, <3>2, <3>3 DEF ReplayStep, LocationStep, Replaying
  <2>9. CASE \/ StartRoute \/ PauseRoute \/ ResumeRoute \/ StopRoute \/ Tick
             \/ ClientSetsLocation \/ DisposalEnds
    BY <2>2, <2>9 DEF StartRoute, PauseRoute, ResumeRoute, StopRoute, Tick, ClientSetsLocation,
       DisposalEnds
  <2>10. CASE FixEnds
    <3>1. ASSUME NEW f, NEW ok, f.by = "client", ClientFixEnds(ok)
          PROVE  AdmissionOK' /\ ReplayStep /\ LocationStep
      <4>1. recorder'.epoch = recorder.epoch BY <2>1, <3>1, EpochStays DEF ClientFixEnds
      <4>2. UNCHANGED <<replay, admission>> BY <3>1 DEF ClientFixEnds
      <4>3. LocationStep BY <3>1 DEF ClientFixEnds, LocationStep
      <4>4. AdmissionOK' BY <1>1, <2>1, <4>1, <4>2, NotOvertaken
      <4> QED BY <4>2, <4>3, <4>4 DEF ReplayStep, Replaying
    <3>2. ASSUME NEW f, NEW ok, RouteFixEnds(f, ok), UNCHANGED <<recorder, replay, admission>>
          PROVE  AdmissionOK' /\ ReplayStep /\ LocationStep
      <4>1. \/ location' = location
            \/ /\ location' = [by |-> "route", run |-> f.run]
               /\ RunActive(f.run) /\ ~Disposed
        BY <3>2 DEF RouteFixEnds
      <4>2. LocationStep BY <4>1 DEF LocationStep
      <4>3. AdmissionOK' BY <1>1, <2>1, <3>2, NotOvertaken
      <4> QED BY <3>2, <4>2, <4>3 DEF ReplayStep, Replaying
    <3> QED BY <2>10, <3>1, <3>2 DEF FixEnds
  <2>11. ASSUME NEW outcome, ReplayEnds(outcome), UNCHANGED admission,
                location' = location \/ location'.by # "route"
         PROVE  AdmissionOK' /\ ReplayStep /\ LocationStep
    <3>1. replay' = NoReplay /\ recorder' = [recorder EXCEPT !.status = outcome]
      BY <2>11 DEF ReplayEnds
    <3>2. recorder'.epoch = recorder.epoch BY <2>1, <3>1 DEF RecorderRecord
    <3>3. replay'.step = "none" /\ ~replay'.aborted BY <3>1 DEF NoReplay
    <3>4. AdmissionOK' BY <1>1, <2>11, <3>2, <3>3, NotOvertaken
    <3> QED BY <2>11, <3>3, <3>4 DEF ReplayStep, LocationStep
  <2>12. ASSUME replay.step # "none", ~replay.aborted, ~replay'.aborted,
                UNCHANGED <<admission, recorder>>,
                location' = location \/ location'.by # "route"
         PROVE  AdmissionOK' /\ ReplayStep /\ LocationStep
    BY <1>1, <2>12, NotOvertaken DEF ReplayStep, LocationStep, Replaying
  <2>13. ~replay.aborted => ~NextEvent(replay).aborted
    BY <2>1 DEF NextEvent, ReplayRecord
  <2>14. CASE ReplayBegins
    BY <2>1, <2>11, <2>12, <2>13, <2>14 DEF ReplayBegins, ReplayRecord
  <2>15. CASE DelayEnds
    <3>1. CASE replay.aborted BY <2>11, <2>15, <3>1 DEF DelayEnds
    <3>2. CASE ~replay.aborted
      <4>. DEFINE n == replay.left - 1
      <4>1. /\ replay' = [replay EXCEPT !.step = "gesture", !.left = n]
               \/ replay' = [replay EXCEPT !.step = "location", !.left = n]
            /\ replay.step = "delay" /\ UNCHANGED <<admission, recorder, location>>
        BY <2>15, <3>2 DEF DelayEnds
      <4>. HIDE DEF n
      <4>2. ~replay'.aborted BY <2>1, <3>2, <4>1 DEF ReplayRecord
      <4> QED BY <2>12, <3>2, <4>1, <4>2
    <3> QED BY <3>1, <3>2
  <2>16. CASE HandlerSettles
    <3>1. location' = location \/ location'.by # "route" BY <2>16 DEF HandlerSettles
    <3>2. UNCHANGED admission /\ replay.step # "none"
          /\ \/ \E outcome : ReplayEnds(outcome)
             \/ ~replay.aborted /\ replay' = NextEvent(replay) /\ UNCHANGED recorder
      BY <2>16 DEF HandlerSettles
    <3> QED BY <2>11, <2>12, <2>13, <3>1, <3>2
  <2> QED
    BY <1>1, <2>3, <2>4, <2>5, <2>6, <2>7, <2>8, <2>9, <2>10, <2>14, <2>15, <2>16 DEF ServicesNext
<1> QED BY <1>1

LEMMA AdmissionStays ==
  AdmittedInv /\ UNCHANGED servicesVars => AdmissionOK' /\ ReplayStep /\ LocationStep
BY DEF AdmittedInv, AdmissionOK, servicesVars, ReplayStep, LocationStep, Replaying

LEMMA StepsAreAdmitted ==
  ReplayStep /\ LocationStep => ReplayIsWanted /\ ReportedByCurrentRoute
BY DEF ReplayStep, LocationStep, ReplayIsWanted, ReportedByCurrentRoute

-----------------------------------------------------------------------------
(* CameraFeeds: what will be renamed is all of an image that can be loaded, *)
(* and a seed that is written has put its facing's file in place. No file   *)
(* of a facing is ever taken away.                                          *)

WriteRecord(x) == x = [step |-> x.step, facing |-> x.facing, image |-> x.image, stale |-> x.stale]
FeedWriteIs(w, x) ==
  /\ WriteRecord(x)
  /\ x.step \in {"body", "making", "writing", "renaming"} =>
       x.facing \in Facings /\ x.image # "none" /\ (w \in Facings => x.facing = w)
  /\ x.step \in {"making", "writing", "renaming"} => x.image # "broken"
  /\ x.stale => x.step = "body"
  /\ x.step = "body" => w \in Users
StagedFor(s, x) ==
  /\ s \in {"none", "partial", "whole"}
  /\ s # "none" => x.step \in {"writing", "renaming", "undoing"}
  /\ x.step = "renaming" => s # "partial"
WritesAre(wr, st) ==
  /\ wr = [w \in Writers |-> wr[w]] /\ st = [w \in Writers |-> st[w]]
  /\ \A w \in Writers : FeedWriteIs(w, wr[w]) /\ StagedFor(st[w], wr[w])
FeedsAre(fd) ==
  /\ fd = [f \in Facings |-> fd[f]]
  /\ \A f \in Facings : /\ fd[f] = [image |-> fd[f].image, whole |-> fd[f].whole]
                        /\ fd[f].image # "none" => fd[f].whole /\ fd[f].image # "broken"
SeedsAre(wr, fd) == \A f \in Facings : wr[f].step = "written" => fd[f].image # "none"
WiringIs(a, fd) ==
  /\ a = [state |-> a.state, wired |-> a.wired, launches |-> a.launches]
  /\ a.wired => \A f \in Facings : fd[f].image # "none"

CameraInv == WritesAre(write, staged) /\ FeedsAre(feed) /\ SeedsAre(write, feed) /\ WiringIs(avd, feed)

LEMMA NoWriteIs ==
  /\ \A w : FeedWriteIs(w, NoWrite) /\ StagedFor("none", NoWrite)
  /\ WriteRecord(NoWrite) /\ NoWrite.step = "idle" /\ ~NoWrite.stale
BY DEF FeedWriteIs, NoWrite, StagedFor, WriteRecord

NewWrite(step, f, image) == [NoWrite EXCEPT !.step = step, !.facing = f, !.image = image]

LEMMA NewWriteIs ==
  ASSUME NEW step, NEW f, NEW image
  PROVE  LET x == NewWrite(step, f, image)
         IN  WriteRecord(x) /\ x.step = step /\ x.facing = f /\ x.image = image /\ ~x.stale
<1>4. PICK x : x = NewWrite(step, f, image) OBVIOUS
<1>1. PICK b : b = NoWrite OBVIOUS
<1>2. b = [step |-> b.step, facing |-> b.facing, image |-> b.image, stale |-> b.stale] /\ ~b.stale
  BY <1>1, NoWriteIs DEF WriteRecord
<1>3. x = [b EXCEPT !.step = step, !.facing = f, !.image = image] BY <1>1, <1>4 DEF NewWrite
<1>5. WriteRecord(x) /\ x.step = step /\ x.facing = f /\ x.image = image /\ ~x.stale
  BY <1>2, <1>3 DEF WriteRecord
<1> QED BY <1>4, <1>5

LEMMA NoWriteSteps ==
  ASSUME NEW step, NEW x, x = [NoWrite EXCEPT !.step = step]
  PROVE  WriteRecord(x) /\ x.step = step /\ ~x.stale
<1>1. PICK b : b = NoWrite OBVIOUS
<1>2. b = [step |-> b.step, facing |-> b.facing, image |-> b.image, stale |-> b.stale] /\ ~b.stale
  BY <1>1, NoWriteIs DEF WriteRecord
<1>3. x = [b EXCEPT !.step = step] BY <1>1
<1> QED BY <1>2, <1>3 DEF WriteRecord

LEMMA CamerasStart == CameraInit => CameraInv
<1>1. ASSUME CameraInit PROVE CameraInv
  <2>1. \A w \in Writers : write[w] = NoWrite /\ staged[w] = "none" BY <1>1 DEF CameraInit
  <2>2. write = [w \in Writers |-> write[w]] /\ staged = [w \in Writers |-> staged[w]]
    BY <1>1 DEF CameraInit
  <2>3. WritesAre(write, staged) BY <2>1, <2>2, NoWriteIs DEF WritesAre
  <2>4. FeedsAre(feed) BY <1>1 DEF CameraInit, FeedsAre
  <2>5. SeedsAre(write, feed)
    <3>1. \A f \in Facings : write[f].step = "idle" BY <2>1, NoWriteIs DEF Writers
    <3> QED BY <3>1 DEF SeedsAre
  <2>6. WiringIs(avd, feed) BY <1>1 DEF CameraInit, WiringIs
  <2> QED BY <2>3, <2>4, <2>5, <2>6 DEF CameraInv
<1> QED BY <1>1

\* One writer goes on.
LEMMA WriterGoesOn ==
  ASSUME NEW w \in Writers, NEW x, NEW s, NEW wr, NEW st, WritesAre(wr, st),
         FeedWriteIs(w, x), StagedFor(s, x)
  PROVE  WritesAre([wr EXCEPT ![w] = x], [st EXCEPT ![w] = s])
<1>. DEFINE wr2 == [wr EXCEPT ![w] = x]
            st2 == [st EXCEPT ![w] = s]
<1>1. /\ wr2 = [v \in Writers |-> wr2[v]] /\ wr2[w] = x
      /\ \A v \in Writers : v # w => wr2[v] = wr[v]
  BY DEF WritesAre
<1>2. /\ st2 = [v \in Writers |-> st2[v]] /\ st2[w] = s
      /\ \A v \in Writers : v # w => st2[v] = st[v]
  BY DEF WritesAre
<1>. HIDE DEF wr2, st2
<1>3. ASSUME NEW v \in Writers PROVE FeedWriteIs(v, wr2[v]) /\ StagedFor(st2[v], wr2[v])
  <2>1. CASE v = w BY <1>1, <1>2, <2>1
  <2>2. CASE v # w BY <1>1, <1>2, <2>2 DEF WritesAre
  <2> QED BY <2>1, <2>2
<1> QED BY <1>1, <1>2, <1>3 DEF WritesAre, wr2, st2

\* The feeds stay, and no seed has just been written.
LEMMA CameraWriteMoves ==
  ASSUME CameraInv, NEW w \in Writers, NEW x, NEW s, FeedWriteIs(w, x), StagedFor(s, x),
         write' = [write EXCEPT ![w] = x], staged' = [staged EXCEPT ![w] = s],
         UNCHANGED <<avd, feed>>, x.step # "written"
  PROVE  CameraInv'
<1>1. WritesAre(write', staged') BY WriterGoesOn DEF CameraInv
<1>2. \A f \in Facings : write'[f].step = "written" => write[f].step = "written"
  <2>1. \A v \in Writers : write'[v] = IF v = w THEN x ELSE write[v] BY DEF CameraInv, WritesAre
  <2> QED BY <2>1 DEF Writers
<1> QED BY <1>1, <1>2 DEF CameraInv, SeedsAre

LEMMA CameraWriteSteps ==
  ASSUME CameraInv, NEW w \in Writers, NEW step, NEW s, StagedFor(s, [write[w] EXCEPT !.step = step]),
         FeedWriteIs(w, [write[w] EXCEPT !.step = step]), step # "written",
         WriteBecomes(w, step), staged' = [staged EXCEPT ![w] = s], UNCHANGED <<avd, feed>>
  PROVE  CameraInv'
<1>. DEFINE x == [write[w] EXCEPT !.step = step]
<1>1. write' = [write EXCEPT ![w] = x] BY DEF WriteBecomes
<1>2. x.step = step BY DEF CameraInv, WritesAre, FeedWriteIs, WriteRecord
<1>. HIDE DEF x
<1> QED BY <1>1, <1>2, CameraWriteMoves DEF x

LEMMA CameraWriteFails ==
  ASSUME CameraInv, NEW w \in Writers, staged' = [staged EXCEPT ![w] = "none"], UNCHANGED <<avd, feed>>,
         Failed(w) \/ RequestEnds(w)
  PROVE  CameraInv'
<1>1. ASSUME NEW x, write' = [write EXCEPT ![w] = x], WriteRecord(x), x.step \in {"idle", "failed"},
             ~x.stale
      PROVE  CameraInv'
  <2>1. FeedWriteIs(w, x) /\ StagedFor("none", x) /\ x.step # "written"
    BY <1>1 DEF FeedWriteIs, StagedFor
  <2> QED BY <1>1, <2>1, CameraWriteMoves
<1>2. CASE RequestEnds(w) BY <1>1, <1>2, NoWriteIs DEF RequestEnds
<1>3. CASE Failed(w)
  <2>1. PICK step \in {"idle", "failed"} : write' = [write EXCEPT ![w] = [NoWrite EXCEPT !.step = step]]
    BY <1>3 DEF Failed
  <2>2. PICK x : x = [NoWrite EXCEPT !.step = step] OBVIOUS
  <2> QED BY <1>1, <2>1, <2>2, NoWriteSteps
<1> QED BY <1>2, <1>3

LEMMA TheWriteGoesOn ==
  ASSUME CameraInv, NEW w \in Writers,
         WriteFileBegins(w) \/ WriteFileEnds(w) \/ WriteUndone(w)
  PROVE  CameraInv'
<1>1. FeedWriteIs(w, write[w]) /\ StagedFor(staged[w], write[w]) /\ staged = [v \in Writers |-> staged[v]]
  BY DEF CameraInv, WritesAre
<1>2. staged = [staged EXCEPT ![w] = staged[w]] BY <1>1
<1>3. CASE WriteFileBegins(w)
  <2>1. write[w].step = "making" /\ UNCHANGED <<avd, feed>> /\ staged[w] = "none"
    BY <1>1, <1>3 DEF WriteFileBegins, StagedFor
  <2>2. FeedWriteIs(w, [write[w] EXCEPT !.step = "writing"])
        /\ StagedFor("partial", [write[w] EXCEPT !.step = "writing"])
    BY <1>1, <2>1 DEF FeedWriteIs, WriteRecord, StagedFor
  <2>3. CASE WriteBecomes(w, "writing") /\ staged' = [staged EXCEPT ![w] = "partial"]
    BY <2>1, <2>2, <2>3, CameraWriteSteps
  <2>4. CASE Failed(w) /\ staged' = staged
    <3>1. staged' = [staged EXCEPT ![w] = "none"] BY <1>2, <2>1, <2>4
    <3> QED BY <2>1, <2>4, <3>1, CameraWriteFails
  <2> QED BY <1>3, <2>3, <2>4 DEF WriteFileBegins
<1>4. CASE WriteFileEnds(w)
  <2>. DEFINE s == IF staged[w] = "partial" THEN "whole" ELSE staged[w]
  <2>1. write[w].step = "writing" /\ UNCHANGED <<avd, feed>> BY <1>4 DEF WriteFileEnds
  <2>2. /\ FeedWriteIs(w, [write[w] EXCEPT !.step = "renaming"])
        /\ FeedWriteIs(w, [write[w] EXCEPT !.step = "undoing"])
        /\ StagedFor(s, [write[w] EXCEPT !.step = "renaming"])
        /\ StagedFor(staged[w], [write[w] EXCEPT !.step = "undoing"])
    BY <1>1, <2>1 DEF FeedWriteIs, WriteRecord, StagedFor
  <2>3. CASE WriteBecomes(w, "renaming")
             /\ staged' = [staged EXCEPT ![w] = IF @ = "partial" THEN "whole" ELSE @]
    BY <2>1, <2>2, <2>3, CameraWriteSteps
  <2>4. CASE WriteBecomes(w, "undoing") /\ staged' = staged
    <3>1. staged' = [staged EXCEPT ![w] = staged[w]] BY <1>2, <2>4
    <3> QED BY <2>1, <2>2, <2>4, <3>1, CameraWriteSteps
  <2> QED BY <1>4, <2>3, <2>4 DEF WriteFileEnds
<1>5. CASE WriteUndone(w) BY <1>5, CameraWriteFails DEF WriteUndone
<1> QED BY <1>3, <1>4, <1>5

LEMMA TheFileIsReplaced ==
  ASSUME CameraInv, NEW w \in Writers, RenameEnds(w) PROVE CameraInv'
<1>1. /\ FeedWriteIs(w, write[w]) /\ StagedFor(staged[w], write[w]) /\ FeedsAre(feed)
      /\ staged = [v \in Writers |-> staged[v]] /\ WiringIs(avd, feed) /\ SeedsAre(write, feed)
  BY DEF CameraInv, WritesAre
<1>2. write[w].step = "renaming" /\ avd' = avd BY DEF RenameEnds
<1>3. CASE WriteBecomes(w, "undoing") /\ UNCHANGED <<feed, staged>>
  <2>1. /\ FeedWriteIs(w, [write[w] EXCEPT !.step = "undoing"])
        /\ StagedFor(staged[w], [write[w] EXCEPT !.step = "undoing"])
    BY <1>1, <1>2 DEF FeedWriteIs, WriteRecord, StagedFor
  <2>2. staged' = [staged EXCEPT ![w] = staged[w]] BY <1>1, <1>3
  <2> QED BY <1>2, <1>3, <2>1, <2>2, CameraWriteSteps
<1>4. CASE /\ staged[w] # "none" /\ feed' = [feed EXCEPT ![write[w].facing] = Replaced(w)]
           /\ staged' = [staged EXCEPT ![w] = "none"] /\ WriteBecomes(w, "written")
  <2>. DEFINE x == [write[w] EXCEPT !.step = "written"]
              f == write[w].facing
  <2>1. write' = [write EXCEPT ![w] = x] BY <1>4 DEF WriteBecomes
  <2>2. FeedWriteIs(w, x) /\ StagedFor("none", x) /\ x.step = "written"
    BY <1>1, <1>2 DEF FeedWriteIs, WriteRecord, StagedFor
  <2>. HIDE DEF x
  <2>3. WritesAre(write', staged') BY <1>4, <2>1, <2>2, WriterGoesOn DEF CameraInv
  <2>4. /\ f \in Facings /\ write[w].image \notin {"none", "broken"} /\ staged[w] = "whole"
        /\ (w \in Facings => f = w)
    BY <1>1, <1>2, <1>4 DEF FeedWriteIs, WriteRecord, StagedFor
  <2>5. Replaced(w) = [image |-> Replaced(w).image, whole |-> Replaced(w).whole]
        /\ Replaced(w).image = write[w].image /\ Replaced(w).whole
    BY <2>4 DEF Replaced
  <2>6. /\ feed' = [g \in Facings |-> feed'[g]] /\ feed'[f] = Replaced(w)
        /\ \A g \in Facings : g # f => feed'[g] = feed[g]
    BY <1>1, <1>4, <2>4 DEF FeedsAre
  <2>. HIDE DEF f
  <2>7. FeedsAre(feed') BY <1>1, <2>4, <2>5, <2>6 DEF FeedsAre
  <2>8. \A g \in Facings : feed[g].image # "none" => feed'[g].image # "none"
    BY <2>4, <2>5, <2>6
  <2>9. SeedsAre(write', feed')
    <3>1. ASSUME NEW g \in Facings, write'[g].step = "written" PROVE feed'[g].image # "none"
      <4>1. CASE g = w BY <2>4, <2>5, <2>6, <4>1
      <4>2. CASE g # w
        <5>1. write'[g] = write[g] BY <2>1, <4>2 DEF CameraInv, WritesAre, Writers
        <5> QED BY <1>1, <2>8, <3>1, <5>1 DEF SeedsAre
      <4> QED BY <4>1, <4>2
    <3> QED BY <3>1 DEF SeedsAre
  <2>10. WiringIs(avd', feed') BY <1>1, <1>2, <2>8 DEF WiringIs
  <2> QED BY <2>3, <2>7, <2>9, <2>10 DEF CameraInv
<1> QED BY <1>3, <1>4 DEF RenameEnds

LEMMA TheRequestGoesOn ==
  ASSUME CameraInv, NEW u \in Users,
         CameraPosted(u) \/ CameraBodyRead(u) \/ CameraCleared(u) \/ CameraStatusRead(u)
  PROVE  CameraInv'
<1>1. /\ FeedWriteIs(u, write[u]) /\ StagedFor(staged[u], write[u]) /\ u \in Writers
      /\ staged = [v \in Writers |-> staged[v]]
  BY DEF CameraInv, WritesAre, Writers
<1>2. u \notin Facings /\ u # "none" /\ u # "broken" BY CameraAssumption
<1>3. UNCHANGED <<avd, feed, staged>>
  BY DEF CameraPosted, CameraBodyRead, CameraCleared, CameraStatusRead
<1>4. write[u].step \in {"idle", "body", "written"}
  BY DEF CameraPosted, CameraBodyRead, CameraCleared, CameraStatusRead, Unoccupied
<1>5. staged' = [staged EXCEPT ![u] = "none"] BY <1>1, <1>3, <1>4 DEF StagedFor
<1>6. CASE RequestEnds(u) BY <1>1, <1>3, <1>5, <1>6, CameraWriteFails
<1>7. CASE CameraPosted(u) \/ CameraCleared(u)
  <2>1. PICK f \in Facings, step \in {"body", "making"}, image \in {u, "broken", "placeholder"} :
          /\ image # "none" /\ (step = "making" => image # "broken")
          /\ write' = [write EXCEPT ![u] = [NoWrite EXCEPT !.step = step, !.facing = f, !.image = image]]
    BY <1>2, <1>7 DEF CameraPosted, CameraCleared
  <2>4. PICK x : x = NewWrite(step, f, image) OBVIOUS
  <2>2. WriteRecord(x) /\ x.step = step /\ x.facing = f /\ x.image = image /\ ~x.stale
    BY <2>4, NewWriteIs
  <2>3. FeedWriteIs(u, x) /\ StagedFor("none", x) /\ x.step # "written"
    BY <1>2, <2>1, <2>2 DEF FeedWriteIs, WriteRecord, StagedFor
  <2> QED BY <1>1, <1>3, <1>5, <2>1, <2>3, <2>4, CameraWriteMoves DEF NewWrite
<1>8. CASE write[u].step = "body" /\ ~SessionMovedOn(u) /\ Loadable(u) /\ WriteBecomes(u, "making")
  <2>1. /\ FeedWriteIs(u, [write[u] EXCEPT !.step = "making"])
        /\ StagedFor("none", [write[u] EXCEPT !.step = "making"])
    BY <1>1, <1>8 DEF FeedWriteIs, WriteRecord, StagedFor, SessionMovedOn, Loadable
  <2> QED BY <1>1, <1>3, <1>5, <1>8, <2>1, CameraWriteSteps
<1> QED BY <1>6, <1>7, <1>8 DEF CameraBodyRead, CameraStatusRead

LEMMA CameraGoesOn == CameraInv /\ CameraNext => CameraInv'
<1>1. ASSUME CameraInv, CameraSessionMoves PROVE CameraInv'
  <2>1. UNCHANGED <<avd, feed, staged>> BY <1>1 DEF CameraSessionMoves
  <2>2. write' = [w \in Writers |-> write'[w]]
        /\ \A w \in Writers : write'[w] = IF write[w].step = "body" THEN [write[w] EXCEPT !.stale = TRUE]
                                         ELSE write[w]
    BY <1>1 DEF CameraSessionMoves
  <2>3. ASSUME NEW w \in Writers
        PROVE  FeedWriteIs(w, write'[w]) /\ StagedFor(staged[w], write'[w]) /\ write'[w].step = write[w].step
    <3>1. FeedWriteIs(w, write[w]) /\ StagedFor(staged[w], write[w]) BY <1>1 DEF CameraInv, WritesAre
    <3> QED BY <2>2, <3>1 DEF FeedWriteIs, WriteRecord, StagedFor
  <2>4. WritesAre(write', staged') BY <1>1, <2>1, <2>2, <2>3 DEF CameraInv, WritesAre
  <2>5. SeedsAre(write', feed') BY <1>1, <2>1, <2>3 DEF CameraInv, SeedsAre, Writers
  <2> QED BY <1>1, <2>1, <2>4, <2>5 DEF CameraInv
<1>2. ASSUME CameraInv, SeedingBegins PROVE CameraInv'
  <2>1. PICK kept \in SUBSET Users :
          staged' = [w \in Writers |-> IF w \in kept THEN staged[w] ELSE "none"]
    BY <1>2 DEF SeedingBegins
  <2>2. /\ feed' = feed /\ avd' = [state |-> "seeding", wired |-> FALSE, launches |-> avd'.launches]
        /\ write' = [w \in Writers |-> IF w \in Facings THEN Seeding(w) ELSE write[w]]
    BY <1>2 DEF SeedingBegins
  <2>3. ASSUME NEW w \in Facings PROVE /\ FeedWriteIs(w, Seeding(w)) /\ StagedFor("none", Seeding(w))
                                       /\ Seeding(w).step = "making"
    <3>1. /\ WriteRecord(Seeding(w)) /\ Seeding(w).step = "making" /\ Seeding(w).facing = w
          /\ Seeding(w).image = "placeholder" /\ ~Seeding(w).stale
      <4>1. Seeding(w) = NewWrite("making", w, "placeholder") BY DEF Seeding, NewWrite
      <4> QED BY <4>1, NewWriteIs
    <3> QED BY <3>1 DEF FeedWriteIs, WriteRecord, StagedFor
  <2>4. ASSUME NEW w \in Writers PROVE FeedWriteIs(w, write'[w]) /\ StagedFor(staged'[w], write'[w])
    <3>1. CASE w \in Facings
      <4>1. w \notin kept BY <3>1, CameraAssumption
      <4> QED BY <2>1, <2>2, <2>3, <3>1, <4>1
    <3>2. CASE w \notin Facings
      <4>1. write'[w] = write[w] /\ staged'[w] \in {"none", staged[w]} BY <2>1, <2>2, <3>2
      <4>2. FeedWriteIs(w, write[w]) /\ StagedFor(staged[w], write[w]) BY <1>2 DEF CameraInv, WritesAre
      <4> QED BY <4>1, <4>2 DEF StagedFor
    <3> QED BY <3>1, <3>2
  <2>5. WritesAre(write', staged') BY <2>1, <2>2, <2>4 DEF WritesAre
  <2>6. SeedsAre(write', feed') BY <2>2, <2>3 DEF SeedsAre, Writers
  <2>7. WiringIs(avd', feed') BY <2>2 DEF WiringIs
  <2> QED BY <1>2, <2>2, <2>5, <2>6, <2>7 DEF CameraInv
<1>3. ASSUME CameraInv, SeedingEnds \/ StartedUnwired \/ EmulatorStops PROVE CameraInv'
  <2>1. UNCHANGED <<feed, staged, write>> BY <1>3 DEF SeedingEnds, StartedUnwired, EmulatorStops
  <2>2. WiringIs(avd', feed)
    <3>1. Seeded => \A f \in Facings : feed[f].image # "none"
      BY <1>3 DEF CameraInv, SeedsAre, Seeded
    <3>2. WiringIs(avd, feed) BY <1>3 DEF CameraInv
    <3>3. CASE SeedingEnds BY <3>1, <3>2, <3>3 DEF SeedingEnds, WiringIs
    <3>4. CASE StartedUnwired
      <4>. DEFINE k == avd.launches + 1
      <4>1. avd' = [state |-> "on", wired |-> FALSE, launches |-> k] BY <3>4 DEF StartedUnwired
      <4>. HIDE DEF k
      <4> QED BY <4>1 DEF WiringIs
    <3>5. CASE EmulatorStops BY <3>2, <3>5 DEF EmulatorStops, WiringIs
    <3> QED BY <1>3, <3>3, <3>4, <3>5
  <2> QED BY <1>3, <2>1, <2>2 DEF CameraInv
<1>4. ASSUME CameraInv, SeedForgotten PROVE CameraInv'
  <2>1. /\ UNCHANGED <<avd, feed, staged>> /\ \A f \in Facings : write[f].step \in {"failed", "written"}
        /\ write' = [w \in Writers |-> IF w \in Facings THEN NoWrite ELSE write[w]]
    BY <1>4 DEF SeedForgotten
  <2>2. ASSUME NEW w \in Writers PROVE FeedWriteIs(w, write'[w]) /\ StagedFor(staged[w], write'[w])
    <3>1. FeedWriteIs(w, write[w]) /\ StagedFor(staged[w], write[w]) BY <1>4 DEF CameraInv, WritesAre
    <3>2. CASE w \in Facings
      <4>1. staged[w] = "none" BY <2>1, <3>1, <3>2 DEF StagedFor
      <4> QED BY <2>1, <3>2, <4>1, NoWriteIs
    <3>3. CASE w \notin Facings BY <2>1, <3>1, <3>3
    <3> QED BY <3>2, <3>3
  <2>3. WritesAre(write', staged') BY <1>4, <2>1, <2>2 DEF CameraInv, WritesAre
  <2>4. \A f \in Facings : write'[f].step = "idle" BY <2>1, NoWriteIs DEF Writers
  <2>5. SeedsAre(write', feed') BY <2>4 DEF SeedsAre
  <2> QED BY <1>4, <2>1, <2>3, <2>5 DEF CameraInv
<1>5. ASSUME CameraInv, ServerRestarts PROVE CameraInv'
  <2>. DEFINE state == IF avd.state = "seeding" THEN "off" ELSE avd.state
  <2>1. /\ feed' = feed /\ write' = [w \in Writers |-> NoWrite] /\ staged' = [w \in Writers |-> "none"]
        /\ avd' = [avd EXCEPT !.state = state]
    BY <1>5 DEF ServerRestarts
  <2>. HIDE DEF state
  <2>2. WritesAre(write', staged') BY <2>1, NoWriteIs DEF WritesAre
  <2>3. \A f \in Facings : write'[f].step = "idle" BY <2>1, NoWriteIs DEF Writers
  <2>4. SeedsAre(write', feed') BY <2>3 DEF SeedsAre
  <2>5. WiringIs(avd', feed') BY <1>5, <2>1 DEF CameraInv, WiringIs
  <2> QED BY <1>5, <2>1, <2>2, <2>4, <2>5 DEF CameraInv
<1> QED
  BY <1>1, <1>2, <1>3, <1>4, <1>5, TheWriteGoesOn, TheFileIsReplaced, TheRequestGoesOn DEF CameraNext

LEMMA CameraStays == CameraInv /\ UNCHANGED cameraVars => CameraInv'
BY DEF CameraInv, cameraVars

LEMMA CameraPromises == CameraInv => CamerasAreNeverMagenta /\ FeedStagingIsOwned /\ MutatesItsOwnSession
<1>1. ASSUME CameraInv PROVE CamerasAreNeverMagenta
  BY <1>1 DEF CameraInv, CamerasAreNeverMagenta, Present, Wired, FeedsAre, WiringIs
<1>2. ASSUME CameraInv PROVE FeedStagingIsOwned
  BY <1>2 DEF CameraInv, FeedStagingIsOwned, WritesAre, StagedFor
<1>3. ASSUME CameraInv PROVE MutatesItsOwnSession
  BY <1>3 DEF CameraInv, MutatesItsOwnSession, WritesAre, FeedWriteIs, WriteRecord, Writers
<1> QED BY <1>1, <1>2, <1>3

-----------------------------------------------------------------------------
(* LogcatHub.                                                               *)

Subscriber ==
  [active : BOOLEAN, lines : Nat, owed : BOOLEAN, chunks : Nat, timer : BOOLEAN,
   waiting : BOOLEAN, lookup : BOOLEAN, pidTimer : BOOLEAN]

\* What is queued for a subscriber will be flushed, and only an active one is busy.
Served(sub) ==
  /\ sub \in Subscriber
  /\ sub.timer \/ sub.lookup \/ sub.pidTimer => sub.active
  /\ sub.active =>
       /\ sub.lines > 0 \/ sub.owed => sub.timer \/ sub.waiting
       /\ sub.waiting => sub.chunks > 0

\* What is buffered of a line is what was read of it.
SourceOK(src) ==
  /\ src \in [buffer : Nat, discarding : BOOLEAN, read : Nat, wrong : BOOLEAN]
  /\ ~src.discarding => src.read = src.buffer
  /\ ~src.wrong

HubInv ==
  /\ hubClosed \in BOOLEAN /\ child \in BOOLEAN /\ graceTimer \in BOOLEAN
  /\ terminating \in {"none", "term", "killed"}
  /\ terminating = "term" => graceTimer
  /\ subs \in [Subscribers -> Subscriber] /\ \A s \in Subscribers : Served(subs[s])
  /\ SourceOK(source)
  /\ SubscribersAreFed

LEMMA HubLimits == MaxSubscribers \in Nat /\ MaxQueueLines \in Nat /\ MaxLine \in Nat
BY HubAssumption

LEMMA InactiveServed == Served(Inactive) /\ ~Inactive.active
BY DEF Inactive, Served, Subscriber

LEMMA SourceEmpty == SourceOK(EmptySource)
BY DEF EmptySource, SourceOK

LEMMA FlushServed ==
  ASSUME NEW sub \in Subscriber, sub.timer \/ sub.lookup \/ sub.pidTimer => sub.active,
         sub.waiting => sub.chunks > 0
  PROVE  Served(Flushed(sub)) /\ Flushed(sub).active = sub.active
<1>1. CASE sub.chunks > 0
  <2>1. Flushed(sub) = [sub EXCEPT !.waiting = TRUE] BY <1>1 DEF Flushed
  <2> QED BY <1>1, <2>1 DEF Served, Subscriber
<1>2. CASE ~(sub.chunks > 0)
  <2>. DEFINE k == IF sub.lines > 0 \/ sub.owed THEN 1 ELSE 0
  <2>1. Flushed(sub) = [sub EXCEPT !.lines = 0, !.owed = FALSE, !.chunks = k] BY <1>2 DEF Flushed
  <2>2. k \in Nat OBVIOUS
  <2>3. ~sub.waiting BY <1>2
  <2>. HIDE DEF k
  <2>. DEFINE f == [sub EXCEPT !.lines = 0, !.owed = FALSE, !.chunks = k]
  <2>4. /\ f \in Subscriber /\ f.lines = 0 /\ f.owed = FALSE
        /\ f.active = sub.active /\ f.timer = sub.timer /\ f.waiting = sub.waiting
        /\ f.lookup = sub.lookup /\ f.pidTimer = sub.pidTimer
    BY <2>2 DEF Subscriber
  <2>. HIDE DEF f
  <2>5. Served(f) /\ f.active = sub.active BY <2>3, <2>4 DEF Served
  <2> QED BY <2>1, <2>5 DEF f
<1> QED BY <1>1, <1>2

LEMMA PushServed ==
  ASSUME NEW sub, Served(sub), sub.active
  PROVE  Served(Pushed(sub)) /\ Pushed(sub).active
<1>. DEFINE t == sub.timer \/ (sub.active /\ ~sub.waiting)
            a == [sub EXCEPT !.lines = @ + 1]
            b == [sub EXCEPT !.owed = TRUE]
<1>1. t \in BOOLEAN /\ (~sub.waiting => t = TRUE) /\ (sub.waiting => sub.chunks > 0)
  BY DEF Served
<1>2. Scheduled(a) = [a EXCEPT !.timer = t] BY DEF Served, Subscriber, Scheduled
<1>3. Scheduled(b) = [b EXCEPT !.timer = t] BY DEF Served, Subscriber, Scheduled
<1>4. Pushed(sub) \in {Scheduled(a), Scheduled(b)} BY DEF Pushed
<1>. HIDE DEF t
<1>. DEFINE c == [a EXCEPT !.timer = t]
            d == [b EXCEPT !.timer = t]
<1>5. /\ c \in Subscriber /\ c.active = sub.active /\ c.timer = t
      /\ c.waiting = sub.waiting /\ c.chunks = sub.chunks
  <2>1. /\ a \in Subscriber /\ a.active = sub.active /\ a.waiting = sub.waiting
        /\ a.chunks = sub.chunks
    <3>1. sub \in Subscriber BY DEF Served
    <3>. DEFINE n == sub.lines + 1
    <3>2. a = [sub EXCEPT !.lines = n] /\ n \in Nat BY <3>1 DEF Subscriber, a
    <3>. HIDE DEF n
    <3> QED BY <3>1, <3>2 DEF Subscriber
  <2>. HIDE DEF a
  <2> QED BY <1>1, <2>1 DEF Subscriber
<1>6. /\ d \in Subscriber /\ d.active = sub.active /\ d.timer = t
      /\ d.waiting = sub.waiting /\ d.chunks = sub.chunks
  BY <1>1 DEF Served, Subscriber
<1>. HIDE DEF a, b, c, d
<1>7. Served(c) /\ c.active BY <1>1, <1>5 DEF Served
<1>8. Served(d) /\ d.active BY <1>1, <1>6 DEF Served
<1> QED BY <1>2, <1>3, <1>4, <1>7, <1>8 DEF c, d

LEMMA OweServed ==
  ASSUME NEW sub, Served(sub), sub.active
  PROVE  /\ Served(Scheduled([sub EXCEPT !.owed = TRUE]))
         /\ Scheduled([sub EXCEPT !.owed = TRUE]).active
BY DEF Scheduled, Served, Subscriber

\* Subscribers that are all well served.
AllServed(ss) == ss \in [Subscribers -> Subscriber] /\ \A s \in Subscribers : Served(ss[s])

LEMMA LinesServed ==
  ASSUME NEW ss, AllServed(ss), NEW matching \in SUBSET ActiveIn(ss), NEW n
  PROVE  /\ AllServed(Dispatched(ss, matching)) /\ ActiveIn(Dispatched(ss, matching)) = ActiveIn(ss)
         /\ AllServed(SourceDropped(ss)) /\ ActiveIn(SourceDropped(ss)) = ActiveIn(ss)
         /\ AllServed(Accepted(ss, n, matching)) /\ ActiveIn(Accepted(ss, n, matching)) = ActiveIn(ss)
<1>. DEFINE d == Dispatched(ss, matching)
            o == SourceDropped(ss)
<1>1. \A s \in Subscribers : Served(d[s]) /\ d[s].active = ss[s].active
  <2>1. SUFFICES ASSUME NEW s \in Subscribers PROVE Served(d[s]) /\ d[s].active = ss[s].active OBVIOUS
  <2>2. Served(ss[s]) BY DEF AllServed
  <2>3. d[s] = IF s \in matching THEN Pushed(ss[s]) ELSE ss[s] BY DEF Dispatched
  <2>4. CASE s \in matching
    <3>1. ss[s].active BY <2>4 DEF ActiveIn
    <3>2. Served(Pushed(ss[s])) /\ Pushed(ss[s]).active BY <2>2, <3>1, PushServed
    <3>3. ss[s].active = TRUE /\ Pushed(ss[s]).active = TRUE BY <2>2, <3>1, <3>2 DEF Served, Subscriber
    <3> QED BY <2>3, <2>4, <3>2, <3>3
  <2>5. CASE s \notin matching BY <2>2, <2>3, <2>5
  <2> QED BY <2>4, <2>5
<1>2. \A s \in Subscribers : Served(o[s]) /\ o[s].active = ss[s].active
  <2>1. SUFFICES ASSUME NEW s \in Subscribers PROVE Served(o[s]) /\ o[s].active = ss[s].active OBVIOUS
  <2>2. Served(ss[s]) BY DEF AllServed
  <2>3. o[s] = IF ss[s].active THEN Scheduled([ss[s] EXCEPT !.owed = TRUE]) ELSE ss[s] BY DEF SourceDropped
  <2>4. CASE ss[s].active BY <2>2, <2>3, <2>4, OweServed
  <2>5. CASE ~ss[s].active BY <2>2, <2>3, <2>5
  <2> QED BY <2>4, <2>5
<1>3. AllServed(d) BY <1>1 DEF AllServed, Dispatched, Served
<1>4. AllServed(o) BY <1>2 DEF AllServed, SourceDropped, Served
<1>5. ActiveIn(d) = ActiveIn(ss) /\ ActiveIn(o) = ActiveIn(ss) BY <1>1, <1>2 DEF ActiveIn
<1>. HIDE DEF d, o
<1>6. Accepted(ss, n, matching) \in {ss, o, d} BY DEF Accepted, d, o
<1>7. AllServed(Accepted(ss, n, matching)) /\ ActiveIn(Accepted(ss, n, matching)) = ActiveIn(ss)
  BY <1>3, <1>4, <1>5, <1>6
<1> QED BY <1>3, <1>4, <1>5, <1>7 DEF d, o
\* The source goes on with n bytes of a line that is not discarded.
LEMMA BufferedOK ==
  ASSUME NEW ss, AllServed(ss), NEW n \in Nat, SourceOK(source), Buffered(ss, n, FALSE, n, FALSE)
  PROVE  /\ SourceOK(source') /\ AllServed(subs') /\ ActiveIn(subs') = ActiveIn(ss)
<1>1. CASE n > MaxLine
  <2>1. subs' = SourceDropped(ss) BY <1>1 DEF Buffered
  <2>2. SourceOK(source')
    <3>1. source' = [buffer |-> 0, discarding |-> TRUE, read |-> MaxLine + 1, wrong |-> FALSE]
      BY <1>1 DEF Buffered
    <3>2. MaxLine + 1 \in Nat BY HubLimits
    <3> QED BY <3>1, <3>2 DEF SourceOK
  <2>3. {} \in SUBSET ActiveIn(ss) OBVIOUS
  <2>4. AllServed(SourceDropped(ss)) /\ ActiveIn(SourceDropped(ss)) = ActiveIn(ss) BY <2>3, LinesServed
  <2> QED BY <2>1, <2>2, <2>4
<1>2. CASE ~(n > MaxLine)
  <2>1. subs' = ss BY <1>2 DEF Buffered
  <2>2. SourceOK(source')
    <3>1. source' = [buffer |-> n, discarding |-> FALSE, wrong |-> FALSE,
                     read |-> IF n > MaxLine THEN MaxLine + 1 ELSE n]
      BY <1>2 DEF Buffered
    <3> QED BY <1>2, <3>1 DEF SourceOK
  <2> QED BY <2>1, <2>2
<1> QED BY <1>1, <1>2

LEMMA HubStarts == HubInit => HubInv
<1>1. ASSUME HubInit PROVE HubInv
  <2>1. subs \in [Subscribers -> Subscriber] /\ \A s \in Subscribers : Served(subs[s]) /\ ~subs[s].active
    BY <1>1, InactiveServed DEF HubInit, Served
  <2>2. ActiveIn(subs) = {} BY <2>1 DEF ActiveIn
  <2> QED BY <1>1, <2>1, <2>2, SourceEmpty DEF HubInit, HubInv, SubscribersAreFed
<1> QED BY <1>1

\* The end of those who are gone, and with the last one of the child.
LEMMA RemovalOK ==
  ASSUME HubInv, NEW gone \in SUBSET ActiveIn(subs), gone # {}, Removed(gone),
         UNCHANGED <<hubClosed, children>>
  PROVE  HubInv'
<1>. DEFINE after == [s \in Subscribers |-> IF s \in gone THEN Inactive ELSE subs[s]]
<1>1. AllServed(after) BY InactiveServed DEF HubInv, AllServed, Served
<1>2. ActiveIn(after) = ActiveIn(subs) \ gone BY InactiveServed DEF ActiveIn, HubInv
<1>3. subs' = after BY DEF Removed
<1>4. hubClosed' = hubClosed OBVIOUS
<1>. HIDE DEF after
<1>5. CASE ActiveIn(after) = {} /\ child
  <2>1. child' = FALSE /\ terminating' = "term" /\ graceTimer' = TRUE /\ source' = EmptySource
    BY <1>5 DEF Removed, after
  <2> QED BY <1>1, <1>2, <1>3, <1>4, <1>5, <2>1, SourceEmpty DEF HubInv, AllServed, SubscribersAreFed
<1>6. CASE ~(ActiveIn(after) = {} /\ child)
  <2>1. UNCHANGED <<child, terminating, graceTimer, source>> BY <1>6 DEF Removed, after
  <2> QED BY <1>1, <1>2, <1>3, <1>4, <1>6, <2>1 DEF HubInv, AllServed, SubscribersAreFed
<1> QED BY <1>5, <1>6

LEMMA HubGoesOn == HubInv /\ HubNext => HubInv'
<1>1. SUFFICES ASSUME HubInv, HubNext PROVE HubInv' OBVIOUS
<1>2. AllServed(subs) /\ SourceOK(source) BY <1>1 DEF HubInv, AllServed
<1>3. ASSUME NEW s \in Subscribers, NEW filtered \in BOOLEAN, Subscribe(s, filtered) PROVE HubInv'
  <2>. DEFINE sub == [Inactive EXCEPT !.active = TRUE, !.chunks = 1, !.lookup = filtered, !.pidTimer = filtered]
  <2>1. Served(sub) /\ sub.active
    <3>1. Inactive \in Subscriber /\ Inactive.lines = 0 /\ Inactive.owed = FALSE
          /\ Inactive.timer = FALSE /\ Inactive.waiting = FALSE
      BY DEF Inactive, Subscriber
    <3>2. /\ sub \in Subscriber /\ sub.active = TRUE /\ sub.lines = 0 /\ sub.owed = FALSE
          /\ sub.timer = FALSE /\ sub.waiting = FALSE
      BY <3>1 DEF Subscriber
    <3>. HIDE DEF sub
    <3> QED BY <3>2 DEF Served
  <2>2. subs' = [subs EXCEPT ![s] = sub] BY <1>3 DEF Subscribe
  <2>. HIDE DEF sub
  <2>3. AllServed(subs') BY <1>2, <2>1, <2>2 DEF AllServed, Served
  <2>4. ActiveIn(subs') = ActiveIn(subs) \cup {s} BY <1>2, <2>1, <2>2 DEF ActiveIn, AllServed
  <2>5. CASE child \/ terminating # "none"
    <3>1. UNCHANGED <<child, children, source>> BY <1>3, <2>5 DEF Subscribe
    <3> QED BY <1>1, <1>3, <2>3, <2>4, <2>5, <3>1 DEF HubInv, AllServed, SubscribersAreFed, Subscribe
  <2>6. CASE ~(child \/ terminating # "none")
    <3>1. child' = TRUE /\ source' = EmptySource BY <1>3, <2>6 DEF Subscribe
    <3> QED BY <1>1, <1>3, <2>3, <2>4, <2>6, <3>1, SourceEmpty
            DEF HubInv, AllServed, SubscribersAreFed, Subscribe
  <2> QED BY <2>5, <2>6
<1>4. ASSUME NEW s \in Subscribers, Unsubscribe(s) PROVE HubInv'
  <2>1. {s} \in SUBSET ActiveIn(subs) BY <1>4 DEF Unsubscribe, ActiveIn
  <2>2. Removed({s}) /\ UNCHANGED <<hubClosed, children>> BY <1>4 DEF Unsubscribe
  <2>3. {s} # {} OBVIOUS
  <2> QED BY <1>1, <2>1, <2>2, <2>3, RemovalOK
<1>5. ASSUME NEW s \in Subscribers, BatchTimerFires(s) PROVE HubInv'
  <2>. DEFINE fired == [subs[s] EXCEPT !.timer = FALSE]
  <2>1. Served(subs[s]) /\ subs[s].timer BY <1>2, <1>5 DEF AllServed, BatchTimerFires
  <2>2. subs[s] \in Subscriber /\ subs[s].active /\ (subs[s].waiting => subs[s].chunks > 0)
    BY <2>1 DEF Served
  <2>3. /\ fired \in Subscriber /\ fired.active = subs[s].active
        /\ fired.waiting = subs[s].waiting /\ fired.chunks = subs[s].chunks
    BY <2>2 DEF Subscriber
  <2>. HIDE DEF fired
  <2>4. Served(Flushed(fired)) /\ Flushed(fired).active = subs[s].active BY <2>2, <2>3, FlushServed
  <2>5. subs' = [subs EXCEPT ![s] = Flushed(fired)] BY <1>5 DEF BatchTimerFires, fired
  <2>6. AllServed(subs') /\ ActiveIn(subs') = ActiveIn(subs)
    BY <1>2, <2>4, <2>5 DEF AllServed, ActiveIn, Served
  <2> QED BY <1>1, <1>5, <2>6 DEF HubInv, AllServed, SubscribersAreFed, BatchTimerFires, hubProcesses
<1>6. ASSUME NEW s \in Subscribers, ConsumerReads(s) PROVE HubInv'
  <2>. DEFINE read == [subs[s] EXCEPT !.chunks = @ - 1]
              idle == [read EXCEPT !.waiting = FALSE]
  <2>1. Served(subs[s]) /\ subs[s] \in Subscriber /\ subs[s].active /\ subs[s].chunks > 0
    BY <1>2, <1>6 DEF AllServed, ConsumerReads, Served
  <2>2. /\ read \in Subscriber /\ read.chunks = subs[s].chunks - 1 /\ read.active = subs[s].active
        /\ read.lines = subs[s].lines /\ read.owed = subs[s].owed /\ read.timer = subs[s].timer
        /\ read.waiting = subs[s].waiting
    <3>. DEFINE n == subs[s].chunks - 1
    <3>1. read = [subs[s] EXCEPT !.chunks = n] /\ n \in Nat BY <2>1 DEF Subscriber
    <3>. HIDE DEF n
    <3>2. /\ read \in Subscriber /\ read.chunks = n /\ read.active = subs[s].active
          /\ read.lines = subs[s].lines /\ read.owed = subs[s].owed /\ read.timer = subs[s].timer
          /\ read.waiting = subs[s].waiting
      BY <2>1, <3>1 DEF Subscriber
    <3> QED BY <3>2 DEF n
  <2>. HIDE DEF read
  <2>3. idle \in Subscriber /\ idle.waiting = FALSE /\ idle.active = read.active BY <2>2 DEF Subscriber
  <2>. HIDE DEF idle
  <2>4. subs' = [subs EXCEPT ![s] = IF read.chunks > 0 THEN read ELSE Flushed(idle)]
    BY <1>6 DEF ConsumerReads, read, idle
  <2>5. Served(Flushed(idle)) /\ Flushed(idle).active = subs[s].active
    BY <2>1, <2>2, <2>3, FlushServed
  <2>6. read.chunks > 0 => Served(read) BY <2>1, <2>2 DEF Served
  <2>. DEFINE next == IF read.chunks > 0 THEN read ELSE Flushed(idle)
  <2>7. Served(next) /\ next.active = subs[s].active BY <2>2, <2>5, <2>6
  <2>. HIDE DEF next
  <2>8. subs' = [subs EXCEPT ![s] = next] BY <2>4 DEF next
  <2>9. AllServed(subs') /\ ActiveIn(subs') = ActiveIn(subs)
    BY <1>2, <2>7, <2>8 DEF AllServed, ActiveIn, Served
  <2> QED BY <1>1, <1>6, <2>9 DEF HubInv, AllServed, SubscribersAreFed, ConsumerReads, hubProcesses
<1>7. ASSUME NEW s \in Subscribers, RefreshPids(s) \/ PidsResolved(s) PROVE HubInv'
  <2>1. PICK b \in BOOLEAN : subs' = [subs EXCEPT ![s].lookup = b] /\ (b => subs[s].pidTimer)
    BY <1>7 DEF RefreshPids, PidsResolved
  <2>. DEFINE sub == [subs[s] EXCEPT !.lookup = b]
  <2>2. Served(subs[s]) /\ subs[s] \in Subscriber BY <1>2 DEF AllServed, Served
  <2>3. /\ sub \in Subscriber /\ sub.active = subs[s].active /\ sub.lookup = b
        /\ sub.chunks = subs[s].chunks
        /\ sub.lines = subs[s].lines /\ sub.owed = subs[s].owed /\ sub.timer = subs[s].timer
        /\ sub.waiting = subs[s].waiting /\ sub.pidTimer = subs[s].pidTimer
    BY <2>2 DEF Subscriber
  <2>4. subs' = [subs EXCEPT ![s] = sub] BY <1>2, <2>1 DEF AllServed
  <2>. HIDE DEF sub
  <2>5. Served(sub) BY <2>1, <2>2, <2>3 DEF Served
  <2>6. AllServed(subs') /\ ActiveIn(subs') = ActiveIn(subs)
    BY <1>2, <2>3, <2>4, <2>5 DEF AllServed, ActiveIn, Served
  <2>7. UNCHANGED <<hubProcesses, source>> BY <1>7 DEF RefreshPids, PidsResolved
  <2> QED BY <1>1, <2>6, <2>7 DEF HubInv, AllServed, SubscribersAreFed, hubProcesses
<1>8. ASSUME NEW matching \in SUBSET ActiveIn(subs), NEW n \in 0 .. MaxLine + 1,
             NEW more \in 0 .. MaxLine + 1, NEW ends \in BOOLEAN, Consume(n, ends, more, matching)
      PROVE HubInv'
  <2>. DEFINE line == source.buffer + n
  <2>1. source.buffer \in Nat /\ n \in Nat /\ more \in Nat BY <1>2, HubLimits DEF SourceOK
  <2>2. UNCHANGED hubProcesses BY <1>8 DEF Consume
  <2>3. SourceOK(source') /\ AllServed(subs') /\ ActiveIn(subs') = ActiveIn(subs)
    <3>1. CASE ~ends /\ source.discarding
      <4>1. UNCHANGED <<source, subs>> BY <1>8, <3>1 DEF Consume
      <4> QED BY <1>2, <4>1
    <3>2. CASE ~ends /\ ~source.discarding
      <4>1. Buffered(subs, line, FALSE, source.read + n, source.wrong) BY <1>8, <3>2 DEF Consume
      <4>2. source.read + n = line /\ source.wrong = FALSE /\ line \in Nat
        BY <1>2, <2>1, <3>2 DEF SourceOK
      <4>. HIDE DEF line
      <4>3. Buffered(subs, line, FALSE, line, FALSE) BY <4>1, <4>2
      <4> QED BY <1>2, <4>2, <4>3, BufferedOK
    <3>3. CASE ends /\ source.discarding
      <4>1. Buffered(subs, more, FALSE, more, source.wrong) BY <1>8, <3>3 DEF Consume
      <4>2. source.wrong = FALSE BY <1>2 DEF SourceOK
      <4>3. Buffered(subs, more, FALSE, more, FALSE) BY <4>1, <4>2
      <4> QED BY <1>2, <2>1, <4>3, BufferedOK
    <3>4. CASE ends /\ ~source.discarding
      <4>. DEFINE ss == Accepted(subs, line, matching)
      <4>1. Buffered(ss, more, FALSE, more, line # source.read + n /\ line \in 1 .. MaxLine)
        BY <1>8, <3>4 DEF Consume
      <4>2. source.read + n = line BY <1>2, <3>4 DEF SourceOK
      <4>3. (line # source.read + n /\ line \in 1 .. MaxLine) = FALSE BY <4>2
      <4>4. AllServed(ss) /\ ActiveIn(ss) = ActiveIn(subs) BY <1>2, <1>8, LinesServed
      <4>. HIDE DEF ss
      <4>5. Buffered(ss, more, FALSE, more, FALSE) BY <4>1, <4>3
      <4> QED BY <1>2, <2>1, <4>4, <4>5, BufferedOK
    <3> QED BY <3>1, <3>2, <3>3, <3>4
  <2> QED BY <1>1, <2>2, <2>3 DEF HubInv, AllServed, SubscribersAreFed, hubProcesses
<1>9. ASSUME NEW matching \in SUBSET ActiveIn(subs), StderrLine(matching) PROVE HubInv'
  <2>1. subs' = Dispatched(subs, matching) /\ UNCHANGED <<hubProcesses, source>> BY <1>9 DEF StderrLine
  <2>2. AllServed(subs') /\ ActiveIn(subs') = ActiveIn(subs) BY <1>2, <1>9, <2>1, LinesServed
  <2> QED BY <1>1, <2>1, <2>2 DEF HubInv, AllServed, SubscribersAreFed, hubProcesses
<1>10. ASSUME NEW all, all = [s \in Subscribers |-> Inactive]
       PROVE AllServed(all) /\ ActiveIn(all) = {}
  BY <1>10, InactiveServed DEF AllServed, Served, ActiveIn
<1>11. CASE ChildEnds
  <2>1. AllServed(subs') /\ ActiveIn(subs') = {} BY <1>10, <1>11 DEF ChildEnds
  <2> QED BY <1>1, <1>11, <2>1, SourceEmpty DEF HubInv, AllServed, SubscribersAreFed, ChildEnds
<1>12. CASE ChildFails
  <2>1. ASSUME NEW s \in Subscribers, subs[s].active
        PROVE  Served([subs[s] EXCEPT !.chunks = @ + 1]) /\ [subs[s] EXCEPT !.chunks = @ + 1].active
    <3>. DEFINE sub == [subs[s] EXCEPT !.chunks = @ + 1]
    <3>1. Served(subs[s]) /\ subs[s] \in Subscriber BY <1>2 DEF AllServed, Served
    <3>2. /\ sub \in Subscriber /\ sub.active = subs[s].active /\ sub.lookup = subs[s].lookup
          /\ sub.chunks = subs[s].chunks + 1
          /\ sub.lines = subs[s].lines /\ sub.owed = subs[s].owed /\ sub.timer = subs[s].timer
          /\ sub.waiting = subs[s].waiting /\ sub.pidTimer = subs[s].pidTimer
      BY <3>1 DEF Subscriber
    <3>3. subs[s].chunks \in Nat BY <3>1 DEF Subscriber
    <3>. HIDE DEF sub
    <3>4. Served(sub) /\ sub.active BY <2>1, <3>1, <3>2, <3>3 DEF Served
    <3> QED BY <3>4 DEF sub
  <2>2. subs' = [s \in Subscribers |->
                   IF subs[s].active THEN [subs[s] EXCEPT !.chunks = @ + 1] ELSE subs[s]]
        /\ UNCHANGED <<hubProcesses, source>>
    BY <1>12 DEF ChildFails
  <2>3. \A s \in Subscribers : Served(subs'[s]) /\ (subs'[s].active <=> subs[s].active)
    BY <1>2, <2>1, <2>2 DEF AllServed
  <2>4. AllServed(subs') /\ ActiveIn(subs') = ActiveIn(subs)
    BY <2>2, <2>3 DEF AllServed, ActiveIn, Served
  <2> QED BY <1>1, <2>2, <2>4 DEF HubInv, AllServed, SubscribersAreFed, hubProcesses
<1>13. CASE GraceExpires
  BY <1>1, <1>13 DEF GraceExpires, HubInv, SubscribersAreFed, ActiveIn
<1>14. CASE Terminated
  <2>1. CASE hubClosed \/ ActiveIn(subs) = {}
    BY <1>1, <1>14, <2>1 DEF Terminated, HubInv, SubscribersAreFed, ActiveIn
  <2>2. CASE ~(hubClosed \/ ActiveIn(subs) = {}) /\ child' = TRUE /\ source' = EmptySource /\ UNCHANGED subs
    BY <1>1, <1>14, <2>2, SourceEmpty DEF Terminated, HubInv, SubscribersAreFed, ActiveIn
  <2>3. CASE ~(hubClosed \/ ActiveIn(subs) = {}) /\ subs' = [s \in Subscribers |-> Inactive]
              /\ UNCHANGED <<child, source>>
    <3>1. AllServed(subs') /\ ActiveIn(subs') = {} BY <1>10, <2>3
    <3>2. ~child BY <1>1, <1>14 DEF HubInv, SubscribersAreFed, Terminated
    <3>3. terminating' = "none" /\ graceTimer' = FALSE /\ UNCHANGED hubClosed BY <1>14 DEF Terminated
    <3> QED BY <1>1, <2>3, <3>1, <3>2, <3>3 DEF HubInv, SubscribersAreFed, AllServed
  <2> QED BY <1>14, <2>1, <2>2, <2>3 DEF Terminated
<1>15. CASE CloseHub
  <2>1. AllServed(subs') /\ ActiveIn(subs') = {} BY <1>10, <1>15 DEF CloseHub
  <2>2. CASE child
    BY <1>1, <1>15, <2>1, <2>2, SourceEmpty DEF CloseHub, HubInv, SubscribersAreFed, AllServed
  <2>3. CASE ~child
    BY <1>1, <1>15, <2>1, <2>3 DEF CloseHub, HubInv, SubscribersAreFed, AllServed
  <2> QED BY <2>2, <2>3
<1> QED
  BY <1>1, <1>3, <1>4, <1>5, <1>6, <1>7, <1>8, <1>9, <1>11, <1>12, <1>13, <1>14, <1>15 DEF HubNext

LEMMA HubStays == HubInv /\ UNCHANGED hubVars => HubInv'
BY DEF HubInv, hubVars, SubscribersAreFed, ActiveIn

\* What the hub promises follows.
LEMMA HubPromises == HubInv => HubLeavesNothing /\ SubscribersAreFed /\ LinesAreOnTheirWay /\ LinesAreWhole
<1>1. ASSUME HubInv PROVE HubLeavesNothing /\ SubscribersAreFed /\ LinesAreOnTheirWay /\ LinesAreWhole
  <2>1. SubscribersAreFed /\ LinesAreWhole BY <1>1 DEF HubInv, LinesAreWhole, SourceOK
  <2>2. LinesAreOnTheirWay BY <1>1 DEF HubInv, LinesAreOnTheirWay, Served, ActiveIn
  <2>3. HubLeavesNothing BY <1>1 DEF HubInv, HubLeavesNothing, Served, SubscribersAreFed
  <2> QED BY <2>1, <2>2, <2>3
<1> QED BY <1>1

-----------------------------------------------------------------------------
(* RequestBodies.                                                           *)

BodyRecord ==
  [step : {"reading", "yielding", "aborted", "refused", "whole", "failed"}, received : Nat,
   chunks : Nat, sent : Nat, aborted : BOOLEAN, capacity : Nat, locked : BOOLEAN]
StagingRecord ==
  [step : {"making", "streaming", "failing", "staged", "cleaned", "leaked"}, dir : BOOLEAN,
   ingestion : {"none", "reading", "writing", "stopping", "done", "failed"},
   parser : {"none", "open", "destroyed", "finished"},
   file : {"none", "piping", "stopping", "written", "failed"},
   parserDone : {"pending", "resolved", "rejected"}, fileDone : {"pending", "resolved", "rejected"},
   failure : BOOLEAN, extra : BOOLEAN, truncated : BOOLEAN, aborted : BOOLEAN,
   received : Nat, chunks : Nat, listening : BOOLEAN]

BodyOK(b) ==
  /\ b \in BodyRecord
  /\ b.received = b.sent /\ b.received <= b.capacity /\ b.capacity <= BodyLimit
  /\ b.step = "whole" => ~b.aborted
  /\ b.step \in {"whole", "aborted", "refused", "failed"} => ~b.locked

\* How far the staging is, and which failures have been seen by then.
StagingOK(st) ==
  /\ st \in StagingRecord
  /\ st.step = "making" =>
       st.ingestion = "none" /\ st.parser = "none" /\ st.file = "none" /\ ~st.dir
  /\ st.step \in {"staged", "cleaned", "leaked"} =>
       st.ingestion \notin {"reading", "writing", "stopping"} /\ st.file \notin {"piping", "stopping"}
  /\ st.step \in {"failing", "cleaned", "leaked"} =>
       st.parser # "open" /\ st.ingestion \notin {"reading", "writing"} /\ st.file # "piping"
  /\ st.step \in {"cleaned", "leaked"} => ~st.listening
  /\ st.step = "cleaned" => ~st.dir
  /\ st.fileDone = "resolved" => st.file = "written"
  /\ st.parserDone = "resolved" => st.parser = "finished"
  /\ st.extra \/ st.truncated => st.failure
  /\ st.step = "staged" =>
       /\ st.file = "written" /\ st.parser = "finished" /\ st.ingestion = "done"
       /\ ~st.failure /\ ~st.aborted

BodiesInv == BodyOK(body) /\ StagingOK(staging)

LEMMA BodyLimits ==
  /\ BodyLimit \in Nat /\ InitialCapacity \in Nat /\ MinimalGrowth \in Nat
  /\ ChunkLimit \in Nat /\ YieldInterval \in Nat \ {0}
BY BodiesAssumption

LEMMA RefuseIs ==
  ASSUME NEW st \in StagingRecord
  PROVE  /\ Refuse(st) \in StagingRecord /\ Refuse(st).failure
         /\ Refuse(st).fileDone = (IF st.fileDone = "pending" THEN "rejected" ELSE st.fileDone)
         /\ Refuse(st).parserDone = st.parserDone /\ Refuse(st).parser = st.parser
         /\ Refuse(st).ingestion = st.ingestion /\ Refuse(st).file = st.file
         /\ Refuse(st).step = st.step /\ Refuse(st).dir = st.dir /\ Refuse(st).extra = st.extra
         /\ Refuse(st).truncated = st.truncated /\ Refuse(st).aborted = st.aborted
         /\ Refuse(st).listening = st.listening
<1>. DEFINE b == IF st.fileDone = "pending" THEN "rejected" ELSE st.fileDone
<1>1. b \in {"pending", "resolved", "rejected"} BY DEF StagingRecord
<1>2. Refuse(st) = [st EXCEPT !.failure = TRUE, !.fileDone = b] BY DEF Refuse, StagingRecord
<1>. HIDE DEF b
<1>3. /\ Refuse(st) \in StagingRecord /\ Refuse(st).failure /\ Refuse(st).fileDone = b
      /\ Refuse(st).parserDone = st.parserDone /\ Refuse(st).parser = st.parser
      /\ Refuse(st).ingestion = st.ingestion /\ Refuse(st).file = st.file
      /\ Refuse(st).step = st.step /\ Refuse(st).dir = st.dir /\ Refuse(st).extra = st.extra
      /\ Refuse(st).truncated = st.truncated /\ Refuse(st).aborted = st.aborted
      /\ Refuse(st).listening = st.listening
  BY <1>1, <1>2, ZenonT(60) DEF StagingRecord
<1> QED BY <1>3 DEF b

\* Stop in three steps.
ParserStopped(st, a, c) == [st EXCEPT !.parserDone = a, !.parser = c]
BodyStopped(st, d, e) == [st EXCEPT !.ingestion = d, !.file = e]

LEMMA ParserStoppedIs ==
  ASSUME NEW st \in StagingRecord, NEW a \in {"pending", "resolved", "rejected"},
         NEW c \in {"none", "open", "destroyed", "finished"}
  PROVE  LET next == ParserStopped(st, a, c)
         IN  /\ next \in StagingRecord /\ next.parserDone = a /\ next.parser = c
             /\ next.failure = st.failure /\ next.fileDone = st.fileDone
             /\ next.step = st.step /\ next.dir = st.dir /\ next.extra = st.extra
             /\ next.truncated = st.truncated /\ next.aborted = st.aborted
             /\ next.listening = st.listening
BY ZenonT(60) DEF StagingRecord, ParserStopped

LEMMA BodyStoppedIs ==
  ASSUME NEW st \in StagingRecord,
         NEW d \in {"none", "reading", "writing", "stopping", "done", "failed"},
         NEW e \in {"none", "piping", "stopping", "written", "failed"}
  PROVE  LET next == BodyStopped(st, d, e)
         IN  /\ next \in StagingRecord /\ next.ingestion = d /\ next.file = e
             /\ next.parserDone = st.parserDone /\ next.parser = st.parser
             /\ next.failure = st.failure /\ next.fileDone = st.fileDone
             /\ next.step = st.step /\ next.dir = st.dir /\ next.extra = st.extra
             /\ next.truncated = st.truncated /\ next.aborted = st.aborted
             /\ next.listening = st.listening
BY ZenonT(60) DEF StagingRecord, BodyStopped

LEMMA StopIs ==
  ASSUME NEW st \in StagingRecord
  PROVE  /\ Stop(st) \in StagingRecord /\ Stop(st).failure
         /\ Stop(st).parserDone = (IF st.parserDone = "pending" THEN "rejected" ELSE st.parserDone)
         /\ Stop(st).fileDone = (IF st.fileDone = "pending" THEN "rejected" ELSE st.fileDone)
         /\ Stop(st).parser = (IF st.parser = "open" THEN "destroyed" ELSE st.parser)
         /\ Stop(st).ingestion = (IF st.ingestion \in {"reading", "writing"} THEN "stopping" ELSE st.ingestion)
         /\ Stop(st).file = (IF st.file = "piping" THEN "stopping" ELSE st.file)
         /\ Stop(st).step = st.step /\ Stop(st).dir = st.dir /\ Stop(st).extra = st.extra
         /\ Stop(st).truncated = st.truncated /\ Stop(st).aborted = st.aborted
         /\ Stop(st).listening = st.listening
<1>. DEFINE a == IF st.parserDone = "pending" THEN "rejected" ELSE st.parserDone
            c == IF st.parser = "open" THEN "destroyed" ELSE st.parser
            d == IF st.ingestion \in {"reading", "writing"} THEN "stopping" ELSE st.ingestion
            e == IF st.file = "piping" THEN "stopping" ELSE st.file
            first == Refuse(st)
            second == ParserStopped(first, a, c)
            third == BodyStopped(second, d, e)
<1>1. /\ a \in {"pending", "resolved", "rejected"} /\ c \in {"none", "open", "destroyed", "finished"}
      /\ d \in {"none", "reading", "writing", "stopping", "done", "failed"}
      /\ e \in {"none", "piping", "stopping", "written", "failed"}
  BY DEF StagingRecord
<1>2. Stop(st) = third BY ZenonT(60) DEF Stop, Refuse, ParserStopped, BodyStopped, StagingRecord
<1>3. /\ first \in StagingRecord /\ first.failure
      /\ first.fileDone = (IF st.fileDone = "pending" THEN "rejected" ELSE st.fileDone)
      /\ first.ingestion = st.ingestion /\ first.file = st.file
      /\ first.step = st.step /\ first.dir = st.dir /\ first.extra = st.extra
      /\ first.truncated = st.truncated /\ first.aborted = st.aborted
      /\ first.listening = st.listening
  BY RefuseIs
<1>. HIDE DEF a, c, d, e, first
<1>4. /\ second \in StagingRecord /\ second.parserDone = a /\ second.parser = c
      /\ second.failure = first.failure /\ second.fileDone = first.fileDone
      /\ second.step = first.step /\ second.dir = first.dir /\ second.extra = first.extra
      /\ second.truncated = first.truncated /\ second.aborted = first.aborted
      /\ second.listening = first.listening
  <2>1. /\ first \in StagingRecord /\ a \in {"pending", "resolved", "rejected"}
        /\ c \in {"none", "open", "destroyed", "finished"}
    BY <1>1, <1>3
  <2> QED BY ONLY <2>1, ParserStoppedIs
<1>. HIDE DEF second
<1>5. /\ third \in StagingRecord /\ third.ingestion = d /\ third.file = e
      /\ third.parserDone = second.parserDone /\ third.parser = second.parser
      /\ third.failure = second.failure /\ third.fileDone = second.fileDone
      /\ third.step = second.step /\ third.dir = second.dir /\ third.extra = second.extra
      /\ third.truncated = second.truncated /\ third.aborted = second.aborted
      /\ third.listening = second.listening
  BY <1>1, <1>4, BodyStoppedIs, Z3
<1>. HIDE DEF third
<1> QED BY <1>2, <1>3, <1>4, <1>5 DEF a, c, d, e

LEMMA BodiesStart == BodiesInit => BodiesInv
<1>1. ASSUME BodiesInit PROVE BodiesInv
  <2>. DEFINE k == AtMost(BodyLimit, InitialCapacity)
  <2>1. k \in Nat /\ k <= BodyLimit BY BodyLimits DEF AtMost
  <2>. HIDE DEF k
  <2>2. body = [step |-> "reading", received |-> 0, chunks |-> 0, sent |-> 0, aborted |-> FALSE,
                capacity |-> k, locked |-> TRUE]
    BY <1>1 DEF BodiesInit, k
  <2>3. BodyOK(body) BY <2>1, <2>2 DEF BodyOK, BodyRecord
  <2>4. StagingOK(staging) BY <1>1 DEF BodiesInit, StagingOK, StagingRecord
  <2> QED BY <2>3, <2>4 DEF BodiesInv
<1> QED BY <1>1

\* The body of a request that is read into memory.
LEMMA BodyEndsOK ==
  ASSUME BodyOK(body), NEW step \in {"aborted", "refused", "whole", "failed"}, Ended(step),
         step = "whole" => ~body.aborted
  PROVE  BodyOK(body')
BY DEF BodyOK, BodyRecord, Ended

LEMMA BodyGoesOn ==
  ASSUME BodyOK(body),
         \/ \E n \in 1 .. BodyLimit + 1 : ChunkRead(n)
         \/ YieldOver \/ BodyEnds \/ BodyBreaks \/ BodyAborted
  PROVE  BodyOK(body') /\ UNCHANGED staging
<1>1. ASSUME NEW n \in 1 .. BodyLimit + 1, ChunkRead(n) PROVE BodyOK(body')
  <2>. DEFINE next == body.received + n
  <2>1. next \in Nat /\ body.chunks + 1 \in Nat /\ body.sent + n = next
        /\ body.capacity \in Nat /\ body.capacity <= BodyLimit
    BY BodyLimits DEF BodyOK, BodyRecord
  <2>2. CASE body.aborted BY <1>1, <2>2, BodyEndsOK DEF ChunkRead
  <2>3. CASE ~body.aborted /\ (body.chunks + 1 > ChunkLimit \/ next > BodyLimit)
    BY <1>1, <2>3, BodyEndsOK DEF ChunkRead
  <2>4. CASE ~body.aborted /\ ~(body.chunks + 1 > ChunkLimit \/ next > BodyLimit)
    <3>. DEFINE step == IF (body.chunks + 1) % YieldInterval = 0 THEN "yielding" ELSE body.step
                g == Grown(next)
                k == body.chunks + 1
    <3>1. step \in {"yielding", "reading"} BY <1>1 DEF ChunkRead
    <3>2. g \in Nat /\ next <= g /\ g <= BodyLimit
      BY <2>1, <2>4, BodyLimits DEF Grown, AtMost, AtLeast
    <3>3. body' = [body EXCEPT !.chunks = k, !.received = next, !.sent = next, !.capacity = g, !.step = step]
      BY <1>1, <2>1, <2>4 DEF ChunkRead, BodyOK, BodyRecord
    <3>4. k \in Nat BY <2>1
    <3>. HIDE DEF step, g, k, next
    <3> QED BY <2>1, <3>1, <3>2, <3>3, <3>4 DEF BodyOK, BodyRecord
  <2> QED BY <2>2, <2>3, <2>4
<1>2. ASSUME YieldOver PROVE BodyOK(body')
  <2>1. CASE body.aborted BY <1>2, <2>1, BodyEndsOK DEF YieldOver
  <2>2. CASE ~body.aborted BY <1>2, <2>2 DEF YieldOver, BodyOK, BodyRecord
  <2> QED BY <2>1, <2>2
<1>3. ASSUME BodyEnds PROVE BodyOK(body')
  <2>. DEFINE step == IF body.aborted THEN "aborted" ELSE "whole"
  <2>1. step \in {"aborted", "refused", "whole", "failed"} /\ (step = "whole" => ~body.aborted) OBVIOUS
  <2>2. Ended(step) BY <1>3 DEF BodyEnds
  <2> QED BY <2>1, <2>2, BodyEndsOK
<1>4. ASSUME BodyBreaks PROVE BodyOK(body')
  <2>. DEFINE step == IF body.aborted THEN "aborted" ELSE "failed"
  <2>1. step \in {"aborted", "refused", "whole", "failed"} /\ (step = "whole" => ~body.aborted) OBVIOUS
  <2>2. Ended(step) BY <1>4 DEF BodyBreaks
  <2> QED BY <2>1, <2>2, BodyEndsOK
<1>5. ASSUME BodyAborted PROVE BodyOK(body') BY <1>5 DEF BodyAborted, BodyOK, BodyRecord
<1>6. UNCHANGED staging BY DEF ChunkRead, YieldOver, BodyEnds, BodyBreaks, BodyAborted
<1> QED BY <1>1, <1>2, <1>3, <1>4, <1>5, <1>6

\* The staging of an upload.
LEMMA StagingStarted ==
  ASSUME StagingOK(staging), DirectoryMade
  PROVE  StagingOK(staging') /\ UNCHANGED body
<1>1. /\ staging \in StagingRecord /\ staging.step = "making" /\ staging.ingestion = "none"
      /\ staging.parser = "none" /\ staging.file = "none"
      /\ staging.fileDone # "resolved" /\ staging.parserDone # "resolved"
      /\ (staging.extra \/ staging.truncated => staging.failure)
  BY DEF StagingOK, DirectoryMade
<1>2. CASE Stage([staging EXCEPT !.step = "cleaned", !.failure = TRUE, !.listening = FALSE])
  <2>1. ~staging.dir BY DEF StagingOK, DirectoryMade
  <2>2. /\ staging' \in StagingRecord /\ staging'.step = "cleaned" /\ staging'.failure
        /\ ~staging'.listening /\ staging'.dir = staging.dir /\ staging'.ingestion = "none"
        /\ staging'.parser = "none" /\ staging'.file = "none"
        /\ staging'.fileDone = staging.fileDone /\ staging'.parserDone = staging.parserDone
    BY <1>1, <1>2 DEF Stage, StagingRecord
  <2> QED BY <1>1, <1>2, <2>1, <2>2 DEF Stage, StagingOK
<1>3. CASE Stage([staging EXCEPT !.dir = TRUE, !.step = "failing"])
  <2>2. /\ staging' \in StagingRecord /\ staging'.step = "failing"
        /\ staging'.failure = staging.failure /\ staging'.extra = staging.extra
        /\ staging'.truncated = staging.truncated /\ staging'.ingestion = "none"
        /\ staging'.parser = "none" /\ staging'.file = "none"
        /\ staging'.fileDone = staging.fileDone /\ staging'.parserDone = staging.parserDone
    BY <1>1, <1>3 DEF Stage, StagingRecord
  <2> QED BY <1>1, <1>3, <2>2 DEF Stage, StagingOK
<1>4. CASE Stage([staging EXCEPT !.dir = TRUE, !.step = "streaming", !.parser = "open",
                                 !.ingestion = "reading"])
  <2>2. /\ staging' \in StagingRecord /\ staging'.step = "streaming"
        /\ staging'.failure = staging.failure /\ staging'.extra = staging.extra
        /\ staging'.truncated = staging.truncated
        /\ staging'.fileDone = staging.fileDone /\ staging'.parserDone = staging.parserDone
    BY <1>1, <1>4 DEF Stage, StagingRecord
  <2> QED BY <1>1, <1>4, <2>2 DEF Stage, StagingOK
<1>5. CASE Stage([staging EXCEPT !.dir = TRUE, !.step = "failing", !.failure = TRUE])
  <2>2. /\ staging' \in StagingRecord /\ staging'.step = "failing" /\ staging'.failure
        /\ staging'.ingestion = "none" /\ staging'.parser = "none" /\ staging'.file = "none"
        /\ staging'.fileDone = staging.fileDone /\ staging'.parserDone = staging.parserDone
    BY <1>1, <1>5 DEF Stage, StagingRecord
  <2> QED BY <1>1, <1>5, <2>2 DEF Stage, StagingOK
<1> QED BY <1>2, <1>3, <1>4, <1>5 DEF DirectoryMade

LEMMA StagingStops ==
  ASSUME StagingOK(staging), StagingAborted
  PROVE  StagingOK(staging') /\ UNCHANGED body
<1>. DEFINE st == Stop(staging)
<1>1. staging \in StagingRecord BY DEF StagingOK
<1>2. /\ st \in StagingRecord /\ st.failure
      /\ st.parserDone = (IF staging.parserDone = "pending" THEN "rejected" ELSE staging.parserDone)
      /\ st.fileDone = (IF staging.fileDone = "pending" THEN "rejected" ELSE staging.fileDone)
      /\ st.parser = (IF staging.parser = "open" THEN "destroyed" ELSE staging.parser)
      /\ st.ingestion = (IF staging.ingestion \in {"reading", "writing"} THEN "stopping" ELSE staging.ingestion)
      /\ st.file = (IF staging.file = "piping" THEN "stopping" ELSE staging.file)
      /\ st.step = staging.step /\ st.listening = staging.listening /\ st.dir = staging.dir
  BY <1>1, StopIs
<1>. HIDE DEF st
<1>3. staging' = [st EXCEPT !.aborted = TRUE] /\ UNCHANGED body BY DEF StagingAborted, Stage, st
<1>4. /\ staging' \in StagingRecord /\ staging'.failure /\ staging'.parserDone = st.parserDone
      /\ staging'.fileDone = st.fileDone /\ staging'.parser = st.parser
      /\ staging'.ingestion = st.ingestion /\ staging'.file = st.file
      /\ staging'.step = st.step /\ staging'.listening = st.listening /\ staging'.dir = st.dir
  BY <1>2, <1>3 DEF StagingRecord
<1>5. staging.step \in {"making", "streaming"} BY DEF StagingAborted
<1> QED BY <1>2, <1>3, <1>4, <1>5 DEF StagingOK

LEMMA StagingReads ==
  ASSUME StagingOK(staging),
         \/ \E n \in 1 .. BodyLimit + 1 : StagingChunkRead(n)
         \/ WriteTaken \/ StagingBodyEnds \/ IngestionStops
  PROVE  StagingOK(staging') /\ UNCHANGED body
<1>1. ASSUME NEW n \in 1 .. BodyLimit + 1, StagingChunkRead(n) PROVE StagingOK(staging') /\ UNCHANGED body
  <2>1. staging.chunks + 1 \in Nat /\ staging.received + n \in Nat
    BY BodyLimits DEF StagingOK, StagingRecord
  <2>2. CASE Stage([staging EXCEPT !.ingestion = "failed"])
    BY <1>1, <2>2, ZenonT(30) DEF StagingChunkRead, Stage, StagingOK, StagingRecord
  <2>3. CASE Stage([staging EXCEPT !.ingestion = "writing", !.chunks = @ + 1, !.received = @ + n])
    BY <1>1, <2>1, <2>3, ZenonT(30) DEF StagingChunkRead, Stage, StagingOK, StagingRecord
  <2> QED BY <1>1, <2>2, <2>3 DEF StagingChunkRead
<1>2. CASE WriteTaken BY <1>2 DEF WriteTaken, Stage, StagingOK, StagingRecord
<1>3. CASE StagingBodyEnds BY <1>3 DEF StagingBodyEnds, Stage, StagingOK, StagingRecord
<1>4. CASE IngestionStops BY <1>4 DEF IngestionStops, Stage, StagingOK, StagingRecord
<1> QED BY <1>1, <1>2, <1>3, <1>4

LEMMA StagingParses ==
  ASSUME StagingOK(staging), FilePart \/ FilePartLimit \/ FilePiped \/ FileStops
  PROVE  StagingOK(staging') /\ UNCHANGED body
<1>. DEFINE st == Refuse(staging)
<1>1. staging \in StagingRecord BY DEF StagingOK
<1>2. /\ st \in StagingRecord /\ st.failure
      /\ st.fileDone = (IF staging.fileDone = "pending" THEN "rejected" ELSE staging.fileDone)
      /\ st.parserDone = staging.parserDone /\ st.parser = staging.parser
      /\ st.ingestion = staging.ingestion /\ st.file = staging.file
      /\ st.step = staging.step /\ st.listening = staging.listening
  BY <1>1, RefuseIs
<1>. HIDE DEF st
<1>3. ASSUME staging.file \in {"none", "piping"}, staging.ingestion \in {"writing", "done"},
             staging.ingestion = "writing" \/ staging.file = "piping",
             Stage([st EXCEPT !.file = "failed"])
      PROVE  StagingOK(staging') /\ UNCHANGED body
  <2>1. /\ staging' \in StagingRecord /\ staging'.failure /\ staging'.parserDone = st.parserDone
        /\ staging'.fileDone = st.fileDone /\ staging'.parser = st.parser
        /\ staging'.ingestion = st.ingestion /\ staging'.file = "failed"
        /\ staging'.step = st.step /\ staging'.listening = st.listening
    BY <1>2, <1>3 DEF Stage, StagingRecord
  <2> QED BY <1>2, <1>3, <2>1 DEF Stage, StagingOK
<1>4. ASSUME staging.ingestion = "writing",
             \/ Stage([st EXCEPT !.extra = TRUE]) \/ Stage([st EXCEPT !.truncated = TRUE])
      PROVE  StagingOK(staging') /\ UNCHANGED body
  <2>1. /\ staging' \in StagingRecord /\ staging'.failure /\ staging'.parserDone = st.parserDone
        /\ staging'.fileDone = st.fileDone /\ staging'.parser = st.parser
        /\ staging'.ingestion = st.ingestion /\ staging'.file = st.file
        /\ staging'.step = st.step /\ staging'.listening = st.listening
    BY <1>2, <1>4, ZenonT(60) DEF Stage, StagingRecord
  <2> QED BY <1>2, <1>4, <2>1 DEF Stage, StagingOK
<1>5. CASE FilePart
  <2>1. CASE staging.file = "none" /\ Stage([staging EXCEPT !.file = "piping"])
    BY <1>5, <2>1 DEF FilePart, Stage, StagingOK, StagingRecord
  <2> QED BY <1>3, <1>4, <1>5, <2>1 DEF FilePart, st
<1>6. CASE FilePartLimit BY <1>4, <1>6 DEF FilePartLimit, st
<1>7. CASE FilePiped
  <2>. DEFINE done == IF staging.fileDone = "pending" THEN "resolved" ELSE staging.fileDone
  <2>1. CASE Stage([staging EXCEPT !.file = "written", !.fileDone = done])
    <3>1. done \in {"pending", "resolved", "rejected"} BY <1>1 DEF StagingRecord
    <3>. HIDE DEF done
    <3> QED BY <1>7, <2>1, <3>1 DEF FilePiped, Stage, StagingOK, StagingRecord
  <2> QED BY <1>3, <1>7, <2>1 DEF FilePiped, st
<1>8. CASE FileStops BY <1>8 DEF FileStops, Stage, StagingOK, StagingRecord
<1> QED BY <1>5, <1>6, <1>7, <1>8

LEMMA StagingParserEnds ==
  ASSUME StagingOK(staging), ParserFails \/ ParserFinishes
  PROVE  StagingOK(staging') /\ UNCHANGED body
<1>1. CASE ParserFails
  <2>. DEFINE f == IF staging.file = "piping" THEN "failed" ELSE staging.file
              d == IF staging.file = "piping" /\ staging.fileDone = "pending" THEN "rejected" ELSE staging.fileDone
              i == IF staging.ingestion = "writing" THEN "failed" ELSE staging.ingestion
  <2>1. /\ f \in {"none", "written", "failed", "stopping"} /\ d \in {"pending", "resolved", "rejected"}
        /\ i \in {"none", "reading", "stopping", "done", "failed"}
        /\ (d = "resolved" => f = "written")
    BY DEF StagingOK, StagingRecord
  <2>2. staging' = [staging EXCEPT !.failure = TRUE, !.parser = "destroyed", !.parserDone = "rejected",
                                   !.file = f, !.fileDone = d, !.ingestion = i] /\ UNCHANGED body
    BY <1>1 DEF ParserFails, Stage, StagingOK, StagingRecord
  <2>3. staging.step = "streaming" /\ staging \in StagingRecord
    BY <1>1 DEF ParserFails, StagingOK, StagingRecord
  <2>. HIDE DEF f, d, i
  <2>4. /\ staging' \in StagingRecord /\ staging'.step = "streaming" /\ staging'.failure
        /\ staging'.parser = "destroyed" /\ staging'.parserDone = "rejected"
        /\ staging'.file = f /\ staging'.fileDone = d
    BY <2>1, <2>2, <2>3, ZenonT(30) DEF StagingRecord
  <2> QED BY <2>1, <2>2, <2>4 DEF StagingOK
<1>2. CASE ParserFinishes
  <2>. DEFINE st == [staging EXCEPT !.parser = "finished", !.parserDone = "resolved"]
  <2>1. staging.step = "streaming" /\ staging \in StagingRecord
    BY <1>2 DEF ParserFinishes, StagingOK, StagingRecord
  <2>2. /\ st \in StagingRecord /\ st.step = "streaming" /\ st.parser = "finished"
        /\ st.fileDone = staging.fileDone /\ st.file = staging.file
        /\ (st.extra \/ st.truncated => st.failure)
    BY <2>1 DEF StagingOK, StagingRecord
  <2>3. staging' = (IF staging.file = "none" THEN Refuse(st) ELSE st) /\ UNCHANGED body
    BY <1>2 DEF ParserFinishes, Stage
  <2>4. staging.fileDone = "resolved" => staging.file = "written" BY DEF StagingOK
  <2>. HIDE DEF st
  <2>5. CASE staging.file = "none"
    <3>1. /\ Refuse(st) \in StagingRecord /\ Refuse(st).failure /\ Refuse(st).step = st.step
          /\ Refuse(st).fileDone = (IF st.fileDone = "pending" THEN "rejected" ELSE st.fileDone)
          /\ Refuse(st).parser = st.parser /\ Refuse(st).file = st.file
      BY <2>2, RefuseIs
    <3> QED BY <2>2, <2>3, <2>4, <2>5, <3>1 DEF StagingOK
  <2>6. CASE staging.file # "none" BY <2>2, <2>3, <2>4, <2>6 DEF StagingOK
  <2> QED BY <2>5, <2>6
<1> QED BY <1>1, <1>2

LEMMA StagingEnds ==
  ASSUME StagingOK(staging), StagingSettled \/ CleansUp
  PROVE  StagingOK(staging') /\ UNCHANGED body
<1>. DEFINE st == Stop(staging)
<1>1. staging \in StagingRecord BY DEF StagingOK
<1>2. CASE Stage([st EXCEPT !.step = "failing"])
  <2>1. /\ st \in StagingRecord /\ st.failure
        /\ st.parserDone = (IF staging.parserDone = "pending" THEN "rejected" ELSE staging.parserDone)
        /\ st.fileDone = (IF staging.fileDone = "pending" THEN "rejected" ELSE staging.fileDone)
        /\ st.parser = (IF staging.parser = "open" THEN "destroyed" ELSE staging.parser)
        /\ st.ingestion = (IF staging.ingestion \in {"reading", "writing"} THEN "stopping" ELSE staging.ingestion)
        /\ st.file = (IF staging.file = "piping" THEN "stopping" ELSE staging.file)
    BY <1>1, StopIs
  <2>. HIDE DEF st
  <2>2. /\ staging' \in StagingRecord /\ staging'.failure /\ staging'.parserDone = st.parserDone
        /\ staging'.fileDone = st.fileDone /\ staging'.parser = st.parser
        /\ staging'.ingestion = st.ingestion /\ staging'.file = st.file /\ staging'.step = "failing"
    BY <1>2, <2>1 DEF Stage, StagingRecord
  <2> QED BY <1>2, <2>1, <2>2 DEF Stage, StagingOK
<1>3. CASE StagingSettled
  <2>1. CASE AllResolved /\ ~staging.failure /\ ~staging.aborted
             /\ Stage([staging EXCEPT !.step = "staged", !.listening = FALSE])
    BY <1>3, <2>1 DEF AllResolved, Stage, StagingOK, StagingRecord
  <2> QED BY <1>2, <1>3, <2>1 DEF StagingSettled
<1>4. CASE CleansUp
  <2>1. /\ staging.ingestion \notin {"reading", "writing", "stopping"}
        /\ staging.file \notin {"piping", "stopping"} /\ staging.parser # "open"
    BY <1>4 DEF CleansUp, StillRuns, StagingOK
  <2>2. CASE Stage([staging EXCEPT !.step = "cleaned", !.dir = FALSE, !.listening = FALSE])
    <3>1. /\ staging' \in StagingRecord /\ staging'.step = "cleaned"
          /\ ~staging'.listening /\ ~staging'.dir
          /\ staging'.ingestion = staging.ingestion /\ staging'.parser = staging.parser
          /\ staging'.file = staging.file
      BY <1>1, <2>2 DEF Stage, StagingRecord
    <3>2. /\ staging'.fileDone = staging.fileDone /\ staging'.parserDone = staging.parserDone
          /\ staging'.failure = staging.failure /\ staging'.extra = staging.extra
          /\ staging'.truncated = staging.truncated
      BY <1>1, <2>2 DEF Stage, StagingRecord
    <3> QED BY <2>1, <2>2, <3>1, <3>2 DEF Stage, StagingOK
  <2>3. CASE Stage([staging EXCEPT !.step = "leaked", !.listening = FALSE])
    <3>1. /\ staging' \in StagingRecord /\ staging'.step = "leaked" /\ ~staging'.listening
          /\ staging'.ingestion = staging.ingestion /\ staging'.parser = staging.parser
          /\ staging'.file = staging.file
      BY <1>1, <2>3 DEF Stage, StagingRecord
    <3>2. /\ staging'.fileDone = staging.fileDone /\ staging'.parserDone = staging.parserDone
          /\ staging'.failure = staging.failure /\ staging'.extra = staging.extra
          /\ staging'.truncated = staging.truncated
      BY <1>1, <2>3 DEF Stage, StagingRecord
    <3> QED BY <2>1, <2>3, <3>1, <3>2 DEF Stage, StagingOK
  <2> QED BY <1>4, <2>2, <2>3 DEF CleansUp
<1> QED BY <1>3, <1>4

LEMMA BodiesGoOn == BodiesInv /\ BodiesNext => BodiesInv'
<1>1. ASSUME BodiesInv, BodiesNext PROVE BodiesInv'
  <2>1. BodyOK(body) /\ StagingOK(staging) BY <1>1 DEF BodiesInv
  <2>2. \/ BodyOK(body') /\ UNCHANGED staging
        \/ StagingOK(staging') /\ UNCHANGED body
    BY <1>1, <2>1, BodyGoesOn, StagingStarted, StagingStops, StagingReads, StagingParses,
       StagingParserEnds, StagingEnds DEF BodiesNext
  <2> QED BY <2>1, <2>2 DEF BodiesInv
<1> QED BY <1>1

LEMMA BodiesStay == BodiesInv /\ UNCHANGED bodiesVars => BodiesInv'
BY DEF BodiesInv, bodiesVars

\* What is promised of the bodies follows.
LEMMA BodiesPromise == BodiesInv => StagingLeavesNothing /\ BodyIsWhole /\ StagedIsWhole
BY DEF BodiesInv, BodyOK, StagingOK, StagingLeavesNothing, BodyIsWhole, StagedIsWhole, StillRuns

-----------------------------------------------------------------------------
(* GrpcChannel, its stream and its geometry. A probe of this silence is the *)
(* only one, and while it is awaited the stream has no slot.                *)

CallRecord ==
  [settled : {"no", "ok", "error", "aborted"}, aborted : BOOLEAN, begun : BOOLEAN, paused : BOOLEAN,
   slot : BOOLEAN, pending : Int, inactivity : BOOLEAN]
ProbeRecord == [current : BOOLEAN, silent : BOOLEAN, image : Nat]

CallOK(c, s, d) ==
  /\ c \in CallRecord /\ s \in Nat /\ d \in Nat /\ s <= d
  /\ c.pending # NoMessage => c.slot /\ s <= c.pending /\ c.pending <= d
  /\ c.settled = "no" /\ c.paused => c.slot
  /\ c.slot => c.settled = "no"
ProbesOK(ps, c, s, d) ==
  /\ ps \subseteq ProbeRecord
  /\ \A p \in ps : p.image <= d
  /\ \A p \in ps : p.silent => p.current /\ s <= p.image /\ ~c.slot /\ ~c.inactivity
  /\ \A p, q \in ps : p.silent /\ q.silent => p = q
  /\ c.settled = "no" => \A p \in ps : p.current => p.silent
  /\ c.settled = "no" /\ c.begun => c.inactivity \/ \E p \in ps : p.current

WatchInv == CallOK(call, shown, display) /\ ProbesOK(probes, call, shown, display)

GeometryRecord ==
  [size : Nat, native : Nat, step : {"idle", "size", "image"}, read : Nat, force : BOOLEAN,
   generation : Nat, pending : BOOLEAN, asked : Nat, since : Nat]
GeometryOK(g, d) ==
  /\ g \in GeometryRecord /\ d \in Nat
  /\ g.size <= g.native /\ g.since <= d /\ g.generation <= g.asked
  /\ g.step = "image" => g.read <= d
  /\ g.step = "image" /\ g.generation = g.asked => g.since <= g.read
GeometryInv == GeometryOK(geometry, display)

LEMMA ChannelStarts == ChannelInit => WatchInv /\ GeometryInv
BY DEF ChannelInit, WatchInv, CallOK, ProbesOK, CallRecord, GeometryInv, GeometryOK, GeometryRecord,
       NoMessage

\* Later changes of the display take nothing back.
LEMMA DisplayGoesOn ==
  ASSUME WatchInv, GeometryInv, DisplayChanges
  PROVE  WatchInv' /\ GeometryInv'
<1>1. /\ display \in Nat /\ display' = display + 1 /\ UNCHANGED <<call, probes, shown, geometry>>
  BY DEF DisplayChanges, streamVars, WatchInv, CallOK
<1>2. CallOK(call, shown, display')
  BY <1>1 DEF WatchInv, CallOK, CallRecord, NoMessage
<1>3. ProbesOK(probes, call, shown, display')
  BY <1>1 DEF WatchInv, ProbesOK, ProbeRecord
<1>4. GeometryOK(geometry, display')
  BY <1>1 DEF GeometryInv, GeometryOK, GeometryRecord
<1> QED BY <1>1, <1>2, <1>3, <1>4 DEF WatchInv, GeometryInv

\* What a probe is after a message, and after another poll.
LEMMA OlderIs ==
  ASSUME NEW ps, ps \subseteq ProbeRecord, NEW d
  PROVE  /\ Older(ps) \subseteq ProbeRecord /\ Outdated(ps) \subseteq ProbeRecord
         /\ \A q \in Older(ps) : \E p \in ps : ~q.current /\ q.silent = p.silent /\ q.image = p.image
         /\ \A q \in Outdated(ps) : \E p \in ps : ~q.silent /\ q.current = p.current /\ q.image = p.image
<1>1. ASSUME NEW p \in ps
      PROVE  /\ [p EXCEPT !.current = FALSE] \in ProbeRecord
             /\ [p EXCEPT !.silent = FALSE] \in ProbeRecord
             /\ ~[p EXCEPT !.current = FALSE].current /\ [p EXCEPT !.current = FALSE].silent = p.silent
             /\ [p EXCEPT !.current = FALSE].image = p.image
             /\ ~[p EXCEPT !.silent = FALSE].silent /\ [p EXCEPT !.silent = FALSE].current = p.current
             /\ [p EXCEPT !.silent = FALSE].image = p.image
  BY DEF ProbeRecord
<1>2. \A q \in Older(ps) : \E p \in ps : q = [p EXCEPT !.current = FALSE] BY DEF Older
<1>3. \A q \in Outdated(ps) : \E p \in ps : q = [p EXCEPT !.silent = FALSE] BY DEF Outdated
<1>4. Older(ps) \subseteq ProbeRecord BY <1>1, <1>2
<1>5. Outdated(ps) \subseteq ProbeRecord BY <1>1, <1>3
<1>6. ASSUME NEW q \in Older(ps)
      PROVE  \E p \in ps : ~q.current /\ q.silent = p.silent /\ q.image = p.image
  <2>1. PICK p \in ps : q = [p EXCEPT !.current = FALSE] BY <1>2, <1>6
  <2>2. ~q.current /\ q.silent = p.silent /\ q.image = p.image BY <1>1, <2>1
  <2> QED BY <2>2
<1>7. ASSUME NEW q \in Outdated(ps)
      PROVE  \E p \in ps : ~q.silent /\ q.current = p.current /\ q.image = p.image
  <2>1. PICK p \in ps : q = [p EXCEPT !.silent = FALSE] BY <1>3, <1>7
  <2>2. ~q.silent /\ q.current = p.current /\ q.image = p.image BY <1>1, <2>1
  <2> QED BY <2>2
<1> QED BY <1>4, <1>5, <1>6, <1>7

LEMMA SettleIs ==
  ASSUME NEW c \in CallRecord, NEW outcome \in {"ok", "error", "aborted"}
  PROVE  /\ Settle(c, outcome) \in CallRecord /\ Settle(c, outcome).settled # "no"
         /\ ~Settle(c, outcome).slot /\ Settle(c, outcome).pending = NoMessage
         /\ ~Settle(c, outcome).inactivity
<1>. DEFINE n == NoMessage
<1>1. n \in Int BY DEF NoMessage
<1>2. Settle(c, outcome) = [c EXCEPT !.settled = outcome, !.slot = FALSE, !.pending = n,
                                     !.inactivity = FALSE]
  BY DEF Settle
<1>. HIDE DEF n
<1>3. /\ Settle(c, outcome) \in CallRecord /\ Settle(c, outcome).settled = outcome
      /\ ~Settle(c, outcome).slot /\ Settle(c, outcome).pending = n
      /\ ~Settle(c, outcome).inactivity
  BY <1>1, <1>2 DEF CallRecord
<1> QED BY <1>3 DEF n

\* A stream that has settled is not watched any more; the probe of its last silence may be.
LEMMA SettledIs ==
  ASSUME WatchInv, NEW c \in CallRecord, c.settled # "no", ~c.slot, c.pending = NoMessage,
         ~c.inactivity, NEW ps \in SUBSET probes
  PROVE  CallOK(c, shown, display) /\ ProbesOK(ps, c, shown, display)
BY DEF WatchInv, CallOK, ProbesOK

\* What is emitted is not older than what is shown.
LEMMA EmitIs ==
  ASSUME WatchInv, NEW c \in CallRecord, NEW message \in Nat, c.settled = "no",
         shown <= message, message <= display, Emit(c, message),
         c.pending # NoMessage => message <= c.pending /\ c.pending <= display
  PROVE  CallOK(call', shown', display) /\ ProbesOK(probes', call', shown', display)
         /\ shown' >= shown
<1>1. /\ probes \subseteq ProbeRecord /\ shown \in Nat /\ display \in Nat /\ shown <= display
      /\ \A p \in probes : p.image <= display
  BY DEF WatchInv, CallOK, ProbesOK
<1>2. CASE /\ call' = Settle([c EXCEPT !.paused = TRUE], "error")
           /\ probes' = Outdated(probes)
           /\ shown' = shown
  <2>. DEFINE d == [c EXCEPT !.paused = TRUE]
  <2>1. d \in CallRecord BY DEF CallRecord
  <2>. HIDE DEF d
  <2>2. /\ call' \in CallRecord /\ call'.settled # "no" /\ ~call'.slot /\ call'.pending = NoMessage
        /\ ~call'.inactivity
    BY <1>2, <2>1, SettleIs DEF d
  <2>3. CallOK(call', shown', display) BY <1>1, <1>2, <2>2 DEF CallOK
  <2>4. /\ probes' \subseteq ProbeRecord
        /\ \A q \in probes' : \E p \in probes : ~q.silent /\ q.image = p.image
    BY <1>1, <1>2, OlderIs
  <2>5. ProbesOK(probes', call', shown', display) BY <1>1, <1>2, <2>2, <2>4 DEF ProbesOK
  <2> QED BY <1>1, <1>2, <2>3, <2>5
<1>3. CASE /\ call' = [c EXCEPT !.paused = TRUE, !.slot = TRUE, !.inactivity = TRUE, !.begun = TRUE]
           /\ probes' = Older(Outdated(probes))
           /\ shown' = message
  <2>1. /\ call' \in CallRecord /\ call'.slot /\ call'.inactivity /\ call'.pending = c.pending
    BY <1>3 DEF CallRecord
  <2>2. CallOK(call', shown', display) BY <1>1, <1>3, <2>1 DEF CallOK
  <2>3. /\ Outdated(probes) \subseteq ProbeRecord
        /\ \A q \in Outdated(probes) : \E p \in probes : ~q.silent /\ q.image = p.image
    BY <1>1, OlderIs
  <2>4. /\ probes' \subseteq ProbeRecord
        /\ \A r \in probes' : \E q \in Outdated(probes) :
             ~r.current /\ r.silent = q.silent /\ r.image = q.image
    BY <1>3, <2>3, OlderIs
  <2>5. \A r \in probes' : ~r.current /\ ~r.silent /\ r.image <= display BY <1>1, <2>3, <2>4
  <2>6. ProbesOK(probes', call', shown', display) BY <2>1, <2>4, <2>5 DEF ProbesOK
  <2> QED BY <1>3, <2>2, <2>6
<1> QED BY <1>2, <1>3 DEF Emit

LEMMA DataIs ==
  ASSUME WatchInv, DataArrives
  PROVE  WatchInv' /\ shown' >= shown
<1>1. call \in CallRecord /\ shown \in Nat /\ display \in Nat /\ shown <= display /\ display' = display
      /\ call.settled = "no"
  BY DEF WatchInv, CallOK, DataArrives, Unsettled
<1>2. PICK older \in shown .. display, two \in BOOLEAN :
        Emit([call EXCEPT !.pending = IF two THEN display ELSE NoMessage],
             IF two THEN older ELSE display)
  BY DEF DataArrives
<1>. DEFINE pending == IF two THEN display ELSE NoMessage
            c == [call EXCEPT !.pending = pending]
            message == IF two THEN older ELSE display
<1>3. pending \in Int BY <1>1 DEF NoMessage
<1>4. message \in Nat /\ shown <= message /\ message <= display
      /\ (pending # NoMessage => message <= pending /\ pending <= display)
  BY <1>1
<1>5. Emit(c, message) BY <1>2
<1>. HIDE DEF pending, message
<1>6. c \in CallRecord /\ c.settled = "no" /\ c.pending = pending BY <1>1, <1>3 DEF CallRecord
<1>. HIDE DEF c
<1> QED BY <1>1, <1>4, <1>5, <1>6, EmitIs DEF WatchInv

LEMMA SlotIs ==
  ASSUME WatchInv, SlotOpens
  PROVE  WatchInv' /\ shown' >= shown
<1>1. /\ call \in CallRecord /\ shown \in Nat /\ display \in Nat /\ shown <= display
      /\ display' = display /\ call.slot
  BY DEF WatchInv, CallOK, SlotOpens
<1>2. call.settled = "no" BY <1>1 DEF WatchInv, CallOK
<1>3. CASE call.pending # NoMessage
  <2>. DEFINE n == NoMessage
              c == [call EXCEPT !.pending = n, !.slot = FALSE]
  <2>2. Emit(c, call.pending) BY <1>3 DEF SlotOpens
  <2>4. n \in Int BY DEF NoMessage
  <2>. HIDE DEF n
  <2>5. c \in CallRecord /\ c.settled = "no" /\ c.pending = n BY <1>1, <1>2, <2>4 DEF CallRecord
  <2>1. c \in CallRecord /\ c.settled = "no" /\ c.pending = NoMessage BY <2>5 DEF n
  <2>3. call.pending \in Nat /\ shown <= call.pending /\ call.pending <= display
    BY <1>1, <1>3 DEF WatchInv, CallOK, CallRecord
  <2>. HIDE DEF c
  <2> QED BY <1>1, <2>1, <2>2, <2>3, EmitIs DEF WatchInv
<1>4. CASE call.pending = NoMessage
  <2>1. call' = [call EXCEPT !.paused = FALSE, !.slot = FALSE] /\ UNCHANGED <<probes, shown>>
    BY <1>4 DEF SlotOpens
  <2>2. /\ call' \in CallRecord /\ ~call'.paused /\ ~call'.slot /\ call'.pending = NoMessage
        /\ call'.settled = call.settled /\ call'.begun = call.begun
        /\ call'.inactivity = call.inactivity
    BY <1>1, <1>4, <2>1 DEF CallRecord
  <2>3. CallOK(call', shown, display) BY <1>1, <2>2 DEF CallOK
  <2>4. ProbesOK(probes, call', shown, display) BY <2>2 DEF WatchInv, ProbesOK
  <2> QED BY <1>1, <2>1, <2>3, <2>4 DEF WatchInv
<1> QED BY <1>3, <1>4

LEMMA SilenceIs ==
  ASSUME WatchInv, InactivityFires
  PROVE  WatchInv' /\ shown' = shown
<1>. DEFINE p == [current |-> TRUE, silent |-> TRUE, image |-> display]
<1>1. /\ call \in CallRecord /\ shown \in Nat /\ display \in Nat /\ shown <= display
      /\ UNCHANGED <<display, shown>> /\ call.inactivity /\ ~call.slot
      /\ call' = [call EXCEPT !.inactivity = FALSE] /\ probes' = probes \cup {p}
  BY DEF WatchInv, CallOK, InactivityFires
<1>2. /\ call' \in CallRecord /\ ~call'.inactivity /\ ~call'.slot /\ call'.pending = call.pending
      /\ call'.paused = call.paused /\ call'.settled = call.settled /\ call'.begun = call.begun
  BY <1>1 DEF CallRecord
<1>3. CallOK(call', shown, display) BY <1>1, <1>2 DEF WatchInv, CallOK
<1>4. \A q \in probes : ~q.silent BY <1>1 DEF WatchInv, ProbesOK
<1>5. p \in ProbeRecord /\ p.current /\ p.silent /\ p.image = display BY <1>1 DEF ProbeRecord
<1>. HIDE DEF p
<1>6. ProbesOK(probes', call', shown, display)
  BY <1>1, <1>2, <1>4, <1>5 DEF WatchInv, ProbesOK
<1> QED BY <1>1, <1>3, <1>6 DEF WatchInv

LEMMA AnswerOfProbeIs ==
  ASSUME WatchInv, ProbeEnds
  PROVE  WatchInv' /\ shown' >= shown
<1>1. PICK p \in probes : ProbeAnswered(p) BY DEF ProbeEnds
<1>2. /\ call \in CallRecord /\ shown \in Nat /\ display \in Nat /\ shown <= display
      /\ display' = display /\ p \in ProbeRecord /\ p.image <= display /\ probes \subseteq ProbeRecord
      /\ probes \ {p} \in SUBSET probes
  BY DEF WatchInv, CallOK, ProbesOK, ProbeEnds
<1>3. CASE /\ shown' = IF p.silent /\ ~call.aborted THEN p.image ELSE shown
           /\ Unsettled /\ p.current
           /\ call' = [call EXCEPT !.inactivity = TRUE] /\ probes' = Older(probes \ {p})
  <2>1. p.silent /\ call.settled = "no" /\ ~call.slot
    BY <1>3 DEF WatchInv, ProbesOK, Unsettled
  <2>2. shown' \in Nat /\ shown <= shown' /\ shown' <= display
    BY <1>2, <1>3, <2>1 DEF WatchInv, ProbesOK, ProbeRecord
  <2>3. /\ call' \in CallRecord /\ call'.inactivity /\ call'.slot = call.slot
        /\ call'.pending = call.pending /\ call'.paused = call.paused /\ call'.settled = call.settled
    BY <1>2, <1>3 DEF CallRecord
  <2>4. CallOK(call', shown', display) BY <1>2, <2>1, <2>2, <2>3 DEF WatchInv, CallOK
  <2>5. /\ probes' \subseteq ProbeRecord
        /\ \A q \in probes' : \E r \in probes \ {p} :
             ~q.current /\ q.silent = r.silent /\ q.image = r.image
    BY <1>2, <1>3, OlderIs
  <2>6. \A r \in probes \ {p} : ~r.silent /\ r.image <= display
    BY <2>1 DEF WatchInv, ProbesOK
  <2>7. \A q \in probes' : ~q.current /\ ~q.silent /\ q.image <= display BY <2>5, <2>6
  <2>8. ProbesOK(probes', call', shown', display) BY <2>3, <2>5, <2>7 DEF ProbesOK
  <2> QED BY <1>2, <2>2, <2>4, <2>8 DEF WatchInv
<1>4. CASE /\ shown' = IF p.silent /\ ~call.aborted THEN p.image ELSE shown
           /\ ~(Unsettled /\ p.current) /\ call' = call /\ probes' = probes \ {p}
  <2>1. CASE p.silent
    <3>1. call.settled # "no" /\ ~call.slot /\ ~call.inactivity /\ shown <= p.image
      BY <1>4, <2>1 DEF WatchInv, ProbesOK, Unsettled
    <3>2. shown' \in Nat /\ shown <= shown' /\ shown' <= display
      BY <1>2, <1>4, <2>1, <3>1 DEF ProbeRecord
    <3>3. CallOK(call', shown', display) BY <1>2, <1>4, <3>1, <3>2 DEF WatchInv, CallOK
    <3>4. \A r \in probes' : ~r.silent /\ r.image <= display
      BY <1>4, <2>1 DEF WatchInv, ProbesOK
    <3>5. ProbesOK(probes', call', shown', display)
      BY <1>2, <1>4, <3>1, <3>4 DEF ProbesOK
    <3> QED BY <1>2, <3>2, <3>3, <3>5 DEF WatchInv
  <2>2. CASE ~p.silent
    <3>1. shown' = shown BY <1>4, <2>2
    <3>2. ProbesOK(probes', call, shown, display)
      BY <1>4, <2>2 DEF WatchInv, ProbesOK, Unsettled
    <3> QED BY <1>2, <1>4, <3>1, <3>2 DEF WatchInv
  <2> QED BY <2>1, <2>2
<1>5. CASE /\ shown' = shown /\ Unsettled /\ p.current
           /\ call' = Settle(call, "error") /\ probes' = probes \ {p}
  <2>1. /\ call' \in CallRecord /\ call'.settled # "no" /\ ~call'.slot /\ call'.pending = NoMessage
        /\ ~call'.inactivity
    BY <1>2, <1>5, SettleIs
  <2> QED BY <1>2, <1>5, <2>1, SettledIs DEF WatchInv
<1>6. CASE /\ shown' = shown /\ ~(Unsettled /\ p.current)
           /\ call' = call /\ probes' = probes \ {p}
  <2>1. ProbesOK(probes', call, shown, display)
    BY <1>6 DEF WatchInv, ProbesOK, Unsettled
  <2> QED BY <1>2, <1>6, <2>1 DEF WatchInv
<1> QED BY <1>1, <1>3, <1>4, <1>5, <1>6 DEF ProbeAnswered

LEMMA EndOfStreamIs ==
  ASSUME WatchInv, StreamEnds
  PROVE  WatchInv' /\ shown' = shown
<1>1. call \in CallRecord /\ UNCHANGED <<display, probes, shown>> /\ shown \in Nat
  BY DEF WatchInv, CallOK, StreamEnds
<1>2. ASSUME NEW outcome \in {"ok", "error"}, call' = Settle(call, outcome)
      PROVE  WatchInv'
  <2>1. /\ call' \in CallRecord /\ call'.settled # "no" /\ ~call'.slot /\ call'.pending = NoMessage
        /\ ~call'.inactivity
    BY <1>1, <1>2, SettleIs
  <2> QED BY <1>1, <2>1, SettledIs DEF WatchInv
<1>3. CASE call' = [Settle(call, "aborted") EXCEPT !.aborted = TRUE]
  <2>. DEFINE c == Settle(call, "aborted")
  <2>1. /\ c \in CallRecord /\ c.settled # "no" /\ ~c.slot /\ c.pending = NoMessage /\ ~c.inactivity
    BY <1>1, SettleIs
  <2>. HIDE DEF c
  <2>2. /\ call' \in CallRecord /\ call'.settled # "no" /\ ~call'.slot /\ call'.pending = NoMessage
        /\ ~call'.inactivity
    BY <1>3, <2>1 DEF c, CallRecord
  <2> QED BY <1>1, <2>2, SettledIs DEF WatchInv
<1> QED BY <1>1, <1>2, <1>3 DEF StreamEnds

\* A step of one of the three leaves the state of the others alone.
LEMMA WatchGoesOn ==
  ASSUME WatchInv, GeometryInv, StreamNext
  PROVE  WatchInv' /\ GeometryInv' /\ PictureNeverGoesBack /\ GeometryNeverStale
<1>1. CASE DisplayChanges
  BY <1>1, DisplayGoesOn DEF DisplayChanges, streamVars, WatchInv, CallOK, PictureNeverGoesBack,
     GeometryNeverStale
<1>2. CASE DataArrives \/ SlotOpens \/ InactivityFires \/ ProbeEnds \/ StreamEnds
  <2>1. UNCHANGED <<display, geometry>>
    BY <1>2 DEF DataArrives, SlotOpens, InactivityFires, ProbeEnds, StreamEnds
  <2>2. WatchInv' /\ shown' >= shown
    BY <1>2, DataIs, SlotIs, SilenceIs, AnswerOfProbeIs, EndOfStreamIs DEF WatchInv, CallOK
  <2> QED BY <2>1, <2>2 DEF GeometryInv, PictureNeverGoesBack, GeometryNeverStale
<1> QED BY <1>1, <1>2 DEF StreamNext

LEMMA NextPollIs ==
  ASSUME NEW g, NEW d, g \in GeometryRecord, d \in Nat, g.size <= g.native, g.since <= d,
         g.generation <= g.asked
  PROVE  GeometryOK(NextPoll(g), d) /\ NextPoll(g).native = g.native /\ NextPoll(g).since = g.since
<1>. DEFINE h == [g EXCEPT !.step = "size", !.force = TRUE, !.pending = FALSE]
            k == g.asked
            i == [h EXCEPT !.generation = k]
            j == [g EXCEPT !.step = "idle"]
<1>1. /\ h \in GeometryRecord /\ h.size = g.size /\ h.native = g.native /\ h.since = g.since
      /\ h.step = "size" /\ h.asked = k /\ k \in Nat
  BY DEF GeometryRecord
<1>2. NextPoll(g) = IF g.pending THEN i ELSE j BY DEF NextPoll, GeometryRecord
<1>. HIDE DEF h, k
<1>3. /\ i \in GeometryRecord /\ i.size = g.size /\ i.native = g.native /\ i.since = g.since
      /\ i.step = "size" /\ i.asked = k /\ i.generation = k
  BY <1>1 DEF GeometryRecord
<1>4. /\ j \in GeometryRecord /\ j.size = g.size /\ j.native = g.native /\ j.since = g.since
      /\ j.step = "idle" /\ j.asked = g.asked /\ j.generation = g.generation
  BY DEF GeometryRecord
<1>. HIDE DEF i, j
<1> QED BY <1>1, <1>2, <1>3, <1>4 DEF GeometryOK

LEMMA PollIs ==
  ASSUME GeometryInv, PollGeometry
  PROVE  GeometryOK(geometry', display) /\ geometry'.native = geometry.native
<1>1. PICK force \in BOOLEAN :
        /\ force \/ geometry.step = "idle"
        /\ LET asked == IF force THEN [geometry EXCEPT !.pending = TRUE, !.asked = @ + 1,
                                                       !.since = display]
                        ELSE geometry
           IN  geometry' = IF geometry.step # "idle" THEN asked
                           ELSE [asked EXCEPT !.step = "size", !.force = force, !.pending = FALSE,
                                              !.generation = asked.asked]
  BY DEF PollGeometry
<1>2. geometry \in GeometryRecord /\ display \in Nat /\ geometry.asked + 1 \in Nat
  BY DEF GeometryInv, GeometryOK, GeometryRecord
<1>. DEFINE n == geometry.asked + 1
            asked == IF force THEN [geometry EXCEPT !.pending = TRUE, !.asked = n, !.since = display]
                     ELSE geometry
<1>3. geometry' = IF geometry.step # "idle" THEN asked
                  ELSE [asked EXCEPT !.step = "size", !.force = force, !.pending = FALSE,
                                     !.generation = asked.asked]
  BY <1>1
<1>. HIDE DEF n
<1>4. /\ asked \in GeometryRecord /\ asked.native = geometry.native /\ asked.size = geometry.size
      /\ asked.step = geometry.step /\ asked.read = geometry.read
      /\ asked.generation = geometry.generation
      /\ asked.asked = (IF force THEN n ELSE geometry.asked)
      /\ asked.since = (IF force THEN display ELSE geometry.since)
  BY <1>2 DEF GeometryRecord, n
<1>5. GeometryOK(asked, display)
  <2>1. geometry.generation \in Nat /\ geometry.asked \in Nat BY <1>2 DEF GeometryRecord
  <2> QED BY <1>2, <1>4, <2>1 DEF GeometryInv, GeometryOK, n
<1>. HIDE DEF asked
<1>6. CASE geometry.step # "idle" BY <1>3, <1>4, <1>5, <1>6
<1>7. CASE geometry.step = "idle"
  <2>. DEFINE g == [asked EXCEPT !.step = "size", !.force = force, !.pending = FALSE]
              k == asked.asked
  <2>1. /\ g \in GeometryRecord /\ g.size = asked.size /\ g.native = asked.native
        /\ g.since = asked.since /\ g.step = "size" /\ g.asked = k /\ k \in Nat
    BY <1>4 DEF GeometryRecord
  <2>2. geometry' = [g EXCEPT !.generation = k] BY <1>3, <1>4, <1>7 DEF GeometryRecord
  <2>. HIDE DEF g, k
  <2>3. /\ geometry' \in GeometryRecord /\ geometry'.size = asked.size
        /\ geometry'.native = asked.native /\ geometry'.since = asked.since
        /\ geometry'.step = "size" /\ geometry'.asked = k /\ geometry'.generation = k
    BY <2>1, <2>2 DEF GeometryRecord
  <2> QED BY <1>4, <1>5, <2>1, <2>3 DEF GeometryOK
<1> QED BY <1>6, <1>7

LEMMA LineIsRead ==
  ASSUME GeometryInv, GeometryRead
  PROVE  GeometryOK(geometry', display) /\ GeometryNeverStale
<1>1. PICK image \in geometry.read .. display : NativeImageRead(image) BY DEF GeometryRead
<1>2. /\ geometry \in GeometryRecord /\ display \in Nat /\ geometry.size <= geometry.native
      /\ geometry.since <= display /\ geometry.generation <= geometry.asked
      /\ geometry.read \in Nat /\ image \in Nat /\ geometry.read <= image /\ image <= display
  BY DEF GeometryInv, GeometryOK, GeometryRecord
<1>3. CASE geometry.generation = geometry.asked
  <2>. DEFINE g == [geometry EXCEPT !.native = image, !.size = geometry.read]
  <2>1. /\ g \in GeometryRecord /\ g.size <= g.native /\ g.since = geometry.since /\ g.native = image
        /\ g.generation = geometry.generation /\ g.asked = geometry.asked
    BY <1>2 DEF GeometryRecord
  <2>2. geometry' = NextPoll(g) BY <1>1, <1>3 DEF NativeImageRead
  <2>3. geometry.since <= geometry.read /\ geometry.since \in Nat
    BY <1>2, <1>3 DEF GeometryInv, GeometryOK, GeometryRead, GeometryRecord
  <2>. HIDE DEF g
  <2>4. GeometryOK(geometry', display) /\ geometry'.native = image
    BY <1>2, <2>1, <2>2, NextPollIs
  <2> QED BY <1>2, <2>3, <2>4 DEF GeometryNeverStale
<1>4. CASE geometry.generation # geometry.asked
  BY <1>1, <1>2, <1>4, NextPollIs DEF NativeImageRead, GeometryNeverStale
<1> QED BY <1>3, <1>4

LEMMA GeometryGoesOn ==
  ASSUME WatchInv, GeometryInv, GeometryNext
  PROVE  WatchInv' /\ GeometryInv' /\ PictureNeverGoesBack /\ GeometryNeverStale
<1>1. CASE DisplayChanges
  BY <1>1, DisplayGoesOn DEF DisplayChanges, streamVars, WatchInv, CallOK, PictureNeverGoesBack,
     GeometryNeverStale
<1>2. CASE PollGeometry \/ SizeRead \/ GeometryRead \/ PollFails
  <2>1. UNCHANGED <<display, call, probes, shown>> /\ shown \in Nat
    BY <1>2 DEF PollGeometry, SizeRead, GeometryRead, PollFails, streamVars, WatchInv, CallOK
  <2>2. WatchInv' /\ PictureNeverGoesBack BY <2>1 DEF WatchInv, PictureNeverGoesBack
  <2>3. /\ geometry \in GeometryRecord /\ display \in Nat /\ geometry.size <= geometry.native
        /\ geometry.since <= display /\ geometry.generation <= geometry.asked
    BY DEF GeometryInv, GeometryOK
  <2>4. CASE PollGeometry BY <2>1, <2>2, <2>4, PollIs DEF GeometryInv, GeometryNeverStale
  <2>5. CASE SizeRead
    <3>1. CASE geometry' = NextPoll(geometry)
      BY <2>1, <2>2, <2>3, <3>1, NextPollIs DEF GeometryInv, GeometryNeverStale
    <3>2. CASE geometry' = [geometry EXCEPT !.step = "image", !.read = display]
      <4>1. /\ geometry' \in GeometryRecord /\ geometry'.step = "image" /\ geometry'.read = display
            /\ geometry'.size = geometry.size /\ geometry'.native = geometry.native
            /\ geometry'.since = geometry.since /\ geometry'.asked = geometry.asked
            /\ geometry'.generation = geometry.generation
        BY <2>3, <3>2 DEF GeometryRecord
      <4> QED BY <2>1, <2>2, <2>3, <4>1 DEF GeometryInv, GeometryOK, GeometryNeverStale
    <3> QED BY <2>5, <3>1, <3>2 DEF SizeRead
  <2>6. CASE GeometryRead BY <2>1, <2>2, <2>6, LineIsRead DEF GeometryInv
  <2>7. CASE PollFails
    BY <2>1, <2>2, <2>3, <2>7, NextPollIs DEF PollFails, GeometryInv, GeometryNeverStale
  <2> QED BY <1>2, <2>4, <2>5, <2>6, <2>7
<1> QED BY <1>1, <1>2 DEF GeometryNext

LEMMA ChannelStays ==
  ASSUME WatchInv, GeometryInv, InputNext \/ UNCHANGED channelVars
  PROVE  WatchInv' /\ GeometryInv' /\ PictureNeverGoesBack /\ GeometryNeverStale
<1>1. UNCHANGED <<display, call, probes, shown, geometry>> /\ shown \in Nat
  BY DEF InputNext, channelVars, streamVars, GestureDispatched, SendEnds, TapGoesUp, InputClosed,
         ReleaseBegins, ReleaseSends, WatchInv, CallOK
<1> QED BY <1>1 DEF WatchInv, GeometryInv, PictureNeverGoesBack, GeometryNeverStale

LEMMA ChannelPromises == WatchInv /\ GeometryInv => StreamIsWatched /\ GeometryIsFresh
BY DEF WatchInv, CallOK, ProbesOK, CallRecord, GeometryInv, GeometryOK, GeometryRecord,
       StreamIsWatched, GeometryIsFresh, Unsettled

-----------------------------------------------------------------------------
(* GrpcChannel, its input.                                                  *)

InputRecord ==
  [op : {"none", "down", "up", "tap", "sleep"}, on : SUBSET (Touches \cup Keys),
   active : SUBSET (Touches \cup Keys), aborted : BOOLEAN,
   release : {"no", "queued", "sending", "done"}, failed : BOOLEAN]

\* A pointer or key is known before it goes down; the release comes last.
InputInv ==
  /\ input \in InputRecord
  /\ held \subseteq input.active
  /\ input.op \in {"down", "tap"} => input.on \subseteq input.active
  /\ input.release # "no" => input.aborted
  /\ input.release \in {"sending", "done"} => input.op = "none"
  /\ input.release = "done" /\ ~input.failed => input.active = {}

LEMMA InputStarts == ChannelInit => InputInv
BY DEF ChannelInit, InputInv, InputRecord

LEMMA ReleaseKeepsInput ==
  ASSUME InputInv, ReleaseSends
  PROVE  InputInv'
<1>. DEFINE touches == input.active \cap Touches
            left == input.active \cap Keys
            batches == IF touches # {} /\ ~input.failed THEN {touches} ELSE {{k} : k \in left}
<1>1. /\ input \in InputRecord /\ input.release = "sending" /\ input.op = "none" /\ input.aborted
      /\ held \subseteq input.active /\ input.active \subseteq Touches \cup Keys
  BY DEF ReleaseSends, InputInv, InputRecord
<1>2. CASE batches = {} /\ input' = [input EXCEPT !.release = "done"] /\ UNCHANGED held
  <2>1. ~input.failed => touches = {} BY <1>2
  <2>2. ~input.failed => left = {}
    <3>1. ASSUME ~input.failed, NEW k \in left PROVE FALSE
      <4>1. batches = {{j} : j \in left} BY <2>1, <3>1
      <4>2. {k} \in batches BY <3>1, <4>1
      <4> QED BY <1>2, <4>2
    <3> QED BY <3>1
  <2>3. ~input.failed => input.active = {} BY <1>1, <2>1, <2>2
  <2>. HIDE DEF touches, left, batches
  <2> QED BY <1>1, <1>2, <2>3 DEF InputInv, InputRecord
<1>3. ASSUME NEW batch \in batches, held' = held \ batch, input' = [input EXCEPT !.active = @ \ batch]
      PROVE  InputInv'
  <2>. DEFINE act == input.active \ batch
  <2>1. act \subseteq Touches \cup Keys /\ held' \subseteq act BY <1>1, <1>3
  <2>2. input' = [input EXCEPT !.active = act] BY <1>3
  <2>. HIDE DEF act, batches
  <2> QED BY <1>1, <2>1, <2>2 DEF InputInv, InputRecord
<1>4. ASSUME NEW batch \in batches, NEW done \in SUBSET batch, held' = held \ done,
             input' = [input EXCEPT !.failed = TRUE,
                                    !.release = IF batch \subseteq Keys THEN "done" ELSE @]
      PROVE  InputInv'
  <2>. DEFINE release == IF batch \subseteq Keys THEN "done" ELSE input.release
  <2>1. release \in {"sending", "done"} BY <1>1
  <2>2. input' = [input EXCEPT !.failed = TRUE, !.release = release] BY <1>4
  <2>3. held' \subseteq input.active BY <1>1, <1>4
  <2>. HIDE DEF release, batches
  <2> QED BY <1>1, <2>1, <2>2, <2>3 DEF InputInv, InputRecord
<1> QED BY <1>2, <1>3, <1>4 DEF ReleaseSends

LEMMA InputGoesOn == InputInv /\ InputNext => InputInv'
<1>1. ASSUME InputInv, InputNext PROVE InputInv'
  <2>1. /\ input \in InputRecord /\ held \subseteq input.active
        /\ input.active \subseteq Touches \cup Keys /\ input.on \subseteq Touches \cup Keys
    BY <1>1 DEF InputInv, InputRecord
  <2>2. CASE GestureDispatched
    <3>1. PICK i \in Touches \cup Keys, op \in {"down", "up", "tap"} :
            input' = [input EXCEPT !.op = op, !.on = {i},
                                   !.active = IF op = "up" THEN @ ELSE @ \cup {i}]
      BY <2>2 DEF GestureDispatched
    <3>. DEFINE act == IF op = "up" THEN input.active ELSE input.active \cup {i}
                one == {i}
    <3>2. /\ act \subseteq Touches \cup Keys /\ held \subseteq act /\ one \subseteq Touches \cup Keys
          /\ (op \in {"down", "tap"} => one \subseteq act)
      BY <2>1
    <3>3. input' = [input EXCEPT !.op = op, !.on = one, !.active = act] /\ UNCHANGED held
          /\ input.release = "no" /\ ~input.aborted
      BY <1>1, <2>2, <3>1 DEF GestureDispatched, InputInv, InputRecord
    <3>. HIDE DEF act, one
    <3> QED BY <2>1, <3>2, <3>3 DEF InputInv, InputRecord
  <2>3. CASE SendEnds
    <3>1. PICK ok \in BOOLEAN, done \in BOOLEAN :
            /\ ok => done
            /\ held' = IF ~done THEN held
                       ELSE IF input.op = "up" THEN held \ input.on ELSE held \cup input.on
            /\ input' = [input EXCEPT !.op = IF ok /\ input.op = "tap" THEN "sleep" ELSE "none",
                                      !.active = IF ok /\ input.op = "up" THEN @ \ input.on ELSE @]
      BY <2>3 DEF SendEnds
    <3>. DEFINE act == IF ok /\ input.op = "up" THEN input.active \ input.on ELSE input.active
                op == IF ok /\ input.op = "tap" THEN "sleep" ELSE "none"
    <3>2. input.op \in {"down", "up", "tap"} /\ (input.op # "up" => input.on \subseteq input.active)
      BY <1>1, <2>3 DEF SendEnds, InputInv
    <3>3. act \subseteq Touches \cup Keys /\ held' \subseteq act /\ op \in {"sleep", "none"}
      BY <2>1, <3>1, <3>2
    <3>4. input' = [input EXCEPT !.op = op, !.active = act] BY <3>1
    <3>5. input.release \in {"no", "queued"} BY <1>1, <3>2 DEF InputInv, InputRecord
    <3>. HIDE DEF act, op
    <3> QED BY <1>1, <2>1, <3>3, <3>4, <3>5 DEF InputInv, InputRecord
  <2>4. CASE TapGoesUp
    <3>. DEFINE op == IF input.aborted THEN "none" ELSE "up"
    <3>1. input' = [input EXCEPT !.op = op] /\ UNCHANGED held /\ op \in {"none", "up"}
      BY <2>4 DEF TapGoesUp
    <3>2. input.release \in {"no", "queued"} BY <1>1, <2>4 DEF TapGoesUp, InputInv, InputRecord
    <3>. HIDE DEF op
    <3> QED BY <1>1, <2>1, <3>1, <3>2 DEF InputInv, InputRecord
  <2>5. CASE InputClosed BY <1>1, <2>5 DEF InputClosed, InputInv, InputRecord
  <2>6. CASE ReleaseBegins BY <1>1, <2>6 DEF ReleaseBegins, InputInv, InputRecord
  <2>7. CASE ReleaseSends BY <1>1, <2>7, ReleaseKeepsInput
  <2> QED BY <1>1, <2>2, <2>3, <2>4, <2>5, <2>6, <2>7 DEF InputNext
<1> QED BY <1>1

LEMMA InputStays ==
  InputInv /\ (StreamNext \/ GeometryNext \/ UNCHANGED channelVars) => InputInv'
<1>1. StreamNext \/ GeometryNext \/ UNCHANGED channelVars => UNCHANGED inputVars
  BY DEF StreamNext, GeometryNext, channelVars, inputVars, DisplayChanges, DataArrives, SlotOpens,
         InactivityFires, ProbeEnds, StreamEnds, PollGeometry, SizeRead, GeometryRead, PollFails
<1> QED BY <1>1 DEF InputInv, inputVars

LEMMA InputPromises == InputInv => HeldIsKnown
BY DEF InputInv, HeldIsKnown

-----------------------------------------------------------------------------
(* ScreenshotRegion: the region holds the image the emulator is writing and, *)
(* after it, the one before. A copy that is complete lies, cell by cell,    *)
(* between what was read and what is there now of one moment in between; if *)
(* the second copy agrees with it, it is that moment.                       *)

Notification == [kind : {"none", "image", "idle", "unusable"}, image : Nat]
Cell == 1 .. Cells
Moment(c, m, k) == IF c < k THEN m ELSE m - 1
\* The newest image all of which is written.
WrittenImage == IF Done THEN emulator.image ELSE emulator.image - 1

EmulatorIs ==
  /\ emulator \in [image : Nat, next : 1 .. Cells + 1, told : {emulator.told}]
  /\ ~Done => emulator.image > 0
  /\ region \in [Cell -> Nat]
  /\ \A c \in Cell : region[c] = Moment(c, emulator.image, emulator.next)
NoticeIs(note, w) == note \in Notification /\ note.image <= w
NoticesAre(s, w) == s \in Seq(Notification) /\ \A i \in 1 .. Len(s) : s[i].image <= w
PacingIs(p, w) ==
  /\ p = [pending |-> p.pending, queued |-> p.queued, shut |-> p.shut, closed |-> p.closed,
          decoded |-> p.decoded]
  /\ NoticeIs(p.pending, w)
  /\ p.pending # Nothing => p.queued /\ p.pending.image = p.decoded
ProbeIs(q, w) ==
  /\ q = [step |-> q.step, silent |-> q.silent, answer |-> q.answer, over |-> q.over]
  /\ NoticeIs(q.answer, w)
CopyIs(s, note) == s \in Seq(Nat) /\ Len(s) <= Cells /\ \A c \in 1 .. Len(s) : s[c] >= note.image
Between(r, rg) ==
  \E m \in Int, k \in Int :
    \A c \in Cell : /\ r.candidate[c] <= Moment(c, m, k) /\ Moment(c, m, k) <= rg[c]
                    /\ c <= Len(r.check) => Moment(c, m, k) <= r.check[c]
CopyingIs(r, rg, w) ==
  /\ r = [source |-> r.source, of |-> r.of, attempt |-> r.attempt, candidate |-> r.candidate,
          check |-> r.check]
  /\ NoticeIs(r.of, w)
  /\ CopyIs(r.candidate, r.of) /\ CopyIs(r.check, Nothing)
  /\ \A c \in 1 .. Len(r.candidate) : r.candidate[c] <= rg[c]
  /\ ~Full(r.candidate) => r.check = <<>>
  /\ Full(r.candidate) => Between(r, rg)
HandedIs(h) ==
  h.of # Nothing =>
    /\ Len(h.cells) = Cells /\ \A c \in Cell : h.cells[c] \in Nat /\ h.cells[c] >= h.of.image
    /\ \E m \in Int, k \in Int : \A c \in Cell : h.cells[c] = Moment(c, m, k)
FilesAre(f) ==
  /\ f = [step |-> f.step, directory |-> f.directory, file |-> f.file, fd |-> f.fd,
          try |-> f.try, failed |-> f.failed]
  /\ f.step = "open" => f.fd
  /\ f.step \in {"unlink", "rmdir", "closed"} => ~f.fd
  /\ f.step \in {"rmdir", "closed"} /\ ~f.failed => ~f.file
  /\ f.step = "closed" /\ ~f.failed => ~f.directory

RegionInv ==
  /\ EmulatorIs
  /\ NoticesAre(notices, WrittenImage) /\ PacingIs(pacing, WrittenImage)
  /\ ProbeIs(probe, WrittenImage) /\ CopyingIs(reading, region, WrittenImage)
  /\ HandedIs(handed) /\ FilesAre(files)
  /\ Busy \/ pacing.queued \/ probe.step # "none" => files.step = "open"
  /\ reading.source = "stream" => reading.of.image = pacing.decoded

LEMMA CellsAre == Cells \in Nat /\ Cells > 0
BY RegionAssumption

LEMMA NothingIs == Nothing \in Notification /\ Nothing.image = 0 /\ Nothing.kind = "none"
BY DEF Nothing, Notification

LEMMA NoReadIs == ASSUME NEW rg, NEW w \in Nat PROVE CopyingIs(NoRead, rg, w) /\ NoRead.source = "none"
<1>1. Len(NoRead.candidate) = 0 /\ NoRead.candidate = <<>> /\ NoRead.check = <<>>
      /\ Len(NoRead.check) = 0 /\ NoRead.candidate \in Seq(Nat) /\ NoRead.of = Nothing
  BY EmptySeq DEF NoRead
<1>2. NoticeIs(NoRead.of, w) BY <1>1, NothingIs DEF NoticeIs
<1>3. ~Full(NoRead.candidate) BY <1>1, CellsAre DEF Full
<1>4. CopyIs(NoRead.candidate, NoRead.of) /\ CopyIs(NoRead.check, Nothing)
  BY <1>1, CellsAre DEF CopyIs
<1>5. NoRead = [source |-> NoRead.source, of |-> NoRead.of, attempt |-> NoRead.attempt,
                candidate |-> NoRead.candidate, check |-> NoRead.check]
      /\ NoRead.source = "none"
  BY DEF NoRead
<1> QED BY <1>1, <1>2, <1>3, <1>4, <1>5 DEF CopyingIs

LEMMA RegionStarts == RegionInit => RegionInv
<1>1. ASSUME RegionInit PROVE RegionInv
  <2>1. EmulatorIs /\ WrittenImage = 0
    BY <1>1, CellsAre DEF RegionInit, EmulatorIs, WrittenImage, Done, Moment, Cell
  <2>2. NoticesAre(notices, 0) BY <1>1, EmptySeq DEF RegionInit, NoticesAre
  <2>3. PacingIs(pacing, 0) /\ ProbeIs(probe, 0) /\ ~pacing.queued /\ probe.step = "none"
    BY <1>1, NothingIs DEF RegionInit, PacingIs, ProbeIs, NoticeIs
  <2>4. CopyingIs(reading, region, 0) /\ reading.source = "none" BY <1>1, NoReadIs DEF RegionInit
  <2>5. HandedIs(handed) /\ FilesAre(files) BY <1>1 DEF RegionInit, HandedIs, FilesAre
  <2> QED BY <2>1, <2>2, <2>3, <2>4, <2>5 DEF RegionInv, Busy
<1> QED BY <1>1

\* What is written on does not take back what was read or announced.
LEMMA ReadGoesOn ==
  ASSUME NEW r, NEW rg, NEW new, NEW w \in Int, NEW v \in Int, CopyingIs(r, rg, w), w <= v,
         rg \in [Cell -> Nat], new \in [Cell -> Nat], \A c \in Cell : rg[c] <= new[c]
  PROVE  CopyingIs(r, new, v)
<1>1. NoticeIs(r.of, v) BY DEF CopyingIs, NoticeIs, Notification
<1>2. r.candidate \in Seq(Nat) /\ Len(r.candidate) \in Nat /\ Len(r.candidate) <= Cells
  BY LenProperties DEF CopyingIs, CopyIs
<1>3. ASSUME NEW c \in 1 .. Len(r.candidate) PROVE r.candidate[c] <= new[c]
  <2>1. r.candidate[c] \in Nat BY <1>2, ElementOfSeq
  <2>3. c \in Cell BY <1>2, CellsAre DEF Cell
  <2>2. r.candidate[c] <= rg[c] BY DEF CopyingIs
  <2> QED BY <2>1, <2>2, <2>3
<1>4. ASSUME Full(r.candidate) PROVE Between(r, new)
  <2>1. PICK m \in Int, k \in Int :
          \A c \in Cell : /\ r.candidate[c] <= Moment(c, m, k) /\ Moment(c, m, k) <= rg[c]
                          /\ c <= Len(r.check) => Moment(c, m, k) <= r.check[c]
    BY <1>4 DEF CopyingIs, Between
  <2>2. \A c \in Cell : Moment(c, m, k) \in Int BY DEF Moment
  <2>3. \A c \in Cell : Moment(c, m, k) <= new[c] BY <2>1, <2>2
  <2> QED BY <2>1, <2>3 DEF Between
<1> QED BY <1>1, <1>3, <1>4 DEF CopyingIs

LEMMA AnnouncedGoesOn ==
  ASSUME NEW w \in Int, NEW v \in Int, w <= v
  PROVE  /\ \A s : NoticesAre(s, w) => NoticesAre(s, v)
         /\ \A p : PacingIs(p, w) => PacingIs(p, v)
         /\ \A q : ProbeIs(q, w) => ProbeIs(q, v)
<1>1. \A n : NoticeIs(n, w) => NoticeIs(n, v) BY DEF NoticeIs, Notification
<1>2. ASSUME NEW s, NoticesAre(s, w) PROVE NoticesAre(s, v)
  <2>1. ASSUME NEW i \in 1 .. Len(s) PROVE s[i].image <= v
    <3>1. s[i] \in Notification /\ s[i].image <= w BY <1>2, ElementOfSeq DEF NoticesAre
    <3> QED BY <3>1 DEF Notification
  <2> QED BY <1>2, <2>1 DEF NoticesAre
<1>3. ASSUME NEW p, PacingIs(p, w) PROVE PacingIs(p, v) BY <1>1, <1>3 DEF PacingIs
<1>4. ASSUME NEW q, ProbeIs(q, w) PROVE ProbeIs(q, v) BY <1>1, <1>4 DEF ProbeIs
<1> QED BY <1>2, <1>3, <1>4

LEMMA WrittenIs == EmulatorIs => WrittenImage \in Nat /\ emulator.image \in Nat /\ emulator.next \in Nat
BY CellsAre DEF EmulatorIs, WrittenImage, Done

\* The emulator writes on: the region only grows newer.
LEMMA RegionGrowsNewer ==
  ASSUME RegionInv, EmulatorIs', WrittenImage <= WrittenImage',
         \A c \in Cell : region[c] <= region'[c],
         UNCHANGED <<notices, pacing, probe, reading, handed, files>>
  PROVE  RegionInv'
<1>1. WrittenImage \in Int /\ WrittenImage' \in Int BY WrittenIs, CellsAre DEF RegionInv, EmulatorIs, WrittenImage, Done
<1>2. /\ NoticesAre(notices, WrittenImage') /\ PacingIs(pacing, WrittenImage')
      /\ ProbeIs(probe, WrittenImage')
  BY <1>1, AnnouncedGoesOn DEF RegionInv
<1>3. CopyingIs(reading, region', WrittenImage') BY <1>1, ReadGoesOn DEF RegionInv, EmulatorIs
<1> QED BY <1>2, <1>3 DEF RegionInv, Busy

LEMMA EmulatorMoves ==
  ASSUME RegionInv, EmulatorBegins \/ EmulatorWrites PROVE RegionInv'
<1>1. EmulatorIs BY DEF RegionInv
<1>2. CASE EmulatorBegins
  <2>. DEFINE i == emulator.image + 1
  <2>1. Done /\ emulator' = [image |-> i, next |-> 1, told |-> FALSE] /\ region' = region
    BY <1>2 DEF EmulatorBegins
  <2>2. i \in Nat /\ i > 0 /\ i - 1 = emulator.image BY <1>1, WrittenIs
  <2>. HIDE DEF i
  <2>3. \A c \in Cell : region[c] = emulator.image /\ region[c] \in Nat
    BY <1>1, <2>1, WrittenIs, CellsAre DEF EmulatorIs, Done, Moment, Cell
  <2>4. ~Done' /\ emulator'.image = i /\ emulator'.next = 1 BY <2>1, CellsAre DEF Done
  <2>5. \A c \in Cell : Moment(c, i, 1) = emulator.image BY <2>2 DEF Moment, Cell
  <2>6. EmulatorIs' BY <1>1, <2>1, <2>2, <2>3, <2>4, <2>5, CellsAre DEF EmulatorIs
  <2>7. WrittenImage' = emulator.image /\ WrittenImage = emulator.image
    BY <2>1, <2>2, <2>4 DEF WrittenImage
  <2> QED BY <1>1, <1>2, <2>1, <2>3, <2>6, <2>7, RegionGrowsNewer, WrittenIs DEF EmulatorBegins
<1>3. CASE EmulatorWrites
  <2>. DEFINE k == emulator.next + 1
              n == emulator.next
              i == emulator.image
  <2>1. /\ ~Done /\ region' = [region EXCEPT ![n] = i] /\ emulator' = [emulator EXCEPT !.next = k]
        /\ UNCHANGED <<notices, pacing, probe, reading, handed, files>>
    BY <1>3 DEF EmulatorWrites
  <2>2. n \in Cell /\ i \in Nat /\ i > 0 /\ k = n + 1 /\ k \in 1 .. Cells + 1 /\ region \in [Cell -> Nat]
    BY <1>1, <2>1, WrittenIs, CellsAre DEF EmulatorIs, Done, Cell
  <2>3. \A c \in Cell : region[c] = Moment(c, i, n) BY <1>1 DEF EmulatorIs
  <2>4. emulator' \in [image : Nat, next : 1 .. Cells + 1, told : {emulator'.told}]
        /\ emulator'.image = i /\ emulator'.next = k
    BY <1>1, <2>1, <2>2 DEF EmulatorIs
  <2>. HIDE DEF n, i, k
  <2>5. region' \in [Cell -> Nat] /\ \A c \in Cell : region'[c] = IF c = n THEN i ELSE region[c]
    BY <2>1, <2>2
  <2>6. \A c \in Cell : region'[c] = Moment(c, i, k) /\ region[c] <= region'[c]
    BY <2>2, <2>3, <2>5 DEF Moment, Cell
  <2>7. EmulatorIs' BY <2>2, <2>4, <2>5, <2>6 DEF EmulatorIs
  <2>8. WrittenImage <= WrittenImage'
    BY <2>1, <2>2, <2>4 DEF WrittenImage, Done, i, n
  <2> QED BY <2>1, <2>6, <2>7, <2>8, RegionGrowsNewer
<1> QED BY <1>2, <1>3

\* The rest leaves the emulator alone.
LEMMA EmulatorRests ==
  ASSUME RegionInv, UNCHANGED outside
  PROVE  /\ EmulatorIs' /\ WrittenImage' = WrittenImage /\ WrittenImage \in Nat
         /\ region' = region /\ region \in [Cell -> Nat]
         /\ \A c \in Cell : region[c] = Moment(c, emulator.image, emulator.next)
         /\ emulator.image \in Nat /\ emulator.next \in Nat
         /\ \A c \in Cell : region[c] >= WrittenImage
<1>1. emulator' = emulator /\ region' = region BY DEF outside
<1>2. EmulatorIs /\ EmulatorIs' /\ WrittenImage' = WrittenImage
  BY <1>1 DEF RegionInv, EmulatorIs, WrittenImage, Done
<1>3. WrittenImage \in Nat /\ emulator.image \in Nat /\ emulator.next \in Nat BY <1>2, WrittenIs
<1>4. ASSUME NEW c \in Cell PROVE region[c] >= WrittenImage
  <2>1. region[c] = Moment(c, emulator.image, emulator.next) BY <1>2 DEF EmulatorIs
  <2>2. c <= Cells BY CellsAre DEF Cell
  <2> QED BY <1>3, <2>1, <2>2, CellsAre DEF Moment, WrittenImage, Done, Cell
<1> QED BY <1>1, <1>2, <1>3, <1>4 DEF EmulatorIs

\* What moves only the notifications and the pacing.
LEMMA RegionKeeps ==
  ASSUME RegionInv, UNCHANGED <<outside, handed>>,
         NoticesAre(notices', WrittenImage), PacingIs(pacing', WrittenImage),
         ProbeIs(probe', WrittenImage), CopyingIs(reading', region, WrittenImage), FilesAre(files'),
         reading'.source # "none" \/ pacing'.queued \/ probe'.step # "none" => files'.step = "open",
         reading'.source = "stream" => reading'.of.image = pacing'.decoded
  PROVE  RegionInv'
BY EmulatorRests DEF RegionInv, Busy

LEMMA TheEmulatorTells ==
  ASSUME RegionInv, EmulatorTells \/ EmulatorTellsOtherwise PROVE RegionInv'
<1>1. CASE EmulatorTells
  <2>. DEFINE note == [kind |-> "image", image |-> emulator.image]
              e == [emulator EXCEPT !.told = TRUE]
  <2>1. /\ Done /\ emulator' = e /\ UNCHANGED <<region, pacing, reading, handed, files>>
        /\ files.step = "open"
        /\ \/ notices' = Append(notices, note) /\ probe' = probe
           \/ probe' = [probe EXCEPT !.step = "answered", !.answer = note] /\ notices' = notices
    BY <1>1 DEF EmulatorTells
  <2>2. EmulatorIs /\ WrittenImage \in Nat /\ WrittenImage = emulator.image
    BY <2>1, WrittenIs DEF RegionInv, WrittenImage
  <2>3. e \in [image : Nat, next : 1 .. Cells + 1, told : {e.told}] /\ e.image = emulator.image
        /\ e.next = emulator.next
    BY <2>2 DEF EmulatorIs
  <2>. HIDE DEF e
  <2>4. EmulatorIs' /\ WrittenImage' = WrittenImage
    BY <2>1, <2>2, <2>3 DEF EmulatorIs, WrittenImage, Done
  <2>5. NoticeIs(note, WrittenImage) BY <2>2 DEF NoticeIs, Notification
  <2>. HIDE DEF note
  <2>6. NoticesAre(notices', WrittenImage)
    <3>1. NoticesAre(notices, WrittenImage) BY DEF RegionInv
    <3>2. CASE notices' = Append(notices, note)
      <4>1. /\ notices \in Seq(Notification) /\ Len(notices) \in Nat /\ notices' \in Seq(Notification)
            /\ Len(notices') = Len(notices) + 1 /\ notices'[Len(notices) + 1] = note
            /\ \A i \in 1 .. Len(notices) : notices'[i] = notices[i]
        BY <2>5, <3>1, <3>2, AppendProperties, LenProperties DEF NoticesAre, NoticeIs
      <4>2. \A i \in 1 .. Len(notices') : i \in 1 .. Len(notices) \/ i = Len(notices) + 1 BY <4>1
      <4> QED BY <2>5, <3>1, <4>1, <4>2 DEF NoticesAre, NoticeIs
    <3> QED BY <2>1, <3>1, <3>2
  <2>7. ProbeIs(probe', WrittenImage) BY <2>1, <2>5 DEF RegionInv, ProbeIs
  <2> QED BY <2>1, <2>4, <2>6, <2>7 DEF RegionInv, Busy
<1>2. CASE EmulatorTellsOtherwise
  <2>1. PICK kind \in {"idle", "unusable"} : notices' = Append(notices, [kind |-> kind, image |-> 0])
    BY <1>2 DEF EmulatorTellsOtherwise
  <2>. DEFINE note == [kind |-> kind, image |-> 0]
  <2>2. UNCHANGED <<outside, pacing, probe, reading, handed, files>>
    BY <1>2 DEF EmulatorTellsOtherwise
  <2>3. WrittenImage \in Nat BY <2>2, EmulatorRests
  <2>4. NoticeIs(note, WrittenImage) BY <2>1, <2>3 DEF NoticeIs, Notification
  <2>5. NoticesAre(notices, WrittenImage) /\ notices' = Append(notices, note) BY <2>1 DEF RegionInv
  <2>. HIDE DEF note
  <2>6. NoticesAre(notices', WrittenImage)
    <3>1. /\ notices \in Seq(Notification) /\ Len(notices) \in Nat /\ notices' \in Seq(Notification)
          /\ Len(notices') = Len(notices) + 1 /\ notices'[Len(notices) + 1] = note
          /\ \A i \in 1 .. Len(notices) : notices'[i] = notices[i]
      BY <2>4, <2>5, AppendProperties, LenProperties DEF NoticesAre, NoticeIs
    <3>2. \A i \in 1 .. Len(notices') : i \in 1 .. Len(notices) \/ i = Len(notices) + 1 BY <3>1
    <3> QED BY <2>4, <2>5, <3>1, <3>2 DEF NoticesAre, NoticeIs
  <2> QED BY <2>2, <2>6, RegionKeeps DEF RegionInv, Busy
<1> QED BY <1>1, <1>2

LEMMA NothingIsNotice == ASSUME RegionInv, UNCHANGED outside PROVE NoticeIs(Nothing, WrittenImage)
BY NothingIs, EmulatorRests DEF NoticeIs

LEMMA CopiedIs ==
  ASSUME NEW note, NEW from \in {"stream", "probe"}, NEW rg, NEW w \in Nat, NoticeIs(note, w)
  PROVE  /\ CopyingIs(Copied(note, from), rg, w)
         /\ \/ Copied(note, from).source = "none"
            \/ Copied(note, from).source = from /\ Copied(note, from).of = note
<1>1. CASE note.kind = "image"
  <2>1. PICK b : b = NoRead OBVIOUS
  <2>2. PICK r : r = [b EXCEPT !.source = from, !.of = note, !.attempt = 1] OBVIOUS
  <2>3. b = [source |-> b.source, of |-> b.of, attempt |-> b.attempt,
             candidate |-> b.candidate, check |-> b.check]
        /\ b.candidate = <<>> /\ b.check = <<>>
    BY <2>1 DEF NoRead
  <2>4. r = [source |-> r.source, of |-> r.of, attempt |-> r.attempt,
             candidate |-> r.candidate, check |-> r.check]
        /\ r.source = from /\ r.of = note /\ r.candidate = b.candidate /\ r.check = b.check
    BY <2>2, <2>3
  <2>5. Len(r.candidate) = 0 /\ Len(r.check) = 0 /\ ~Full(r.candidate)
        /\ CopyIs(r.candidate, r.of) /\ CopyIs(r.check, Nothing) /\ r.check = <<>>
    BY <2>3, <2>4, EmptySeq, CellsAre DEF Full, CopyIs
  <2>6. CopyingIs(r, rg, w) BY <2>4, <2>5 DEF CopyingIs
  <2>7. Copied(note, from) = r BY <1>1, <2>1, <2>2 DEF Copied
  <2> QED BY <2>4, <2>6, <2>7
<1>2. CASE note.kind # "image" BY <1>2, NoReadIs DEF Copied
<1> QED BY <1>1, <1>2

LEMMA TheStreamTells ==
  ASSUME RegionInv, DecodeTurn \/ FlushRuns \/ PacingSlotOpens PROVE RegionInv'
<1>1. /\ NoticesAre(notices, WrittenImage) /\ PacingIs(pacing, WrittenImage)
      /\ ProbeIs(probe, WrittenImage) /\ CopyingIs(reading, region, WrittenImage) /\ FilesAre(files)
      /\ (Busy \/ pacing.queued \/ probe.step # "none" => files.step = "open")
  BY DEF RegionInv
<1>2. CASE DecodeTurn
  <2>1. PICK k \in 1 .. Len(notices) :
          /\ pacing' = Coalesced(pacing, notices[k])
          /\ notices' = SubSeq(notices, k + 1, Len(notices))
    BY <1>2 DEF DecodeTurn
  <2>2. /\ ~Busy /\ ~pacing.queued /\ files.step = "open" /\ UNCHANGED <<outside, reading, handed, files>>
        /\ probe' = [probe EXCEPT !.silent = FALSE]
    BY <1>2 DEF DecodeTurn, StreamIsOn
  <2>. DEFINE note == notices[k]
              s == SubSeq(notices, k + 1, Len(notices))
              n == Len(notices)
  <2>3. n \in Nat /\ notices \in Seq(Notification) /\ k \in 1 .. n
    BY <1>1, <2>1, LenProperties DEF NoticesAre
  <2>4. NoticeIs(note, WrittenImage) BY <1>1, <2>3, ElementOfSeq DEF NoticesAre, NoticeIs
  <2>5. NoticesAre(notices', WrittenImage)
    <3>1. \A i \in k + 1 .. n : notices[i] \in Notification BY <2>3, ElementOfSeq
    <3>2. /\ s \in Seq(Notification) /\ Len(s) = n - k
          /\ \A i \in 1 .. n - k : s[i] = notices[k + i]
      <4>1. k + 1 \in Int /\ n \in Int /\ (IF k + 1 <= n THEN n - (k + 1) + 1 ELSE 0) = n - k BY <2>3
      <4>2. s \in Seq(Notification) /\ Len(s) = (IF k + 1 <= n THEN n - (k + 1) + 1 ELSE 0)
            /\ \A i \in 1 .. Len(s) : s[i] = notices[(k + 1) + i - 1]
        BY <2>3, <3>1, <4>1, SubSeqProperties
      <4> QED BY <2>3, <4>1, <4>2
    <3>. HIDE DEF s
    <3>3. \A i \in 1 .. n - k : k + i \in 1 .. n BY <2>3
    <3>4. \A i \in 1 .. n : notices[i].image <= WrittenImage BY <1>1 DEF NoticesAre
    <3>5. notices' = s BY <2>1 DEF s
    <3> QED BY <3>2, <3>3, <3>4, <3>5 DEF NoticesAre
  <2>. HIDE DEF note
  <2>6. pacing' = Coalesced(pacing, note) BY <2>1 DEF note
  <2>7. PacingIs(pacing', WrittenImage) BY <1>1, <2>2, <2>4, <2>6 DEF PacingIs, Coalesced
  <2>8. ProbeIs(probe', WrittenImage) BY <1>1, <2>2 DEF ProbeIs
  <2>9. reading'.source = "none" /\ reading' = reading /\ files' = files BY <2>2 DEF Busy
  <2> QED BY <1>1, <2>2, <2>5, <2>7, <2>8, <2>9, RegionKeeps
<1>3. CASE FlushRuns
  <2>1. ~Busy /\ files.step = "open" /\ UNCHANGED <<outside, notices, probe, handed, files>>
    BY <1>1, <1>3 DEF FlushRuns
  <2>. DEFINE closed == pacing.pending.kind = "unusable"
  <2>2. CASE pacing' = [pacing EXCEPT !.queued = FALSE, !.pending = Nothing] /\ reading' = reading
    <3>1. PacingIs(pacing', WrittenImage)
      BY <1>1, <2>2, <2>1, NothingIsNotice DEF PacingIs
    <3>2. reading'.source = "none" BY <2>1, <2>2 DEF Busy
    <3> QED BY <1>1, <2>1, <2>2, <3>1, <3>2, RegionKeeps
  <2>3. CASE /\ pacing.pending # Nothing
             /\ pacing' = [pacing EXCEPT !.queued = FALSE, !.pending = Nothing, !.shut = TRUE,
                                         !.closed = closed]
             /\ reading' = Copied(pacing.pending, "stream")
    <3>. HIDE DEF closed
    <3>1. /\ PacingIs(pacing', WrittenImage) /\ pacing'.decoded = pacing.decoded
          /\ pacing.pending.image = pacing.decoded
      BY <1>1, <2>3, <2>1, NothingIsNotice DEF PacingIs
    <3>2. NoticeIs(pacing.pending, WrittenImage) BY <1>1 DEF PacingIs
    <3>3. /\ CopyingIs(reading', region, WrittenImage)
          /\ \/ reading'.source = "none"
             \/ reading'.source = "stream" /\ reading'.of = pacing.pending
      BY <2>1, <2>3, <3>2, CopiedIs, EmulatorRests
    <3> QED BY <1>1, <2>1, <3>1, <3>3, RegionKeeps
  <2> QED BY <1>3, <2>2, <2>3 DEF FlushRuns
<1>4. CASE PacingSlotOpens
  <2>1. /\ UNCHANGED <<outside, notices, probe, reading, handed, files>>
        /\ pacing' = [pacing EXCEPT !.shut = FALSE]
    BY <1>4 DEF PacingSlotOpens
  <2>2. PacingIs(pacing', WrittenImage) /\ pacing'.decoded = pacing.decoded
        /\ pacing'.queued = pacing.queued
    BY <1>1, <2>1 DEF PacingIs
  <2> QED BY <1>1, <2>1, <2>2, RegionKeeps DEF RegionInv, Busy
<1> QED BY <1>2, <1>3, <1>4

LEMMA TheProbeMoves ==
  ASSUME RegionInv, ProbeAsked \/ StreamIsOver \/ ProbeSettles PROVE RegionInv'
<1>1. /\ NoticesAre(notices, WrittenImage) /\ PacingIs(pacing, WrittenImage)
      /\ ProbeIs(probe, WrittenImage) /\ CopyingIs(reading, region, WrittenImage) /\ FilesAre(files)
      /\ (Busy \/ pacing.queued \/ probe.step # "none" => files.step = "open")
      /\ (reading.source = "stream" => reading.of.image = pacing.decoded)
  BY DEF RegionInv
<1>2. CASE ProbeAsked \/ StreamIsOver
  <2>1. /\ files.step = "open" /\ UNCHANGED <<outside, notices, pacing, reading, handed, files>>
        /\ \/ probe' = [probe EXCEPT !.step = "asked", !.silent = TRUE]
           \/ probe' = [probe EXCEPT !.over = TRUE]
    BY <1>2 DEF ProbeAsked, StreamIsOver, StreamIsOn
  <2>2. ProbeIs(probe', WrittenImage) BY <1>1, <2>1 DEF ProbeIs
  <2> QED BY <1>1, <2>1, <2>2, RegionKeeps
<1>3. CASE ProbeSettles
  <2>1. /\ files.step = "open" /\ UNCHANGED <<outside, notices, pacing, handed, files>>
        /\ probe' = [probe EXCEPT !.step = "none", !.silent = FALSE, !.answer = Nothing]
        /\ reading' = NoRead \/ reading' = Copied(probe.answer, "probe")
    BY <1>1, <1>3 DEF ProbeSettles
  <2>2. ProbeIs(probe', WrittenImage) BY <1>1, <2>1, NothingIsNotice DEF ProbeIs
  <2>3. NoticeIs(probe.answer, WrittenImage) BY <1>1 DEF ProbeIs
  <2>4. CopyingIs(reading', region, WrittenImage) /\ reading'.source \in {"none", "probe"}
    BY <2>1, <2>3, CopiedIs, NoReadIs, EmulatorRests
  <2> QED BY <1>1, <2>1, <2>2, <2>4, RegionKeeps
<1> QED BY <1>2, <1>3

LEMMA RegionIsRead ==
  ASSUME RegionInv, ReadsOn PROVE RegionInv'
<1>1. /\ NoticesAre(notices, WrittenImage) /\ PacingIs(pacing, WrittenImage)
      /\ ProbeIs(probe, WrittenImage) /\ CopyingIs(reading, region, WrittenImage) /\ FilesAre(files)
      /\ (Busy \/ pacing.queued \/ probe.step # "none" => files.step = "open")
      /\ (reading.source = "stream" => reading.of.image = pacing.decoded)
  BY DEF RegionInv
<1>2. Busy /\ UNCHANGED <<outside, notices, pacing, probe, handed, files>> BY DEF ReadsOn
<1>3. /\ region' = region /\ region \in [Cell -> Nat] /\ WrittenImage \in Nat
      /\ emulator.image \in Nat /\ emulator.next \in Nat
      /\ \A c \in Cell : region[c] = Moment(c, emulator.image, emulator.next)
      /\ \A c \in Cell : region[c] >= WrittenImage
  BY <1>2, EmulatorRests
<1>. DEFINE s == reading.candidate
            v == reading.check
            n == Len(s)
            m == Len(v)
<1>4. /\ s \in Seq(Nat) /\ v \in Seq(Nat) /\ n \in Nat /\ m \in Nat /\ n <= Cells /\ m <= Cells
      /\ \A c \in 1 .. n : s[c] >= reading.of.image /\ s[c] <= region[c]
      /\ NoticeIs(reading.of, WrittenImage)
      /\ reading = [source |-> reading.source, of |-> reading.of, attempt |-> reading.attempt,
                    candidate |-> s, check |-> v]
  BY <1>1, LenProperties DEF CopyingIs, CopyIs
<1>5. ASSUME ~Full(s), reading' = [reading EXCEPT !.candidate = Append(s, region[n + 1])]
      PROVE  RegionInv'
  <2>. DEFINE t == Append(s, region[n + 1])
  <2>1. n + 1 \in Cell /\ n < Cells BY <1>4, <1>5, CellsAre DEF Full, Cell
  <2>2. region[n + 1] \in Nat /\ region[n + 1] >= reading.of.image
    BY <1>3, <1>4, <2>1 DEF NoticeIs, Notification
  <2>3. /\ t \in Seq(Nat) /\ Len(t) = n + 1 /\ t[n + 1] = region[n + 1]
        /\ \A c \in 1 .. n : t[c] = s[c]
    BY <1>4, <2>2, AppendProperties
  <2>4. /\ reading' = [source |-> reading'.source, of |-> reading'.of, attempt |-> reading'.attempt,
                       candidate |-> reading'.candidate, check |-> reading'.check]
        /\ reading'.candidate = t /\ reading'.check = v /\ reading'.of = reading.of
        /\ reading'.source = reading.source
    BY <1>4, <1>5
  <2>. HIDE DEF t
  <2>5. \A c \in 1 .. n + 1 : c \in 1 .. n \/ c = n + 1 BY <1>4
  <2>6. CopyIs(t, reading.of) /\ \A c \in 1 .. n + 1 : t[c] <= region[c]
    <3>1. ASSUME NEW c \in 1 .. n + 1 PROVE t[c] >= reading.of.image /\ t[c] <= region[c]
      BY <1>4, <2>2, <2>3, <2>5
    <3>2. Len(t) <= Cells BY <1>4, <2>1, <2>3, CellsAre
    <3> QED BY <2>3, <3>1, <3>2 DEF CopyIs
  <2>7. v = <<>> /\ m = 0 BY <1>1, <1>5, EmptySeq DEF CopyingIs
  <2>8. ASSUME Full(t) PROVE Between(reading', region)
    <3>1. n + 1 = Cells BY <2>3, <2>8 DEF Full
    <3>2. \A c \in Cell : c \in 1 .. n + 1 /\ region[c] \in Nat BY <1>3, <3>1 DEF Cell
    <3>3. \A c \in Cell : ~(c <= m) BY <2>7 DEF Cell
    <3>4. \A c \in Cell : /\ t[c] <= Moment(c, emulator.image, emulator.next)
                          /\ Moment(c, emulator.image, emulator.next) <= region[c]
      BY <1>3, <2>6, <3>2
    <3>5. \A c \in Cell :
            /\ reading'.candidate[c] <= Moment(c, emulator.image, emulator.next)
            /\ Moment(c, emulator.image, emulator.next) <= region[c]
            /\ c <= Len(reading'.check) => Moment(c, emulator.image, emulator.next) <= reading'.check[c]
      BY <2>4, <3>3, <3>4
    <3>6. emulator.image \in Int /\ emulator.next \in Int BY <1>3
    <3> QED BY <3>5, <3>6 DEF Between
  <2>9. CopyIs(v, Nothing) BY <1>1 DEF CopyingIs
  <2>10. CopyingIs(reading', region, WrittenImage)
    BY <1>4, <2>3, <2>4, <2>6, <2>7, <2>8, <2>9 DEF CopyingIs
  <2> QED BY <1>1, <1>2, <2>4, <2>10, RegionKeeps DEF Busy
<1>6. ASSUME Full(s), ~Full(v), reading' = [reading EXCEPT !.check = Append(v, region[m + 1])]
      PROVE  RegionInv'
  <2>. DEFINE t == Append(v, region[m + 1])
  <2>1. m + 1 \in Cell /\ m < Cells BY <1>4, <1>6, CellsAre DEF Full, Cell
  <2>2. region[m + 1] \in Nat BY <1>3, <2>1
  <2>3. /\ t \in Seq(Nat) /\ Len(t) = m + 1 /\ t[m + 1] = region[m + 1]
        /\ \A c \in 1 .. m : t[c] = v[c]
    BY <1>4, <2>2, AppendProperties
  <2>4. /\ reading' = [source |-> reading'.source, of |-> reading'.of, attempt |-> reading'.attempt,
                       candidate |-> reading'.candidate, check |-> reading'.check]
        /\ reading'.candidate = s /\ reading'.check = t /\ reading'.of = reading.of
        /\ reading'.source = reading.source
    BY <1>4, <1>6
  <2>. HIDE DEF t
  <2>5. \A c \in 1 .. m + 1 : t[c] \in Nat BY <2>3, ElementOfSeq
  <2>6. CopyIs(t, Nothing)
    <3>1. Len(t) <= Cells BY <1>4, <2>1, <2>3, CellsAre
    <3>2. \A c \in 1 .. Len(t) : t[c] >= 0 BY <2>3, <2>5
    <3> QED BY <2>3, <3>1, <3>2, NothingIs DEF CopyIs
  <2>7. Between(reading', region)
    <3>1. PICK i \in Int, k \in Int :
            \A c \in Cell : /\ s[c] <= Moment(c, i, k) /\ Moment(c, i, k) <= region[c]
                            /\ c <= m => Moment(c, i, k) <= v[c]
      BY <1>1, <1>6 DEF CopyingIs, Between
    <3>2. ASSUME NEW c \in Cell, c <= m + 1 PROVE Moment(c, i, k) <= t[c]
      <4>1. c = m + 1 \/ (c \in 1 .. m /\ c <= m) BY <1>4, <3>2, CellsAre DEF Cell
      <4>2. CASE c = m + 1 BY <2>3, <3>1, <4>2
      <4>3. CASE c \in 1 .. m /\ c <= m BY <2>3, <3>1, <4>3
      <4> QED BY <4>1, <4>2, <4>3
    <3>3. \A c \in Cell : /\ reading'.candidate[c] <= Moment(c, i, k)
                          /\ Moment(c, i, k) <= region[c]
                          /\ c <= Len(reading'.check) => Moment(c, i, k) <= reading'.check[c]
      BY <2>3, <2>4, <3>1, <3>2
    <3> QED BY <3>3 DEF Between
  <2>8. CopyIs(s, reading.of) BY <1>1 DEF CopyingIs
  <2>9. CopyingIs(reading', region, WrittenImage)
    BY <1>4, <1>6, <2>4, <2>6, <2>7, <2>8 DEF CopyingIs
  <2> QED BY <1>1, <1>2, <2>4, <2>9, RegionKeeps DEF Busy
<1> QED BY <1>5, <1>6 DEF ReadsOn

LEMMA RegionCopyEnds ==
  ASSUME RegionInv, CopyFails \/ CopiesCompared PROVE RegionInv'
<1>1. /\ NoticesAre(notices, WrittenImage) /\ PacingIs(pacing, WrittenImage)
      /\ ProbeIs(probe, WrittenImage) /\ CopyingIs(reading, region, WrittenImage) /\ FilesAre(files)
      /\ (Busy \/ pacing.queued \/ probe.step # "none" => files.step = "open")
      /\ (reading.source = "stream" => reading.of.image = pacing.decoded) /\ HandedIs(handed)
  BY DEF RegionInv
<1>2. CASE CopyFails
  <2>. DEFINE closed == pacing.closed \/ reading.source = "stream"
              over == probe.over \/ reading.source = "probe"
  <2>1. /\ files.step = "open" /\ UNCHANGED <<outside, notices, handed, files>> /\ reading' = NoRead
        /\ pacing' = [pacing EXCEPT !.closed = closed] /\ probe' = [probe EXCEPT !.over = over]
    BY <1>1, <1>2 DEF CopyFails
  <2>. HIDE DEF closed, over
  <2>2. PacingIs(pacing', WrittenImage) /\ ProbeIs(probe', WrittenImage)
    BY <1>1, <2>1 DEF PacingIs, ProbeIs
  <2>3. CopyingIs(reading', region, WrittenImage) /\ reading'.source = "none"
    BY <2>1, NoReadIs, EmulatorRests
  <2> QED BY <1>1, <2>1, <2>2, <2>3, RegionKeeps
<1>3. CASE CopiesCompared
  <2>1. /\ files.step = "open" /\ UNCHANGED <<outside, notices, pacing, probe, files>>
        /\ Full(reading.check)
    BY <1>1, <1>3 DEF CopiesCompared
  <2>2. EmulatorIs' /\ WrittenImage' = WrittenImage /\ WrittenImage \in Nat /\ region' = region
    BY <2>1, EmulatorRests
  <2>. DEFINE s == reading.candidate
              v == reading.check
  <2>3. s \in Seq(Nat) /\ v \in Seq(Nat) /\ Len(v) = Cells /\ NoticeIs(reading.of, WrittenImage)
        /\ \A c \in 1 .. Len(s) : s[c] >= reading.of.image
    BY <1>1, <2>1 DEF CopyingIs, CopyIs, Full
  <2>4. CASE reading' = NoRead /\ handed' = handed
    <3>1. CopyingIs(reading', region, WrittenImage) /\ reading'.source = "none"
      BY <2>2, <2>4, NoReadIs
    <3> QED BY <1>1, <2>1, <2>4, <3>1, RegionKeeps
  <2>5. CASE /\ reading' = [reading EXCEPT !.attempt = @ + 1, !.candidate = <<>>, !.check = <<>>]
             /\ handed' = handed
    <3>. DEFINE k == reading.attempt + 1
    <3>1. reading' = [reading EXCEPT !.attempt = k, !.candidate = <<>>, !.check = <<>>] BY <2>5
    <3>. HIDE DEF k
    <3>2. /\ reading' = [source |-> reading'.source, of |-> reading'.of, attempt |-> reading'.attempt,
                         candidate |-> reading'.candidate, check |-> reading'.check]
          /\ reading'.candidate = <<>> /\ reading'.check = <<>> /\ reading'.of = reading.of
          /\ reading'.source = reading.source
      BY <1>1, <3>1 DEF CopyingIs
    <3>3. Len(<<>>) = 0 /\ CopyIs(<<>>, reading.of) /\ CopyIs(<<>>, Nothing) /\ ~Full(<<>>)
      BY EmptySeq, CellsAre DEF CopyIs, Full
    <3>4. CopyingIs(reading', region, WrittenImage) BY <2>3, <3>2, <3>3 DEF CopyingIs
    <3> QED BY <1>1, <2>1, <2>5, <3>2, <3>4, RegionKeeps
  <2>6. CASE /\ s = v /\ handed' = [of |-> reading.of, cells |-> s] /\ reading' = NoRead
    <3>1. CopyingIs(reading', region, WrittenImage) /\ reading'.source = "none"
      BY <2>2, <2>6, NoReadIs
    <3>2. Len(s) = Cells /\ Full(s) BY <2>3, <2>6 DEF Full
    <3>3. \A c \in Cell : s[c] \in Nat /\ s[c] >= reading.of.image
      BY <2>3, <3>2, ElementOfSeq DEF Cell
    <3>4. PICK m \in Int, k \in Int :
            \A c \in Cell : /\ s[c] <= Moment(c, m, k) /\ Moment(c, m, k) <= region[c]
                            /\ c <= Len(v) => Moment(c, m, k) <= v[c]
      BY <1>1, <3>2 DEF CopyingIs, Between
    <3>5. \A c \in Cell : s[c] = Moment(c, m, k)
      <4>1. \A c \in Cell : c <= Len(v) /\ Moment(c, m, k) \in Int
        BY <2>3, CellsAre DEF Cell, Moment
      <4>2. \A c \in Cell : s[c] <= Moment(c, m, k) /\ Moment(c, m, k) <= s[c]
        BY <2>6, <3>4, <4>1
      <4> QED BY <3>3, <4>1, <4>2
    <3>6. handed'.of = reading.of /\ handed'.cells = s BY <2>6
    <3>7. HandedIs(handed') BY <3>2, <3>3, <3>5, <3>6 DEF HandedIs
    <3> QED BY <1>1, <2>1, <2>2, <3>1, <3>7 DEF RegionInv, Busy
  <2> QED BY <1>3, <2>4, <2>5, <2>6 DEF CopiesCompared, Agree
<1> QED BY <1>2, <1>3

LEMMA RegionFilesMove ==
  ASSUME RegionInv,
         EmulatorDeletes \/ RegionCreated \/ TransportStops \/ RegionCloses \/ Unlinked
         \/ DirectoryRemoved
  PROVE  RegionInv'
<1>1. /\ NoticesAre(notices, WrittenImage) /\ PacingIs(pacing, WrittenImage)
      /\ ProbeIs(probe, WrittenImage) /\ CopyingIs(reading, region, WrittenImage) /\ FilesAre(files)
      /\ (Busy \/ pacing.queued \/ probe.step # "none" => files.step = "open")
      /\ (reading.source = "stream" => reading.of.image = pacing.decoded)
  BY DEF RegionInv
<1>2. files = [step |-> files.step, directory |-> files.directory, file |-> files.file,
               fd |-> files.fd, try |-> files.try, failed |-> files.failed]
  BY <1>1 DEF FilesAre
<1>3. CASE TransportStops
  <2>1. /\ ~Busy /\ UNCHANGED <<outside, reading, handed>> /\ notices' = <<>>
        /\ files' = [files EXCEPT !.step = "stopped"]
        /\ pacing' = [pacing EXCEPT !.closed = TRUE, !.pending = Nothing, !.queued = FALSE]
        /\ probe' = [step |-> "none", silent |-> FALSE, answer |-> Nothing, over |-> TRUE]
    BY <1>3 DEF TransportStops
  <2>2. NoticeIs(Nothing, WrittenImage) BY <2>1, NothingIs, EmulatorRests DEF NoticeIs
  <2>3. NoticesAre(notices', WrittenImage) BY <2>1, EmptySeq DEF NoticesAre
  <2>4. FilesAre(files') BY <1>2, <2>1 DEF FilesAre
  <2>5. pacing' = [pending |-> pacing'.pending, queued |-> pacing'.queued, shut |-> pacing'.shut,
                   closed |-> pacing'.closed, decoded |-> pacing'.decoded]
        /\ pacing'.pending = Nothing /\ ~pacing'.queued /\ probe'.answer = Nothing
    BY <1>1, <2>1 DEF PacingIs
  <2>6. PacingIs(pacing', WrittenImage) /\ ProbeIs(probe', WrittenImage)
    BY <2>1, <2>2, <2>5 DEF PacingIs, ProbeIs
  <2> QED BY <1>1, <2>1, <2>3, <2>4, <2>5, <2>6, RegionKeeps DEF Busy
<1>4. ASSUME UNCHANGED <<outside, notices, pacing, probe, reading, handed>>, FilesAre(files'),
             files.step # "open"
      PROVE  RegionInv'
  BY <1>1, <1>4, RegionKeeps DEF Busy
<1>5. CASE EmulatorDeletes
  <2>1. FilesAre(files') BY <1>1, <1>2, <1>5 DEF EmulatorDeletes, FilesAre
  <2> QED BY <1>4, <1>5, <2>1 DEF EmulatorDeletes
<1>6. CASE RegionCreated
  <2>1. FilesAre(files')
    <3>1. CASE files' = [files EXCEPT !.step = "open", !.directory = TRUE, !.file = TRUE, !.fd = TRUE]
      BY <1>2, <3>1 DEF FilesAre
    <3>2. ASSUME NEW file, NEW directory, NEW failed,
                 files' = [files EXCEPT !.step = "failed", !.failed = failed, !.file = file,
                                        !.directory = directory]
          PROVE  FilesAre(files')
      BY <1>2, <3>2 DEF FilesAre
    <3>3. CASE \E file \in BOOLEAN, directory \in BOOLEAN :
                 files' = [files EXCEPT !.step = "failed", !.failed = file \/ directory,
                                        !.file = file, !.directory = directory]
      <4>1. PICK file \in BOOLEAN, directory \in BOOLEAN :
              files' = [files EXCEPT !.step = "failed", !.failed = file \/ directory,
                                     !.file = file, !.directory = directory]
        BY <3>3
      <4>. DEFINE failed == file \/ directory
      <4>2. files' = [files EXCEPT !.step = "failed", !.failed = failed, !.file = file,
                                   !.directory = directory]
        BY <4>1
      <4>. HIDE DEF failed
      <4> QED BY <3>2, <4>2
    <3> QED BY <1>6, <3>1, <3>3 DEF RegionCreated
  <2> QED BY <1>4, <1>6, <2>1 DEF RegionCreated
<1>7. CASE RegionCloses
  <2>1. PICK failed \in BOOLEAN :
          files' = [files EXCEPT !.step = "unlink", !.fd = FALSE, !.try = 1, !.failed = failed]
    BY <1>7 DEF RegionCloses
  <2>2. FilesAre(files') BY <1>2, <2>1 DEF FilesAre
  <2> QED BY <1>4, <1>7, <2>2 DEF RegionCloses
<1>8. ASSUME NEW next, files' = Retried(files, next), files.step \in {"unlink", "rmdir"},
             next \in {"rmdir", "closed"}
      PROVE  FilesAre(files')
  <2>. DEFINE k == files.try + 1
  <2>1. \/ files' = [files EXCEPT !.step = next, !.try = 1, !.failed = TRUE]
        \/ files' = [files EXCEPT !.try = k]
    BY <1>8 DEF Retried
  <2>. HIDE DEF k
  <2> QED BY <1>1, <1>2, <1>8, <2>1 DEF FilesAre
<1>9. CASE Unlinked
  <2>1. \/ files' = [files EXCEPT !.file = FALSE, !.step = "rmdir", !.try = 1]
        \/ files' = Retried(files, "rmdir")
        \/ files' = [files EXCEPT !.step = "rmdir", !.try = 1, !.failed = TRUE]
    BY <1>9 DEF Unlinked
  <2>2. files.step = "unlink" /\ UNCHANGED <<outside, notices, pacing, probe, reading, handed>>
    BY <1>9 DEF Unlinked
  <2>3. FilesAre(files') BY <1>1, <1>2, <1>8, <2>1, <2>2 DEF FilesAre
  <2> QED BY <1>4, <2>2, <2>3
<1>10. CASE DirectoryRemoved
  <2>1. \/ ~files.file /\ files' = [files EXCEPT !.directory = FALSE, !.step = "closed", !.try = 1]
        \/ files' = Retried(files, "closed")
        \/ files' = [files EXCEPT !.step = "closed", !.try = 1, !.failed = TRUE]
    BY <1>10 DEF DirectoryRemoved
  <2>2. files.step = "rmdir" /\ UNCHANGED <<outside, notices, pacing, probe, reading, handed>>
    BY <1>10 DEF DirectoryRemoved
  <2>3. FilesAre(files') BY <1>1, <1>2, <1>8, <2>1, <2>2 DEF FilesAre
  <2> QED BY <1>4, <2>2, <2>3
<1> QED BY <1>3, <1>5, <1>6, <1>7, <1>9, <1>10

LEMMA RegionGoesOn == RegionInv /\ RegionNext => RegionInv' /\ StoppedHandsOnNothing
<1>1. RegionInv /\ RegionNext => RegionInv'
  BY EmulatorMoves, TheEmulatorTells, TheStreamTells, TheProbeMoves, RegionIsRead, RegionCopyEnds,
     RegionFilesMove
  DEF RegionNext
<1>2. ASSUME RegionInv, RegionNext, files.step \notin {"new", "open"}
      PROVE  handed' = handed /\ reading' = reading
  <2>1. ~Busy /\ ~pacing.queued /\ probe.step = "none" BY <1>2 DEF RegionInv
  <2> QED BY <1>2, <2>1
    DEF RegionNext, EmulatorBegins, EmulatorWrites, EmulatorTells, EmulatorTellsOtherwise,
        EmulatorDeletes, DecodeTurn, FlushRuns, PacingSlotOpens, ProbeAsked, StreamIsOver,
        ProbeSettles, ReadsOn, CopyFails, CopiesCompared, RegionCreated, TransportStops,
        RegionCloses, Unlinked, DirectoryRemoved
<1> QED BY <1>1, <1>2 DEF StoppedHandsOnNothing

LEMMA RegionStays == RegionInv /\ UNCHANGED regionVars => RegionInv' /\ StoppedHandsOnNothing
<1>1. ASSUME RegionInv, UNCHANGED regionVars PROVE RegionInv'
  BY <1>1, EmulatorRests DEF RegionInv, regionVars, Busy, outside
<1> QED BY <1>1 DEF StoppedHandsOnNothing, regionVars

LEMMA RegionPromises == RegionInv => ImageIsOfOneMoment /\ MetadataIsNewest /\ RegionIsRemoved
<1>1. ASSUME RegionInv PROVE ImageIsOfOneMoment /\ MetadataIsNewest
  <2>1. HandedIs(handed) /\ (reading.source = "stream" => reading.of.image = pacing.decoded)
    BY <1>1 DEF RegionInv
  <2>2. ASSUME handed.of # Nothing
        PROVE  /\ Full(handed.cells)
               /\ \A c, d \in Cell : c <= d => handed.cells[c] \in {handed.cells[d], handed.cells[d] + 1}
    <3>1. PICK m \in Int, k \in Int : \A c \in Cell : handed.cells[c] = Moment(c, m, k)
      BY <2>1, <2>2 DEF HandedIs
    <3>2. ASSUME NEW c \in Cell, NEW d \in Cell, c <= d
          PROVE  Moment(c, m, k) \in {Moment(d, m, k), Moment(d, m, k) + 1}
      BY <3>2, CellsAre DEF Cell, Moment
    <3> QED BY <2>1, <2>2, <3>1, <3>2 DEF HandedIs, Full
  <2>3. handed.of # Nothing => \A c \in Cell : handed.cells[c] >= handed.of.image
    BY <2>1 DEF HandedIs
  <2> QED BY <2>1, <2>2, <2>3 DEF ImageIsOfOneMoment, MetadataIsNewest, Cell
<1>2. RegionInv => RegionIsRemoved BY DEF RegionInv, FilesAre, RegionIsRemoved
<1> QED BY <1>1, <1>2

-----------------------------------------------------------------------------
(* StreamFraming. Where each packet ends is one function of the payloads:   *)
(* that there is one, for each prefix, is shown with the least length for   *)
(* which there is none.                                                     *)

\* f says where each of the first n packets ends.
Ends(f, n) ==
  f = [i \in 0 .. n |-> IF i = 0 THEN PreambleBytes - ExtraBytes
                        ELSE f[i - 1] + HeaderBytes + Payloads[i]]

LEMMA FramingLimits ==
  /\ Payloads \in Seq(Nat) /\ Len(Payloads) \in Nat
  /\ HeaderBytes \in Nat \ {0} /\ PreambleBytes \in Nat \ {0} /\ BufferLimit \in Nat \ {0}
  /\ ChunkBytes \in Nat \ {0}
  /\ ExtraBytes \in Nat /\ ExtraBytes < PreambleBytes
BY FramingAssumption

LEMMA EndsExist == \A n \in 0 .. Len(Payloads) : \E f \in [0 .. n -> Nat] : Ends(f, n)
<1>. DEFINE T == {n \in 0 .. Len(Payloads) : ~\E f \in [0 .. n -> Nat] : Ends(f, n)}
<1>0. Len(Payloads) \in Nat BY FramingLimits
<1>1. SUFFICES ASSUME T # {} PROVE FALSE OBVIOUS
<1>2. PICK m \in T : \A n \in T : m <= n
  <2>1. T \subseteq Nat BY <1>0
  <2>. HIDE DEF T
  <2> QED BY <1>1, <2>1, Least
<1>3. m \in 0 .. Len(Payloads) /\ m \in Nat BY <1>0
<1>4. CASE m = 0
  <2>. DEFINE k == PreambleBytes - ExtraBytes
              f == [i \in 0 .. 0 |-> k]
  <2>0. k \in Nat BY FramingLimits
  <2>1. f \in [0 .. 0 -> Nat] BY <2>0
  <2>2. f = [i \in 0 .. 0 |-> IF i = 0 THEN k ELSE f[i - 1] + HeaderBytes + Payloads[i]] OBVIOUS
  <2>3. Ends(f, m) BY <1>4, <2>2 DEF Ends
  <2> QED BY <1>4, <2>1, <2>3
<1>5. CASE m > 0
  <2>1. m - 1 \in 0 .. Len(Payloads) /\ m - 1 < m BY <1>3, <1>0, <1>5
  <2>2. m - 1 \notin T
    <3>. HIDE DEF T
    <3>1. ~(m <= m - 1) BY <1>3
    <3> QED BY <1>2, <3>1
  <2>3. PICK g \in [0 .. m - 1 -> Nat] : Ends(g, m - 1) BY <2>1, <2>2
  <2>4. Payloads[m] \in Nat /\ HeaderBytes \in Nat BY <1>3, <1>0, <1>5, FramingLimits
  <2>. DEFINE last == g[m - 1] + HeaderBytes + Payloads[m]
              f == [i \in 0 .. m |-> IF i = m THEN last ELSE g[i]]
  <2>5. \A i \in 0 .. m - 1 : i \in 0 .. m /\ i # m /\ f[i] = g[i] BY <1>3
  <2>6. f \in [0 .. m -> Nat]
    <3>1. \A i \in 0 .. m : i = m \/ i \in 0 .. m - 1 BY <1>3, <1>5
    <3>2. last \in Nat BY <1>3, <1>5, <2>4
    <3>. HIDE DEF last
    <3> QED BY <1>3, <2>5, <3>1, <3>2
  <2>7. ASSUME NEW i \in 0 .. m
        PROVE  f[i] = IF i = 0 THEN PreambleBytes - ExtraBytes
                      ELSE f[i - 1] + HeaderBytes + Payloads[i]
    <3>1. CASE i = m
      <4>1. m - 1 \in 0 .. m - 1 BY <1>3, <1>5
      <4> QED BY <1>5, <2>5, <3>1, <4>1
    <3>2. CASE i # m
      <4>1. i \in 0 .. m - 1 /\ (i # 0 => i - 1 \in 0 .. m - 1) BY <1>3, <3>2
      <4>2. g[i] = IF i = 0 THEN PreambleBytes - ExtraBytes
                   ELSE g[i - 1] + HeaderBytes + Payloads[i]
        BY <2>3, <4>1 DEF Ends
      <4> QED BY <2>5, <4>1, <4>2
    <3> QED BY <3>1, <3>2
  <2>8. Ends(f, m)
    <3>. HIDE DEF f
    <3>2. f = [i \in 0 .. m |-> f[i]] BY <2>6
    <3> QED BY <2>7, <3>2 DEF Ends
  <2>. HIDE DEF f
  <2> QED BY <2>6, <2>8
<1> QED BY <1>3, <1>4, <1>5

LEMMA EndsAreKnown ==
  /\ \A i \in 0 .. Len(Payloads) : LastByte[i] \in Nat
  /\ LastByte[0] = PreambleBytes - ExtraBytes
  /\ \A i \in 1 .. Len(Payloads) : LastByte[i] = LastByte[i - 1] + HeaderBytes + Payloads[i]
<1>. DEFINE n == Len(Payloads)
            ends == CHOOSE f : f = [i \in 0 .. n |->
                      IF i = 0 THEN PreambleBytes - ExtraBytes ELSE f[i - 1] + HeaderBytes + Payloads[i]]
<1>0. n \in Nat BY FramingLimits
<1>1. PICK f \in [0 .. n -> Nat] : Ends(f, n) BY <1>0, EndsExist
<1>2. ends = [i \in 0 .. n |-> IF i = 0 THEN PreambleBytes - ExtraBytes
                               ELSE ends[i - 1] + HeaderBytes + Payloads[i]]
  BY <1>1 DEF Ends
<1>3. LastByte = ends BY DEF LastByte
<1>. HIDE DEF ends
<1>4. \A i \in 0 .. n : LastByte[i] = IF i = 0 THEN PreambleBytes - ExtraBytes
                                      ELSE LastByte[i - 1] + HeaderBytes + Payloads[i]
  BY <1>2, <1>3
<1>5. LastByte[0] = PreambleBytes - ExtraBytes /\ LastByte[0] \in Nat
  BY <1>0, <1>4, FramingLimits
<1>6. \A i \in 1 .. n : LastByte[i] = LastByte[i - 1] + HeaderBytes + Payloads[i] BY <1>0, <1>4
<1>7. \A i \in 0 .. n : LastByte[i] \in Nat
  <2>. DEFINE T == {i \in 0 .. n : LastByte[i] \notin Nat}
  <2>1. SUFFICES ASSUME T # {} PROVE FALSE OBVIOUS
  <2>2. PICK m \in T : \A i \in T : m <= i
    <3>1. T \subseteq Nat BY <1>0
    <3>. HIDE DEF T
    <3> QED BY <2>1, <3>1, Least
  <2>3. m \in 1 .. n BY <1>0, <1>5
  <2>4. LastByte[m - 1] \in Nat
    <3>1. m - 1 \in 0 .. n /\ ~(m <= m - 1) BY <1>0, <2>3
    <3> QED BY <2>2, <3>1
  <2>5. Payloads[m] \in Nat BY <1>0, <2>3, FramingLimits
  <2>6. LastByte[m] \in Nat BY <1>6, <2>3, <2>4, <2>5, FramingLimits
  <2> QED BY <2>6
<1> QED BY <1>5, <1>6, <1>7

\* The ends of packets go up, so that what has come ends no packet after the last.
LEMMA EndsGoUp == \A i \in 0 .. Len(Payloads) : LastByte[i] <= LastByte[Len(Payloads)]
<1>. DEFINE n == Len(Payloads)
            T == {k \in 0 .. n : LastByte[n - k] > LastByte[n]}
<1>0. n \in Nat BY FramingLimits
<1>1. T = {}
  <2>1. SUFFICES ASSUME T # {} PROVE FALSE OBVIOUS
  <2>2. PICK m \in T : \A i \in T : m <= i
    <3>1. T \subseteq Nat BY <1>0
    <3>. HIDE DEF T
    <3> QED BY <2>1, <3>1, Least
  <2>3. LastByte[n] \in Nat BY <1>0, EndsAreKnown
  <2>4. m # 0
    <3>1. m = 0 => n - m = n BY <1>0
    <3> QED BY <2>2, <2>3, <3>1
  <2>5. m \in 1 .. n /\ m - 1 \in 0 .. n /\ ~(m <= m - 1) /\ n - m + 1 \in 1 .. n
        /\ n - (m - 1) = n - m + 1 /\ (n - m + 1) - 1 = n - m /\ n - m \in 0 .. n
    BY <1>0, <2>4
  <2>6. ~(LastByte[n - m + 1] > LastByte[n]) BY <2>2, <2>5
  <2>7. LastByte[n - m + 1] = LastByte[n - m] + HeaderBytes + Payloads[n - m + 1]
    BY <2>5, EndsAreKnown
  <2>8. Payloads[n - m + 1] \in Nat /\ HeaderBytes \in Nat BY <1>0, <2>5, FramingLimits
  <2>9. LastByte[n - m] \in Nat /\ LastByte[n - m + 1] \in Nat BY <2>5, EndsAreKnown
  <2> QED BY <2>2, <2>3, <2>6, <2>7, <2>8, <2>9
<1>2. ASSUME NEW i \in 0 .. n PROVE LastByte[i] <= LastByte[n]
  <2>1. n - i \in 0 .. n /\ n - (n - i) = i BY <1>0
  <2>2. ~(LastByte[i] > LastByte[n]) BY <1>1, <2>1
  <2> QED BY <1>0, <2>2, EndsAreKnown
<1> QED BY <1>2

\* Bytes that follow each other.
LEMMA BytesAre ==
  ASSUME NEW a \in Nat, NEW b \in Nat, a <= b
  PROVE  /\ Bytes(a, b) \in Seq(Nat) /\ Len(Bytes(a, b)) = b - a
         /\ \A i \in 1 .. b - a : Bytes(a, b)[i] = a + i
<1>. DEFINE n == b - a
            s == [i \in 1 .. n |-> a + i]
<1>1. n \in Nat OBVIOUS
<1>2. \A i \in 1 .. n : a + i \in Nat OBVIOUS
<1>3. s \in [1 .. n -> Nat] BY <1>2
<1>4. s \in Seq(Nat) BY <1>1, <1>3
<1>5. Len(s) = n BY <1>1, <1>3, <1>4, LenProperties
<1> QED BY <1>4, <1>5 DEF Bytes

LEMMA BytesJoin ==
  ASSUME NEW a \in Nat, NEW b \in Nat, NEW c \in Nat, a <= b, b <= c
  PROVE  Bytes(a, b) \o Bytes(b, c) = Bytes(a, c)
<1>. DEFINE s == Bytes(a, b)
            t == Bytes(b, c)
            u == Bytes(a, c)
<1>1. /\ s \in Seq(Nat) /\ Len(s) = b - a /\ (\A i \in 1 .. b - a : s[i] = a + i)
      /\ t \in Seq(Nat) /\ Len(t) = c - b /\ (\A i \in 1 .. c - b : t[i] = b + i)
      /\ u \in Seq(Nat) /\ Len(u) = c - a /\ (\A i \in 1 .. c - a : u[i] = a + i)
  <2>1. a <= c OBVIOUS
  <2>2. s \in Seq(Nat) /\ Len(s) = b - a /\ (\A i \in 1 .. b - a : s[i] = a + i) BY BytesAre
  <2>3. t \in Seq(Nat) /\ Len(t) = c - b /\ (\A i \in 1 .. c - b : t[i] = b + i) BY BytesAre
  <2>4. u \in Seq(Nat) /\ Len(u) = c - a /\ (\A i \in 1 .. c - a : u[i] = a + i) BY <2>1, BytesAre
  <2>. HIDE DEF s, t, u
  <2> QED BY <2>2, <2>3, <2>4
<1>. HIDE DEF s, t, u
<1>2. /\ s \o t \in Seq(Nat) /\ Len(s \o t) = Len(u)
      /\ \A i \in 1 .. Len(s) + Len(t) : (s \o t)[i] = IF i <= Len(s) THEN s[i] ELSE t[i - Len(s)]
  <2>1. /\ s \o t \in Seq(Nat) /\ Len(s \o t) = Len(s) + Len(t)
        /\ \A i \in 1 .. Len(s) + Len(t) : (s \o t)[i] = IF i <= Len(s) THEN s[i] ELSE t[i - Len(s)]
    BY <1>1, ConcatProperties
  <2>2. Len(s) + Len(t) = Len(u) BY <1>1
  <2> QED BY <2>1, <2>2
<1>3. ASSUME NEW i \in 1 .. Len(u) PROVE (s \o t)[i] = u[i]
  <2>1. i \in 1 .. c - a /\ i \in 1 .. Len(s) + Len(t) BY <1>1
  <2>2. CASE i <= b - a
    <3>1. i \in 1 .. b - a BY <2>1, <2>2
    <3> QED BY <1>1, <1>2, <2>1, <2>2, <3>1
  <2>3. CASE ~(i <= b - a)
    <3>1. i - (b - a) \in 1 .. c - b /\ b + (i - (b - a)) = a + i BY <2>1, <2>3
    <3> QED BY <1>1, <1>2, <2>1, <2>3, <3>1, Z3
  <2> QED BY <2>2, <2>3
<1>4. s \o t = u BY <1>1, <1>2, <1>3, SeqEqual
<1> QED BY <1>4 DEF s, t, u

LEMMA BytesCut ==
  ASSUME NEW a \in Nat, NEW b \in Nat, NEW m \in Nat, NEW n \in Nat, m <= n, n <= b - a
  PROVE  SubSeq(Bytes(a, b), m + 1, n) = Bytes(a + m, a + n)
<1>. DEFINE s == Bytes(a, b)
            u == Bytes(a + m, a + n)
            t == SubSeq(s, m + 1, n)
<1>0. a <= b /\ a + m \in Nat /\ a + n \in Nat /\ a + m <= a + n /\ (a + n) - (a + m) = n - m OBVIOUS
<1>1. /\ s \in Seq(Nat) /\ Len(s) = b - a /\ (\A i \in 1 .. b - a : s[i] = a + i)
      /\ u \in Seq(Nat) /\ Len(u) = n - m /\ (\A i \in 1 .. n - m : u[i] = a + m + i)
  BY <1>0, BytesAre, ZenonT(30)
<1>. HIDE DEF s, u
<1>2. \A i \in m + 1 .. n : s[i] \in Nat
  <2>1. \A i \in m + 1 .. n : i \in 1 .. b - a OBVIOUS
  <2> QED BY <1>1, <2>1, SMTT(30)
<1>3. /\ t \in Seq(Nat) /\ Len(t) = (IF m + 1 <= n THEN n - (m + 1) + 1 ELSE 0)
      /\ \A i \in 1 .. n - (m + 1) + 1 : t[i] = s[m + 1 + i - 1]
  BY <1>2, SubSeqProperties
<1>4. Len(t) = Len(u) BY <1>1, <1>3
<1>5. ASSUME NEW i \in 1 .. Len(t) PROVE t[i] = u[i]
  <2>1. i \in 1 .. n - m /\ i \in 1 .. n - (m + 1) + 1 /\ m + 1 + i - 1 = m + i
        /\ m + i \in 1 .. b - a /\ a + (m + i) = a + m + i
    BY <1>1, <1>4
  <2> QED BY <1>1, <1>3, <2>1
<1>. HIDE DEF t
<1>6. t = u BY <1>1, <1>3, <1>4, <1>5, SeqEqual
<1> QED BY <1>6 DEF s, t, u

Waiter == [n : Nat, kind : {"header", "payload"}]
Answer ==
  [kind : {"none", "reader-overflow", "socket-error", "clean-eof", "truncated-header",
           "truncated-payload"}] \cup [kind : {"bytes"}, bytes : Seq(Nat)]
ReaderRecord ==
  [buffer : Seq(Nat), err : {"none", "reader-overflow", "socket-error"}, ended : BOOLEAN,
   answer : Answer, waiters : Seq(Waiter)]
SocketRecord == [sent : Nat, open : BOOLEAN]
FramesRecord ==
  [step : {"preamble", "idle", "header", "payload", "over"}, next : 1 .. Len(Payloads) + 1,
   packet : Seq(Nat),
   result : {"none", "null", "reader-overflow", "socket-error", "clean-eof", "truncated-header",
             "truncated-payload"}]

\* A read of n bytes from byte a on waits, was answered with them, or failed; or
\* no read was made.
Waits(r, s, n, kind, a) ==
  /\ r.waiters = <<[n |-> n, kind |-> kind]>> /\ r.answer = NoAnswer
  /\ s.open /\ r.buffer = Bytes(a, s.sent) /\ a <= s.sent /\ s.sent - a < n
GotBytes(r, s, n, a) ==
  /\ r.waiters = <<>> /\ r.answer = [kind |-> "bytes", bytes |-> Bytes(a, a + n)]
  /\ r.err = "none" /\ r.buffer = Bytes(a + n, s.sent) /\ a + n <= s.sent
WasCut(r, s, a) ==
  /\ r.waiters = <<>> /\ r.answer.kind \notin {"none", "bytes"} /\ ~s.open
  /\ r.answer.kind = "clean-eof" => s.sent = a /\ r.err = "none"
Rests(r, s, a) ==
  /\ r.waiters = <<>> /\ r.answer = NoAnswer
  /\ r.err = "none" => r.buffer = Bytes(a, s.sent) /\ a <= s.sent

FramingBase(r, s) ==
  /\ r \in ReaderRecord /\ s \in SocketRecord
  /\ s.open <=> r.err = "none" /\ ~r.ended
  /\ s.sent <= LastByte[Len(Payloads)]

\* What the caller reads next, and from where on.
Wanted ==
  CASE frames.step = "preamble" -> PreambleBytes
    [] frames.step = "payload" -> Payloads[frames.next]
    [] OTHER -> HeaderBytes
WantedKind == IF frames.step = "payload" THEN "payload" ELSE "header"
Start ==
  CASE frames.step = "preamble" -> 0
    [] frames.step = "payload" -> LastByte[frames.next - 1] + HeaderBytes
    [] OTHER -> LastByte[frames.next - 1]

FramingInv ==
  /\ FramingBase(reader, socket)
  /\ frames \in FramesRecord
  /\ frames.step = "payload" => frames.next <= Len(Payloads) /\ Payloads[frames.next] # 0
  /\ frames.step \in {"preamble", "header", "payload"} =>
       \/ Waits(reader, socket, Wanted, WantedKind, Start)
       \/ GotBytes(reader, socket, Wanted, Start)
       \/ WasCut(reader, socket, Start)
  /\ frames.step = "preamble" => frames.next = 1
  /\ frames.step = "idle" => Rests(reader, socket, Start)
  /\ frames.step = "over" => reader.waiters = <<>> /\ reader.answer = NoAnswer /\ ~socket.open
  /\ frames.result # "none" => frames.step = "over"
  /\ frames.result = "null" => socket.sent = LastByte[frames.next - 1] /\ reader.err = "none"
  /\ PacketsAreWhole

LEMMA NoBytes == ASSUME NEW a \in Nat PROVE Bytes(a, a) = <<>>
<1>1. Bytes(a, a) \in Seq(Nat) /\ Len(Bytes(a, a)) = 0 BY BytesAre
<1> QED BY <1>1, EmptySeq

LEMMA WantedIs ==
  ASSUME FramingInv
  PROVE  /\ frames.step \in {"preamble", "header", "payload"} => Wanted \in Nat \ {0}
         /\ WantedKind \in {"header", "payload"} /\ Start \in Nat
         /\ frames.next - 1 \in 0 .. Len(Payloads) /\ LastByte[frames.next - 1] \in Nat
<1>1. frames.next \in 1 .. Len(Payloads) + 1 /\ Len(Payloads) \in Nat
  BY FramingLimits DEF FramingInv, FramesRecord
<1>2. frames.next - 1 \in 0 .. Len(Payloads) BY <1>1
<1>3. LastByte[frames.next - 1] \in Nat BY <1>2, EndsAreKnown
<1>4. frames.step = "payload" => Payloads[frames.next] \in Nat \ {0}
  <2>1. ASSUME frames.step = "payload" PROVE Payloads[frames.next] \in Nat \ {0}
    <3>1. frames.next \in 1 .. Len(Payloads) /\ Payloads[frames.next] # 0
      BY <1>1, <2>1 DEF FramingInv
    <3> QED BY <3>1, FramingLimits
  <2> QED BY <2>1
<1> QED BY <1>2, <1>3, <1>4, FramingLimits, Z3 DEF Wanted, WantedKind, Start

LEMMA FramingStarts == FramingInit => FramingInv
<1>1. ASSUME FramingInit PROVE FramingInv
  <2>. DEFINE w == [n |-> PreambleBytes, kind |-> "header"]
  <2>1. PreambleBytes \in Nat \ {0} /\ Len(Payloads) \in Nat BY FramingLimits
  <2>2. w \in Waiter BY <2>1 DEF Waiter
  <2>3. /\ reader = [buffer |-> <<>>, err |-> "none", ended |-> FALSE, answer |-> NoAnswer,
                     waiters |-> <<w>>]
        /\ socket = [sent |-> 0, open |-> TRUE]
        /\ frames = [step |-> "preamble", next |-> 1, packet |-> <<>>, result |-> "none"]
    BY <1>1 DEF FramingInit
  <2>. HIDE DEF w
  <2>4. <<w>> \in Seq(Waiter) BY <2>2
  <2>5. NoAnswer \in Answer BY DEF NoAnswer, Answer
  <2>6. reader \in ReaderRecord BY <2>3, <2>4, <2>5 DEF ReaderRecord
  <2>7. socket \in SocketRecord BY <2>3 DEF SocketRecord
  <2>8. 0 <= LastByte[Len(Payloads)] BY <2>1, EndsAreKnown
  <2>9. frames \in FramesRecord
    <3>1. 1 \in 1 .. Len(Payloads) + 1 BY <2>1
    <3>2. <<>> \in Seq(Nat) BY EmptySeq
    <3> QED BY <2>3, <3>1, <3>2 DEF FramesRecord
  <2>10. Bytes(0, 0) = <<>> BY NoBytes
  <2>11. Wanted = PreambleBytes /\ WantedKind = "header" /\ Start = 0
    BY <2>3 DEF Wanted, WantedKind, Start
  <2>12. Waits(reader, socket, Wanted, WantedKind, Start)
    BY <2>1, <2>3, <2>10, <2>11 DEF Waits, w
  <2> QED BY <2>3, <2>6, <2>7, <2>8, <2>9, <2>12 DEF FramingInv, FramingBase, PacketsAreWhole
<1> QED BY <1>1

LEMMA BytesHead ==
  ASSUME NEW a \in Nat, NEW b \in Nat, NEW n \in Nat, n <= b - a
  PROVE  SubSeq(Bytes(a, b), 1, n) = Bytes(a, a + n)
<1>1. ASSUME NEW m \in Nat, m = 0 PROVE SubSeq(Bytes(a, b), m + 1, n) = Bytes(a + m, a + n)
  <2>1. m <= n BY <1>1
  <2> QED BY <2>1, BytesCut, ZenonT(30)
<1>2. \A m \in Nat : m = 0 => m + 1 = 1 /\ a + m = a OBVIOUS
<1>3. \E m \in Nat : m = 0 OBVIOUS
<1> QED BY <1>1, <1>2, <1>3

\* The steps of the reader.
LEMMA FlushIs ==
  ASSUME NEW r \in ReaderRecord, NEW s \in SocketRecord, NEW a \in Nat, NEW n \in Nat \ {0},
         NEW kind \in {"header", "payload"}, a <= s.sent,
         r.waiters = <<[n |-> n, kind |-> kind]>>, r.err = "none", r.buffer = Bytes(a, s.sent)
  PROVE  /\ Flush(r) \in ReaderRecord /\ Flush(r).err = r.err /\ Flush(r).ended = r.ended
         /\ \/ Flush(r) = r /\ s.sent - a < n
            \/ GotBytes(Flush(r), s, n, a)
<1>. DEFINE len == s.sent - a
            w == [n |-> n, kind |-> kind]
            rest == Bytes(a + n, s.sent)
            bytes == Bytes(a, a + n)
            answer == [kind |-> "bytes", bytes |-> bytes]
<1>1. s.sent \in Nat /\ len \in Nat BY DEF SocketRecord
<1>2. Len(r.buffer) = len BY <1>1, BytesAre
<1>3. r.waiters # <<>> /\ Head(r.waiters) = w /\ Tail(r.waiters) = <<>> OBVIOUS
<1>4. CASE len < n BY <1>1, <1>2, <1>3, <1>4 DEF Flush
<1>5. CASE ~(len < n)
  <2>1. n <= len BY <1>1, <1>5
  <2>2. SubSeq(r.buffer, n + 1, len) = rest
    <3>1. a + len = s.sent /\ n \in Nat /\ len <= s.sent - a BY <1>1
    <3>. HIDE DEF len
    <3>2. SubSeq(Bytes(a, s.sent), n + 1, len) = Bytes(a + n, a + len)
      BY <1>1, <2>1, <3>1, BytesCut, ZenonT(60)
    <3> QED BY <3>1, <3>2
  <2>3. SubSeq(r.buffer, 1, n) = bytes
    <3>1. n \in Nat /\ n <= s.sent - a BY <2>1
    <3>2. SubSeq(Bytes(a, s.sent), 1, n) = Bytes(a, a + n) BY <1>1, <3>1, BytesHead
    <3> QED BY <3>2
  <2>4. Flush(r) = [r EXCEPT !.waiters = <<>>, !.buffer = rest, !.answer = answer]
    <3>1. Head(r.waiters).n = n /\ ~(Len(r.buffer) < n) BY <1>2, <1>3, <1>5
    <3>2. Flush(r) = [r EXCEPT !.waiters = Tail(r.waiters), !.buffer = SubSeq(r.buffer, n + 1, Len(r.buffer)),
                               !.answer = [kind |-> "bytes", bytes |-> SubSeq(r.buffer, 1, n)]]
      BY <1>3, <3>1 DEF Flush, ReaderRecord
    <3> QED BY <1>2, <1>3, <2>2, <2>3, <3>2
  <2>5. rest \in Seq(Nat) /\ bytes \in Seq(Nat)
    <3>1. a + n \in Nat /\ a + n <= s.sent /\ a <= a + n BY <1>1, <2>1
    <3> QED BY <1>1, <3>1, BytesAre
  <2>6. answer \in Answer BY <2>5 DEF Answer
  <2>7. <<>> \in Seq(Waiter) /\ a + n <= s.sent BY <1>1, <2>1
  <2>. DEFINE f == Flush(r)
  <2>8. f = [r EXCEPT !.waiters = <<>>, !.buffer = rest, !.answer = answer] BY <2>4
  <2>. HIDE DEF f, rest, answer
  <2>9. /\ f \in ReaderRecord /\ f.err = r.err /\ f.ended = r.ended
        /\ f.waiters = <<>> /\ f.buffer = rest /\ f.answer = answer
    BY <2>5, <2>6, <2>7, <2>8 DEF ReaderRecord
  <2> QED BY <2>7, <2>9 DEF GotBytes, f, rest, answer
<1> QED BY <1>4, <1>5

\* A read that the stream, or its failure, answers at once.
LEMMA RefusedIs ==
  ASSUME NEW r \in ReaderRecord, NEW code \in {"reader-overflow", "socket-error", "clean-eof",
                                               "truncated-header", "truncated-payload"}
  PROVE  /\ Refused(r, code) \in ReaderRecord /\ Refused(r, code).waiters = <<>>
         /\ Refused(r, code).answer.kind = code /\ Refused(r, code).err = r.err
         /\ Refused(r, code).ended = r.ended
<1>. DEFINE answer == [kind |-> code]
            f == Refused(r, code)
<1>1. answer \in Answer /\ answer.kind = code /\ <<>> \in Seq(Waiter) BY DEF Answer
<1>2. f = [r EXCEPT !.waiters = <<>>, !.answer = answer] BY DEF Refused
<1>. HIDE DEF answer, f
<1>3. /\ f \in ReaderRecord /\ f.waiters = <<>> /\ f.answer = answer /\ f.err = r.err
      /\ f.ended = r.ended
  BY <1>1, <1>2 DEF ReaderRecord
<1> QED BY <1>1, <1>3 DEF f

LEMMA CutIs ==
  ASSUME NEW r \in ReaderRecord, NEW s \in SocketRecord, NEW a \in Nat, a <= s.sent,
         NEW kind \in {"header", "payload"}, r.buffer = Bytes(a, s.sent)
  PROVE  /\ Cut(r, kind) \in {"clean-eof", "truncated-header", "truncated-payload"}
         /\ Cut(r, kind) = "clean-eof" => s.sent = a
<1>1. s.sent \in Nat BY DEF SocketRecord
<1>2. Len(r.buffer) = s.sent - a BY <1>1, BytesAre
<1>3. r.buffer = <<>> => s.sent = a BY <1>1, <1>2
<1> QED BY <1>3 DEF Cut

LEMMA ReadIs ==
  ASSUME NEW r, NEW s, FramingBase(r, s), NEW a \in Nat, Rests(r, s, a), NEW n \in Nat \ {0},
         NEW kind \in {"header", "payload"}
  PROVE  LET q == Read(r, n, kind)
         IN  /\ FramingBase(q, s)
             /\ Waits(q, s, n, kind, a) \/ GotBytes(q, s, n, a) \/ WasCut(q, s, a)
<1>. DEFINE q == Read(r, n, kind)
            w == [n |-> n, kind |-> kind]
<1>1. r \in ReaderRecord /\ s \in SocketRecord /\ (s.open <=> r.err = "none" /\ ~r.ended)
      /\ s.sent <= LastByte[Len(Payloads)] /\ r.waiters = <<>> /\ r.answer = NoAnswer
  BY DEF FramingBase, Rests
<1>2. CASE r.err # "none"
  <2>1. r.err \in {"reader-overflow", "socket-error"} BY <1>1, <1>2 DEF ReaderRecord
  <2>2. q = Refused(r, r.err) BY <1>2 DEF Read
  <2>3. /\ q \in ReaderRecord /\ q.waiters = <<>> /\ q.answer.kind = r.err /\ q.err = r.err
        /\ q.ended = r.ended
    BY <1>1, <2>1, <2>2, RefusedIs
  <2>. HIDE DEF q
  <2>4. FramingBase(q, s) BY <1>1, <2>3 DEF FramingBase
  <2>5. WasCut(q, s, a) BY <1>1, <2>1, <2>3 DEF WasCut
  <2> QED BY <2>4, <2>5 DEF q
<1>3. CASE r.err = "none"
  <2>1. r.buffer = Bytes(a, s.sent) /\ a <= s.sent BY <1>3 DEF Rests
  <2>2. CASE r.ended /\ Len(r.buffer) < n
    <3>. DEFINE code == Cut(r, kind)
    <3>1. /\ code \in {"clean-eof", "truncated-header", "truncated-payload"}
          /\ code = "clean-eof" => s.sent = a
      BY <1>1, <2>1, CutIs
    <3>2. q = Refused(r, code) BY <1>3, <2>2 DEF Read
    <3>. HIDE DEF code
    <3>3. /\ q \in ReaderRecord /\ q.waiters = <<>> /\ q.answer.kind = code /\ q.err = r.err
          /\ q.ended = r.ended
      BY <1>1, <3>1, <3>2, RefusedIs
    <3>. HIDE DEF q
    <3>4. FramingBase(q, s) BY <1>1, <3>3 DEF FramingBase
    <3>5. WasCut(q, s, a) BY <1>1, <1>3, <2>2, <3>1, <3>3 DEF WasCut
    <3> QED BY <3>4, <3>5 DEF q
  <2>3. CASE ~(r.ended /\ Len(r.buffer) < n)
    <3>. DEFINE one == <<w>>
                p == [r EXCEPT !.waiters = one]
    <3>1. w \in Waiter BY DEF Waiter
    <3>2. one \in Seq(Waiter) BY <3>1
    <3>3. Append(r.waiters, w) = one BY <1>1
    <3>4. q = Flush(p) BY <1>1, <1>3, <2>3, <3>3 DEF Read, ReaderRecord
    <3>. HIDE DEF one
    <3>5. /\ p \in ReaderRecord /\ p.waiters = one /\ p.err = r.err /\ p.ended = r.ended
          /\ p.buffer = r.buffer /\ p.answer = r.answer
      BY <1>1, <3>2 DEF ReaderRecord
    <3>. HIDE DEF p, q
    <3>6. p.waiters = <<[n |-> n, kind |-> kind]>> BY <3>5 DEF one
    <3>7. /\ Flush(p) \in ReaderRecord /\ Flush(p).err = p.err /\ Flush(p).ended = p.ended
          /\ \/ Flush(p) = p /\ s.sent - a < n
             \/ GotBytes(Flush(p), s, n, a)
      BY <1>1, <1>3, <2>1, <3>5, <3>6, FlushIs
    <3>8. FramingBase(q, s) BY <1>1, <3>4, <3>5, <3>7 DEF FramingBase
    <3>9. CASE GotBytes(Flush(p), s, n, a) BY <3>4, <3>8, <3>9 DEF q
    <3>10. CASE Flush(p) = p /\ s.sent - a < n
      <4>1. s.sent \in Nat /\ Len(r.buffer) = s.sent - a
        <5>1. s.sent \in Nat BY <1>1 DEF SocketRecord
        <5> QED BY <2>1, <5>1, BytesAre
      <4>2. ~r.ended BY <2>3, <3>10, <4>1
      <4>3. Waits(q, s, n, kind, a)
        BY <1>1, <1>3, <2>1, <3>4, <3>5, <3>6, <3>10, <4>2 DEF Waits
      <4> QED BY <3>8, <4>3 DEF q
    <3> QED BY <3>7, <3>9, <3>10
  <2> QED BY <2>2, <2>3
<1> QED BY <1>1, <1>2, <1>3

LEMMA FailIs ==
  ASSUME NEW r \in ReaderRecord, NEW code \in {"reader-overflow", "socket-error"}
  PROVE  /\ Fail(r, code) \in ReaderRecord /\ Fail(r, code).err = code
         /\ Fail(r, code).waiters = <<>>
         /\ r.waiters = <<>> => Fail(r, code).answer = r.answer
         /\ r.waiters # <<>> => Fail(r, code).answer.kind = code
<1>. DEFINE failed == [r EXCEPT !.err = code, !.buffer = <<>>]
<1>1. <<>> \in Seq(Nat) BY EmptySeq
<1>2. /\ failed \in ReaderRecord /\ failed.err = code /\ failed.waiters = r.waiters
      /\ failed.answer = r.answer
  BY <1>1 DEF ReaderRecord
<1>3. Fail(r, code) = IF r.waiters = <<>> THEN failed ELSE Refused(failed, code) BY DEF Fail
<1>. HIDE DEF failed
<1>4. CASE r.waiters = <<>> BY <1>2, <1>3, <1>4
<1>5. CASE r.waiters # <<>>
  <2>1. /\ Refused(failed, code) \in ReaderRecord /\ Refused(failed, code).waiters = <<>>
        /\ Refused(failed, code).answer.kind = code /\ Refused(failed, code).err = failed.err
    BY <1>2, RefusedIs
  <2> QED BY <1>2, <1>3, <1>5, <2>1
<1> QED BY <1>4, <1>5

\* What the socket may do while a read waits, or none was made.
LEMMA SocketWhileWaiting ==
  ASSUME FramingBase(reader, socket), NEW n \in Nat \ {0}, NEW kind \in {"header", "payload"},
         NEW a \in Nat, Waits(reader, socket, n, kind, a),
         SocketData \/ SocketErrors \/ SocketEnds
  PROVE  /\ FramingBase(reader', socket')
         /\ Waits(reader', socket', n, kind, a) \/ GotBytes(reader', socket', n, a)
            \/ WasCut(reader', socket', a)
<1>1. /\ reader \in ReaderRecord /\ socket \in SocketRecord /\ reader.err = "none" /\ ~reader.ended
      /\ socket.open /\ socket.sent \in Nat /\ socket.sent <= LastByte[Len(Payloads)]
      /\ reader.waiters = <<[n |-> n, kind |-> kind]>> /\ reader.waiters # <<>>
      /\ reader.buffer = Bytes(a, socket.sent) /\ a <= socket.sent
  BY DEF FramingBase, Waits, SocketRecord
<1>2. ASSUME NEW code \in {"reader-overflow", "socket-error"}, reader' = Fail(reader, code),
             socket' = [socket EXCEPT !.open = FALSE]
      PROVE  /\ FramingBase(reader', socket')
             /\ WasCut(reader', socket', a)
  <2>1. /\ reader' \in ReaderRecord /\ reader'.err = code /\ reader'.waiters = <<>>
        /\ reader'.answer.kind = code
    <3>1. /\ Fail(reader, code) \in ReaderRecord /\ Fail(reader, code).err = code
          /\ Fail(reader, code).waiters = <<>>
          /\ reader.waiters # <<>> => Fail(reader, code).answer.kind = code
      <4>1. reader \in ReaderRecord /\ code \in {"reader-overflow", "socket-error"} BY <1>1
      <4> QED BY ONLY <4>1, FailIs
    <3> QED BY <1>1, <1>2, <3>1
  <2>2. socket' \in SocketRecord /\ ~socket'.open /\ socket'.sent = socket.sent
    BY <1>1, <1>2 DEF SocketRecord
  <2> QED BY <1>1, <2>1, <2>2 DEF FramingBase, WasCut
<1>3. CASE SocketEnds
  <2>. DEFINE over == [reader EXCEPT !.ended = TRUE]
              code == Cut(over, kind)
  <2>1. /\ over \in ReaderRecord /\ over.err = reader.err /\ over.ended
        /\ over.buffer = reader.buffer
    BY <1>1 DEF ReaderRecord
  <2>2. reader' = Refused(over, Cut(over, kind))
    <3>1. Head(reader.waiters) = [n |-> n, kind |-> kind] BY <1>1
    <3>2. Head(reader.waiters).kind = kind BY <3>1
    <3>3. reader' = EndStream(reader) BY <1>3 DEF SocketEnds
    <3>4. EndStream(reader) = Refused([reader EXCEPT !.ended = TRUE],
                                      Cut(reader, Head(reader.waiters).kind))
      BY <1>1 DEF EndStream
    <3>5. Cut(reader, kind) = Cut(over, kind) BY <2>1 DEF Cut
    <3> QED BY <3>2, <3>3, <3>4, <3>5
  <2>3. socket' = [socket EXCEPT !.open = FALSE] BY <1>3 DEF SocketEnds
  <2>. HIDE DEF over
  <2>4. /\ code \in {"clean-eof", "truncated-header", "truncated-payload"}
        /\ code = "clean-eof" => socket.sent = a
    BY <1>1, <2>1, CutIs
  <2>. HIDE DEF code
  <2>5. /\ Refused(over, code) \in ReaderRecord /\ Refused(over, code).waiters = <<>>
        /\ Refused(over, code).answer.kind = code /\ Refused(over, code).err = over.err
        /\ Refused(over, code).ended = over.ended
    <3>1. code \in {"reader-overflow", "socket-error", "clean-eof", "truncated-header",
                    "truncated-payload"}
      BY <2>4
    <3>. HIDE DEF over
    <3> QED BY <2>1, <3>1, RefusedIs
  <2>6. reader' = Refused(over, code) BY <2>2 DEF code
  <2>7. socket' \in SocketRecord /\ ~socket'.open /\ socket'.sent = socket.sent
    BY <1>1, <2>3 DEF SocketRecord
  <2>8. FramingBase(reader', socket') BY <1>1, <2>1, <2>5, <2>6, <2>7 DEF FramingBase
  <2>9. WasCut(reader', socket', a) BY <1>1, <2>1, <2>4, <2>5, <2>6, <2>7 DEF WasCut
  <2> QED BY <2>8, <2>9
<1>4. CASE SocketErrors BY <1>2, <1>4 DEF SocketErrors
<1>5. CASE SocketData
  <2>1. PICK m \in 1 .. ChunkBytes :
          /\ socket.sent + m <= LastByte[Len(Payloads)]
          /\ IF Len(reader.buffer) + m > BufferLimit
             THEN /\ reader' = Fail(reader, "reader-overflow")
                  /\ socket' = [socket EXCEPT !.open = FALSE]
             ELSE /\ reader' = Flush([reader EXCEPT !.buffer =
                                        @ \o Bytes(socket.sent, socket.sent + m)])
                  /\ socket' = [socket EXCEPT !.sent = @ + m]
    BY <1>5 DEF SocketData
  <2>2. CASE Len(reader.buffer) + m > BufferLimit BY <1>2, <2>1, <2>2
  <2>3. CASE ~(Len(reader.buffer) + m > BufferLimit)
    <3>. DEFINE sent == socket.sent + m
                whole == Bytes(a, sent)
                r == [reader EXCEPT !.buffer = whole]
    <3>1. m \in Nat /\ sent \in Nat /\ a <= sent /\ socket.sent <= sent BY <1>1, FramingLimits
    <3>2. whole \in Seq(Nat) BY <3>1, BytesAre
    <3>3. reader.buffer \o Bytes(socket.sent, sent) = whole
      <4>. HIDE DEF sent
      <4>1. Bytes(a, socket.sent) \o Bytes(socket.sent, sent) = Bytes(a, sent)
        BY <1>1, <3>1, BytesJoin, ZenonT(30)
      <4> QED BY <1>1, <4>1
    <3>4. reader' = Flush(r) BY <2>1, <2>3, <3>3
    <3>5. socket' = [socket EXCEPT !.sent = sent] BY <2>1, <2>3
    <3>. HIDE DEF sent, whole
    <3>6. socket' \in SocketRecord /\ socket'.open /\ socket'.sent = sent
      BY <1>1, <3>1, <3>5 DEF SocketRecord
    <3>7. /\ r \in ReaderRecord /\ r.buffer = whole /\ r.err = reader.err /\ r.ended = reader.ended
          /\ r.waiters = reader.waiters /\ r.answer = reader.answer
      BY <1>1, <3>2 DEF ReaderRecord
    <3>. HIDE DEF r
    <3>8. r.buffer = Bytes(a, socket'.sent) /\ a <= socket'.sent BY <3>1, <3>6, <3>7 DEF whole
    <3>9. r.waiters = <<[n |-> n, kind |-> kind]>> /\ r.err = "none" BY <1>1, <3>7
    <3>10. /\ Flush(r) \in ReaderRecord /\ Flush(r).err = r.err /\ Flush(r).ended = r.ended
           /\ \/ Flush(r) = r /\ socket'.sent - a < n
              \/ GotBytes(Flush(r), socket', n, a)
      BY <3>6, <3>7, <3>8, <3>9, FlushIs
    <3>11. FramingBase(reader', socket')
      BY <1>1, <2>1, <3>4, <3>6, <3>7, <3>10 DEF FramingBase, sent
    <3>12. CASE Flush(r) = r /\ socket'.sent - a < n
      <4>1. reader.answer = NoAnswer BY DEF Waits
      <4>2. Waits(reader', socket', n, kind, a)
        BY <3>4, <3>6, <3>7, <3>8, <3>9, <3>12, <4>1 DEF Waits
      <4> QED BY <3>11, <4>2
    <3> QED BY <3>4, <3>10, <3>11, <3>12
  <2> QED BY <2>2, <2>3
<1> QED BY <1>3, <1>4, <1>5

LEMMA SocketWhileResting ==
  ASSUME FramingBase(reader, socket), NEW a \in Nat, Rests(reader, socket, a),
         SocketData \/ SocketErrors \/ SocketEnds
  PROVE  FramingBase(reader', socket') /\ Rests(reader', socket', a)
<1>1. /\ reader \in ReaderRecord /\ socket \in SocketRecord /\ reader.err = "none" /\ ~reader.ended
      /\ socket.open /\ socket.sent \in Nat /\ socket.sent <= LastByte[Len(Payloads)]
      /\ reader.waiters = <<>> /\ reader.answer = NoAnswer
      /\ reader.buffer = Bytes(a, socket.sent) /\ a <= socket.sent
  BY DEF FramingBase, Rests, SocketRecord, SocketData, SocketErrors, SocketEnds
<1>2. ASSUME NEW code \in {"reader-overflow", "socket-error"}, reader' = Fail(reader, code),
             socket' = [socket EXCEPT !.open = FALSE]
      PROVE  FramingBase(reader', socket') /\ Rests(reader', socket', a)
  <2>1. /\ reader' \in ReaderRecord /\ reader'.err = code /\ reader'.waiters = <<>>
        /\ reader'.answer = NoAnswer
    BY <1>1, <1>2, FailIs
  <2>2. socket' \in SocketRecord /\ ~socket'.open /\ socket'.sent = socket.sent
    BY <1>1, <1>2 DEF SocketRecord
  <2> QED BY <1>1, <2>1, <2>2 DEF FramingBase, Rests
<1>3. CASE SocketEnds
  <2>1. reader' = [reader EXCEPT !.ended = TRUE] /\ socket' = [socket EXCEPT !.open = FALSE]
    BY <1>1, <1>3 DEF SocketEnds, EndStream
  <2>2. /\ reader' \in ReaderRecord /\ reader'.err = reader.err /\ reader'.ended
        /\ reader'.buffer = reader.buffer /\ reader'.waiters = <<>> /\ reader'.answer = NoAnswer
    BY <1>1, <2>1 DEF ReaderRecord
  <2>3. socket' \in SocketRecord /\ ~socket'.open /\ socket'.sent = socket.sent
    BY <1>1, <2>1 DEF SocketRecord
  <2> QED BY <1>1, <2>2, <2>3 DEF FramingBase, Rests
<1>4. CASE SocketErrors BY <1>2, <1>4 DEF SocketErrors
<1>5. CASE SocketData
  <2>1. PICK m \in 1 .. ChunkBytes :
          /\ socket.sent + m <= LastByte[Len(Payloads)]
          /\ IF Len(reader.buffer) + m > BufferLimit
             THEN /\ reader' = Fail(reader, "reader-overflow")
                  /\ socket' = [socket EXCEPT !.open = FALSE]
             ELSE /\ reader' = Flush([reader EXCEPT !.buffer =
                                        @ \o Bytes(socket.sent, socket.sent + m)])
                  /\ socket' = [socket EXCEPT !.sent = @ + m]
    BY <1>5 DEF SocketData
  <2>2. CASE Len(reader.buffer) + m > BufferLimit BY <1>2, <2>1, <2>2
  <2>3. CASE ~(Len(reader.buffer) + m > BufferLimit)
    <3>. DEFINE sent == socket.sent + m
                whole == Bytes(a, sent)
                r == [reader EXCEPT !.buffer = whole]
    <3>1. m \in Nat /\ sent \in Nat /\ a <= sent /\ socket.sent <= sent BY <1>1, FramingLimits
    <3>2. whole \in Seq(Nat) BY <3>1, BytesAre
    <3>3. reader.buffer \o Bytes(socket.sent, sent) = whole
      <4>. HIDE DEF sent
      <4>1. Bytes(a, socket.sent) \o Bytes(socket.sent, sent) = Bytes(a, sent)
        BY <1>1, <3>1, BytesJoin
      <4> QED BY <1>1, <4>1
    <3>4. reader' = Flush(r) BY <2>1, <2>3, <3>3
    <3>5. socket' = [socket EXCEPT !.sent = sent] BY <2>1, <2>3
    <3>. HIDE DEF sent, whole
    <3>6. socket' \in SocketRecord /\ socket'.open /\ socket'.sent = sent
      BY <1>1, <3>1, <3>5 DEF SocketRecord
    <3>7. /\ r \in ReaderRecord /\ r.buffer = whole /\ r.err = reader.err /\ r.ended = reader.ended
          /\ r.waiters = <<>> /\ r.answer = reader.answer
      BY <1>1, <3>2 DEF ReaderRecord
    <3>. HIDE DEF r
    <3>8. reader' = r BY <3>4, <3>7 DEF Flush
    <3>9. FramingBase(reader', socket') BY <1>1, <2>1, <3>6, <3>7, <3>8 DEF FramingBase, sent
    <3> QED BY <1>1, <3>1, <3>6, <3>7, <3>8, <3>9 DEF Rests, whole
  <2> QED BY <2>2, <2>3
<1> QED BY <1>3, <1>4, <1>5

\* A packet that was read is the last one there is to check.
LEMMA SocketKeepsFraming ==
  ASSUME FramingInv, SocketData \/ SocketErrors \/ SocketEnds
  PROVE  FramingInv'
<1>1. /\ FramingBase(reader, socket) /\ frames \in FramesRecord /\ PacketsAreWhole
      /\ UNCHANGED frames
  BY DEF FramingInv, SocketData, SocketErrors, SocketEnds
<1>2. socket.open /\ reader.answer = NoAnswer
  BY DEF SocketData, SocketErrors, SocketEnds, Idle
<1>3. frames.step \in {"preamble", "idle", "header", "payload"} /\ frames.result = "none"
  BY <1>1, <1>2 DEF FramingInv, FramesRecord
<1>4. Start' = Start /\ Wanted' = Wanted /\ WantedKind' = WantedKind /\ PacketsAreWhole'
  BY <1>1 DEF Start, Wanted, WantedKind, PacketsAreWhole
<1>. DEFINE n == Wanted
            kind == WantedKind
            a == Start
<1>5. CASE frames.step = "idle"
  <2>1. a \in Nat /\ Rests(reader, socket, a) BY <1>5, WantedIs DEF FramingInv
  <2>. HIDE DEF a
  <2>2. FramingBase(reader', socket') /\ Rests(reader', socket', a) BY <1>1, <2>1, SocketWhileResting
  <2>3. Rests(reader', socket', Start') BY <1>4, <2>2 DEF a
  <2> QED BY <1>1, <1>3, <1>4, <1>5, <2>2, <2>3 DEF FramingInv
<1>6. CASE frames.step \in {"preamble", "header", "payload"}
  <2>1. a \in Nat /\ n \in Nat \ {0} /\ kind \in {"header", "payload"} BY <1>6, WantedIs
  <2>2. Waits(reader, socket, n, kind, a)
    BY <1>2, <1>6 DEF FramingInv, GotBytes, WasCut, NoAnswer
  <2>. HIDE DEF a, n, kind
  <2>3. /\ FramingBase(reader', socket')
        /\ Waits(reader', socket', n, kind, a) \/ GotBytes(reader', socket', n, a)
           \/ WasCut(reader', socket', a)
    BY <1>1, <2>1, <2>2, SocketWhileWaiting
  <2>4. n = Wanted' /\ kind = WantedKind' /\ a = Start' BY <1>4 DEF n, kind, a
  <2>5. frames.step = "payload" => frames.next <= Len(Payloads) /\ Payloads[frames.next] # 0
    BY DEF FramingInv
  <2>6. frames.step = "preamble" => frames.next = 1 BY DEF FramingInv
  <2> QED BY <1>1, <1>3, <1>4, <1>6, <2>3, <2>4, <2>5, <2>6 DEF FramingInv
<1> QED BY <1>3, <1>5, <1>6

LEMMA TakenIs ==
  ASSUME FramingBase(reader, socket), reader.waiters = <<>>
  PROVE  LET r == Taken(reader)
         IN  /\ FramingBase(r, socket) /\ r.waiters = <<>> /\ r.answer = NoAnswer
             /\ r.err = reader.err /\ r.buffer = reader.buffer
<1>. DEFINE r == Taken(reader)
<1>1. NoAnswer \in Answer /\ reader \in ReaderRecord BY DEF NoAnswer, Answer, FramingBase
<1>2. /\ r \in ReaderRecord /\ r.waiters = <<>> /\ r.answer = NoAnswer /\ r.err = reader.err
      /\ r.buffer = reader.buffer /\ r.ended = reader.ended
  BY <1>1 DEF Taken, ReaderRecord
<1>. HIDE DEF r
<1>3. FramingBase(r, socket) BY <1>2 DEF FramingBase
<1> QED BY <1>2, <1>3 DEF r

LEMMA ReadFrameKeeps == ASSUME FramingInv, ReadFrame PROVE FramingInv'
<1>. DEFINE a == LastByte[frames.next - 1]
            q == Read(reader, HeaderBytes, "header")
<1>1. /\ FramingBase(reader, socket) /\ frames \in FramesRecord /\ PacketsAreWhole
      /\ frames.step = "idle" /\ frames.result = "none" /\ Rests(reader, socket, a) /\ a \in Nat
  <2>1. frames.step = "idle" BY DEF ReadFrame
  <2>2. Start = a BY <2>1 DEF Start
  <2> QED BY <2>1, <2>2, WantedIs DEF FramingInv, FramesRecord
<1>2. HeaderBytes \in Nat \ {0} BY FramingLimits
<1>. HIDE DEF a
<1>3. /\ FramingBase(q, socket)
      /\ Waits(q, socket, HeaderBytes, "header", a) \/ GotBytes(q, socket, HeaderBytes, a)
         \/ WasCut(q, socket, a)
  BY <1>1, <1>2, ReadIs
<1>4. reader' = q /\ frames' = [frames EXCEPT !.step = "header"] /\ UNCHANGED socket
  BY DEF ReadFrame
<1>5. /\ frames' \in FramesRecord /\ frames'.step = "header" /\ frames'.next = frames.next
      /\ frames'.result = "none" /\ frames'.packet = frames.packet
  BY <1>1, <1>4 DEF FramesRecord
<1>6. Wanted' = HeaderBytes /\ WantedKind' = "header" /\ Start' = a
  BY <1>5 DEF Wanted, WantedKind, Start, a
<1>7. PacketsAreWhole' BY <1>1, <1>5 DEF PacketsAreWhole
<1>. HIDE DEF q
<1> QED BY <1>3, <1>4, <1>5, <1>6, <1>7 DEF FramingInv

LEMMA PreambleReadKeeps == ASSUME FramingInv, PreambleRead PROVE FramingInv'
<1>. DEFINE P == PreambleBytes
            E == PreambleBytes - ExtraBytes
            r == Taken(reader)
            extra == SubSeq(reader.answer.bytes, E + 1, P)
            whole == Bytes(E, socket.sent)
            q == [r EXCEPT !.buffer = whole]
<1>1. P \in Nat /\ E \in Nat /\ E <= P BY FramingLimits
<1>2. /\ FramingBase(reader, socket) /\ frames \in FramesRecord /\ frames.step = "preamble"
      /\ frames.next = 1 /\ frames.result = "none" /\ GotBytes(reader, socket, P, 0)
      /\ reader.waiters = <<>>
  <2>1. frames.step = "preamble" /\ reader.answer.kind = "bytes" BY DEF PreambleRead, Answered
  <2>2. Wanted = P /\ Start = 0 BY <2>1 DEF Wanted, Start
  <2> QED BY <2>1, <2>2 DEF FramingInv, FramesRecord, Waits, WasCut, NoAnswer, GotBytes
<1>3. /\ reader.answer.bytes = Bytes(0, P) /\ reader.err = "none" /\ reader.buffer = Bytes(P, socket.sent)
      /\ P <= socket.sent /\ socket.sent \in Nat
  <2>1. 0 + P = P BY <1>1
  <2> QED BY <1>2, <2>1 DEF GotBytes, FramingBase, SocketRecord
<1>4. extra = Bytes(E, P)
  <2>1. 0 \in Nat /\ P <= P - 0 /\ 0 + E = E /\ 0 + P = P BY <1>1
  <2>2. SubSeq(Bytes(0, P), E + 1, P) = Bytes(0 + E, 0 + P)
    <3>. HIDE DEF P, E
    <3> QED BY <1>1, <2>1, BytesCut, ZenonT(30)
  <2> QED BY <1>3, <2>1, <2>2
<1>5. /\ FramingBase(r, socket) /\ r.waiters = <<>> /\ r.answer = NoAnswer
      /\ r.err = reader.err /\ r.buffer = reader.buffer
  BY <1>2, TakenIs
<1>6. extra \o r.buffer = whole
  <2>. HIDE DEF P, E, extra, r
  <2>1. Bytes(E, P) \o Bytes(P, socket.sent) = Bytes(E, socket.sent) BY <1>1, <1>3, BytesJoin
  <2> QED BY <1>3, <1>4, <1>5, <2>1
<1>7. reader' = Flush([r EXCEPT !.buffer = whole]) /\ frames' = [frames EXCEPT !.step = "idle"]
      /\ UNCHANGED socket
  BY <1>6 DEF PreambleRead, Prepend
<1>8. whole \in Seq(Nat) /\ E <= socket.sent
  <2>. HIDE DEF P, E
  <2>1. E <= socket.sent BY <1>1, <1>3
  <2>2. Bytes(E, socket.sent) \in Seq(Nat) BY <1>1, <1>3, <2>1, BytesAre
  <2> QED BY <2>1, <2>2
<1>. HIDE DEF r, whole, E, P
<1>9. /\ q \in ReaderRecord /\ q.buffer = whole /\ q.waiters = <<>> /\ q.answer = NoAnswer
      /\ q.err = r.err /\ q.ended = r.ended
  BY <1>5, <1>8 DEF ReaderRecord, FramingBase
<1>10. reader' = q
  <2>. HIDE DEF q
  <2>1. reader' = Flush(q) BY <1>7 DEF q
  <2> QED BY <1>9, <2>1 DEF Flush
<1>. HIDE DEF q
<1>11. FramingBase(reader', socket') BY <1>5, <1>7, <1>9, <1>10 DEF FramingBase
<1>12. /\ frames' \in FramesRecord /\ frames'.step = "idle" /\ frames'.next = 1
       /\ frames'.result = "none"
  BY <1>2, <1>7 DEF FramesRecord
<1>13. Start' = E
  <2>1. Start' = LastByte[0] BY <1>12 DEF Start
  <2> QED BY <2>1, EndsAreKnown DEF E
<1>14. Rests(reader', socket', Start')
  BY <1>7, <1>8, <1>9, <1>10, <1>13 DEF Rests, whole
<1>15. PacketsAreWhole' BY <1>12 DEF PacketsAreWhole
<1> QED BY <1>11, <1>12, <1>14, <1>15 DEF FramingInv

LEMMA PayloadOf ==
  ASSUME NEW k \in 1 .. Len(Payloads) + 1, LastByte[k - 1] + HeaderBytes <= LastByte[Len(Payloads)]
  PROVE  /\ k \in 1 .. Len(Payloads) /\ Payloads[k] \in Nat
         /\ LastByte[k] = LastByte[k - 1] + HeaderBytes + Payloads[k]
<1>1. Len(Payloads) \in Nat /\ HeaderBytes \in Nat \ {0} BY FramingLimits
<1>2. k # Len(Payloads) + 1
  <2>1. SUFFICES ASSUME k = Len(Payloads) + 1 PROVE FALSE OBVIOUS
  <2>2. k - 1 = Len(Payloads) BY <1>1, <2>1
  <2>3. LastByte[Len(Payloads)] \in Nat BY <1>1, EndsAreKnown
  <2> QED BY <1>1, <2>2, <2>3
<1>3. k \in 1 .. Len(Payloads) BY <1>1, <1>2
<1> QED BY <1>3, FramingLimits, EndsAreKnown

LEMMA HeaderReadKeeps == ASSUME FramingInv, HeaderRead PROVE FramingInv'
<1>. DEFINE k == frames.next
            a == LastByte[k - 1]
            r == Taken(reader)
            p == Payloads[k]
            q == Read(r, p, "payload")
<1>1. /\ FramingBase(reader, socket) /\ frames \in FramesRecord /\ PacketsAreWhole
      /\ frames.step = "header" /\ frames.result = "none" /\ a \in Nat
      /\ GotBytes(reader, socket, HeaderBytes, a) /\ reader.waiters = <<>> /\ reader.err = "none"
  <2>1. frames.step = "header" /\ reader.answer.kind = "bytes" BY DEF HeaderRead, Answered
  <2>2. Wanted = HeaderBytes /\ Start = a BY <2>1 DEF Wanted, Start
  <2>3. GotBytes(reader, socket, HeaderBytes, a)
    BY <2>1, <2>2 DEF FramingInv, Waits, WasCut, NoAnswer
  <2> QED BY <2>1, <2>3, WantedIs DEF FramingInv, FramesRecord, GotBytes
<1>2. /\ reader.answer.bytes = Bytes(a, a + HeaderBytes) /\ a + HeaderBytes <= socket.sent
      /\ reader.buffer = Bytes(a + HeaderBytes, socket.sent)
      /\ socket.sent <= LastByte[Len(Payloads)] /\ socket.sent \in Nat
      /\ k \in 1 .. Len(Payloads) + 1 /\ k \in Nat
  BY <1>1, FramingLimits DEF GotBytes, FramingBase, SocketRecord, FramesRecord
<1>3. /\ k \in 1 .. Len(Payloads) /\ p \in Nat /\ LastByte[k] = a + HeaderBytes + p
  <2>1. HeaderBytes \in Nat /\ LastByte[Len(Payloads)] \in Nat BY FramingLimits, EndsAreKnown
  <2>2. a + HeaderBytes <= LastByte[Len(Payloads)] BY <1>1, <1>2, <2>1
  <2>3. LastByte[k - 1] + HeaderBytes <= LastByte[Len(Payloads)] BY <2>2
  <2>. HIDE DEF k
  <2> QED BY <1>2, <2>3, PayloadOf
<1>4. /\ FramingBase(r, socket) /\ r.waiters = <<>> /\ r.answer = NoAnswer
      /\ r.err = reader.err /\ r.buffer = reader.buffer
  BY <1>1, TakenIs
<1>5. HeaderBytes \in Nat /\ a + HeaderBytes \in Nat /\ Len(Payloads) \in Nat BY <1>1, FramingLimits
<1>6. CASE p = 0
  <2>. DEFINE bytes == Bytes(a, a + HeaderBytes)
              next == k + 1
  <2>1. /\ frames' = [frames EXCEPT !.step = "idle", !.next = next, !.packet = bytes]
        /\ reader' = r /\ UNCHANGED socket
    BY <1>2, <1>6 DEF HeaderRead
  <2>2. bytes \in Seq(Nat) /\ next \in 1 .. Len(Payloads) + 1 /\ next - 1 = k /\ next > 1
    <3>1. a <= a + HeaderBytes BY <1>1, <1>5
    <3>2. bytes \in Seq(Nat) BY <1>1, <1>5, <3>1, BytesAre
    <3> QED BY <1>3, <1>5, <3>2
  <2>. HIDE DEF bytes, next
  <2>3. /\ frames' \in FramesRecord /\ frames'.step = "idle" /\ frames'.next = next
        /\ frames'.packet = bytes /\ frames'.result = "none"
    BY <1>1, <2>1, <2>2 DEF FramesRecord
  <2>4. LastByte[k] = a + HeaderBytes /\ LastByte[k] - HeaderBytes = a BY <1>1, <1>3, <1>5, <1>6
  <2>5. PacketsAreWhole' BY <1>6, <2>2, <2>3, <2>4 DEF PacketsAreWhole, bytes
  <2>6. Start' = a + HeaderBytes BY <2>2, <2>3, <2>4 DEF Start
  <2>7. Rests(reader', socket', Start') BY <1>2, <1>4, <2>1, <2>6 DEF Rests
  <2>8. FramingBase(reader', socket') BY <1>4, <2>1
  <2> QED BY <2>3, <2>5, <2>7, <2>8 DEF FramingInv
<1>7. CASE p # 0
  <2>. DEFINE b == a + HeaderBytes
  <2>1. frames' = [frames EXCEPT !.step = "payload"] /\ reader' = q /\ UNCHANGED socket
    BY <1>7 DEF HeaderRead
  <2>2. Rests(r, socket, b) BY <1>2, <1>4 DEF Rests
  <2>3. b \in Nat /\ p \in Nat \ {0} BY <1>3, <1>5, <1>7
  <2>4. b = LastByte[frames.next - 1] + HeaderBytes OBVIOUS
  <2>. HIDE DEF b, r, p
  <2>5. /\ FramingBase(q, socket)
        /\ Waits(q, socket, p, "payload", b) \/ GotBytes(q, socket, p, b) \/ WasCut(q, socket, b)
    BY <1>4, <2>2, <2>3, ReadIs
  <2>6. /\ frames' \in FramesRecord /\ frames'.step = "payload" /\ frames'.next = frames.next
        /\ frames'.result = "none" /\ frames'.packet = frames.packet
    BY <1>1, <2>1 DEF FramesRecord
  <2>. HIDE DEF q
  <2>7. Wanted' = p /\ WantedKind' = "payload" /\ Start' = b
    BY <2>4, <2>6 DEF Wanted, WantedKind, Start, p
  <2>8. PacketsAreWhole' BY <1>1, <2>6 DEF PacketsAreWhole
  <2>9. frames'.next <= Len(Payloads) /\ Payloads[frames'.next] # 0
    BY <1>3, <1>5, <1>7, <2>6 DEF p
  <2> QED BY <2>1, <2>5, <2>6, <2>7, <2>8, <2>9 DEF FramingInv
<1> QED BY <1>6, <1>7

LEMMA PayloadReadKeeps == ASSUME FramingInv, PayloadRead PROVE FramingInv'
<1>. DEFINE k == frames.next
            p == Payloads[k]
            a == LastByte[k - 1] + HeaderBytes
            r == Taken(reader)
            bytes == Bytes(a, a + p)
            next == k + 1
<1>1. /\ FramingBase(reader, socket) /\ frames \in FramesRecord
      /\ frames.step = "payload" /\ frames.result = "none" /\ a \in Nat
      /\ GotBytes(reader, socket, p, a) /\ reader.waiters = <<>> /\ reader.err = "none"
      /\ k \in 1 .. Len(Payloads) /\ p \in Nat \ {0}
  <2>1. frames.step = "payload" /\ reader.answer.kind = "bytes" BY DEF PayloadRead, Answered
  <2>2. Wanted = p /\ Start = a BY <2>1 DEF Wanted, Start
  <2>3. GotBytes(reader, socket, p, a) BY <2>1, <2>2 DEF FramingInv, Waits, WasCut, NoAnswer
  <2>4. frames \in FramesRecord /\ k <= Len(Payloads) /\ FramingBase(reader, socket)
        /\ frames.result = "none"
    BY <2>1 DEF FramingInv
  <2>5. k \in 1 .. Len(Payloads) BY <2>4, FramingLimits DEF FramesRecord
  <2>6. a \in Nat /\ p \in Nat \ {0} BY <2>1, <2>2, WantedIs
  <2>7. reader.waiters = <<>> /\ reader.err = "none" BY <2>3 DEF GotBytes
  <2> QED BY <2>1, <2>3, <2>4, <2>5, <2>6, <2>7
<1>2. /\ reader.answer.bytes = bytes /\ a + p <= socket.sent /\ a + p \in Nat /\ a <= a + p
      /\ reader.buffer = Bytes(a + p, socket.sent)
  BY <1>1 DEF GotBytes
<1>3. LastByte[k] = a + p /\ LastByte[k] - p = a
  <2>1. LastByte[k] = LastByte[k - 1] + HeaderBytes + p BY <1>1, EndsAreKnown
  <2> QED BY <1>1, <1>2, <2>1
<1>4. /\ FramingBase(r, socket) /\ r.waiters = <<>> /\ r.answer = NoAnswer
      /\ r.err = reader.err /\ r.buffer = reader.buffer
  BY <1>1, TakenIs
<1>5. bytes \in Seq(Nat)
  <2>. HIDE DEF a, p
  <2> QED BY <1>1, <1>2, BytesAre
<1>6. next \in 1 .. Len(Payloads) + 1 /\ next - 1 = k /\ next > 1 BY <1>1, FramingLimits
<1>7. /\ frames' = [frames EXCEPT !.step = "idle", !.next = next, !.packet = bytes]
      /\ reader' = r /\ UNCHANGED socket
  BY <1>2 DEF PayloadRead
<1>. HIDE DEF bytes, next, a, r
<1>8. /\ frames' \in FramesRecord /\ frames'.step = "idle" /\ frames'.next = next
      /\ frames'.packet = bytes /\ frames'.result = "none"
  BY <1>1, <1>5, <1>6, <1>7 DEF FramesRecord
<1>9. PacketsAreWhole' BY <1>1, <1>3, <1>6, <1>8 DEF PacketsAreWhole, bytes
<1>10. Start' = a + p BY <1>3, <1>6, <1>8 DEF Start
<1>11. Rests(reader', socket', Start') BY <1>2, <1>4, <1>7, <1>10 DEF Rests
<1>12. FramingBase(reader', socket') BY <1>4, <1>7
<1> QED BY <1>8, <1>9, <1>11, <1>12 DEF FramingInv

LEMMA ReadFailsKeeps == ASSUME FramingInv, ReadFails PROVE FramingInv'
<1>. DEFINE r == Taken(reader)
            kind == reader.answer.kind
            result == IF frames.step = "header" /\ kind = "clean-eof" THEN "null" ELSE kind
<1>1. /\ FramingBase(reader, socket) /\ frames \in FramesRecord /\ PacketsAreWhole
      /\ kind \notin {"none", "bytes"}
  BY DEF FramingInv, ReadFails
<1>2. frames.step \in {"preamble", "header", "payload"} /\ WasCut(reader, socket, Start)
  BY <1>1 DEF FramingInv, FramesRecord, Waits, GotBytes, Rests, NoAnswer
<1>3. /\ FramingBase(r, socket) /\ r.waiters = <<>> /\ r.answer = NoAnswer /\ r.err = reader.err
  BY <1>1, <1>2, TakenIs DEF WasCut
<1>4. result \in {"null", "reader-overflow", "socket-error", "clean-eof", "truncated-header",
                  "truncated-payload"}
  <2>1. reader.answer \in Answer BY <1>1 DEF FramingBase, ReaderRecord
  <2>2. kind \in {"reader-overflow", "socket-error", "clean-eof", "truncated-header",
                  "truncated-payload"}
    BY <1>1, <2>1 DEF Answer
  <2> QED BY <2>2
<1>5. result = "null" => socket.sent = LastByte[frames.next - 1] /\ reader.err = "none"
  <2>1. ASSUME result = "null" PROVE frames.step = "header" /\ kind = "clean-eof"
    <3>1. kind # "null"
      <4>1. reader.answer \in Answer BY <1>1 DEF FramingBase, ReaderRecord
      <4> QED BY <1>1, <4>1 DEF Answer
    <3> QED BY <2>1, <3>1
  <2>2. frames.step = "header" => Start = LastByte[frames.next - 1] BY DEF Start
  <2> QED BY <1>2, <2>1, <2>2 DEF WasCut
<1>6. /\ frames' = [frames EXCEPT !.step = "over", !.result = result]
      /\ reader' = r /\ UNCHANGED socket
  BY DEF ReadFails
<1>. HIDE DEF result, r
<1>7. /\ frames' \in FramesRecord /\ frames'.step = "over" /\ frames'.result = result
      /\ frames'.next = frames.next /\ frames'.packet = frames.packet
  BY <1>1, <1>4, <1>6 DEF FramesRecord
<1>8. PacketsAreWhole' BY <1>1, <1>7 DEF PacketsAreWhole
<1>9. ~socket.open BY <1>2 DEF WasCut
<1> QED BY <1>3, <1>5, <1>6, <1>7, <1>8, <1>9 DEF FramingInv

LEMMA FramingGoesOn == FramingInv /\ FramingNext => FramingInv'
BY SocketKeepsFraming, PreambleReadKeeps, ReadFrameKeeps, HeaderReadKeeps, PayloadReadKeeps,
   ReadFailsKeeps DEF FramingNext

LEMMA FramingStays == FramingInv /\ UNCHANGED framingVars => FramingInv'
BY DEF FramingInv, framingVars, Wanted, WantedKind, Start, PacketsAreWhole

\* What the framing promises follows.
LEMMA FramingPromises == FramingInv => EndIsTold /\ PacketsAreWhole
<1>1. ASSUME FramingInv PROVE EndIsTold /\ PacketsAreWhole
  <2>1. frames.step \in {"preamble", "idle", "header", "payload", "over"}
    BY <1>1 DEF FramingInv, FramesRecord
  <2>2. reader.waiters # <<>> => socket.open /\ Idle
    BY <1>1, <2>1 DEF FramingInv, Waits, GotBytes, WasCut, Rests, Idle
  <2>3. frames.step \in {"preamble", "header", "payload"} => reader.waiters # <<>> \/ ~Idle
    <3>1. Idle => reader.answer.kind = "none" BY DEF Idle, NoAnswer
    <3>2. GotBytes(reader, socket, Wanted, Start) => reader.answer.kind = "bytes" BY DEF GotBytes
    <3>3. Waits(reader, socket, Wanted, WantedKind, Start) => reader.waiters # <<>> BY DEF Waits
    <3>4. WasCut(reader, socket, Start) => reader.answer.kind # "none" BY DEF WasCut
    <3> QED BY <1>1, <3>1, <3>2, <3>3, <3>4 DEF FramingInv
  <2> QED BY <1>1, <2>2, <2>3 DEF FramingInv, EndIsTold
<1> QED BY <1>1

-----------------------------------------------------------------------------
(* EncoderOutput, its process. What of the output was read, and which       *)
(* images were taken, does not matter here.                                 *)

EncoderRecord(accepted, encoded, read) ==
  [closed : BOOLEAN, reported : BOOLEAN, shutdown : {"none", "grace", "term", "kill", "done"},
   process : {"running", "killed", "exited", "failed"}, stdin : {"open", "ended", "broken"},
   drain : BOOLEAN, offered : Nat, accepted : {accepted}, encoded : {encoded}, read : {read}]

EncoderOK(e) ==
  /\ e \in EncoderRecord(e.accepted, e.encoded, e.read)
  /\ e.shutdown = "done" => e.process # "running"
EncoderInv == EncoderOK(encoder)

LEMMA EncoderStarts == EncoderInit => EncoderInv
BY DEF EncoderInit, EncoderInv, EncoderOK, EncoderRecord

LEMMA ReportedIs ==
  ASSUME NEW e, EncoderOK(e)
  PROVE  LET f == Reported(e)
         IN  /\ EncoderOK(f) /\ f.shutdown = e.shutdown /\ f.process = e.process
             /\ f.stdin = e.stdin /\ f.closed = e.closed
BY DEF Reported, EncoderOK, EncoderRecord

LEMMA ClosingIs ==
  ASSUME NEW e, EncoderOK(e)
  PROVE  EncoderOK(ClosingEncoder(e))
<1>. DEFINE s == IF e.process \in {"exited", "failed"} THEN "done" ELSE "grace"
            i == IF e.process = "running" THEN "ended" ELSE e.stdin
            f == [e EXCEPT !.closed = TRUE, !.shutdown = s, !.stdin = i]
<1>1. e \in EncoderRecord(e.accepted, e.encoded, e.read) BY DEF EncoderOK
<1>2. /\ s \in {"none", "grace", "term", "kill", "done"} /\ i \in {"open", "ended", "broken"}
      /\ (s = "done" => e.process # "running")
  BY <1>1 DEF EncoderRecord
<1>3. ClosingEncoder(e) = IF e.closed THEN e ELSE f BY DEF ClosingEncoder
<1>. HIDE DEF s, i
<1>4. /\ f \in EncoderRecord(e.accepted, e.encoded, e.read) /\ f.shutdown = s /\ f.process = e.process
      /\ f.accepted = e.accepted /\ f.encoded = e.encoded /\ f.read = e.read
  BY <1>1, <1>2 DEF EncoderRecord
<1>. HIDE DEF f
<1> QED BY <1>2, <1>3, <1>4 DEF EncoderOK

LEMMA EncoderGoesOn == EncoderInv /\ EncoderNext => EncoderInv'
<1>1. ASSUME EncoderInv, EncoderNext PROVE EncoderInv'
  <2>1. /\ EncoderOK(encoder) /\ encoder \in EncoderRecord(encoder.accepted, encoder.encoded, encoder.read)
        /\ (encoder.shutdown = "done" => encoder.process # "running")
    BY <1>1 DEF EncoderInv, EncoderOK
  <2>2. CASE Write
    <3>. DEFINE n == encoder.offered + 1
                a == Append(encoder.accepted, 10 * n)
    <3>1. n \in Nat BY <2>1 DEF EncoderRecord
    <3>2. \/ encoder' = [encoder EXCEPT !.offered = n]
          \/ \E full \in BOOLEAN : encoder' = [encoder EXCEPT !.offered = n, !.accepted = a, !.drain = full]
      BY <2>2 DEF Write
    <3>. HIDE DEF n, a
    <3> QED BY <2>1, <3>1, <3>2 DEF EncoderInv, EncoderOK, EncoderRecord
  <2>3. CASE Drains BY <2>1, <2>3 DEF Drains, Process, EncoderInv, EncoderOK, EncoderRecord
  <2>4. CASE Encodes
    <3>. DEFINE k == encoder.encoded + 1
    <3>1. encoder' = [encoder EXCEPT !.encoded = k] BY <2>4 DEF Encodes, Process
    <3>. HIDE DEF k
    <3> QED BY <2>1, <3>1 DEF EncoderInv, EncoderOK, EncoderRecord
  <2>5. CASE OutputArrives
    <3>1. PICK n \in ReadSizes :
            LET to == NotAbove(encoder.read + n, Len(Stream(encoder.encoded)))
                read == [encoder EXCEPT !.read = to]
            IN  encoder' = read \/ encoder' = ClosingEncoder(Reported(read))
      BY <2>5 DEF OutputArrives
    <3>. DEFINE to == NotAbove(encoder.read + n, Len(Stream(encoder.encoded)))
                read == [encoder EXCEPT !.read = to]
    <3>2. encoder' = read \/ encoder' = ClosingEncoder(Reported(read)) BY <3>1
    <3>. HIDE DEF to
    <3>3. EncoderOK(read) BY <2>1 DEF EncoderOK, EncoderRecord
    <3>. HIDE DEF read
    <3>4. EncoderOK(Reported(read)) BY <3>3, ReportedIs
    <3>5. EncoderOK(ClosingEncoder(Reported(read))) BY <3>4, ClosingIs
    <3> QED BY <3>2, <3>3, <3>5 DEF EncoderInv
  <2>6. CASE PipeBreaks \/ DoesNotStart \/ Exits
    <3>. DEFINE f == Reported(encoder)
    <3>1. f \in EncoderRecord(f.accepted, f.encoded, f.read)
          /\ (f.shutdown = "done" => f.process # "running")
      BY <2>1, ReportedIs DEF EncoderOK
    <3>2. \/ encoder' = [f EXCEPT !.stdin = "broken"]
          \/ encoder' = [f EXCEPT !.process = "failed", !.stdin = "broken"]
          \/ encoder' = [f EXCEPT !.process = "exited", !.stdin = "broken"]
      BY <2>6 DEF PipeBreaks, DoesNotStart, Exits, Process
    <3>. HIDE DEF f
    <3> QED BY <3>1, <3>2 DEF EncoderInv, EncoderOK, EncoderRecord
  <2>7. CASE Close
    <3>1. encoder' = ClosingEncoder(encoder) BY <2>7 DEF Close, Process
    <3> QED BY <2>1, <3>1, ClosingIs DEF EncoderInv
  <2>8. CASE ShutdownGoesOn
    BY <2>1, <2>8 DEF ShutdownGoesOn, Process, EncoderInv, EncoderOK, EncoderRecord
  <2> QED BY <1>1, <2>2, <2>3, <2>4, <2>5, <2>6, <2>7, <2>8 DEF EncoderNext
<1> QED BY <1>1

LEMMA EncoderStays == EncoderInv /\ UNCHANGED encoderVars => EncoderInv'
BY DEF EncoderInv, encoderVars

LEMMA EncoderPromises == EncoderInv => CloseLeavesNoProcess
BY DEF EncoderInv, EncoderOK, CloseLeavesNoProcess

-----------------------------------------------------------------------------
(* EncoderOutput, what it hands on. All that the encoder puts out lies in   *)
(* groups of five bytes, one for each NAL unit: the k-th begins at offset   *)
(* 5 (k - 1). The first image makes three of them, each other one two. From *)
(* how many bytes were read follows all that the parser holds, wherever     *)
(* they were cut.                                                           *)

IsSlice(k) == k >= 3 /\ k % 2 = 1
FirstByte(k) ==
  IF IsSlice(k) THEN IF k = 3 THEN KeyByte ELSE SliceByte
  ELSE IF k = 2 THEN SpsByte ELSE AudByte
ByteIn(k, r) ==
  IF r < 2 THEN 0
  ELSE IF IsSlice(k) THEN IF r = 2 THEN 1 ELSE IF r = 3 THEN FirstByte(k) ELSE 10 + k \div 2
  ELSE IF r = 2 THEN 0 ELSE IF r = 3 THEN 1 ELSE FirstByte(k)
PutOut(g) == ByteIn((g \div 5) + 1, g % 5)
PutOutFrom(b, m) == [x \in 1 .. (m - b) |-> PutOut(b + x - 1)]
LengthOf(n) == IF n = 0 THEN 0 ELSE 10 * n + 5

\* The NAL units that begin in the first m bytes, the delimiter of the last
\* access unit of them, and how many access units are complete.
DataOf(k) == IF IsSlice(k) THEN 5 * k - 2 ELSE 5 * k - 1
NalOf(k, b) == [pos |-> 5 * (k - 1) - b, data |-> DataOf(k) - b, type |-> TypeOf(FirstByte(k))]
NalsFrom(j, k) == [i \in 1 .. (k - j + 1) |-> NalOf(j + i - 1, 5 * (j - 1))]
BegunBy(m) == IF m % 5 = 4 /\ IsSlice((m \div 5) + 1) THEN (m \div 5) + 1 ELSE m \div 5
LastUnit(k) == IF k <= 3 THEN 1 ELSE 2 * (k \div 2)
UnitsBy(k) == IF k <= 3 THEN 0 ELSE (k \div 2) - 1

\* What u access units come out as, and leave behind.
OutputAt(i, times) ==
  IF i = 1 THEN [config |-> TRUE, data |-> StartCode \o <<SpsByte>>, pts |-> 0, isKey |-> FALSE]
  ELSE [config |-> FALSE, pts |-> times[i - 1], isKey |-> i = 2,
        data |-> StartCode \o <<IF i = 2 THEN KeyByte ELSE SliceByte, 10 + (i - 1)>>]
Outputs(u, times) == [i \in 1 .. (IF u = 0 THEN 0 ELSE u + 1) |-> OutputAt(i, times)]
TimesAfter(u, times) == [i \in 1 .. (Len(times) - u) |-> times[u + i]]
ParserOf(j, k, u, m, s, times) ==
  [pending |-> PutOutFrom(5 * (j - 1), m), scanFrom |-> s, nals |-> NalsFrom(j, k),
   pts |-> TimesAfter(u, times), lastPts |-> IF u = 0 THEN 0 ELSE times[u],
   config |-> IF u = 0 THEN <<>> ELSE StartCode \o <<SpsByte>>]
ParserAt(m, s, times) ==
  ParserOf(LastUnit(BegunBy(m)), BegunBy(m), UnitsBy(BegunBy(m)), m, s, times)

ImagesTaken(e) ==
  /\ e.accepted \in Seq(Nat) /\ e.encoded \in Nat /\ e.encoded <= Len(e.accepted)
  /\ e.read \in Nat /\ e.read <= LengthOf(e.encoded)
RescansAt(p) == p.scanFrom <= NotBelowZero(Len(p.pending) - 4)
ParsedIs(p, out, m, times) ==
  /\ \E s \in Nat : p = ParserAt(m, s, times)
  /\ RescansAt(p) /\ out = Outputs(UnitsBy(BegunBy(m)), times)
OutputInv ==
  /\ ImagesTaken(encoder)
  /\ encoder.closed \in BOOLEAN
  /\ IF encoder.closed
     THEN \E u \in 0 .. Len(encoder.accepted) : emitted = Outputs(u, encoder.accepted)
     ELSE ParsedIs(parser, emitted, encoder.read, encoder.accepted)

LEMMA GroupOf ==
  ASSUME NEW g \in Nat
  PROVE  g \div 5 \in Nat /\ g % 5 \in 0 .. 4 /\ g = 5 * (g \div 5) + (g % 5)
OBVIOUS

LEMMA PutOutAt ==
  ASSUME NEW k \in Nat, k > 0, NEW r \in 0 .. 4
  PROVE  PutOut(5 * (k - 1) + r) = ByteIn(k, r)
<1>. DEFINE g == 5 * (k - 1) + r
<1>1. g \div 5 = k - 1 /\ g % 5 = r OBVIOUS
<1>. HIDE DEF g
<1>2. PutOut(g) = ByteIn((k - 1) + 1, r) BY <1>1 DEF PutOut
<1> QED BY <1>2 DEF g

LEMMA PutOutIs ==
  ASSUME NEW b \in Nat, NEW m \in Nat, b <= m
  PROVE  /\ PutOutFrom(b, m) \in Seq(Nat) /\ Len(PutOutFrom(b, m)) = m - b
         /\ \A x \in 1 .. (m - b) : PutOutFrom(b, m)[x] = PutOut(b + x - 1)
<1>1. \A g \in Nat : PutOut(g) \in Nat
  <2>1. \A k \in Nat, r \in Nat : ByteIn(k, r) \in Nat
    <3>1. \A k \in Nat : k \div 2 \in Nat OBVIOUS
    <3> QED BY <3>1 DEF ByteIn, FirstByte, KeyByte, SliceByte, SpsByte, AudByte
  <2>2. ASSUME NEW g \in Nat PROVE PutOut(g) \in Nat
    <3>1. (g \div 5) + 1 \in Nat /\ g % 5 \in Nat BY GroupOf
    <3> QED BY <2>1, <3>1 DEF PutOut
  <2> QED BY <2>2
<1>2. \A x \in 1 .. (m - b) : b + x - 1 \in Nat OBVIOUS
<1>3. m - b \in Nat OBVIOUS
<1> QED BY <1>1, <1>2, <1>3 DEF PutOutFrom

LEMMA PutOutJoins ==
  ASSUME NEW b \in Nat, NEW m \in Nat, NEW n \in Nat, b <= m, m <= n
  PROVE  PutOutFrom(b, m) \o PutOutFrom(m, n) = PutOutFrom(b, n)
<1>. DEFINE s == PutOutFrom(b, m)
            t == PutOutFrom(m, n)
            u == PutOutFrom(b, n)
<1>1. /\ s \in Seq(Nat) /\ Len(s) = m - b /\ (\A x \in 1 .. m - b : s[x] = PutOut(b + x - 1))
      /\ t \in Seq(Nat) /\ Len(t) = n - m /\ (\A x \in 1 .. n - m : t[x] = PutOut(m + x - 1))
      /\ u \in Seq(Nat) /\ Len(u) = n - b /\ (\A x \in 1 .. n - b : u[x] = PutOut(b + x - 1))
  <2>1. b <= n OBVIOUS
  <2>2. s \in Seq(Nat) /\ Len(s) = m - b /\ (\A x \in 1 .. m - b : s[x] = PutOut(b + x - 1)) BY PutOutIs
  <2>3. t \in Seq(Nat) /\ Len(t) = n - m /\ (\A x \in 1 .. n - m : t[x] = PutOut(m + x - 1)) BY PutOutIs
  <2>4. u \in Seq(Nat) /\ Len(u) = n - b /\ (\A x \in 1 .. n - b : u[x] = PutOut(b + x - 1))
    BY <2>1, PutOutIs
  <2>. HIDE DEF s, t, u
  <2> QED BY <2>2, <2>3, <2>4
<1>. HIDE DEF s, t, u
<1>2. /\ s \o t \in Seq(Nat) /\ Len(s \o t) = Len(u)
      /\ \A x \in 1 .. Len(s) + Len(t) : (s \o t)[x] = IF x <= Len(s) THEN s[x] ELSE t[x - Len(s)]
  <2>1. /\ s \o t \in Seq(Nat) /\ Len(s \o t) = Len(s) + Len(t)
        /\ \A x \in 1 .. Len(s) + Len(t) : (s \o t)[x] = IF x <= Len(s) THEN s[x] ELSE t[x - Len(s)]
    BY <1>1, ConcatProperties
  <2>2. Len(s) + Len(t) = Len(u) BY <1>1
  <2> QED BY <2>1, <2>2
<1>3. ASSUME NEW x \in 1 .. Len(u) PROVE (s \o t)[x] = u[x]
  <2>1. x \in 1 .. n - b /\ x \in 1 .. Len(s) + Len(t) BY <1>1
  <2>2. CASE x <= m - b
    <3>1. x \in 1 .. m - b BY <2>1, <2>2
    <3> QED BY <1>1, <1>2, <2>1, <2>2, <3>1
  <2>3. CASE ~(x <= m - b)
    <3>1. x - (m - b) \in 1 .. n - m /\ m + (x - (m - b)) - 1 = b + x - 1 BY <2>1, <2>3
    <3> QED BY <1>1, <1>2, <2>1, <2>3, <3>1, Z3
  <2> QED BY <2>2, <2>3
<1>4. s \o t = u BY <1>1, <1>2, <1>3, SeqEqual
<1> QED BY <1>4 DEF s, t, u

LEMMA PutOutIsCut ==
  ASSUME NEW b \in Nat, NEW m \in Nat, NEW f \in Nat, NEW t \in Nat, f <= t, b + t <= m
  PROVE  UnitBytes(PutOutFrom(b, m), f, t) = PutOutFrom(b + f, b + t)
<1>. DEFINE s == PutOutFrom(b, m)
            u == PutOutFrom(b + f, b + t)
            v == SubSeq(s, f + 1, t)
<1>0. /\ b <= m /\ b + f \in Nat /\ b + t \in Nat /\ b + f <= b + t
      /\ (b + t) - (b + f) = t - f
  OBVIOUS
<1>1. /\ s \in Seq(Nat) /\ Len(s) = m - b /\ (\A x \in 1 .. m - b : s[x] = PutOut(b + x - 1))
      /\ u \in Seq(Nat) /\ Len(u) = t - f /\ (\A x \in 1 .. t - f : u[x] = PutOut(b + f + x - 1))
  <2>1. s \in Seq(Nat) /\ Len(s) = m - b /\ (\A x \in 1 .. m - b : s[x] = PutOut(b + x - 1))
    BY <1>0, PutOutIs
  <2>2. /\ u \in Seq(Nat) /\ Len(u) = (b + t) - (b + f)
        /\ \A x \in 1 .. (b + t) - (b + f) : u[x] = PutOut(b + f + x - 1)
    BY <1>0, PutOutIs
  <2>. HIDE DEF s, u
  <2> QED BY <1>0, <2>1, <2>2
<1>. HIDE DEF s, u
<1>2. \A x \in f + 1 .. t : s[x] \in Nat
  <2>1. \A x \in f + 1 .. t : x \in 1 .. m - b OBVIOUS
  <2> QED BY <1>1, <2>1, SMTT(30)
<1>3. /\ v \in Seq(Nat) /\ Len(v) = (IF f + 1 <= t THEN t - (f + 1) + 1 ELSE 0)
      /\ \A x \in 1 .. t - (f + 1) + 1 : v[x] = s[f + 1 + x - 1]
  BY <1>2, SubSeqProperties
<1>4. Len(v) = Len(u) BY <1>1, <1>3
<1>5. ASSUME NEW x \in 1 .. Len(v) PROVE v[x] = u[x]
  <2>0. Len(v) = t - f
    <3>1. (b + t) - (b + f) = t - f OBVIOUS
    <3> QED BY <1>1, <1>4, <3>1
  <2>1. x \in 1 .. t - f /\ x \in 1 .. t - (f + 1) + 1 /\ f + 1 + x - 1 = f + x
        /\ f + x \in 1 .. m - b /\ b + (f + x) - 1 = b + f + x - 1
    <3>1. x \in 1 .. t - f BY <2>0
    <3> QED BY <3>1
  <2> QED BY <1>1, <1>3, <2>1
<1>. HIDE DEF v
<1>6. v = u BY <1>1, <1>3, <1>4, <1>5, SeqEqual
<1> QED BY <1>6 DEF s, u, v, UnitBytes

LEMMA UnitIs ==
  ASSUME NEW i \in Nat, i > 0
  PROVE  AccessUnit(i) = PutOutFrom(LengthOf(i - 1), LengthOf(i))
<1>1. CASE i = 1
  <2>. DEFINE u == <<0, 0, 0, 1, 9, 0, 0, 0, 1, 103, 0, 0, 1, 101, 11>>
              v == PutOutFrom(0, 15)
  <2>1. AccessUnit(i) = u BY <1>1 DEF AccessUnit, AudByte, SpsByte, KeyByte
  <2>2. v \in Seq(Nat) /\ Len(v) = 15 /\ (\A x \in 1 .. 15 : v[x] = PutOut(0 + x - 1))
    <3>1. /\ v \in Seq(Nat) /\ Len(v) = 15 - 0
          /\ \A x \in 1 .. 15 - 0 : v[x] = PutOut(0 + x - 1)
      <4>1. 0 \in Nat /\ 15 \in Nat /\ 0 <= 15 OBVIOUS
      <4> QED BY <4>1, PutOutIs, Zenon
    <3> QED BY <3>1
  <2>3. \A r \in 0 .. 4 : /\ PutOut(r) = ByteIn(1, r) /\ PutOut(5 + r) = ByteIn(2, r)
                          /\ PutOut(10 + r) = ByteIn(3, r)
    <3>1. ASSUME NEW r \in 0 .. 4
          PROVE  /\ PutOut(5 * (1 - 1) + r) = ByteIn(1, r) /\ PutOut(5 * (2 - 1) + r) = ByteIn(2, r)
                 /\ PutOut(5 * (3 - 1) + r) = ByteIn(3, r)
      <4>1. \A k \in {1, 2, 3} : k \in Nat /\ k > 0 OBVIOUS
      <4>2. \A k \in {1, 2, 3} : PutOut(5 * (k - 1) + r) = ByteIn(k, r) BY <4>1, PutOutAt
      <4> QED BY <4>2
    <3>2. \A r \in 0 .. 4 : 5 * (1 - 1) + r = r /\ 5 * (2 - 1) + r = 5 + r /\ 5 * (3 - 1) + r = 10 + r
      OBVIOUS
    <3> QED BY <3>1, <3>2
  <2>4. \A r \in 0 .. 4 :
          /\ ByteIn(1, r) = u[r + 1] /\ ByteIn(2, r) = u[5 + r + 1] /\ ByteIn(3, r) = u[10 + r + 1]
    BY DEF ByteIn, IsSlice, FirstByte, AudByte, SpsByte, KeyByte
  <2>. HIDE DEF v
  <2>5. ASSUME NEW x \in 1 .. 15 PROVE v[x] = u[x]
    <3>. HIDE DEF u
    <3>1. CASE x <= 5
      <4>1. x - 1 \in 0 .. 4 /\ 0 + x - 1 = x - 1 /\ (x - 1) + 1 = x BY <3>1
      <4> QED BY <2>2, <2>3, <2>4, <4>1
    <3>2. CASE x > 5 /\ x <= 10
      <4>1. x - 6 \in 0 .. 4 /\ 0 + x - 1 = 5 + (x - 6) /\ 5 + (x - 6) + 1 = x BY <3>2
      <4> QED BY <2>2, <2>3, <2>4, <4>1
    <3>3. CASE x > 10
      <4>1. x - 11 \in 0 .. 4 /\ 0 + x - 1 = 10 + (x - 11) /\ 10 + (x - 11) + 1 = x BY <3>3
      <4> QED BY <2>2, <2>3, <2>4, <4>1
    <3> QED BY <3>1, <3>2, <3>3
  <2>6. u \in Seq(Nat) /\ Len(u) = 15 OBVIOUS
  <2>. HIDE DEF u
  <2>7. u = v BY <2>2, <2>5, <2>6, SeqEqual
  <2>8. LengthOf(i - 1) = 0 /\ LengthOf(i) = 15 BY <1>1 DEF LengthOf
  <2> QED BY <2>1, <2>7, <2>8 DEF v
<1>2. CASE i > 1
  <2>. DEFINE c == 10 + i
              u == <<0, 0, 0, 1, 9, 0, 0, 1, 65, c>>
              b == 10 * i - 5
              v == PutOutFrom(b, b + 10)
  <2>1. AccessUnit(i) = u BY <1>2 DEF AccessUnit, AudByte, SliceByte
  <2>2. v \in Seq(Nat) /\ Len(v) = 10 /\ \A x \in 1 .. 10 : v[x] = PutOut(b + x - 1)
    <3>1. b \in Nat /\ b + 10 \in Nat /\ b <= b + 10 /\ (b + 10) - b = 10 BY <1>2
    <3>. HIDE DEF b
    <3>2. /\ v \in Seq(Nat) /\ Len(v) = (b + 10) - b
          /\ \A x \in 1 .. (b + 10) - b : v[x] = PutOut(b + x - 1)
      BY <3>1, PutOutIs
    <3> QED BY <3>1, <3>2
  <2>3. ASSUME NEW r \in 0 .. 4
        PROVE  PutOut(b + r) = ByteIn(2 * i, r) /\ PutOut(b + 5 + r) = ByteIn(2 * i + 1, r)
    <3>1. /\ PutOut(5 * (2 * i - 1) + r) = ByteIn(2 * i, r)
          /\ PutOut(5 * ((2 * i + 1) - 1) + r) = ByteIn(2 * i + 1, r)
      <4>1. 2 * i \in Nat /\ 2 * i > 0 /\ 2 * i + 1 \in Nat /\ 2 * i + 1 > 0 BY <1>2
      <4> QED BY <4>1, PutOutAt
    <3>2. 5 * (2 * i - 1) + r = b + r /\ 5 * ((2 * i + 1) - 1) + r = b + 5 + r OBVIOUS
    <3> QED BY <3>1, <3>2
  <2>4. \A r \in 0 .. 4 : ByteIn(2 * i, r) = u[r + 1] /\ ByteIn(2 * i + 1, r) = u[5 + r + 1]
    <3>1. /\ 2 * i # 2 /\ (2 * i) % 2 = 0 /\ 2 * i + 1 >= 3 /\ 2 * i + 1 # 3
          /\ (2 * i + 1) % 2 = 1 /\ (2 * i + 1) \div 2 = i
      BY <1>2
    <3>2. ~IsSlice(2 * i) /\ IsSlice(2 * i + 1) BY <3>1 DEF IsSlice
    <3> QED BY <3>1, <3>2 DEF ByteIn, FirstByte, AudByte, SliceByte
  <2>5. c \in Nat /\ b \in Nat BY <1>2
  <2>. HIDE DEF v, c, b
  <2>6. u \in Seq(Nat) /\ Len(u) = 10 BY <2>5
  <2>. HIDE DEF u
  <2>7. ASSUME NEW x \in 1 .. 10 PROVE v[x] = u[x]
    <3>1. CASE x <= 5
      <4>1. x - 1 \in 0 .. 4 /\ b + x - 1 = b + (x - 1) /\ (x - 1) + 1 = x BY <2>5, <3>1
      <4> QED BY <2>2, <2>3, <2>4, <4>1
    <3>2. CASE x > 5
      <4>1. x - 6 \in 0 .. 4 /\ b + x - 1 = b + 5 + (x - 6) /\ 5 + (x - 6) + 1 = x BY <2>5, <3>2
      <4> QED BY <2>2, <2>3, <2>4, <4>1
    <3> QED BY <3>1, <3>2
  <2>8. u = v BY <2>2, <2>6, <2>7, SeqEqual
  <2>9. LengthOf(i - 1) = b /\ LengthOf(i) = b + 10 BY <1>2 DEF LengthOf, b
  <2> QED BY <2>1, <2>8, <2>9 DEF v
<1> QED BY <1>1, <1>2

\* What ffmpeg has made of n images.
LEMMA StreamIs == ASSUME NEW n \in Nat PROVE Stream(n) = PutOutFrom(0, LengthOf(n))
<1>. DEFINE units == [i \in 1 .. n |-> AccessUnit(i)]
            made(f) == [i \in 1 .. n |-> IF i = 1 THEN units[i] ELSE f[i - 1] \o units[i]]
            f0 == [i \in 1 .. n |-> PutOutFrom(0, LengthOf(i))]
            flat == CHOOSE f : f = made(f)
<1>1. Len(units) = n OBVIOUS
<1>2. CASE n = 0
  <2>1. FlattenSeq(units) = units BY <1>1, <1>2 DEF FlattenSeq
  <2>2. LengthOf(n) - 0 = 0 BY <1>2 DEF LengthOf
  <2>3. units = PutOutFrom(0, LengthOf(n)) BY <1>2, <2>2 DEF PutOutFrom
  <2> QED BY <2>1, <2>3 DEF Stream
<1>3. CASE n > 0
  <2>1. \A i \in 1 .. n : units[i] = PutOutFrom(LengthOf(i - 1), LengthOf(i))
    <3>1. ASSUME NEW i \in 1 .. n PROVE AccessUnit(i) = PutOutFrom(LengthOf(i - 1), LengthOf(i))
      BY UnitIs
    <3> QED BY <3>1
  <2>2. Stream(n) = flat[n]
    <3>1. FlattenSeq(units) = flat[n] BY <1>1, <1>3 DEF FlattenSeq
    <3> QED BY <3>1 DEF Stream
  <2>. HIDE DEF units
  <2>3. ASSUME NEW i \in 1 .. n, i # 1
        PROVE  PutOutFrom(0, LengthOf(i - 1)) \o units[i] = PutOutFrom(0, LengthOf(i))
    <3>1. /\ 0 \in Nat /\ LengthOf(i - 1) \in Nat /\ LengthOf(i) \in Nat /\ 0 <= LengthOf(i - 1)
          /\ LengthOf(i - 1) <= LengthOf(i)
      BY DEF LengthOf
    <3>2. units[i] = PutOutFrom(LengthOf(i - 1), LengthOf(i)) BY <2>1
    <3>. DEFINE a == LengthOf(i - 1)
                c == LengthOf(i)
    <3>. HIDE DEF a, c
    <3>3. PutOutFrom(0, a) \o PutOutFrom(a, c) = PutOutFrom(0, c) BY <3>1, PutOutJoins DEF a, c
    <3> QED BY <3>2, <3>3 DEF a, c
  <2>4. units[1] = PutOutFrom(0, LengthOf(1))
    <3>1. 1 \in 1 .. n /\ LengthOf(1 - 1) = 0 BY <1>3 DEF LengthOf
    <3> QED BY <2>1, <3>1
  <2>5. \E f : f = made(f)
    <3>1. ASSUME NEW i \in 1 .. n
          PROVE  f0[i] = IF i = 1 THEN units[i] ELSE f0[i - 1] \o units[i]
      <4>1. CASE i = 1 BY <2>4, <4>1
      <4>2. CASE i # 1
        <5>1. i - 1 \in 1 .. n BY <4>2
        <5> QED BY <2>3, <4>2, <5>1
      <4> QED BY <4>1, <4>2
    <3>2. f0 = [i \in 1 .. n |-> f0[i]] OBVIOUS
    <3>. HIDE DEF f0
    <3>3. f0 = made(f0) BY <3>1, <3>2
    <3> QED BY <3>3
  <2>6. flat = made(flat) BY <2>5
  <2>. HIDE DEF flat
  <2>7. \A i \in 1 .. n : flat[i] = IF i = 1 THEN units[i] ELSE flat[i - 1] \o units[i]
    <3>. DEFINE g == made(flat)
    <3>1. \A i \in 1 .. n : g[i] = IF i = 1 THEN units[i] ELSE flat[i - 1] \o units[i] OBVIOUS
    <3>. HIDE DEF g
    <3>2. flat = g BY <2>6 DEF g
    <3> QED BY <3>1, <3>2
  <2>. DEFINE T == {i \in 1 .. n : flat[i] # PutOutFrom(0, LengthOf(i))}
  <2>8. T = {}
    <3>1. SUFFICES ASSUME T # {} PROVE FALSE OBVIOUS
    <3>2. PICK i \in T : \A k \in T : i <= k
      <4>1. T \subseteq Nat OBVIOUS
      <4>. HIDE DEF T
      <4> QED BY <3>1, <4>1, Least
    <3>3. i \in 1 .. n /\ flat[i] # PutOutFrom(0, LengthOf(i)) OBVIOUS
    <3>4. CASE i = 1 BY <2>4, <2>7, <3>3, <3>4
    <3>5. CASE i # 1
      <4>1. i - 1 \in 1 .. n /\ ~(i <= i - 1) BY <3>3, <3>5
      <4>2. flat[i - 1] = PutOutFrom(0, LengthOf(i - 1)) BY <3>2, <4>1
      <4> QED BY <2>3, <2>7, <3>3, <3>5, <4>2
    <3> QED BY <3>4, <3>5
  <2>9. n \in 1 .. n BY <1>3
  <2> QED BY <2>2, <2>8, <2>9
<1> QED BY <1>2, <1>3

LEMMA StreamLength ==
  ASSUME NEW n \in Nat
  PROVE  LengthOf(n) \in Nat /\ Len(Stream(n)) = LengthOf(n)
<1>1. 0 \in Nat /\ LengthOf(n) \in Nat /\ 0 <= LengthOf(n) /\ LengthOf(n) - 0 = LengthOf(n)
  BY DEF LengthOf
<1> QED BY <1>1, StreamIs, PutOutIs

-----------------------------------------------------------------------------
\* What CodeAt finds at offset i of what is pending: the start code of a group, and in that of
\* four bytes the one of three.
\* Offset g is in group k, with r bytes before it.
LiesIn(g, k, r) == g = 5 * (k - 1) + r
CodeIn(b, k, r) == IF r = 0 \/ (r = 1 /\ ~IsSlice(k)) THEN DataOf(k) - b ELSE -1
LEMMA CodeIs ==
  ASSUME NEW b \in Nat, NEW m \in Nat, NEW k \in Nat, NEW r \in 0 .. 4, NEW i \in Nat, k > 0,
         LiesIn(b + i, k, r), b + i + 3 < m
  PROVE  CodeAt(PutOutFrom(b, m), i) = CodeIn(b, k, r)
<1>. DEFINE s == PutOutFrom(b, m)
            g == 5 * (k - 1)
<1>0. b + i = 5 * (k - 1) + r BY DEF LiesIn
<1>1. \A x \in 0 .. 3 : At(s, i + x) = PutOut(g + r + x)
  <2>1. ASSUME NEW x \in 0 .. 3 PROVE s[(i + x) + 1] = PutOut(g + r + x)
    <3>1. b <= m /\ (i + x) + 1 \in 1 .. m - b /\ b + ((i + x) + 1) - 1 = g + r + x BY <1>0
    <3>2. \A y \in 1 .. m - b : s[y] = PutOut(b + y - 1) BY <3>1, PutOutIs
    <3>. HIDE DEF s, g
    <3> QED BY <3>1, <3>2
  <2> QED BY <2>1 DEF At
<1>2. \A x \in 0 .. 4 : PutOut(g + x) = ByteIn(k, x) BY PutOutAt
<1>3. \A x \in 0 .. 4 : PutOut(g + 5 + x) = ByteIn(k + 1, x)
  <2>1. k + 1 \in Nat /\ k + 1 > 0 OBVIOUS
  <2>2. \A x \in 0 .. 4 : PutOut(5 * ((k + 1) - 1) + x) = ByteIn(k + 1, x) BY <2>1, PutOutAt
  <2>3. \A x \in 0 .. 4 : 5 * ((k + 1) - 1) + x = g + 5 + x OBVIOUS
  <2> QED BY <2>2, <2>3
<1>4. g \in Int /\ g - b + r = i BY <1>0
<1>5. DataOf(k) - b = IF IsSlice(k) THEN g + 3 - b ELSE g + 4 - b BY DEF DataOf
<1>6. ByteIn(k, 0) = 0 /\ ByteIn(k, 1) = 0 /\ ByteIn(k + 1, 0) = 0 /\ ByteIn(k + 1, 1) = 0
  BY DEF ByteIn
<1>7. At(s, i) = PutOut(g + r)
  <2>1. 0 \in 0 .. 3 /\ i + 0 = i /\ g + r + 0 = g + r BY <1>4
  <2> QED BY <1>1, <2>1
<1>. HIDE DEF s, g
<1>8. CASE r = 0
  <2>1. At(s, i) = 0 /\ At(s, i + 1) = 0 /\ At(s, i + 2) = ByteIn(k, 2) /\ At(s, i + 3) = ByteIn(k, 3)
    BY <1>1, <1>2, <1>4, <1>6, <1>7, <1>8
  <2>2. CASE IsSlice(k)
    <3>1. ByteIn(k, 2) = 1 BY <2>2 DEF ByteIn
    <3> QED BY <1>4, <1>5, <1>8, <2>1, <2>2, <3>1 DEF CodeAt, CodeIn, s
  <2>3. CASE ~IsSlice(k)
    <3>1. ByteIn(k, 2) = 0 /\ ByteIn(k, 3) = 1 BY <2>3 DEF ByteIn
    <3> QED BY <1>4, <1>5, <1>8, <2>1, <2>3, <3>1 DEF CodeAt, CodeIn, s
  <2> QED BY <2>2, <2>3
<1>9. CASE r = 1
  <2>1. At(s, i) = 0 /\ At(s, i + 1) = ByteIn(k, 2) /\ At(s, i + 2) = ByteIn(k, 3)
    BY <1>1, <1>2, <1>4, <1>6, <1>7, <1>9
  <2>2. CASE IsSlice(k)
    <3>1. ByteIn(k, 2) = 1 BY <2>2 DEF ByteIn
    <3> QED BY <1>9, <2>1, <2>2, <3>1 DEF CodeAt, CodeIn, s
  <2>3. CASE ~IsSlice(k)
    <3>1. ByteIn(k, 2) = 0 /\ ByteIn(k, 3) = 1 BY <2>3 DEF ByteIn
    <3> QED BY <1>4, <1>5, <1>9, <2>1, <2>3, <3>1 DEF CodeAt, CodeIn, s
  <2> QED BY <2>2, <2>3
<1>10. CASE r = 2
  <2>1. At(s, i) = ByteIn(k, 2) /\ At(s, i + 1) = ByteIn(k, 3)
    BY <1>1, <1>2, <1>4, <1>7, <1>10
  <2>2. ByteIn(k, 2) # 0 \/ ByteIn(k, 3) # 0
    BY DEF ByteIn, FirstByte, KeyByte, SliceByte
  <2> QED BY <1>10, <2>1, <2>2 DEF CodeAt, CodeIn, s
<1>11. CASE r \in {3, 4}
  <2>1. At(s, i) = ByteIn(k, r) BY <1>2, <1>7, <1>11
  <2>2. ByteIn(k, r) # 0
    <3>1. k \div 2 \in Nat OBVIOUS
    <3> QED BY <1>11, <3>1 DEF ByteIn, FirstByte, KeyByte, SliceByte, AudByte, SpsByte
  <2> QED BY <1>11, <2>1, <2>2 DEF CodeAt, CodeIn, s
<1> QED BY <1>8, <1>9, <1>10, <1>11

LEMMA NalsAre ==
  ASSUME NEW j \in Nat, NEW k \in Nat, j <= k + 1
  PROVE  /\ NalsFrom(j, k) = [i \in 1 .. k - j + 1 |-> NalsFrom(j, k)[i]]
         /\ DOMAIN NalsFrom(j, k) = 1 .. k - j + 1 /\ Len(NalsFrom(j, k)) = k - j + 1
         /\ \A i \in 1 .. k - j + 1 : NalsFrom(j, k)[i] = NalOf(j + i - 1, 5 * (j - 1))
         /\ \A T : (\A i \in 1 .. k - j + 1 : NalOf(j + i - 1, 5 * (j - 1)) \in T) => NalsFrom(j, k) \in Seq(T)
<1>1. k - j + 1 \in Nat OBVIOUS
<1> QED BY <1>1 DEF NalsFrom

LEMMA NalsGrow ==
  ASSUME NEW j \in Nat, NEW k \in Nat, j <= k + 1
  PROVE  Append(NalsFrom(j, k), NalOf(k + 1, 5 * (j - 1))) = NalsFrom(j, k + 1)
<1>. DEFINE s == NalsFrom(j, k)
            t == NalsFrom(j, k + 1)
            n == k - j + 1
            x == NalOf(k + 1, 5 * (j - 1))
            T == {NalOf(i, 5 * (j - 1)) : i \in Nat}
<1>1. n \in Nat /\ j <= (k + 1) + 1 /\ (k + 1) - j + 1 = n + 1 /\ j + (n + 1) - 1 = k + 1 OBVIOUS
<1>2. /\ s \in Seq(T) /\ Len(s) = n /\ \A i \in 1 .. n : s[i] = NalOf(j + i - 1, 5 * (j - 1))
  <2>1. \A i \in 1 .. n : j + i - 1 \in Nat OBVIOUS
  <2>2. \A i \in 1 .. n : NalOf(j + i - 1, 5 * (j - 1)) \in T BY <2>1
  <2>. HIDE DEF T
  <2> QED BY <2>2, NalsAre
<1>3. /\ t \in Seq(T) /\ Len(t) = n + 1 /\ \A i \in 1 .. n + 1 : t[i] = NalOf(j + i - 1, 5 * (j - 1))
  <2>1. \A i \in 1 .. n + 1 : j + i - 1 \in Nat OBVIOUS
  <2>2. \A i \in 1 .. n + 1 : NalOf(j + i - 1, 5 * (j - 1)) \in T BY <2>1
  <2>3. k + 1 \in Nat OBVIOUS
  <2>. HIDE DEF T
  <2> QED BY <1>1, <2>2, <2>3, NalsAre
<1>4. x \in T OBVIOUS
<1>. HIDE DEF s, t, x, T, n
<1>5. /\ Append(s, x) \in Seq(T) /\ Len(Append(s, x)) = n + 1
      /\ \A i \in 1 .. n : Append(s, x)[i] = s[i]
      /\ Append(s, x)[n + 1] = x
  BY <1>1, <1>2, <1>4
<1>6. ASSUME NEW i \in 1 .. n + 1 PROVE Append(s, x)[i] = t[i]
  <2>1. CASE i = n + 1 BY <1>1, <1>3, <1>5, <2>1 DEF x
  <2>2. CASE i # n + 1
    <3>1. i \in 1 .. n BY <1>1, <2>2
    <3> QED BY <1>2, <1>3, <1>5, <3>1
  <2> QED BY <2>1, <2>2
<1>7. Append(s, x) = t BY <1>3, <1>5, <1>6, SeqEqual
<1> QED BY <1>7 DEF s, t, x

\* The units known when those that begin before offset g were looked for, in the first m bytes.
KnownBy(k, m, g) ==
  LET most == NotAbove(BegunBy(m), (g + 4) \div 5)
  IN  IF most > k THEN most ELSE k

LEMMA BegunIs ==
  ASSUME NEW m \in Nat, NEW k \in Nat, k > 0
  PROVE  BegunBy(m) \in Nat /\ (DataOf(k) < m <=> k <= BegunBy(m))
<1>1. m \div 5 \in Nat /\ m % 5 \in 0 .. 4 /\ m = 5 * (m \div 5) + (m % 5) OBVIOUS
<1>2. BegunBy(m) \in Nat BY <1>1 DEF BegunBy
<1>. DEFINE q == m \div 5
            r == m % 5
<1>. HIDE DEF q, r
<1>3. q \in Nat /\ r \in 0 .. 4 /\ m = 5 * q + r BY <1>1 DEF q, r
<1>4. BegunBy(m) = IF r = 4 /\ IsSlice(q + 1) THEN q + 1 ELSE q BY DEF BegunBy, q, r
<1>5. CASE IsSlice(k)
  <2>1. DataOf(k) = 5 * k - 2 BY <1>5 DEF DataOf
  <2>2. CASE k = q + 1 BY <1>3, <1>4, <1>5, <2>1, <2>2
  <2>3. CASE k # q + 1 BY <1>3, <1>4, <2>1, <2>3
  <2> QED BY <2>2, <2>3
<1>6. CASE ~IsSlice(k)
  <2>1. DataOf(k) = 5 * k - 1 BY <1>6 DEF DataOf
  <2>2. CASE k = q + 1 BY <1>3, <1>4, <1>6, <2>1, <2>2
  <2>3. CASE k # q + 1 BY <1>3, <1>4, <2>1, <2>3
  <2> QED BY <2>2, <2>3
<1> QED BY <1>2, <1>5, <1>6

\* One more offset.
LEMMA LookedIs ==
  ASSUME NEW j \in Nat, j > 0, NEW k \in Nat, NEW m \in Nat, j <= k + 1, k <= BegunBy(m), NEW i \in Nat,
         5 * (j - 1) + i + 3 < m, j > 1 => j <= k
  PROVE  LET b == 5 * (j - 1)
         IN  Looked(PutOutFrom(b, m), NalsFrom(j, KnownBy(k, m, b + i)), i) = NalsFrom(j, KnownBy(k, m, b + i + 1))
<1>. DEFINE b == 5 * (j - 1)
            s == PutOutFrom(b, m)
            c == (b + i) \div 5
            r == (b + i) % 5
            h == c + 1
            now == KnownBy(k, m, b + i)
            next == KnownBy(k, m, b + i + 1)
            nals == NalsFrom(j, now)
<1>1. b \in Nat /\ c \in Nat /\ r \in 0 .. 4 /\ b + i = 5 * c + r OBVIOUS
<1>2. /\ (b + i + 4) \div 5 = IF r = 0 THEN c ELSE c + 1
      /\ (b + i + 1 + 4) \div 5 = c + 1
  BY <1>1
<1>. HIDE DEF c, r
<1>3. BegunBy(m) \in Nat BY BegunIs
<1>4. /\ now = IF NotAbove(BegunBy(m), IF r = 0 THEN c ELSE c + 1) > k
               THEN NotAbove(BegunBy(m), IF r = 0 THEN c ELSE c + 1) ELSE k
      /\ next = IF NotAbove(BegunBy(m), c + 1) > k THEN NotAbove(BegunBy(m), c + 1) ELSE k
  BY <1>2 DEF KnownBy
<1>5. /\ now \in Nat /\ next \in Nat /\ j <= now + 1 /\ k <= now
      /\ next = IF r = 0 /\ h > now /\ h <= BegunBy(m) THEN h ELSE now
      /\ (h <= BegunBy(m) /\ h > now => now = c /\ r = 0)
  BY <1>1, <1>3, <1>4 DEF NotAbove
<1>. HIDE DEF now, next
<1>6. h \in Nat /\ h > 0 /\ b + i = 5 * (h - 1) + r /\ h >= j /\ b = 5 * j - 5 BY <1>1
<1>7. CodeAt(s, i) = IF r = 0 \/ (r = 1 /\ ~IsSlice(h)) THEN DataOf(h) - b ELSE -1
  <2>1. b + i + 3 < m OBVIOUS
  <2>. HIDE DEF b, h
  <2>2. /\ b \in Nat /\ m \in Nat /\ h \in Nat /\ h > 0 /\ r \in 0 .. 4 /\ i \in Nat
        /\ LiesIn(b + i, h, r) /\ b + i + 3 < m
    BY <1>1, <1>6, <2>1 DEF LiesIn
  <2>3. CodeAt(PutOutFrom(b, m), i) = CodeIn(b, h, r) BY <2>2, CodeIs
  <2> QED BY <2>3 DEF CodeIn
<1>8. Len(s) = m - b
  <2>1. b <= m OBVIOUS
  <2>. HIDE DEF b
  <2> QED BY <1>1, <2>1, PutOutIs
<1>9. \A x \in Nat : x > 0 => DataOf(x) \in {5 * x - 2, 5 * x - 1} BY DEF DataOf
<1>10. Len(nals) = now - j + 1 /\ (now >= j => nals[now - j + 1] = NalOf(now, b))
  <2>1. now >= j => now - j + 1 \in 1 .. now - j + 1 /\ j + (now - j + 1) - 1 = now BY <1>5
  <2>2. /\ Len(NalsFrom(j, now)) = now - j + 1
        /\ \A x \in 1 .. now - j + 1 : NalsFrom(j, now)[x] = NalOf(j + x - 1, 5 * (j - 1))
    BY <1>5, NalsAre, Zenon
  <2>. DEFINE l == now - j + 1
  <2>3. now >= j => l \in 1 .. l /\ j + l - 1 = now BY <2>1
  <2>4. now >= j => NalsFrom(j, now)[l] = NalOf(now, 5 * (j - 1))
    <3>. HIDE DEF l
    <3>1. \A x \in 1 .. l : NalsFrom(j, now)[x] = NalOf(j + x - 1, 5 * (j - 1)) BY <2>2 DEF l
    <3> QED BY <2>3, <3>1
  <2> QED BY <2>2, <2>4
<1>11. LastData(nals) = IF now >= j THEN DataOf(now) - b ELSE -1
  <2>1. CASE now >= j
    <3>1. Len(nals) > 0 BY <1>5, <1>10, <2>1
    <3>2. nals # <<>> BY <3>1
    <3>. HIDE DEF nals
    <3> QED BY <1>10, <2>1, <3>2 DEF LastData, NalOf
  <2>2. CASE ~(now >= j)
    <3>1. now - j + 1 = 0 BY <1>5, <2>2
    <3>2. nals = <<>> BY <3>1 DEF NalsFrom
    <3> QED BY <2>2, <3>2 DEF LastData
  <2> QED BY <2>1, <2>2
<1>. DEFINE data == CodeAt(s, i)
<1>12. (data > LastData(nals) /\ data < Len(s)) <=> (r = 0 /\ h > now /\ h <= BegunBy(m))
  <2>1. CASE r = 0 \/ (r = 1 /\ ~IsSlice(h))
    <3>1. data = DataOf(h) - b /\ (DataOf(h) < m <=> h <= BegunBy(m)) BY <1>6, <1>7, <2>1, BegunIs
    <3>2. DataOf(h) \in {5 * h - 2, 5 * h - 1} /\ (now >= j => DataOf(now) \in {5 * now - 2, 5 * now - 1})
      BY <1>5, <1>6, <1>9
    <3>3. data < Len(s) <=> h <= BegunBy(m) BY <1>1, <1>8, <3>1, <3>2
    <3>4. h > now => data > LastData(nals)
      <4>. HIDE DEF h, data, s, nals, b
      <4>1. CASE now >= j BY <1>1, <1>5, <1>6, <1>11, <3>1, <3>2, <4>1
      <4>2. CASE ~(now >= j)
        <5>1. 5 * h - 2 > b BY <1>6
        <5> QED BY <1>1, <1>6, <1>11, <3>1, <3>2, <4>2, <5>1
      <4> QED BY <4>1, <4>2
    <3>5. ~(h > now) => ~(data > LastData(nals))
      <4>1. ASSUME h <= now PROVE ~(data > LastData(nals))
        <5>1. now >= j BY <1>1, <1>5, <1>6, <4>1
        <5>. HIDE DEF h, data, s, nals, b
        <5>2. CASE h = now BY <1>1, <1>5, <1>6, <1>11, <3>1, <3>2, <5>1, <5>2
        <5>3. CASE h # now BY <1>1, <1>5, <1>6, <1>11, <3>1, <3>2, <4>1, <5>1, <5>3
        <5> QED BY <5>2, <5>3
      <4> QED BY <1>5, <1>6, <4>1
    <3> QED BY <1>5, <3>3, <3>4, <3>5
  <2>2. CASE ~(r = 0 \/ (r = 1 /\ ~IsSlice(h)))
    <3>1. data = -1 BY <1>7, <2>2
    <3>2. LastData(nals) \in Int /\ LastData(nals) >= -1
      <4>1. now >= j => DataOf(now) \in {5 * now - 2, 5 * now - 1} BY <1>5, <1>9
      <4> QED BY <1>5, <1>11, <4>1
    <3> QED BY <2>2, <3>1, <3>2
  <2> QED BY <2>1, <2>2
<1>13. CASE r = 0 /\ h > now /\ h <= BegunBy(m)
  <2>1. now = c /\ h = now + 1 /\ next = h BY <1>1, <1>5, <1>13
  <2>2. data = DataOf(h) - b /\ i = 5 * (h - 1) - b /\ DataOf(h) < m BY <1>1, <1>6, <1>7, <1>13, BegunIs
  <2>3. At(s, data) = FirstByte(h)
    <3>1. DataOf(h) = IF IsSlice(h) THEN 5 * (h - 1) + 3 ELSE 5 * (h - 1) + 4 BY <1>6 DEF DataOf
    <3>2. data + 1 \in 1 .. m - b /\ b + (data + 1) - 1 = DataOf(h)
      <4>1. DataOf(h) \in {5 * h - 2, 5 * h - 1} BY <1>6, <1>9
      <4>2. b <= DataOf(h) BY <1>1, <1>6, <1>13, <2>2, <4>1
      <4>. HIDE DEF data, b
      <4> QED BY <1>1, <1>6, <2>2, <4>1, <4>2
    <3>3. s[data + 1] = PutOut(DataOf(h))
      <4>1. b <= m OBVIOUS
      <4>2. \A x \in 1 .. m - b : s[x] = PutOut(b + x - 1) BY <1>1, <4>1, PutOutIs
      <4>. HIDE DEF data, s, b
      <4> QED BY <3>2, <4>2
    <3>4. PutOut(DataOf(h)) = FirstByte(h)
      <4>1. \A x \in 0 .. 4 : PutOut(5 * (h - 1) + x) = ByteIn(h, x) BY <1>6, PutOutAt
      <4>2. CASE IsSlice(h)
        <5>1. PutOut(DataOf(h)) = ByteIn(h, 3) BY <3>1, <4>1, <4>2
        <5> QED BY <4>2, <5>1 DEF ByteIn
      <4>3. CASE ~IsSlice(h)
        <5>1. PutOut(DataOf(h)) = ByteIn(h, 4) BY <3>1, <4>1, <4>3
        <5> QED BY <4>3, <5>1 DEF ByteIn
      <4> QED BY <4>2, <4>3
    <3> QED BY <3>3, <3>4 DEF At
  <2>4. [pos |-> i, data |-> data, type |-> TypeOf(At(s, data))] = NalOf(h, b) BY <2>2, <2>3 DEF NalOf
  <2>5. Append(nals, NalOf(h, b)) = NalsFrom(j, next)
    <3>1. Append(NalsFrom(j, now), NalOf(now + 1, b)) = NalsFrom(j, now + 1) BY <1>5, NalsGrow
    <3> QED BY <2>1, <3>1
  <2> QED BY <1>12, <1>13, <2>4, <2>5 DEF Looked, now, next
<1>14. CASE ~(r = 0 /\ h > now /\ h <= BegunBy(m))
  <2>1. next = now BY <1>5, <1>14
  <2> QED BY <1>12, <1>14, <2>1 DEF Looked, now, next
<1> QED BY <1>13, <1>14

LEMMA BegunBounds ==
  ASSUME NEW m \in Nat
  PROVE  BegunBy(m) \in Nat /\ BegunBy(m) \in {m \div 5, (m + 1) \div 5}
<1>1. m \div 5 \in Nat /\ (m % 5 = 4 => (m + 1) \div 5 = (m \div 5) + 1) OBVIOUS
<1> QED BY <1>1 DEF BegunBy

LEMMA BegunGrows ==
  ASSUME NEW m \in Nat, NEW n \in Nat, m <= n
  PROVE  BegunBy(m) <= BegunBy(n)
<1>1. CASE m = n BY <1>1, BegunBounds
<1>2. CASE m < n
  <2>1. m \div 5 <= n \div 5 /\ (m + 1) \div 5 <= n \div 5 BY <1>2
  <2>2. n \div 5 <= (n + 1) \div 5 OBVIOUS
  <2>3. m \div 5 \in Nat /\ n \div 5 \in Nat /\ (m + 1) \div 5 \in Nat /\ (n + 1) \div 5 \in Nat OBVIOUS
  <2> QED BY <2>1, <2>2, <2>3, BegunBounds
<1> QED BY <1>1, <1>2

\* What a scan begins with, and where it ends.
LEMMA ScanBounds ==
  ASSUME NEW j \in Nat, NEW k \in Nat, NEW m \in Nat, NEW n \in Nat, NEW f \in Nat,
         j > 0, j <= k + 1, 5 * (j - 1) <= m, m <= n, k = BegunBy(m),
         f <= NotBelowZero(m - 5 * (j - 1) - 4)
  PROVE  LET b == 5 * (j - 1)
             from == NotBelowZero(f - 4)
             count == NotBelowZero(n - b - 3 - from)
         IN  /\ from \in Nat /\ count \in Nat /\ (count > 0 => count = n - b - 3 - from)
             /\ k <= BegunBy(n)
             /\ KnownBy(k, n, b + from) = k /\ KnownBy(k, n, b + from + count) = BegunBy(n)
<1>. DEFINE b == 5 * (j - 1)
            from == NotBelowZero(f - 4)
            count == NotBelowZero(n - b - 3 - from)
            c == BegunBy(n)
<1>1. b \in Nat /\ b = 5 * j - 5 OBVIOUS
<1>2. from \in Nat /\ (from > 0 => from <= m - b - 8) BY <1>1 DEF NotBelowZero
<1>. HIDE DEF from
<1>3. count \in Nat /\ (count > 0 => count = n - b - 3 - from) /\ (count = 0 => n - b - 3 - from <= 0)
  BY <1>1, <1>2 DEF NotBelowZero
<1>. HIDE DEF count, b
<1>4. c \in Nat /\ k <= c BY BegunGrows, BegunBounds
<1>5. c \in {n \div 5, (n + 1) \div 5} /\ k \in {m \div 5, (m + 1) \div 5} BY BegunBounds
<1>. HIDE DEF c
<1>6. (b + from + 4) \div 5 <= k
  <2>1. CASE from = 0
    <3>1. (b + from + 4) \div 5 = j - 1 BY <1>1, <2>1
    <3> QED BY <3>1
  <2>2. CASE from > 0
    <3>1. b + from + 4 <= m - 4 BY <1>1, <1>2, <2>2
    <3>2. (b + from + 4) \div 5 <= m \div 5 BY <1>1, <1>2, <3>1
    <3>3. m \div 5 <= (m + 1) \div 5 /\ m \div 5 \in Nat /\ (m + 1) \div 5 \in Nat
          /\ (b + from + 4) \div 5 \in Nat
      BY <1>1, <1>2
    <3> QED BY <1>5, <3>2, <3>3
  <2> QED BY <1>2, <2>1, <2>2
<1>7. KnownBy(k, n, b + from) = k
  <2>1. (b + from + 4) \div 5 \in Nat BY <1>1, <1>2
  <2> QED BY <1>4, <1>6, <2>1 DEF KnownBy, NotAbove, c
<1>8. KnownBy(k, n, b + from + count) = c
  <2>1. CASE count > 0
    <3>1. (b + from + count + 4) \div 5 = (n + 1) \div 5
      <4>1. b + from + count + 4 = n + 1 BY <1>1, <1>2, <1>3, <2>1
      <4> QED BY <4>1
    <3>2. c <= (n + 1) \div 5 /\ (n + 1) \div 5 \in Nat
      <4>1. n \div 5 <= (n + 1) \div 5 /\ n \div 5 \in Nat /\ (n + 1) \div 5 \in Nat OBVIOUS
      <4> QED BY <1>5, <4>1
    <3> QED BY <1>4, <3>1, <3>2 DEF KnownBy, NotAbove, c
  <2>2. CASE count = 0
    <3>1. b + from + count = b + from BY <1>1, <1>2, <2>2
    <3>2. c = k
      <4>1. CASE from > 0 BY <1>1, <1>2, <1>3, <2>2, <4>1
      <4>2. CASE from = 0
        <5>1. n <= b + 3 /\ m >= b BY <1>1, <1>3, <2>2, <4>2 DEF b
        <5>2. n \div 5 = j - 1 /\ (n + 1) \div 5 = j - 1 BY <1>1, <5>1
        <5> QED BY <1>4, <1>5, <5>2
      <4> QED BY <1>2, <4>1, <4>2
    <3> QED BY <1>7, <3>1, <3>2
  <2> QED BY <1>3, <2>1, <2>2
<1> QED BY <1>2, <1>3, <1>4, <1>7, <1>8 DEF b, from, count, c

ScannedTo(p, nals, from) == [p EXCEPT !.nals = nals, !.scanFrom = from]

\* However the pipe has cut the output: after the scan every unit is known whose first byte was
\* read.
LEMMA ScannedIs ==
  ASSUME NEW j \in Nat, NEW k \in Nat, NEW m \in Nat, NEW n \in Nat, NEW p,
         j > 0, j <= k + 1, j > 1 => j <= k, 5 * (j - 1) <= m, m <= n, k = BegunBy(m),
         p.pending = PutOutFrom(5 * (j - 1), n), p.nals = NalsFrom(j, k), p.scanFrom \in Nat,
         p.scanFrom <= NotBelowZero(m - 5 * (j - 1) - 4)
  PROVE  Scanned(p) = ScannedTo(p, NalsFrom(j, BegunBy(n)), NotBelowZero(n - 5 * (j - 1) - 4))
<1>. DEFINE b == 5 * (j - 1)
            s == PutOutFrom(b, n)
            from == NotBelowZero(p.scanFrom - 4)
            count == NotBelowZero(n - b - 3 - from)
            made(f) == [x \in 0 .. count |->
                          IF x = 0 THEN p.nals ELSE Looked(p.pending, f[x - 1], from + x - 1)]
            known == CHOOSE f : f = made(f)
            f0 == [x \in 0 .. count |-> NalsFrom(j, KnownBy(k, n, b + from + x))]
<1>1. b \in Nat /\ b <= n OBVIOUS
<1>2. Len(s) = n - b
  <2>. HIDE DEF b
  <2> QED BY <1>1, PutOutIs
<1>3. /\ from \in Nat /\ count \in Nat /\ (count > 0 => count = n - b - 3 - from)
      /\ k <= BegunBy(n)
      /\ KnownBy(k, n, b + from) = k /\ KnownBy(k, n, b + from + count) = BegunBy(n)
  BY ScanBounds
<1>4. Scanned(p) = [p EXCEPT !.nals = known[count], !.scanFrom = NotBelowZero(n - b - 4)]
  <2>1. Len(p.pending) = n - b /\ (n - b) - 3 - from = n - b - 3 - from /\ (n - b) - 4 = n - b - 4
    BY <1>2
  <2> QED BY <2>1 DEF Scanned
<1>. HIDE DEF from, count
<1>5. ASSUME NEW x \in 1 .. count
      PROVE  Looked(p.pending, NalsFrom(j, KnownBy(k, n, b + from + (x - 1))), from + x - 1)
               = NalsFrom(j, KnownBy(k, n, b + from + x))
  <2>. DEFINE i == from + x - 1
  <2>1. i \in Nat /\ 5 * (j - 1) + i + 3 < n /\ b + from + (x - 1) = b + i /\ b + from + x = b + i + 1
    BY <1>1, <1>3
  <2>. HIDE DEF i
  <2>2. Looked(PutOutFrom(5 * (j - 1), n), NalsFrom(j, KnownBy(k, n, 5 * (j - 1) + i)), i)
          = NalsFrom(j, KnownBy(k, n, 5 * (j - 1) + i + 1))
    BY <1>3, <2>1, LookedIs
  <2> QED BY <2>1, <2>2 DEF i
<1>6. NalsFrom(j, KnownBy(k, n, b + from + 0)) = p.nals
  <2>1. b + from + 0 = b + from BY <1>1, <1>3
  <2> QED BY <1>3, <2>1
<1>. HIDE DEF b
<1>7. \E f : f = made(f)
  <2>1. ASSUME NEW x \in 0 .. count
        PROVE  f0[x] = IF x = 0 THEN p.nals ELSE Looked(p.pending, f0[x - 1], from + x - 1)
    <3>1. CASE x = 0 BY <1>6, <3>1
    <3>2. CASE x # 0
      <4>1. x \in 1 .. count /\ x - 1 \in 0 .. count BY <1>3, <3>2
      <4> QED BY <1>5, <3>2, <4>1
    <3> QED BY <3>1, <3>2
  <2>2. f0 = [x \in 0 .. count |-> f0[x]] OBVIOUS
  <2>. HIDE DEF f0
  <2>3. f0 = made(f0) BY <2>1, <2>2
  <2> QED BY <2>3
<1>8. known = made(known) BY <1>7
<1>. HIDE DEF known
<1>9. \A x \in 0 .. count :
        known[x] = IF x = 0 THEN p.nals ELSE Looked(p.pending, known[x - 1], from + x - 1)
  <2>. DEFINE g == made(known)
  <2>1. \A x \in 0 .. count :
          g[x] = IF x = 0 THEN p.nals ELSE Looked(p.pending, known[x - 1], from + x - 1)
    OBVIOUS
  <2>. HIDE DEF g
  <2>2. known = g BY <1>8 DEF g
  <2> QED BY <2>1, <2>2
<1>. DEFINE T == {x \in 0 .. count : known[x] # NalsFrom(j, KnownBy(k, n, b + from + x))}
<1>10. T = {}
  <2>1. SUFFICES ASSUME T # {} PROVE FALSE OBVIOUS
  <2>2. PICK x \in T : \A y \in T : x <= y
    <3>1. T \subseteq Nat OBVIOUS
    <3>. HIDE DEF T
    <3> QED BY <2>1, <3>1, Least
  <2>3. x \in 0 .. count /\ known[x] # NalsFrom(j, KnownBy(k, n, b + from + x)) OBVIOUS
  <2>4. CASE x = 0 BY <1>6, <1>9, <2>3, <2>4
  <2>5. CASE x # 0
    <3>1. x - 1 \in 0 .. count /\ ~(x <= x - 1) /\ x \in 1 .. count BY <1>3, <2>3, <2>5
    <3>2. known[x - 1] = NalsFrom(j, KnownBy(k, n, b + from + (x - 1))) BY <2>2, <3>1
    <3> QED BY <1>5, <1>9, <2>3, <2>5, <3>1, <3>2
  <2> QED BY <2>4, <2>5
<1>11. known[count] = NalsFrom(j, BegunBy(n))
  <2>1. count \in 0 .. count BY <1>3
  <2> QED BY <1>3, <1>10, <2>1
<1> QED BY <1>4, <1>11 DEF b, ScannedTo

-----------------------------------------------------------------------------
\* Which of the units are delimiters, and the last of them.
IsDelimiter(k) == k = 1 \/ (k >= 4 /\ k % 2 = 0)
LEMMA TypesAre ==
  ASSUME NEW k \in Nat, k > 0, NEW b \in Nat
  PROVE  /\ NalOf(k, b).type = AudByte <=> IsDelimiter(k)
         /\ IsConfig(NalOf(k, b)) <=> k = 2
         /\ NalOf(k, b).type = 5 <=> k = 3
         /\ NalOf(k, b).pos = 5 * (k - 1) - b /\ NalOf(k, b).data = DataOf(k) - b
<1>1. NalOf(k, b).type = FirstByte(k) % 32 BY DEF NalOf, TypeOf
<1>2. IsSlice(k) <=> k >= 3 /\ k % 2 = 1 BY DEF IsSlice
<1>3. k % 2 \in {0, 1} /\ 3 % 2 = 1 OBVIOUS
<1>4. CASE k = 3
  <2>1. FirstByte(k) = 101 BY <1>2, <1>3, <1>4 DEF FirstByte, KeyByte
  <2> QED BY <1>1, <1>3, <1>4, <2>1 DEF IsDelimiter, IsConfig, AudByte, NalOf
<1>5. CASE k = 2
  <2>1. FirstByte(k) = 103 BY <1>2, <1>5 DEF FirstByte, SpsByte
  <2> QED BY <1>1, <1>5, <2>1 DEF IsDelimiter, IsConfig, AudByte, NalOf
<1>6. CASE k >= 4 /\ k % 2 = 1
  <2>1. FirstByte(k) = 65 BY <1>2, <1>6 DEF FirstByte, SliceByte
  <2> QED BY <1>1, <1>6, <2>1 DEF IsDelimiter, IsConfig, AudByte, NalOf
<1>7. CASE k = 1 \/ (k >= 4 /\ k % 2 = 0)
  <2>1. FirstByte(k) = 9 BY <1>2, <1>7 DEF FirstByte, AudByte
  <2> QED BY <1>1, <1>7, <2>1 DEF IsDelimiter, IsConfig, AudByte, NalOf
<1> QED BY <1>3, <1>4, <1>5, <1>6, <1>7

LEMMA LastUnitIs ==
  ASSUME NEW k \in Nat, k > 0
  PROVE  /\ LastUnit(k) \in 1 .. k /\ IsDelimiter(LastUnit(k))
         /\ \A h \in 1 .. k : IsDelimiter(h) => h <= LastUnit(k)
<1>1. CASE k <= 3 BY <1>1 DEF LastUnit, IsDelimiter
<1>2. CASE k >= 4
  <2>. DEFINE h == k \div 2
  <2>1. h \in Nat /\ h >= 2 /\ (k = 2 * h \/ k = 2 * h + 1) BY <1>2
  <2>. HIDE DEF h
  <2>2. LastUnit(k) = 2 * h BY <1>2 DEF LastUnit, h
  <2>3. 2 * h >= 4 /\ (2 * h) % 2 = 0 /\ (2 * h + 1) % 2 = 1 BY <2>1
  <2> QED BY <2>1, <2>2, <2>3 DEF IsDelimiter
<1> QED BY <1>1, <1>2

LEMMA LastAudIs ==
  ASSUME NEW j \in Nat, j > 0, NEW k \in Nat, j <= k + 1, IsDelimiter(j), NEW n \in 0 .. k - j + 1
  PROVE  LastAud(NalsFrom(j, k), n) = IF n = 0 THEN 0 ELSE LastUnit(j + n - 1) - j + 1
<1>. DEFINE nals == NalsFrom(j, k)
            auds == {i \in 1 .. n : nals[i].type = AudByte}
            last == LastUnit(j + n - 1) - j + 1
<1>1. \A i \in 1 .. n : nals[i].type = AudByte <=> IsDelimiter(j + i - 1)
  <2>1. ASSUME NEW i \in 1 .. n PROVE nals[i].type = AudByte <=> IsDelimiter(j + i - 1)
    <3>. DEFINE x == j + i - 1
                b == 5 * (j - 1)
    <3>1. i \in 1 .. k - j + 1 /\ x \in Nat /\ x > 0 /\ b \in Nat OBVIOUS
    <3>2. nals[i] = NalOf(x, b) BY <3>1, NalsAre
    <3>. HIDE DEF x, b, nals
    <3>3. NalOf(x, b).type = AudByte <=> IsDelimiter(x) BY <3>1, TypesAre
    <3> QED BY <3>2, <3>3 DEF x
  <2> QED BY <2>1
<1>. HIDE DEF nals
<1>2. CASE n = 0
  <2>1. auds = {} BY <1>2
  <2> QED BY <1>2, <2>1 DEF LastAud, nals
<1>3. CASE n > 0
  <2>. DEFINE m == j + n - 1
  <2>1. m \in Nat /\ m > 0 /\ j \in 1 .. m BY <1>3
  <2>2. /\ LastUnit(m) \in 1 .. m /\ IsDelimiter(LastUnit(m)) /\ j <= LastUnit(m)
        /\ \A h \in 1 .. m : IsDelimiter(h) => h <= LastUnit(m)
    <3>. HIDE DEF m
    <3> QED BY <2>1, LastUnitIs
  <2>3. last \in 1 .. n /\ j + last - 1 = LastUnit(m) BY <2>2
  <2>4. last \in auds BY <1>1, <2>2, <2>3
  <2>5. \A i \in auds : i <= last
    <3>1. ASSUME NEW i \in auds PROVE i <= last
      <4>1. i \in 1 .. n /\ IsDelimiter(j + i - 1) BY <1>1
      <4>2. j + i - 1 \in 1 .. m BY <4>1
      <4>3. j + i - 1 <= LastUnit(m) BY <2>2, <4>1, <4>2
      <4> QED BY <2>2, <4>1, <4>3
    <3> QED BY <3>1
  <2>6. auds \subseteq Int OBVIOUS
  <2>7. (CHOOSE i \in auds : \A h \in auds : h <= i) = last
    <3>. HIDE DEF auds
    <3>1. \E i \in auds : \A h \in auds : h <= i BY <2>4, <2>5
    <3>. DEFINE c == CHOOSE i \in auds : \A h \in auds : h <= i
    <3>2. c \in auds /\ \A h \in auds : h <= c BY <3>1
    <3>. HIDE DEF c, last
    <3>3. c <= last /\ last <= c BY <2>4, <2>5, <3>2
    <3>4. c = last BY <2>3, <2>4, <2>6, <3>2, <3>3
    <3> QED BY <3>4 DEF c
  <2>8. LastAud(NalsFrom(j, k), n) = last BY <2>4, <2>7 DEF LastAud, nals
  <2> QED BY <1>3, <2>8
<1> QED BY <1>2, <1>3

\* NAL units h to k, their offsets counted from b.
NalsIn(h, k, b) == [i \in 1 .. (k - h + 1) |-> NalOf(h + i - 1, b)]
LEMMA NalsAreCut ==
  ASSUME NEW j \in Nat, NEW k \in Nat, j <= k + 1, NEW f \in Nat, f > 0, NEW t \in Nat,
         f <= t + 1, t <= k - j + 1
  PROVE  SubSeq(NalsFrom(j, k), f, t) = NalsIn(j + f - 1, j + t - 1, 5 * (j - 1))
<1>. DEFINE s == NalsFrom(j, k)
            b == 5 * (j - 1)
            T == {NalOf(i, b) : i \in Nat}
            n == t - f + 1
            u == [i \in 1 .. n |-> NalOf((j + f - 1) + i - 1, b)]
            v == SubSeq(s, f, t)
<1>1. n \in Nat /\ (j + t - 1) - (j + f - 1) + 1 = n OBVIOUS
<1>2. u = NalsIn(j + f - 1, j + t - 1, b) BY <1>1 DEF NalsIn
<1>3. ASSUME NEW i \in 1 .. k - j + 1 PROVE s[i] = NalOf(j + i - 1, b) /\ s[i] \in T
  <2>1. j + i - 1 \in Nat OBVIOUS
  <2>2. s[i] = NalOf(j + i - 1, b) BY NalsAre
  <2> QED BY <2>1, <2>2
<1>4. u \in Seq(T) /\ Len(u) = n /\ \A i \in 1 .. n : u[i] = NalOf((j + f - 1) + i - 1, b)
  <2>1. \A i \in 1 .. n : (j + f - 1) + i - 1 \in Nat OBVIOUS
  <2>2. \A i \in 1 .. n : NalOf((j + f - 1) + i - 1, b) \in T BY <2>1
  <2>. HIDE DEF T, n
  <2> QED BY <1>1, <2>2
<1>5. v \in Seq(T) /\ Len(v) = n /\ \A i \in 1 .. n : v[i] = s[f + i - 1]
  <2>1. \A i \in f .. t : s[i] \in T
    <3>1. \A i \in f .. t : i \in 1 .. k - j + 1 OBVIOUS
    <3>. HIDE DEF s, T
    <3> QED BY <1>3, <3>1
  <2>. HIDE DEF s, T
  <2>2. /\ v \in Seq(T) /\ Len(v) = (IF f <= t THEN t - f + 1 ELSE 0)
        /\ \A i \in 1 .. t - f + 1 : v[i] = s[f + i - 1]
    BY <2>1, SubSeqProperties
  <2> QED BY <2>2
<1>. HIDE DEF u, v, T
<1>6. ASSUME NEW i \in 1 .. n PROVE v[i] = u[i]
  <2>1. f + i - 1 \in 1 .. k - j + 1 /\ j + (f + i - 1) - 1 = (j + f - 1) + i - 1 OBVIOUS
  <2>. HIDE DEF n, s, b
  <2> QED BY <1>3, <1>4, <1>5, <2>1
<1>7. v = u BY <1>1, <1>4, <1>5, <1>6, SeqEqual
<1> QED BY <1>2, <1>7 DEF v

LEMMA FlattenOne ==
  ASSUME NEW s, Len(s) = 1
  PROVE  FlattenSeq(s) = s[1]
<1>. DEFINE made(f) == [i \in 1 .. Len(s) |-> IF i = 1 THEN s[i] ELSE f[i - 1] \o s[i]]
            flat == CHOOSE f : f = made(f)
            f0 == [i \in 1 .. 1 |-> s[1]]
<1>1. FlattenSeq(s) = flat[1] BY DEF FlattenSeq
<1>2. f0 = made(f0) OBVIOUS
<1>3. flat = made(flat) BY <1>2
<1>. HIDE DEF flat
<1>4. made(flat)[1] = s[1] OBVIOUS
<1>. HIDE DEF made
<1> QED BY <1>1, <1>3, <1>4

LEMMA FlattenTwo ==
  ASSUME NEW s, Len(s) = 2
  PROVE  FlattenSeq(s) = s[1] \o s[2]
<1>. DEFINE made(f) == [i \in 1 .. Len(s) |-> IF i = 1 THEN s[i] ELSE f[i - 1] \o s[i]]
            flat == CHOOSE f : f = made(f)
            f0 == [i \in 1 .. 2 |-> IF i = 1 THEN s[1] ELSE s[1] \o s[2]]
<1>1. FlattenSeq(s) = flat[2] BY DEF FlattenSeq
<1>2. f0 = made(f0)
  <2>1. \A i \in 1 .. 2 : f0[i] = IF i = 1 THEN s[i] ELSE f0[i - 1] \o s[i] OBVIOUS
  <2>2. f0 = [i \in 1 .. 2 |-> f0[i]] OBVIOUS
  <2>. HIDE DEF f0
  <2> QED BY <2>1, <2>2
<1>3. flat = made(flat) BY <1>2
<1>. HIDE DEF flat
<1>4. made(flat)[1] = s[1] /\ made(flat)[2] = flat[1] \o s[2] OBVIOUS
<1>. HIDE DEF made
<1> QED BY <1>1, <1>3, <1>4

-----------------------------------------------------------------------------
\* An access unit is handed on.
StateOf(j, k, u, m, s, times) ==
  [parser |-> ParserOf(j, k, u, m, s, times), emitted |-> Outputs(u, times)]
BytesBehind(k) == IF IsSlice(k) THEN <<FirstByte(k), 10 + k \div 2>> ELSE <<FirstByte(k)>>

LEMMA PayloadIs ==
  ASSUME NEW b \in Nat, NEW m \in Nat, NEW k \in Nat, k > 0, b <= 5 * (k - 1), 5 * k <= m
  PROVE  UnitBytes(PutOutFrom(b, m), DataOf(k) - b, 5 * k - b) = BytesBehind(k)
<1>. DEFINE d == DataOf(k)
            e == 5 * k
            v == PutOutFrom(d, e)
            w == BytesBehind(k)
<1>1. d \in Nat /\ e \in Nat /\ d = IF IsSlice(k) THEN 5 * (k - 1) + 3 ELSE 5 * (k - 1) + 4
  BY DEF DataOf
<1>2. d - b \in Nat /\ e - b \in Nat /\ d - b <= e - b /\ b + (d - b) = d /\ b + (e - b) = e /\ e <= m
      /\ b + (e - b) <= m
  BY <1>1
<1>3. UnitBytes(PutOutFrom(b, m), d - b, e - b) = v
  <2>. HIDE DEF d, e
  <2>1. UnitBytes(PutOutFrom(b, m), d - b, e - b) = PutOutFrom(b + (d - b), b + (e - b))
    BY <1>2, PutOutIsCut
  <2> QED BY <1>2, <2>1
<1>4. v \in Seq(Nat) /\ Len(v) = e - d /\ \A x \in 1 .. e - d : v[x] = PutOut(d + x - 1)
  <2>1. d <= e BY <1>1
  <2>. HIDE DEF d, e
  <2> QED BY <1>1, <2>1, PutOutIs
<1>5. \A r \in 0 .. 4 : PutOut(5 * (k - 1) + r) = ByteIn(k, r) BY PutOutAt
<1>6. FirstByte(k) \in Nat /\ k \div 2 \in Nat BY DEF FirstByte, KeyByte, SliceByte, SpsByte, AudByte
<1>. HIDE DEF v
<1>7. CASE IsSlice(k)
  <2>1. w \in Seq(Nat) /\ Len(w) = 2 /\ w[1] = FirstByte(k) /\ w[2] = 10 + k \div 2
    BY <1>6, <1>7 DEF BytesBehind
  <2>2. e - d = 2 /\ d + 1 - 1 = 5 * (k - 1) + 3 /\ d + 2 - 1 = 5 * (k - 1) + 4 BY <1>1, <1>7
  <2>. HIDE DEF d, e, w
  <2>3. v[1] = ByteIn(k, 3) /\ v[2] = ByteIn(k, 4) BY <1>4, <1>5, <2>2
  <2>4. \A x \in 1 .. 2 : v[x] = w[x] BY <1>7, <2>1, <2>3 DEF ByteIn
  <2>5. v = w BY <1>4, <2>1, <2>2, <2>4, SeqEqual
  <2> QED BY <1>3, <2>5 DEF w, d, e
<1>8. CASE ~IsSlice(k)
  <2>1. w \in Seq(Nat) /\ Len(w) = 1 /\ w[1] = FirstByte(k) BY <1>6, <1>8 DEF BytesBehind
  <2>2. e - d = 1 /\ d + 1 - 1 = 5 * (k - 1) + 4 BY <1>1, <1>8
  <2>. HIDE DEF d, e, w
  <2>3. v[1] = ByteIn(k, 4) BY <1>4, <1>5, <2>2
  <2>4. \A x \in 1 .. 1 : v[x] = w[x] BY <1>8, <2>1, <2>3 DEF ByteIn
  <2>5. v = w BY <1>4, <2>1, <2>2, <2>4, SeqEqual
  <2> QED BY <1>3, <2>5 DEF w, d, e
<1> QED BY <1>7, <1>8

LEMMA BehindCode ==
  ASSUME NEW w \in Seq(Nat)
  PROVE  StartCode \o w \in Seq(Nat) /\ StartCode \o w # <<>> /\ (StartCode \o w) \o <<>> = StartCode \o w
         /\ <<>> \o (StartCode \o w) = StartCode \o w
<1>1. StartCode \in Seq(Nat) /\ StartCode # <<>> BY DEF StartCode
<1>. HIDE DEF StartCode
<1>2. StartCode \o w \in Seq(Nat) BY <1>1
<1>3. StartCode \o w # <<>>
  BY <1>1, ConcatEqualIffEmpty
<1> QED BY <1>2, <1>3, ConcatEmptySeq

LEMMA UnitsOfOne ==
  ASSUME NEW b \in Nat, NEW m \in Nat, NEW k \in Nat, k > 0, b <= 5 * (k - 1), 5 * k <= m,
         NEW ofConfig \in BOOLEAN
  PROVE  Units(PutOutFrom(b, m), NalsIn(k, k, b), 5 * k - b, ofConfig)
           = IF (k = 2) = ofConfig THEN StartCode \o BytesBehind(k) ELSE <<>>
<1>. DEFINE nals == NalsIn(k, k, b)
            s == PutOutFrom(b, m)
            e == 5 * k - b
            parts == [i \in 1 .. Len(nals) |->
                        IF IsConfig(nals[i]) = ofConfig
                        THEN StartCode \o UnitBytes(s, nals[i].data, IF i = Len(nals) THEN e ELSE nals[i + 1].pos)
                        ELSE <<>>]
<1>1. Len(nals) = 1 /\ nals[1] = NalOf(k, b)
  <2>1. k - k + 1 = 1 /\ k + 1 - 1 = k OBVIOUS
  <2> QED BY <2>1 DEF NalsIn
<1>2. (IsConfig(NalOf(k, b)) <=> k = 2) /\ NalOf(k, b).data = DataOf(k) - b BY TypesAre
<1>3. UnitBytes(s, DataOf(k) - b, e) = BytesBehind(k) BY PayloadIs
<1>4. IsConfig(NalOf(k, b)) \in BOOLEAN BY DEF IsConfig
<1>. HIDE DEF nals, s, e
<1>5. Len(parts) = 1 /\ parts[1] = IF (k = 2) = ofConfig THEN StartCode \o BytesBehind(k) ELSE <<>>
  BY <1>1, <1>2, <1>3, <1>4
<1>6. Units(s, nals, e, ofConfig) = FlattenSeq(parts) BY DEF Units
<1>. HIDE DEF parts
<1> QED BY <1>5, <1>6, FlattenOne DEF nals, s, e

LEMMA UnitsOfTwo ==
  ASSUME NEW m \in Nat, 15 <= m, NEW ofConfig \in BOOLEAN
  PROVE  Units(PutOutFrom(0, m), NalsIn(2, 3, 0), 15, ofConfig)
           = IF ofConfig THEN StartCode \o BytesBehind(2) ELSE StartCode \o BytesBehind(3)
<1>. DEFINE nals == NalsIn(2, 3, 0)
            s == PutOutFrom(0, m)
            parts == [i \in 1 .. Len(nals) |->
                        IF IsConfig(nals[i]) = ofConfig
                        THEN StartCode \o UnitBytes(s, nals[i].data, IF i = Len(nals) THEN 15 ELSE nals[i + 1].pos)
                        ELSE <<>>]
            first == NalOf(2, 0)
            second == NalOf(3, 0)
<1>1. Len(nals) = 2 /\ nals[1] = first /\ nals[2] = second
  <2>1. 3 - 2 + 1 = 2 /\ 2 + 1 - 1 = 2 /\ 2 + 2 - 1 = 3 OBVIOUS
  <2> QED BY <2>1 DEF NalsIn
<1>2. /\ IsConfig(first) = TRUE /\ IsConfig(second) = FALSE
      /\ first.data = DataOf(2) - 0 /\ second.data = DataOf(3) - 0 /\ second.pos = 10
  <2>1. 2 \in Nat /\ 3 \in Nat /\ 0 \in Nat /\ 2 > 0 /\ 3 > 0 OBVIOUS
  <2>2. (IsConfig(first) <=> 2 = 2) /\ first.data = DataOf(2) - 0 BY <2>1, TypesAre
  <2>3. /\ IsConfig(second) <=> 3 = 2
        /\ second.pos = 5 * (3 - 1) - 0 /\ second.data = DataOf(3) - 0
    BY <2>1, TypesAre
  <2>. HIDE DEF first, second
  <2> QED BY <2>2, <2>3 DEF IsConfig
<1>3. UnitBytes(s, DataOf(2) - 0, 10) = BytesBehind(2) /\ UnitBytes(s, DataOf(3) - 0, 15) = BytesBehind(3)
  <2>1. ASSUME NEW k \in {2, 3} PROVE UnitBytes(s, DataOf(k) - 0, 5 * k - 0) = BytesBehind(k)
    <3>1. k \in Nat /\ k > 0 /\ 0 \in Nat /\ 0 <= 5 * (k - 1) /\ 5 * k <= m OBVIOUS
    <3> QED BY <3>1, PayloadIs
  <2>2. 5 * 2 - 0 = 10 /\ 5 * 3 - 0 = 15 OBVIOUS
  <2> QED BY <2>1, <2>2
<1>. HIDE DEF nals, s, first, second
<1>4. Len(parts) = 2
      /\ parts[1] = (IF ofConfig THEN StartCode \o BytesBehind(2) ELSE <<>>)
      /\ parts[2] = (IF ofConfig THEN <<>> ELSE StartCode \o BytesBehind(3))
  <2>1. DOMAIN parts = 1 .. 2 /\ Len(parts) = 2 BY <1>1
  <2>2. parts[1] = IF IsConfig(first) = ofConfig THEN StartCode \o UnitBytes(s, first.data, second.pos) ELSE <<>>
    BY <1>1
  <2>3. parts[2] = IF IsConfig(second) = ofConfig THEN StartCode \o UnitBytes(s, second.data, 15) ELSE <<>>
    BY <1>1
  <2>. HIDE DEF parts
  <2> QED BY <1>2, <1>3, <2>1, <2>2, <2>3
<1>5. Units(s, nals, 15, ofConfig) = FlattenSeq(parts) BY DEF Units
<1>. HIDE DEF parts
<1>6. FlattenSeq(parts) = parts[1] \o parts[2] BY <1>4, FlattenTwo
<1>7. BytesBehind(2) \in Seq(Nat) /\ BytesBehind(3) \in Seq(Nat)
  BY DEF BytesBehind, FirstByte, IsSlice, KeyByte, SliceByte, SpsByte, AudByte
<1>8. CASE ofConfig BY <1>4, <1>5, <1>6, <1>7, <1>8, BehindCode DEF nals, s
<1>9. CASE ~ofConfig BY <1>4, <1>5, <1>6, <1>7, <1>9, BehindCode DEF nals, s
<1> QED BY <1>8, <1>9

-----------------------------------------------------------------------------
LEMMA TimesAre ==
  ASSUME NEW times \in Seq(Nat), NEW u \in Nat, u < Len(times)
  PROVE  /\ TimesAfter(u, times) # <<>> /\ Head(TimesAfter(u, times)) = times[u + 1]
         /\ Tail(TimesAfter(u, times)) = TimesAfter(u + 1, times)
<1>. DEFINE n == Len(times)
            s == TimesAfter(u, times)
            t == TimesAfter(u + 1, times)
<1>1. n \in Nat /\ n - u \in Nat /\ n - u > 0 /\ n - (u + 1) = n - u - 1 /\ n - (u + 1) \in Nat
      /\ \A i \in 1 .. n : times[i] \in Nat
  OBVIOUS
<1>2. s \in Seq(Nat) /\ Len(s) = n - u /\ \A i \in 1 .. n - u : s[i] = times[u + i]
  <2>1. \A i \in 1 .. n - u : u + i \in 1 .. n BY <1>1
  <2> QED BY <1>1, <2>1 DEF TimesAfter
<1>3. t \in Seq(Nat) /\ Len(t) = n - u - 1 /\ \A i \in 1 .. n - u - 1 : t[i] = times[(u + 1) + i]
  <2>1. \A i \in 1 .. n - (u + 1) : (u + 1) + i \in 1 .. n BY <1>1
  <2> QED BY <1>1, <2>1 DEF TimesAfter
<1>. HIDE DEF s, t, n
<1>4. s # <<>> BY <1>1, <1>2
<1>5. Head(s) = s[1] /\ Tail(s) \in Seq(Nat) /\ Len(Tail(s)) = n - u - 1
      /\ \A i \in 1 .. n - u - 1 : Tail(s)[i] = s[i + 1]
  BY <1>1, <1>2, <1>4
<1>6. \A i \in 1 .. n - u - 1 : Tail(s)[i] = t[i]
  <2>1. ASSUME NEW i \in 1 .. n - u - 1 PROVE Tail(s)[i] = t[i]
    <3>1. i + 1 \in 1 .. n - u /\ u + (i + 1) = (u + 1) + i BY <1>1
    <3> QED BY <1>2, <1>3, <1>5, <3>1
  <2> QED BY <2>1
<1>7. Tail(s) = t BY <1>3, <1>5, <1>6, SeqEqual
<1>8. s[1] = times[u + 1]
  <2>1. 1 \in 1 .. n - u BY <1>1
  <2> QED BY <1>2, <2>1
<1> QED BY <1>4, <1>5, <1>7, <1>8 DEF s, t

LEMMA OutputsAre ==
  ASSUME NEW times, NEW u \in Nat
  PROVE  /\ \A T : (\A i \in 1 .. u + 1 : OutputAt(i, times) \in T) => Outputs(u, times) \in Seq(T)
         /\ u = 0 => Outputs(u, times) = <<>>
         /\ u > 0 => /\ Len(Outputs(u, times)) = u + 1
                     /\ \A i \in 1 .. u + 1 : Outputs(u, times)[i] = OutputAt(i, times)
<1>1. CASE u = 0 BY <1>1 DEF Outputs
<1>2. CASE u > 0 BY <1>2 DEF Outputs
<1> QED BY <1>1, <1>2

LEMMA OutputsGrow ==
  ASSUME NEW times, NEW u \in Nat
  PROVE  /\ u > 0 => Outputs(u, times) \o <<>> \o <<OutputAt(u + 2, times)>> = Outputs(u + 1, times)
         /\ u = 0 => Outputs(u, times) \o <<OutputAt(1, times)>> \o <<OutputAt(2, times)>> = Outputs(1, times)
<1>. DEFINE T == {OutputAt(i, times) : i \in Nat}
            a == Outputs(u, times)
            c == Outputs(u + 1, times)
            x == OutputAt(u + 2, times)
            y == OutputAt(1, times)
<1>1. \A i \in Nat : OutputAt(i, times) \in T OBVIOUS
<1>2. /\ x \in T /\ y \in T
      /\ \A i \in 1 .. u + 1 : OutputAt(i, times) \in T
      /\ \A i \in 1 .. (u + 1) + 1 : OutputAt(i, times) \in T
  <2>1. u + 2 \in Nat /\ 1 \in Nat /\ (\A i \in 1 .. u + 1 : i \in Nat) /\ (\A i \in 1 .. (u + 1) + 1 : i \in Nat)
    OBVIOUS
  <2>. HIDE DEF T
  <2> QED BY <1>1, <2>1
<1>3. u + 1 \in Nat /\ u + 1 > 0 /\ (u + 1) + 1 = u + 2 OBVIOUS
<1>. HIDE DEF T
<1>4. c \in Seq(T) /\ Len(c) = u + 2 /\ \A i \in 1 .. u + 2 : c[i] = OutputAt(i, times)
  BY <1>2, <1>3, OutputsAre
<1>5. a \in Seq(T) /\ (u > 0 => Len(a) = u + 1 /\ \A i \in 1 .. u + 1 : a[i] = OutputAt(i, times))
  BY <1>2, OutputsAre
<1>6. CASE u > 0
  <2>. HIDE DEF a, c, x, y
  <2>1. a \o <<>> = a BY <1>5, ConcatEmptySeq
  <2>. DEFINE v == a \o <<x>>
  <2>2. v \in Seq(T) /\ Len(v) = u + 2
        /\ \A i \in 1 .. u + 2 : v[i] = IF i <= u + 1 THEN a[i] ELSE x
    <3>1. <<x>> \in Seq(T) /\ Len(<<x>>) = 1 /\ <<x>>[1] = x BY <1>2
    <3>. DEFINE w == <<x>>
    <3>. HIDE DEF w
    <3>2. v = a \o w BY DEF w
    <3>3. w \in Seq(T) /\ Len(w) = 1 /\ w[1] = x BY <3>1 DEF w
    <3>. HIDE DEF v
    <3>4. v \in Seq(T) /\ Len(v) = Len(a) + Len(w)
          /\ \A i \in 1 .. Len(a) + Len(w) : v[i] = IF i <= Len(a) THEN a[i] ELSE w[i - Len(a)]
      BY <1>5, <3>2, <3>3, ConcatProperties
    <3>5. Len(a) + Len(w) = u + 2 BY <1>5, <1>6, <3>3
    <3> QED BY <1>5, <1>6, <3>3, <3>4, <3>5
  <2>. HIDE DEF v
  <2>3. \A i \in 1 .. u + 2 : v[i] = c[i]
    <3>1. ASSUME NEW i \in 1 .. u + 2 PROVE v[i] = c[i]
      <4>1. CASE i <= u + 1 BY <1>4, <1>5, <1>6, <2>2, <4>1
      <4>2. CASE i = u + 2 BY <1>4, <2>2, <4>2 DEF x
      <4> QED BY <4>1, <4>2
    <3> QED BY <3>1
  <2>4. v = c BY <1>4, <2>2, <2>3, SeqEqual
  <2> QED BY <1>6, <2>1, <2>4 DEF v, a, x, c
<1>7. CASE u = 0
  <2>1. a = <<>> BY <1>7, OutputsAre
  <2>2. u + 2 = 2 /\ u + 1 = 1 BY <1>7
  <2>. HIDE DEF a, c, x, y
  <2>. DEFINE w == <<y>>
              z == <<x>>
  <2>0. w \in Seq(T) /\ Len(w) = 1 /\ w[1] = y /\ z \in Seq(T) /\ Len(z) = 1 /\ z[1] = x BY <1>2
  <2>. HIDE DEF w, z
  <2>. DEFINE v == w \o z
  <2>3. a \o w = w BY <2>0, <2>1, ConcatEmptySeq
  <2>4. v \in Seq(T) /\ Len(v) = 2 /\ v[1] = y /\ v[2] = x
    <3>1. v \in Seq(T) /\ Len(v) = Len(w) + Len(z)
          /\ \A i \in 1 .. Len(w) + Len(z) : v[i] = IF i <= Len(w) THEN w[i] ELSE z[i - Len(w)]
      BY <2>0, ConcatProperties
    <3>. HIDE DEF v
    <3> QED BY <2>0, <3>1
  <2>. HIDE DEF v
  <2>5. \A i \in 1 .. 2 : v[i] = c[i]
    <3>1. c[1] = y /\ c[2] = x BY <1>4, <1>7, <2>2 DEF x, y
    <3> QED BY <2>4, <3>1
  <2>6. v = c
    <3>1. Len(c) = 2 BY <1>4, <2>2
    <3> QED BY <1>4, <2>4, <2>5, <3>1, SeqEqual
  <2>7. a \o w \o z = c BY <2>3, <2>6 DEF v
  <2>8. Outputs(u, times) \o <<OutputAt(1, times)>> \o <<OutputAt(2, times)>> = Outputs(1, times)
    BY <2>2, <2>7, Zenon DEF a, w, y, z, x, c
  <2> QED BY <1>7, <2>8
<1> QED BY <1>6, <1>7

MovedOn(p, config, pts, left) == [p EXCEPT !.config = config, !.lastPts = pts, !.pts = left]
LEMMA ParserMoves ==
  ASSUME NEW j \in Nat, NEW k \in Nat, NEW m \in Nat, NEW s, NEW times \in Seq(Nat), NEW u \in Nat
  PROVE  ParserOf(j, k, u + 1, m, s, times)
           = MovedOn(ParserOf(j, k, u, m, s, times), StartCode \o <<SpsByte>>, times[u + 1],
                     TimesAfter(u + 1, times))
<1>. DEFINE a == PutOutFrom(5 * (j - 1), m)
            b == NalsFrom(j, k)
            c == StartCode \o <<SpsByte>>
            d == times[u + 1]
            e == TimesAfter(u + 1, times)
            c0 == IF u = 0 THEN <<>> ELSE StartCode \o <<SpsByte>>
            d0 == IF u = 0 THEN 0 ELSE times[u]
            e0 == TimesAfter(u, times)
            p == ParserOf(j, k, u, m, s, times)
            next == ParserOf(j, k, u + 1, m, s, times)
            moved == [p EXCEPT !.config = c, !.lastPts = d, !.pts = e]
            fields == {"pending", "scanFrom", "nals", "pts", "lastPts", "config"}
<1>1. u + 1 # 0 OBVIOUS
<1>2. next = [pending |-> a, scanFrom |-> s, nals |-> b, pts |-> e, lastPts |-> d, config |-> c]
  BY <1>1, Zenon DEF ParserOf
<1>3. p = [pending |-> a, scanFrom |-> s, nals |-> b, pts |-> e0, lastPts |-> d0, config |-> c0]
  BY Zenon DEF ParserOf
<1>. HIDE DEF a, b, c, d, e, c0, d0, e0, p, next
<1>4. next = [f \in fields |-> next[f]] BY <1>2
<1>5. moved = [f \in fields |-> moved[f]]
  <2>1. DOMAIN moved = fields BY <1>3
  <2> QED BY <2>1
<1>6. /\ moved.pending = a /\ moved.scanFrom = s /\ moved.nals = b /\ moved.pts = e
      /\ moved.lastPts = d /\ moved.config = c
  BY <1>3
<1>. HIDE DEF moved
<1>7. \A f \in fields : moved[f] = next[f] BY <1>2, <1>6
<1>8. moved = next BY <1>4, <1>5, <1>7
<1> QED BY <1>8, Zenon DEF c, d, e, p, next, moved, MovedOn

LEMMA ParserMovedTo ==
  ASSUME NEW j \in Nat, NEW k \in Nat, NEW m \in Nat, NEW s, NEW times \in Seq(Nat), NEW v \in Nat, v > 0
  PROVE  ParserOf(j, k, v, m, s, times)
           = MovedOn(ParserOf(j, k, v - 1, m, s, times), StartCode \o <<SpsByte>>, times[v],
                     TimesAfter(v, times))
<1>. DEFINE u == v - 1
<1>1. u \in Nat /\ v = u + 1 OBVIOUS
<1>. HIDE DEF u
<1>2. ParserOf(j, k, u + 1, m, s, times)
        = MovedOn(ParserOf(j, k, u, m, s, times), StartCode \o <<SpsByte>>, times[u + 1],
                  TimesAfter(u + 1, times))
  BY <1>1, ParserMoves
<1> QED BY <1>1, <1>2 DEF u

LEMMA OutputAtIs ==
  ASSUME NEW times, NEW u \in Nat
  PROVE  /\ OutputAt(1, times) = [config |-> TRUE, data |-> StartCode \o <<SpsByte>>, pts |-> 0, isKey |-> FALSE]
         /\ OutputAt(u + 2, times)
              = [config |-> FALSE, data |-> StartCode \o <<IF u = 0 THEN KeyByte ELSE SliceByte, 10 + (u + 1)>>,
                 pts |-> times[u + 1], isKey |-> u = 0]
<1>1. u + 2 # 1 /\ (u + 2) - 1 = u + 1 /\ (u + 2 = 2 <=> u = 0) OBVIOUS
<1>2. OutputAt(1, times) = [config |-> TRUE, data |-> StartCode \o <<SpsByte>>, pts |-> 0, isKey |-> FALSE]
  BY Zenon DEF OutputAt
<1>3. OutputAt(u + 2, times)
        = [config |-> FALSE, pts |-> times[u + 1], isKey |-> u + 2 = 2,
           data |-> StartCode \o <<IF u + 2 = 2 THEN KeyByte ELSE SliceByte, 10 + (u + 1)>>]
  BY <1>1, Zenon DEF OutputAt
<1>4. (u + 2 = 2) = (u = 0) BY <1>1
<1> QED BY <1>2, <1>3, <1>4

LEMMA EmitsFirst ==
  ASSUME NEW k \in Nat, NEW m \in Nat, NEW s, NEW times \in Seq(Nat), Len(times) > 0, 15 <= m
  PROVE  EmitUnit(StateOf(1, k, 0, m, s, times), NalsIn(2, 3, 0), 15) = StateOf(1, k, 1, m, s, times)
<1>. DEFINE st == StateOf(1, k, 0, m, s, times)
            p == ParserOf(1, k, 0, m, s, times)
            nals == NalsIn(2, 3, 0)
            config == Units(p.pending, nals, 15, TRUE)
            picture == Units(p.pending, nals, 15, FALSE)
<1>1. st.parser = p /\ st.emitted = Outputs(0, times) BY DEF StateOf
<1>2. p.pending = PutOutFrom(0, m) /\ p.config = <<>> /\ p.lastPts = 0 /\ p.pts = TimesAfter(0, times)
  <2>1. 5 * (1 - 1) = 0 OBVIOUS
  <2> QED BY <2>1 DEF ParserOf
<1>3. BytesBehind(2) = <<SpsByte>> /\ BytesBehind(3) = <<KeyByte, 10 + (2 - 1)>>
  <2>1. 2 % 2 = 0 /\ 3 % 2 = 1 /\ 3 \div 2 = 1 /\ 2 - 1 = 1 OBVIOUS
  <2> QED BY <2>1 DEF BytesBehind, IsSlice, FirstByte
<1>4. <<SpsByte>> \in Seq(Nat) /\ <<KeyByte, 10 + (2 - 1)>> \in Seq(Nat) BY DEF SpsByte, KeyByte
<1>5. config = StartCode \o <<SpsByte>> /\ picture = StartCode \o <<KeyByte, 10 + (2 - 1)>>
  <2>1. TRUE \in BOOLEAN /\ FALSE \in BOOLEAN OBVIOUS
  <2> QED BY <1>2, <1>3, <2>1, UnitsOfTwo
<1>6. config # <<>> /\ picture # <<>> BY <1>4, <1>5, BehindCode
<1>7. /\ p.pts # <<>> /\ Head(p.pts) = times[1] /\ Tail(p.pts) = TimesAfter(1, times)
  <2>1. 0 \in Nat /\ 0 < Len(times) /\ 0 + 1 = 1 OBVIOUS
  <2> QED BY <1>2, <2>1, TimesAre
<1>8. \E i \in DOMAIN nals : nals[i].type = 5
  <2>1. 3 - 2 + 1 = 2 /\ 2 + 2 - 1 = 3 OBVIOUS
  <2>2. 2 \in DOMAIN nals /\ nals[2] = NalOf(3, 0) BY <2>1 DEF NalsIn
  <2>3. NalOf(3, 0).type = 5
    <3>1. 3 \in Nat /\ 3 > 0 /\ 0 \in Nat OBVIOUS
    <3> QED BY <3>1, TypesAre
  <2> QED BY <2>2, <2>3
<1>9. /\ OutputAt(1, times) = [config |-> TRUE, data |-> config, pts |-> p.lastPts, isKey |-> FALSE]
      /\ OutputAt(2, times) = [config |-> FALSE, data |-> picture, pts |-> times[1], isKey |-> TRUE]
  <2>1. 0 \in Nat /\ 0 + 2 = 2 /\ 0 + 1 = 1 /\ 2 - 1 = 1 /\ (0 = 0) = TRUE OBVIOUS
  <2>2. OutputAt(2, times) = [config |-> FALSE, data |-> StartCode \o <<KeyByte, 10 + 1>>, pts |-> times[1],
                              isKey |-> TRUE]
    BY <2>1, OutputAtIs
  <2>3. OutputAt(1, times) = [config |-> TRUE, data |-> StartCode \o <<SpsByte>>, pts |-> 0, isKey |-> FALSE]
    BY <2>1, OutputAtIs
  <2>4. 10 + (2 - 1) = 10 + 1 OBVIOUS
  <2>5. picture = StartCode \o <<KeyByte, 10 + 1>> BY <1>5, <2>4
  <2> QED BY <1>2, <1>5, <2>2, <2>3, <2>5
<1>10. ParserOf(1, k, 1, m, s, times) = MovedOn(p, config, times[1], TimesAfter(1, times))
  <2>. DEFINE u == 0
              v == u + 1
              j == 1
  <2>1. v \in Nat /\ v > 0 /\ j \in Nat OBVIOUS
  <2>2. p = ParserOf(j, k, v - 1, m, s, times) /\ v = 1 OBVIOUS
  <2>. HIDE DEF u, p, v, j
  <2>3. ParserOf(j, k, v, m, s, times)
          = MovedOn(ParserOf(j, k, v - 1, m, s, times), StartCode \o <<SpsByte>>, times[v], TimesAfter(v, times))
    BY <2>1, ParserMovedTo
  <2> QED BY <1>5, <2>2, <2>3, Zenon DEF j
<1>11. Outputs(0, times) \o <<OutputAt(1, times)>> \o <<OutputAt(2, times)>> = Outputs(1, times)
  BY OutputsGrow
<1>. HIDE DEF p, nals, config, picture, st
<1>12. EmitUnit(st, nals, 15)
         = [parser |-> MovedOn(p, config, times[1], TimesAfter(1, times)),
            emitted |-> Outputs(0, times)
               \o <<[config |-> TRUE, data |-> config, pts |-> p.lastPts, isKey |-> FALSE]>>
               \o <<[config |-> FALSE, data |-> picture, pts |-> times[1], isKey |-> TRUE]>>]
  BY <1>1, <1>2, <1>6, <1>7, <1>8 DEF EmitUnit, config, picture, MovedOn
<1> QED BY <1>9, <1>10, <1>11, <1>12 DEF StateOf, st, nals

LEMMA EmitsLater ==
  ASSUME NEW j \in Nat, NEW k \in Nat, NEW m \in Nat, NEW s, NEW times \in Seq(Nat), NEW u \in Nat,
         j > 0, u > 0, u < Len(times), j <= 2 * u + 3, 5 * (2 * u + 3) <= m
  PROVE  EmitUnit(StateOf(j, k, u, m, s, times), NalsIn(2 * u + 3, 2 * u + 3, 5 * (j - 1)),
                  5 * (2 * u + 3) - 5 * (j - 1))
           = StateOf(j, k, u + 1, m, s, times)
<1>. DEFINE b == 5 * (j - 1)
            h == 2 * u + 3
            e == 5 * h - b
            st == StateOf(j, k, u, m, s, times)
            p == ParserOf(j, k, u, m, s, times)
            nals == NalsIn(h, h, b)
            config == Units(p.pending, nals, e, TRUE)
            picture == Units(p.pending, nals, e, FALSE)
            told == StartCode \o <<SpsByte>>
            data == StartCode \o <<SliceByte, 10 + (u + 1)>>
            v == u + 1
<1>0. b \in Nat /\ h \in Nat /\ h > 3 /\ b <= 5 * (h - 1) /\ 5 * h <= m /\ h # 2 /\ h # 3
      /\ h > 0
  OBVIOUS
<1>00. h % 2 = 1 /\ h \div 2 = u + 1 OBVIOUS
<1>1. st.parser = p /\ st.emitted = Outputs(u, times) BY DEF StateOf
<1>2. /\ p.pending = PutOutFrom(b, m) /\ p.config = told /\ p.pts = TimesAfter(u, times)
      /\ p.lastPts = times[u]
  <2>1. u # 0 OBVIOUS
  <2>. HIDE DEF b, told
  <2> QED BY <2>1, Zenon DEF ParserOf, b, told
<1>3. BytesBehind(h) = <<SliceByte, 10 + (u + 1)>> /\ BytesBehind(h) \in Seq(Nat)
  <2>. HIDE DEF h
  <2>1. IsSlice(h) /\ FirstByte(h) = SliceByte BY <1>0, <1>00 DEF IsSlice, FirstByte
  <2> QED BY <1>00, <2>1 DEF BytesBehind, SliceByte
<1>4. config = <<>> /\ picture = data
  <2>1. (h = 2) = FALSE /\ TRUE \in BOOLEAN /\ FALSE \in BOOLEAN BY <1>0
  <2>. HIDE DEF h, b, p
  <2>2. \A c \in BOOLEAN : Units(PutOutFrom(b, m), NalsIn(h, h, b), 5 * h - b, c)
                             = IF (h = 2) = c THEN StartCode \o BytesBehind(h) ELSE <<>>
    BY <1>0, UnitsOfOne
  <2>3. config = <<>> BY <1>2, <2>1, <2>2
  <2>4. picture = StartCode \o BytesBehind(h) BY <1>2, <2>1, <2>2
  <2> QED BY <1>3, <2>3, <2>4
<1>5. picture # <<>>
  <2>1. StartCode \o BytesBehind(h) # <<>> BY <1>3, BehindCode
  <2> QED BY <1>3, <1>4, <2>1
<1>6. /\ p.pts # <<>> /\ Head(p.pts) = times[v] /\ Tail(p.pts) = TimesAfter(v, times)
  BY <1>2, TimesAre
<1>7. ~\E i \in DOMAIN nals : nals[i].type = 5
  <2>1. h - h + 1 = 1 /\ h + 1 - 1 = h BY <1>0
  <2>. HIDE DEF h, b
  <2>2. DOMAIN nals = {1} /\ nals[1] = NalOf(h, b) BY <2>1 DEF NalsIn
  <2>3. NalOf(h, b).type # 5 BY <1>0, TypesAre
  <2>. HIDE DEF nals
  <2> QED BY <2>2, <2>3
<1>8. OutputAt(u + 2, times) = [config |-> FALSE, data |-> data, pts |-> times[v], isKey |-> FALSE]
  <2>1. (u = 0) = FALSE OBVIOUS
  <2>2. OutputAt(u + 2, times)
          = [config |-> FALSE, data |-> StartCode \o <<IF u = 0 THEN KeyByte ELSE SliceByte, 10 + (u + 1)>>,
             pts |-> times[u + 1], isKey |-> u = 0]
    BY OutputAtIs
  <2> QED BY <2>1, <2>2, Zenon
<1>9. ParserOf(j, k, v, m, s, times) = MovedOn(p, told, times[v], TimesAfter(v, times))
  <2>1. p = ParserOf(j, k, u, m, s, times) OBVIOUS
  <2>2. v \in Nat /\ v > 0 OBVIOUS
  <2>4. v - 1 = u OBVIOUS
  <2>. HIDE DEF p, b, h, v
  <2>3. ParserOf(j, k, v, m, s, times)
          = MovedOn(ParserOf(j, k, v - 1, m, s, times), StartCode \o <<SpsByte>>, times[v], TimesAfter(v, times))
    BY <2>2, ParserMovedTo
  <2>5. ParserOf(j, k, v, m, s, times)
          = MovedOn(p, StartCode \o <<SpsByte>>, times[v], TimesAfter(v, times))
    BY <2>1, <2>3, <2>4, Zenon
  <2> QED BY <2>5
<1>10. Outputs(u, times) \o <<>> \o <<OutputAt(u + 2, times)>> = Outputs(v, times) BY OutputsGrow
<1>. HIDE DEF p, nals, config, picture, st, e, told, data, v
<1>11. EmitUnit(st, nals, e)
         = [parser |-> MovedOn(p, p.config, times[v], TimesAfter(v, times)),
            emitted |-> Outputs(u, times) \o <<>>
               \o <<[config |-> FALSE, data |-> picture, pts |-> times[v], isKey |-> FALSE]>>]
  <2>1. (\E i \in DOMAIN nals : nals[i].type = 5) = FALSE BY <1>7
  <2> QED BY <1>1, <1>4, <1>5, <1>6, <2>1 DEF EmitUnit, config, picture, MovedOn
<1>12. EmitUnit(st, nals, e) = StateOf(j, k, v, m, s, times)
  BY <1>2, <1>4, <1>8, <1>9, <1>10, <1>11 DEF StateOf
<1> QED BY <1>12, Zenon DEF st, nals, e, v, b, h

-----------------------------------------------------------------------------
\* All access units that are complete are handed on.
UnitsDone(j, n) == UnitsBy(IF n = 0 THEN j ELSE j + n - 1)

LEMMA UnitsAre ==
  ASSUME NEW h \in Nat
  PROVE  /\ UnitsBy(h) \in Nat
         /\ (h > 1 /\ ~IsDelimiter(h) => UnitsBy(h) = UnitsBy(h - 1))
         /\ UnitsBy(1) = 0 /\ UnitsBy(0) = 0 /\ UnitsBy(3) = 0 /\ UnitsBy(4) = 1
         /\ (h > 4 /\ IsDelimiter(h) =>
               /\ UnitsBy(h - 1) > 0 /\ UnitsBy(h) = UnitsBy(h - 1) + 1 /\ 2 * UnitsBy(h - 1) + 3 = h - 1
               /\ LastUnit(h - 1) = h - 2)
<1>1. UnitsBy(1) = 0 /\ UnitsBy(0) = 0 /\ UnitsBy(3) = 0 /\ UnitsBy(4) = 1
  <2>1. 4 \div 2 = 2 OBVIOUS
  <2> QED BY <2>1 DEF UnitsBy
<1>. DEFINE q == h \div 2
<1>2. q \in Nat /\ (h > 3 => q >= 2) /\ (h % 2 = 0 => h = 2 * q) /\ (h % 2 = 1 => h = 2 * q + 1)
      /\ h % 2 \in {0, 1}
  OBVIOUS
<1>3. UnitsBy(h) = IF h <= 3 THEN 0 ELSE q - 1 BY DEF UnitsBy
<1>4. ASSUME h > 1 PROVE UnitsBy(h - 1) = IF h - 1 <= 3 THEN 0 ELSE ((h - 1) \div 2) - 1
  BY DEF UnitsBy
<1>5. ASSUME h > 4, IsDelimiter(h)
      PROVE  /\ UnitsBy(h - 1) > 0 /\ UnitsBy(h) = UnitsBy(h - 1) + 1 /\ 2 * UnitsBy(h - 1) + 3 = h - 1
             /\ LastUnit(h - 1) = h - 2
  <2>1. h % 2 = 0 BY <1>5 DEF IsDelimiter
  <2>2. h = 2 * q /\ q > 2 BY <1>2, <1>5, <2>1
  <2>. HIDE DEF q
  <2>3. (h - 1) \div 2 = q - 1 BY <1>2, <2>2
  <2>4. UnitsBy(h - 1) = q - 2 BY <1>2, <1>4, <1>5, <2>2, <2>3
  <2>5. LastUnit(h - 1) = 2 * (q - 1) BY <1>2, <1>5, <2>2, <2>3 DEF LastUnit
  <2> QED BY <1>2, <1>3, <1>5, <2>2, <2>4, <2>5
<1>6. ASSUME h > 1, ~IsDelimiter(h) PROVE UnitsBy(h) = UnitsBy(h - 1)
  <2>1. CASE h <= 3
    <3>1. h - 1 <= 3 BY <2>1
    <3> QED BY <1>3, <1>4, <1>6, <2>1, <3>1
  <2>2. CASE h > 3
    <3>1. h % 2 = 1 BY <1>2, <1>6, <2>2 DEF IsDelimiter
    <3>2. h = 2 * q + 1 BY <1>2, <3>1
    <3>. HIDE DEF q
    <3>3. (h - 1) \div 2 = q /\ h - 1 > 3 BY <1>2, <2>2, <3>2
    <3> QED BY <1>3, <1>4, <1>6, <2>2, <3>3
  <2> QED BY <2>1, <2>2
<1>7. UnitsBy(h) \in Nat BY <1>2, <1>3
<1> QED BY <1>1, <1>5, <1>6, <1>7

LEMMA UnitsGrow ==
  ASSUME NEW h \in Nat, NEW k \in Nat, h <= k
  PROVE  UnitsBy(h) <= UnitsBy(k)
<1>1. h \div 2 <= k \div 2 /\ h \div 2 \in Nat /\ k \div 2 \in Nat /\ (k > 3 => k \div 2 >= 2) OBVIOUS
<1> QED BY <1>1 DEF UnitsBy

LEMMA UnitEndedIs ==
  ASSUME NEW j \in Nat, NEW k \in Nat, NEW m \in Nat, NEW s, NEW times \in Seq(Nat),
         j > 0, IsDelimiter(j), j <= k + 1, 5 * (k - 1) <= m, UnitsBy(k) <= Len(times),
         NEW n \in 1 .. k - j + 1
  PROVE  UnitEnded(StateOf(j, k, UnitsDone(j, n - 1), m, s, times), n) = StateOf(j, k, UnitsDone(j, n), m, s, times)
<1>. DEFINE st == StateOf(j, k, UnitsDone(j, n - 1), m, s, times)
            nals == NalsFrom(j, k)
            b == 5 * (j - 1)
            h == j + n - 1
            last == LastAud(nals, n - 1)
<1>1. st.parser.nals = nals BY DEF StateOf, ParserOf
<1>2. h \in Nat /\ h >= j /\ h <= k /\ h > 0 /\ b \in Nat /\ n - 1 \in 0 .. k - j + 1 /\ n - 1 \in Nat OBVIOUS
<1>3. nals[n] = NalOf(h, b) BY NalsAre
<1>4. (nals[n].type = AudByte <=> IsDelimiter(h)) /\ nals[n].pos = 5 * (h - 1) - b
  <2>1. h \in Nat /\ h > 0 /\ b \in Nat BY <1>2
  <2>. HIDE DEF nals, h, b
  <2>2. (NalOf(h, b).type = AudByte <=> IsDelimiter(h)) /\ NalOf(h, b).pos = 5 * (h - 1) - b
    BY <2>1, TypesAre
  <2> QED BY <1>3, <2>2
<1>5. last = IF n - 1 = 0 THEN 0 ELSE LastUnit(j + (n - 1) - 1) - j + 1 BY <1>2, LastAudIs
<1>6. UnitsDone(j, n) = UnitsBy(h) BY DEF UnitsDone
<1>. HIDE DEF st, nals, last
<1>7. CASE n = 1
  <2>1. last = 0 BY <1>5, <1>7
  <2>2. UnitEnded(st, n) = st BY <1>1, <2>1 DEF UnitEnded, last
  <2>3. UnitsDone(j, n - 1) = UnitsDone(j, n)
    <3>1. n - 1 = 0 /\ j + n - 1 = j /\ n # 0 BY <1>7
    <3> QED BY <3>1 DEF UnitsDone
  <2> QED BY <2>2, <2>3 DEF st
<1>8. CASE n > 1
  <2>1. h > 1 /\ h - 1 \in Nat /\ h - 1 > 0 /\ j <= h - 1 /\ j + (n - 1) - 1 = h - 1 /\ n - 1 # 0 BY <1>8
  <2>2. UnitsDone(j, n - 1) = UnitsBy(h - 1) BY <2>1 DEF UnitsDone
  <2>3. last = LastUnit(h - 1) - j + 1 /\ last > 0 /\ last \in Nat
    <3>1. last = LastUnit(h - 1) - j + 1 BY <1>5, <2>1
    <3>. HIDE DEF h
    <3>2. LastUnit(h - 1) \in 1 .. (h - 1) /\ j <= LastUnit(h - 1) BY <2>1, LastUnitIs
    <3> QED BY <3>1, <3>2
  <2>4. CASE ~IsDelimiter(h)
    <3>1. UnitEnded(st, n) = st BY <1>1, <1>4, <2>4 DEF UnitEnded
    <3>2. UnitsBy(h) = UnitsBy(h - 1) BY <1>2, <2>1, <2>4, UnitsAre
    <3> QED BY <1>6, <2>2, <3>1, <3>2 DEF st
  <2>5. CASE IsDelimiter(h)
    <3>. DEFINE unit == SubSeq(nals, last + 1, n - 1)
    <3>1. UnitEnded(st, n) = EmitUnit(st, unit, 5 * (h - 1) - b)
      <4>. HIDE DEF h, b
      <4> QED BY <1>1, <1>4, <2>3, <2>5 DEF UnitEnded, last
    <3>2. /\ LastUnit(h - 1) <= h - 1
          /\ unit = NalsIn(LastUnit(h - 1) + 1, h - 1, b)
      <4>1. LastUnit(h - 1) <= h - 1 /\ LastUnit(h - 1) \in Nat
        <5>. HIDE DEF h
        <5> QED BY <2>1, LastUnitIs
      <4>. DEFINE f == last + 1
                  t == n - 1
      <4>0. h = j + n - 1 OBVIOUS
      <4>. DEFINE l == LastUnit(h - 1)
      <4>5. l \in Nat /\ l <= j + n - 2 /\ last = l - j + 1 /\ last \in Nat BY <2>3, <4>1
      <4>. HIDE DEF h, l
      <4>2. f \in Nat /\ f > 0 /\ t \in Nat /\ f <= t + 1 /\ t <= k - j + 1
        BY <1>2, <4>5
      <4>4. j + f - 1 = LastUnit(h - 1) + 1 /\ j + t - 1 = h - 1
        BY <2>3, <4>0, <4>1
      <4>. HIDE DEF f, t, h
      <4>3. SubSeq(NalsFrom(j, k), f, t) = NalsIn(j + f - 1, j + t - 1, 5 * (j - 1))
        BY <4>2, NalsAreCut, ZenonT(60)
      <4> QED BY <4>1, <4>3, <4>4 DEF f, t, nals
    <3>3. 5 * (h - 1) <= m BY <1>2
    <3>4. UnitsBy(h) <= Len(times)
      <4>. HIDE DEF h
      <4>1. UnitsBy(h) <= UnitsBy(k) /\ UnitsBy(h) \in Nat /\ UnitsBy(k) \in Nat BY <1>2, UnitsGrow, UnitsAre
      <4> QED BY <4>1
    <3>5. CASE h = 4
      <4>1. j = 1 BY <2>1, <3>5 DEF IsDelimiter
      <4>2. LastUnit(h - 1) + 1 = 2 /\ h - 1 = 3 /\ b = 0 /\ 5 * (h - 1) - b = 15
        BY <3>5, <4>1 DEF LastUnit
      <4>3. UnitsBy(h - 1) = 0 /\ UnitsBy(h) = 1 BY <3>5, <4>2, UnitsAre
      <4>4. Len(times) > 0 /\ 15 <= m BY <3>3, <3>4, <3>5, <4>3
      <4>5. st = StateOf(1, k, 0, m, s, times) BY <2>2, <4>1, <4>3 DEF st
      <4>6. EmitUnit(StateOf(1, k, 0, m, s, times), NalsIn(2, 3, 0), 15) = StateOf(1, k, 1, m, s, times)
        BY <4>4, EmitsFirst
      <4>. HIDE DEF h, b, unit
      <4> QED BY <1>6, <3>1, <3>2, <4>1, <4>2, <4>3, <4>5, <4>6 DEF st
    <3>6. CASE h # 4
      <4>. DEFINE u == UnitsBy(h - 1)
      <4>1. h > 4 BY <2>1, <2>5, <3>6 DEF IsDelimiter
      <4>2. u > 0 /\ UnitsBy(h) = u + 1 /\ 2 * u + 3 = h - 1 /\ LastUnit(h - 1) + 1 = h - 1 /\ u \in Nat
        <5>. HIDE DEF h
        <5>1. u \in Nat BY <2>1, UnitsAre
        <5>2. u > 0 /\ UnitsBy(h) = u + 1 /\ 2 * u + 3 = h - 1 /\ LastUnit(h - 1) = h - 2
          BY <1>2, <2>5, <4>1, UnitsAre
        <5> QED BY <1>2, <5>1, <5>2
      <4>. HIDE DEF u, h
      <4>3. u < Len(times) /\ j <= 2 * u + 3 /\ 5 * (2 * u + 3) <= m BY <2>1, <3>3, <3>4, <4>2
      <4>4. EmitUnit(StateOf(j, k, u, m, s, times), NalsIn(2 * u + 3, 2 * u + 3, 5 * (j - 1)),
                     5 * (2 * u + 3) - 5 * (j - 1))
              = StateOf(j, k, u + 1, m, s, times)
        BY <4>2, <4>3, EmitsLater
      <4>5. EmitUnit(StateOf(j, k, u, m, s, times), NalsIn(h - 1, h - 1, b), 5 * (h - 1) - b)
              = StateOf(j, k, UnitsBy(h), m, s, times)
        BY <4>2, <4>4
      <4> QED BY <1>6, <2>2, <3>1, <3>2, <4>2, <4>5 DEF st, u
    <3> QED BY <3>5, <3>6
  <2> QED BY <2>4, <2>5
<1> QED BY <1>2, <1>7, <1>8 DEF st

NalMovedBy(nal, base) == [nal EXCEPT !.pos = @ - base, !.data = @ - base]
LEMMA NalMoves ==
  ASSUME NEW h \in Nat, NEW b \in Nat, NEW base \in Nat
  PROVE  NalMovedBy(NalOf(h, b), base) = NalOf(h, b + base)
<1>. DEFINE x == 5 * (h - 1) - b
            y == DataOf(h) - b
            z == TypeOf(FirstByte(h))
            x1 == 5 * (h - 1) - (b + base)
            y1 == DataOf(h) - (b + base)
            nal == NalOf(h, b)
            next == NalOf(h, b + base)
            moved == [nal EXCEPT !.pos = @ - base, !.data = @ - base]
            fields == {"pos", "data", "type"}
<1>1. nal = [pos |-> x, data |-> y, type |-> z] /\ next = [pos |-> x1, data |-> y1, type |-> z]
  BY DEF NalOf
<1>2. DataOf(h) \in Int BY DEF DataOf
<1>3. x \in Int /\ y \in Int /\ x1 = x - base /\ y1 = y - base BY <1>2
<1>. HIDE DEF x, y, z, x1, y1, nal, next
<1>4. next = [f \in fields |-> next[f]] BY <1>1
<1>5. moved = [f \in fields |-> moved[f]]
  <2>1. DOMAIN moved = fields BY <1>1
  <2> QED BY <2>1
<1>6. moved.pos = x - base /\ moved.data = y - base /\ moved.type = z BY <1>1
<1>. HIDE DEF moved
<1>7. \A f \in fields : moved[f] = next[f] BY <1>1, <1>3, <1>6
<1>8. moved = next BY <1>4, <1>5, <1>7
<1> QED BY <1>8, Zenon DEF moved, nal, next, NalMovedBy

LEMMA RebasedIs ==
  ASSUME NEW j \in Nat, NEW k \in Nat, NEW m \in Nat, NEW s, NEW times, NEW u, NEW i \in Nat,
         j > 0, j <= i, i <= k, 5 * (k - 1) <= m
  PROVE  Rebased(ParserOf(j, k, u, m, s, times), i - j + 1)
           = ParserOf(i, k, u, m, NotBelowZero(s - 5 * (i - j)), times)
<1>. DEFINE b == 5 * (j - 1)
            base == 5 * (i - j)
            p == ParserOf(j, k, u, m, s, times)
            next == ParserOf(i, k, u, m, NotBelowZero(s - base), times)
            pending == PutOutFrom(b, m)
            nals == NalsFrom(j, k)
            kept == SubSeq(nals, i - j + 1, Len(nals))
            nals1 == [x \in DOMAIN kept |-> [kept[x] EXCEPT !.pos = @ - base, !.data = @ - base]]
            pending1 == UnitBytes(pending, base, Len(pending))
            s1 == NotBelowZero(s - base)
            moved == [p EXCEPT !.pending = UnitBytes(@, base, Len(@)), !.nals = nals1,
                               !.scanFrom = NotBelowZero(@ - base)]
            pts == TimesAfter(u, times)
            lastPts == IF u = 0 THEN 0 ELSE times[u]
            config == IF u = 0 THEN <<>> ELSE StartCode \o <<SpsByte>>
            fields == {"pending", "scanFrom", "nals", "pts", "lastPts", "config"}
<1>1. b \in Nat /\ base \in Nat /\ b + base = 5 * (i - 1) /\ b <= m /\ j <= k + 1 /\ 5 * (i - 1) <= m
      /\ i - j + 1 \in 1 .. k - j + 1
  OBVIOUS
<1>2. p = [pending |-> pending, scanFrom |-> s, nals |-> nals, pts |-> pts, lastPts |-> lastPts, config |-> config]
  BY Zenon DEF ParserOf
<1>3. nals[i - j + 1].pos = base
  <2>1. nals[i - j + 1] = NalOf(j + (i - j + 1) - 1, b) BY <1>1, NalsAre
  <2>2. j + (i - j + 1) - 1 = i OBVIOUS
  <2>3. NalOf(i, b).pos = 5 * (i - 1) - b BY DEF NalOf
  <2> QED BY <2>1, <2>2, <2>3
<1>4. pending1 = PutOutFrom(5 * (i - 1), m)
  <2>1. Len(pending) = m - b
    <3>. HIDE DEF b
    <3> QED BY <1>1, PutOutIs
  <2>. DEFINE t == m - b
  <2>2. t \in Nat /\ base <= t /\ b + t = m BY <1>1
  <2>3. b + t <= m BY <2>2
  <2>. HIDE DEF t, b, base
  <2>4. UnitBytes(PutOutFrom(b, m), base, t) = PutOutFrom(b + base, b + t)
    BY <1>1, <2>2, <2>3, PutOutIsCut
  <2> QED BY <1>1, <2>1, <2>2, <2>4 DEF t
<1>5. nals1 = NalsFrom(i, k)
  <2>. DEFINE f == i - j + 1
              t == k - j + 1
  <2>1. f \in Nat /\ f > 0 /\ t \in Nat /\ f <= t + 1 /\ t <= k - j + 1 /\ j <= k + 1 OBVIOUS
  <2>2. j + f - 1 = i /\ j + t - 1 = k OBVIOUS
  <2>3. Len(nals) = t BY <1>1, NalsAre
  <2>. HIDE DEF f, t
  <2>4. SubSeq(NalsFrom(j, k), f, t) = NalsIn(j + f - 1, j + t - 1, 5 * (j - 1)) BY <2>1, NalsAreCut, ZenonT(60)
  <2>5. kept = NalsIn(i, k, b) BY <2>2, <2>3, <2>4 DEF f
  <2>. HIDE DEF kept
  <2>6. DOMAIN kept = 1 .. k - i + 1 /\ \A x \in 1 .. k - i + 1 : kept[x] = NalOf(i + x - 1, b)
    BY <2>5 DEF NalsIn
  <2>7. ASSUME NEW x \in 1 .. k - i + 1
        PROVE  [kept[x] EXCEPT !.pos = @ - base, !.data = @ - base] = NalOf(i + x - 1, 5 * (i - 1))
    <3>. DEFINE h == i + x - 1
    <3>1. h \in Nat OBVIOUS
    <3>. HIDE DEF h, b, base
    <3>2. NalMovedBy(NalOf(h, b), base) = NalOf(h, b + base) BY <1>1, <3>1, NalMoves
    <3>3. kept[x] = NalOf(h, b) BY <2>6 DEF h
    <3> QED BY <1>1, <3>2, <3>3, Zenon DEF h, NalMovedBy
  <2>8. nals1 = [x \in 1 .. k - i + 1 |-> [kept[x] EXCEPT !.pos = @ - base, !.data = @ - base]] BY <2>6
  <2>. HIDE DEF nals1
  <2> QED BY <2>7, <2>8 DEF NalsFrom
<1>6. next = [pending |-> pending1, scanFrom |-> s1, nals |-> nals1, pts |-> pts, lastPts |-> lastPts, config |-> config]
  <2>. HIDE DEF pending1, nals1
  <2> QED BY <1>4, <1>5, Zenon DEF ParserOf
<1>7. Rebased(p, i - j + 1) = moved
  <2>1. p.nals = nals BY <1>2
  <2>2. p.nals[i - j + 1].pos = base BY <1>3, <2>1
  <2>. HIDE DEF p, nals, base
  <2> QED BY <2>1, <2>2, Zenon DEF Rebased
<1>. HIDE DEF p, next, pending, nals, kept, nals1, pts, lastPts, config, base, s1, pending1
<1>8. next = [x \in fields |-> next[x]] BY <1>6
<1>9. moved = [x \in fields |-> moved[x]]
  <2>1. DOMAIN moved = fields BY <1>2
  <2> QED BY <2>1
<1>10. /\ moved.pending = UnitBytes(pending, base, Len(pending)) /\ moved.scanFrom = NotBelowZero(s - base)
       /\ moved.nals = nals1 /\ moved.pts = pts /\ moved.lastPts = lastPts /\ moved.config = config
  BY <1>2
<1>. HIDE DEF moved
<1>11. \A x \in fields : moved[x] = next[x] BY <1>6, <1>10 DEF s1, pending1
<1>12. moved = next BY <1>8, <1>9, <1>11
<1> QED BY <1>7, <1>12 DEF p, next, base

LEMMA EmitUnitsIs ==
  ASSUME NEW j \in Nat, NEW k \in Nat, NEW m \in Nat, NEW s \in Nat, NEW times \in Seq(Nat),
         j > 0, IsDelimiter(j), j <= k + 1, j > 1 => j <= k, 5 * (k - 1) <= m, UnitsBy(k) <= Len(times),
         emitted = Outputs(UnitsBy(j), times)
  PROVE  EmitUnits(ParserOf(j, k, UnitsBy(j), m, s, times))
           = StateOf(LastUnit(k), k, UnitsBy(k), m, NotBelowZero(s - 5 * (LastUnit(k) - j)), times)
<1>. DEFINE p == ParserOf(j, k, UnitsBy(j), m, s, times)
            N == Len(p.nals)
            made(f) == [x \in 0 .. N |-> IF x = 0 THEN [parser |-> p, emitted |-> emitted] ELSE UnitEnded(f[x - 1], x)]
            done == CHOOSE f : f = made(f)
            f0 == [x \in 0 .. N |-> StateOf(j, k, UnitsDone(j, x), m, s, times)]
            lastAud == LastAud(p.nals, N)
<1>2. p.nals = NalsFrom(j, k) /\ N = k - j + 1
  <2>1. p.nals = NalsFrom(j, k) BY DEF ParserOf
  <2> QED BY <2>1, NalsAre
<1>1. N \in Nat BY <1>2
<1>3. EmitUnits(p) = IF lastAud = 0 THEN done[N] ELSE [done[N] EXCEPT !.parser = Rebased(@, lastAud)]
  BY DEF EmitUnits
<1>4. StateOf(j, k, UnitsDone(j, 0), m, s, times) = [parser |-> p, emitted |-> emitted]
  <2>1. UnitsDone(j, 0) = UnitsBy(j) BY DEF UnitsDone
  <2> QED BY <2>1 DEF StateOf
<1>. HIDE DEF p, N
<1>5. ASSUME NEW x \in 1 .. N
      PROVE  UnitEnded(StateOf(j, k, UnitsDone(j, x - 1), m, s, times), x) = StateOf(j, k, UnitsDone(j, x), m, s, times)
  <2>1. x \in 1 .. k - j + 1 BY <1>2
  <2> QED BY <2>1, UnitEndedIs
<1>6. \E f : f = made(f)
  <2>1. ASSUME NEW x \in 0 .. N
        PROVE  f0[x] = IF x = 0 THEN [parser |-> p, emitted |-> emitted] ELSE UnitEnded(f0[x - 1], x)
    <3>1. CASE x = 0 BY <1>4, <3>1
    <3>2. CASE x # 0
      <4>1. x \in 1 .. N /\ x - 1 \in 0 .. N BY <1>1, <3>2
      <4> QED BY <1>5, <3>2, <4>1
    <3> QED BY <3>1, <3>2
  <2>2. f0 = [x \in 0 .. N |-> f0[x]] OBVIOUS
  <2>. HIDE DEF f0
  <2>3. f0 = made(f0) BY <2>1, <2>2
  <2> QED BY <2>3
<1>7. done = made(done) BY <1>6
<1>. HIDE DEF done
<1>8. \A x \in 0 .. N :
        done[x] = IF x = 0 THEN [parser |-> p, emitted |-> emitted] ELSE UnitEnded(done[x - 1], x)
  <2>. DEFINE g == made(done)
  <2>1. \A x \in 0 .. N :
          g[x] = IF x = 0 THEN [parser |-> p, emitted |-> emitted] ELSE UnitEnded(done[x - 1], x)
    OBVIOUS
  <2>. HIDE DEF g
  <2>2. done = g BY <1>7 DEF g
  <2> QED BY <2>1, <2>2
<1>. DEFINE T == {x \in 0 .. N : done[x] # StateOf(j, k, UnitsDone(j, x), m, s, times)}
<1>9. T = {}
  <2>1. SUFFICES ASSUME T # {} PROVE FALSE OBVIOUS
  <2>2. PICK x \in T : \A y \in T : x <= y
    <3>1. T \subseteq Nat OBVIOUS
    <3>. HIDE DEF T
    <3> QED BY <2>1, <3>1, Least
  <2>3. x \in 0 .. N /\ done[x] # StateOf(j, k, UnitsDone(j, x), m, s, times) OBVIOUS
  <2>4. CASE x = 0 BY <1>4, <1>8, <2>3, <2>4
  <2>5. CASE x # 0
    <3>1. x - 1 \in 0 .. N /\ ~(x <= x - 1) /\ x \in 1 .. N BY <1>1, <2>3, <2>5
    <3>2. done[x - 1] = StateOf(j, k, UnitsDone(j, x - 1), m, s, times) BY <2>2, <3>1
    <3> QED BY <1>5, <1>8, <2>3, <2>5, <3>1, <3>2
  <2> QED BY <2>4, <2>5
<1>10. done[N] = StateOf(j, k, UnitsDone(j, N), m, s, times)
  <2>1. N \in 0 .. N BY <1>1
  <2> QED BY <1>9, <2>1
<1>11. N \in 0 .. k - j + 1 BY <1>1, <1>2
<1>12. lastAud = IF N = 0 THEN 0 ELSE LastUnit(j + N - 1) - j + 1 BY <1>2, <1>11, LastAudIs
<1>. HIDE DEF lastAud
<1>13. CASE N = 0
  <2>1. k = 0 /\ j = 1 BY <1>2, <1>13 DEF IsDelimiter
  <2>2. LastUnit(k) = 1 /\ UnitsBy(k) = 0 /\ UnitsBy(j) = 0
    <3>1. LastUnit(0) = 1 BY DEF LastUnit
    <3>2. UnitsBy(0) = 0 /\ UnitsBy(1) = 0
      <4>1. 0 \in Nat OBVIOUS
      <4> QED BY <4>1, UnitsAre
    <3> QED BY <2>1, <3>1, <3>2
  <2>3. NotBelowZero(s - 5 * (LastUnit(k) - j)) = s
    <3>1. s - 5 * (LastUnit(k) - j) = s BY <2>1, <2>2
    <3> QED BY <3>1 DEF NotBelowZero
  <2>4. UnitsDone(j, N) = UnitsBy(k) BY <1>13, <2>2 DEF UnitsDone
  <2>5. j = LastUnit(k) BY <2>1, <2>2
  <2>6. EmitUnits(p) = done[N] BY <1>3, <1>12, <1>13
  <2>7. EmitUnits(p) = StateOf(j, k, UnitsBy(k), m, s, times) BY <1>10, <2>4, <2>6
  <2> QED BY <2>3, <2>5, <2>7, Zenon DEF p
<1>14. CASE N > 0
  <2>. DEFINE i == LastUnit(k)
              s1 == NotBelowZero(s - 5 * (i - j))
  <2>1. j + N - 1 = k /\ k > 0 /\ j \in 1 .. k BY <1>2, <1>14
  <2>2. i \in Nat /\ j <= i /\ i <= k BY <2>1, LastUnitIs
  <2>3. lastAud = i - j + 1 /\ lastAud # 0
    <3>1. lastAud = i - j + 1 BY <1>12, <1>14, <2>1
    <3>. HIDE DEF i
    <3> QED BY <2>2, <3>1
  <2>4. UnitsDone(j, N) = UnitsBy(k) BY <1>14, <2>1 DEF UnitsDone
  <2>. HIDE DEF i
  <2>5. Rebased(ParserOf(j, k, UnitsBy(k), m, s, times), i - j + 1) = ParserOf(i, k, UnitsBy(k), m, s1, times)
    BY <2>2, RebasedIs
  <2>. DEFINE q == ParserOf(j, k, UnitsBy(k), m, s, times)
              o == Outputs(UnitsBy(k), times)
              next == ParserOf(i, k, UnitsBy(k), m, s1, times)
  <2>6. done[N] = [parser |-> q, emitted |-> o] BY <1>10, <2>4 DEF StateOf
  <2>7. StateOf(i, k, UnitsBy(k), m, s1, times) = [parser |-> next, emitted |-> o] BY DEF StateOf
  <2>8. Rebased(q, lastAud) = next BY <2>3, <2>5
  <2>. HIDE DEF q, o, next
  <2>9. [done[N] EXCEPT !.parser = Rebased(@, lastAud)] = [parser |-> next, emitted |-> o] BY <2>6, <2>8
  <2>10. EmitUnits(p) = StateOf(i, k, UnitsBy(k), m, s1, times) BY <1>3, <2>3, <2>7, <2>9
  <2> QED BY <2>10, Zenon DEF p, i, s1
<1> QED BY <1>1, <1>13, <1>14

-----------------------------------------------------------------------------
\* What arrives.
LEMMA ParserScanned ==
  ASSUME NEW j, NEW k, NEW h, NEW m, NEW s, NEW f, NEW times, NEW u
  PROVE  ScannedTo(ParserOf(j, k, u, m, s, times), NalsFrom(j, h), f) = ParserOf(j, h, u, m, f, times)
<1>. DEFINE p == ParserOf(j, k, u, m, s, times)
            next == ParserOf(j, h, u, m, f, times)
            nals1 == NalsFrom(j, h)
            pending == PutOutFrom(5 * (j - 1), m)
            nals == NalsFrom(j, k)
            moved == [p EXCEPT !.nals = nals1, !.scanFrom = f]
            pts == TimesAfter(u, times)
            lastPts == IF u = 0 THEN 0 ELSE times[u]
            config == IF u = 0 THEN <<>> ELSE StartCode \o <<SpsByte>>
            fields == {"pending", "scanFrom", "nals", "pts", "lastPts", "config"}
<1>1. p = [pending |-> pending, scanFrom |-> s, nals |-> nals, pts |-> pts, lastPts |-> lastPts, config |-> config]
  BY Zenon DEF ParserOf
<1>2. next = [pending |-> pending, scanFrom |-> f, nals |-> nals1, pts |-> pts, lastPts |-> lastPts, config |-> config]
  BY Zenon DEF ParserOf
<1>. HIDE DEF p, next, pending, nals, nals1, pts, lastPts, config
<1>3. next = [x \in fields |-> next[x]] BY <1>2
<1>4. moved = [x \in fields |-> moved[x]]
  <2>1. DOMAIN moved = fields BY <1>1
  <2> QED BY <2>1
<1>5. /\ moved.pending = pending /\ moved.scanFrom = f /\ moved.nals = nals1 /\ moved.pts = pts
      /\ moved.lastPts = lastPts /\ moved.config = config
  BY <1>1
<1>. HIDE DEF moved
<1>6. \A x \in fields : moved[x] = next[x] BY <1>2, <1>5
<1>7. moved = next BY <1>3, <1>4, <1>6
<1> QED BY <1>7, Zenon DEF p, next, nals1, moved, ScannedTo

ParserGiven(p, chunk) == [p EXCEPT !.pending = @ \o chunk]
LEMMA ParserIsGiven ==
  ASSUME NEW j \in Nat, NEW k, NEW m \in Nat, NEW n \in Nat, NEW s, NEW times, NEW u,
         j > 0, 5 * (j - 1) <= m, m <= n
  PROVE  ParserGiven(ParserOf(j, k, u, m, s, times), PutOutFrom(m, n)) = ParserOf(j, k, u, n, s, times)
<1>. DEFINE b == 5 * (j - 1)
            pending == PutOutFrom(b, m)
            chunk == PutOutFrom(m, n)
            pending1 == PutOutFrom(b, n)
            nals == NalsFrom(j, k)
            pts == TimesAfter(u, times)
            lastPts == IF u = 0 THEN 0 ELSE times[u]
            config == IF u = 0 THEN <<>> ELSE StartCode \o <<SpsByte>>
            p == ParserOf(j, k, u, m, s, times)
            next == ParserOf(j, k, u, n, s, times)
            moved == [p EXCEPT !.pending = @ \o chunk]
            fields == {"pending", "scanFrom", "nals", "pts", "lastPts", "config"}
<1>1. pending \o chunk = pending1
  <2>1. b \in Nat /\ b <= m OBVIOUS
  <2>. HIDE DEF b
  <2> QED BY <2>1, PutOutJoins
<1>2. p = [pending |-> pending, scanFrom |-> s, nals |-> nals, pts |-> pts, lastPts |-> lastPts, config |-> config]
  BY Zenon DEF ParserOf
<1>3. next = [pending |-> pending1, scanFrom |-> s, nals |-> nals, pts |-> pts, lastPts |-> lastPts, config |-> config]
  BY Zenon DEF ParserOf
<1>. HIDE DEF p, next, pending, chunk, pending1, nals, pts, lastPts, config
<1>4. next = [x \in fields |-> next[x]] BY <1>3
<1>5. moved = [x \in fields |-> moved[x]]
  <2>1. DOMAIN moved = fields BY <1>2
  <2> QED BY <2>1
<1>6. /\ moved.pending = pending \o chunk /\ moved.scanFrom = s /\ moved.nals = nals /\ moved.pts = pts
      /\ moved.lastPts = lastPts /\ moved.config = config
  BY <1>2
<1>. HIDE DEF moved
<1>7. \A x \in fields : moved[x] = next[x] BY <1>1, <1>3, <1>6
<1>8. moved = next BY <1>4, <1>5, <1>7
<1> QED BY <1>8, Zenon DEF p, next, chunk, moved, ParserGiven

LEMMA LastUnitBounds ==
  ASSUME NEW m \in Nat
  PROVE  LET k == BegunBy(m)
             j == LastUnit(k)
         IN  /\ k \in Nat /\ j \in Nat /\ j > 0 /\ IsDelimiter(j) /\ j <= k + 1 /\ (j > 1 => j <= k)
             /\ 5 * (j - 1) <= m /\ 5 * (k - 1) <= m /\ UnitsBy(k) = UnitsBy(j)
<1>. DEFINE k == BegunBy(m)
            j == LastUnit(k)
<1>1. k \in Nat BY BegunBounds
<1>2. 5 * (k - 1) <= m
  <2>1. CASE k = 0 BY <2>1
  <2>2. CASE k > 0
    <3>1. DataOf(k) < m BY <1>1, <2>2, BegunIs
    <3>. HIDE DEF k
    <3>2. DataOf(k) \in {5 * k - 2, 5 * k - 1} BY DEF DataOf
    <3> QED BY <1>1, <3>1, <3>2
  <2> QED BY <1>1, <2>1, <2>2
<1>. HIDE DEF k
<1>3. j \in Nat /\ j > 0 /\ IsDelimiter(j) /\ j <= k + 1 /\ (j > 1 => j <= k)
  <2>1. CASE k = 0 BY <2>1 DEF LastUnit, IsDelimiter
  <2>2. CASE k > 0
    <3>1. LastUnit(k) \in 1 .. k /\ IsDelimiter(LastUnit(k)) BY <1>1, <2>2, LastUnitIs
    <3> QED BY <1>1, <3>1
  <2> QED BY <1>1, <2>1, <2>2
<1>4. UnitsBy(k) = UnitsBy(j)
  <2>1. CASE k <= 3
    <3>1. j = 1 /\ 1 <= 3 BY <2>1 DEF LastUnit
    <3> QED BY <2>1, <3>1 DEF UnitsBy
  <2>2. CASE k > 3
    <3>. DEFINE q == k \div 2
    <3>1. j = 2 * q BY <1>1, <2>2 DEF LastUnit
    <3>2. q \in Nat /\ q >= 2 BY <1>1, <2>2
    <3>3. (2 * q) \div 2 = q /\ ~(2 * q <= 3)
      <4>. HIDE DEF q
      <4> QED BY <3>2
    <3>4. UnitsBy(k) = q - 1 BY <1>1, <2>2 DEF UnitsBy
    <3>. HIDE DEF q
    <3> QED BY <3>1, <3>3, <3>4 DEF UnitsBy
  <2> QED BY <1>1, <2>1, <2>2
<1>5. 5 * (j - 1) <= m
  <2>. HIDE DEF j
  <2> QED BY <1>1, <1>2, <1>3
<1> QED BY <1>1, <1>2, <1>3, <1>4, <1>5 DEF k

\* As ScannedIs.
LEMMA ScannedAt ==
  ASSUME NEW j \in Nat, NEW m \in Nat, NEW n \in Nat, NEW p, NEW s \in Nat,
         j > 0, j <= BegunBy(m) + 1, j > 1 => j <= BegunBy(m), 5 * (j - 1) <= m, m <= n,
         p.pending = PutOutFrom(5 * (j - 1), n), p.nals = NalsFrom(j, BegunBy(m)), p.scanFrom = s,
         s <= NotBelowZero(m - 5 * (j - 1) - 4)
  PROVE  Scanned(p) = ScannedTo(p, NalsFrom(j, BegunBy(n)), NotBelowZero(n - 5 * (j - 1) - 4))
<1>. DEFINE k == BegunBy(m)
<1>1. k \in Nat BY BegunBounds
<1>2. /\ j > 0 /\ j <= k + 1 /\ (j > 1 => j <= k) /\ p.nals = NalsFrom(j, k) /\ k = BegunBy(m)
      /\ p.scanFrom \in Nat /\ p.scanFrom <= NotBelowZero(m - 5 * (j - 1) - 4)
  OBVIOUS
<1>. HIDE DEF k
<1> QED BY <1>1, <1>2, ScannedIs, SMTT(60)

\* However much of it is read at once, what the parser holds follows from how much was read.
LEMMA ArrivedIs ==
  ASSUME NEW m \in Nat, NEW n \in Nat, m <= n, NEW times \in Seq(Nat), UnitsBy(BegunBy(n)) <= Len(times),
         NEW p, ParsedIs(p, emitted, m, times)
  PROVE  LET st == EmitUnits(Scanned(ParserGiven(p, PutOutFrom(m, n))))
         IN  ParsedIs(st.parser, st.emitted, n, times)
<1>. DEFINE k0 == BegunBy(m)
            k == BegunBy(n)
            j == LastUnit(k0)
            i == LastUnit(k)
            u == UnitsBy(k0)
            f == NotBelowZero(n - 5 * (j - 1) - 4)
            st == EmitUnits(Scanned(ParserGiven(p, PutOutFrom(m, n))))
<1>1. PICK s \in Nat : p = ParserAt(m, s, times) BY DEF ParsedIs
<1>2. p = ParserOf(j, k0, u, m, s, times) BY <1>1, Zenon DEF ParserAt
<1>3. RescansAt(p) /\ emitted = Outputs(u, times) BY DEF ParsedIs
<1>4. /\ k0 \in Nat /\ j \in Nat /\ j > 0 /\ IsDelimiter(j) /\ j <= k0 + 1 /\ (j > 1 => j <= k0)
      /\ 5 * (j - 1) <= m /\ u = UnitsBy(j)
  BY LastUnitBounds
<1>5. /\ k \in Nat /\ i \in Nat /\ i > 0 /\ i <= k + 1 /\ 5 * (i - 1) <= n /\ 5 * (k - 1) <= n BY LastUnitBounds
<1>6. k0 <= k BY BegunGrows
<1>7. j <= i
  <2>1. CASE j = 1 BY <1>5, <2>1
  <2>2. CASE j > 1
    <3>1. k > 0 /\ j \in 1 .. k BY <1>4, <1>5, <1>6, <2>2
    <3>. HIDE DEF j, k
    <3> QED BY <1>4, <1>5, <3>1, LastUnitIs
  <2> QED BY <1>4, <2>1, <2>2
<1>. DEFINE p1 == ParserOf(j, k0, u, n, s, times)
            p2 == ParserOf(j, k, u, n, f, times)
<1>8. ParserGiven(p, PutOutFrom(m, n)) = p1
  <2>. HIDE DEF j, k0, u
  <2> QED BY <1>2, <1>4, ParserIsGiven
<1>9. s <= NotBelowZero(m - 5 * (j - 1) - 4)
  <2>. DEFINE b == 5 * (j - 1)
  <2>1. b \in Nat /\ b <= m BY <1>4
  <2>2. p.scanFrom = s /\ p.pending = PutOutFrom(b, m) BY <1>2 DEF ParserOf
  <2>. HIDE DEF b
  <2>3. Len(p.pending) = m - b BY <2>1, <2>2, PutOutIs
  <2> QED BY <1>3, <2>2, <2>3 DEF RescansAt, b
<1>10. Scanned(p1) = p2
  <2>1. p1.pending = PutOutFrom(5 * (j - 1), n) /\ p1.nals = NalsFrom(j, k0) /\ p1.scanFrom = s BY DEF ParserOf
  <2>2. Scanned(p1) = ScannedTo(p1, NalsFrom(j, k), f)
    <3>. HIDE DEF p1, j
    <3>1. j <= BegunBy(m) + 1 /\ (j > 1 => j <= BegunBy(m)) /\ p1.nals = NalsFrom(j, BegunBy(m)) BY <1>4, <2>1
    <3> QED BY <1>4, <1>9, <2>1, <3>1, ScannedAt
  <2>3. ScannedTo(p1, NalsFrom(j, k), f) = p2
    <3>. HIDE DEF j, k0, k, u, f
    <3> QED BY ParserScanned
  <2> QED BY <2>2, <2>3
<1>11. f \in Nat BY <1>4 DEF NotBelowZero
<1>. DEFINE s1 == NotBelowZero(f - 5 * (i - j))
<1>12. EmitUnits(p2) = StateOf(i, k, UnitsBy(k), n, s1, times)
  <2>1. p2 = ParserOf(j, k, UnitsBy(j), n, f, times) BY <1>4
  <2>2. j <= k + 1 /\ (j > 1 => j <= k) BY <1>4, <1>5, <1>6
  <2>3. emitted = Outputs(UnitsBy(j), times) BY <1>3, <1>4
  <2>4. UnitsBy(k) <= Len(times) OBVIOUS
  <2>. HIDE DEF j, k, f, p2
  <2>5. EmitUnits(ParserOf(j, k, UnitsBy(j), n, f, times)) = StateOf(i, k, UnitsBy(k), n, s1, times)
    BY <1>4, <1>5, <1>11, <2>2, <2>3, <2>4, EmitUnitsIs, SMTT(60)
  <2> QED BY <2>1, <2>5
<1>13. st = StateOf(i, k, UnitsBy(k), n, s1, times) BY <1>8, <1>10, <1>12
<1>14. s1 \in Nat /\ s1 <= NotBelowZero(n - 5 * (i - 1) - 4)
  <2>. HIDE DEF i, j
  <2> QED BY <1>4, <1>5, <1>7 DEF NotBelowZero
<1>15. st.parser = ParserAt(n, s1, times) /\ st.emitted = Outputs(UnitsBy(k), times)
  <2>. HIDE DEF st, s1
  <2> QED BY <1>13 DEF StateOf, ParserAt
<1>16. RescansAt(st.parser)
  <2>. DEFINE b == 5 * (i - 1)
  <2>1. b \in Nat /\ b <= n BY <1>5
  <2>. HIDE DEF st, s1
  <2>2. st.parser.scanFrom = s1 /\ st.parser.pending = PutOutFrom(b, n) BY <1>13 DEF StateOf, ParserOf
  <2>. HIDE DEF b
  <2>3. Len(st.parser.pending) = n - b BY <2>1, <2>2, PutOutIs
  <2> QED BY <1>14, <2>2, <2>3 DEF RescansAt, b
<1>. HIDE DEF st, s1
<1> QED BY <1>14, <1>15, <1>16 DEF ParsedIs, st

-----------------------------------------------------------------------------
\* The steps.
LEMMA UnitsInTime ==
  ASSUME NEW e \in Nat, NEW m \in Nat, m <= LengthOf(e)
  PROVE  UnitsBy(BegunBy(m)) \in Nat /\ UnitsBy(BegunBy(m)) <= e
<1>. DEFINE n == LengthOf(e)
<1>1. n \in Nat BY DEF LengthOf
<1>2. BegunBy(m) \in Nat /\ BegunBy(n) \in Nat BY <1>1, BegunBounds
<1>3. BegunBy(m) <= BegunBy(n) BY <1>1, BegunGrows
<1>4. UnitsBy(BegunBy(m)) <= UnitsBy(BegunBy(n)) BY <1>2, <1>3, UnitsGrow
<1>5. UnitsBy(BegunBy(m)) \in Nat /\ UnitsBy(BegunBy(n)) \in Nat BY <1>2, UnitsAre
<1>6. UnitsBy(BegunBy(n)) <= e
  <2>1. CASE e = 0
    <3>1. n = 0 BY <2>1 DEF LengthOf
    <3>2. BegunBy(0) = 0
      <4>1. 0 % 5 = 0 /\ 0 \div 5 = 0 OBVIOUS
      <4> QED BY <4>1 DEF BegunBy
    <3>3. UnitsBy(0) = 0 BY DEF UnitsBy
    <3> QED BY <2>1, <3>1, <3>2, <3>3
  <2>2. CASE e > 0
    <3>1. n = 10 * e + 5 BY <2>2 DEF LengthOf
    <3>2. (10 * e + 5) % 5 = 0 /\ (10 * e + 5) \div 5 = 2 * e + 1 OBVIOUS
    <3>3. BegunBy(n) = 2 * e + 1 BY <3>1, <3>2 DEF BegunBy
    <3>4. (2 * e + 1) \div 2 = e OBVIOUS
    <3>5. UnitsBy(2 * e + 1) = IF 2 * e + 1 <= 3 THEN 0 ELSE e - 1 BY <3>4 DEF UnitsBy
    <3> QED BY <2>2, <3>3, <3>5
  <2> QED BY <2>1, <2>2
<1> QED BY <1>4, <1>5, <1>6

LEMMA AppendIs ==
  ASSUME NEW times \in Seq(Nat), NEW x \in Nat
  PROVE  /\ Append(times, x) \in Seq(Nat) /\ Len(times) \in Nat /\ Len(Append(times, x)) = Len(times) + 1
         /\ \A i \in 1 .. Len(times) : Append(times, x)[i] = times[i]
         /\ Append(times, x)[Len(times) + 1] = x
         /\ \A i \in 1 .. Len(times) : times[i] \in Nat
OBVIOUS

LEMMA OutputsStay ==
  ASSUME NEW times \in Seq(Nat), NEW x \in Nat, NEW u \in Nat, u <= Len(times)
  PROVE  Outputs(u, Append(times, x)) = Outputs(u, times)
<1>. DEFINE after == Append(times, x)
<1>1. \A i \in 1 .. Len(times) : after[i] = times[i] BY AppendIs
<1>. HIDE DEF after
<1>2. ASSUME NEW i \in 1 .. (IF u = 0 THEN 0 ELSE u + 1) PROVE OutputAt(i, after) = OutputAt(i, times)
  <2>1. CASE i = 1 BY <2>1, Zenon DEF OutputAt
  <2>2. CASE i # 1
    <3>1. i - 1 \in 1 .. Len(times) BY <2>2
    <3>2. after[i - 1] = times[i - 1] BY <1>1, <3>1
    <3> QED BY <2>2, <3>2, Zenon DEF OutputAt
  <2> QED BY <2>1, <2>2
<1> QED BY <1>2 DEF Outputs, after

LEMMA TimesGrow ==
  ASSUME NEW times \in Seq(Nat), NEW x \in Nat, NEW u \in Nat, u <= Len(times)
  PROVE  TimesAfter(u, Append(times, x)) = Append(TimesAfter(u, times), x)
<1>. DEFINE after == Append(times, x)
            n == Len(times)
            s == TimesAfter(u, times)
            t == TimesAfter(u, after)
            v == Append(s, x)
<1>1. /\ n \in Nat /\ Len(after) = n + 1 /\ (\A i \in 1 .. n : after[i] = times[i] /\ times[i] \in Nat)
      /\ after[n + 1] = x
  BY AppendIs
<1>. HIDE DEF after, n
<1>2. s \in Seq(Nat) /\ Len(s) = n - u /\ \A i \in 1 .. n - u : s[i] = times[u + i]
  <2>1. \A i \in 1 .. n - u : u + i \in 1 .. n BY <1>1 DEF n
  <2> QED BY <1>1, <2>1 DEF TimesAfter, n
<1>3. t \in Seq(Nat) /\ Len(t) = n + 1 - u /\ \A i \in 1 .. n + 1 - u : t[i] = after[u + i]
  <2>1. \A i \in 1 .. n + 1 - u : u + i \in 1 .. n + 1 BY <1>1 DEF n
  <2>2. \A i \in 1 .. n + 1 : after[i] \in Nat BY <1>1
  <2>3. n + 1 - u \in Nat BY <1>1 DEF n
  <2> QED BY <1>1, <2>1, <2>2, <2>3 DEF TimesAfter
<1>. HIDE DEF s, t
<1>4. /\ v \in Seq(Nat) /\ Len(v) = n - u + 1 /\ (\A i \in 1 .. n - u : v[i] = s[i])
      /\ v[n - u + 1] = x
  BY <1>2
<1>. HIDE DEF v
<1>5. \A i \in 1 .. n - u + 1 : v[i] = t[i]
  <2>1. ASSUME NEW i \in 1 .. n - u + 1 PROVE v[i] = t[i]
    <3>0. u <= n BY DEF n
    <3>1. CASE i = n - u + 1
      <4>1. i \in 1 .. n + 1 - u /\ u + i = n + 1 BY <1>1, <3>0, <3>1
      <4> QED BY <1>1, <1>3, <1>4, <3>1, <4>1
    <3>2. CASE i # n - u + 1
      <4>1. i \in 1 .. n - u /\ i \in 1 .. n + 1 - u /\ u + i \in 1 .. n BY <1>1, <3>0, <3>2
      <4> QED BY <1>1, <1>2, <1>3, <1>4, <4>1
    <3> QED BY <3>1, <3>2
  <2> QED BY <2>1
<1>6. n - u + 1 = n + 1 - u BY <1>1
<1>7. v = t BY <1>3, <1>4, <1>5, <1>6, SeqEqual
<1> QED BY <1>7 DEF v, s, t, after

ParserTimed(p, x) == [p EXCEPT !.pts = Append(@, x)]
LEMMA ParserIsTimed ==
  ASSUME NEW j, NEW k, NEW m, NEW s, NEW times \in Seq(Nat), NEW x \in Nat, NEW u \in Nat, u <= Len(times)
  PROVE  ParserTimed(ParserOf(j, k, u, m, s, times), x) = ParserOf(j, k, u, m, s, Append(times, x))
<1>. DEFINE p == ParserOf(j, k, u, m, s, times)
            next == ParserOf(j, k, u, m, s, Append(times, x))
            moved == [p EXCEPT !.pts = Append(@, x)]
            pending == PutOutFrom(5 * (j - 1), m)
            nals == NalsFrom(j, k)
            pts == TimesAfter(u, times)
            pts1 == TimesAfter(u, Append(times, x))
            lastPts == IF u = 0 THEN 0 ELSE times[u]
            config == IF u = 0 THEN <<>> ELSE StartCode \o <<SpsByte>>
            fields == {"pending", "scanFrom", "nals", "pts", "lastPts", "config"}
<1>1. p = [pending |-> pending, scanFrom |-> s, nals |-> nals, pts |-> pts, lastPts |-> lastPts, config |-> config]
  BY Zenon DEF ParserOf
<1>2. next = [pending |-> pending, scanFrom |-> s, nals |-> nals, pts |-> pts1, lastPts |-> lastPts, config |-> config]
  <2>. DEFINE l == IF u = 0 THEN 0 ELSE Append(times, x)[u]
  <2>1. l = lastPts
    <3>1. CASE u = 0 BY <3>1
    <3>2. CASE u # 0
      <4>1. u \in 1 .. Len(times) BY <3>2
      <4>2. Append(times, x)[u] = times[u] BY <4>1, AppendIs
      <4> QED BY <3>2, <4>2
    <3> QED BY <3>1, <3>2
  <2>2. next = [pending |-> pending, scanFrom |-> s, nals |-> nals, pts |-> pts1, lastPts |-> l, config |-> config]
    BY Zenon DEF ParserOf
  <2>. HIDE DEF l, lastPts, next
  <2> QED BY <2>1, <2>2, Zenon
<1>3. pts1 = Append(pts, x) BY TimesGrow
<1>. HIDE DEF p, next, pending, nals, pts, pts1, lastPts, config
<1>4. next = [y \in fields |-> next[y]] BY <1>2
<1>5. moved = [y \in fields |-> moved[y]]
  <2>1. DOMAIN moved = fields BY <1>1
  <2> QED BY <2>1
<1>6. /\ moved.pending = pending /\ moved.scanFrom = s /\ moved.nals = nals /\ moved.pts = Append(pts, x)
      /\ moved.lastPts = lastPts /\ moved.config = config
  BY <1>1
<1>. HIDE DEF moved
<1>6a. /\ next.pending = pending /\ next.scanFrom = s /\ next.nals = nals /\ next.pts = pts1
       /\ next.lastPts = lastPts /\ next.config = config
  BY <1>2
<1>. HIDE DEF next
<1>6b. moved.pts = next.pts BY <1>3, <1>6, <1>6a, Zenon
<1>7. \A y \in fields : moved[y] = next[y] BY <1>6, <1>6a, <1>6b, Zenon
<1>8. moved = next BY <1>4, <1>5, <1>7
<1> QED BY <1>8, Zenon DEF p, next, moved, ParserTimed

\* One more image was taken.
LEMMA TimedIs ==
  ASSUME NEW m \in Nat, NEW times \in Seq(Nat), UnitsBy(BegunBy(m)) <= Len(times), NEW x \in Nat,
         NEW p, NEW out, ParsedIs(p, out, m, times)
  PROVE  ParsedIs(ParserTimed(p, x), out, m, Append(times, x))
<1>. DEFINE k == BegunBy(m)
            j == LastUnit(k)
            u == UnitsBy(k)
            after == Append(times, x)
            q == ParserTimed(p, x)
<1>1. PICK s \in Nat : p = ParserAt(m, s, times) BY DEF ParsedIs
<1>2. p = ParserOf(j, k, u, m, s, times) BY <1>1, Zenon DEF ParserAt
<1>3. RescansAt(p) /\ out = Outputs(u, times) BY DEF ParsedIs
<1>4. u \in Nat BY LastUnitBounds, UnitsAre
<1>5. q = ParserOf(j, k, u, m, s, after)
  <2>1. u <= Len(times) OBVIOUS
  <2>. HIDE DEF j, k, u
  <2> QED BY <1>2, <1>4, <2>1, ParserIsTimed
<1>6. out = Outputs(u, after)
  <2>1. u <= Len(times) OBVIOUS
  <2>. HIDE DEF u
  <2> QED BY <1>3, <1>4, <2>1, OutputsStay
<1>7. RescansAt(q)
  <2>. HIDE DEF j, k, u, after, q
  <2>0. p.scanFrom = s /\ p.pending = PutOutFrom(5 * (j - 1), m) BY <1>2 DEF ParserOf
  <2>00. q.scanFrom = s /\ q.pending = PutOutFrom(5 * (j - 1), m) BY <1>5 DEF ParserOf
  <2>1. q.scanFrom = p.scanFrom /\ q.pending = p.pending BY <2>0, <2>00, Zenon
  <2> QED BY <1>3, <2>1 DEF RescansAt
<1>8. q = ParserAt(m, s, after) BY <1>5, Zenon DEF ParserAt
<1>. HIDE DEF q, after
<1> QED BY <1>6, <1>7, <1>8 DEF ParsedIs, q, after


-----------------------------------------------------------------------------
\* The encoder's actions.
LEMMA EmptyIs == ASSUME NEW s \in Seq(Nat), Len(s) = 0 PROVE s = <<>>
OBVIOUS

LEMMA OutputStarts == ASSUME EncoderInit PROVE OutputInv
<1>1. /\ encoder.accepted = <<>> /\ encoder.encoded = 0 /\ encoder.read = 0 /\ encoder.closed = FALSE
      /\ emitted = <<>>
      /\ parser = [pending |-> <<>>, scanFrom |-> 0, nals |-> <<>>, pts |-> <<>>, lastPts |-> 0, config |-> <<>>]
  BY DEF EncoderInit
<1>2. ImagesTaken(encoder) BY <1>1 DEF ImagesTaken, LengthOf
<1>3. BegunBy(0) = 0 /\ LastUnit(0) = 1 /\ UnitsBy(0) = 0
  <2>1. 0 % 5 = 0 /\ 0 \div 5 = 0 OBVIOUS
  <2> QED BY <2>1 DEF BegunBy, LastUnit, UnitsBy
<1>4. PutOutFrom(5 * (1 - 1), 0) = <<>> BY PutOutIs, EmptyIs
<1>5. NalsFrom(1, 0) = <<>>
  <2>1. Len(NalsFrom(1, 0)) = 0 /\ NalsFrom(1, 0) \in Seq(Nat) BY DEF NalsFrom
  <2> QED BY <2>1, EmptyIs
<1>6. TimesAfter(0, <<>>) = <<>>
  <2>1. TimesAfter(0, <<>>) \in Seq(Nat) /\ Len(TimesAfter(0, <<>>)) = 0 BY DEF TimesAfter
  <2> QED BY <2>1, EmptyIs
<1>7. parser = ParserOf(1, 0, 0, 0, 0, <<>>) BY <1>1, <1>4, <1>5, <1>6, Zenon DEF ParserOf
<1>8. parser = ParserAt(0, 0, <<>>) BY <1>3, <1>7, Zenon DEF ParserAt
<1>9. RescansAt(parser) BY <1>1 DEF RescansAt, NotBelowZero
<1>10. emitted = Outputs(UnitsBy(BegunBy(0)), <<>>)
  <2>1. Outputs(0, <<>>) = <<>> BY OutputsAre
  <2> QED BY <1>1, <1>3, <2>1
<1>11. ParsedIs(parser, emitted, 0, <<>>) BY <1>8, <1>9, <1>10 DEF ParsedIs
<1> QED BY <1>1, <1>2, <1>11, Zenon DEF OutputInv

LEMMA ParsedIsWhole ==
  ASSUME NEW e, NEW p, NEW out, ImagesTaken(e), ParsedIs(p, out, e.read, e.accepted)
  PROVE  \E u \in 0 .. Len(e.accepted) : out = Outputs(u, e.accepted)
<1>. DEFINE u == UnitsBy(BegunBy(e.read))
<1>1. u \in Nat /\ u <= e.encoded BY UnitsInTime DEF ImagesTaken
<1>2. out = Outputs(u, e.accepted) BY DEF ParsedIs
<1>. HIDE DEF u
<1>3. u \in 0 .. Len(e.accepted) BY <1>1 DEF ImagesTaken
<1> QED BY <1>2, <1>3

LEMMA LengthGrows ==
  ASSUME NEW n \in Nat, NEW h \in Nat, n <= h
  PROVE  LengthOf(n) \in Nat /\ LengthOf(h) \in Nat /\ LengthOf(n) <= LengthOf(h)
BY DEF LengthOf

\* What takes nothing and reads nothing, ends or encodes one image more.
LEMMA OutputIsKept ==
  ASSUME OutputInv, UNCHANGED <<parser, emitted>>, encoder'.accepted = encoder.accepted,
         encoder'.read = encoder.read \/ (encoder'.closed /\ encoder'.read \in Nat /\ encoder'.read <= LengthOf(encoder.encoded)),
         encoder'.encoded = encoder.encoded \/ (encoder'.encoded = encoder.encoded + 1 /\ encoder.encoded < Len(encoder.accepted)),
         encoder'.closed = encoder.closed \/ encoder'.closed = TRUE
  PROVE  OutputInv'
<1>1. ImagesTaken(encoder) /\ encoder.closed \in BOOLEAN BY DEF OutputInv
<1>2. ImagesTaken(encoder')
  <2>1. /\ encoder.encoded \in Nat /\ encoder'.encoded \in Nat /\ encoder.encoded <= encoder'.encoded
        /\ encoder'.encoded <= Len(encoder'.accepted) /\ encoder'.accepted \in Seq(Nat)
    BY <1>1 DEF ImagesTaken
  <2>2. /\ LengthOf(encoder.encoded) \in Nat /\ LengthOf(encoder'.encoded) \in Nat
        /\ LengthOf(encoder.encoded) <= LengthOf(encoder'.encoded)
    BY <2>1, LengthGrows
  <2>3. encoder'.read \in Nat /\ encoder'.read <= LengthOf(encoder'.encoded) BY <1>1, <2>2 DEF ImagesTaken
  <2> QED BY <2>1, <2>3 DEF ImagesTaken
<1>3. encoder'.closed \in BOOLEAN BY <1>1
<1>4. CASE encoder'.closed
  <2>1. \E u \in 0 .. Len(encoder.accepted) : emitted = Outputs(u, encoder.accepted)
    <3>1. CASE encoder.closed BY <3>1, Zenon DEF OutputInv
    <3>2. CASE ~encoder.closed
      <4>1. ParsedIs(parser, emitted, encoder.read, encoder.accepted) BY <3>2, Zenon DEF OutputInv
      <4> QED BY <1>1, <4>1, ParsedIsWhole
    <3> QED BY <3>1, <3>2
  <2> QED BY <1>2, <1>3, <1>4, <2>1, Zenon DEF OutputInv
<1>5. CASE ~encoder'.closed
  <2>1. ~encoder.closed /\ encoder'.read = encoder.read BY <1>1, <1>5
  <2>2. ParsedIs(parser, emitted, encoder.read, encoder.accepted) BY <2>1, Zenon DEF OutputInv
  <2> QED BY <1>2, <1>3, <1>5, <2>1, <2>2, Zenon DEF OutputInv
<1> QED BY <1>4, <1>5

LEMMA OutputStays == ASSUME OutputInv, UNCHANGED encoderVars PROVE OutputInv'
<1>1. UNCHANGED <<encoder, parser, emitted>> BY DEF encoderVars
<1> QED BY <1>1, OutputIsKept

LEMMA WriteKeepsOutput == ASSUME OutputInv, EncoderInv, Write PROVE OutputInv'
<1>. DEFINE n == encoder.offered + 1
            x == 10 * n
            taken == ~encoder.closed /\ encoder.stdin = "open" /\ ~encoder.drain
<1>1. encoder \in EncoderRecord(encoder.accepted, encoder.encoded, encoder.read) BY DEF EncoderInv, EncoderOK
<1>2. ImagesTaken(encoder) BY DEF OutputInv
<1>3. UNCHANGED emitted BY DEF Write
<1>4. CASE taken
  <2>1. PICK full \in BOOLEAN :
          encoder' = [encoder EXCEPT !.offered = n, !.accepted = Append(@, x), !.drain = full]
    BY <1>4 DEF Write
  <2>2. parser' = ParserTimed(parser, x) BY <1>4 DEF Write, ParserTimed
  <2>3. x \in Nat BY <1>1 DEF EncoderRecord
  <2>. HIDE DEF x, n
  <2>4. /\ encoder'.accepted = Append(encoder.accepted, x) /\ encoder'.encoded = encoder.encoded
        /\ encoder'.read = encoder.read /\ encoder'.closed = encoder.closed
    BY <1>1, <2>1 DEF EncoderRecord
  <2>5. ~encoder.closed /\ ~encoder'.closed /\ encoder'.closed \in BOOLEAN BY <1>4, <2>4 DEF OutputInv
  <2>6. ParsedIs(parser, emitted, encoder.read, encoder.accepted) BY <2>5, Zenon DEF OutputInv
  <2>7. UnitsBy(BegunBy(encoder.read)) <= Len(encoder.accepted)
    <3>1. UnitsBy(BegunBy(encoder.read)) \in Nat /\ UnitsBy(BegunBy(encoder.read)) <= encoder.encoded
      BY <1>2, UnitsInTime DEF ImagesTaken
    <3> QED BY <1>2, <3>1 DEF ImagesTaken
  <2>8. ParsedIs(ParserTimed(parser, x), emitted, encoder.read, Append(encoder.accepted, x))
    BY <1>2, <2>3, <2>6, <2>7, TimedIs DEF ImagesTaken
  <2>9. ParsedIs(parser', emitted', encoder'.read, encoder'.accepted) BY <1>3, <2>2, <2>4, <2>8, Zenon
  <2>10. ImagesTaken(encoder')
    <3>1. /\ Append(encoder.accepted, x) \in Seq(Nat)
          /\ Len(Append(encoder.accepted, x)) = Len(encoder.accepted) + 1 /\ Len(encoder.accepted) \in Nat
      BY <1>2, <2>3, AppendIs DEF ImagesTaken
    <3> QED BY <1>2, <2>4, <3>1 DEF ImagesTaken
  <2> QED BY <2>5, <2>9, <2>10, Zenon DEF OutputInv
<1>5. CASE ~taken
  <2>1. encoder' = [encoder EXCEPT !.offered = n] /\ UNCHANGED parser BY <1>5, Zenon DEF Write
  <2>2. /\ encoder'.accepted = encoder.accepted /\ encoder'.encoded = encoder.encoded
        /\ encoder'.read = encoder.read /\ encoder'.closed = encoder.closed
    BY <1>1, <2>1 DEF EncoderRecord
  <2> QED BY <1>3, <2>1, <2>2, OutputIsKept
<1> QED BY <1>4, <1>5

\* What becomes of the process, and the encoder's own end.
LEMMA ReportedOutput ==
  ASSUME NEW e, e \in EncoderRecord(e.accepted, e.encoded, e.read)
  PROVE  LET next == Reported(e)
         IN  /\ next \in EncoderRecord(e.accepted, e.encoded, e.read)
             /\ next.accepted = e.accepted /\ next.encoded = e.encoded /\ next.read = e.read
             /\ next.closed = e.closed
BY DEF EncoderRecord, Reported
ReadTo(e, to) == [e EXCEPT !.read = to]
LEMMA ReadOutput ==
  ASSUME NEW e, NEW to, e \in EncoderRecord(e.accepted, e.encoded, e.read)
  PROVE  LET next == ReadTo(e, to)
         IN  /\ next \in EncoderRecord(next.accepted, next.encoded, next.read)
             /\ next.accepted = e.accepted /\ next.encoded = e.encoded /\ next.read = to
             /\ next.closed = e.closed
BY DEF EncoderRecord, ReadTo
LEMMA ClosingOutput ==
  ASSUME NEW e, e \in EncoderRecord(e.accepted, e.encoded, e.read)
  PROVE  LET next == ClosingEncoder(e)
         IN  /\ next.accepted = e.accepted /\ next.encoded = e.encoded /\ next.read = e.read
             /\ next.closed = TRUE
BY DEF EncoderRecord, ClosingEncoder

LEMMA ProcessKeepsOutput ==
  ASSUME OutputInv, EncoderInv,
         Drains \/ Encodes \/ PipeBreaks \/ DoesNotStart \/ Exits \/ Close \/ ShutdownGoesOn
  PROVE  OutputInv'
<1>1. encoder \in EncoderRecord(encoder.accepted, encoder.encoded, encoder.read) BY DEF EncoderInv, EncoderOK
<1>2. UNCHANGED <<parser, emitted>>
  BY DEF Process, Drains, Encodes, PipeBreaks, DoesNotStart, Exits, Close, ShutdownGoesOn
<1>3. /\ encoder'.accepted = encoder.accepted /\ encoder'.read = encoder.read
      /\ encoder'.encoded = encoder.encoded
           \/ (encoder'.encoded = encoder.encoded + 1 /\ encoder.encoded < Len(encoder.accepted))
      /\ encoder'.closed = encoder.closed \/ encoder'.closed = TRUE
  <2>1. CASE Drains BY <1>1, <2>1 DEF EncoderRecord, Drains, Process
  <2>2. CASE Encodes BY <1>1, <2>2 DEF EncoderRecord, Encodes, Process
  <2>3. CASE PipeBreaks BY <1>1, <2>3, ReportedOutput DEF EncoderRecord, PipeBreaks, Process
  <2>4. CASE DoesNotStart BY <1>1, <2>4, ReportedOutput DEF EncoderRecord, DoesNotStart, Process
  <2>5. CASE Exits BY <1>1, <2>5, ReportedOutput DEF EncoderRecord, Exits, Process
  <2>6. CASE Close BY <1>1, <2>6, ClosingOutput DEF Close, Process
  <2>7. CASE ShutdownGoesOn BY <1>1, <2>7 DEF EncoderRecord, ShutdownGoesOn, Process
  <2> QED BY <2>1, <2>2, <2>3, <2>4, <2>5, <2>6, <2>7
<1> QED BY <1>2, <1>3, OutputIsKept

LEMMA ArrivesKeepsOutput == ASSUME OutputInv, EncoderInv, OutputArrives PROVE OutputInv'
<1>. DEFINE putOut == Stream(encoder.encoded)
            To(n) == NotAbove(encoder.read + n, Len(putOut))
            Chunk(n) == UnitBytes(putOut, encoder.read, To(n))
            ReadUpTo(n) == ReadTo(encoder, To(n))
<1>1. encoder \in EncoderRecord(encoder.accepted, encoder.encoded, encoder.read) BY DEF EncoderInv, EncoderOK
<1>2. ImagesTaken(encoder) /\ encoder.closed \in BOOLEAN BY DEF OutputInv
<1>3. encoder.read < Len(putOut) BY DEF OutputArrives
<1>4. putOut = PutOutFrom(0, LengthOf(encoder.encoded)) /\ Len(putOut) = LengthOf(encoder.encoded)
      /\ LengthOf(encoder.encoded) \in Nat
  BY <1>2, StreamIs, StreamLength DEF ImagesTaken
<1>5. PICK n \in ReadSizes :
        IF encoder.closed THEN encoder' = ReadUpTo(n) /\ UNCHANGED <<parser, emitted>>
        ELSE IF Len(parser.pending) + Len(Chunk(n)) > PendingLimit
        THEN encoder' = ClosingEncoder(Reported(ReadUpTo(n))) /\ UNCHANGED <<parser, emitted>>
        ELSE /\ encoder' = ReadUpTo(n)
             /\ parser' = EmitUnits(Scanned([parser EXCEPT !.pending = @ \o Chunk(n)])).parser
             /\ emitted' = EmitUnits(Scanned([parser EXCEPT !.pending = @ \o Chunk(n)])).emitted
  BY Zenon DEF OutputArrives, ReadTo
<1>6. To(n) \in Nat /\ encoder.read <= To(n) /\ To(n) <= LengthOf(encoder.encoded)
  BY <1>2, <1>3, <1>4, EncoderAssumption DEF NotAbove, ImagesTaken
<1>7. Chunk(n) = PutOutFrom(encoder.read, To(n))
  <2>. DEFINE to == To(n)
              e == LengthOf(encoder.encoded)
              r == encoder.read
  <2>1. to \in Nat /\ r \in Nat /\ e \in Nat /\ 0 \in Nat /\ r <= to /\ 0 + to <= e
    BY <1>2, <1>4, <1>6 DEF ImagesTaken
  <2>. HIDE DEF to, e, r
  <2>2. UnitBytes(PutOutFrom(0, e), r, to) = PutOutFrom(0 + r, 0 + to) BY <2>1, PutOutIsCut
  <2>3. 0 + r = r /\ 0 + to = to BY <2>1
  <2>4. UnitBytes(PutOutFrom(0, e), r, to) = PutOutFrom(r, to) BY <2>2, <2>3
  <2> QED BY <1>4, <2>4, Zenon DEF to, e, r
<1>. DEFINE to == To(n)
            next == ReadUpTo(n)
<1>8. /\ next \in EncoderRecord(next.accepted, next.encoded, next.read)
      /\ next.accepted = encoder.accepted /\ next.encoded = encoder.encoded /\ next.read = to
      /\ next.closed = encoder.closed
  <2>. HIDE DEF To
  <2> QED BY <1>1, ReadOutput
<1>9. to \in Nat /\ encoder.read <= to /\ to <= LengthOf(encoder.encoded) BY <1>6
<1>10. CASE encoder.closed
  <2>1. encoder' = next /\ UNCHANGED <<parser, emitted>> BY <1>5, <1>10, Zenon
  <2>. HIDE DEF next, to
  <2> QED BY <1>8, <1>9, <1>10, <2>1, OutputIsKept
<1>11. CASE ~encoder.closed /\ Len(parser.pending) + Len(Chunk(n)) > PendingLimit
  <2>1. encoder' = ClosingEncoder(Reported(next)) /\ UNCHANGED <<parser, emitted>> BY <1>5, <1>11, Zenon
  <2>. HIDE DEF next, to
  <2>2. /\ encoder'.accepted = encoder.accepted /\ encoder'.encoded = encoder.encoded
        /\ encoder'.read = to /\ encoder'.closed = TRUE
    BY <1>8, <2>1, ReportedOutput, ClosingOutput
  <2> QED BY <1>9, <2>1, <2>2, OutputIsKept
<1>12. CASE ~encoder.closed /\ ~(Len(parser.pending) + Len(Chunk(n)) > PendingLimit)
  <2>. DEFINE st == EmitUnits(Scanned(ParserGiven(parser, PutOutFrom(encoder.read, to))))
  <2>1. encoder' = next /\ parser' = st.parser /\ emitted' = st.emitted
    BY <1>5, <1>7, <1>12, Zenon DEF ParserGiven
  <2>2. ParsedIs(parser, emitted, encoder.read, encoder.accepted) BY <1>12, Zenon DEF OutputInv
  <2>. HIDE DEF next, to
  <2>3. UnitsBy(BegunBy(to)) <= Len(encoder.accepted)
    <3>1. UnitsBy(BegunBy(to)) \in Nat /\ UnitsBy(BegunBy(to)) <= encoder.encoded
      BY <1>2, <1>9, UnitsInTime DEF ImagesTaken
    <3> QED BY <1>2, <3>1 DEF ImagesTaken
  <2>4. ParsedIs(st.parser, st.emitted, to, encoder.accepted)
    BY <1>2, <1>9, <2>2, <2>3, ArrivedIs DEF ImagesTaken
  <2>5. ParsedIs(parser', emitted', encoder'.read, encoder'.accepted) BY <1>8, <2>1, <2>4, Zenon
  <2>6. ImagesTaken(encoder') BY <1>2, <1>8, <1>9, <2>1 DEF ImagesTaken
  <2>7. ~encoder'.closed /\ encoder'.closed \in BOOLEAN BY <1>2, <1>8, <1>12, <2>1
  <2> QED BY <2>5, <2>6, <2>7, Zenon DEF OutputInv
<1> QED BY <1>10, <1>11, <1>12

LEMMA OutputGoesOn == ASSUME OutputInv, EncoderInv, EncoderNext PROVE OutputInv'
BY WriteKeepsOutput, ProcessKeepsOutput, ArrivesKeepsOutput, Zenon DEF EncoderNext

-----------------------------------------------------------------------------
\* What was promised.
LEMMA StartIsTheSame ==
  ASSUME NEW T, NEW s \in Seq(T), NEW t \in Seq(T), Len(s) <= Len(t), \A i \in 1 .. Len(s) : s[i] = t[i]
  PROVE  IsPrefix(s, t)
<1>. DEFINE n == Len(s)
            a == SubSeq(s, 1, n)
            c == SubSeq(t, 1, n)
<1>1. n \in Nat /\ (\A i \in 1 .. n : s[i] \in T) /\ (\A i \in 1 .. n : t[i] \in T)
  <2>1. Len(s) \in Nat /\ Len(t) \in Nat OBVIOUS
  <2>2. \A i \in 1 .. Len(s) : i \in 1 .. Len(t) BY <2>1
  <2> QED BY <2>1, <2>2
<1>. HIDE DEF n
<1>2. a \in Seq(T) /\ Len(a) = n /\ \A i \in 1 .. n : a[i] = s[i]
  <2>1. /\ a \in Seq(T) /\ Len(a) = IF 1 <= n THEN n - 1 + 1 ELSE 0
        /\ \A i \in 1 .. n - 1 + 1 : a[i] = s[1 + i - 1]
    BY <1>1, SubSeqProperties
  <2>. HIDE DEF a
  <2> QED BY <1>1, <2>1
<1>3. c \in Seq(T) /\ Len(c) = n /\ \A i \in 1 .. n : c[i] = t[i]
  <2>1. /\ c \in Seq(T) /\ Len(c) = IF 1 <= n THEN n - 1 + 1 ELSE 0
        /\ \A i \in 1 .. n - 1 + 1 : c[i] = t[1 + i - 1]
    BY <1>1, SubSeqProperties
  <2>. HIDE DEF c
  <2> QED BY <1>1, <2>1
<1>. HIDE DEF a, c
<1>4. \A i \in 1 .. n : a[i] = c[i] BY <1>2, <1>3 DEF n
<1>5. a = c BY <1>2, <1>3, <1>4, SeqEqual
<1> QED BY <1>5, Zenon DEF IsPrefix, a, c, n

LEMMA ExpectedIs ==
  ASSUME NEW T, encoder.accepted \in Seq(Nat),
         \A i \in 1 .. Len(encoder.accepted) + 1 : OutputAt(i, encoder.accepted) \in T
  PROVE  /\ Expected \in Seq(T) /\ Len(Expected) = Len(encoder.accepted) + 1
         /\ \A i \in 1 .. Len(encoder.accepted) + 1 : Expected[i] = OutputAt(i, encoder.accepted)
<1>. DEFINE times == encoder.accepted
            n == Len(times)
            x == [config |-> TRUE, data |-> StartCode \o <<SpsByte>>, pts |-> 0, isKey |-> FALSE]
            Picture(i) == [config |-> FALSE, pts |-> times[i], isKey |-> i = 1,
                           data |-> StartCode \o <<IF i = 1 THEN KeyByte ELSE SliceByte, 10 + i>>]
            pictures == [i \in 1 .. n |-> Picture(i)]
<1>1. n \in Nat OBVIOUS
<1>2. Expected = <<x>> \o pictures BY Zenon DEF Expected
<1>3. OutputAt(1, times) = x BY Zenon DEF OutputAt
<1>4. ASSUME NEW i \in 1 .. n PROVE Picture(i) = OutputAt(i + 1, times)
  <2>1. (i + 1) # 1 /\ ((i + 1 = 2) <=> (i = 1)) /\ (i + 1) - 1 = i OBVIOUS
  <2>. DEFINE h == i + 1
  <2>2. h # 1 /\ (h = 2 <=> i = 1) /\ h - 1 = i BY <2>1
  <2>. HIDE DEF h, times
  <2>3. OutputAt(h, times) = [config |-> FALSE, pts |-> times[h - 1], isKey |-> h = 2,
                              data |-> StartCode \o <<IF h = 2 THEN KeyByte ELSE SliceByte, 10 + (h - 1)>>]
    BY <2>2, Zenon DEF OutputAt
  <2>4. (h = 2) = (i = 1) BY <2>2
  <2>5. OutputAt(h, times) = [config |-> FALSE, pts |-> times[i], isKey |-> i = 1,
                              data |-> StartCode \o <<IF i = 1 THEN KeyByte ELSE SliceByte, 10 + i>>]
    BY <2>2, <2>3, <2>4, Zenon
  <2> QED BY <2>5, Zenon DEF h
<1>. HIDE DEF x, Picture
<1>5. x \in T
  <2>1. 1 \in 1 .. n + 1 BY <1>1
  <2> QED BY <1>3, <2>1
<1>6. \A i \in 1 .. n : Picture(i) \in T
  <2>1. ASSUME NEW i \in 1 .. n PROVE Picture(i) \in T
    <3>1. i + 1 \in 1 .. n + 1 BY <1>1
    <3>2. OutputAt(i + 1, times) \in T BY <3>1
    <3> QED BY <1>4, <3>2, Zenon
  <2> QED BY <2>1
<1>7. /\ pictures \in Seq(T) /\ Len(pictures) = n /\ \A i \in 1 .. n : pictures[i] = Picture(i)
  <2>. HIDE DEF n
  <2> QED BY <1>1, <1>6
<1>8. <<x>> \in Seq(T) /\ Len(<<x>>) = 1 /\ <<x>>[1] = x BY <1>5
<1>. DEFINE one == <<x>>
            both == one \o pictures
<1>. HIDE DEF pictures, one, n
<1>9. /\ both \in Seq(T) /\ Len(both) = 1 + n
      /\ \A i \in 1 .. 1 + n : both[i] = IF i <= 1 THEN x ELSE pictures[i - 1]
  <2>1. one \in Seq(T) /\ Len(one) = 1 /\ one[1] = x BY <1>8 DEF one
  <2>2. /\ both \in Seq(T) /\ Len(both) = Len(one) + Len(pictures)
        /\ \A i \in 1 .. Len(one) + Len(pictures) :
             both[i] = IF i <= Len(one) THEN one[i] ELSE pictures[i - Len(one)]
    BY <1>7, <2>1, ConcatProperties
  <2>3. Len(pictures) = n BY <1>7
  <2>. HIDE DEF both
  <2>4. \A i \in 1 .. 1 + n : both[i] = IF i <= 1 THEN one[i] ELSE pictures[i - 1] BY <2>1, <2>2, <2>3
  <2>5. \A i \in 1 .. 1 + n : i <= 1 => i = 1 BY <1>1
  <2>6. \A i \in 1 .. 1 + n : both[i] = IF i <= 1 THEN x ELSE pictures[i - 1] BY <2>1, <2>4, <2>5
  <2> QED BY <2>1, <2>2, <2>3, <2>6
<1>10. Expected = both BY <1>2 DEF one
<1>. HIDE DEF both
<1>11. ASSUME NEW i \in 1 .. n + 1 PROVE both[i] = OutputAt(i, times)
  <2>1. i \in 1 .. 1 + n BY <1>1
  <2>2. CASE i <= 1
    <3>1. i = 1 BY <2>2
    <3>2. both[i] = x BY <1>9, <2>1, <2>2
    <3> QED BY <1>3, <3>1, <3>2
  <2>3. CASE ~(i <= 1)
    <3>1. i - 1 \in 1 .. n BY <1>1, <2>3
    <3>2. both[i] = pictures[i - 1] BY <1>9, <2>1, <2>3
    <3>3. pictures[i - 1] = Picture(i - 1) BY <1>7, <3>1
    <3>4. Picture(i - 1) = OutputAt((i - 1) + 1, times) BY <1>4, <3>1 DEF n
    <3>5. (i - 1) + 1 = i OBVIOUS
    <3> QED BY <3>2, <3>3, <3>4, <3>5
  <2> QED BY <2>2, <2>3
<1>12. Len(Expected) = n + 1 BY <1>1, <1>9, <1>10
<1> QED BY <1>9, <1>10, <1>11, <1>12 DEF n

LEMMA OutputIsWhole ==
  ASSUME OutputInv
  PROVE  \E u \in 0 .. Len(encoder.accepted) : emitted = Outputs(u, encoder.accepted)
<1>1. ImagesTaken(encoder) BY DEF OutputInv
<1>2. CASE encoder.closed BY <1>2, Zenon DEF OutputInv
<1>3. CASE ~encoder.closed
  <2>1. ParsedIs(parser, emitted, encoder.read, encoder.accepted) BY <1>3, Zenon DEF OutputInv
  <2> QED BY <1>1, <2>1, ParsedIsWhole
<1> QED BY <1>2, <1>3

LEMMA OutputKeepsTime == ASSUME OutputInv PROVE PicturesKeepTheirTime
<1>. DEFINE times == encoder.accepted
            n == Len(times)
            T == {OutputAt(i, times) : i \in 1 .. n + 1}
<1>1. times \in Seq(Nat) /\ n \in Nat BY DEF OutputInv, ImagesTaken
<1>2. PICK u \in 0 .. n : emitted = Outputs(u, times) BY OutputIsWhole
<1>3. \A i \in 1 .. n + 1 : OutputAt(i, times) \in T OBVIOUS
<1>. HIDE DEF T
<1>4. /\ Expected \in Seq(T) /\ Len(Expected) = n + 1
      /\ \A i \in 1 .. n + 1 : Expected[i] = OutputAt(i, times)
  BY <1>1, <1>3, ExpectedIs
<1>5. emitted \in Seq(T) /\ Len(emitted) <= n + 1 /\ \A i \in 1 .. Len(emitted) : emitted[i] = Expected[i]
  <2>. HIDE DEF n
  <2>0. u \in Nat /\ u <= n BY <1>1, <1>2
  <2>1. \A i \in 1 .. u + 1 : i \in 1 .. n + 1 BY <1>1, <2>0
  <2>2. \A i \in 1 .. u + 1 : OutputAt(i, times) \in T BY <1>3, <2>1 DEF n
  <2>. HIDE DEF times
  <2>3. Outputs(u, times) \in Seq(T) BY <2>0, <2>2, OutputsAre
  <2>4. CASE u = 0
    <3>1. emitted = <<>> BY <1>2, <2>0, <2>4, OutputsAre
    <3> QED BY <1>1, <3>1
  <2>5. CASE u > 0
    <3>1. Len(Outputs(u, times)) = u + 1 /\ \A i \in 1 .. u + 1 : Outputs(u, times)[i] = OutputAt(i, times)
      BY <2>0, <2>5, OutputsAre
    <3> QED BY <1>1, <1>2, <1>4, <2>0, <2>1, <2>3, <3>1
  <2> QED BY <2>0, <2>4, <2>5
<1>. HIDE DEF times, n
<1>6. Len(emitted) <= Len(Expected) BY <1>4, <1>5
<1>7. IsPrefix(emitted, Expected) BY <1>4, <1>5, <1>6, StartIsTheSame
<1> QED BY <1>7 DEF PicturesKeepTheirTime

LEMMA OutputIsNotHeldBack == ASSUME OutputInv PROVE PicturesAreNotHeldBack
<1>1. ImagesTaken(encoder) BY DEF OutputInv
<1>2. SUFFICES ASSUME NEW i \in 1 .. encoder.encoded, ~encoder.closed, encoder.read >= Len(Stream(i)) + 5
               PROVE  Len(emitted) >= i + 1
  BY DEF PicturesAreNotHeldBack
<1>. DEFINE m == encoder.read
            k == BegunBy(m)
            u == UnitsBy(k)
<1>3. i \in Nat /\ i > 0 /\ m \in Nat BY <1>1 DEF ImagesTaken
<1>4. m >= 10 * i + 10
  <2>1. Len(Stream(i)) = LengthOf(i) BY <1>3, StreamLength
  <2>2. LengthOf(i) = 10 * i + 5 BY <1>3 DEF LengthOf
  <2> QED BY <1>2, <1>3, <2>1, <2>2
<1>5. k \in Nat /\ k >= 2 * i + 2
  <2>1. k \in Nat /\ k \in {m \div 5, (m + 1) \div 5} BY <1>3, BegunBounds
  <2>. HIDE DEF m, k
  <2>2. m \div 5 >= 2 * i + 2 /\ (m + 1) \div 5 >= 2 * i + 2 BY <1>3, <1>4
  <2> QED BY <2>1, <2>2
<1>. HIDE DEF m, k
<1>6. u \in Nat BY <1>5, UnitsAre
<1>7. u >= i
  <2>1. k > 3 /\ k \div 2 >= i + 1 BY <1>3, <1>5
  <2>2. u = (k \div 2) - 1 BY <1>5, <2>1 DEF UnitsBy
  <2>3. k \div 2 \in Nat BY <1>5
  <2> QED BY <1>3, <2>1, <2>2, <2>3
<1>8. emitted = Outputs(u, encoder.accepted)
  <2>1. ParsedIs(parser, emitted, encoder.read, encoder.accepted) BY <1>2, Zenon DEF OutputInv
  <2> QED BY <2>1, Zenon DEF ParsedIs, m, k
<1>. HIDE DEF u
<1>9. u > 0 BY <1>3, <1>6, <1>7
<1>10. Len(emitted) = u + 1 BY <1>6, <1>8, <1>9, OutputsAre
<1> QED BY <1>3, <1>6, <1>7, <1>10

LEMMA OutputPromises == OutputInv => PicturesKeepTheirTime /\ PicturesAreNotHeldBack
BY OutputKeepsTime, OutputIsNotHeldBack

=============================================================================

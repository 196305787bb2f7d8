------------------------------ MODULE RouterPool ------------------------------
(***************************************************************************)
(* The apps the router keeps for a device. Requests start an app lazily    *)
(* and share the start that is under way; source switches and settings go  *)
(* through a queue of promises; POST /api/avds/stop closes what the device *)
(* has before it kills the emulator, and stopAll closes everything. Starts *)
(* and switches take long, and look again at what they found before they   *)
(* publish what they made.                                                 *)
(*                                                                         *)
(* Source: middleware.ts (createRouter). The maps of the router have one   *)
(* entry per serial and no operation relates two: this is one serial. The  *)
(* apps are CaptureApp's: here one is being opened, live, ended by itself, *)
(* being closed or closed.                                                 *)
(***************************************************************************)
EXTENDS Integers, FiniteSets, TLC

CONSTANTS
  Requests,    \* requests for the app, 1 .. n, made in this order
  Stops,       \* the requests POST /api/avds/stop for it, 1 .. m, made in this order
  MaxCalls     \* bound: these and POST /api/avds/start, together

ASSUME RouterAssumption ==
  Requests \subseteq Nat \ {0} /\ Stops \subseteq Nat \ {0} /\ MaxCalls \in Nat

VARIABLES
  pool,      \* the entries of the device in apps, pending, streamModeQueues, ...
  app,       \* every app that was made, by the request that had it made
  start,     \* the promises of getAppUnqueued, by the request that began them
  request,   \* the promises of getApp and enqueueStreamModeOperation
  stop,      \* stopApp, by the POST /api/avds/stop that called it
  stopAll,   \* stopAllTask
  outside    \* adb lists the device, and the calls that were made

routerVars == <<pool, app, start, request, stop, stopAll, outside>>

NoApp == 0
NoStart == [step |-> "none", old |-> NoApp, aborted |-> FALSE, queued |-> FALSE]
NoRequest == [step |-> "none", old |-> NoApp, aborted |-> FALSE, kind |-> "none", after |-> 0, join |-> 0]
NoStop == [step |-> "none", app |-> NoApp, start |-> 0, tail |-> 0]

RouterInit ==
  /\ pool = [app |-> NoApp, start |-> 0, tail |-> 0, cooling |-> FALSE, stopping |-> FALSE,
             stopped |-> FALSE, forgotten |-> FALSE]
  /\ app = [a \in Requests |-> "unborn"]
  /\ start = [s \in Requests |-> NoStart]
  /\ request = [r \in Requests |-> NoRequest]
  /\ stop = [k \in Stops |-> NoStop]
  /\ stopAll = NoStop
  /\ outside = [online |-> TRUE, calls |-> 0]

Closed(a) == a # NoApp => app[a] = "closed"
Settled(s) == s # 0 => start[s].step = "settled"
Done(r) == r # 0 => request[r].step = "done"
\* Continuations of promises run in the order they were made in, before anything else.
Runnable(r) ==
  \/ request[r].step = "waiting" /\ Done(request[r].after)
  \/ request[r].step = "joining" /\ Settled(request[r].join)
MayContinue(r) == Runnable(r) /\ \A q \in Requests : q < r => ~Runnable(q)
MayRun(r) == MayContinue(r) /\ request[r].step = "waiting"
MayGoOn(r) == MayContinue(r) /\ request[r].step = "joining"
Quiet == \A r \in Requests : ~Runnable(r)

Called == outside.calls < MaxCalls /\ outside' = [outside EXCEPT !.calls = @ + 1]

Refusing == pool.stopped \/ pool.stopping

\* app.stop(): once.
Stopped(apps, a) ==
  IF a = NoApp \/ apps[a] = "closed" THEN apps ELSE [apps EXCEPT ![a] = "closing"]

-----------------------------------------------------------------------------
(* The apps.                                                                *)

\* The stream ends or fails; markTerminal closes what the app has.
AppEnds(a) ==
  /\ Quiet
  /\ app[a] = "live"
  /\ app' = [app EXCEPT ![a] = "ended"]
  /\ UNCHANGED <<pool, start, request, stop, stopAll, outside>>

AppCloses(a) ==
  /\ Quiet
  /\ app[a] = "closing"
  /\ app' = [app EXCEPT ![a] = "closed"]
  /\ UNCHANGED <<pool, start, request, stop, stopAll, outside>>

\* What createDeviceApp gives the task that waits for it: a live app, one that
\* ended meanwhile, or nothing.
Outcomes == {"live", "ended", "closed"}
Publishable(outcome, task) == outcome = "live" /\ ~task.aborted /\ ~Refusing

-----------------------------------------------------------------------------
(* getAppUnqueued: starting an app.                                         *)

StartSettles(s, p) ==
  /\ start' = [start EXCEPT ![s] = [NoStart EXCEPT !.step = "settled"]]
  /\ pool' = [p EXCEPT !.start = IF @ = s THEN 0 ELSE @]
Cooling(p) == [p EXCEPT !.cooling = @ \/ ~Refusing]
StartFails(s) == StartSettles(s, Cooling(pool))

Queued(r) == request[r].kind \in {"queued", "switch"}

\* A start made inside the queue is aborted with its operation. An app that is not
\* streaming any more is stopped first.
StartBegins(r) ==
  LET task == [start[r] EXCEPT !.queued = Queued(r), !.old = pool.app]
  IN  /\ pool' = [pool EXCEPT !.start = r]
      /\ IF pool.app # NoApp
         THEN /\ start' = [start EXCEPT ![r] = [task EXCEPT !.step = "stopOld"]]
              /\ app' = Stopped(app, pool.app)
         ELSE /\ start' = [start EXCEPT ![r] = [task EXCEPT !.step = "open"]]
              /\ app' = [app EXCEPT ![r] = "opening"]

OldStopped(s) ==
  /\ Quiet
  /\ start[s].step = "stopOld" /\ Closed(start[s].old)
  /\ LET p == [pool EXCEPT !.app = IF @ = start[s].old THEN NoApp ELSE @]
     IN  IF start[s].aborted
         THEN /\ StartSettles(s, Cooling(p)) /\ UNCHANGED app
         ELSE /\ pool' = p
              /\ start' = [start EXCEPT ![s].step = "open"]
              /\ app' = [app EXCEPT ![s] = "opening"]
  /\ UNCHANGED <<request, stop, stopAll, outside>>

StartOpens(s) ==
  /\ Quiet
  /\ start[s].step = "open"
  /\ \E outcome \in Outcomes :
           CASE outcome = "closed" -> app' = [app EXCEPT ![s] = "closed"] /\ StartFails(s)
             [] Publishable(outcome, start[s]) ->
                  /\ app' = [app EXCEPT ![s] = "live"]
                  /\ StartSettles(s, [pool EXCEPT !.app = s])
             [] OTHER -> /\ app' = [app EXCEPT ![s] = "closing"]
                         /\ start' = [start EXCEPT ![s].step = "discard"]
                         /\ UNCHANGED pool
  /\ UNCHANGED <<request, stop, stopAll, outside>>

StartDiscards(s) ==
  /\ Quiet
  /\ start[s].step = "discard" /\ Closed(s)
  /\ StartFails(s)
  /\ UNCHANGED <<app, request, stop, stopAll, outside>>

StartProceeds(s) == OldStopped(s) \/ StartOpens(s) \/ StartDiscards(s)

CoolsDown ==
  /\ Quiet
  /\ pool.cooling
  /\ pool' = [pool EXCEPT !.cooling = FALSE]
  /\ UNCHANGED <<app, start, request, stop, stopAll, outside>>

-----------------------------------------------------------------------------
(* Requests. "get" is getApp, which waits for the queue but is not in it;   *)
(* "queued" is a getAppUnqueued in the queue (GET /api/stream-mode, PATCH    *)
(* /api/stream-settings), "switch" a performStreamModeSwitch.               *)

BugRequested(r) ==
  /\ Quiet /\ Called
  /\ request[r].step = "none" /\ \A q \in Requests : q < r => request[q].step # "none"
  /\ \E kind \in {"get", "queued", "switch"} :
       LET tail == IF kind = "queued" THEN r ELSE pool.tail
           made == [request[r] EXCEPT !.kind = kind, !.after = tail, !.step = "waiting"]
       IN  IF kind # "get" /\ pool.stopped
           THEN request' = [request EXCEPT ![r].step = "done"] /\ UNCHANGED pool
           ELSE /\ request' = [request EXCEPT ![r] = made]
                /\ pool' = [pool EXCEPT !.tail = IF kind = "get" THEN @ ELSE r]
  /\ UNCHANGED <<app, start, stop, stopAll>>
Requested(r) ==
  /\ Quiet /\ Called
  /\ request[r].step = "none" /\ \A q \in Requests : q < r => request[q].step # "none"
  /\ \E kind \in {"get", "queued", "switch"} :
       LET made == [request[r] EXCEPT !.kind = kind, !.after = pool.tail, !.step = "waiting"]
       IN  IF kind # "get" /\ pool.stopped
           THEN request' = [request EXCEPT ![r].step = "done"] /\ UNCHANGED pool
           ELSE /\ request' = [request EXCEPT ![r] = made]
                /\ pool' = [pool EXCEPT !.tail = IF kind = "get" THEN @ ELSE r]
  /\ UNCHANGED <<app, start, stop, stopAll>>

Answer(r, p) ==
  /\ request' = [request EXCEPT ![r] = [NoRequest EXCEPT !.step = "done"]]
  /\ pool' = [p EXCEPT !.tail = IF @ = r THEN 0 ELSE @]

Aborted(r) == Queued(r) /\ request[r].aborted

Published == pool.app # NoApp /\ app[pool.app] = "live"

Refused(r) ==
  /\ MayRun(r)
  /\ \/ Refusing \/ Aborted(r)
     \/ request[r].kind # "switch" /\ ~Published /\ pool.start = 0 /\ pool.cooling
  /\ Answer(r, pool)
  /\ UNCHANGED <<app, start, stop, stopAll, outside>>

\* A switch waits for the start that is under way.
MaySwitch(r) ==
  /\ request[r].kind = "switch"
  /\ \/ MayRun(r) /\ pool.start = 0
     \/ MayGoOn(r)

\* A switch to the source that streams already is answered with its app, too.
AppFound(r) ==
  /\ MaySwitch(r) \/ (MayRun(r) /\ request[r].kind # "switch")
  /\ ~Refusing /\ ~Aborted(r) /\ Published
  /\ Answer(r, pool)
  /\ UNCHANGED <<app, start, stop, stopAll, outside>>

\* The start that is under way is shared.
Joins(r) ==
  /\ MayRun(r) /\ ~Refusing /\ ~Aborted(r) /\ pool.start # 0
  /\ request[r].kind # "switch" => ~Published
  /\ request' = [request EXCEPT ![r].step = "joining", ![r].join = pool.start]
  /\ UNCHANGED <<pool, app, start, stop, stopAll, outside>>

Begins(r) ==
  /\ MayRun(r) /\ ~Refusing /\ ~Aborted(r)
  /\ request[r].kind # "switch" /\ ~Published /\ pool.start = 0 /\ ~pool.cooling
  /\ StartBegins(r)
  /\ request' = [request EXCEPT ![r].step = "joining", ![r].join = r]
  /\ UNCHANGED <<stop, stopAll, outside>>

StartShared(r) ==
  /\ MayGoOn(r)
  /\ request[r].kind # "switch" \/ Refusing \/ Aborted(r)
  /\ Answer(r, pool)
  /\ UNCHANGED <<app, start, stop, stopAll, outside>>

\* Stage the other source while the app that streams stays published.
SwitchBegins(r) ==
  /\ MaySwitch(r) /\ ~Refusing /\ ~Aborted(r)
  /\ app' = [app EXCEPT ![r] = "opening"]
  /\ request' = [request EXCEPT ![r].step = "open"]
  /\ UNCHANGED <<pool, start, stop, stopAll, outside>>

BugSwitchOpens(r) ==
  /\ Quiet
  /\ request[r].step = "open"
  /\ \E outcome \in Outcomes :
           CASE outcome = "closed" -> app' = [app EXCEPT ![r] = "closed"] /\ Answer(r, pool)
             [] Publishable(outcome, request[r]) ->
                  /\ app' = [app EXCEPT ![r] = "live"]
                  /\ Answer(r, [pool EXCEPT !.app = r, !.cooling = FALSE])
             [] OTHER -> /\ app' = [app EXCEPT ![r] = "closing"]
                         /\ request' = [request EXCEPT ![r].step = "closing", ![r].old = r]
                         /\ UNCHANGED pool
  /\ UNCHANGED <<start, stop, stopAll, outside>>
SwitchOpens(r) ==
  /\ Quiet
  /\ request[r].step = "open"
  /\ \E outcome \in Outcomes :
           CASE outcome = "closed" -> app' = [app EXCEPT ![r] = "closed"] /\ Answer(r, pool)
             [] Publishable(outcome, request[r]) ->
                  /\ pool' = [pool EXCEPT !.app = r, !.cooling = FALSE]
                  /\ app' = Stopped([app EXCEPT ![r] = "live"], pool.app)
                  /\ request' = [request EXCEPT ![r].step = "closing", ![r].old = pool.app]
             [] OTHER -> /\ app' = [app EXCEPT ![r] = "closing"]
                         /\ request' = [request EXCEPT ![r].step = "closing", ![r].old = r]
                         /\ UNCHANGED pool
  /\ UNCHANGED <<start, stop, stopAll, outside>>

SwitchEnds(r) ==
  /\ Quiet
  /\ request[r].step = "closing" /\ Closed(request[r].old)
  /\ Answer(r, pool)
  /\ UNCHANGED <<app, start, stop, stopAll, outside>>

RequestProceeds(r) ==
  \/ Refused(r) \/ AppFound(r) \/ Joins(r) \/ Begins(r) \/ StartShared(r)
  \/ SwitchBegins(r) \/ SwitchOpens(r) \/ SwitchEnds(r)

-----------------------------------------------------------------------------
(* Stopping.                                                                *)

\* abortOperations: what is queued or being opened at this moment.
AbortStarts ==
  [s \in Requests |-> [start[s] EXCEPT !.aborted =
     @ \/ start[s].step = "open" \/ (start[s].step = "stopOld" /\ start[s].queued)]]
AbortRequests ==
  [r \in Requests |-> [request[r] EXCEPT !.aborted = @ \/ (Queued(r) /\ ~Done(r))]]

\* The published app is closed at once, what may still be opening is waited for.
StopBegins(p) ==
  /\ app' = Stopped(app, pool.app)
  /\ pool' = [p EXCEPT !.app = NoApp]
  /\ start' = AbortStarts
  /\ request' = AbortRequests

Captured == [step |-> "wait", app |-> pool.app, start |-> pool.start, tail |-> pool.tail]
Joined(task) == Closed(task.app) /\ Settled(task.start) /\ Done(task.tail)
Emptied(p) == [p EXCEPT !.app = NoApp, !.start = 0, !.tail = 0, !.cooling = FALSE]

UnderWay(k) == stop[k].step \in {"wait", "late", "kill"}

\* Nothing keeps a second stop of the device from beginning while the first waits.
StopApp(k) ==
  /\ Quiet /\ Called
  /\ stop[k].step = "none" /\ \A q \in Stops : q < k => stop[q].step # "none"
  /\ StopBegins([pool EXCEPT !.stopping = TRUE])
  /\ stop' = [stop EXCEPT ![k] = Captured]
  /\ UNCHANGED stopAll

\* An app that was published late is closed, too.
LateAppStops(k) ==
  /\ Quiet
  /\ stop[k].step = "wait" /\ Joined(stop[k]) /\ pool.app \notin {NoApp, stop[k].app}
  /\ app' = Stopped(app, pool.app)
  /\ stop' = [stop EXCEPT ![k] = [NoStop EXCEPT !.step = "late", !.app = pool.app]]
  /\ UNCHANGED <<pool, start, request, stopAll, outside>>

BugAppStopped(k) ==
  /\ Quiet
  /\ stop[k].step = "wait" /\ Closed(stop[k].app)
  /\ pool' = Emptied(pool)
  /\ stop' = [stop EXCEPT ![k] = [NoStop EXCEPT !.step = "kill"]]
  /\ UNCHANGED <<app, start, request, stopAll, outside>>
AppStopped(k) ==
  /\ Quiet
  /\ \/ stop[k].step = "wait" /\ Joined(stop[k]) /\ pool.app \in {NoApp, stop[k].app}
     \/ stop[k].step = "late" /\ Closed(stop[k].app)
  /\ pool' = Emptied(pool)
  /\ stop' = [stop EXCEPT ![k] = [NoStop EXCEPT !.step = "kill"]]
  /\ UNCHANGED <<app, start, request, stopAll, outside>>

\* The serial leaves stoppingSerials; others may be stopping it still.
Forgotten(others) ==
  [pool EXCEPT !.stopping = FALSE,
     !.forgotten = @ \/ (pool.stopping /\ \E k \in others : UnderWay(k))]

EmulatorKilled(k) ==
  /\ Quiet
  /\ stop[k].step = "kill"
  /\ stop' = [stop EXCEPT ![k] = [NoStop EXCEPT !.step = "over"]]
  /\ \/ outside' = [outside EXCEPT !.online = FALSE] /\ UNCHANGED pool
     \/ pool' = Forgotten(Stops \ {k}) /\ UNCHANGED outside
  /\ UNCHANGED <<app, start, request, stopAll>>

\* resolveSerial does not see the device any more.
StoppingForgotten ==
  /\ Quiet
  /\ pool.stopping /\ ~outside.online
  /\ pool' = Forgotten(Stops)
  /\ UNCHANGED <<app, start, request, stop, stopAll, outside>>

\* POST /api/avds/start finds the emulator running, or starts it. When it runs and is not
\* being stopped this changes nothing.
AvdStarted ==
  /\ Quiet
  /\ outside.calls < MaxCalls /\ (pool.stopping \/ ~outside.online)
  /\ outside' = [outside EXCEPT !.online = TRUE, !.calls = @ + 1]
  /\ pool' = Forgotten(Stops)
  /\ UNCHANGED <<app, start, request, stop, stopAll>>

StopAll ==
  /\ Quiet
  /\ stopAll.step = "none"
  /\ StopBegins([pool EXCEPT !.stopped = TRUE])
  /\ stopAll' = Captured
  /\ UNCHANGED <<stop, outside>>

StopAllLate ==
  /\ Quiet
  /\ stopAll.step = "wait" /\ Joined(stopAll)
  /\ app' = Stopped(app, pool.app)
  /\ stopAll' = [NoStop EXCEPT !.step = "late", !.app = pool.app]
  /\ UNCHANGED <<pool, start, request, stop, outside>>

StopAllFinishes ==
  /\ Quiet
  /\ stopAll.step = "late" /\ Closed(stopAll.app)
  /\ pool' = Emptied(pool)
  /\ stopAll' = [NoStop EXCEPT !.step = "done"]
  /\ UNCHANGED <<app, start, request, stop, outside>>

StopProceeds(k) == LateAppStops(k) \/ AppStopped(k) \/ EmulatorKilled(k)
StopAllProceeds == StopAllLate \/ StopAllFinishes

-----------------------------------------------------------------------------

RouterNext ==
  \/ \E a \in Requests : AppEnds(a) \/ AppCloses(a)
  \/ \E s \in Requests : StartProceeds(s)
  \/ \E r \in Requests : Requested(r) \/ RequestProceeds(r)
  \/ \E k \in Stops : StopApp(k) \/ StopProceeds(k)
  \/ CoolsDown \/ StoppingForgotten \/ AvdStarted \/ StopAll \/ StopAllProceeds

\* Opening and closing an app have deadlines, and every promise is waited for: what
\* is under way goes on.
Work ==
  \/ \E a \in Requests : AppCloses(a) \/ StartProceeds(a) \/ RequestProceeds(a)
  \/ \E k \in Stops : StopProceeds(k)
  \/ StopAllProceeds

RouterSpec == RouterInit /\ [][RouterNext]_routerVars /\ WF_routerVars(Work)

-----------------------------------------------------------------------------

Open == {a \in Requests : app[a] \in {"opening", "live"}}
InHand(a) == start[a].step = "open" \/ request[a].step = "open"

\* createRouter's maps: every app that is open is the published one, or in the hands of the
\* start or switch that opens it, which will publish or close it.
AppsAreOwned == \A a \in Open : pool.app = a \/ InHand(a)

\* The same as long as the serial stays in stoppingSerials while a stop of it is under way:
\* nobody starts the AVD then, adb goes on listing it, and no other stop fails to kill it.
\* Then too no two apps are being opened for one device, and when the emulator is killed,
\* or the router has stopped, no app of the device is open or can still be published
\* (stopApp, stopAll).
AppsAreOwnedInOrder ==
  ~pool.forgotten =>
    /\ AppsAreOwned
    /\ Cardinality({a \in Requests : app[a] = "opening"}) <= 1
    /\ (\E k \in Stops : stop[k].step = "kill") \/ stopAll.step = "done" => Open = {}

Idle ==
  /\ \A r \in Requests : request[r].step \in {"none", "done"}
  /\ \A s \in Requests : start[s].step \in {"none", "settled"}
  /\ \A k \in Stops : ~UnderWay(k)
  /\ stopAll.step \in {"none", "done"}

\* getApp, enqueueStreamModeOperation: starts, switches, the queue and the stops never
\* wait for each other in a circle, so what was asked for is answered.
RequestsSettle == []<>Idle
=============================================================================

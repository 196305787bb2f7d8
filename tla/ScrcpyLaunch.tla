----------------------------- MODULE ScrcpyLaunch -----------------------------
(***************************************************************************)
(* The start of a scrcpy session, its life and its clean-up: a jar is      *)
(* copied to the device, a port forwarded, the server process spawned, its *)
(* sockets connected and its first packets buffered until they can be      *)
(* decoded. Everything may fail, time out or be aborted at every step; all *)
(* adb commands compete for the executor with other work.                  *)
(*                                                                         *)
(* Sources: scrcpy.ts (startScrcpyTransport and what it calls),            *)
(* stream-session.ts (prepareDecodableScrcpySession, adaptScrcpySession),  *)
(* h264-readiness.ts. adb and the device are external: a command takes its *)
(* effect before it ends, also when it was killed. A killed adb is gone    *)
(* within ADB_CANCELLATION_SETTLE_MS.                                      *)
(***************************************************************************)
EXTENDS Executor

CONSTANTS
  Others,         \* issuers of other commands
  MaxAttempts,    \* attempts to forward a fixed port
  MaxPackets      \* bound: packets of the stream

\* The launch gives its commands as "main", the removal of the jars as "jars".
ASSUME LaunchAssumption ==
  /\ Issuers = Others \cup {"main", "jars"} /\ Others \cap {"main", "jars"} = {}
  /\ MaxAttempts \in Nat /\ MaxPackets \in Nat

VARIABLES
  exec,           \* the executor
  step,           \* where the launch is
  launch,         \* the variables of startScrcpyTransport
  device,         \* the device can be reached
  files,          \* files of the launch on the device: temporary, working
  cache,          \* the cached jar: none, partial, whole
  forwards,       \* ports forwarded to the socket of the launch
  stream          \* the packets: read, buffered, delivered

vars == <<exec, step, launch, device, files, cache, forwards, stream>>
remote == <<device, files, cache, forwards>>

StartUp == {"probe", "push", "mv", "cp", "forward", "list", "fixed", "socket"}
Waits == {"locate", "connectVideo", "connectControl", "preamble"}
Starting == StartUp \cup Waits
Closing == {"exiting", "killing", "cleanup"}

\* video: startScrcpy, not startScrcpyControl; forwarding: forwardAttempted; errors:
\* cleanupErrors is not empty; fw, jars: how far removeForwards and
\* removeWorkingJars are.
Fresh(video) == [video |-> video, aborted |-> FALSE, jarStarted |-> FALSE, forwarding |-> FALSE, port |-> 0,
          attempts |-> 0, proc |-> "none", sockets |-> {}, errors |-> FALSE,
          fw |-> "none", jars |-> "none"]
NoStream == [read |-> 0, gate |-> {}, buffered |-> <<>>, delivered |-> 0, gap |-> FALSE]

Running(c) == exec.job[c].state \in {"queued", "active"}
Settled(c) == exec.job[c].state = "settled"

-----------------------------------------------------------------------------
(* closeWithReason. It kills and destroys at once, waits for the process,    *)
(* and removes forwards and jars at the same time.                           *)

CleanUp(x, l) ==
  LET withMain == IF l.forwarding THEN Submit(x, "main") ELSE x
  IN  /\ step' = IF l.forwarding \/ l.jarStarted THEN "cleanup" ELSE "closed"
      /\ exec' = IF l.jarStarted THEN Submit(withMain, "jars") ELSE withMain
      /\ launch' = [l EXCEPT !.fw = IF l.forwarding THEN "list" ELSE "done",
                             !.jars = IF l.jarStarted THEN "rm" ELSE "done"]

CloseWithReason(x, l) ==
  LET dead == [l EXCEPT !.aborted = TRUE, !.sockets = {}]
  IN  /\ stream' = [NoStream EXCEPT !.gap = stream.gap]
      /\ IF l.proc = "running" THEN step' = "exiting" /\ exec' = x /\ launch' = dead
         ELSE CleanUp(x, dead)

ExitWaitTimesOut ==
  /\ step \in {"exiting", "killing"}
  /\ IF step = "exiting" THEN step' = "killing" /\ UNCHANGED <<exec, launch>>
     ELSE CleanUp(exec, [launch EXCEPT !.errors = TRUE])
  /\ UNCHANGED <<remote, stream>>

-----------------------------------------------------------------------------
(* The steps of the start-up.                                               *)

\* Go on to a step; a command is given to the executor at once.
Enter(next, l) ==
  LET x == Collected(exec, "main")
  IN  /\ step' = next
      /\ launch' = l
      /\ exec' = IF next \in StartUp THEN Submit(x, "main") ELSE x
      /\ UNCHANGED stream

\* The launch gives up: what it does is aborted, and close follows. A command
\* is waited for first.
GiveUp ==
  IF step \in StartUp /\ Running("main")
  THEN /\ exec' = Kill(exec, "main")
       /\ launch' = [launch EXCEPT !.aborted = TRUE]
       /\ UNCHANGED <<step, stream>>
  ELSE CloseWithReason(Collected(exec, "main"), launch)

Throw == CloseWithReason(Collected(exec, "main"), launch)

Located ==
  /\ step = "locate"
  /\ Enter("probe", [launch EXCEPT !.jarStarted = TRUE])
  /\ UNCHANGED remote

\* scrcpy's process is spawned as soon as a port is forwarded.
Spawned(port) == Enter("socket", [launch EXCEPT !.port = port, !.proc = "running"])

\* adb picks the first port, the launch the others.
Port == IF step = "fixed" THEN launch.attempts + 2 ELSE 1

\* The command of the step has settled. "push" and the rest follow the probe of
\* the cache; "list" looks for the port adb did not name.
CommandSettled ==
  /\ step \in StartUp /\ Settled("main")
  /\ LET ok == exec.job["main"].result = "ok"
         l == launch
     IN  CASE l.aborted -> Throw
           [] ~l.aborted /\ step = "probe" -> Enter(IF ok THEN "cp" ELSE "push", l)
           [] ~l.aborted /\ step = "push" -> IF ok THEN Enter("mv", l) ELSE Throw
           [] ~l.aborted /\ step = "mv" -> IF ok THEN Enter("cp", l) ELSE Throw
           [] ~l.aborted /\ step = "cp" ->
                IF ok THEN Enter("forward", [l EXCEPT !.forwarding = TRUE]) ELSE Throw
           [] ~l.aborted /\ step = "forward" ->
                IF ok THEN \/ Spawned(Port)
                           \/ Enter("list", l)
                ELSE Enter("fixed", l)
           [] ~l.aborted /\ step = "list" ->
                IF ok THEN Spawned(Port) ELSE Enter("fixed", l)
           [] ~l.aborted /\ step = "fixed" ->
                IF ok THEN Spawned(Port)
                ELSE IF l.attempts + 1 < MaxAttempts
                     THEN Enter("fixed", [l EXCEPT !.attempts = @ + 1]) ELSE Throw
           [] ~l.aborted /\ step = "socket" ->
                IF ok THEN Enter(IF launch.video THEN "connectVideo" ELSE "connectControl", l)
                ELSE Enter("socket", l) \/ Throw
  /\ UNCHANGED remote

Connected ==
  /\ step \in {"connectVideo", "connectControl"}
  /\ LET l == [launch EXCEPT !.sockets = @ \cup {step}]
     IN  Enter(IF step = "connectVideo" THEN "connectControl"
               ELSE IF launch.video THEN "preamble" ELSE "open", l)
  /\ UNCHANGED remote

PreambleRead ==
  /\ step = "preamble"
  /\ Enter("packets", launch)
  /\ UNCHANGED remote

\* A step fails or takes too long, the server process ends, or the signal of the
\* caller is aborted; after the start only the signal matters.
StepFails ==
  /\ step \in Waits \cup {"packets"}
  /\ Throw
  /\ UNCHANGED remote

BugStepTimesOut ==
  /\ step \in Starting \ {"socket"} /\ ~launch.aborted
  /\ GiveUp
  /\ UNCHANGED remote
StepTimesOut ==
  /\ step \in Starting \cup {"packets"} /\ ~launch.aborted
  /\ GiveUp
  /\ UNCHANGED remote

Aborted ==
  /\ step \in Starting \cup {"packets", "open"} /\ ~launch.aborted
  /\ GiveUp
  /\ UNCHANGED remote

ProcessExits ==
  /\ launch.proc = "running"
  /\ LET l == [launch EXCEPT !.proc = "exited"]
     IN  CASE step \in {"exiting", "killing"} -> CleanUp(exec, l) /\ UNCHANGED stream
           [] step \in Starting /\ Running("main") ->
                /\ exec' = Kill(exec, "main")
                /\ launch' = [l EXCEPT !.aborted = TRUE]
                /\ UNCHANGED <<step, stream>>
           [] step \in Starting /\ ~Running("main") ->
                CloseWithReason(Collected(exec, "main"), l)
           [] OTHER -> launch' = l /\ UNCHANGED <<exec, step, stream>>
  /\ UNCHANGED remote

-----------------------------------------------------------------------------
(* prepareDecodableScrcpySession and adaptScrcpySession.                    *)

PacketKinds == {"config", "key", "delta"}
Decodable(gate) == {"config", "key"} \subseteq gate

\* Packets are kept back until a decoder can start with them.
PacketBuffered(kind) ==
  /\ step = "packets" /\ stream.read < MaxPackets
  /\ LET gate == stream.gate \cup {kind}
     IN  /\ stream' = [stream EXCEPT !.read = @ + 1, !.buffered = Append(@, stream.read + 1),
                                     !.gate = IF Decodable(gate) THEN {} ELSE gate]
         /\ step' = IF Decodable(gate) THEN "open" ELSE step
  /\ UNCHANGED <<exec, launch, remote>>

BugNextPacket == IF stream.buffered # <<>> THEN Last(stream.buffered) ELSE stream.read + 1
NextPacket == IF stream.buffered # <<>> THEN Head(stream.buffered) ELSE stream.read + 1

FrameIsRead ==
  /\ step = "open" /\ launch.video
  /\ stream.buffered # <<>> \/ stream.read < MaxPackets
  /\ LET n == NextPacket
     IN  stream' = [stream EXCEPT !.read = IF n > @ THEN n ELSE @,
                                  !.buffered = IF @ # <<>> THEN Tail(@) ELSE @,
                                  !.delivered = n, !.gap = @ \/ n # stream.delivered + 1]
  /\ UNCHANGED <<exec, step, launch, remote>>

-----------------------------------------------------------------------------
(* The clean-up commands.                                                   *)

CleanUpDone(l) == l.fw = "done" /\ l.jars = "done"
CleanUpGoes(x, l) ==
  /\ exec' = x
  /\ launch' = l
  /\ step' = IF CleanUpDone(l) THEN "closed" ELSE "cleanup"
  /\ UNCHANGED <<remote, stream>>

Reported(c) == launch.errors \/ exec.job[c].result = "failed"

\* removeForwards: the ports adb lists, and the one the launch knows.
ForwardsListed ==
  /\ step = "cleanup" /\ launch.fw = "list" /\ Settled("main")
  /\ LET x == Collected(exec, "main")
         listed == exec.job["main"].result = "ok" /\ forwards # {}
         l == [launch EXCEPT !.errors = Reported("main")]
     IN  IF listed \/ launch.port # 0
         THEN CleanUpGoes(Submit(x, "main"), [l EXCEPT !.fw = IF listed THEN "all" ELSE "known"])
         ELSE CleanUpGoes(x, [l EXCEPT !.fw = "done"])

ForwardsRemoved ==
  /\ step = "cleanup" /\ launch.fw \in {"all", "known"} /\ Settled("main")
  /\ CleanUpGoes(Collected(exec, "main"),
                 [launch EXCEPT !.fw = "done", !.errors = Reported("main")])

\* removeWorkingJars: the first shell after the server's may be "closed".
JarsRemoved ==
  /\ step = "cleanup" /\ launch.jars \in {"rm", "again"} /\ Settled("jars")
  /\ LET x == Collected(exec, "jars")
     IN  IF exec.job["jars"].result = "closed" /\ launch.jars = "rm"
         THEN CleanUpGoes(Submit(x, "jars"), [launch EXCEPT !.jars = "again"])
         ELSE CleanUpGoes(x, [launch EXCEPT !.jars = "done", !.errors = Reported("jars")])

CleanUpTimesOut(c) ==
  /\ step = "cleanup" /\ Running(c) /\ ~exec.job[c].killed
  /\ exec' = Kill(exec, c)
  /\ UNCHANGED <<step, launch, remote, stream>>

-----------------------------------------------------------------------------
(* adb and the device.                                                      *)

\* The effect of the command of "main" or of "jars", complete or not.
BugPush(whole) == cache' = IF whole THEN "whole" ELSE "partial"
Push(whole) == cache' = cache

Effect(c, whole) ==
  CASE c = "jars" ->
         files' = (IF whole THEN {} ELSE files) /\ UNCHANGED <<cache, forwards>>
    [] c = "main" /\ step = "push" ->
         files' = files \cup {"temporary"} /\ Push(whole) /\ UNCHANGED forwards
    [] c = "main" /\ step = "mv" /\ whole ->
         files' = files \ {"temporary"} /\ cache' = "whole" /\ UNCHANGED forwards
    [] c = "main" /\ step = "cp" ->
         files' = files \cup {"working"} /\ UNCHANGED <<cache, forwards>>
    [] c = "main" /\ step \in {"forward", "fixed"} /\ whole ->
         forwards' = forwards \cup {Port} /\ UNCHANGED <<files, cache>>
    [] c = "main" /\ step = "cleanup" /\ launch.fw = "all" /\ whole ->
         forwards' = {} /\ UNCHANGED <<files, cache>>
    [] c = "main" /\ step = "cleanup" /\ launch.fw = "known" /\ whole ->
         forwards' = forwards \ {launch.port} /\ UNCHANGED <<files, cache>>
    [] OTHER -> UNCHANGED <<files, cache, forwards>>

\* What a command may answer: the probe finds the cache or not, a port is not
\* listed unless it is forwarded, the server's socket appears in its own time.
Answers(c) ==
  CASE ~device -> {"failed", "unavailable"}
    [] device /\ exec.job[c].killed -> {"failed"}
    [] device /\ ~exec.job[c].killed /\ c = "main" /\ step = "probe" ->
         {IF cache = "none" THEN "failed" ELSE "ok", "failed"}
    [] device /\ ~exec.job[c].killed /\ c = "jars" /\ launch.jars = "rm" ->
         {"ok", "failed", "closed"}
    [] OTHER -> {"ok", "failed"}

CommandEnds(c) ==
  /\ c \in {"main", "jars"} /\ exec.job[c].state = "active"
  /\ \E answer \in Answers(c) :
       /\ exec' = Settle(exec, c, answer)
       /\ \/ device /\ Effect(c, TRUE)
          \/ answer # "ok" /\ device /\ Effect(c, FALSE)
          \/ answer # "ok" /\ UNCHANGED <<files, cache, forwards>>
  /\ UNCHANGED <<step, launch, device, stream>>
KilledCommandEnds(c) == exec.job[c].killed /\ CommandEnds(c)

\* A device that is gone takes its forwards along.
DeviceGoes ==
  /\ device
  /\ device' = FALSE /\ forwards' = {}
  /\ UNCHANGED <<exec, step, launch, files, cache, stream>>

OtherSubmits(c) ==
  /\ exec.job[c].state = "idle"
  /\ exec' = LET x == Submit(exec, c)
             IN  IF x.job[c].state = "settled" THEN Collected(x, c) ELSE x
  /\ UNCHANGED <<step, launch, remote, stream>>

OtherEnds(c) ==
  /\ exec.job[c].state = "active"
  /\ exec' = Collected(Settle(exec, c, "ok"), c)
  /\ UNCHANGED <<step, launch, remote, stream>>

\* An abort or a deadline; a command that runs then ends like any other.
OtherAborted(c) ==
  /\ exec.job[c].state = "queued"
  /\ exec' = Collected(Kill(exec, c), c)
  /\ UNCHANGED <<step, launch, remote, stream>>

-----------------------------------------------------------------------------
Init ==
  /\ exec = NewExecutor
  /\ step = "locate" /\ \E video \in BOOLEAN : launch = Fresh(video)
  /\ device = TRUE /\ files = {} /\ cache \in {"none", "whole"} /\ forwards = {}
  /\ stream = NoStream

Next ==
  \/ Located \/ CommandSettled \/ Connected \/ PreambleRead
  \/ StepFails \/ StepTimesOut \/ Aborted \/ ProcessExits \/ ExitWaitTimesOut
  \/ \E kind \in PacketKinds : PacketBuffered(kind)
  \/ FrameIsRead
  \/ ForwardsListed \/ ForwardsRemoved \/ JarsRemoved
  \/ \E c \in {"main", "jars"} : CleanUpTimesOut(c)
  \/ \E c \in {"main", "jars"} : CommandEnds(c)
  \/ DeviceGoes
  \/ \E c \in Others : OtherSubmits(c)
  \/ \E c \in Others : OtherEnds(c)
  \/ \E c \in Others : OtherAborted(c)

\* Timers fire, a killed process ends, and what has settled is looked at.
TimerFires == StepTimesOut \/ ExitWaitTimesOut \/ \E c \in {"main", "jars"} : CleanUpTimesOut(c)
ResultSeen == CommandSettled \/ ForwardsListed \/ ForwardsRemoved \/ JarsRemoved
KilledEnds == \E c \in {"main", "jars"} : KilledCommandEnds(c)
Fairness == WF_vars(TimerFires) /\ WF_vars(ResultSeen) /\ WF_vars(KilledEnds)

Spec == Init /\ [][Next]_vars /\ Fairness

-----------------------------------------------------------------------------
(* The executor keeps no slot idle that a waiting command may use, and never *)
(* gives away what it reserves for interactive commands (#drain,             *)
(* #canStartLane, #queueHasCapacity).                                        *)
SlotsAreUsed == WorkConserving(exec) /\ ReservesKept(exec)

(* A launch that ends without an error leaves nothing on a device that can   *)
(* be reached, wherever it was aborted, and nothing on the host; nor does it *)
(* ever leave a half-written jar where later launches look for a whole one   *)
(* (closeWithReason, prepareDeviceServerJar).                                *)
DeviceIsLeftClean ==
  /\ cache # "partial"
  /\ step = "closed" =>
       /\ launch.sockets = {} /\ ~Running("main") /\ ~Running("jars")
       /\ device /\ ~launch.errors => forwards = {} /\ files = {} /\ launch.proc # "running"

(* The reader gets every packet of the stream once and in order, those that  *)
(* were read before the session was known to be decodable included           *)
(* (prepareDecodableScrcpySession, readFrame).                               *)
StreamIsWhole == ~stream.gap

(* Every launch ends: it opens, or everything it started is cleaned up,      *)
(* though the device and adb may never answer and other commands may hold    *)
(* every slot (withDeadline, closeWithReason).                               *)
LaunchSettles == []<>(step \in {"open", "closed"})

=============================================================================

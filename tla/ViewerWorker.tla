---------------------------- MODULE ViewerWorker ----------------------------
(***************************************************************************)
(* The viewer over a WebSocket: a worker that owns socket, decoder and     *)
(* canvas, and the effect of useStream that commands it and shows what it  *)
(* reports. The effect may run again for the same canvas, which keeps its  *)
(* worker; commands and events are then queued between the two.            *)
(*                                                                         *)
(* Source: ui/lib/stream-worker.ts, ui/lib/stream-lifecycle.ts and the     *)
(* first WebSocket effect of ui/lib/use-stream.ts. Times, statistics and   *)
(* wording are left out; of a decoded frame only its generation is kept.   *)
(***************************************************************************)
LOCAL INSTANCE Integers
LOCAL INSTANCE Sequences

CONSTANTS
  MaxEffects,        \* bound: runs of the effect
  MaxGenerations,   \* bound: generations of the worker
  MaxEvents         \* bound: events on their way to the effect

ASSUME ViewerWorkerAssumption == {MaxEffects, MaxGenerations, MaxEvents} \subseteq Nat \ {0}

VARIABLES
  worker,     \* the worker's variables
  decoding,   \* the decoder's generation, or none, and the frames in it and in resources
  commands,   \* postMessage to the worker
  events,     \* postMessage from the worker
  hook,       \* the effect that runs
  health,     \* pollHealth
  rendered    \* history: epoch and generation of the frames drawn

viewerWorkerVars == <<worker, decoding, commands, events, hook, health, rendered>>

None == 0

ViewerWorkerInit ==
  /\ worker = [epoch |-> 0, generation |-> 1, born |-> FALSE, failed |-> FALSE, stopped |-> FALSE,
               socket |-> "none", retry |-> FALSE, older |-> FALSE, drawn |-> FALSE,
               dropping |-> FALSE, asked |-> FALSE, cooling |-> FALSE, overrun |-> FALSE]
  /\ decoding = [decoder |-> None, older |-> None, queued |-> None, callback |-> None]
  /\ commands = <<>>
  /\ events = <<>>
  /\ hook = [epoch |-> 0, alive |-> FALSE, generation |-> 0, awaiting |-> FALSE,
             live |-> FALSE, seen |-> 0, terminal |-> 0]
  /\ health = [step |-> "none", generation |-> 0, aborted |-> FALSE]
  /\ rendered = {}

-----------------------------------------------------------------------------
(* The worker: generations.                                                 *)

Event(kind, reason, w) ==
  [kind |-> kind, reason |-> reason, generation |-> w.generation, epoch |-> w.epoch, drawn |-> w.drawn]

\* beginWorkerGeneration: what belonged to the one before is let go of, and the
\* lifecycle is posted.
NextGeneration(w) ==
  [w EXCEPT !.generation = @ + 1, !.drawn = FALSE, !.dropping = FALSE, !.asked = FALSE,
            !.cooling = FALSE, !.overrun = FALSE]
ResetDecoding ==
  decoding' = [decoding EXCEPT !.decoder = None, !.older = IF @ = None THEN decoding.decoder ELSE @,
                               !.queued = None]
Posted(reason, w) == events' = Append(events, Event("lifecycle", reason, w))

MayBegin == worker.generation < MaxGenerations /\ Len(events) < MaxEvents

\* A key frame is asked for when the socket is open and the last request is old enough.
Asked(w) ==
  IF w.socket = "open" /\ ~w.cooling THEN [w EXCEPT !.asked = TRUE, !.cooling = TRUE] ELSE w

RequestCools ==
  /\ worker.cooling
  /\ worker' = [worker EXCEPT !.cooling = FALSE]
  /\ UNCHANGED <<decoding, commands, events, hook, health, rendered>>

\* connect: the socket before is closed, its events mean nothing any more.
Connected(w, reason) ==
  LET next == [NextGeneration(w) EXCEPT !.stopped = FALSE, !.retry = FALSE, !.socket = "opening",
                                        !.older = @ \/ w.socket # "none"]
  IN  /\ worker' = next
      /\ ResetDecoding
      /\ Posted(reason, next)

-----------------------------------------------------------------------------
(* The worker: commands.                                                    *)

Take == commands # <<>> /\ commands' = Tail(commands)

InitCommand ==
  /\ MayBegin /\ Take /\ Head(commands).kind = "init"
  /\ \E ok \in BOOLEAN :
       LET w == [worker EXCEPT !.epoch = Head(commands).epoch, !.born = ok, !.failed = ~ok]
       IN  IF ok THEN Connected(w, "connect")
           ELSE /\ worker' = NextGeneration(w)
                /\ ResetDecoding
                /\ Posted("connect", NextGeneration(w))
  /\ UNCHANGED <<hook, health, rendered>>

BugConnectCommand ==
  /\ MayBegin /\ Take /\ Head(commands).kind = "connect"
  /\ LET w == [worker EXCEPT !.epoch = Head(commands).epoch]
     IN  IF w.born /\ w.stopped THEN Connected(w, "connect")
         ELSE worker' = w /\ UNCHANGED <<decoding, events>>
  /\ UNCHANGED <<hook, health, rendered>>
ConnectCommand ==
  /\ MayBegin /\ Take /\ Head(commands).kind = "connect"
  /\ LET w == [worker EXCEPT !.epoch = Head(commands).epoch]
     IN  CASE w.failed -> /\ worker' = NextGeneration(w)
                          /\ ResetDecoding
                          /\ Posted("connect", NextGeneration(w))
           [] ~w.failed /\ w.born /\ w.stopped -> Connected(w, "connect")
           [] OTHER -> worker' = w /\ UNCHANGED <<decoding, events>>
  /\ UNCHANGED <<hook, health, rendered>>

StopCommand ==
  /\ MayBegin /\ Take /\ Head(commands).kind = "stop"
  /\ IF Head(commands).epoch # worker.epoch
     THEN UNCHANGED <<worker, decoding, events>>
     ELSE LET w == NextGeneration([worker EXCEPT !.stopped = TRUE, !.retry = FALSE, !.socket = "none",
                                                 !.older = @ \/ worker.socket # "none"])
          IN  worker' = w /\ ResetDecoding /\ Posted("stop", w)
  /\ UNCHANGED <<hook, health, rendered>>

-----------------------------------------------------------------------------
(* The worker: its socket.                                                  *)

SocketOpens ==
  /\ worker.socket = "opening"
  /\ worker' = [worker EXCEPT !.socket = "open"]
  /\ UNCHANGED <<decoding, commands, events, hook, health, rendered>>

SocketCloses ==
  /\ MayBegin /\ worker.socket # "none"
  /\ LET w == NextGeneration([worker EXCEPT !.socket = "none", !.retry = TRUE])
     IN  worker' = w /\ ResetDecoding /\ Posted("disconnect", w)
  /\ UNCHANGED <<commands, hook, health, rendered>>

\* The close of a socket that is not the worker's any more.
BugOlderCloses ==
  /\ MayBegin /\ worker.older
  /\ LET w == NextGeneration([worker EXCEPT !.socket = "none", !.retry = TRUE, !.older = FALSE])
     IN  worker' = w /\ ResetDecoding /\ Posted("disconnect", w)
  /\ UNCHANGED <<commands, hook, health, rendered>>
OlderCloses ==
  /\ worker.older
  /\ worker' = [worker EXCEPT !.older = FALSE]
  /\ UNCHANGED <<decoding, commands, events, hook, health, rendered>>

RetryFires ==
  /\ MayBegin /\ worker.retry
  /\ Connected(worker, "reconnect")
  /\ UNCHANGED <<commands, hook, health, rendered>>

\* "video-session": the device was rotated.
BugSessionMessage ==
  /\ MayBegin /\ worker.socket = "open"
  /\ LET w == [NextGeneration(worker) EXCEPT !.dropping = TRUE]
     IN  worker' = w /\ ResetDecoding /\ Posted("video-session", w)
  /\ UNCHANGED <<commands, hook, health, rendered>>
SessionMessage ==
  /\ MayBegin /\ worker.socket = "open"
  /\ LET w == [NextGeneration(worker) EXCEPT !.dropping = TRUE]
     IN  worker' = Asked(w) /\ ResetDecoding /\ Posted("video-session", w)
  /\ UNCHANGED <<commands, hook, health, rendered>>

\* beginDecoderRecovery: after a packet, a chunk or a drawing that failed.
Recovered ==
  LET w == [NextGeneration(worker) EXCEPT !.dropping = TRUE]
  IN  /\ worker' = Asked(w)
      /\ ResetDecoding
      /\ Posted("decoder-recovery", w)

-----------------------------------------------------------------------------
(* The worker: feedFrame, the decoder and renderFromQueue.                  *)

\* A key frame configures the decoder; what needs one before is dropped and asks. When
\* too much waits in the decoder, frames are dropped up to the next key frame.
FrameFed ==
  /\ worker.socket = "open"
  /\ \E key, overrun \in BOOLEAN :
       CASE key /\ overrun ->
              worker' = [Asked([worker EXCEPT !.asked = FALSE, !.dropping = TRUE]) EXCEPT !.overrun = TRUE]
              /\ decoding' = [decoding EXCEPT !.decoder = worker.generation]
         [] key /\ ~overrun ->
              worker' = [worker EXCEPT !.asked = FALSE, !.dropping = FALSE, !.overrun = FALSE]
              /\ decoding' = [decoding EXCEPT !.decoder = worker.generation]
         [] OTHER ->
              /\ UNCHANGED decoding
              /\ worker' = IF worker.dropping THEN worker
                           ELSE IF decoding.decoder = None THEN Asked(worker)
                           ELSE IF overrun
                           THEN [Asked([worker EXCEPT !.dropping = TRUE]) EXCEPT !.overrun = TRUE]
                           ELSE worker
  /\ UNCHANGED <<commands, events, hook, health, rendered>>

FeedFails ==
  /\ MayBegin /\ worker.socket = "open"
  /\ Recovered
  /\ UNCHANGED <<commands, hook, health, rendered>>

\* The output callback of a decoder; the one of an earlier decoder closes its frame.
BugDecoded(g) ==
  /\ g # None /\ g \in {decoding.decoder, decoding.older}
  /\ decoding' = [decoding EXCEPT !.queued = g, !.older = IF @ = g THEN None ELSE @,
                                  !.callback = IF @ = None THEN worker.generation ELSE @]
  /\ UNCHANGED <<worker, commands, events, hook, health, rendered>>
Decoded(g) ==
  /\ g # None /\ g \in {decoding.decoder, decoding.older}
  /\ decoding' = IF g = decoding.decoder /\ g = worker.generation
                 THEN [decoding EXCEPT !.queued = g, !.callback = IF @ = None THEN g ELSE @]
                 ELSE [decoding EXCEPT !.older = None]
  /\ UNCHANGED <<worker, commands, events, hook, health, rendered>>

\* The animation frame of an earlier generation was cancelled with it.
Draw ==
  /\ MayBegin
  /\ decoding.callback # None
  /\ IF decoding.callback # worker.generation \/ decoding.queued = None
     THEN /\ decoding' = [decoding EXCEPT !.callback = None]
          /\ UNCHANGED <<worker, events, rendered>>
     ELSE \/ Recovered /\ UNCHANGED rendered
          \/ /\ decoding' = [decoding EXCEPT !.callback = None, !.queued = None]
             /\ rendered' = rendered \cup {<<worker.epoch, worker.generation, decoding.queued>>}
             /\ worker' = [worker EXCEPT !.drawn = TRUE]
             /\ events' = IF worker.drawn THEN events
                          ELSE Append(events, Event("rendered", "none", [worker EXCEPT !.drawn = TRUE]))
  /\ UNCHANGED <<commands, hook, health>>

-----------------------------------------------------------------------------
(* The effect.                                                              *)

Poll(g) == [step |-> "inFlight", generation |-> g, aborted |-> FALSE]

\* A canvas has one worker: the first run makes it.
EffectRuns ==
  /\ ~hook.alive /\ hook.epoch < MaxEffects
  /\ hook' = [hook EXCEPT !.epoch = @ + 1, !.alive = TRUE, !.awaiting = hook.epoch > 0,
                          !.live = FALSE, !.terminal = 0]
  /\ commands' = Append(commands, [kind |-> IF hook.epoch = 0 THEN "init" ELSE "connect",
                                   epoch |-> hook.epoch + 1])
  /\ health' = Poll(hook.generation)
  /\ UNCHANGED <<worker, decoding, events, rendered>>

CleanedUp ==
  /\ hook.alive
  /\ hook' = [hook EXCEPT !.alive = FALSE, !.live = FALSE]
  /\ commands' = Append(commands, [kind |-> "stop", epoch |-> hook.epoch])
  /\ health' = [health EXCEPT !.step = "none"]
  /\ UNCHANGED <<worker, decoding, events, rendered>>

\* gateStreamEventGeneration
Boundary(e) == e.generation > hook.generation /\ e.kind = "lifecycle"
GatePasses(e) ==
  IF hook.awaiting THEN Boundary(e) /\ e.reason = "connect"
  ELSE e.generation = hook.generation \/ Boundary(e)

\* refreshHealthForGeneration: a request that is on its way is aborted, and its end
\* starts another one.
Refreshed == IF health.step = "inFlight" THEN [health EXCEPT !.aborted = TRUE] ELSE Poll(hook.generation)

\* Shown after a new generation: nothing of the one before.
Shown(e) ==
  IF Boundary(e)
  THEN [hook EXCEPT !.generation = e.generation, !.awaiting = FALSE, !.live = FALSE, !.terminal = 0,
                    !.seen = IF e.drawn THEN e.generation ELSE 0]
  ELSE [hook EXCEPT !.live = @ \/ e.kind = "rendered",
                    !.seen = IF e.drawn THEN e.generation ELSE @]

BugMessage ==
  /\ events # <<>> /\ events' = Tail(events)
  /\ LET e == Head(events)
     IN  IF hook.alive /\ GatePasses(e)
         THEN /\ hook' = Shown(e)
              /\ health' = IF ~Boundary(e) THEN health
                          ELSE [Refreshed EXCEPT !.generation =
                                  IF health.step = "inFlight" THEN @ ELSE e.generation]
         ELSE UNCHANGED <<hook, health>>
  /\ UNCHANGED <<worker, decoding, commands, rendered>>
Message ==
  /\ events # <<>> /\ events' = Tail(events)
  /\ LET e == Head(events)
     IN  IF hook.alive /\ e.epoch = hook.epoch /\ GatePasses(e)
         THEN /\ hook' = Shown(e)
              /\ health' = IF ~Boundary(e) THEN health
                          ELSE [Refreshed EXCEPT !.generation =
                                  IF health.step = "inFlight" THEN @ ELSE e.generation]
         ELSE UNCHANGED <<hook, health>>
  /\ UNCHANGED <<worker, decoding, commands, rendered>>

\* The answer of /health, which may say that the stream has ended, or its failure.
HealthAnswered ==
  /\ health.step = "inFlight"
  /\ \E ended \in BOOLEAN :
       hook' = IF health.aborted \/ health.generation # hook.generation \/ ~ended
               THEN hook ELSE [hook EXCEPT !.terminal = health.generation]
  /\ health' = [step |-> "timer", generation |-> health.generation, aborted |-> FALSE]
  /\ UNCHANGED <<worker, decoding, commands, events, rendered>>

HealthTimer ==
  /\ health.step = "timer"
  /\ health' = Poll(hook.generation)
  /\ UNCHANGED <<worker, decoding, commands, events, hook, rendered>>

ViewerWorkerNext ==
  \/ InitCommand \/ ConnectCommand \/ StopCommand
  \/ SocketOpens \/ SocketCloses \/ OlderCloses \/ RetryFires \/ SessionMessage \/ RequestCools
  \/ FrameFed \/ FeedFails \/ Draw
  \/ \E g \in 1 .. MaxGenerations : Decoded(g)
  \/ EffectRuns \/ CleanedUp \/ Message \/ HealthAnswered \/ HealthTimer

-----------------------------------------------------------------------------

\* onMessage, gateStreamEventGeneration: what the effect shows as live was drawn for it, in
\* the generation it shows; an end the server reported is the one of that generation.
ShownIsCurrent ==
  hook.alive =>
    /\ hook.live => <<hook.epoch, hook.generation, hook.generation>> \in rendered
    /\ hook.terminal \in {0, hook.generation}

\* renderFromQueue, ensureDecoder: the canvas shows frames of the generation it is in.
DrawnIsCurrent == \A f \in rendered : f[2] = f[3]

\* connect, onclose: a worker that is not stopped has a socket, or will open one, never both;
\* pollHealth goes on as long as the effect lives.
WorkerKeepsTrying ==
  /\ worker.born /\ ~worker.stopped => (worker.socket # "none") # worker.retry
  /\ worker.stopped => worker.socket = "none" /\ ~worker.retry
  /\ hook.alive <=> health.step # "none"

\* requestKeyframe: frames are not dropped for want of a key frame nobody asked for, unless the
\* one that came was dropped itself for too long a queue.
DroppingIsAskedFor ==
  worker.dropping /\ worker.socket = "open" => worker.asked \/ worker.overrun

\* publishInitFailure, start: when commands and events have arrived, the effect that lives is
\* past the boundary it waits for.
EffectIsConnected ==
  hook.alive /\ commands = <<>> /\ events = <<>> => ~hook.awaiting /\ worker.epoch = hook.epoch
=============================================================================

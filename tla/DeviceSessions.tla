---------------------------- MODULE DeviceSessions ----------------------------
(***************************************************************************)
(* The life of device sessions: the manager that serializes every switch,  *)
(* replacement, stop and shutdown, the contexts (generations) it publishes *)
(* and disposes, and the per-device state that same-device generations     *)
(* share.                                                                  *)
(*                                                                         *)
(* Sources: device-session-context.ts, device-session-state.ts, and the    *)
(* part of server.ts that drives them (prepareContext, activateContext,    *)
(* startFramePump, attachSessionHandlers, markTerminal, switchSession,     *)
(* switchStreamMode, updateStreamEncoderSettings, stopCurrentSession and   *)
(* stop).                                                                  *)
(*                                                                         *)
(* JavaScript runs one callback at a time, so an action is the code from   *)
(* one await to the next. Operators named Bug... are deliberately wrong    *)
(* variants of the definition that follows them; nothing uses them.        *)
(***************************************************************************)
EXTENDS Integers, Sequences

CONSTANTS
  Serials,       \* adb serials of the devices the server may stream
  FirstSerial,   \* the serial the server was started with
  Ops,           \* identities of the requests made to the manager
  MaxContexts,   \* bound: contexts created after the initial one
  None           \* "no context", "no state"

ASSUME SessionAssumption ==
  /\ FirstSerial \in Serials
  /\ MaxContexts \in Nat
  /\ None \notin Nat
  /\ None \notin Ops
  /\ Ops \cap Nat = {}

\* A context is named by its order of creation; a device state by the context
\* that created it.
Contexts == 0 .. MaxContexts

Phases == {"live", "releasing", "released", "closing", "disposed"}

VARIABLES
  ctx,         \* ctx[c]: what an ActiveDeviceSession and its stream hold
  dev,         \* dev[s]: what a DeviceSessionState holds
  nextCtx,     \* contexts created so far
  current,     \* DeviceSessionManager.#current
  tail,        \* operations on the #tail promise chain; the head is running
  op,          \* op[o]: the progress of request o
  closing,     \* DeviceSessionManager.#closing (and the server's stopRequested)
  cancelled    \* UploadManager.#cancelledGenerations

vars == <<ctx, dev, nextCtx, current, tail, op, closing, cancelled>>

-----------------------------------------------------------------------------
(* Contexts.                                                               *)

Created(c) == c < nextCtx
Aborted(c) == ctx[c].phase # "live"
IsCurrent(c) == current = c /\ ~Aborted(c)
Disposed(c) == ctx[c].phase = "disposed"

\* EmuSession.close has been called: the stream reports nothing any more.
StreamClosed(c) == ctx[c].phase \in {"closing", "disposed"}

NewContext(serial, gen, home) ==
  [serial |-> serial, gen |-> gen, home |-> home, status |-> "streaming",
   phase |-> "live", fatal |-> FALSE, pump |-> "none", listening |-> FALSE,
   terminal |-> FALSE, cleaned |-> FALSE]

-----------------------------------------------------------------------------
(* Device states.                                                          *)

UnusedDev  == [owners |-> {}, targets |-> {}, input |-> None, state |-> "unused"]
ClosingDev == [owners |-> {}, targets |-> {}, input |-> None, state |-> "closing"]

\* A Map iterates in insertion order and contexts activate in creation order,
\* so the last registered target is the youngest one.
BugYoungest(S) == IF S = {} THEN -1 ELSE CHOOSE c \in S : \A d \in S : d <= c
Youngest(S) == IF S = {} THEN None ELSE CHOOSE c \in S : \A d \in S : d <= c

\* DeviceSessionState.acquire.
Acquire(D, s, owner) ==
  [D EXCEPT ![s].owners = @ \cup {owner}, ![s].state = "open"]

\* DeviceSessionState.activate.
Activate(D, s, c) == [D EXCEPT ![s].targets = @ \cup {c}, ![s].input = c]

LastOwner(D, s, owner) == D[s].owners = {owner}

\* DeviceSessionState.release; the last owner starts #dispose.
BugReleaseKeepsInput(D, s, owner) ==
  [D EXCEPT ![s] = IF LastOwner(D, s, owner) THEN ClosingDev
                   ELSE [@ EXCEPT !.owners = @ \ {owner}]]
BugReleaseDropsInput(D, s, owner) ==
  [D EXCEPT ![s] =
     IF LastOwner(D, s, owner) THEN ClosingDev
     ELSE [@ EXCEPT !.owners = @ \ {owner}, !.targets = @ \ {owner},
                    !.input = IF @ = owner THEN None ELSE @]]
Release(D, s, owner) ==
  LET targets == D[s].targets \ {owner}
  IN  [D EXCEPT ![s] =
         IF LastOwner(D, s, owner) THEN ClosingDev
         ELSE [owners  |-> D[s].owners \ {owner},
               targets |-> targets,
               input   |-> IF D[s].input = owner THEN Youngest(targets)
                           ELSE D[s].input,
               state   |-> D[s].state]]

-----------------------------------------------------------------------------
(* Disposal of a context, up to its first await. C and D are ctx and dev.  *)

DisposeCtx(C, D, c, status) ==
  IF C[c].phase # "live" THEN C
  ELSE [C EXCEPT ![c].status = status,
                 ![c].phase  = IF LastOwner(D, C[c].home, c)
                               THEN "releasing" ELSE "released"]

DisposeDev(C, D, c) ==
  IF C[c].phase # "live" THEN D ELSE Release(D, C[c].home, c)

TerminalAllowed(from, to) ==
  \/ from = "streaming"
  \/ from = "stopped" /\ to = "error"

\* markTerminal on the current context.
MarkCtx(C, D, c, status) ==
  IF TerminalAllowed(C[c].status, status)
  THEN DisposeCtx([C EXCEPT ![c].terminal = TRUE, ![c].status = status],
                  D, c, status)
  ELSE C

MarkDev(C, D, c, status) ==
  IF TerminalAllowed(C[c].status, status) THEN DisposeDev(C, D, c) ELSE D

-----------------------------------------------------------------------------
(* startServer has opened the first stream and activated its context.      *)

FreshOp(kind, serial, context, pc) ==
  [kind |-> kind, serial |-> serial, ctx |-> context,
   cand |-> None, state |-> None, pc |-> pc]

Init ==
  /\ LET fresh == [c \in Contexts |-> NewContext(FirstSerial, 0, 0)]
     IN  ctx = [fresh EXCEPT ![0].pump = "running", ![0].listening = TRUE]
  /\ dev = [s \in Contexts |->
              IF s = 0
              THEN [owners |-> {0}, targets |-> {0}, input |-> 0, state |-> "open"]
              ELSE UnusedDev]
  /\ nextCtx = 1
  /\ current = 0
  /\ tail = <<>>
  /\ op = [o \in Ops |-> FreshOp("none", FirstSerial, None, "idle")]
  /\ closing = FALSE
  /\ cancelled = {}

-----------------------------------------------------------------------------
(* Requests: what reaches DeviceSessionManager.#enqueue.                   *)

Enqueue(o, request) ==
  /\ op' = [op EXCEPT ![o] = request]
  /\ tail' = Append(tail, o)

\* switchSession: a switch to another device first cancels the uploads of the
\* generation it found published, and waits for them.
RequestSwitch(o, serial) ==
  /\ op[o].pc = "idle"
  /\ \/ /\ serial # ctx[current].serial
        /\ cancelled' = cancelled \cup {ctx[current].gen}
        /\ op' = [op EXCEPT ![o] = FreshOp("switch", serial, None, "uploads")]
        /\ UNCHANGED tail
     \/ /\ serial = ctx[current].serial
        /\ Enqueue(o, FreshOp("switch", serial, None, "queued"))
        /\ UNCHANGED cancelled
  /\ UNCHANGED <<ctx, dev, nextCtx, current, closing>>

\* The uploads of the captured generation have settled.
UploadsSettled(o) ==
  /\ op[o].pc = "uploads"
  /\ Enqueue(o, FreshOp("switch", op[o].serial, None, "queued"))
  /\ UNCHANGED <<ctx, dev, nextCtx, current, closing, cancelled>>

\* switchStreamMode remembers the serial it found; updateStreamEncoderSettings
\* and stopCurrentSession remember the context of their request.
RequestOnCurrent(o, kind) ==
  /\ op[o].pc = "idle"
  /\ Enqueue(o, FreshOp(kind, ctx[current].serial, current, "queued"))
  /\ UNCHANGED <<ctx, dev, nextCtx, current, closing, cancelled>>

\* stop() of the server, which calls DeviceSessionManager.close once.
Shutdown(o) ==
  /\ op[o].pc = "idle"
  /\ ~closing
  /\ closing' = TRUE
  /\ ctx' = DisposeCtx(ctx, dev, current, "stopped")
  /\ dev' = DisposeDev(ctx, dev, current)
  /\ Enqueue(o, FreshOp("close", FirstSerial, current, "queued"))
  /\ UNCHANGED <<nextCtx, current, cancelled>>

-----------------------------------------------------------------------------
(* The head of the chain decides.                                          *)

BugRunning(o) == op[o].pc \notin {"idle", "uploads", "answered"}
Running(o) == tail # <<>> /\ Head(tail) = o

Ready(o, kind) == Running(o) /\ op[o].kind = kind /\ op[o].pc = "queued"

\* The promise of the request settles, one way or the other.
Finish(o) ==
  /\ op' = [op EXCEPT ![o] = FreshOp(op[o].kind, FirstSerial, None, "answered")]
  /\ tail' = Tail(tail)

\* A request that changes nothing more: refused, or satisfied as things are.
Reply(o) ==
  /\ Finish(o)
  /\ UNCHANGED <<ctx, dev, nextCtx, current, closing, cancelled>>

\* prepareContext up to openStream: a staging owner holds the device state of
\* the generation being replaced.
BugPrepare(o, serial, state) ==
  /\ op' = [op EXCEPT ![o].serial = serial, ![o].ctx = current,
                       ![o].state = state, ![o].pc = "preparing"]
  /\ UNCHANGED <<ctx, dev, nextCtx, current, tail, closing, cancelled>>
Prepare(o, serial, state) ==
  /\ op' = [op EXCEPT ![o].serial = serial, ![o].ctx = current,
                       ![o].state = state, ![o].pc = "preparing"]
  /\ dev' = IF state = None THEN dev ELSE Acquire(dev, state, o)
  /\ UNCHANGED <<ctx, nextCtx, current, tail, closing, cancelled>>

\* switchSession's call of DeviceSessionManager.switch.
RunSwitch(o) ==
  /\ Ready(o, "switch")
  /\ \/ closing /\ Reply(o)
     \/ /\ ~closing
        /\ ctx[current].serial = op[o].serial /\ ~Aborted(current)
        /\ Reply(o)
     \/ /\ ~closing
        /\ ctx[current].serial # op[o].serial \/ Aborted(current)
        /\ Prepare(o, op[o].serial, None)

\* switchStreamMode's call of replace: a live generation's device state is
\* retained, a revoked one's is not.
RunMode(o) ==
  /\ Ready(o, "mode")
  /\ \/ /\ closing \/ ctx[current].serial # op[o].serial
        /\ Reply(o)
     \/ /\ ~closing /\ ctx[current].serial = op[o].serial
        /\ \/ Reply(o)       \* the mode is in force already
           \/ Prepare(o, op[o].serial,
                      IF Aborted(current) THEN None ELSE ctx[current].home)

\* updateStreamEncoderSettings' call of replace.
RunSettings(o) ==
  /\ Ready(o, "settings")
  /\ \/ Reply(o)           \* as below, or a replay is running
     \/ /\ ~closing
        /\ IsCurrent(op[o].ctx)
        /\ ctx[current].status = "streaming"
        /\ \/ Reply(o)       \* the settings are in force already
           \/ Prepare(o, op[o].serial, ctx[current].home)

\* DeviceSessionManager.stop: assertPublished, then dispose.
BugRunStop(o) ==
  /\ Ready(o, "stop")
  /\ ~closing
  /\ ctx' = DisposeCtx(ctx, dev, current, "stopped")
  /\ dev' = DisposeDev(ctx, dev, current)
  /\ op' = [op EXCEPT ![o].pc = "stopping"]
  /\ UNCHANGED <<nextCtx, current, tail, closing, cancelled>>
RunStop(o) ==
  /\ Ready(o, "stop")
  /\ \/ (closing \/ current # op[o].ctx) /\ Reply(o)
     \/ /\ ~closing /\ current = op[o].ctx
        /\ ctx' = DisposeCtx(ctx, dev, current, "stopped")
        /\ dev' = DisposeDev(ctx, dev, current)
        /\ op' = [op EXCEPT ![o].pc = "stopping"]
        /\ UNCHANGED <<nextCtx, current, tail, closing, cancelled>>

\* The operation close() enqueued awaits the context it disposed.
RunClose(o) ==
  /\ Ready(o, "close")
  /\ op' = [op EXCEPT ![o].pc = "stopping"]
  /\ UNCHANGED <<ctx, dev, nextCtx, current, tail, closing, cancelled>>

-----------------------------------------------------------------------------
(* Preparation and publication.                                            *)

\* The device is missing, or openStream fails or is aborted; the staging
\* owner's release waits when it was the last one.
OpenFails(o) ==
  /\ Running(o) /\ op[o].pc = "preparing"
  /\ LET state == op[o].state
         last  == state # None /\ LastOwner(dev, state, o)
     IN  /\ dev' = IF state = None THEN dev ELSE Release(dev, state, o)
         /\ \/ /\ last
               /\ op' = [op EXCEPT ![o].pc = "abandoning"]
               /\ UNCHANGED tail
            \/ ~last /\ Finish(o)
  /\ UNCHANGED <<ctx, nextCtx, current, closing, cancelled>>

FinishAbandoned(o) ==
  /\ Running(o) /\ op[o].pc = "abandoning"
  /\ dev[op[o].state].state = "closed"
  /\ Reply(o)

\* createContext, then the release of the staging owner.
OpenSucceeds(o) ==
  /\ Running(o) /\ op[o].pc = "preparing"
  /\ nextCtx \in Contexts
  /\ LET home == IF op[o].state = None THEN nextCtx ELSE op[o].state
         owned == Acquire(dev, home, nextCtx)
     IN  /\ ctx' = [ctx EXCEPT ![nextCtx] =
                      NewContext(op[o].serial, ctx[op[o].ctx].gen + 1, home)]
         /\ dev' = IF op[o].state = None THEN owned ELSE Release(owned, home, o)
  /\ nextCtx' = nextCtx + 1
  /\ op' = [op EXCEPT ![o].cand = nextCtx, ![o].pc = "prepared"]
  /\ UNCHANGED <<current, tail, closing, cancelled>>

Prepared(o) == Running(o) /\ op[o].pc = "prepared"

\* close() was called during the preparation.
Withdraw(o) ==
  /\ Prepared(o) /\ closing
  /\ ctx' = DisposeCtx(ctx, dev, op[o].cand, "stopped")
  /\ dev' = DisposeDev(ctx, dev, op[o].cand)
  /\ op' = [op EXCEPT ![o].pc = "rollback"]
  /\ UNCHANGED <<nextCtx, current, tail, closing, cancelled>>

\* activate throws, before or after it started the frame pump: #current is
\* back at the previous context before anything else runs.
ActivationFails(o, pumping) ==
  /\ Prepared(o) /\ ~closing
  /\ LET cand == op[o].cand
         C == [ctx EXCEPT ![cand].pump = IF pumping THEN "running" ELSE "none"]
         D == Activate(dev, ctx[cand].home, cand)
     IN  /\ ctx' = DisposeCtx(C, D, cand, "stopped")
         /\ dev' = DisposeDev(C, D, cand)
  /\ op' = [op EXCEPT ![o].pc = "rollback"]
  /\ UNCHANGED <<nextCtx, current, tail, closing, cancelled>>

\* Publication, activation and the start of the previous context's disposal.
\* A stream that failed while it was private reports so as its handler is
\* attached (onFatal), so the candidate may be published and terminal at once.
Publish(o) ==
  /\ Prepared(o) /\ ~closing
  /\ LET cand == op[o].cand
         C == [ctx EXCEPT ![cand].pump = "running", ![cand].listening = TRUE]
         D == Activate(dev, ctx[cand].home, cand)
         C1 == IF ctx[cand].fatal THEN MarkCtx(C, D, cand, "error") ELSE C
         D1 == IF ctx[cand].fatal THEN MarkDev(C, D, cand, "error") ELSE D
     IN  /\ ctx' = DisposeCtx(C1, D1, op[o].ctx, "stopped")
         /\ dev' = DisposeDev(C1, D1, op[o].ctx)
         /\ current' = cand
  /\ op' = [op EXCEPT ![o].pc = "retiring"]
  /\ UNCHANGED <<nextCtx, tail, closing, cancelled>>

\* The awaited disposal has finished.
BugSettle(o) ==
  /\ Running(o)
  /\ \/ op[o].pc = "retiring" /\ Reply(o)
     \/ op[o].pc = "rollback" /\ Reply(o)
     \/ op[o].pc = "stopping" /\ Reply(o)
Settle(o) ==
  /\ Running(o)
  /\ \/ op[o].pc = "retiring" /\ Disposed(op[o].ctx) /\ Reply(o)
     \/ op[o].pc = "rollback" /\ Disposed(op[o].cand) /\ Reply(o)
     \/ op[o].pc = "stopping" /\ Disposed(op[o].ctx) /\ Reply(o)

-----------------------------------------------------------------------------
(* The stream, the frame pump and the fatal handler of a context.          *)

\* startFramePump reads the end of the video, or readFrame throws. A video that
\* ended while its context was staged is read here too.
PumpEnds(c) ==
  /\ ctx[c].pump = "running" /\ IsCurrent(c)
  /\ LET C == [ctx EXCEPT ![c].pump = "done"]
     IN  \E status \in {"stopped", "error"} :
           /\ ctx' = MarkCtx(C, dev, c, status)
           /\ dev' = MarkDev(C, dev, c, status)
  /\ UNCHANGED <<nextCtx, current, tail, op, closing, cancelled>>

\* The readFrame a revoked generation's pump waits in returns, at the latest
\* because its stream was closed, and the pump leaves its loop; nothing but
\* the end of the disposal observes an earlier exit.
PumpExits(c) ==
  /\ ctx[c].pump = "running" /\ StreamClosed(c)
  /\ ctx' = [ctx EXCEPT ![c].pump = "done"]
  /\ UNCHANGED <<dev, nextCtx, current, tail, op, closing, cancelled>>

\* The fatal handler's own guard, before markTerminal's.
BugHears(c) == ctx[c].listening /\ ~closing /\ current = c
Hears(c) ==
  /\ ctx[c].listening
  /\ ~closing
  /\ current = c
  /\ ~Aborted(c) \/ ctx[c].terminal

\* The stream's process or control channel fails: emitFatal, once. The failure
\* of a replaced stream is not observed.
StreamFails(c) ==
  /\ Created(c) /\ ~StreamClosed(c) /\ ~ctx[c].fatal
  /\ c = current \/ ~Aborted(c)
  /\ LET C == [ctx EXCEPT ![c].fatal = TRUE]
     IN  /\ ctx' = IF Hears(c) THEN MarkCtx(C, dev, c, "error") ELSE C
         /\ dev' = IF Hears(c) THEN MarkDev(C, dev, c, "error") ELSE dev
  /\ UNCHANGED <<nextCtx, current, tail, op, closing, cancelled>>

-----------------------------------------------------------------------------
(* Disposal of a context and of a device state after their first await.    *)

\* The registered cleanups run one microtask after dispose: the fatal handler
\* is unsubscribed and the generation's uploads are cancelled.
RunCleanups(c) ==
  /\ Aborted(c) /\ ~ctx[c].cleaned
  /\ ctx' = [ctx EXCEPT ![c].cleaned = TRUE, ![c].listening = FALSE]
  /\ cancelled' = cancelled \cup {ctx[c].gen}
  /\ UNCHANGED <<dev, nextCtx, current, tail, op, closing>>

\* The device state this context was the last to own has been disposed, and
\* the stream's close begins.
BugCloseStream(c) ==
  /\ ctx[c].cleaned /\ ctx[c].pump # "running"
  /\ \/ ctx[c].phase = "released"
     \/ ctx[c].phase = "releasing" /\ dev[ctx[c].home].state = "closed"
  /\ ctx' = [ctx EXCEPT ![c].phase = "closing"]
  /\ UNCHANGED <<dev, nextCtx, current, tail, op, closing, cancelled>>
CloseStream(c) ==
  /\ ctx[c].cleaned
  /\ \/ ctx[c].phase = "released"
     \/ ctx[c].phase = "releasing" /\ dev[ctx[c].home].state = "closed"
  /\ ctx' = [ctx EXCEPT ![c].phase = "closing"]
  /\ UNCHANGED <<dev, nextCtx, current, tail, op, closing, cancelled>>

\* The stream's close, the tracked drains (the pump) and the cleanups have
\* settled, awaited in that order.
FinishDispose(c) ==
  /\ ctx[c].phase = "closing" /\ ctx[c].pump # "running"
  /\ ctx' = [ctx EXCEPT ![c].phase = "disposed"]
  /\ UNCHANGED <<dev, nextCtx, current, tail, op, closing, cancelled>>

\* The recorder's dispose settles.
CloseState(s) ==
  /\ dev[s].state = "closing"
  /\ dev' = [dev EXCEPT ![s].state = "closed"]
  /\ UNCHANGED <<ctx, nextCtx, current, tail, op, closing, cancelled>>

-----------------------------------------------------------------------------
Request(o) ==
  \/ \E serial \in Serials : RequestSwitch(o, serial)
  \/ \E kind \in {"mode", "settings", "stop"} : RequestOnCurrent(o, kind)
  \/ Shutdown(o)

\* What the chain does with request o once it is made.
Progress(o) ==
  \/ UploadsSettled(o)
  \/ RunSwitch(o) \/ RunMode(o) \/ RunSettings(o) \/ RunStop(o) \/ RunClose(o)
  \/ OpenFails(o) \/ OpenSucceeds(o) \/ FinishAbandoned(o)
  \/ Withdraw(o) \/ Publish(o)
  \/ \E pumping \in BOOLEAN : ActivationFails(o, pumping)
  \/ Settle(o)

\* What a revoked context does on its own.
Unwind(c) ==
  RunCleanups(c) \/ CloseStream(c) \/ PumpExits(c) \/ FinishDispose(c)

Next ==
  \/ \E o \in Ops : Request(o) \/ Progress(o)
  \/ \E c \in Contexts : \/ StreamFails(c) \/ PumpEnds(c)
                         \/ Unwind(c) \/ CloseState(c)

Spec == Init /\ [][Next]_vars

\* Every promise the code awaits settles: opening a stream has a timeout,
\* closing one ends its reads, and the recorder's dispose and the uploads'
\* cancellation finish.
Fairness ==
  /\ \A o \in Ops : WF_vars(Progress(o))
  /\ \A c \in Contexts : WF_vars(Unwind(c)) /\ WF_vars(CloseState(c))

FairSpec == Spec /\ Fairness

-----------------------------------------------------------------------------
(* Properties.                                                             *)

Statuses == {"streaming", "stopped", "error"}

CtxRecord ==
  [serial : Serials, gen : Nat, home : Contexts, status : Statuses,
   phase : Phases, fatal : BOOLEAN, pump : {"none", "running", "done"},
   listening : BOOLEAN, terminal : BOOLEAN, cleaned : BOOLEAN]

DevRecord ==
  [owners : SUBSET (Contexts \cup Ops), targets : SUBSET Contexts,
   input : Contexts \cup {None}, state : {"unused", "open", "closing", "closed"}]

OpRecord ==
  [kind : {"none", "switch", "mode", "settings", "stop", "close"},
   serial : Serials, ctx : Contexts \cup {None}, cand : Contexts \cup {None},
   state : Contexts \cup {None},
   pc : {"idle", "uploads", "queued", "preparing", "abandoning", "prepared",
         "retiring", "rollback", "stopping", "answered"}]

\* Every variable holds a value the program can produce.
TypeOK ==
  /\ ctx \in [Contexts -> CtxRecord]
  /\ dev \in [Contexts -> DevRecord]
  /\ op \in [Ops -> OpRecord]
  /\ nextCtx \in 1 .. MaxContexts + 1
  /\ current \in Contexts
  /\ tail \in Seq(Ops)
  /\ closing \in BOOLEAN
  /\ cancelled \in SUBSET Nat

\* No generation outlives its purpose: a live context is the published one or
\* the candidate of the operation at the head of the chain (the dispose calls
\* of #replacePublished, DeviceSessionManager.close and markTerminal).
NoStrayContext ==
  \A c \in Contexts : Created(c) /\ ~Aborted(c) =>
    \/ c = current
    \/ \E o \in Ops : Prepared(o) /\ op[o].cand = c

\* A published live session can drive its device: its device state is open,
\* it owns it, and replayed gestures go to it (DeviceSessionState's promise
\* that releasing the old source cannot close what the new one uses).
PublishedSessionDrivesItsDevice ==
  IsCurrent(current) =>
    LET d == dev[ctx[current].home]
    IN  d.state = "open" /\ current \in d.owners /\ d.input = current

\* Replayed gestures never reach a stream that is not the published one, not
\* even while a candidate of the same device is staged or was withdrawn.
ReplayTargetsPublished ==
  \A s \in Contexts : dev[s].input # None => IsCurrent(dev[s].input)

\* The device state a replacement means to keep is still open when the new
\* stream is ready, whatever happened to the old stream in the meantime (the
\* staging owner of prepareContext).
StagedStateStaysOpen ==
  \A o \in Ops :
    op[o].pc = "preparing" /\ op[o].state # None => dev[op[o].state].state = "open"

\* When the server's stop() resolves, every context it ever created has been
\* disposed and every device state is closed.
StopLeavesNothing ==
  (\E o \in Ops : op[o].kind = "close" /\ op[o].pc = "answered") =>
    \A c \in Contexts : /\ Created(c) => Disposed(c)
                        /\ dev[c].state \in {"unused", "closed"}

\* The stops that name the published session and wait for their turn.
StopsAsked ==
  {o \in Ops : op[o].kind = "stop" /\ op[o].pc = "queued" /\ op[o].ctx = current}

\* The manager implements PublishedSession. A publication is the successor of
\* the generation it replaces and none follows close(), so a request that finds
\* its generation current before and after an await was never interrupted
\* (runForContext); and a working session is revoked only by its own stream, by
\* its successor, by a stop that named it or by shutdown, so that a failed or
\* refused request leaves it untouched (#replacePublished's comment).
Published == INSTANCE PublishedSession WITH
  gen <- ctx[current].gen, verdict <- ctx[current].status,
  alive <- ~Aborted(current), own <- ctx[current].terminal,
  asked <- StopsAsked, over <- closing
ImplementsPublishedSession == Published!Spec

\* Once revoked a session keeps the verdict it was revoked with: a late crash
\* cannot turn a requested stop into an error, nor anything undo an error.
VerdictIsFinal ==
  [][\A c \in Contexts :
       Created(c) /\ Aborted(c) /\ (ctx[c].status = "error" \/ ~ctx[c].terminal) =>
         ctx'[c].status = ctx[c].status]_vars

\* Every request the manager accepted is answered: no operation of the chain
\* waits forever on a disposal that waits on it.
RequestsAreAnswered ==
  \A o \in Ops : op[o].pc # "idle" ~> op[o].pc = "answered"

-----------------------------------------------------------------------------
(* Statements of the repository that the code does not keep.               *)

\* device-session-context.ts:471-472: a failed preparation leaves the working
\* generation untouched; so a switch that failed does not cost it its uploads.
FailedSwitchIsHarmless ==
  [][\A o \in Ops :
       /\ op[o].kind = "switch" /\ op[o].pc = "preparing" /\ op'[o].pc = "answered"
       /\ IsCurrent(current)
       => ctx[current].gen \notin cancelled]_vars

\* session-status.ts:5-9: a crash reported after a clean end of the video
\* escalates the published session from "stopped" to "error".
CrashWinsTheRace ==
  [][\A c \in Contexts :
       /\ ctx[c].fatal # ctx'[c].fatal
       /\ current = c /\ ~closing
       /\ ctx[c].terminal /\ ctx[c].status = "stopped"
       => ctx'[c].status = "error"]_vars

=============================================================================

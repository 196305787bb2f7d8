---------------------------- MODULE ViewerPolling ---------------------------
(***************************************************************************)
(* How the panels of the viewer keep what they show up to date while the   *)
(* user changes it: usePoll with the device session store (StreamModePanel,*)
(* DevicePanel), and SessionPanel with its VisibilityPoller. The two share *)
(* no state; each has a next-state relation of its own.                    *)
(*                                                                         *)
(* Source: ui/lib/polling.ts, use-poll.ts, device-session-store.ts,        *)
(* visibility-poller.ts, ui/components/device-panel.tsx,                   *)
(* stream-mode-panel.tsx, session-panel.tsx. React renders and runs its    *)
(* effects before the next event, so a publication of the store and the    *)
(* restart of the polls keyed by its revision are one step.                *)
(***************************************************************************)
LOCAL INSTANCE Integers

CONSTANTS
  MaxRevisions,   \* bound: publications of the store, and polls' generations
  MaxMutations    \* bound: mutations of SessionPanel; its polls have the same bound

ASSUME ViewerPollingAssumption == {MaxRevisions, MaxMutations} \subseteq Nat \ {0}

VARIABLES
  poll,      \* PollController
  store,     \* the device session store
  actions,   \* the actions of the panels whose answers are awaited
  panel,     \* SessionPanel
  poller,    \* its VisibilityPoller
  served     \* the recorder's state at the server, and the mutations on their way

pollVars == <<poll, store, actions>>
panelVars == <<panel, poller, served>>
pollingVars == <<pollVars, panelVars>>

-----------------------------------------------------------------------------
(* createPollController and usePoll.                                        *)

NoRun == [generation |-> 0, aborted |-> FALSE, read |-> 0]

PollInit ==
  /\ \E i \in BOOLEAN :
       poll = [active |-> TRUE, visible |-> TRUE, interval |-> i, timer |-> FALSE, generation |-> 1,
               polled |-> 0, run |-> [NoRun EXCEPT !.generation = 1]]
  /\ store = [revision |-> 0, depth |-> 0, barrier |-> 0, from |-> 0]
  /\ actions = {}

Live(p) == p.active /\ p.visible

\* run; read is the store's barrier when the request was made.
Run(p) ==
  IF Live(p) /\ p.run = NoRun
  THEN [p EXCEPT !.run = [generation |-> p.generation, aborted |-> FALSE, read |-> store.barrier]]
  ELSE p
Superseded(p) ==
  [p EXCEPT !.generation = @ + 1, !.timer = FALSE, !.run = IF @ = NoRun THEN @ ELSE [@ EXCEPT !.aborted = TRUE]]

\* restart and refresh; stop
Restarted(p) == Run(Superseded([p EXCEPT !.active = TRUE]))
PollStopped(p) ==
  IF ~p.active /\ p.run = NoRun /\ ~p.timer THEN p ELSE Superseded([p EXCEPT !.active = FALSE])

\* usePoll: the key is the store's revision, and no poll runs in a transition.
Rendered(s) == IF s.depth > 0 THEN PollStopped(poll) ELSE [Restarted(poll) EXCEPT
                  !.run = IF @.generation = poll.generation + 1 THEN [@ EXCEPT !.read = s.barrier] ELSE @]

MayPublish == store.revision < MaxRevisions /\ poll.generation < 2 * MaxRevisions
Published(s) == store' = [s EXCEPT !.revision = @ + 1] /\ poll' = Rendered(s)

VisibilityChanges ==
  /\ poll.generation < 2 * MaxRevisions
  /\ poll' = Run(Superseded([poll EXCEPT !.visible = ~@]))
  /\ UNCHANGED <<store, actions>>

IntervalChanges ==
  /\ LET p == [poll EXCEPT !.interval = ~@]
     IN  poll' = [p EXCEPT !.timer = p.interval /\ Live(p) /\ p.run = NoRun]
  /\ UNCHANGED <<store, actions>>

Refresh ==
  /\ poll.active /\ poll.generation < 2 * MaxRevisions
  /\ poll' = Restarted(poll)
  /\ UNCHANGED <<store, actions>>

TimerFires ==
  /\ poll.timer
  /\ poll' = Run([poll EXCEPT !.timer = FALSE])
  /\ UNCHANGED <<store, actions>>

\* What follows a task: another run when the generation changed, or the timer.
Settled(p) ==
  LET idle == [p EXCEPT !.run = NoRun, !.polled = p.run.generation]
  IN  IF p.run.generation # p.generation THEN Run(idle)
      ELSE [idle EXCEPT !.timer = Live(p) /\ p.interval]

\* applyHealth: nothing in a transition; equal health publishes nothing.
HealthApplied(p, from) ==
  \/ /\ MayPublish /\ store.depth = 0
     /\ store' = [store EXCEPT !.revision = @ + 1, !.from = from]
     /\ poll' = Restarted(p)
  \/ /\ store' = IF store.depth = 0 THEN [store EXCEPT !.from = from] ELSE store
     /\ poll' = p

BugPollSettles ==
  /\ poll.run # NoRun
  /\ \/ poll' = Settled(poll) /\ UNCHANGED store
     \/ HealthApplied(Settled(poll), poll.run.read)
  /\ UNCHANGED actions
PollSettles ==
  /\ poll.run # NoRun
  /\ \/ poll' = Settled(poll) /\ UNCHANGED store
     \/ /\ Live(poll) /\ poll.run.generation = poll.generation /\ ~poll.run.aborted
        /\ HealthApplied(Settled(poll), poll.run.read)
  /\ UNCHANGED actions

-----------------------------------------------------------------------------
(* runDeviceAction, apply: actions that change the session.                 *)

\* beginTransition
ActionBegins ==
  /\ MayPublish
  /\ Published([store EXCEPT !.depth = @ + 1, !.barrier = @ + 1, !.from = 0])
  /\ actions' = actions \cup {store.barrier + 1}

\* endTransition, then applyHealth with the answer, if there is one.
BugActionEnds(a) ==
  /\ MayPublish /\ a \in actions
  /\ actions' = actions \ {a}
  /\ Published([store EXCEPT !.depth = 0, !.barrier = @ + 1])
ActionEnds(a) ==
  /\ MayPublish /\ a \in actions
  /\ actions' = actions \ {a}
  /\ LET s == [store EXCEPT !.depth = @ - 1]
     IN  IF s.depth > 0 THEN store' = s /\ UNCHANGED poll
         ELSE \E answered \in BOOLEAN :
                Published([s EXCEPT !.barrier = @ + 1, !.from = IF answered THEN s.barrier + 1 ELSE 0])

PollNext ==
  \/ VisibilityChanges \/ IntervalChanges \/ Refresh \/ TimerFires \/ PollSettles
  \/ ActionBegins
  \/ \E a \in actions : ActionEnds(a)

\* createPollController: while active and visible, either the current generation has been
\* polled, and with an interval will be again, or a poll of it runs or follows the one that does.
EveryGenerationIsPolled ==
  Live(poll) =>
    /\ poll.run # NoRun \/ poll.timer \/ (poll.polled = poll.generation /\ ~poll.interval)
    /\ poll.timer => poll.run = NoRun

\* beginTransition, usePoll's key: what the store says of the session was not asked for before
\* the last change of it began or ended, and it says nothing while one is under way.
HealthIsOfThisSession ==
  /\ store.from \in {0, store.barrier}
  /\ actions # {} => store.depth > 0 /\ store.from = 0 /\ ~poll.active

-----------------------------------------------------------------------------
(* VisibilityPoller.                                                        *)

NoFlight == [generation |-> 0, aborted |-> FALSE, page |-> 0]

PanelInit ==
  /\ panel = [mounted |-> TRUE, generation |-> 0, shown |-> 0]
  /\ poller = [active |-> FALSE, disposed |-> FALSE, generation |-> 0, flight |-> NoFlight,
               after |-> FALSE, timer |-> FALSE]
  /\ served = [version |-> 0, sent |-> {}, answers |-> {}]

MayPoll == poller.generation < 3 * MaxMutations

\* #run: page is what the server had when it answered.
PollBegins(p) ==
  IF p.disposed \/ ~p.active \/ p.flight # NoFlight THEN p
  ELSE [p EXCEPT !.generation = @ + 1, !.after = FALSE,
                 !.flight = [generation |-> p.generation + 1, aborted |-> FALSE, page |-> served.version]]
PollerInvalidated(p) ==
  [p EXCEPT !.generation = @ + 1, !.after = FALSE, !.timer = FALSE,
            !.flight = IF @ = NoFlight THEN @ ELSE [@ EXCEPT !.aborted = TRUE]]
PolledNow(p) ==
  IF ~p.active THEN p
  ELSE IF p.flight # NoFlight THEN [p EXCEPT !.timer = FALSE, !.after = TRUE]
  ELSE PollBegins([p EXCEPT !.timer = FALSE])

SetActive ==
  /\ MayPoll /\ ~poller.disposed
  /\ poller' = IF poller.active THEN PollerInvalidated([poller EXCEPT !.active = FALSE])
               ELSE PolledNow([poller EXCEPT !.active = TRUE])
  /\ UNCHANGED <<panel, served>>

\* The server answers with what it has then.
PageRead ==
  /\ poller.flight # NoFlight
  /\ poller' = [poller EXCEPT !.flight.page = served.version]
  /\ UNCHANGED <<panel, served>>

PollerFires ==
  /\ MayPoll /\ poller.timer
  /\ poller' = PollBegins([poller EXCEPT !.timer = FALSE])
  /\ UNCHANGED <<panel, served>>

PageArrives ==
  /\ poller.flight # NoFlight
  /\ LET f == poller.flight
         p == [poller EXCEPT !.flight = NoFlight]
     IN  /\ poller' = IF p.disposed \/ ~p.active THEN p
                      ELSE IF p.after THEN PollBegins(p) ELSE [p EXCEPT !.timer = TRUE]
         /\ \E ok \in BOOLEAN :
              panel' = IF ok /\ p.active /\ ~f.aborted /\ f.generation = p.generation
                       THEN [panel EXCEPT !.shown = f.page] ELSE panel
  /\ UNCHANGED served

-----------------------------------------------------------------------------
(* SessionPanel.mutate.                                                     *)

Mutate ==
  /\ panel.mounted /\ panel.generation < MaxMutations /\ MayPoll
  /\ panel' = [panel EXCEPT !.generation = @ + 1]
  /\ poller' = PollerInvalidated(poller)
  /\ served' = [served EXCEPT !.sent = @ \cup {panel.generation + 1}]

\* The server carries a mutation out, or refuses it.
MutationServed(m) ==
  /\ m \in served.sent
  /\ \E ok \in BOOLEAN :
       LET v == IF ok THEN served.version + 1 ELSE served.version
       IN  served' = [version |-> v, sent |-> served.sent \ {m},
                      answers |-> served.answers \cup {[mutation |-> m, ok |-> ok, version |-> v]}]
  /\ UNCHANGED <<panel, poller>>

BugMutated(a) ==
  /\ a \in served.answers
  /\ served' = [served EXCEPT !.answers = @ \ {a}]
  /\ IF a.mutation # panel.generation THEN UNCHANGED <<panel, poller>>
     ELSE /\ panel' = IF a.ok THEN [panel EXCEPT !.shown = a.version] ELSE panel
          /\ poller' = PolledNow(poller)
Mutated(a) ==
  /\ a \in served.answers
  /\ served' = [served EXCEPT !.answers = @ \ {a}]
  /\ IF a.mutation # panel.generation THEN UNCHANGED <<panel, poller>>
     ELSE /\ panel' = IF a.ok THEN [panel EXCEPT !.shown = a.version] ELSE panel
          /\ poller' = PolledNow(PollerInvalidated(poller))

\* dispose
Unmounted ==
  /\ panel.mounted
  /\ panel' = [panel EXCEPT !.mounted = FALSE, !.generation = @ + 1]
  /\ poller' = PollerInvalidated([poller EXCEPT !.disposed = TRUE, !.active = FALSE])
  /\ UNCHANGED served

PanelNext ==
  \/ SetActive \/ PageRead \/ PollerFires \/ PageArrives
  \/ Mutate \/ Unmounted
  \/ \E m \in served.sent : MutationServed(m)
  \/ \E a \in served.answers : Mutated(a)

\* mutate, invalidate: a page that was read before a mutation is not shown after its answer. Of
\* two mutations at a time the answer itself may be the older one; a poll follows it.
PageNeverGoesBack == panel'.shown < panel.shown => served'.answers # served.answers

\* setActive, pollNow: a panel in view polls, or will, unless it awaits a mutation's answer.
PanelIsRefreshed ==
  poller.active =>
    \/ poller.flight # NoFlight \/ poller.timer
    \/ panel.generation \in served.sent \cup {a.mutation : a \in served.answers}
=============================================================================

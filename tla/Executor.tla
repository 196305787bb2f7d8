------------------------------- MODULE Executor -------------------------------
(***************************************************************************)
(* The bounded executor of short commands (adb, emulator): at most         *)
(* MaxActive run, at most MaxQueued wait, and both limits keep a reserve   *)
(* for interactive work. Its state is a value, its operations are          *)
(* functions of it, so that an operation may start the commands that the   *)
(* end of another one lets start, in the same step.                        *)
(*                                                                         *)
(* Source: exec.ts, ProcessExecutor. Every issuer has one command at a     *)
(* time; output, statistics and validation are left out.                   *)
(***************************************************************************)
EXTENDS Integers, Sequences, FiniteSets, SequencesExt

CONSTANTS
  Issuers,        \* who gives commands
  LaneOf,         \* the lane of each issuer's commands
  MaxActive, MaxQueued, ActiveReserve, QueueReserve

Priority == [interactive |-> 0, default |-> 1, background |-> 2]

ASSUME ExecutorAssumption ==
  /\ LaneOf \in [Issuers -> DOMAIN Priority]
  /\ MaxActive \in Nat \ {0} /\ MaxQueued \in Nat
  /\ ActiveReserve \in 0 .. MaxActive - 1 /\ QueueReserve \in 0 .. MaxQueued

NoCommand == [state |-> "idle", killed |-> FALSE, result |-> "none"]
NewExecutor == [job |-> [c \in Issuers |-> NoCommand], queue |-> <<>>]

Active(x) == {c \in Issuers : x.job[c].state = "active"}
InLane(cs, lane) == {c \in cs : LaneOf[c] = lane}

\* Background work leaves free what interactive work does not use of its reserve.
CanStartLane(x, lane) ==
  LET needed == ActiveReserve - Cardinality(InLane(Active(x), "interactive"))
  IN  /\ Cardinality(Active(x)) < MaxActive
      /\ lane = "background" /\ needed > 0 => Cardinality(Active(x)) < MaxActive - needed

\* The waiting commands that are not interactive.
OthersQueued(x) ==
  {c \in Issuers : LaneOf[c] # "interactive" /\ \E i \in DOMAIN x.queue : x.queue[i] = c}

QueueHasCapacity(x, lane) ==
  /\ Len(x.queue) < MaxQueued
  /\ lane # "interactive" => Cardinality(OthersQueued(x)) < MaxQueued - QueueReserve

Start(x, c) == [x EXCEPT !.job[c].state = "active"]

Submit(x, c) ==
  CASE CanStartLane(x, LaneOf[c]) -> Start(x, c)
    [] ~CanStartLane(x, LaneOf[c]) /\ QueueHasCapacity(x, LaneOf[c]) ->
         [x EXCEPT !.job[c].state = "queued", !.queue = Append(@, c)]
    [] OTHER -> [x EXCEPT !.job[c] = [@ EXCEPT !.state = "settled", !.result = "failed"]]

\* The first command of the most urgent lane that may start.
Eligible(x) == {i \in DOMAIN x.queue : CanStartLane(x, LaneOf[x.queue[i]])}
MoreUrgent(x, i, j) ==
  LET p == Priority[LaneOf[x.queue[i]]]  q == Priority[LaneOf[x.queue[j]]]
  IN  p < q \/ (p = q /\ i <= j)
BugStartNext(x) ==
  IF x.queue # <<>> /\ 1 \in Eligible(x)
  THEN Start([x EXCEPT !.queue = Tail(@)], Head(x.queue)) ELSE x
StartNext(x) ==
  IF Eligible(x) = {} THEN x
  ELSE LET i == CHOOSE k \in Eligible(x) : \A j \in Eligible(x) : MoreUrgent(x, k, j)
       IN  Start([x EXCEPT !.queue = RemoveAt(@, i)], x.queue[i])

\* One round of the loop for each command that waits; the rest find none to start.
Drain(x) ==
  LET after[n \in 0 .. Len(x.queue)] == IF n = 0 THEN x ELSE StartNext(after[n - 1])
  IN  after[Len(x.queue)]

Dequeued(queue, c) ==
  IF \E i \in DOMAIN queue : queue[i] = c
  THEN RemoveAt(queue, CHOOSE i \in DOMAIN queue : queue[i] = c) ELSE queue

Settle(x, c, result) ==
  Drain([x EXCEPT !.job[c] = [NoCommand EXCEPT !.state = "settled", !.result = result],
                  !.queue = Dequeued(@, c)])

\* An abort, a deadline, an error or too much output: what waits is settled,
\* what runs is killed and settled once its process is gone.
Kill(x, c) ==
  CASE x.job[c].state = "queued" -> Settle(x, c, "failed")
    [] x.job[c].state = "active" -> [x EXCEPT !.job[c].killed = TRUE]
    [] OTHER -> x

Collected(x, c) == [x EXCEPT !.job[c] = NoCommand]

-----------------------------------------------------------------------------
\* No slot is idle while a command waits that may use it.
WorkConserving(x) == \A i \in DOMAIN x.queue : ~CanStartLane(x, LaneOf[x.queue[i]])

\* Background work never takes the slots, nor other work the places, that are
\* reserved for interactive commands.
ReservesKept(x) ==
  /\ Cardinality(InLane(Active(x), "background")) <= MaxActive - ActiveReserve
  /\ Cardinality(OthersQueued(x)) <= MaxQueued - QueueReserve

=============================================================================

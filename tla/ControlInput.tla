----------------------------- MODULE ControlInput -----------------------------
(***************************************************************************)
(* The bounded queue that carries input to a device, its pump, and the     *)
(* adapter below it: the scrcpy control socket's writer or a semantic      *)
(* dispatcher.                                                             *)
(*                                                                         *)
(* Source: control-input-queue.ts, with the packet sizes of input.ts. The  *)
(* socket (its write callback, "drain", "error" and "close" events) and    *)
(* the dispatcher are the environment.                                     *)
(*                                                                         *)
(* An action is the code from one await to the next: an event and the      *)
(* continuation it wakes are two actions, because anything may run between *)
(* them. Operators named Bug... are deliberately wrong variants of the     *)
(* definition that follows them; nothing uses them.                        *)
(***************************************************************************)
EXTENDS Integers, SequencesExt, FiniteSets, Sums

CONSTANTS
  Pointers,      \* touch pointer ids
  MaxDepth,      \* maxDepth of the queue: accepted inputs not yet settled
  MaxBytes,      \* maxBytes of the queue
  MaxInputs,     \* bound: inputs accepted in a behavior
  None           \* "no pointer", "no entry"

ASSUME ControlAssumption ==
  /\ IsFiniteSet(Pointers)
  /\ MaxDepth \in Nat \ {0}
  /\ MaxBytes \in Nat \ {0}
  /\ MaxInputs \in Nat
  /\ None \notin Pointers

\* #assertCapacity keeps room for the packet of one "up" per open pointer.
ReleaseBytes == 32

Touches == [kind : {"down", "move", "up"}, pointer : Pointers]
Tap     == [kind |-> "tap", pointer |-> None]
Reset   == [kind |-> "reset", pointer |-> None]
Inputs  == Touches \cup {Tap, Reset}

\* An entry of the queue: the accepted inputs that wait for it, and what it sends.
Entries == [ids : Seq(Nat), input : Inputs]

ASSUME NoneIsNoEntry == None \notin Entries

\* A touch packet has 32 bytes, a tap is two of them, a video reset is one byte.
Bytes(input) == CASE input.kind = "tap"   -> 64
                  [] input.kind = "reset" -> 1
                  [] OTHER                -> 32

VARIABLES
  adapter,     \* "writer" or "dispatcher", chosen by the constructor
  pending,     \* #pending
  active,      \* #active
  step,        \* the step of the active entry being carried out
  dispatch,    \* where the active entry's #dispatch is
  waiting,     \* what the socket still owes the write: its callback, a drain
  broken,      \* SocketControlWriter.#failure is set
  pump,        \* #scheduled, #running
  depth,       \* #depth
  bytes,       \* #bytes
  open,        \* #openPointers
  closed,      \* #closedError is set
  accepted,    \* every input accepted so far, in order
  outcome,     \* outcome[i]: how the completion of accepted[i] settled
  sent         \* history of <<input, step>> handed to the socket or dispatcher

queue == <<pending, active, depth, bytes>>
adapting == <<step, dispatch, waiting, sent>>
vars == <<adapter, queue, adapting, broken, pump, open, closed, accepted, outcome>>

Init ==
  /\ adapter \in {"writer", "dispatcher"}
  /\ pending = <<>> /\ active = None
  /\ step = 0 /\ dispatch = "none" /\ waiting = {}
  /\ broken = FALSE
  /\ pump = "idle"
  /\ depth = 0 /\ bytes = 0
  /\ open = {}
  /\ closed = FALSE
  /\ accepted = <<>> /\ outcome = <<>>
  /\ sent = <<>>

-----------------------------------------------------------------------------
(* Accepting input.                                                        *)

Coalesces(entry, input) ==
  input.kind \in {"move", "reset"} /\ entry.input = input

BugFits(newDepth, newBytes, releases) ==
  newDepth <= MaxDepth /\ newBytes <= MaxBytes
Fits(newDepth, newBytes, releases) ==
  /\ newDepth + releases <= MaxDepth
  /\ newBytes + releases * ReleaseBytes <= MaxBytes

\* #openPointers once the input is accepted.
OpenAfter(input) ==
  CASE input.kind = "down" -> open \cup {input.pointer}
    [] input.kind = "up"   -> open \ {input.pointer}
    [] OTHER               -> open

\* The new waiter joins the entry at the tail, whose content it replaces by one
\* of the same size.
BugJoin(input) ==
  LET id == Len(accepted) + 1
  IN  /\ Fits(depth + 1, bytes, Cardinality(open))
      /\ pending' = [pending EXCEPT ![Len(pending)] =
                        [ids |-> Append(Last(pending).ids, id), input |-> input]]
      /\ depth' = depth
      /\ UNCHANGED <<bytes, open, pump>>
Join(input) ==
  LET id == Len(accepted) + 1
  IN  /\ Fits(depth + 1, bytes, Cardinality(open))
      /\ pending' = [pending EXCEPT ![Len(pending)] =
                        [ids |-> Append(Last(pending).ids, id), input |-> input]]
      /\ depth' = depth + 1
      /\ UNCHANGED <<bytes, open, pump>>

BugPush(input) ==
  LET id == Len(accepted) + 1
  IN  /\ Fits(depth + 1, bytes + Bytes(input), Cardinality(OpenAfter(input)))
      /\ pending' = Append(pending, [ids |-> <<id>>, input |-> input])
      /\ depth' = depth + 1
      /\ bytes' = bytes + Bytes(input)
      /\ open' = OpenAfter(input)
      /\ UNCHANGED pump
BugPushFirst(input) ==
  LET id == Len(accepted) + 1
  IN  /\ Fits(depth + 1, bytes + Bytes(input), Cardinality(OpenAfter(input)))
      /\ pending' = <<[ids |-> <<id>>, input |-> input]>> \o pending
      /\ depth' = depth + 1
      /\ bytes' = bytes + Bytes(input)
      /\ open' = OpenAfter(input)
      /\ pump' = IF pump = "idle" THEN "scheduled" ELSE pump
Push(input) ==
  LET id == Len(accepted) + 1
  IN  /\ Fits(depth + 1, bytes + Bytes(input), Cardinality(OpenAfter(input)))
      /\ pending' = Append(pending, [ids |-> <<id>>, input |-> input])
      /\ depth' = depth + 1
      /\ bytes' = bytes + Bytes(input)
      /\ open' = OpenAfter(input)
      /\ pump' = IF pump = "idle" THEN "scheduled" ELSE pump

\* enqueue and enqueueVideoReset. An input refused for want of room, or because
\* the queue is closed, throws before it changes anything.
BugEnqueue(input) ==
  /\ ~closed
  /\ Len(accepted) < MaxInputs
  /\ IF \E i \in DOMAIN pending : Coalesces(pending[i], input)
     THEN Join(input) ELSE Push(input)
  /\ accepted' = Append(accepted, input)
  /\ outcome' = Append(outcome, "pending")
  /\ UNCHANGED <<adapter, active, adapting, broken, closed>>
Enqueue(input) ==
  /\ ~closed
  /\ Len(accepted) < MaxInputs
  /\ IF pending # <<>> /\ Coalesces(Last(pending), input)
     THEN Join(input) ELSE Push(input)
  /\ accepted' = Append(accepted, input)
  /\ outcome' = Append(outcome, "pending")
  /\ UNCHANGED <<adapter, active, adapting, broken, closed>>

-----------------------------------------------------------------------------
(* Settling.                                                               *)

Waiters(entries) == UNION {ToSet(entries[i].ids) : i \in DOMAIN entries}

\* Each waiter but the last was marked "coalesced" as the next one joined.
Completed(ids) ==
  [i \in DOMAIN outcome |->
     IF i \notin ToSet(ids) THEN outcome[i]
     ELSE IF i = Last(ids) THEN "completed" ELSE "coalesced"]

RejectedAs(ids, reason) ==
  [i \in DOMAIN outcome |-> IF i \in ids THEN reason ELSE outcome[i]]

\* What entries count for in #depth and #bytes.
Depth(entries) == Total([i \in DOMAIN entries |-> Len(entries[i].ids)])
Size(entries) == Total([i \in DOMAIN entries |-> Bytes(entries[i].input)])

\* #release of one entry, and of all that close() finds pending.
Release(entry) ==
  /\ depth' = depth - Len(entry.ids)
  /\ bytes' = bytes - Bytes(entry.input)

ReleaseAll(entries) ==
  /\ depth' = depth - Depth(entries)
  /\ bytes' = bytes - Size(entries)

-----------------------------------------------------------------------------
(* The pump.                                                               *)

\* In the binary protocol a tap is a "down" and, 20 ms later, an "up".
Steps(entry) == IF adapter = "writer" /\ entry.input.kind = "tap" THEN 2 ELSE 1

\* writer.write, or the dispatcher's call, for step k of the entry.
BugPerform(entry, k) ==
  /\ step' = k
  /\ sent' = Append(sent, <<Last(entry.ids), k>>)
  /\ dispatch' = IF adapter = "writer" THEN "writing" ELSE "calling"
  /\ waiting' = IF adapter = "writer" THEN {"callback"} ELSE {}
Perform(entry, k) ==
  /\ step' = k
  /\ IF adapter = "writer" /\ broken
     THEN /\ dispatch' = "failed"
          /\ waiting' = {}
          /\ UNCHANGED sent
     ELSE /\ sent' = Append(sent, <<Last(entry.ids), k>>)
          /\ IF adapter = "writer"
             THEN /\ dispatch' = "writing"
                  /\ waiting' \in {{"callback"}, {"callback", "drain"}}
             ELSE /\ dispatch' = "calling"
                  /\ waiting' = {}

\* The head of the pump's loop.
Take ==
  IF pending = <<>>
  THEN /\ active' = None /\ pending' = <<>>
       /\ step' = 0 /\ dispatch' = "none" /\ waiting' = {}
       /\ pump' = "idle"
       /\ UNCHANGED sent
  ELSE /\ active' = Head(pending) /\ pending' = Tail(pending)
       /\ Perform(Head(pending), 1)
       /\ pump' = "running"

PumpStarts ==
  /\ pump = "scheduled"
  /\ IF closed
     THEN pump' = "idle" /\ UNCHANGED <<active, pending, adapting>>
     ELSE Take
  /\ UNCHANGED <<adapter, depth, bytes, broken, open, closed, accepted, outcome>>

\* The delay before a step is over; the loop looks at the abort signal again.
Awake ==
  /\ dispatch = "awake" /\ ~closed
  /\ Perform(active, step)
  /\ UNCHANGED <<adapter, queue, broken, pump, open, closed, accepted, outcome>>

NextStep ==
  /\ dispatch = "ok" /\ ~closed /\ step < Steps(active)
  /\ step' = step + 1
  /\ dispatch' = "sleeping"
  /\ UNCHANGED <<adapter, queue, waiting, sent, broken, pump, open, closed,
                 accepted, outcome>>

Complete ==
  /\ dispatch = "ok" /\ ~closed /\ step = Steps(active)
  /\ outcome' = Completed(active.ids)
  /\ Release(active)
  /\ Take
  /\ UNCHANGED <<adapter, broken, open, closed, accepted>>

\* The dispatcher refused this input alone: the queue goes on.
Reject ==
  /\ dispatch = "rejected" /\ ~closed
  /\ outcome' = RejectedAs(ToSet(active.ids), "rejected")
  /\ Release(active)
  /\ Take
  /\ UNCHANGED <<adapter, broken, open, closed, accepted>>

\* The dispatch failed, or the queue was closed under it: the active entry and
\* then, by close(), everything pending is rejected.
Fail ==
  /\ \/ dispatch = "failed"
     \/ closed /\ dispatch \in {"awake", "ok", "rejected"}
  /\ outcome' = RejectedAs(Waiters(<<active>> \o pending), "failed")
  /\ ReleaseAll(<<active>> \o pending)
  /\ pending' = <<>> /\ active' = None
  /\ step' = 0 /\ dispatch' = "none" /\ waiting' = {}
  /\ pump' = "idle"
  /\ closed' = TRUE /\ broken' = TRUE /\ open' = {}
  /\ UNCHANGED <<adapter, sent, accepted>>

-----------------------------------------------------------------------------
(* close(), from outside. The abort signal ends a delay and fails the       *)
(* write at once; a dispatcher only sees the signal.                        *)

BugClose ==
  /\ ~closed
  /\ closed' = TRUE /\ broken' = TRUE /\ open' = {}
  /\ outcome' = RejectedAs(Waiters(pending), "failed")
  /\ ReleaseAll(pending)
  /\ pending' = <<>>
  /\ UNCHANGED <<adapter, active, step, dispatch, waiting, sent, pump, accepted>>
Close ==
  /\ ~closed
  /\ closed' = TRUE /\ broken' = TRUE /\ open' = {}
  /\ outcome' = RejectedAs(Waiters(pending), "failed")
  /\ ReleaseAll(pending)
  /\ pending' = <<>>
  /\ dispatch' = IF dispatch \in {"sleeping", "writing"} THEN "failed" ELSE dispatch
  /\ waiting' = {}
  /\ UNCHANGED <<adapter, active, step, sent, pump, accepted>>

-----------------------------------------------------------------------------
(* The environment.                                                        *)

SleepEnds ==
  /\ dispatch = "sleeping"
  /\ dispatch' = "awake"
  /\ UNCHANGED <<adapter, queue, step, waiting, sent, broken, pump, open, closed,
                 accepted, outcome>>

\* The socket's callback or "drain": the write resolves when nothing is owed.
SocketAnswers(what) ==
  /\ dispatch = "writing" /\ what \in waiting
  /\ waiting' = waiting \ {what}
  /\ dispatch' = IF waiting' = {} THEN "ok" ELSE dispatch
  /\ UNCHANGED <<adapter, queue, step, sent, broken, pump, open, closed,
                 accepted, outcome>>

\* The callback reports an error, or the socket emits "error" or "close".
SocketFails ==
  /\ adapter = "writer" /\ ~broken
  /\ broken' = TRUE
  /\ dispatch' = IF dispatch = "writing" THEN "failed" ELSE dispatch
  /\ waiting' = {}
  /\ UNCHANGED <<adapter, queue, step, sent, pump, open, closed, accepted, outcome>>

DispatcherSettles(result) ==
  /\ dispatch = "calling"
  /\ dispatch' = result
  /\ UNCHANGED <<adapter, queue, step, waiting, sent, broken, pump, open, closed,
                 accepted, outcome>>

-----------------------------------------------------------------------------
Pump == PumpStarts \/ Awake \/ NextStep \/ Complete \/ Reject \/ Fail

Environment ==
  \/ SleepEnds
  \/ \E what \in {"callback", "drain"} : SocketAnswers(what)
  \/ SocketFails
  \/ \E result \in {"ok", "rejected", "failed"} : DispatcherSettles(result)

Next ==
  \/ \E input \in Inputs : Enqueue(input)
  \/ Close
  \/ Pump
  \/ Environment

Spec == Init /\ [][Next]_vars

\* The event loop runs what is ready, and a dispatcher that sees the abort
\* signal settles. Nothing is assumed of the socket.
Fairness ==
  /\ WF_vars(Pump)
  /\ WF_vars(closed /\ \E result \in {"ok", "failed"} : DispatcherSettles(result))

FairSpec == Spec /\ Fairness

-----------------------------------------------------------------------------
(* Properties.                                                             *)

\* Every variable holds a value the program can produce.
TypeOK ==
  /\ adapter \in {"writer", "dispatcher"}
  /\ pending \in Seq(Entries)
  /\ active \in Entries \cup {None}
  /\ step \in 0 .. 2
  /\ dispatch \in {"none", "sleeping", "awake", "writing", "calling",
                   "ok", "rejected", "failed"}
  /\ waiting \in SUBSET {"callback", "drain"}
  /\ broken \in BOOLEAN
  /\ pump \in {"idle", "scheduled", "running"}
  /\ depth \in Int /\ bytes \in Int
  /\ open \in SUBSET Pointers
  /\ closed \in BOOLEAN
  /\ accepted \in Seq(Inputs)
  /\ outcome \in Seq({"pending", "completed", "coalesced", "rejected", "failed"})
  /\ sent \in Seq(Nat \X Nat)

Unsettled == (IF active = None THEN <<>> ELSE <<active>>) \o pending

\* The counters that decide about overload are what the entries hold, and an
\* input is unsettled exactly while an entry waits for it: no capacity leaks
\* through coalescing, rejection, failure or close.
AccountsBalance ==
  /\ depth = Depth(Unsettled)
  /\ bytes = Size(Unsettled)
  /\ {i \in DOMAIN outcome : outcome[i] = "pending"} = Waiters(Unsettled)

\* Whatever else is queued, a finger that went down can be lifted: the "up" of
\* an open pointer is never refused for want of room (the reservation that
\* #openPointers makes).
ReleaseAlwaysFits ==
  \A p \in open : LET up == [kind |-> "up", pointer |-> p]
                  IN  Fits(depth + 1, bytes + Bytes(up), Cardinality(OpenAfter(up)))

\* A completion tells the truth: an input that is "completed" was carried out to
\* its last step, one that is "coalesced" was superseded by one that was carried
\* out, with nothing of another kind or pointer accepted between them.
OutcomeIsTrue ==
  /\ \A i \in DOMAIN outcome : outcome[i] = "coalesced" =>
       \E j \in DOMAIN outcome :
         /\ j > i /\ outcome[j] = "completed"
         /\ \A k \in i .. j : accepted[k] = accepted[i]
  /\ \A i \in DOMAIN outcome : outcome[i] = "completed" =>
       \A k \in 1 .. Steps([ids |-> <<i>>, input |-> accepted[i]]) :
         <<i, k>> \in ToSet(sent)

\* The device sees inputs in the order they were accepted, and the steps of one
\* input without another's between them.
SentInOrder ==
  \A m, n \in DOMAIN sent : m < n =>
    \/ sent[m][1] < sent[n][1]
    \/ sent[m][1] = sent[n][1] /\ sent[m][2] < sent[n][2]

\* Input that waits in an open queue has a pump that will look at it.
NoLostWakeup == pending # <<>> => pump # "idle" /\ ~closed

\* Once the queue is closed, or its socket has failed, no packet leaves it,
\* though a delay, a write or a call was in progress.
NothingSentAfterFailure ==
  [][closed \/ (adapter = "writer" /\ broken) => sent' = sent]_vars

\* close() settles every completion, even if the socket never answers again.
CloseSettlesAll ==
  closed ~> (\A i \in DOMAIN outcome : outcome[i] # "pending")

=============================================================================

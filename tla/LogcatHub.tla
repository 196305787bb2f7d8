------------------------------- MODULE LogcatHub -------------------------------
(***************************************************************************)
(* The logcat hub of a device: one "adb logcat" child feeds every          *)
(* subscriber, each with a bounded queue that is flushed in batches into   *)
(* its event stream, and drops its oldest lines when the consumer is slow. *)
(*                                                                         *)
(* Source: logcat.ts (LogcatHub, BoundedLineQueue, resolvePackagePids).    *)
(* A line is its length, a chunk of output is what stands before and after *)
(* its last newline; which lines match a filter is any choice.             *)
(***************************************************************************)
EXTENDS Integers, FiniteSets

CONSTANTS
  Subscribers,       \* requests for the event stream
  MaxSubscribers,    \* maxSubscribers
  MaxQueueLines,     \* maxQueueLines of a subscriber
  MaxLine,           \* maxSourceLineBytes
  MaxChunks,         \* bound: events an idle consumer has not read
  MaxChildren        \* bound: children started

ASSUME HubAssumption ==
  {MaxSubscribers, MaxQueueLines, MaxLine, MaxChunks, MaxChildren} \subseteq Nat \ {0}

VARIABLES
  hubClosed,     \* #closed
  child,         \* #child: an adb process is read
  terminating,   \* #terminatingChild and the signal it has got
  graceTimer,    \* #terminationTimer
  children,      \* children started
  source,        \* #lineBuffer and #discardingLongLine, and what was really read
  subs           \* the subscribers by request

hubVars == <<hubClosed, child, terminating, graceTimer, children, source, subs>>
hubProcesses == <<hubClosed, child, terminating, graceTimer, children>>

EmptySource == [buffer |-> 0, discarding |-> FALSE, read |-> 0, wrong |-> FALSE]

\* A subscriber: lines in its queue, losses it was not told of yet, events its
\* consumer has not read, and what will flush it.
Inactive == [active |-> FALSE, lines |-> 0, owed |-> FALSE, chunks |-> 0, timer |-> FALSE,
             waiting |-> FALSE, lookup |-> FALSE, pidTimer |-> FALSE]

HubInit ==
  /\ hubClosed = FALSE
  /\ child = FALSE /\ terminating = "none" /\ graceTimer = FALSE /\ children = 0
  /\ source = EmptySource
  /\ subs = [s \in Subscribers |-> Inactive]

ActiveIn(ss) == {s \in Subscribers : ss[s].active}
Room(s) == subs[s].chunks < MaxChunks

-----------------------------------------------------------------------------
(* Children.                                                                *)

\* removeSubscriber for every s of gone, and stopChild with the last of them.
BugRemoved(gone) ==
  /\ subs' = [s \in Subscribers |-> IF s \in gone THEN Inactive ELSE subs[s]]
  /\ UNCHANGED <<child, terminating, graceTimer, source>>
Removed(gone) ==
  LET after == [s \in Subscribers |-> IF s \in gone THEN Inactive ELSE subs[s]]
  IN  /\ subs' = after
      /\ IF gone # {} /\ ActiveIn(after) = {} /\ child
         THEN /\ child' = FALSE /\ terminating' = "term" /\ graceTimer' = TRUE
              /\ source' = EmptySource
         ELSE UNCHANGED <<child, terminating, graceTimer, source>>

\* subscribe, refused when the hub is closed or full, or adb cannot be started.
Subscribe(s, filtered) ==
  /\ ~hubClosed /\ ~subs[s].active
  /\ Cardinality(ActiveIn(subs)) < MaxSubscribers
  /\ IF child \/ terminating # "none"
     THEN UNCHANGED <<child, children, source>>
     ELSE /\ children < MaxChildren
          /\ child' = TRUE /\ children' = children + 1 /\ source' = EmptySource
  /\ subs' = [subs EXCEPT ![s] = [Inactive EXCEPT !.active = TRUE, !.chunks = 1,
                                                  !.lookup = filtered, !.pidTimer = filtered]]
  /\ UNCHANGED <<hubClosed, terminating, graceTimer>>

\* The request is aborted, or the consumer cancels its stream.
Unsubscribe(s) ==
  /\ subs[s].active
  /\ Removed({s})
  /\ UNCHANGED <<hubClosed, children>>

\* The child ends on its own: everyone is told and let go.
ChildEnds ==
  /\ child
  /\ child' = FALSE /\ source' = EmptySource
  /\ subs' = [s \in Subscribers |-> Inactive]
  /\ UNCHANGED <<hubClosed, terminating, graceTimer, children>>

\* "error" of the child.
ChildFails ==
  /\ child
  /\ \A s \in ActiveIn(subs) : Room(s)
  /\ subs' = [s \in Subscribers |->
                IF subs[s].active THEN [subs[s] EXCEPT !.chunks = @ + 1] ELSE subs[s]]
  /\ UNCHANGED <<hubProcesses, source>>

GraceExpires ==
  /\ graceTimer
  /\ graceTimer' = FALSE
  /\ terminating' = IF terminating = "none" THEN "none" ELSE "killed"
  /\ UNCHANGED <<hubClosed, child, children, source, subs>>

\* The terminating child is gone. Those who came meanwhile get a new one, or
\* are let go if adb cannot be started.
BugTerminated ==
  /\ terminating # "none"
  /\ terminating' = "none" /\ graceTimer' = FALSE
  /\ UNCHANGED <<hubClosed, child, children, source, subs>>
Terminated ==
  /\ terminating # "none"
  /\ terminating' = "none" /\ graceTimer' = FALSE
  /\ IF hubClosed \/ ActiveIn(subs) = {}
     THEN UNCHANGED <<child, children, source, subs>>
     ELSE \/ /\ children < MaxChildren
             /\ child' = TRUE /\ children' = children + 1 /\ source' = EmptySource
             /\ UNCHANGED subs
          \/ /\ subs' = [s \in Subscribers |-> Inactive]
             /\ UNCHANGED <<child, children, source>>
  /\ UNCHANGED hubClosed

-----------------------------------------------------------------------------
(* Lines.                                                                   *)

Scheduled(sub) ==
  [sub EXCEPT !.timer = @ \/ (sub.active /\ ~sub.waiting)]

\* BoundedLineQueue.push: the oldest line makes room.
Pushed(sub) ==
  Scheduled(IF sub.lines < MaxQueueLines THEN [sub EXCEPT !.lines = @ + 1]
            ELSE [sub EXCEPT !.owed = TRUE])

\* dispatchLine to those it matches; a line lost at the source is owed to all.
Dispatched(ss, matching) ==
  [s \in Subscribers |-> IF s \in matching THEN Pushed(ss[s]) ELSE ss[s]]
SourceDropped(ss) ==
  [s \in Subscribers |->
     IF ss[s].active THEN Scheduled([ss[s] EXCEPT !.owed = TRUE]) ELSE ss[s]]

\* acceptSourceLine of a line of n bytes.
Accepted(ss, n, matching) ==
  CASE n = 0       -> ss
    [] n > MaxLine -> SourceDropped(ss)
    [] OTHER       -> Dispatched(ss, matching)

\* consumeSource: n bytes, up to a newline if ends, then more bytes. Nothing is
\* kept of a line that grew too long, whose end is still to come.
Buffered(ss, n, discarding, read, wrong) ==
  IF n > MaxLine
  THEN /\ source' = [buffer |-> 0, discarding |-> TRUE, read |-> MaxLine + 1, wrong |-> wrong]
       /\ subs' = SourceDropped(ss)
  ELSE /\ source' = [buffer |-> n, discarding |-> discarding, wrong |-> wrong,
                     read |-> IF read > MaxLine THEN MaxLine + 1 ELSE read]
       /\ subs' = ss

BugConsume(n, ends, more, matching) ==
  LET line == source.buffer + n
  IN  /\ child
      /\ IF ~ends
         THEN Buffered(subs, line, FALSE, source.read + n, source.wrong)
         ELSE Buffered(Accepted(subs, line, matching), more, FALSE, more,
                       line # source.read + n /\ line \in 1 .. MaxLine)
      /\ UNCHANGED hubProcesses
Consume(n, ends, more, matching) ==
  LET line == source.buffer + n
  IN  /\ child
      /\ IF ~ends
         THEN IF source.discarding THEN UNCHANGED <<source, subs>>
              ELSE Buffered(subs, line, FALSE, source.read + n, source.wrong)
         ELSE IF source.discarding THEN Buffered(subs, more, FALSE, more, source.wrong)
              ELSE Buffered(Accepted(subs, line, matching), more, FALSE, more,
                            line # source.read + n /\ line \in 1 .. MaxLine)
      /\ UNCHANGED hubProcesses

\* What adb writes to stderr goes to the subscribers as a line.
StderrLine(matching) ==
  /\ child
  /\ subs' = Dispatched(subs, matching)
  /\ UNCHANGED <<hubProcesses, source>>

\* flush: nothing to say, or a consumer to wait for, or a batch.
BugFlushed(sub) ==
  IF sub.chunks > 0 THEN sub
  ELSE [sub EXCEPT !.lines = 0, !.owed = FALSE,
                   !.chunks = IF sub.lines > 0 \/ sub.owed THEN 1 ELSE 0]
Flushed(sub) ==
  IF sub.chunks > 0 THEN [sub EXCEPT !.waiting = TRUE]
  ELSE [sub EXCEPT !.lines = 0, !.owed = FALSE,
                   !.chunks = IF sub.lines > 0 \/ sub.owed THEN 1 ELSE 0]

BatchTimerFires(s) ==
  /\ subs[s].timer
  /\ subs' = [subs EXCEPT ![s] = Flushed([@ EXCEPT !.timer = FALSE])]
  /\ UNCHANGED <<hubProcesses, source>>

\* The consumer reads an event; an empty stream pulls.
ConsumerReads(s) ==
  /\ subs[s].active /\ subs[s].chunks > 0
  /\ LET read == [subs[s] EXCEPT !.chunks = @ - 1]
     IN  subs' = [subs EXCEPT ![s] = IF read.chunks > 0 THEN read
                                     ELSE Flushed([read EXCEPT !.waiting = FALSE])]
  /\ UNCHANGED <<hubProcesses, source>>

\* The processes of a package are looked up, at intervals, one lookup at a time.
RefreshPids(s) ==
  /\ subs[s].pidTimer /\ ~subs[s].lookup
  /\ subs' = [subs EXCEPT ![s].lookup = TRUE]
  /\ UNCHANGED <<hubProcesses, source>>
PidsResolved(s) ==
  /\ subs[s].lookup
  /\ subs' = [subs EXCEPT ![s].lookup = FALSE]
  /\ UNCHANGED <<hubProcesses, source>>

-----------------------------------------------------------------------------
\* close.
CloseHub ==
  /\ ~hubClosed
  /\ hubClosed' = TRUE
  /\ subs' = [s \in Subscribers |-> Inactive]
  /\ IF child
     THEN /\ child' = FALSE /\ terminating' = "term" /\ graceTimer' = TRUE
          /\ source' = EmptySource
     ELSE UNCHANGED <<child, terminating, graceTimer, source>>
  /\ UNCHANGED children

HubNext ==
  \/ \E s \in Subscribers : \/ \E filtered \in BOOLEAN : Subscribe(s, filtered)
                            \/ Unsubscribe(s)
                            \/ BatchTimerFires(s)
                            \/ ConsumerReads(s)
                            \/ RefreshPids(s)
                            \/ PidsResolved(s)
  \/ \E matching \in SUBSET ActiveIn(subs) :
       \/ \E n, more \in 0 .. MaxLine + 1, ends \in BOOLEAN : Consume(n, ends, more, matching)
       \/ StderrLine(matching)
  \/ ChildEnds \/ ChildFails \/ GraceExpires \/ Terminated
  \/ CloseHub

-----------------------------------------------------------------------------
(* Properties.                                                              *)

\* A subscriber is never left on a hub that neither reads logcat nor waits for
\* an old child to go before it reads again, and there is never a second adb.
SubscribersAreFed ==
  /\ ActiveIn(subs) # {} => ~hubClosed /\ (child \/ terminating # "none")
  /\ ~(child /\ terminating # "none")
  /\ child => ActiveIn(subs) # {}

\* What a subscriber has in its queue, or lost, will reach it: a batch timer is
\* armed, or it waits for the consumer to read what its stream holds.
LinesAreOnTheirWay ==
  \A s \in ActiveIn(subs) :
    /\ subs[s].lines > 0 \/ subs[s].owed => subs[s].timer \/ subs[s].waiting
    /\ subs[s].waiting => subs[s].chunks > 0

\* Only whole lines are shown: never the end of one that was discarded.
LinesAreWhole == ~source.wrong

\* After close the hub has no child, no timer of a subscriber and no lookup; a
\* child that ignores SIGTERM gets SIGKILL.
HubLeavesNothing ==
  /\ hubClosed => ~child /\ ActiveIn(subs) = {}
  /\ \A s \in Subscribers : subs[s].timer \/ subs[s].lookup \/ subs[s].pidTimer => subs[s].active
  /\ terminating = "term" => graceTimer
=============================================================================

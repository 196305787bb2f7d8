-------------------------------- MODULE Uploads --------------------------------
(***************************************************************************)
(* The upload manager: bounded concurrent uploads with a bounded, timed    *)
(* queue, cancelled by their request, by the end of their device session   *)
(* (generation), by cancelGeneration and by close.                         *)
(*                                                                         *)
(* Source: upload-manager.ts. The operation a job runs (runUpload of       *)
(* server.ts: stage, install or push, clean up), the abort signals and the *)
(* queue timer are the environment.                                        *)
(*                                                                         *)
(* start() chains the operation and its ending as microtasks, so between   *)
(* "started", "operation called", "operation settled" and "slot released"  *)
(* anything else may run; each is an action of its own. Operators named    *)
(* Bug... are deliberately wrong variants of the definition that follows   *)
(* them; nothing uses them.                                                *)
(***************************************************************************)
EXTENDS Integers, Sequences, FiniteSets

CONSTANTS
  Generations,   \* device session generations uploads are made for
  MaxActive,     \* maxActive
  MaxQueued,     \* maxQueued
  Calls,         \* identities of the calls of cancelGeneration
  Closing,       \* the identity of the call of close
  MaxJobs,       \* bound: jobs accepted in a behavior
  None           \* "no cancellation", "no generation"

ASSUME UploadAssumption ==
  /\ MaxActive \in Nat \ {0}
  /\ MaxQueued \in Nat
  /\ MaxJobs \in Nat
  /\ Closing \notin Calls
  /\ None \notin Generations
  /\ None \notin {"cancelled", "changed", "closed", "timeout"}

Jobs == 1 .. MaxJobs

\* Codes of UploadManagerError: upload-cancelled, device-session-changed,
\* closed, queue-timeout.
Codes == {"cancelled", "changed", "closed", "timeout"}

VARIABLES
  accepted,      \* #totals.accepted; jobs are numbered from 1 as in #nextId
  job,           \* job[i]: what the manager keeps of job i
  queue,         \* #queue
  cancelledGens, \* #cancelledGenerations
  ended,         \* generations whose session signal is aborted
  closed,        \* #closed
  call,          \* the progress of each cancelGeneration and of close
  totals         \* #totals, but for accepted, started and rejected

vars == <<accepted, job, queue, cancelledGens, ended, closed, call, totals>>

Idle(gen, state) ==
  [gen |-> gen, state |-> state, cancellation |-> None, op |-> "none", timer |-> FALSE]
NoJob == Idle(None, "none")
\* A finished job is out of #queue and #active, its timer and its listeners
\* are gone: nothing of it is read again.
Finished == Idle(None, "finished")

Init ==
  /\ accepted = 0
  /\ job = [i \in Jobs |-> NoJob]
  /\ queue = <<>>
  /\ cancelledGens = {} /\ ended = {}
  /\ closed = FALSE
  /\ call = [k \in Calls \cup {Closing} |->
               [status |-> "idle", gen |-> None, awaits |-> {}]]
  /\ totals = [completed |-> 0, failed |-> 0, cancelled |-> 0, timedOut |-> 0]

-----------------------------------------------------------------------------
Active(J) == {i \in Jobs : J[i].state = "active"}
\* The jobs of a generation that are not finished.
OfGeneration(gen) == {i \in Jobs : job[i].gen = gen}

\* #start: the operation itself is called a microtask later.
Started(J, i) ==
  [J EXCEPT ![i].state = "active", ![i].op = "starting", ![i].timer = FALSE]

\* #drain. Its loop starts at most one job: the queue is used only while every
\* slot is taken, and what calls it has freed at most one (QueueIsServed).
BugDrain(J, Q, stopped) ==
  IF ~stopped /\ Q # <<>> /\ Cardinality(Active(J)) < MaxActive
  THEN job' = Started(J, Q[Len(Q)]) /\ queue' = SubSeq(Q, 1, Len(Q) - 1)
  ELSE job' = J /\ queue' = Q
Drain(J, Q, stopped) ==
  IF ~stopped /\ Q # <<>> /\ Cardinality(Active(J)) < MaxActive
  THEN job' = Started(J, Head(Q)) /\ queue' = Tail(Q)
  ELSE job' = J /\ queue' = Q

BugCounted(t, verdict) ==
  CASE verdict = "ok"                       -> [t EXCEPT !.completed = @ + 1]
    [] verdict = "failed"                   -> [t EXCEPT !.failed = @ + 1]
    [] verdict = "timeout"                  -> [t EXCEPT !.timedOut = @ + 1]
    [] verdict \in Codes \ {"timeout"}      -> [t EXCEPT !.cancelled = @ + 1]
    [] OTHER                                -> t
Counted(t, verdict) ==
  CASE verdict = "ok"                       -> [t EXCEPT !.completed = @ + 1]
    [] verdict \in {"failed", "cleanup"}    -> [t EXCEPT !.failed = @ + 1]
    [] verdict = "timeout"                  -> [t EXCEPT !.timedOut = @ + 1]
    [] OTHER                                -> [t EXCEPT !.cancelled = @ + 1]

-----------------------------------------------------------------------------
(* #cancel of every job in a set: a queued one is finished at once, an      *)
(* active one keeps its slot until its operation settles.                   *)

Cancellable(S) ==
  {i \in S : job[i].state \in {"queued", "active"} /\ job[i].cancellation = None}

Marked(j, code) ==
  [gen |-> j.gen, state |-> j.state, cancellation |-> code, op |-> j.op,
   timer |-> j.timer]

BugCancelled(S, code) ==
  [i \in Jobs |->
     IF i \notin Cancellable(S) THEN job[i]
     ELSE [job[i] EXCEPT !.cancellation = code, !.state = "finished", !.timer = FALSE]]
Cancelled(S, code) ==
  [i \in Jobs |->
     IF i \notin Cancellable(S) THEN job[i]
     ELSE IF job[i].state = "active" THEN Marked(job[i], code)
     ELSE Finished]

\* The jobs of the queue that are not in left, each at its place.
Without(Q, left) ==
  LET kept[n \in 0 .. Len(Q)] ==
        IF n = 0 THEN <<>>
        ELSE IF Q[n] \in left THEN kept[n - 1] ELSE Append(kept[n - 1], Q[n])
  IN  kept[Len(Q)]

Cancel(S, code, stopped) ==
  LET left == {i \in Cancellable(S) : job[i].state = "queued"}
  IN  /\ Drain(Cancelled(S, code), Without(queue, left), stopped)
      /\ totals' = IF code = "timeout"
                   THEN [totals EXCEPT !.timedOut = @ + Cardinality(left)]
                   ELSE [totals EXCEPT !.cancelled = @ + Cardinality(left)]

-----------------------------------------------------------------------------
(* run. One that is refused only counts as rejected.                       *)

Run(gen) ==
  /\ ~closed /\ gen \notin cancelledGens /\ gen \notin ended
  /\ accepted < MaxJobs
  /\ Cardinality(Active(job)) < MaxActive \/ Len(queue) < MaxQueued
  /\ LET i == accepted + 1
         J == [job EXCEPT ![i] = Idle(gen, "queued")]
     IN  IF Cardinality(Active(job)) < MaxActive
         THEN job' = Started(J, i) /\ UNCHANGED queue
         ELSE job' = [J EXCEPT ![i].timer = TRUE] /\ queue' = Append(queue, i)
  /\ accepted' = accepted + 1
  /\ UNCHANGED <<cancelledGens, ended, closed, call, totals>>

\* The first microtask of a started job: a job cancelled since never runs.
BugBegin(i) ==
  /\ job[i].op = "starting"
  /\ job' = [job EXCEPT ![i].op = "running"]
  /\ UNCHANGED <<accepted, queue, cancelledGens, ended, closed, call, totals>>
Begin(i) ==
  /\ job[i].op = "starting"
  /\ job' = [job EXCEPT ![i].op = IF job[i].cancellation = None
                                  THEN "running" ELSE "failed"]
  /\ UNCHANGED <<accepted, queue, cancelledGens, ended, closed, call, totals>>

\* The operation's promise settles, the staged files and processes cleaned up
\* or not.
Settle(i, result) ==
  /\ job[i].op = "running"
  /\ job' = [job EXCEPT ![i].op = result]
  /\ UNCHANGED <<accepted, queue, cancelledGens, ended, closed, call, totals>>

\* #finishActive decides what the request is told.
Verdict(i) ==
  IF job[i].op = "cleanup" THEN "cleanup"
  ELSE IF job[i].cancellation # None THEN job[i].cancellation
  ELSE job[i].op

BugFinishActive(i) ==
  /\ job[i].state = "active" /\ job[i].op \in {"ok", "failed", "cleanup"}
  /\ job[i].cancellation = None
  /\ Drain([job EXCEPT ![i] = Finished], queue, closed)
  /\ totals' = Counted(totals, Verdict(i))
  /\ UNCHANGED <<accepted, cancelledGens, ended, closed, call>>
FinishActive(i) ==
  /\ job[i].state = "active" /\ job[i].op \in {"ok", "failed", "cleanup"}
  /\ Drain([job EXCEPT ![i] = Finished], queue, closed)
  /\ totals' = Counted(totals, Verdict(i))
  /\ UNCHANGED <<accepted, cancelledGens, ended, closed, call>>

-----------------------------------------------------------------------------
(* What cancels.                                                           *)

\* The queue timer of job i.
TimerFires(i) ==
  /\ job[i].timer
  /\ Cancel({i}, "timeout", closed)
  /\ UNCHANGED <<accepted, cancelledGens, ended, closed, call>>

\* The client of job i goes away.
RequestAborts(i) ==
  /\ job[i].state \in {"queued", "active"} /\ job[i].cancellation = None
  /\ Cancel({i}, "cancelled", closed)
  /\ UNCHANGED <<accepted, cancelledGens, ended, closed, call>>

\* The generation's context is disposed: its signal aborts all its jobs.
SessionEnds(gen) ==
  /\ gen \notin ended
  /\ ended' = ended \cup {gen}
  /\ Cancel(OfGeneration(gen), "changed", closed)
  /\ UNCHANGED <<accepted, cancelledGens, closed, call>>

\* cancelGeneration awaits the operations in progress of its generation, those
\* that were cancelled before included.
BugCancelGeneration(k, gen) ==
  /\ call[k].status = "idle"
  /\ cancelledGens' = cancelledGens \cup {gen}
  /\ Cancel(OfGeneration(gen), "changed", closed)
  /\ call' = [call EXCEPT ![k] =
                [status |-> "waiting", gen |-> gen,
                 awaits |-> OfGeneration(gen) \cap Active(job) \cap Cancellable(Jobs)]]
  /\ UNCHANGED <<accepted, ended, closed>>
CancelGeneration(k, gen) ==
  /\ call[k].status = "idle"
  /\ cancelledGens' = cancelledGens \cup {gen}
  /\ Cancel(OfGeneration(gen), "changed", closed)
  /\ call' = [call EXCEPT ![k] = [status |-> "waiting", gen |-> gen,
                                  awaits |-> OfGeneration(gen) \cap Active(job)]]
  /\ UNCHANGED <<accepted, ended, closed>>

BugClose ==
  /\ ~closed
  /\ closed' = TRUE
  /\ Cancel(Jobs, "closed", FALSE)
  /\ call' = [call EXCEPT ![Closing].status = "waiting"]
  /\ UNCHANGED <<accepted, cancelledGens, ended>>
Close ==
  /\ ~closed
  /\ closed' = TRUE
  /\ Cancel(Jobs, "closed", TRUE)
  /\ call' = [call EXCEPT ![Closing].status = "waiting",
                          ![Closing].awaits = Active(job)]
  /\ UNCHANGED <<accepted, cancelledGens, ended>>

\* Promise.allSettled of the awaited cleanups.
CallResolves(k) ==
  /\ call[k].status = "waiting"
  /\ \A i \in call[k].awaits : job[i].state = "finished"
  /\ call' = [call EXCEPT ![k].status = "resolved"]
  /\ UNCHANGED <<accepted, job, queue, cancelledGens, ended, closed, totals>>

-----------------------------------------------------------------------------
Results == {"ok", "failed", "cleanup"}

Next ==
  \/ \E gen \in Generations : Run(gen) \/ SessionEnds(gen)
  \/ \E i \in Jobs : \/ Begin(i) \/ FinishActive(i)
                     \/ \E result \in Results : Settle(i, result)
                     \/ TimerFires(i) \/ RequestAborts(i)
  \/ \E k \in Calls, gen \in Generations : CancelGeneration(k, gen)
  \/ \E k \in Calls \cup {Closing} : CallResolves(k)
  \/ Close

Spec == Init /\ [][Next]_vars

\* Microtasks run, the queue timer fires, and an operation whose signal was
\* aborted settles (the contract of the class comment). Nothing is assumed of
\* an operation that was not cancelled.
Fairness ==
  /\ \A i \in Jobs :
       /\ WF_vars(Begin(i)) /\ WF_vars(FinishActive(i)) /\ WF_vars(TimerFires(i))
       /\ WF_vars(job[i].cancellation # None /\ \E result \in Results : Settle(i, result))
  /\ \A k \in Calls \cup {Closing} : WF_vars(CallResolves(k))

FairSpec == Spec /\ Fairness

-----------------------------------------------------------------------------
(* Properties.                                                             *)

JobRecord ==
  [gen : Generations \cup {None},
   state : {"none", "queued", "active", "finished"},
   cancellation : Codes \cup {None},
   op : {"none", "starting", "running", "ok", "failed", "cleanup"},
   timer : BOOLEAN]

\* Every variable holds a value the program can produce, and no more jobs are
\* queued than maxQueued.
TypeOK ==
  /\ accepted \in 0 .. MaxJobs
  /\ job \in [Jobs -> JobRecord]
  /\ queue \in Seq(Jobs) /\ Len(queue) <= MaxQueued
  /\ cancelledGens \in SUBSET Generations
  /\ ended \in SUBSET Generations
  /\ closed \in BOOLEAN
  /\ call \in [Calls \cup {Closing} ->
                 [status : {"idle", "waiting", "resolved"},
                  gen : Generations \cup {None}, awaits : SUBSET Jobs]]
  /\ totals \in [completed : Nat, failed : Nat, cancelled : Nat, timedOut : Nat]

\* Never more than maxActive operations are in progress, those included that
\* were cancelled and have not settled: the slot is held until they do.
WorkIsBounded ==
  Cardinality({i \in Jobs : job[i].op \in {"starting", "running"}}) <= MaxActive

\* An upload waits only while every slot is taken, and none waits once the
\* manager is closed: no slot is lost by a cancellation, a timeout or a failure,
\* and none goes to an upload that was accepted later.
QueueIsServed ==
  /\ queue # <<>> => ~closed /\ Cardinality(Active(job)) = MaxActive
  /\ \A i, j \in Jobs : i < j /\ job[i].state = "queued" => job[j].state # "active"

\* The totals account for every accepted job exactly once.
TotalsBalance ==
  accepted = totals.completed + totals.failed + totals.cancelled + totals.timedOut
             + Len(queue) + Cardinality(Active(job))

\* When cancelGeneration resolves, no upload of its generation is in progress,
\* nor will one ever be: the device may be handed over. When close resolves,
\* every accepted upload has been answered.
ResolvedIsQuiet ==
  /\ \A k \in Calls : call[k].status = "resolved" => OfGeneration(call[k].gen) = {}
  /\ call[Closing].status = "resolved" =>
       \A i \in 1 .. accepted : job[i] = Finished

\* No operation is called for a job that was cancelled before.
CancelledNeverBegins ==
  [][\A i \in Jobs : job[i].cancellation # None /\ job[i].op # "running" =>
       job'[i].op # "running"]_vars

\* Nobody waits for ever: calls of cancelGeneration and close end, whatever the
\* operations they cancel were doing and however often those had been cancelled
\* before, and a slot or its timer ends the wait of a queued upload.
WaitsEnd ==
  /\ (\E k \in DOMAIN call : call[k].status = "waiting") ~>
       (\A k \in DOMAIN call : call[k].status # "waiting")
  /\ \A i \in Jobs : job[i].state = "queued" ~> job[i].state # "queued"

=============================================================================

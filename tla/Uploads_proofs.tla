----------------------------- MODULE Uploads_proofs -----------------------------
(***************************************************************************)
(* Proofs about Uploads: the bound on work in progress, what the calls     *)
(* promise once they have resolved, that a cancelled upload never begins,  *)
(* that the queue is served in turn and that the totals are those of the   *)
(* jobs, for any numbers of slots, uploads, generations and calls.         *)
(***************************************************************************)
EXTENDS Uploads, Sums_proofs, FiniteSetTheorems, SequenceTheorems, NaturalsInduction,
        WellFoundedInduction, TLAPS

-----------------------------------------------------------------------------
(* The inductive invariant. None of it speaks of the content of the queue:  *)
(* what a job is started from does not matter to these properties.          *)

\* What is true of the jobs J when n of them were accepted.
JobsOK(J, n) ==
  /\ J \in [Jobs -> JobRecord]
  /\ \A i \in Jobs :
       /\ J[i].op # "none" => J[i].state = "active"
       /\ J[i].state = "queued" => J[i].cancellation = None
       /\ J[i].state = "finished" => J[i] = Finished
       /\ J[i].state = "none" => J[i] = NoJob
       /\ i <= n => J[i].state # "none"
  /\ Cardinality(Active(J)) <= MaxActive

\* A call waits for every unfinished job of its generation, and no job of a
\* cancelled generation is accepted again.
CallsOK ==
  /\ cancelledGens \in SUBSET Generations
  /\ call \in [Calls \cup {Closing} ->
                 [status : {"idle", "waiting", "resolved"},
                  gen : Generations \cup {None}, awaits : SUBSET Jobs]]
  /\ \A k \in Calls :
       /\ call[k].status # "idle" => call[k].gen \in cancelledGens
       /\ call[k].status = "waiting" => OfGeneration(call[k].gen) \subseteq call[k].awaits
       /\ call[k].status = "resolved" => OfGeneration(call[k].gen) = {}

\* close waits for every unfinished job, and none is accepted or started again.
CloseOK ==
  /\ closed \in BOOLEAN
  /\ call[Closing].status # "idle" => closed
  /\ call[Closing].status = "waiting" =>
       \A i \in 1 .. accepted : job[i].state = "finished" \/ i \in call[Closing].awaits
  /\ call[Closing].status = "resolved" =>
       \A i \in 1 .. accepted : job[i].state = "finished"

IInv ==
  /\ accepted \in 0 .. MaxJobs
  /\ JobsOK(job, accepted)
  /\ CallsOK
  /\ CloseOK

-----------------------------------------------------------------------------
(* Sets of active jobs.                                                     *)

\* There are finitely many active jobs.
LEMMA ActiveFinite ==
  ASSUME NEW J
  PROVE  IsFiniteSet(Active(J)) /\ Cardinality(Active(J)) \in Nat
<1>1. MaxJobs \in Nat
  BY UploadAssumption
<1>2. IsFiniteSet(Jobs)
  BY <1>1, FS_Interval DEF Jobs
<1>3. Active(J) \in SUBSET Jobs
  BY DEF Active
<1>4. IsFiniteSet(Active(J))
  BY <1>2, <1>3, FS_Subset
<1> QED
  BY <1>4, FS_CardinalityType

\* No more jobs are active after a change that makes none active.
LEMMA ActiveShrinks ==
  ASSUME NEW J, NEW K, Active(K) \subseteq Active(J),
         Cardinality(Active(J)) <= MaxActive
  PROVE  Cardinality(Active(K)) <= MaxActive
<1>1. IsFiniteSet(Active(J)) /\ Cardinality(Active(J)) \in Nat
  BY ActiveFinite
<1>2. Cardinality(Active(K)) \in Nat
  BY ActiveFinite
<1>3. Cardinality(Active(K)) <= Cardinality(Active(J))
  BY <1>1, FS_Subset
<1>4. MaxActive \in Nat
  BY UploadAssumption
<1> QED
  BY <1>1, <1>2, <1>3, <1>4

\* One more job fits while a slot is free.
LEMMA ActiveGrows ==
  ASSUME NEW J, NEW K, NEW x, Active(K) \subseteq Active(J) \cup {x},
         Cardinality(Active(J)) < MaxActive
  PROVE  Cardinality(Active(K)) <= MaxActive
<1>1. IsFiniteSet(Active(J)) /\ Cardinality(Active(J)) \in Nat
  BY ActiveFinite
<1>2. Cardinality(Active(K)) \in Nat
  BY ActiveFinite
<1>3. IsFiniteSet(Active(J) \cup {x})
  BY <1>1, FS_AddElement
<1>4. Cardinality(Active(J) \cup {x}) =
        IF x \in Active(J) THEN Cardinality(Active(J)) ELSE Cardinality(Active(J)) + 1
  BY <1>1, FS_AddElement
<1>5. Cardinality(Active(K)) <= Cardinality(Active(J) \cup {x})
  BY <1>3, FS_Subset
<1>6. MaxActive \in Nat
  BY UploadAssumption
<1> QED
  BY <1>1, <1>2, <1>4, <1>5, <1>6

-----------------------------------------------------------------------------
(* What the helpers do to one job.                                          *)

\* The parts of one record of a job, as a step may change them: a job keeps its
\* generation or loses it, and is not made to run.
Tamer(old, new) ==
  /\ new.gen \in {old.gen, None}
  /\ new.op \in {old.op, "none", "starting"}

LEMMA StartedJob ==
  ASSUME NEW n \in 0 .. MaxJobs, NEW J, JobsOK(J, n), NEW x,
         Cardinality(Active(J)) < MaxActive
  PROVE  /\ JobsOK(Started(J, x), n)
         /\ \A i \in Jobs : Tamer(J[i], Started(J, x)[i])
<1> DEFINE K == Started(J, x)
<1>0. J \in [Jobs -> JobRecord]
  BY DEF JobsOK
<1>1. ASSUME NEW i \in Jobs
      PROVE  /\ K[i] \in JobRecord
             /\ K[i].gen = J[i].gen
             /\ K[i].cancellation = J[i].cancellation
             /\ i # x => K[i] = J[i]
             /\ i = x => K[i].state = "active" /\ K[i].op = "starting"
  <2>1. J[i] \in JobRecord
    BY <1>0
  <2>2. CASE i = x
    BY <1>0, <2>1, <2>2 DEF Started, JobRecord
  <2>3. CASE i # x
    <3>1. K[i] = J[i]
      BY <1>0, <2>3 DEF Started
    <3> QED
      BY <2>1, <2>3, <3>1
  <2> QED
    BY <2>2, <2>3
<1>2. K \in [Jobs -> JobRecord]
  <2>1. K = [i \in Jobs |-> K[i]]
    BY <1>0 DEF Started
  <2> QED
    BY <1>1, <2>1
<1>3. Active(K) \subseteq Active(J) \cup {x}
  BY <1>1 DEF Active
<1>4. Cardinality(Active(K)) <= MaxActive
  BY <1>3, ActiveGrows
<1> HIDE DEF K
<1>5. JobsOK(K, n)
  BY <1>1, <1>2, <1>4 DEF JobsOK
<1>6. \A i \in Jobs : Tamer(J[i], K[i])
  BY <1>1 DEF Tamer
<1> QED
  BY <1>5, <1>6 DEF K

LEMMA CancelledJob ==
  ASSUME NEW n \in 0 .. MaxJobs, JobsOK(job, n), NEW S, NEW code \in Codes
  PROVE  /\ JobsOK(Cancelled(S, code), n)
         /\ \A i \in Jobs : /\ Tamer(job[i], Cancelled(S, code)[i])
                            /\ job[i].state = "finished" =>
                                 Cancelled(S, code)[i].state = "finished"
                            /\ i \in S /\ job[i].state # "active" =>
                                 Cancelled(S, code)[i] \in {NoJob, Finished}
<1> DEFINE K == Cancelled(S, code)
<1>1. ASSUME NEW i \in Jobs
      PROVE  /\ K[i] \in JobRecord
             /\ K[i].op # "none" => K[i].state = "active"
             /\ K[i].state = "queued" => K[i].cancellation = None
             /\ K[i].state = "finished" => K[i] = Finished
             /\ K[i].state = "none" => K[i] = NoJob
             /\ i <= n => K[i].state # "none"
             /\ K[i].state = "active" => job[i].state = "active"
             /\ Tamer(job[i], K[i])
             /\ job[i].state = "finished" => K[i].state = "finished"
             /\ i \in S /\ job[i].state # "active" => K[i] \in {NoJob, Finished}
  <2>0. /\ job[i] \in JobRecord
        /\ job[i].op # "none" => job[i].state = "active"
        /\ job[i].state = "queued" => job[i].cancellation = None
        /\ job[i].state = "finished" => job[i] = Finished
        /\ job[i].state = "none" => job[i] = NoJob
        /\ i <= n => job[i].state # "none"
    BY DEF JobsOK
  <2>1. CASE i \notin Cancellable(S)
    <3>1. K[i] = job[i]
      BY <2>1 DEF Cancelled
    <3>2. i \in S /\ job[i].state # "active" => job[i].state \in {"none", "finished"}
      BY <2>0, <2>1 DEF Cancellable, JobRecord
    <3> QED
      BY <2>0, <3>1, <3>2 DEF Tamer
  <2>2. CASE i \in Cancellable(S) /\ job[i].state = "active"
    <3>1. K[i] = Marked(job[i], code)
      BY <2>2 DEF Cancelled
    <3> QED
      BY <2>0, <2>2, <3>1 DEF Marked, Tamer, JobRecord
  <2>3. CASE i \in Cancellable(S) /\ job[i].state # "active"
    <3>1. K[i] = Finished
      BY <2>3 DEF Cancelled
    <3>2. job[i].state = "queued"
      BY <2>3 DEF Cancellable
    <3> QED
      BY <2>0, <3>1, <3>2 DEF Finished, Idle, Tamer, JobRecord
  <2> QED
    BY <2>1, <2>2, <2>3
<1>2. K \in [Jobs -> JobRecord]
  <2>1. K = [i \in Jobs |-> K[i]]
    BY DEF Cancelled
  <2> QED
    BY <1>1, <2>1
<1>3. Active(K) \subseteq Active(job)
  BY <1>1 DEF Active
<1>4. Cardinality(Active(K)) <= MaxActive
  BY <1>3, ActiveShrinks DEF JobsOK
<1> HIDE DEF K
<1>5. JobsOK(K, n)
  BY <1>1, <1>2, <1>4 DEF JobsOK
<1> QED
  BY <1>1, <1>5 DEF K

LEMMA DrainJob ==
  ASSUME NEW n \in 0 .. MaxJobs, NEW J, JobsOK(J, n), NEW Q, NEW stopped \in BOOLEAN,
         Drain(J, Q, stopped)
  PROVE  /\ JobsOK(job', n)
         /\ \A i \in Jobs : Tamer(J[i], job'[i])
         /\ stopped => job' = J
<1>1. CASE ~stopped /\ Q # <<>> /\ Cardinality(Active(J)) < MaxActive
  <2>1. job' = Started(J, Head(Q))
    BY <1>1 DEF Drain
  <2>2. JobsOK(Started(J, Head(Q)), n) /\ \A i \in Jobs : Tamer(J[i], Started(J, Head(Q))[i])
    BY <1>1, StartedJob
  <2> QED
    BY <1>1, <2>1, <2>2
<1>2. CASE ~(~stopped /\ Q # <<>> /\ Cardinality(Active(J)) < MaxActive)
  <2>1. job' = J
    BY <1>2 DEF Drain
  <2> QED
    BY <2>1 DEF Tamer
<1> QED
  BY <1>1, <1>2

\* Cancellation of a set of jobs.
LEMMA CancelJob ==
  ASSUME NEW n \in 0 .. MaxJobs, JobsOK(job, n), NEW S, NEW code \in Codes,
         NEW stopped \in BOOLEAN, Cancel(S, code, stopped)
  PROVE  /\ JobsOK(job', n)
         /\ \A i \in Jobs :
              /\ Tamer(job[i], job'[i])
              /\ stopped /\ job[i].state = "finished" => job'[i].state = "finished"
              /\ i \in S /\ job[i].state # "active" => job'[i].gen = None
              /\ i \in S /\ job[i].state # "active" /\ stopped =>
                   job'[i] \in {NoJob, Finished}
<1> DEFINE K == Cancelled(S, code)
<1>1. /\ JobsOK(K, n)
      /\ \A i \in Jobs :
           /\ Tamer(job[i], K[i])
           /\ job[i].state = "finished" => K[i].state = "finished"
           /\ i \in S /\ job[i].state # "active" => K[i] \in {NoJob, Finished}
  BY CancelledJob
<1>2. \E R : Drain(K, R, stopped)
  BY DEF Cancel
<1> HIDE DEF K
<1>3. /\ JobsOK(job', n)
      /\ \A i \in Jobs : Tamer(K[i], job'[i])
      /\ stopped => job' = K
  BY <1>1, <1>2, DrainJob
<1>4. ASSUME NEW j \in Jobs
      PROVE  /\ Tamer(job[j], job'[j])
             /\ stopped /\ job[j].state = "finished" => job'[j].state = "finished"
             /\ j \in S /\ job[j].state # "active" => job'[j].gen = None
             /\ j \in S /\ job[j].state # "active" /\ stopped =>
                  job'[j] \in {NoJob, Finished}
  <2>1. Tamer(job[j], K[j]) /\ Tamer(K[j], job'[j])
    BY <1>1, <1>3
  <2>2. Tamer(job[j], job'[j])
    BY <2>1 DEF Tamer
  <2>3. stopped /\ job[j].state = "finished" => job'[j].state = "finished"
    BY <1>1, <1>3
  <2>4. j \in S /\ job[j].state # "active" => K[j].gen = None
    BY <1>1 DEF NoJob, Finished, Idle
  <2>5. j \in S /\ job[j].state # "active" => job'[j].gen = None
    BY <2>1, <2>4 DEF Tamer
  <2>6. j \in S /\ job[j].state # "active" /\ stopped => job'[j] \in {NoJob, Finished}
    BY <1>1, <1>3
  <2> QED
    BY <2>2, <2>3, <2>5, <2>6
<1> QED
  BY <1>3, <1>4

-----------------------------------------------------------------------------
(* Every action preserves the invariant.                                    *)

\* A step that calls no operation.
Restrained == \A i \in Jobs : job'[i].op \in {job[i].op, "none", "starting"}

\* A step that accepts no job and answers no call.
LEMMA QuietStep ==
  ASSUME IInv, UNCHANGED <<accepted, cancelledGens, closed, call>>,
         JobsOK(job', accepted),
         \A i \in Jobs : job'[i].gen \in {job[i].gen, None},
         closed => \A i \in Jobs :
           job[i].state = "finished" => job'[i].state = "finished"
  PROVE  IInv'
<1>1. CallsOK'
  <2>1. ASSUME NEW k \in Calls, call[k].status # "idle"
        PROVE  OfGeneration(call[k].gen)' \subseteq OfGeneration(call[k].gen)
    <3>1. call[k].gen \in Generations
      BY <2>1 DEF IInv, CallsOK
    <3>2. call[k].gen # None
      BY <3>1, UploadAssumption
    <3> QED
      BY <3>2 DEF OfGeneration
  <2> QED
    BY <2>1 DEF IInv, CallsOK
<1>2. CloseOK'
  <2>1. 1 .. accepted \subseteq Jobs
    BY UploadAssumption DEF IInv, Jobs
  <2> QED
    BY <2>1 DEF IInv, CloseOK
<1> QED
  BY <1>1, <1>2 DEF IInv

\* A step that only moves the operation of one active job.
LEMMA OperationMoves ==
  ASSUME IInv, NEW i \in Jobs, job[i].op # "none",
         NEW o \in {"running", "ok", "failed", "cleanup"},
         job' = [job EXCEPT ![i].op = o],
         UNCHANGED <<accepted, cancelledGens, closed, call>>
  PROVE  IInv'
<1>0. job \in [Jobs -> JobRecord]
  BY DEF IInv, JobsOK
<1>1. ASSUME NEW j \in Jobs
      PROVE  /\ job'[j] \in JobRecord
             /\ job'[j].gen = job[j].gen
             /\ job'[j].state = job[j].state
             /\ job'[j].cancellation = job[j].cancellation
             /\ j # i => job'[j] = job[j]
  <2>1. CASE j = i
    BY <1>0, <2>1 DEF JobRecord
  <2>2. CASE j # i
    BY <1>0, <2>2
  <2> QED
    BY <2>1, <2>2
<1>2. job' \in [Jobs -> JobRecord]
  BY <1>0, <1>1
<1>3. job[i].state = "active"
  BY DEF IInv, JobsOK
<1>4. Active(job') \subseteq Active(job)
  BY <1>1 DEF Active
<1>5. Cardinality(Active(job')) <= MaxActive
  BY <1>4, ActiveShrinks DEF IInv, JobsOK
<1>6. JobsOK(job', accepted)
  BY <1>1, <1>2, <1>3, <1>5 DEF IInv, JobsOK
<1> QED
  BY <1>1, <1>6, QuietStep

\* An operation ends and its slot goes to the next job.
LEMMA FinishStep ==
  ASSUME IInv, NEW i \in Jobs, FinishActive(i)
  PROVE  IInv' /\ Restrained
<1> DEFINE K == [job EXCEPT ![i] = Finished]
<1>0. job \in [Jobs -> JobRecord]
  BY DEF IInv, JobsOK
<1>1. \A j \in Jobs : K[j] = IF j = i THEN Finished ELSE job[j]
  BY <1>0
<1>2. K \in [Jobs -> JobRecord]
  BY <1>0 DEF JobRecord, Finished, Idle
<1>3. Drain(K, queue, closed)
  BY DEF FinishActive
<1> HIDE DEF K
<1>4. Active(K) \subseteq Active(job)
  BY <1>1 DEF Active, Finished, Idle
<1>5. Cardinality(Active(K)) <= MaxActive
  BY <1>4, ActiveShrinks DEF IInv, JobsOK
<1>6. JobsOK(K, accepted)
  BY <1>1, <1>2, <1>5 DEF IInv, JobsOK, Finished, Idle
<1>7. closed \in BOOLEAN /\ accepted \in 0 .. MaxJobs
  BY DEF IInv, CloseOK
<1>8. /\ JobsOK(job', accepted)
      /\ \A j \in Jobs : Tamer(K[j], job'[j])
      /\ closed => job' = K
  BY <1>3, <1>6, <1>7, DrainJob
<1>9. \A j \in Jobs : Tamer(job[j], job'[j])
  BY <1>1, <1>8 DEF Tamer, Finished, Idle
<1>10. closed => \A j \in Jobs : job[j].state = "finished" => job'[j].state = "finished"
  BY <1>1, <1>8 DEF Finished, Idle
<1>11. UNCHANGED <<accepted, cancelledGens, closed, call>>
  BY DEF FinishActive
<1>12. \A j \in Jobs : job'[j].gen \in {job[j].gen, None}
  BY <1>9 DEF Tamer
<1>13. IInv'
  BY <1>8, <1>10, <1>11, <1>12, QuietStep
<1> QED
  BY <1>9, <1>13 DEF Restrained, Tamer

\* The timer of a job, its request or its session cancels.
LEMMA CancelStep ==
  ASSUME IInv, NEW S, NEW code \in Codes, Cancel(S, code, closed),
         UNCHANGED <<accepted, cancelledGens, closed, call>>
  PROVE  IInv' /\ Restrained
<1>1. closed \in BOOLEAN /\ accepted \in 0 .. MaxJobs /\ JobsOK(job, accepted)
  BY DEF IInv, CloseOK
<1>2. /\ JobsOK(job', accepted)
      /\ \A i \in Jobs :
           /\ Tamer(job[i], job'[i])
           /\ closed /\ job[i].state = "finished" => job'[i].state = "finished"
  BY <1>1, CancelJob
<1>3. \A i \in Jobs : job'[i].gen \in {job[i].gen, None}
  BY <1>2 DEF Tamer
<1>4. IInv'
  BY <1>2, <1>3, QuietStep
<1> QED
  BY <1>2, <1>4 DEF Restrained, Tamer

\* An accepted job is started or waits in the queue.
LEMMA RunStep ==
  ASSUME IInv, NEW gen \in Generations, Run(gen)
  PROVE  IInv' /\ Restrained
<1> DEFINE n == accepted + 1
           J == [job EXCEPT ![n] = Idle(gen, "queued")]
           W == [J EXCEPT ![n].timer = TRUE]
<1>0. /\ job \in [Jobs -> JobRecord]
      /\ accepted \in 0 .. MaxJobs /\ accepted < MaxJobs /\ MaxJobs \in Nat
  BY UploadAssumption DEF IInv, JobsOK, Run
<1>1. n \in Jobs /\ n \in 0 .. MaxJobs
  BY <1>0 DEF Jobs
<1>2. \A i \in Jobs : J[i] = IF i = n THEN Idle(gen, "queued") ELSE job[i]
  BY <1>0
<1>3. J \in [Jobs -> JobRecord]
  BY <1>0 DEF JobRecord, Idle
<1>4. ASSUME NEW i \in Jobs
      PROVE  /\ W[i] \in JobRecord
             /\ W[i].gen = J[i].gen /\ W[i].state = J[i].state
             /\ W[i].cancellation = J[i].cancellation /\ W[i].op = J[i].op
             /\ i # n => W[i] = J[i]
  <2>1. CASE i = n
    BY <1>3, <2>1, ZenonT(60) DEF JobRecord
  <2>2. CASE i # n
    BY <1>3, <2>2
  <2> QED
    BY <2>1, <2>2
<1>5. W \in [Jobs -> JobRecord]
  <2>1. W = [i \in Jobs |-> W[i]]
    BY <1>3
  <2> QED
    BY <1>4, <2>1
<1>6. \/ Cardinality(Active(job)) < MaxActive /\ job' = Started(J, n)
      \/ job' = W
  BY DEF Run
<1>7. accepted' = n /\ UNCHANGED <<cancelledGens, closed, call>>
  BY DEF Run
<1>8. ~closed /\ gen \notin cancelledGens
  BY DEF Run
<1> HIDE DEF J, W
<1>9. Active(J) \subseteq Active(job) /\ Active(W) \subseteq Active(job)
  BY <1>2, <1>4 DEF Active, Idle
<1>10. Cardinality(Active(J)) <= MaxActive /\ Cardinality(Active(W)) <= MaxActive
  BY <1>9, ActiveShrinks DEF IInv, JobsOK
<1>11. \A i \in Jobs : i <= n => i = n \/ i <= accepted
  BY <1>0 DEF Jobs
<1>12. JobsOK(J, n)
  <2>1. \A i \in Jobs :
          /\ J[i].op # "none" => J[i].state = "active"
          /\ J[i].state = "queued" => J[i].cancellation = None
          /\ J[i].state = "finished" => J[i] = Finished
          /\ J[i].state = "none" => J[i] = NoJob
    BY <1>2 DEF Idle, IInv, JobsOK
  <2>2. \A i \in Jobs : i <= n => J[i].state # "none"
    BY <1>2, <1>11 DEF Idle, IInv, JobsOK
  <2> QED
    BY <1>3, <1>10, <2>1, <2>2 DEF JobsOK
<1>13. JobsOK(job', n) /\ \A i \in Jobs : Tamer(J[i], job'[i])
  <2>1. CASE Cardinality(Active(job)) < MaxActive /\ job' = Started(J, n)
    <3>1. Cardinality(Active(J)) <= Cardinality(Active(job))
      BY <1>9, ActiveFinite, FS_Subset
    <3>2. Cardinality(Active(J)) < MaxActive
      BY <2>1, <3>1, ActiveFinite, UploadAssumption
    <3>3. JobsOK(Started(J, n), n) /\ \A i \in Jobs : Tamer(J[i], Started(J, n)[i])
      BY <1>1, <1>12, <3>2, StartedJob
    <3> QED
      BY <2>1, <3>3
  <2>2. CASE job' = W
    <3>1. \A i \in Jobs : Tamer(J[i], W[i])
      BY <1>4 DEF Tamer
    <3>2. \A i \in Jobs : J[i].state \in {"finished", "none"} => W[i] = J[i]
      BY <1>2, <1>4 DEF Idle
    <3>3. JobsOK(W, n)
      BY <1>4, <1>5, <1>10, <1>12, <3>2 DEF JobsOK
    <3> QED
      BY <2>2, <3>1, <3>3
  <2> QED
    BY <1>6, <2>1, <2>2
<1>14. \A i \in Jobs : job'[i].gen \in {job[i].gen, gen, None}
  BY <1>2, <1>13 DEF Tamer, Idle
<1>15. CallsOK'
  <2>1. ASSUME NEW k \in Calls, call[k].status # "idle"
        PROVE  OfGeneration(call[k].gen)' \subseteq OfGeneration(call[k].gen)
    <3>1. call[k].gen \in Generations /\ call[k].gen \in cancelledGens
      BY <2>1 DEF IInv, CallsOK
    <3>2. call[k].gen # None /\ call[k].gen # gen
      BY <1>8, <3>1, UploadAssumption
    <3> QED
      BY <1>7, <1>14, <3>2 DEF OfGeneration
  <2> QED
    BY <1>7, <2>1 DEF IInv, CallsOK
<1>16. CloseOK'
  BY <1>7, <1>8 DEF IInv, CloseOK
<1>17. IInv'
  BY <1>1, <1>7, <1>13, <1>15, <1>16 DEF IInv
<1>18. Restrained
  <2>1. ASSUME NEW i \in Jobs
        PROVE  job'[i].op \in {job[i].op, "none", "starting"}
    BY <1>2, <1>13 DEF Tamer, Idle
  <2> QED
    BY <2>1 DEF Restrained
<1> QED
  BY <1>17, <1>18

\* cancelGeneration refuses the generation from now on and waits for its work.
LEMMA CancelGenerationStep ==
  ASSUME IInv, NEW k \in Calls, NEW gen \in Generations, CancelGeneration(k, gen)
  PROVE  IInv' /\ Restrained
<1>1. closed \in BOOLEAN /\ accepted \in 0 .. MaxJobs /\ JobsOK(job, accepted)
  BY DEF IInv, CloseOK
<1>2. /\ Cancel(OfGeneration(gen), "changed", closed)
      /\ cancelledGens' = cancelledGens \cup {gen}
      /\ call' = [call EXCEPT ![k] = [status |-> "waiting", gen |-> gen,
                                      awaits |-> OfGeneration(gen) \cap Active(job)]]
      /\ UNCHANGED <<accepted, closed>>
  BY DEF CancelGeneration
<1>3. "changed" \in Codes
  BY DEF Codes
<1>4. /\ JobsOK(job', accepted)
      /\ \A i \in Jobs :
           /\ Tamer(job[i], job'[i])
           /\ closed /\ job[i].state = "finished" => job'[i].state = "finished"
           /\ i \in OfGeneration(gen) /\ job[i].state # "active" => job'[i].gen = None
  BY <1>1, <1>2, <1>3, CancelJob
<1>5. \A i \in Jobs : job'[i].gen \in {job[i].gen, None}
  BY <1>4 DEF Tamer
<1>6. Restrained
  BY <1>4 DEF Restrained, Tamer
<1>7. CallsOK'
  <2>1. \A g \in Generations : \A i \in Jobs : job'[i].gen = g => job[i].gen = g
    BY <1>5, UploadAssumption
  <2>2. \A i \in Jobs : job'[i].gen = gen => i \in OfGeneration(gen) \cap Active(job)
    BY <1>4, <2>1, UploadAssumption DEF OfGeneration, Active
  <2>3. \A c \in Calls : call[c].status # "idle" => call[c].gen \in Generations
    BY DEF IInv, CallsOK
  <2>4. call' \in [Calls \cup {Closing} ->
                     [status : {"idle", "waiting", "resolved"},
                      gen : Generations \cup {None}, awaits : SUBSET Jobs]]
    BY <1>2 DEF IInv, CallsOK, OfGeneration
  <2>5. \A c \in Calls : c # k => call'[c] = call[c]
    BY <1>2 DEF IInv, CallsOK
  <2>6. call'[k] = [status |-> "waiting", gen |-> gen,
                    awaits |-> OfGeneration(gen) \cap Active(job)]
    BY <1>2 DEF IInv, CallsOK
  <2>7. cancelledGens' \in SUBSET Generations
    BY <1>2 DEF IInv, CallsOK
  <2>8. ASSUME NEW c \in Calls
        PROVE  /\ call'[c].status # "idle" => call'[c].gen \in cancelledGens'
               /\ call'[c].status = "waiting" =>
                    \A i \in Jobs : job'[i].gen = call'[c].gen => i \in call'[c].awaits
               /\ call'[c].status = "resolved" =>
                    \A i \in Jobs : job'[i].gen # call'[c].gen
    <3>1. CASE c = k
      BY <1>2, <2>2, <2>6, <3>1
    <3>2. CASE c # k
      <4>1. call'[c] = call[c]
        BY <2>5, <3>2
      <4>2. call[c].status # "idle" =>
              \A i \in Jobs : job'[i].gen = call[c].gen => job[i].gen = call[c].gen
        BY <2>1, <2>3
      <4>3. /\ call[c].status # "idle" => call[c].gen \in cancelledGens
            /\ call[c].status = "waiting" =>
                 \A i \in Jobs : job[i].gen = call[c].gen => i \in call[c].awaits
            /\ call[c].status = "resolved" => \A i \in Jobs : job[i].gen # call[c].gen
        BY DEF IInv, CallsOK, OfGeneration
      <4> QED
        BY <1>2, <4>1, <4>2, <4>3
    <3> QED
      BY <3>1, <3>2
  <2> QED
    BY <2>4, <2>7, <2>8 DEF CallsOK, OfGeneration
<1>8. CloseOK'
  <2>1. 1 .. accepted \subseteq Jobs
    BY UploadAssumption DEF IInv, Jobs
  <2>2. call'[Closing] = call[Closing]
    BY <1>2, UploadAssumption DEF IInv, CallsOK
  <2> QED
    BY <1>2, <1>4, <2>1, <2>2 DEF IInv, CloseOK
<1>9. IInv'
  BY <1>1, <1>2, <1>4, <1>7, <1>8 DEF IInv
<1> QED
  BY <1>6, <1>9

\* close refuses every job from now on and waits for those in progress.
LEMMA CloseStep ==
  ASSUME IInv, Close
  PROVE  IInv' /\ Restrained
<1>1. accepted \in 0 .. MaxJobs /\ JobsOK(job, accepted)
  BY DEF IInv
<1>2. /\ Cancel(Jobs, "closed", TRUE)
      /\ closed' = TRUE
      /\ call' = [call EXCEPT ![Closing].status = "waiting",
                              ![Closing].awaits = Active(job)]
      /\ UNCHANGED <<accepted, cancelledGens>>
  BY DEF Close
<1>3. "closed" \in Codes /\ TRUE \in BOOLEAN
  BY DEF Codes
<1>4. /\ JobsOK(job', accepted)
      /\ \A i \in Jobs :
           /\ Tamer(job[i], job'[i])
           /\ job[i].state # "active" => job'[i] \in {NoJob, Finished}
  BY <1>1, <1>2, <1>3, CancelJob
<1>5. \A i \in Jobs : job'[i].gen \in {job[i].gen, None}
  BY <1>4 DEF Tamer
<1>6. Restrained
  BY <1>4 DEF Restrained, Tamer
<1>7. \A k \in Calls : call'[k] = call[k]
  BY <1>2, UploadAssumption DEF IInv, CallsOK
<1>8. call' \in [Calls \cup {Closing} ->
                   [status : {"idle", "waiting", "resolved"},
                    gen : Generations \cup {None}, awaits : SUBSET Jobs]]
  <2>1. call \in [Calls \cup {Closing} ->
                   [status : {"idle", "waiting", "resolved"},
                    gen : Generations \cup {None}, awaits : SUBSET Jobs]]
    BY DEF IInv, CallsOK
  <2>2. Active(job) \in SUBSET Jobs
    BY DEF Active
  <2> QED
    BY <1>2, <2>1, <2>2, ZenonT(60)
<1>9. call'[Closing].status = "waiting" /\ call'[Closing].awaits = Active(job)
  BY <1>2 DEF IInv, CallsOK
<1>10. CallsOK'
  <2>1. ASSUME NEW k \in Calls, call[k].status # "idle"
        PROVE  \A i \in Jobs : job'[i].gen = call[k].gen => job[i].gen = call[k].gen
    <3>1. call[k].gen \in Generations
      BY <2>1 DEF IInv, CallsOK
    <3>2. call[k].gen # None
      BY <3>1, UploadAssumption
    <3> QED
      BY <1>5, <3>2
  <2>2. ASSUME NEW k \in Calls
        PROVE  /\ call[k].status # "idle" => call[k].gen \in cancelledGens
               /\ call[k].status = "waiting" =>
                    \A i \in Jobs : job[i].gen = call[k].gen => i \in call[k].awaits
               /\ call[k].status = "resolved" => \A i \in Jobs : job[i].gen # call[k].gen
    BY DEF IInv, CallsOK, OfGeneration
  <2>3. ASSUME NEW k \in Calls
        PROVE  /\ call'[k].status # "idle" => call'[k].gen \in cancelledGens'
               /\ call'[k].status = "waiting" =>
                    \A i \in Jobs : job'[i].gen = call'[k].gen => i \in call'[k].awaits
               /\ call'[k].status = "resolved" => \A i \in Jobs : job'[i].gen # call'[k].gen
    <3>1. call'[k] = call[k] /\ cancelledGens' = cancelledGens
      BY <1>2, <1>7
    <3> QED
      BY <2>1, <2>2, <3>1
  <2>4. cancelledGens' \in SUBSET Generations
    BY <1>2 DEF IInv, CallsOK
  <2> QED
    BY <1>8, <2>3, <2>4 DEF CallsOK, OfGeneration
<1>11. CloseOK'
  <2>1. 1 .. accepted \subseteq Jobs /\ \A i \in 1 .. accepted : i <= accepted
    BY <1>1, UploadAssumption DEF Jobs
  <2>2. \A i \in 1 .. accepted : job'[i].state # "none"
    BY <1>4, <2>1 DEF JobsOK
  <2>3. \A i \in 1 .. accepted : job'[i].state = "finished" \/ i \in Active(job)
    BY <1>4, <2>1, <2>2 DEF NoJob, Finished, Idle, Active
  <2> QED
    BY <1>2, <1>9, <2>3 DEF CloseOK
<1>12. IInv'
  BY <1>1, <1>2, <1>4, <1>10, <1>11 DEF IInv
<1> QED
  BY <1>6, <1>12

\* A call resolves when the work it waits for has finished.
LEMMA ResolveStep ==
  ASSUME IInv, NEW k \in Calls \cup {Closing}, CallResolves(k)
  PROVE  IInv'
<1>1. /\ call[k].status = "waiting"
      /\ \A i \in call[k].awaits : job[i].state = "finished"
      /\ call' = [call EXCEPT ![k].status = "resolved"]
      /\ UNCHANGED <<accepted, job, cancelledGens, closed>>
  BY DEF CallResolves
<1>2. call \in [Calls \cup {Closing} ->
                  [status : {"idle", "waiting", "resolved"},
                   gen : Generations \cup {None}, awaits : SUBSET Jobs]]
  BY DEF IInv, CallsOK
<1>3. ASSUME NEW c \in Calls \cup {Closing}
      PROVE  /\ call'[c].gen = call[c].gen
             /\ call'[c].awaits = call[c].awaits
             /\ c = k => call'[c].status = "resolved"
             /\ c # k => call'[c].status = call[c].status
  BY <1>1, <1>2
<1>4. call' \in [Calls \cup {Closing} ->
                   [status : {"idle", "waiting", "resolved"},
                    gen : Generations \cup {None}, awaits : SUBSET Jobs]]
  BY <1>1, <1>2
<1>5. CallsOK'
  <2>1. \A g : OfGeneration(g)' = OfGeneration(g)
    BY <1>1 DEF OfGeneration
  <2>2. ASSUME k \in Calls
        PROVE  OfGeneration(call[k].gen) = {}
    <3>1. OfGeneration(call[k].gen) \subseteq call[k].awaits /\ call[k].gen \in Generations
      BY <1>1, <2>2 DEF IInv, CallsOK
    <3>2. \A i \in OfGeneration(call[k].gen) : job[i] = Finished
      BY <1>1, <3>1 DEF OfGeneration, IInv, JobsOK
    <3> QED
      BY <3>1, <3>2, UploadAssumption DEF OfGeneration, Finished, Idle
  <2>3. ASSUME NEW c \in Calls
        PROVE  /\ call'[c].status # "idle" => call'[c].gen \in cancelledGens
               /\ call'[c].status = "waiting" =>
                    OfGeneration(call'[c].gen) \subseteq call'[c].awaits
               /\ call'[c].status = "resolved" => OfGeneration(call'[c].gen) = {}
    <3>1. CASE c = k
      BY <1>1, <1>3, <2>2, <3>1 DEF IInv, CallsOK
    <3>2. CASE c # k
      BY <1>3, <3>2 DEF IInv, CallsOK
    <3> QED
      BY <3>1, <3>2
  <2>4. cancelledGens \in SUBSET Generations
    BY DEF IInv, CallsOK
  <2> QED
    BY <1>1, <1>4, <2>1, <2>3, <2>4 DEF CallsOK
<1>6. CloseOK'
  <2>1. CASE k = Closing
    BY <1>1, <1>3, <2>1 DEF IInv, CloseOK
  <2>2. CASE k # Closing
    BY <1>1, <1>3, <2>2 DEF IInv, CloseOK
  <2> QED
    BY <2>1, <2>2
<1> QED
  BY <1>1, <1>5, <1>6 DEF IInv

-----------------------------------------------------------------------------
(* The theorems.                                                            *)

\* No step breaks the invariant or calls the operation of a cancelled job.
LEMMA NextStep ==
  ASSUME IInv, [Next]_vars
  PROVE  IInv' /\ \A i \in Jobs : job[i].cancellation # None /\ job[i].op # "running" =>
                                    job'[i].op # "running"
<1>0. job \in [Jobs -> JobRecord]
  BY DEF IInv, JobsOK
<1> DEFINE Quiet == \A i \in Jobs :
             job[i].cancellation # None /\ job[i].op # "running" => job'[i].op # "running"
<1>1. ASSUME Restrained PROVE Quiet
  BY <1>1 DEF Restrained
<1>2. ASSUME NEW i \in Jobs, NEW o, job' = [job EXCEPT ![i].op = o],
             o # "running" \/ job[i].cancellation = None
      PROVE  Quiet
  <2>1. ASSUME NEW j \in Jobs PROVE job'[j].op = IF j = i THEN o ELSE job[j].op
    BY <1>0, <1>2
  <2> QED
    BY <1>2, <2>1
<1>3. ASSUME NEW gen \in Generations, Run(gen) PROVE IInv' /\ Quiet
  BY <1>1, <1>3, RunStep
<1>4. ASSUME NEW gen \in Generations, SessionEnds(gen) PROVE IInv' /\ Quiet
  <2>1. /\ Cancel(OfGeneration(gen), "changed", closed) /\ "changed" \in Codes
        /\ UNCHANGED <<accepted, cancelledGens, closed, call>>
    BY <1>4 DEF SessionEnds, Codes
  <2> QED
    BY <1>1, <2>1, CancelStep
<1>5. ASSUME NEW i \in Jobs, Begin(i) PROVE IInv' /\ Quiet
  <2> DEFINE o == IF job[i].cancellation = None THEN "running" ELSE "failed"
  <2>1. /\ job[i].op = "starting"
        /\ job' = [job EXCEPT ![i].op = o]
        /\ UNCHANGED <<accepted, cancelledGens, closed, call>>
    BY <1>5 DEF Begin
  <2>2. /\ o \in {"running", "ok", "failed", "cleanup"}
        /\ o # "running" \/ job[i].cancellation = None
    OBVIOUS
  <2> HIDE DEF o
  <2>3. IInv'
    BY <2>1, <2>2, OperationMoves
  <2>4. Quiet
    BY <1>2, <2>1, <2>2
  <2> QED
    BY <2>3, <2>4
<1>6. ASSUME NEW i \in Jobs, FinishActive(i) PROVE IInv' /\ Quiet
  BY <1>1, <1>6, FinishStep
<1>7. ASSUME NEW i \in Jobs, NEW result \in Results, Settle(i, result)
      PROVE  IInv' /\ Quiet
  <2>1. /\ job[i].op = "running"
        /\ job' = [job EXCEPT ![i].op = result]
        /\ UNCHANGED <<accepted, cancelledGens, closed, call>>
        /\ result \in {"running", "ok", "failed", "cleanup"} /\ result # "running"
    BY <1>7 DEF Settle, Results
  <2>2. IInv'
    BY <2>1, OperationMoves
  <2>3. Quiet
    BY <1>2, <2>1
  <2> QED
    BY <2>2, <2>3
<1>8. ASSUME NEW i \in Jobs, TimerFires(i) PROVE IInv' /\ Quiet
  <2>1. /\ Cancel({i}, "timeout", closed) /\ "timeout" \in Codes
        /\ UNCHANGED <<accepted, cancelledGens, closed, call>>
    BY <1>8 DEF TimerFires, Codes
  <2> QED
    BY <1>1, <2>1, CancelStep
<1>9. ASSUME NEW i \in Jobs, RequestAborts(i) PROVE IInv' /\ Quiet
  <2>1. /\ Cancel({i}, "cancelled", closed) /\ "cancelled" \in Codes
        /\ UNCHANGED <<accepted, cancelledGens, closed, call>>
    BY <1>9 DEF RequestAborts, Codes
  <2> QED
    BY <1>1, <2>1, CancelStep
<1>10. ASSUME NEW k \in Calls, NEW gen \in Generations, CancelGeneration(k, gen)
       PROVE  IInv' /\ Quiet
  BY <1>1, <1>10, CancelGenerationStep
<1>11. ASSUME NEW k \in Calls \cup {Closing}, CallResolves(k) PROVE IInv' /\ Quiet
  <2>1. job' = job
    BY <1>11 DEF CallResolves
  <2> QED
    BY <1>11, <2>1, ResolveStep
<1>12. ASSUME Close PROVE IInv' /\ Quiet
  BY <1>1, <1>12, CloseStep
<1>13. ASSUME UNCHANGED vars PROVE IInv' /\ Quiet
  <2>1. job' = job /\ UNCHANGED <<accepted, cancelledGens, closed, call>>
    BY <1>13 DEF vars
  <2>2. JobsOK(job', accepted)
    BY <2>1 DEF IInv
  <2> QED
    BY <2>1, <2>2, QuietStep
<1> HIDE DEF Quiet
<1>14. IInv' /\ Quiet
  BY <1>3, <1>4, <1>5, <1>6, <1>7, <1>8, <1>9, <1>10, <1>11, <1>12, <1>13 DEF Next
<1> QED
  BY <1>14 DEF Quiet

\* Initially there is no job and no call.
LEMMA InitEstablishes == Init => IInv
<1> SUFFICES ASSUME Init PROVE IInv
  OBVIOUS
<1>1. accepted = 0 /\ accepted \in 0 .. MaxJobs
  BY UploadAssumption DEF Init
<1>2. job = [i \in Jobs |-> NoJob]
  BY DEF Init
<1>3. JobsOK(job, accepted)
  <2>1. job \in [Jobs -> JobRecord]
    BY <1>2 DEF NoJob, Idle, JobRecord
  <2>2. \A i \in Jobs : job[i] = NoJob /\ ~(i <= 0)
    BY <1>2 DEF Jobs
  <2>3. Active(job) = {}
    BY <2>2 DEF Active, NoJob, Idle
  <2>4. Cardinality(Active(job)) <= MaxActive
    BY <2>3, FS_EmptySet, UploadAssumption
  <2> QED
    BY <1>1, <2>1, <2>2, <2>4 DEF JobsOK, NoJob, Idle
<1>4. CallsOK
  BY DEF Init, CallsOK
<1>5. CloseOK
  BY DEF Init, CloseOK
<1> QED
  BY <1>1, <1>3, <1>4, <1>5 DEF IInv

\* The invariant holds in every reachable state, for any numbers of slots,
\* places in the queue, uploads, generations and calls.
THEOREM Invariance == Spec => []IInv
<1>1. IInv /\ [Next]_vars => IInv'
  BY NextStep
<1> QED
  BY <1>1, InitEstablishes, PTL DEF Spec

\* #drain and run never have more than maxActive operations in progress.
THEOREM Bounded == Spec => []WorkIsBounded
<1>1. IInv => WorkIsBounded
  <2> SUFFICES ASSUME IInv PROVE WorkIsBounded
    OBVIOUS
  <2> DEFINE W == {i \in Jobs : job[i].op \in {"starting", "running"}}
  <2>1. W \subseteq Active(job)
    BY DEF IInv, JobsOK, Active
  <2>2. IsFiniteSet(Active(job)) /\ Cardinality(Active(job)) \in Nat
    BY ActiveFinite
  <2>3. Cardinality(W) <= Cardinality(Active(job)) /\ IsFiniteSet(W)
    BY <2>1, <2>2, FS_Subset
  <2>4. Cardinality(W) \in Nat
    BY <2>3, FS_CardinalityType
  <2>5. Cardinality(Active(job)) <= MaxActive
    BY DEF IInv, JobsOK
  <2>6. Cardinality(W) <= MaxActive
    BY <2>2, <2>3, <2>4, <2>5, UploadAssumption
  <2> QED
    BY <2>6 DEF WorkIsBounded
<1> QED
  BY <1>1, Invariance, PTL

\* After cancelGeneration has resolved nothing of the generation is in progress
\* or will be; after close has resolved every accepted upload has been answered.
THEOREM ResolvedStaysQuiet == Spec => []ResolvedIsQuiet
<1>1. IInv => ResolvedIsQuiet
  <2> SUFFICES ASSUME IInv PROVE ResolvedIsQuiet
    OBVIOUS
  <2>1. 1 .. accepted \subseteq Jobs
    BY UploadAssumption DEF IInv, Jobs
  <2>2. \A i \in Jobs : job[i].state = "finished" => job[i] = Finished
    BY DEF IInv, JobsOK
  <2> QED
    BY <2>1, <2>2 DEF IInv, CallsOK, CloseOK, ResolvedIsQuiet
<1> QED
  BY <1>1, Invariance, PTL

\* The first microtask of a job that was cancelled before it ran throws: its
\* operation is never called.
THEOREM NeverBegins == Spec => CancelledNeverBegins
<1>1. IInv /\ [Next]_vars =>
        [\A i \in Jobs : job[i].cancellation # None /\ job[i].op # "running" =>
           job'[i].op # "running"]_vars
  BY NextStep
<1> QED
  BY <1>1, Invariance, PTL DEF Spec, CancelledNeverBegins

-----------------------------------------------------------------------------
(* The queue. What remains of it after a cancellation is a recursive        *)
(* function; what that function computes is shown with the least number for *)
(* which it would fail.                                                     *)

Queued(J) == {i \in Jobs : J[i].state = "queued"}
Elements(q) == {q[i] : i \in DOMAIN q}
Rising(q) == \A i, j \in DOMAIN q : i < j => q[i] < q[j]

\* s is what remains of the first m elements of Q.
Remains(s, Q, left, m) ==
  /\ s \in Seq(Jobs) /\ Rising(s)
  /\ \A x : x \in Elements(s) <=> x \notin left /\ \E i \in 1 .. m : x = Q[i]

\* f[m] is what remains of the first m elements of Q, for every m up to n.
Parts(f, Q, left, n) ==
  f = [i \in 0 .. n |->
         IF i = 0 THEN <<>> ELSE IF Q[i] \in left THEN f[i - 1] ELSE Append(f[i - 1], Q[i])]

LEMMA RemainsNext ==
  ASSUME NEW Q \in Seq(Jobs), Rising(Q), NEW left, NEW m \in 1 .. Len(Q),
         NEW s, Remains(s, Q, left, m - 1)
  PROVE  Remains(IF Q[m] \in left THEN s ELSE Append(s, Q[m]), Q, left, m)
<1>1. /\ Len(Q) \in Nat /\ m \in Nat /\ m > 0 /\ m \in DOMAIN Q /\ Q[m] \in Jobs
      /\ \A i \in 1 .. m - 1 : i \in DOMAIN Q /\ i < m
      /\ \A i \in 1 .. m : i \in 1 .. m - 1 \/ i = m
      /\ \A i \in 1 .. m - 1 : i \in 1 .. m
      /\ m \in 1 .. m
  OBVIOUS
<1>2. /\ s \in Seq(Jobs) /\ Rising(s)
      /\ \A x : x \in Elements(s) <=> x \notin left /\ \E i \in 1 .. m - 1 : x = Q[i]
  BY DEF Remains
<1>3. CASE Q[m] \in left
  <2>1. \A x : x \in Elements(s) <=> x \notin left /\ \E i \in 1 .. m : x = Q[i]
    BY <1>1, <1>2, <1>3
  <2> QED
    BY <1>2, <1>3, <2>1 DEF Remains
<1>4. CASE Q[m] \notin left
  <2>. DEFINE t == Append(s, Q[m])  n == Len(s)
  <2>1. /\ t \in Seq(Jobs) /\ n \in Nat /\ DOMAIN s = 1 .. n /\ DOMAIN t = 1 .. n + 1
        /\ t[n + 1] = Q[m] /\ \A i \in 1 .. n : t[i] = s[i]
    BY <1>1, <1>2
  <2>. HIDE DEF t, n
  <2>2. \A i \in 1 .. n + 1 : i \in 1 .. n \/ i = n + 1
    BY <2>1
  <2>3. \A i \in 1 .. n : i \in 1 .. n + 1
    BY <2>1
  <2>4. n + 1 \in 1 .. n + 1
    BY <2>1
  <2>5. \A x : x \in Elements(t) <=> x \in Elements(s) \/ x = Q[m]
    BY <2>1, <2>2, <2>3, <2>4 DEF Elements
  <2>6. \A x : x \in Elements(t) <=> x \notin left /\ \E i \in 1 .. m : x = Q[i]
    BY <1>1, <1>2, <1>4, <2>5
  <2>7. \A i \in 1 .. n : s[i] < Q[m]
    <3>1. SUFFICES ASSUME NEW i \in 1 .. n PROVE s[i] < Q[m]
      OBVIOUS
    <3>2. s[i] \in Elements(s)
      BY <2>1 DEF Elements
    <3>3. PICK j \in 1 .. m - 1 : s[i] = Q[j]
      BY <1>2, <3>2
    <3>4. j \in DOMAIN Q /\ j < m
      BY <1>1
    <3>5. Q[j] < Q[m]
      BY <1>1, <3>4 DEF Rising
    <3> QED
      BY <3>3, <3>5
  <2>8. Rising(t)
    <3>1. SUFFICES ASSUME NEW i \in 1 .. n + 1, NEW j \in 1 .. n + 1, i < j PROVE t[i] < t[j]
      BY <2>1 DEF Rising
    <3>2. i \in 1 .. n /\ (j \in 1 .. n \/ j = n + 1)
      BY <2>1, <2>2, <3>1
    <3>3. CASE j \in 1 .. n
      BY <1>2, <2>1, <3>1, <3>2, <3>3 DEF Rising
    <3>4. CASE j = n + 1
      BY <2>1, <2>7, <3>2, <3>4
    <3> QED
      BY <3>2, <3>3, <3>4
  <2> QED
    BY <1>4, <2>1, <2>6, <2>8 DEF Remains, t
<1> QED
  BY <1>3, <1>4

LEMMA PartsExist ==
  ASSUME NEW Q \in Seq(Jobs), Rising(Q), NEW left
  PROVE  \A n \in 0 .. Len(Q) :
           \E f : Parts(f, Q, left, n) /\ \A m \in 0 .. n : Remains(f[m], Q, left, m)
<1>. DEFINE Has(n) == \E f : Parts(f, Q, left, n) /\ \A m \in 0 .. n : Remains(f[m], Q, left, m)
            T == {n \in 0 .. Len(Q) : ~Has(n)}
<1>0. Len(Q) \in Nat
  OBVIOUS
<1>1. SUFFICES ASSUME T # {} PROVE FALSE
  OBVIOUS
<1>. HIDE DEF Has
<1>2. PICK n \in T : \A i \in T : n <= i
  <2>1. T \subseteq Nat
    BY <1>0
  <2>. HIDE DEF T
  <2> QED
    BY <1>1, <2>1, Least
<1>3. n \in 0 .. Len(Q) /\ n \in Nat /\ ~Has(n)
  BY <1>0
<1>4. CASE n = 0
  <2>. DEFINE e == <<>>
              f == [i \in 0 .. 0 |-> e]
  <2>1. Parts(f, Q, left, 0)
    BY DEF Parts
  <2>2. e \in Seq(Jobs) /\ DOMAIN e = {}
    OBVIOUS
  <2>3. Remains(e, Q, left, 0)
    <3>1. \A x : x \notin Elements(e)
      BY <2>2 DEF Elements
    <3>2. Rising(e)
      BY <2>2 DEF Rising
    <3>. HIDE DEF e
    <3> QED
      BY <2>2, <3>1, <3>2 DEF Remains
  <2>. HIDE DEF e
  <2>4. \A m \in 0 .. 0 : f[m] = e /\ m = 0
    OBVIOUS
  <2>. HIDE DEF f
  <2>5. \A m \in 0 .. 0 : Remains(f[m], Q, left, m)
    BY <2>3, <2>4
  <2> QED
    BY <1>3, <1>4, <2>1, <2>5 DEF Has
<1>5. CASE n > 0
  <2>1. n - 1 \in 0 .. Len(Q) /\ n - 1 < n /\ n \in 1 .. Len(Q)
    BY <1>0, <1>3, <1>5
  <2>2. Has(n - 1)
    <3>1. n - 1 \notin T
      <4>. HIDE DEF T
      <4>1. ~(n <= n - 1)
        BY <1>3
      <4> QED
        BY <1>2, <4>1
    <3> QED
      BY <2>1, <3>1
  <2>3. PICK g : Parts(g, Q, left, n - 1) /\ \A m \in 0 .. n - 1 : Remains(g[m], Q, left, m)
    BY <2>2 DEF Has
  <2>. DEFINE s == g[n - 1]
              t == IF Q[n] \in left THEN s ELSE Append(s, Q[n])
              f == [i \in 0 .. n |-> IF i = n THEN t ELSE g[i]]
  <2>4. n - 1 \in 0 .. n - 1
    BY <1>3, <1>5
  <2>5. Remains(t, Q, left, n)
    <3>1. Remains(s, Q, left, n - 1)
      BY <2>3, <2>4
    <3> QED
      BY <2>1, <3>1, RemainsNext
  <2>6. \A i \in 0 .. n - 1 : i \in 0 .. n /\ i # n /\ f[i] = g[i]
    BY <1>3
  <2>7. n \in 0 .. n /\ f[n] = t
    BY <1>3
  <2>8. \A i \in 0 .. n : i = n \/ i \in 0 .. n - 1
    BY <1>3, <1>5
  <2>9. \A m \in 0 .. n : Remains(f[m], Q, left, m)
    <3>. HIDE DEF f, t
    <3> QED
      BY <2>3, <2>5, <2>6, <2>7, <2>8
  <2>10. ASSUME NEW i \in 0 .. n
         PROVE  f[i] = IF i = 0 THEN <<>> ELSE IF Q[i] \in left THEN f[i - 1] ELSE Append(f[i - 1], Q[i])
    <3>1. CASE i = n
      <4>1. f[i] = t /\ f[i - 1] = s /\ i # 0
        BY <1>5, <2>4, <2>6, <2>7, <3>1
      <4>. HIDE DEF f, s
      <4> QED
        BY <3>1, <4>1
    <3>2. CASE i # n
      <4>1. i \in 0 .. n - 1 /\ (i # 0 => i - 1 \in 0 .. n - 1)
        BY <1>3, <2>8, <3>2
      <4>2. f[i] = g[i] /\ (i # 0 => f[i - 1] = g[i - 1])
        BY <2>6, <4>1
      <4>3. g[i] = IF i = 0 THEN <<>> ELSE IF Q[i] \in left THEN g[i - 1] ELSE Append(g[i - 1], Q[i])
        BY <2>3, <4>1 DEF Parts
      <4>. HIDE DEF f
      <4> QED
        BY <4>2, <4>3
    <3> QED
      BY <3>1, <3>2
  <2>11. Parts(f, Q, left, n)
    <3>1. f = [i \in 0 .. n |-> f[i]]
      OBVIOUS
    <3>. HIDE DEF f
    <3> QED
      BY <2>10, <3>1 DEF Parts
  <2>. HIDE DEF f
  <2> QED
    BY <1>3, <2>9, <2>11 DEF Has
<1> QED
  BY <1>3, <1>4, <1>5

\* A queue in rising order without some of its jobs.
LEMMA WithoutIs ==
  ASSUME NEW Q \in Seq(Jobs), Rising(Q), NEW left
  PROVE  /\ Without(Q, left) \in Seq(Jobs) /\ Rising(Without(Q, left))
         /\ Elements(Without(Q, left)) = Elements(Q) \ left
<1>. DEFINE n == Len(Q)
            kept == CHOOSE f : f = [i \in 0 .. n |->
                      IF i = 0 THEN <<>>
                      ELSE IF Q[i] \in left THEN f[i - 1] ELSE Append(f[i - 1], Q[i])]
<1>0. n \in Nat /\ n \in 0 .. n /\ DOMAIN Q = 1 .. n
  OBVIOUS
<1>1. PICK f : Parts(f, Q, left, n) /\ \A m \in 0 .. n : Remains(f[m], Q, left, m)
  BY <1>0, PartsExist
<1>2. Parts(kept, Q, left, n)
  BY <1>1 DEF Parts
<1>3. Without(Q, left) = kept[n]
  BY DEF Without
<1>. HIDE DEF kept
<1>4. kept[n] = f[n]
  <2>. DEFINE T == {i \in 0 .. n : kept[i] # f[i]}
  <2>1. SUFFICES ASSUME T # {} PROVE FALSE
    BY <1>0
  <2>2. PICK m \in T : \A i \in T : m <= i
    <3>1. T \subseteq Nat
      BY <1>0
    <3>. HIDE DEF T
    <3> QED
      BY <2>1, <3>1, Least
  <2>3. m \in 0 .. n /\ m \in Nat /\ kept[m] # f[m]
    BY <1>0
  <2>4. /\ kept[m] = IF m = 0 THEN <<>> ELSE IF Q[m] \in left THEN kept[m - 1] ELSE Append(kept[m - 1], Q[m])
        /\ f[m] = IF m = 0 THEN <<>> ELSE IF Q[m] \in left THEN f[m - 1] ELSE Append(f[m - 1], Q[m])
    BY <1>1, <1>2, <2>3 DEF Parts
  <2>5. m # 0 /\ m - 1 \in 0 .. n /\ ~(m <= m - 1)
    BY <1>0, <2>3, <2>4
  <2>6. kept[m - 1] = f[m - 1]
    BY <2>2, <2>5
  <2> QED
    BY <2>3, <2>4, <2>5, <2>6
<1>5. Remains(Without(Q, left), Q, left, n)
  BY <1>0, <1>1, <1>3, <1>4
<1>6. Elements(Without(Q, left)) = Elements(Q) \ left
  BY <1>0, <1>5 DEF Remains, Elements
<1> QED
  BY <1>5, <1>6 DEF Remains

\* A queue in rising order holds every job once.
LEMMA QueueLength ==
  ASSUME NEW Q \in Seq(Jobs), Rising(Q)
  PROVE  Cardinality(Elements(Q)) = Len(Q)
<1>. DEFINE n == Len(Q)
<1>1. n \in Nat /\ DOMAIN Q = 1 .. n
  OBVIOUS
<1>2. \A i \in 1 .. n : Q[i] \in Elements(Q) /\ Q[i] \in Nat
  <2>1. \A i \in 1 .. n : Q[i] \in Jobs
    BY <1>1
  <2>2. Jobs \subseteq Nat
    BY UploadAssumption DEF Jobs
  <2> QED
    BY <1>1, <2>1, <2>2 DEF Elements
<1>3. Q \in [1 .. n -> Elements(Q)]
  BY <1>1, <1>2
<1>4. \A i, j \in 1 .. n : Q[i] = Q[j] => i = j
  <2>1. SUFFICES ASSUME NEW i \in 1 .. n, NEW j \in 1 .. n, Q[i] = Q[j], i # j PROVE FALSE
    OBVIOUS
  <2>2. i < j \/ j < i
    BY <2>1
  <2>3. Q[i] < Q[j] \/ Q[j] < Q[i]
    BY <1>1, <2>2 DEF Rising
  <2> QED
    BY <1>2, <2>1, <2>3
<1>5. \A x \in Elements(Q) : \E i \in 1 .. n : Q[i] = x
  BY <1>1 DEF Elements
<1>6. Q \in Bijection(1 .. n, Elements(Q))
  BY <1>1, <1>3, <1>4, <1>5 DEF Bijection, Injection, Surjection, IsInjective
<1>7. ExistsBijection(1 .. n, Elements(Q))
  BY <1>6 DEF ExistsBijection
<1> QED
  BY <1>1, <1>7, FS_CountingElements

-----------------------------------------------------------------------------
(* The inductive invariant of the queue.                                    *)

\* The queue holds the jobs that are queued, in the order of their acceptance and
\* behind those that are active.
Ordered(q, J) ==
  /\ q \in Seq(Jobs) /\ Rising(q)
  /\ Elements(q) = Queued(J)
  /\ \A i \in Queued(J), j \in Active(J) : j < i

Served(q, J, stopped) ==
  q # <<>> => ~stopped /\ Cardinality(Active(J)) = MaxActive

\* Only the first n jobs were ever accepted.
Fresh(J, n) == \A i \in Jobs : i > n => J[i].state = "none"

Totals == [completed : Nat, failed : Nat, cancelled : Nat, timedOut : Nat]
Answered(t) == t.completed + t.failed + t.cancelled + t.timedOut
Unanswered(J) == Cardinality(Queued(J)) + Cardinality(Active(J))

QInv ==
  /\ Ordered(queue, job) /\ Served(queue, job, closed)
  /\ Fresh(job, accepted)
  /\ totals \in Totals /\ accepted = Answered(totals) + Unanswered(job)

LEMMA QueuedFinite ==
  ASSUME NEW J
  PROVE  IsFiniteSet(Queued(J)) /\ Cardinality(Queued(J)) \in Nat
<1>1. MaxJobs \in Nat /\ Jobs \subseteq Nat
  BY UploadAssumption DEF Jobs
<1>2. IsFiniteSet(Jobs)
  BY <1>1, FS_Interval DEF Jobs
<1>3. IsFiniteSet(Queued(J))
  BY <1>2, FS_Subset DEF Queued
<1> QED
  BY <1>3, FS_CardinalityType

\* A verdict is counted once.
LEMMA CountedOnce ==
  ASSUME NEW t \in Totals, NEW v
  PROVE  Counted(t, v) \in Totals /\ Answered(Counted(t, v)) = Answered(t) + 1
<1>1. CASE v = "ok"
  BY <1>1 DEF Counted, Totals, Answered
<1>2. CASE v \in {"failed", "cleanup"}
  BY <1>2 DEF Counted, Totals, Answered
<1>3. CASE v = "timeout"
  BY <1>3 DEF Counted, Totals, Answered
<1>4. CASE v \notin {"ok", "failed", "cleanup", "timeout"}
  <2>1. Counted(t, v) = [t EXCEPT !.cancelled = @ + 1]
    BY <1>4 DEF Counted
  <2> QED
    BY <2>1 DEF Totals, Answered
<1> QED
  BY <1>1, <1>2, <1>3, <1>4

\* #drain starts the oldest job that waits.
LEMMA DrainServes ==
  ASSUME NEW J \in [Jobs -> JobRecord], NEW Q, Ordered(Q, J), NEW stopped \in BOOLEAN,
         NEW n, Fresh(J, n),
         Q # <<>> => ~stopped /\ Cardinality(Active(J)) \in {MaxActive, MaxActive - 1},
         Drain(J, Q, stopped)
  PROVE  /\ Ordered(queue', job') /\ Served(queue', job', stopped)
         /\ Fresh(job', n) /\ Unanswered(job') = Unanswered(J)
<1>0. MaxActive \in Nat /\ Cardinality(Active(J)) \in Nat /\ Q \in Seq(Jobs)
  BY ActiveFinite, UploadAssumption DEF Ordered
<1>1. CASE ~(~stopped /\ Q # <<>> /\ Cardinality(Active(J)) < MaxActive)
  <2>1. job' = J /\ queue' = Q
    BY <1>1 DEF Drain
  <2>2. Served(queue', job', stopped)
    BY <1>0, <1>1, <2>1 DEF Served
  <2> QED
    BY <2>1, <2>2
<1>2. CASE ~stopped /\ Q # <<>> /\ Cardinality(Active(J)) < MaxActive
  <2>. DEFINE h == Head(Q)  p == Tail(Q)  K == Started(J, h)
  <2>1. job' = K /\ queue' = p
    BY <1>2 DEF Drain
  <2>2. /\ h \in Jobs /\ h = Q[1] /\ 1 \in DOMAIN Q /\ p \in Seq(Jobs)
        /\ \A i \in DOMAIN p : i + 1 \in DOMAIN Q /\ p[i] = Q[i + 1] /\ i \in Int /\ 1 < i + 1
        /\ \A i \in DOMAIN Q : i # 1 => 1 < i /\ i - 1 \in DOMAIN p /\ p[i - 1] = Q[i]
    BY <1>0, <1>2
  <2>3. h \in Queued(J)
    BY <2>2 DEF Ordered, Elements
  <2>4. \A i \in Jobs : K[i].state = IF i = h THEN "active" ELSE J[i].state
    <3>1. SUFFICES ASSUME NEW i \in Jobs
                   PROVE  K[i].state = IF i = h THEN "active" ELSE J[i].state
      OBVIOUS
    <3>2. J[i] \in JobRecord
      OBVIOUS
    <3>. HIDE DEF h
    <3> QED
      BY <3>2 DEF Started, JobRecord
  <2>. HIDE DEF K, h, p
  <2>5. Active(K) = Active(J) \cup {h} /\ h \notin Active(J)
    BY <2>2, <2>3, <2>4 DEF Active, Queued
  <2>6. Queued(K) = Queued(J) \ {h}
    BY <2>4 DEF Queued
  <2>7. Cardinality(Active(K)) = Cardinality(Active(J)) + 1
    BY <2>5, ActiveFinite, FS_AddElement
  <2>8. Cardinality(Queued(K)) = Cardinality(Queued(J)) - 1
    BY <2>3, <2>6, QueuedFinite, FS_RemoveElement
  <2>9. Rising(p)
    <3>1. SUFFICES ASSUME NEW i \in DOMAIN p, NEW j \in DOMAIN p, i < j PROVE p[i] < p[j]
      BY DEF Rising
    <3>2. i + 1 < j + 1
      BY <2>2, <3>1
    <3> QED
      BY <2>2, <3>2 DEF Ordered, Rising
  <2>10. \A x \in Elements(p) : x \in Elements(Q) /\ h < x
    <3>1. SUFFICES ASSUME NEW i \in DOMAIN p PROVE p[i] \in Elements(Q) /\ h < p[i]
      BY DEF Elements
    <3>2. Q[1] < Q[i + 1]
      BY <2>2 DEF Ordered, Rising
    <3> QED
      BY <2>2, <3>2 DEF Elements
  <2>11. \A x \in Elements(Q) : x = h \/ x \in Elements(p)
    BY <2>2 DEF Elements
  <2>12. Jobs \subseteq Nat
    BY UploadAssumption DEF Jobs
  <2>13. Elements(p) = Queued(K)
    <3>1. \A x \in Elements(p) : x # h
      BY <2>2, <2>10, <2>12
    <3> QED
      BY <2>6, <2>10, <2>11, <3>1 DEF Ordered
  <2>14. \A i \in Queued(K), j \in Active(K) : j < i
    BY <2>5, <2>6, <2>10, <2>13 DEF Ordered
  <2>15. Ordered(p, K)
    BY <2>2, <2>9, <2>13, <2>14 DEF Ordered
  <2>16. Served(p, K, stopped)
    BY <1>0, <1>2, <2>7 DEF Served
  <2>17. Fresh(K, n)
    BY <2>3, <2>4 DEF Fresh, Queued
  <2>18. Unanswered(K) = Unanswered(J)
    BY <1>0, <2>7, <2>8, QueuedFinite DEF Unanswered
  <2> QED
    BY <2>1, <2>15, <2>16, <2>17, <2>18
<1> QED
  BY <1>1, <1>2

\* A cancellation takes jobs out of the queue and frees no slot.
LEMMA CancelServes ==
  ASSUME IInv, QInv, NEW S \in SUBSET Jobs, NEW code \in Codes, NEW stopped \in BOOLEAN,
         Cancel(S, code, stopped), stopped = closed \/ Jobs \subseteq S
  PROVE  /\ Ordered(queue', job') /\ Served(queue', job', stopped)
         /\ Fresh(job', accepted)
         /\ totals' \in Totals /\ accepted = Answered(totals') + Unanswered(job')
<1>. DEFINE K == Cancelled(S, code)
            left == {i \in Cancellable(S) : job[i].state = "queued"}
            R == Without(queue, left)
<1>0. /\ job \in [Jobs -> JobRecord] /\ accepted \in Nat
      /\ \A i \in Jobs : job[i].state = "queued" => job[i].cancellation = None
  BY UploadAssumption DEF IInv, JobsOK
<1>1. /\ Ordered(queue, job) /\ Served(queue, job, closed) /\ Fresh(job, accepted)
      /\ totals \in Totals /\ accepted = Answered(totals) + Unanswered(job)
  BY DEF QInv
<1>2. Drain(K, R, stopped)
  BY DEF Cancel
<1>3. totals' = IF code = "timeout"
                THEN [totals EXCEPT !.timedOut = @ + Cardinality(left)]
                ELSE [totals EXCEPT !.cancelled = @ + Cardinality(left)]
  BY DEF Cancel
<1>4. queue \in Seq(Jobs) /\ Rising(queue) /\ Elements(queue) = Queued(job)
  BY <1>1 DEF Ordered
<1>5. R \in Seq(Jobs) /\ Rising(R) /\ Elements(R) = Elements(queue) \ left
  BY <1>4, WithoutIs
<1>6. \A i \in Jobs : /\ i \in left => job[i].state = "queued"
                      /\ K[i].state = IF i \in left THEN "finished" ELSE job[i].state
  <2>1. SUFFICES ASSUME NEW i \in Jobs
                 PROVE  K[i].state = IF i \in left THEN "finished" ELSE job[i].state
    OBVIOUS
  <2>2. CASE i \notin Cancellable(S)
    BY <2>2 DEF Cancelled
  <2>3. CASE i \in Cancellable(S) /\ job[i].state = "active"
    <3>1. K[i] = Marked(job[i], code) /\ i \notin left
      BY <2>3 DEF Cancelled
    <3> QED
      BY <3>1 DEF Marked
  <2>4. CASE i \in Cancellable(S) /\ job[i].state # "active"
    <3>1. K[i] = Finished /\ i \in left
      BY <2>4 DEF Cancelled, Cancellable
    <3> QED
      BY <3>1 DEF Finished, Idle
  <2> QED
    BY <2>2, <2>3, <2>4
<1>7. K \in [Jobs -> JobRecord]
  <2>1. JobsOK(K, accepted)
    BY CancelledJob DEF IInv
  <2> QED
    BY <2>1 DEF JobsOK
<1>8. left \subseteq Queued(job) /\ (Jobs \subseteq S => left = Queued(job))
  <2>1. left \subseteq Queued(job)
    BY <1>0, <1>1, <1>4 DEF Cancellable, Queued
  <2> QED
    BY <1>0, <2>1 DEF Cancellable, Queued
<1>. HIDE DEF K, left, R
<1>9. Active(K) = Active(job) /\ Queued(K) = Queued(job) \ left
  BY <1>6 DEF Active, Queued
<1>10. Ordered(R, K)
  BY <1>1, <1>4, <1>5, <1>9 DEF Ordered
<1>11. R # <<>> => ~stopped /\ Cardinality(Active(K)) = MaxActive
  <2>1. SUFFICES ASSUME R # <<>> PROVE ~stopped /\ Cardinality(Active(K)) = MaxActive
    OBVIOUS
  <2>2. Elements(R) # {}
    <3>1. 1 \in DOMAIN R
      BY <1>5, <2>1
    <3> QED
      BY <3>1 DEF Elements
  <2>3. ~(Jobs \subseteq S)
    BY <1>4, <1>5, <1>8, <2>2
  <2>4. queue # <<>>
    BY <1>5, <2>2 DEF Elements
  <2> QED
    BY <1>1, <1>9, <2>3, <2>4 DEF Served
<1>12. Fresh(K, accepted)
  BY <1>1, <1>6 DEF Fresh
<1>13. /\ Ordered(queue', job') /\ Served(queue', job', stopped)
       /\ Fresh(job', accepted) /\ Unanswered(job') = Unanswered(K)
  BY <1>2, <1>7, <1>10, <1>11, <1>12, DrainServes
<1>14. /\ Cardinality(left) \in Nat
       /\ Unanswered(job) = Unanswered(K) + Cardinality(left)
  <2>1. IsFiniteSet(Queued(job)) /\ Cardinality(Queued(job)) \in Nat
    BY QueuedFinite
  <2>2. Cardinality(Queued(job) \ left) = Cardinality(Queued(job)) - Cardinality(Queued(job) \cap left)
    BY <2>1, FS_Difference
  <2>3. Queued(job) \cap left = left
    BY <1>8
  <2>4. IsFiniteSet(left) /\ Cardinality(left) \in Nat
    BY <1>8, <2>1, FS_Subset, FS_CardinalityType
  <2>5. Cardinality(Active(job)) \in Nat
    BY ActiveFinite
  <2>. DEFINE q == Cardinality(Queued(job))
              l == Cardinality(left)
              a == Cardinality(Active(job))
  <2>6. Cardinality(Queued(K)) = q - l
    BY <1>9, <2>2, <2>3
  <2>7. Unanswered(job) = q + a /\ Unanswered(K) = (q - l) + a
    BY <1>9, <2>6 DEF Unanswered
  <2>8. q \in Nat /\ l \in Nat /\ a \in Nat
    BY <2>1, <2>4, <2>5
  <2>. HIDE DEF q, l, a
  <2>9. Unanswered(job) = Unanswered(K) + l
    BY <2>7, <2>8
  <2> QED
    BY <2>4, <2>9 DEF l
<1>15. totals' \in Totals /\ Answered(totals') = Answered(totals) + Cardinality(left)
  <2>. DEFINE c == Cardinality(left)
  <2>. HIDE DEF c
  <2>1. c \in Nat
    BY <1>14 DEF c
  <2>2. CASE code = "timeout"
    <3>1. totals' = [totals EXCEPT !.timedOut = @ + c]
      BY <1>3, <2>2 DEF c
    <3> QED
      BY <1>1, <2>1, <3>1 DEF Totals, Answered, c
  <2>3. CASE code # "timeout"
    <3>1. totals' = [totals EXCEPT !.cancelled = @ + c]
      BY <1>3, <2>3 DEF c
    <3> QED
      BY <1>1, <2>1, <3>1 DEF Totals, Answered, c
  <2> QED
    BY <2>2, <2>3
<1>16. accepted = Answered(totals') + Unanswered(job')
  <2>1. Unanswered(K) \in Nat
    BY ActiveFinite, QueuedFinite DEF Unanswered
  <2>2. Answered(totals) \in Nat
    BY <1>1 DEF Totals, Answered
  <2> QED
    BY <1>1, <1>13, <1>14, <1>15, <2>1, <2>2
<1> QED
  BY <1>13, <1>15, <1>16

\* A step that moves no job into, out of or behind the queue.
LEMMA QueueStays ==
  ASSUME QInv, UNCHANGED <<queue, totals, closed, accepted>>,
         \A i \in Jobs : job'[i].state = job[i].state
  PROVE  QInv'
<1>1. Active(job') = Active(job) /\ Queued(job') = Queued(job)
  BY DEF Active, Queued
<1>2. Ordered(queue', job')
  BY <1>1 DEF QInv, Ordered
<1>3. Served(queue', job', closed')
  BY <1>1 DEF QInv, Served
<1>4. Fresh(job', accepted')
  BY DEF QInv, Fresh
<1>5. accepted' = Answered(totals') + Unanswered(job')
  BY <1>1 DEF QInv, Unanswered
<1> QED
  BY <1>2, <1>3, <1>4, <1>5 DEF QInv

LEMMA RunServes ==
  ASSUME IInv, QInv, NEW gen \in Generations, Run(gen)
  PROVE  QInv'
<1>. DEFINE n == accepted + 1
            J == [job EXCEPT ![n] = Idle(gen, "queued")]
<1>0. /\ job \in [Jobs -> JobRecord] /\ accepted \in Nat /\ accepted < MaxJobs
      /\ n \in Nat /\ n \in Jobs /\ MaxJobs \in Nat /\ Jobs \subseteq Nat /\ ~closed
      /\ Cardinality(Active(job)) <= MaxActive /\ MaxActive \in Nat
  BY UploadAssumption DEF IInv, JobsOK, Run, Jobs
<1>1. /\ Ordered(queue, job) /\ Served(queue, job, closed) /\ Fresh(job, accepted)
      /\ totals \in Totals /\ accepted = Answered(totals) + Unanswered(job)
  BY DEF QInv
<1>2. /\ accepted' = n /\ UNCHANGED <<closed, totals>>
      /\ IF Cardinality(Active(job)) < MaxActive
         THEN job' = Started(J, n) /\ queue' = queue
         ELSE job' = [J EXCEPT ![n].timer = TRUE] /\ queue' = Append(queue, n)
  BY DEF Run
<1>3. J \in [Jobs -> JobRecord]
  BY <1>0 DEF JobRecord, Idle
<1>4. \A i \in Jobs : J[i] = IF i = n THEN Idle(gen, "queued") ELSE job[i]
  BY <1>0
<1>. HIDE DEF J
<1>5. \A i \in Jobs : i \in Queued(job) \cup Active(job) => i < n /\ i <= accepted
  <2>1. ASSUME NEW i \in Jobs, i \in Queued(job) \cup Active(job), i > accepted PROVE FALSE
    BY <1>1, <2>1 DEF Fresh, Queued, Active
  <2> QED
    BY <1>0, <2>1
<1>6. n \notin Queued(job) /\ n \notin Active(job)
  BY <1>0, <1>5
<1>7. Cardinality(Active(job)) \in Nat /\ Cardinality(Queued(job)) \in Nat
      /\ IsFiniteSet(Active(job)) /\ IsFiniteSet(Queued(job)) /\ Answered(totals) \in Nat
  BY <1>1, ActiveFinite, QueuedFinite DEF Totals, Answered
<1>8. CASE Cardinality(Active(job)) < MaxActive
  <2>1. job' = Started(J, n) /\ queue' = queue
    BY <1>2, <1>8
  <2>2. \A i \in Jobs : job'[i].state = IF i = n THEN "active" ELSE job[i].state
    <3>1. SUFFICES ASSUME NEW i \in Jobs
                   PROVE  job'[i].state = IF i = n THEN "active" ELSE job[i].state
      OBVIOUS
    <3>2. J[i] \in JobRecord
      BY <1>3
    <3>3. Started(J, n)[i].state = IF i = n THEN "active" ELSE J[i].state
      <4>. HIDE DEF n
      <4> QED
        BY <1>3, <3>2 DEF Started, JobRecord
    <3> QED
      BY <1>4, <2>1, <3>3
  <2>. HIDE DEF n
  <2>3. Active(job') = Active(job) \cup {n} /\ Queued(job') = Queued(job)
    BY <1>0, <1>6, <2>2 DEF Active, Queued
  <2>4. queue = <<>> /\ Queued(job) = {}
    <3>1. queue = <<>>
      BY <1>0, <1>1, <1>7, <1>8 DEF Served
    <3>2. Elements(<<>>) = {}
      BY DEF Elements
    <3> QED
      BY <1>1, <3>1, <3>2 DEF Ordered
  <2>5. Ordered(queue', job') /\ Served(queue', job', closed')
    BY <1>1, <2>1, <2>3, <2>4 DEF Ordered, Served
  <2>6. Fresh(job', accepted')
    <3>1. \A i \in Jobs : i > n => i # n /\ i > accepted
      BY <1>0 DEF n
    <3> QED
      BY <1>1, <1>2, <2>2, <3>1 DEF Fresh
  <2>7. Cardinality(Active(job')) = Cardinality(Active(job)) + 1
    BY <1>6, <1>7, <2>3, FS_AddElement
  <2>8. accepted' = Answered(totals') + Unanswered(job')
    BY <1>0, <1>1, <1>2, <1>7, <2>3, <2>7 DEF Unanswered, n
  <2> QED
    BY <1>1, <1>2, <2>5, <2>6, <2>8 DEF QInv
<1>9. CASE ~(Cardinality(Active(job)) < MaxActive)
  <2>1. job' = [J EXCEPT ![n].timer = TRUE] /\ queue' = Append(queue, n)
    BY <1>2, <1>9
  <2>2. \A i \in Jobs : job'[i].state = IF i = n THEN "queued" ELSE job[i].state
    <3>1. SUFFICES ASSUME NEW i \in Jobs
                   PROVE  job'[i].state = IF i = n THEN "queued" ELSE job[i].state
      OBVIOUS
    <3>2. J[i] \in JobRecord
      BY <1>3
    <3>3. job'[i].state = J[i].state
      <4>. HIDE DEF n
      <4> QED
        BY <1>3, <2>1, <3>2 DEF JobRecord
    <3> QED
      BY <1>4, <3>3 DEF Idle
  <2>. HIDE DEF n
  <2>3. Active(job') = Active(job) /\ Queued(job') = Queued(job) \cup {n}
    BY <1>0, <1>6, <2>2 DEF Active, Queued
  <2>4. Ordered(queue', job')
    <3>. DEFINE l == Len(queue)
    <3>1. /\ queue' \in Seq(Jobs) /\ l \in Nat /\ DOMAIN queue = 1 .. l /\ DOMAIN queue' = 1 .. l + 1
          /\ queue'[l + 1] = n /\ \A i \in 1 .. l : queue'[i] = queue[i]
      BY <1>0, <1>1, <2>1 DEF Ordered
    <3>. HIDE DEF l
    <3>2. \A i \in 1 .. l + 1 : i \in 1 .. l \/ i = l + 1
      BY <3>1
    <3>3. \A i \in 1 .. l : i \in 1 .. l + 1
      BY <3>1
    <3>4. l + 1 \in 1 .. l + 1
      BY <3>1
    <3>5. Elements(queue') = Elements(queue) \cup {n}
      BY <3>1, <3>2, <3>3, <3>4 DEF Elements
    <3>6. \A i \in 1 .. l : queue[i] < n
      <4>1. \A i \in 1 .. l : queue[i] \in Elements(queue) /\ queue[i] \in Jobs
        BY <1>1, <3>1 DEF Elements, Ordered
      <4> QED
        BY <1>1, <1>5, <4>1 DEF Ordered
    <3>7. Rising(queue')
      <4>1. SUFFICES ASSUME NEW i \in 1 .. l + 1, NEW j \in 1 .. l + 1, i < j
                     PROVE  queue'[i] < queue'[j]
        BY <3>1 DEF Rising
      <4>2. i \in 1 .. l /\ (j \in 1 .. l \/ j = l + 1)
        BY <3>1, <3>2, <4>1
      <4>3. CASE j \in 1 .. l
        <5>1. queue[i] < queue[j]
          BY <1>1, <3>1, <4>1, <4>2, <4>3 DEF Ordered, Rising
        <5> QED
          BY <3>1, <4>2, <4>3, <5>1
      <4>4. CASE j = l + 1
        BY <3>1, <3>6, <4>2, <4>4
      <4> QED
        BY <4>2, <4>3, <4>4
    <3>8. \A i \in Queued(job'), j \in Active(job') : j < i
      <4>1. \A j \in Active(job) : j < n
        BY <1>5 DEF Active
      <4> QED
        BY <1>1, <2>3, <4>1 DEF Ordered
    <3> QED
      BY <1>1, <2>3, <3>1, <3>5, <3>7, <3>8 DEF Ordered
  <2>5. Served(queue', job', closed')
    BY <1>0, <1>2, <1>7, <1>9, <2>3 DEF Served
  <2>6. Fresh(job', accepted')
    <3>1. \A i \in Jobs : i > n => i # n /\ i > accepted
      BY <1>0 DEF n
    <3> QED
      BY <1>1, <1>2, <2>2, <3>1 DEF Fresh
  <2>7. Cardinality(Queued(job')) = Cardinality(Queued(job)) + 1
    BY <1>6, <1>7, <2>3, FS_AddElement
  <2>8. accepted' = Answered(totals') + Unanswered(job')
    BY <1>0, <1>1, <1>2, <1>7, <2>3, <2>7 DEF Unanswered, n
  <2> QED
    BY <1>1, <1>2, <2>4, <2>5, <2>6, <2>8 DEF QInv
<1> QED
  BY <1>8, <1>9

LEMMA FinishServes ==
  ASSUME IInv, QInv, NEW i \in Jobs, FinishActive(i)
  PROVE  QInv'
<1>. DEFINE K == [job EXCEPT ![i] = Finished]
<1>0. /\ job \in [Jobs -> JobRecord] /\ accepted \in Nat /\ closed \in BOOLEAN
      /\ job[i].state = "active" /\ MaxActive \in Nat /\ Cardinality(Active(job)) <= MaxActive
  BY UploadAssumption DEF IInv, JobsOK, CloseOK, FinishActive
<1>1. /\ Ordered(queue, job) /\ Served(queue, job, closed) /\ Fresh(job, accepted)
      /\ totals \in Totals /\ accepted = Answered(totals) + Unanswered(job)
  BY DEF QInv
<1>2. /\ Drain(K, queue, closed) /\ totals' = Counted(totals, Verdict(i))
      /\ UNCHANGED <<accepted, closed>>
  BY DEF FinishActive
<1>3. K \in [Jobs -> JobRecord]
  BY <1>0 DEF JobRecord, Finished, Idle
<1>4. \A j \in Jobs : K[j].state = IF j = i THEN "finished" ELSE job[j].state
  BY <1>0 DEF Finished, Idle
<1>. HIDE DEF K
<1>5. Active(K) = Active(job) \ {i} /\ i \in Active(job) /\ Queued(K) = Queued(job)
  BY <1>0, <1>4 DEF Active, Queued
<1>6. /\ Cardinality(Active(K)) = Cardinality(Active(job)) - 1
      /\ Cardinality(Active(job)) \in Nat /\ Cardinality(Queued(job)) \in Nat
  BY <1>5, ActiveFinite, QueuedFinite, FS_RemoveElement
<1>7. Ordered(queue, K)
  BY <1>1, <1>5 DEF Ordered
<1>8. queue # <<>> => ~closed /\ Cardinality(Active(K)) \in {MaxActive, MaxActive - 1}
  BY <1>1, <1>6 DEF Served
<1>9. Fresh(K, accepted)
  BY <1>0, <1>1, <1>4 DEF Fresh
<1>10. /\ Ordered(queue', job') /\ Served(queue', job', closed)
       /\ Fresh(job', accepted) /\ Unanswered(job') = Unanswered(K)
  BY <1>0, <1>2, <1>3, <1>7, <1>8, <1>9, DrainServes
<1>11. totals' \in Totals /\ Answered(totals') = Answered(totals) + 1
  BY <1>1, <1>2, CountedOnce
<1>12. accepted' = Answered(totals') + Unanswered(job')
  <2>1. Answered(totals) \in Nat
    BY <1>1 DEF Totals, Answered
  <2>2. Unanswered(K) = Unanswered(job) - 1 /\ Unanswered(job) \in Nat
    BY <1>5, <1>6 DEF Unanswered
  <2> QED
    BY <1>1, <1>2, <1>10, <1>11, <2>1, <2>2
<1> QED
  BY <1>2, <1>10, <1>11, <1>12 DEF QInv

LEMMA NextServes ==
  ASSUME IInv, QInv, [Next]_vars
  PROVE  QInv'
<1>0. job \in [Jobs -> JobRecord] /\ closed \in BOOLEAN
  BY DEF IInv, JobsOK, CloseOK
<1>1. ASSUME NEW S \in SUBSET Jobs, NEW code \in Codes, Cancel(S, code, closed),
             UNCHANGED <<accepted, closed>>
      PROVE  QInv'
  <2>1. /\ Ordered(queue', job') /\ Served(queue', job', closed) /\ Fresh(job', accepted)
        /\ totals' \in Totals /\ accepted = Answered(totals') + Unanswered(job')
    BY <1>0, <1>1, CancelServes
  <2> QED
    BY <1>1, <2>1 DEF QInv
<1>2. ASSUME NEW i \in Jobs, NEW o, job' = [job EXCEPT ![i].op = o],
             UNCHANGED <<queue, totals, closed, accepted>>
      PROVE  QInv'
  <2>1. ASSUME NEW j \in Jobs PROVE job'[j].state = job[j].state
    BY <1>0, <1>2 DEF JobRecord
  <2> QED
    BY <1>2, <2>1, QueueStays
<1>3. ASSUME NEW gen \in Generations, Run(gen) PROVE QInv'
  BY <1>3, RunServes
<1>4. ASSUME NEW gen \in Generations, SessionEnds(gen) PROVE QInv'
  <2>1. /\ Cancel(OfGeneration(gen), "changed", closed) /\ "changed" \in Codes
        /\ UNCHANGED <<accepted, closed>> /\ OfGeneration(gen) \in SUBSET Jobs
    BY <1>4 DEF SessionEnds, Codes, OfGeneration
  <2> QED
    BY <1>1, <2>1
<1>5. ASSUME NEW i \in Jobs, Begin(i) PROVE QInv'
  BY <1>2, <1>5 DEF Begin
<1>6. ASSUME NEW i \in Jobs, FinishActive(i) PROVE QInv'
  BY <1>6, FinishServes
<1>7. ASSUME NEW i \in Jobs, NEW result \in Results, Settle(i, result) PROVE QInv'
  BY <1>2, <1>7 DEF Settle
<1>8. ASSUME NEW i \in Jobs, TimerFires(i) PROVE QInv'
  <2>1. /\ Cancel({i}, "timeout", closed) /\ "timeout" \in Codes
        /\ UNCHANGED <<accepted, closed>> /\ {i} \in SUBSET Jobs
    BY <1>8 DEF TimerFires, Codes
  <2> QED
    BY <1>1, <2>1
<1>9. ASSUME NEW i \in Jobs, RequestAborts(i) PROVE QInv'
  <2>1. /\ Cancel({i}, "cancelled", closed) /\ "cancelled" \in Codes
        /\ UNCHANGED <<accepted, closed>> /\ {i} \in SUBSET Jobs
    BY <1>9 DEF RequestAborts, Codes
  <2> QED
    BY <1>1, <2>1
<1>10. ASSUME NEW k \in Calls, NEW gen \in Generations, CancelGeneration(k, gen) PROVE QInv'
  <2>1. /\ Cancel(OfGeneration(gen), "changed", closed) /\ "changed" \in Codes
        /\ UNCHANGED <<accepted, closed>> /\ OfGeneration(gen) \in SUBSET Jobs
    BY <1>10 DEF CancelGeneration, Codes, OfGeneration
  <2> QED
    BY <1>1, <2>1
<1>11. ASSUME NEW k \in Calls \cup {Closing}, CallResolves(k) PROVE QInv'
  <2>1. UNCHANGED <<queue, totals, closed, accepted, job>>
    BY <1>11 DEF CallResolves
  <2> QED
    BY <2>1, QueueStays
<1>12. ASSUME Close PROVE QInv'
  <2>1. /\ Cancel(Jobs, "closed", TRUE) /\ "closed" \in Codes /\ closed' = TRUE
        /\ accepted' = accepted
    BY <1>12 DEF Close, Codes
  <2>2. /\ Ordered(queue', job') /\ Served(queue', job', TRUE) /\ Fresh(job', accepted)
        /\ totals' \in Totals /\ accepted = Answered(totals') + Unanswered(job')
    BY <2>1, CancelServes
  <2> QED
    BY <2>1, <2>2 DEF QInv
<1>13. ASSUME UNCHANGED vars PROVE QInv'
  BY <1>13, QueueStays DEF vars
<1> QED
  BY <1>3, <1>4, <1>5, <1>6, <1>7, <1>8, <1>9, <1>10, <1>11, <1>12, <1>13 DEF Next

\* In every reachable state the queue holds the queued jobs in the order of their
\* acceptance, behind the active ones, while every slot is taken, and the totals
\* account for the others.
THEOREM QueueInvariance == Spec => []QInv
<1>1. Init => QInv
  <2>. SUFFICES ASSUME Init PROVE QInv
    OBVIOUS
  <2>1. /\ accepted = 0 /\ queue = <<>>
        /\ totals = [completed |-> 0, failed |-> 0, cancelled |-> 0, timedOut |-> 0]
        /\ \A i \in Jobs : job[i] = NoJob
    BY DEF Init
  <2>2. Active(job) = {} /\ Queued(job) = {}
    BY <2>1 DEF Active, Queued, NoJob, Idle
  <2>3. Cardinality({}) = 0
    BY FS_EmptySet
  <2>4. Ordered(queue, job)
    BY <2>1, <2>2 DEF Ordered, Rising, Elements
  <2>5. totals \in Totals /\ Answered(totals) = 0
    BY <2>1 DEF Totals, Answered
  <2>6. Unanswered(job) = 0
    BY <2>2, <2>3 DEF Unanswered
  <2>7. Fresh(job, accepted)
    BY <2>1 DEF Fresh, NoJob, Idle
  <2>8. Served(queue, job, closed)
    BY <2>1 DEF Served
  <2>9. accepted = Answered(totals) + Unanswered(job)
    BY <2>1, <2>5, <2>6
  <2> QED
    BY <2>4, <2>5, <2>7, <2>8, <2>9 DEF QInv
<1>2. IInv /\ QInv /\ [Next]_vars => QInv'
  BY NextServes
<1> QED
  BY <1>1, <1>2, Invariance, PTL DEF Spec

\* An upload waits only while every slot is taken, none waits after close, and no
\* slot goes to an upload that was accepted later: whatever is cancelled, times
\* out or fails, and however many slots and places there are.
THEOREM ServedInTurn == Spec => []QueueIsServed
<1>1. QInv => QueueIsServed
  <2>. SUFFICES ASSUME QInv PROVE QueueIsServed
    OBVIOUS
  <2>1. queue # <<>> => ~closed /\ Cardinality(Active(job)) = MaxActive
    BY DEF QInv, Served
  <2>2. Jobs \subseteq Nat
    BY UploadAssumption DEF Jobs
  <2>3. ASSUME NEW i \in Jobs, NEW j \in Jobs, i < j, job[i].state = "queued"
        PROVE  job[j].state # "active"
    <3>1. SUFFICES ASSUME job[j].state = "active" PROVE FALSE
      OBVIOUS
    <3>2. j < i
      BY <2>3, <3>1 DEF QInv, Ordered, Queued, Active
    <3> QED
      BY <2>2, <2>3, <3>2
  <2> QED
    BY <2>1, <2>3 DEF QueueIsServed
<1> QED
  BY <1>1, QueueInvariance, PTL

\* Every accepted upload is counted exactly once, by its verdict or as waiting or
\* as active.
THEOREM Balance == Spec => []TotalsBalance
<1>1. QInv => TotalsBalance
  <2>. SUFFICES ASSUME QInv PROVE TotalsBalance
    OBVIOUS
  <2>1. Len(queue) = Cardinality(Queued(job))
    BY QueueLength DEF QInv, Ordered
  <2>2. totals \in Totals /\ Cardinality(Active(job)) \in Nat /\ Cardinality(Queued(job)) \in Nat
    BY ActiveFinite, QueuedFinite DEF QInv
  <2>3. Answered(totals) \in Nat /\ accepted = Answered(totals) + (Len(queue) + Cardinality(Active(job)))
    BY <2>1, <2>2 DEF QInv, Unanswered, Totals, Answered
  <2>4. accepted = Answered(totals) + Len(queue) + Cardinality(Active(job))
    BY <2>1, <2>2, <2>3
  <2> QED
    BY <2>4 DEF TotalsBalance, Answered
<1> QED
  BY <1>1, QueueInvariance, PTL

=============================================================================

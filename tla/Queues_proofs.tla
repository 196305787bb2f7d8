----------------------------- MODULE Queues_proofs -----------------------------
(***************************************************************************)
(* Proofs about the two queues a client's requests go through.             *)
(*                                                                         *)
(* ControlInput, for any pointers and any limits: the room reserved for    *)
(* releases is really there, waiting input always has a pump, the counters *)
(* of the queue are what its entries hold, no completion lies, and the     *)
(* device sees the inputs in order.                                        *)
(*                                                                         *)
(* RouterPool, for any number of requests, and of stops that overlap: as   *)
(* long as its serial stays in stoppingSerials while a stop of the device  *)
(* is under way, every open app of it has an owner, only one is opened at  *)
(* a time, and the emulator is killed, or the router stopped, only when    *)
(* none is open.                                                           *)
(***************************************************************************)
EXTENDS ControlInput, RouterPool, Sums_proofs, FiniteSetTheorems, SequenceTheorems,
        NaturalsInduction, WellFoundedInduction, TLAPS

-----------------------------------------------------------------------------
(* ControlInput, its inductive invariant.                                   *)

\* Room is kept while the queue is open; once closed it holds nothing.
Capacity ==
  /\ closed => open = {} /\ pending = <<>>
  /\ ~closed => /\ depth \in Int /\ bytes \in Int
                /\ Fits(depth, bytes, Cardinality(open))

\* Only a running pump dispatches, and what it dispatches is an entry.
PumpState ==
  /\ pump \in {"idle", "scheduled", "running"}
  /\ dispatch # "none" => pump = "running"
  /\ pump = "running" => active \in Entries

Holds ==
  /\ pending \in Seq(Entries)
  /\ open \in SUBSET Pointers
  /\ closed \in BOOLEAN
  /\ accepted \in Seq(Inputs)

IInv == Holds /\ Capacity /\ PumpState /\ NoLostWakeup

-----------------------------------------------------------------------------
LEMMA BytesAreNat == \A input \in Inputs : Bytes(input) \in Nat
BY DEF Bytes

LEMMA OpenIsFinite ==
  ASSUME NEW S \in SUBSET Pointers
  PROVE  IsFiniteSet(S) /\ Cardinality(S) \in Nat
BY ControlAssumption, FS_Subset, FS_CardinalityType

LEMMA EntryBounds ==
  ASSUME NEW e \in Entries
  PROVE  Len(e.ids) \in Nat /\ Bytes(e.input) \in Nat
<1>1. e.ids \in Seq(Nat) /\ e.input \in Inputs BY DEF Entries
<1> QED BY <1>1, BytesAreNat, LenProperties

LEMMA FitsWithLess ==
  ASSUME NEW d \in Int, NEW b \in Int, NEW r \in Nat, Fits(d, b, r),
         NEW x \in Nat, NEW y \in Nat
  PROVE  Fits(d - x, b - y, r)
BY ControlAssumption DEF Fits, ReleaseBytes

\* An entry that settles gives room back.
LEMMA ReleaseKeepsRoom ==
  ASSUME IInv, ~closed, active \in Entries, Release(active), open' = open
  PROVE  depth' \in Int /\ bytes' \in Int /\ Fits(depth', bytes', Cardinality(open'))
<1>1. Cardinality(open) \in Nat BY OpenIsFinite DEF IInv, Holds
<1>2. Len(active.ids) \in Nat /\ Bytes(active.input) \in Nat BY EntryBounds
<1>4. /\ depth' = depth - Len(active.ids)
      /\ bytes' = bytes - Bytes(active.input)
  BY DEF Release
<1>5. depth \in Int /\ bytes \in Int /\ Fits(depth, bytes, Cardinality(open))
  BY DEF IInv, Capacity
<1>6. Fits(depth', bytes', Cardinality(open))
  BY <1>1, <1>2, <1>4, <1>5, FitsWithLess
<1> QED BY <1>2, <1>4, <1>5, <1>6

\* The pump takes the next entry, or goes idle for want of one.
LEMMA TakeIsSafe ==
  ASSUME IInv, Take
  PROVE  /\ pending' \in Seq(Entries)
         /\ PumpState'
         /\ pending' # <<>> => pump' # "idle"
         /\ pending = <<>> => pending' = <<>>
<1>1. pending \in Seq(Entries) BY DEF IInv, Holds
<1>2. CASE pending = <<>>
  <2>1. /\ pending' = <<>> /\ dispatch' = "none" /\ pump' = "idle"
    BY <1>2 DEF Take
  <2> QED BY <1>1, <1>2, <2>1 DEF PumpState
<1>3. CASE pending # <<>>
  <2>1. Head(pending) \in Entries /\ Tail(pending) \in Seq(Entries)
    BY <1>1, <1>3, HeadTailProperties
  <2>2. active' = Head(pending) /\ pending' = Tail(pending) /\ pump' = "running"
    BY <1>3 DEF Take
  <2> QED BY <1>3, <2>1, <2>2 DEF PumpState
<1> QED BY <1>2, <1>3

LEMMA EnqueueStep ==
  ASSUME IInv, NEW input \in Inputs, Enqueue(input)
  PROVE  IInv'
<1>. DEFINE id == Len(accepted) + 1
<1>1. /\ pending \in Seq(Entries) /\ accepted \in Seq(Inputs) /\ id \in Nat
      /\ open \in SUBSET Pointers /\ ~closed
      /\ depth \in Int /\ bytes \in Int
  BY LenProperties DEF IInv, Holds, Capacity, Enqueue
<1>2. /\ UNCHANGED <<active, dispatch, closed>>
      /\ accepted' \in Seq(Inputs)
  BY <1>1, AppendProperties DEF Enqueue, adapting
<1>3. Bytes(input) \in Nat BY BytesAreNat
<1>4. CASE pending # <<>> /\ Join(input)
  <2>. DEFINE entry == [ids |-> Append(Last(pending).ids, id), input |-> input]
  <2>1. Len(pending) \in 1 .. Len(pending) /\ Last(pending) \in Entries
    BY <1>1, <1>4, EmptySeq, LenProperties, ElementOfSeq DEF Last
  <2>2. pending' \in Seq(Entries)
    <3>1. Last(pending).ids \in Seq(Nat) BY <2>1 DEF Entries
    <3>2. Append(Last(pending).ids, id) \in Seq(Nat)
      BY <1>1, <3>1, AppendProperties
    <3>3. entry \in Entries BY <3>2 DEF Entries
    <3>4. pending' = [pending EXCEPT ![Len(pending)] = entry] BY <1>4 DEF Join
    <3>. HIDE DEF entry
    <3> QED BY <1>1, <2>1, <3>3, <3>4, ExceptSeq
  <2>3. NoLostWakeup'
    BY <1>1, <1>2, <1>4, <2>2 DEF IInv, NoLostWakeup, Join
  <2>4. Capacity'
    BY <1>1, <1>2, <1>4, OpenIsFinite, ControlAssumption
       DEF Capacity, Join, Fits, ReleaseBytes
  <2> QED BY <1>1, <1>2, <1>4, <2>2, <2>3, <2>4 DEF IInv, Holds, PumpState, Join
<1>5. CASE Push(input)
  <2>1. [ids |-> <<id>>, input |-> input] \in Entries BY <1>1 DEF Entries
  <2>2. pending' \in Seq(Entries)
    BY <1>1, <1>5, <2>1, AppendProperties DEF Push
  <2>3. open' \in SUBSET Pointers
    BY <1>1, <1>5 DEF Push, OpenAfter, Inputs, Touches, Tap, Reset
  <2>4. Capacity'
    BY <1>1, <1>2, <1>3, <1>5 DEF Capacity, Push
  <2>5. NoLostWakeup' /\ PumpState'
    BY <1>1, <1>2, <1>5 DEF IInv, PumpState, NoLostWakeup, Push
  <2> QED BY <1>1, <1>2, <2>2, <2>3, <2>4, <2>5 DEF IInv, Holds
<1> QED BY <1>4, <1>5 DEF Enqueue

LEMMA PumpStep ==
  ASSUME IInv, Pump
  PROVE  IInv'
<1>1. CASE PumpStarts
  <2>1. CASE closed
    BY <1>1, <2>1 DEF PumpStarts, adapting, IInv, Holds, Capacity, PumpState, NoLostWakeup
  <2>2. CASE ~closed
    <3>1. Take /\ UNCHANGED <<depth, bytes, open, closed, accepted>>
      BY <1>1, <2>2 DEF PumpStarts
    <3> QED BY <2>2, <3>1, TakeIsSafe DEF IInv, Holds, Capacity, NoLostWakeup
  <2> QED BY <2>1, <2>2
<1>2. CASE Awake
  <2>1. UNCHANGED <<pending, active, depth, bytes, pump, open, closed, accepted>>
    BY <1>2 DEF Awake, queue
  <2>2. pump = "running" BY <1>2 DEF Awake, IInv, PumpState
  <2> QED BY <2>1, <2>2 DEF IInv, Holds, Capacity, PumpState, NoLostWakeup
<1>3. CASE NextStep
  BY <1>3 DEF NextStep, queue, IInv, Holds, Capacity, PumpState, NoLostWakeup
<1>4. CASE Complete \/ Reject
  <2>1. /\ ~closed /\ active \in Entries /\ Release(active) /\ Take
        /\ UNCHANGED <<open, closed, accepted>>
    BY <1>4 DEF Complete, Reject, IInv, PumpState
  <2>2. depth' \in Int /\ bytes' \in Int /\ Fits(depth', bytes', Cardinality(open'))
    BY <2>1, ReleaseKeepsRoom
  <2> QED BY <2>1, <2>2, TakeIsSafe DEF IInv, Holds, Capacity, NoLostWakeup
<1>5. CASE Fail
  <2>1. /\ pending' = <<>> /\ dispatch' = "none" /\ pump' = "idle"
        /\ closed' = TRUE /\ open' = {} /\ accepted' = accepted
    BY <1>5 DEF Fail
  <2>2. pending' \in Seq(Entries) BY <2>1
  <2> QED BY <2>1, <2>2 DEF IInv, Holds, Capacity, PumpState, NoLostWakeup
<1> QED BY <1>1, <1>2, <1>3, <1>4, <1>5 DEF Pump

LEMMA CloseStep ==
  ASSUME IInv, Close
  PROVE  IInv'
<1>1. /\ pending' = <<>> /\ closed' = TRUE /\ open' = {}
      /\ UNCHANGED <<active, pump, accepted>>
      /\ dispatch' # "none" => dispatch # "none"
  BY DEF Close
<1>2. pending' \in Seq(Entries) BY <1>1
<1> QED BY <1>1, <1>2 DEF IInv, Holds, Capacity, PumpState, NoLostWakeup

LEMMA EnvironmentStep ==
  ASSUME IInv, Environment
  PROVE  IInv'
<1>1. /\ UNCHANGED <<pending, active, depth, bytes, pump, open, closed, accepted>>
      /\ dispatch' # "none" => dispatch # "none"
  BY DEF Environment, SleepEnds, SocketAnswers, SocketFails, DispatcherSettles, queue
<1> QED BY <1>1 DEF IInv, Holds, Capacity, PumpState, NoLostWakeup

\* The inductive invariant holds in every reachable state.
THEOREM Invariance == Spec => []IInv
<1>1. Init => IInv
  <2>. SUFFICES ASSUME Init PROVE IInv
    OBVIOUS
  <2>1. Cardinality({}) = 0 BY FS_EmptySet
  <2>2. <<>> \in Seq(Entries) /\ <<>> \in Seq(Inputs) OBVIOUS
  <2>3. Capacity BY <2>1, ControlAssumption DEF Init, Capacity, Fits, ReleaseBytes
  <2> QED BY <2>2, <2>3 DEF Init, IInv, Holds, PumpState, NoLostWakeup
<1>2. IInv /\ [Next]_vars => IInv'
  <2>. SUFFICES ASSUME IInv, [Next]_vars PROVE IInv'
    OBVIOUS
  <2>1. CASE UNCHANGED vars
    BY <2>1 DEF vars, queue, adapting, IInv, Holds, Capacity, PumpState, NoLostWakeup
  <2> QED BY <2>1, EnqueueStep, PumpStep, CloseStep, EnvironmentStep DEF Next
<1> QED BY <1>1, <1>2, PTL DEF Spec

\* The "up" of an open pointer is never refused for want of room, whatever the
\* limits and however full the queue.
THEOREM ReleaseFits == Spec => []ReleaseAlwaysFits
<1>1. IInv => ReleaseAlwaysFits
  <2>. SUFFICES ASSUME IInv, NEW p \in open
                PROVE  LET up == [kind |-> "up", pointer |-> p]
                       IN  Fits(depth + 1, bytes + Bytes(up), Cardinality(OpenAfter(up)))
    BY DEF ReleaseAlwaysFits
  <2>. DEFINE up == [kind |-> "up", pointer |-> p]
  <2>1. open \in SUBSET Pointers /\ ~closed BY DEF IInv, Holds, Capacity
  <2>2. IsFiniteSet(open) /\ Cardinality(open) \in Nat BY <2>1, OpenIsFinite
  <2>3. Cardinality(open \ {p}) = Cardinality(open) - 1
    BY <2>2, FS_RemoveElement
  <2>4. OpenAfter(up) = open \ {p} /\ Bytes(up) = 32 BY DEF OpenAfter, Bytes
  <2>. HIDE DEF up
  <2>5. depth \in Int /\ bytes \in Int /\ Fits(depth, bytes, Cardinality(open))
    BY <2>1 DEF IInv, Capacity
  <2>6. MaxDepth \in Nat /\ MaxBytes \in Nat BY ControlAssumption
  <2> QED BY <2>2, <2>3, <2>4, <2>5, <2>6 DEF Fits, ReleaseBytes, up
<1> QED BY <1>1, Invariance, PTL

\* Waiting input always has a pump that will look at it.
THEOREM WakeupKept == Spec => []NoLostWakeup
<1>1. IInv => NoLostWakeup BY DEF IInv
<1> QED BY <1>1, Invariance, PTL

-----------------------------------------------------------------------------
(* Sums over the entries of the queue.                                      *)

\* What entries count for, one more or one less of them.
LEMMA EntryCounts ==
  ASSUME NEW u, u \in Seq(Entries)
  PROVE  /\ [i \in DOMAIN u |-> Len(u[i].ids)] \in Seq(Nat)
         /\ [i \in DOMAIN u |-> Bytes(u[i].input)] \in Seq(Nat)
         /\ Len([i \in DOMAIN u |-> Len(u[i].ids)]) = Len(u)
         /\ Len([i \in DOMAIN u |-> Bytes(u[i].input)]) = Len(u)
         /\ DOMAIN u = 1 .. Len(u) /\ Len(u) \in Nat
<1>1. \A i \in DOMAIN u : Len(u[i].ids) \in Nat /\ Bytes(u[i].input) \in Nat
  BY EntryBounds, ElementOfSeq, LenProperties
<1>2. Len(u) \in Nat /\ DOMAIN u = 1 .. Len(u) BY LenProperties
<1> QED BY <1>1, <1>2

LEMMA NothingCounts == Depth(<<>>) = 0 /\ Size(<<>>) = 0
<1>1. /\ [i \in DOMAIN (<<>>) |-> Len((<<>>)[i].ids)] = <<>>
      /\ [i \in DOMAIN (<<>>) |-> Bytes((<<>>)[i].input)] = <<>>
  OBVIOUS
<1> QED BY <1>1, SumOfNone DEF Depth, Size

LEMMA CountFromHead ==
  ASSUME NEW u, u \in Seq(Entries), u # <<>>
  PROVE  /\ Depth(u) = Len(u[1].ids) + Depth(Tail(u))
         /\ Size(u) = Bytes(u[1].input) + Size(Tail(u))
         /\ Depth(u) \in Nat /\ Size(u) \in Nat /\ Depth(Tail(u)) \in Nat /\ Size(Tail(u)) \in Nat
<1>. DEFINE d == [i \in DOMAIN u |-> Len(u[i].ids)]
            b == [i \in DOMAIN u |-> Bytes(u[i].input)]
            t == Tail(u)
<1>1. /\ d \in Seq(Nat) /\ b \in Seq(Nat) /\ Len(d) = Len(u) /\ Len(b) = Len(u)
      /\ DOMAIN u = 1 .. Len(u) /\ Len(u) \in Nat
  BY EntryCounts
<1>2. Len(u) > 0 BY <1>1
<1>3. t \in Seq(Entries) /\ Len(t) = Len(u) - 1 /\ \A i \in 1 .. Len(u) - 1 : t[i] = u[i + 1]
  OBVIOUS
<1>4. DOMAIN t = 1 .. Len(u) - 1 BY <1>3
<1>5. d[1] = Len(u[1].ids) /\ b[1] = Bytes(u[1].input) BY <1>1, <1>2
<1>6. \A i \in 1 .. Len(u) - 1 : d[i + 1] = Len(t[i].ids) /\ b[i + 1] = Bytes(t[i].input)
  BY <1>1, <1>3
<1>7. Tail(d) = [i \in DOMAIN t |-> Len(t[i].ids)] /\ Tail(b) = [i \in DOMAIN t |-> Bytes(t[i].input)]
  <2>. DEFINE n == Len(u)
  <2>. HIDE DEF d, b, t, n
  <2>1. /\ DOMAIN Tail(d) = 1 .. n - 1 /\ DOMAIN Tail(b) = 1 .. n - 1
        /\ \A i \in 1 .. n - 1 : Tail(d)[i] = d[i + 1] /\ Tail(b)[i] = b[i + 1]
    BY <1>1, <1>2 DEF n
  <2>2. DOMAIN t = 1 .. n - 1 BY <1>4 DEF n
  <2>3. Tail(d) = [i \in 1 .. n - 1 |-> Tail(d)[i]] /\ Tail(b) = [i \in 1 .. n - 1 |-> Tail(b)[i]]
    <3>1. \A s \in Seq(Nat) : s = [i \in DOMAIN s |-> s[i]] OBVIOUS
    <3>2. Tail(d) \in Seq(Nat) /\ Tail(b) \in Seq(Nat) BY <1>1, <1>2
    <3> QED BY <2>1, <3>1, <3>2
  <2> QED BY <1>6, <2>1, <2>2, <2>3 DEF n
<1>8. d # <<>> /\ b # <<>> BY <1>1, <1>2
<1>9. Depth(u) = Total(d) /\ Size(u) = Total(b) BY DEF Depth, Size
<1>10. Depth(t) = Total(Tail(d)) /\ Size(t) = Total(Tail(b)) BY <1>7 DEF Depth, Size
<1>. HIDE DEF d, b, t
<1>11. Total(d) = d[1] + Total(Tail(d)) /\ Total(b) = b[1] + Total(Tail(b))
  BY <1>1, <1>8, SumFromHead
<1>12. /\ Total(d) \in Nat /\ Total(b) \in Nat
       /\ Tail(d) \in Seq(Nat) /\ Tail(b) \in Seq(Nat)
  BY <1>1, <1>8, SumsKnown
<1>13. Total(Tail(d)) \in Nat /\ Total(Tail(b)) \in Nat BY <1>12, SumsKnown
<1> QED BY <1>5, <1>9, <1>10, <1>11, <1>12, <1>13 DEF t

LEMMA CountToLast ==
  ASSUME NEW u, u \in Seq(Entries), NEW v, v \in Seq(Entries), Len(v) = Len(u) + 1,
         \A i \in 1 .. Len(u) : v[i] = u[i]
  PROVE  /\ Depth(v) = Depth(u) + Len(v[Len(v)].ids)
         /\ Size(v) = Size(u) + Bytes(v[Len(v)].input)
         /\ Depth(u) \in Nat /\ Size(u) \in Nat
<1>. DEFINE d == [i \in DOMAIN u |-> Len(u[i].ids)]
            b == [i \in DOMAIN u |-> Bytes(u[i].input)]
            dv == [i \in DOMAIN v |-> Len(v[i].ids)]
            bv == [i \in DOMAIN v |-> Bytes(v[i].input)]
<1>1. /\ d \in Seq(Nat) /\ b \in Seq(Nat) /\ Len(d) = Len(u) /\ Len(b) = Len(u)
      /\ DOMAIN u = 1 .. Len(u) /\ Len(u) \in Nat
  BY EntryCounts
<1>2. /\ dv \in Seq(Nat) /\ bv \in Seq(Nat) /\ Len(dv) = Len(v) /\ Len(bv) = Len(v)
      /\ DOMAIN v = 1 .. Len(v) /\ Len(v) \in Nat
  BY EntryCounts
<1>3. \A i \in 1 .. Len(u) : dv[i] = d[i] /\ bv[i] = b[i] BY <1>1, <1>2
<1>4. dv[Len(v)] = Len(v[Len(v)].ids) /\ bv[Len(v)] = Bytes(v[Len(v)].input)
  <2>1. Len(v) \in DOMAIN v BY <1>1, <1>2
  <2> QED BY <2>1
<1>5. /\ Depth(u) = Total(d) /\ Size(u) = Total(b)
      /\ Depth(v) = Total(dv) /\ Size(v) = Total(bv)
  BY DEF Depth, Size
<1>. HIDE DEF d, b, dv, bv
<1>6. Total(dv) = Total(d) + dv[Len(dv)] BY <1>1, <1>2, <1>3, SumToLast, ZenonT(30)
<1>7. Total(bv) = Total(b) + bv[Len(bv)] BY <1>1, <1>2, <1>3, SumToLast, ZenonT(30)
<1>8. Total(d) \in Nat /\ Total(b) \in Nat BY <1>1, SumsKnown
<1> QED BY <1>2, <1>4, <1>5, <1>6, <1>7, <1>8

\* One more waiter for the last entry.
LEMMA CountJoined ==
  ASSUME NEW u, u \in Seq(Entries), u # <<>>, NEW e \in Entries, e.input = u[Len(u)].input,
         Len(e.ids) = Len(u[Len(u)].ids) + 1
  PROVE  /\ Depth([u EXCEPT ![Len(u)] = e]) = Depth(u) + 1
         /\ Size([u EXCEPT ![Len(u)] = e]) = Size(u)
<1>. DEFINE n == Len(u)
            front == SubSeq(u, 1, n - 1)
            v == [u EXCEPT ![n] = e]
<1>1. n \in Nat /\ n > 0 /\ n \in DOMAIN u BY EmptySeq, LenProperties
<1>2. /\ front \in Seq(Entries) /\ Len(front) = n - 1
      /\ \A i \in 1 .. n - 1 : front[i] = u[i]
  <2>1. 1 \in 1 .. n + 1 /\ n - 1 \in 0 .. n /\ n - 1 - 1 + 1 = n - 1 BY <1>1
  <2>2. \A i \in 1 .. n - 1 : i \in 1 .. n /\ 1 + i - 1 = i BY <1>1
  <2> QED BY <1>1, <2>1, <2>2, SubSeqProperties
<1>3. v \in Seq(Entries) /\ Len(v) = n /\ v[n] = e /\ \A i \in 1 .. n - 1 : v[i] = u[i]
  BY <1>1
<1>4. u[n] \in Entries BY <1>1
<1>. HIDE DEF front, v
<1>5. /\ Depth(u) = Depth(front) + Len(u[n].ids) /\ Size(u) = Size(front) + Bytes(u[n].input)
      /\ Depth(front) \in Nat /\ Size(front) \in Nat
  <2>1. Len(u) = Len(front) + 1 /\ \A i \in 1 .. Len(front) : u[i] = front[i] BY <1>1, <1>2
  <2> QED BY <1>2, <2>1, CountToLast
<1>6. Depth(v) = Depth(front) + Len(v[n].ids) /\ Size(v) = Size(front) + Bytes(v[n].input)
  <2>1. Len(v) = Len(front) + 1 /\ \A i \in 1 .. Len(front) : v[i] = front[i]
    BY <1>1, <1>2, <1>3
  <2> QED BY <1>2, <1>3, <2>1, CountToLast
<1>7. Len(u[n].ids) \in Nat BY <1>4, EntryBounds
<1>8. Depth(v) = Depth(u) + 1 /\ Size(v) = Size(u)
  <2>. DEFINE a == Depth(front)  k == Len(u[n].ids)
  <2>1. a \in Nat /\ k \in Nat /\ Depth(u) = a + k /\ Depth(v) = a + (k + 1)
    BY <1>3, <1>5, <1>6, <1>7
  <2>. HIDE DEF a, k
  <2>2. Depth(v) = Depth(u) + 1 BY <2>1
  <2>3. Size(v) = Size(u) BY <1>3, <1>5, <1>6
  <2> QED BY <2>2, <2>3
<1> QED BY <1>8 DEF v

-----------------------------------------------------------------------------
(* The books of the queue: the entries u that are not settled, what was     *)
(* accepted and how it settled.                                            *)

Verdicts == {"pending", "completed", "coalesced", "rejected", "failed"}

\* The inputs of an entry are consecutive, alike and not settled.
Filed(e, acc, out) ==
  /\ e.ids # <<>>
  /\ \A k \in DOMAIN e.ids : /\ e.ids[k] = e.ids[1] + (k - 1)
                             /\ e.ids[k] \in DOMAIN out
                             /\ acc[e.ids[k]] = e.input
                             /\ out[e.ids[k]] = "pending"

\* Entries keep the order of acceptance, and together wait for all that is pending.
Books(u, acc, out) ==
  /\ u \in Seq(Entries) /\ acc \in Seq(Inputs) /\ out \in Seq(Verdicts)
  /\ Len(out) = Len(acc)
  /\ \A i \in DOMAIN u : Filed(u[i], acc, out)
  /\ \A i, j \in DOMAIN u : i < j => u[i].ids[Len(u[i].ids)] < u[j].ids[1]
  /\ {i \in DOMAIN out : out[i] = "pending"} = Waiters(u)

\* An entry is active exactly while the pump runs, at one of its steps.
Running ==
  /\ active \in Entries \cup {None}
  /\ active # None <=> pump = "running"
  /\ active # None <=> dispatch # "none"
  /\ step \in Nat /\ (active # None => step > 0)

\* What was sent: nothing of what still waits, of the active entry only what its
\* dispatch has come to, and that without a gap.
Deliveries ==
  /\ sent \in Seq(Nat \X Nat)
  /\ \A m \in DOMAIN sent :
       /\ sent[m][1] <= Len(accepted)
       /\ \A i \in DOMAIN pending : sent[m][1] < pending[i].ids[1]
       /\ active # None =>
            \/ sent[m][1] < active.ids[1]
            \/ /\ sent[m][1] = Last(active.ids) /\ sent[m][2] <= step
               /\ dispatch \in {"sleeping", "awake"} => sent[m][2] < step
  /\ \A k \in Nat \ {0} :
       (dispatch \in {"writing", "calling", "ok"} /\ k <= step)
         \/ (dispatch \in {"sleeping", "awake"} /\ k < step)
       => <<Last(active.ids), k>> \in ToSet(sent)
  /\ SentInOrder

\* What is accepted last is at the tail, where the next input may join it.
Newest == pending # <<>> => Last(Last(pending).ids) = Len(accepted)

Kept ==
  /\ Running /\ Books(Unsettled, accepted, outcome) /\ Newest
  /\ depth = Depth(Unsettled) /\ bytes = Size(Unsettled)
  /\ Deliveries /\ OutcomeIsTrue

\* The inputs of an entry lie between its first and its last.
LEMMA FiledIds ==
  ASSUME NEW e \in Entries, NEW acc, NEW out \in Seq(Verdicts), Filed(e, acc, out)
  PROVE  /\ e.ids \in Seq(Nat) /\ Len(e.ids) \in Nat /\ Len(e.ids) > 0
         /\ e.ids[1] \in Nat /\ e.ids[Len(e.ids)] \in Nat /\ Last(e.ids) = e.ids[Len(e.ids)]
         /\ \A k \in DOMAIN e.ids : e.ids[1] <= e.ids[k] /\ e.ids[k] <= e.ids[Len(e.ids)]
         /\ ToSet(e.ids) \subseteq DOMAIN out
         /\ \A x \in ToSet(e.ids) : /\ e.ids[1] <= x /\ x <= Last(e.ids)
                                    /\ acc[x] = e.input /\ out[x] = "pending"
<1>. DEFINE ids == e.ids  n == Len(ids)
<1>1. ids \in Seq(Nat) /\ ids # <<>> BY DEF Entries, Filed
<1>2. n \in Nat /\ n > 0 /\ DOMAIN ids = 1 .. n BY <1>1
<1>3. \A k \in 1 .. n : ids[k] \in Nat /\ ids[k] = ids[1] + (k - 1) BY <1>1, <1>2, SMTT(30) DEF Filed
<1>4. 1 \in 1 .. n /\ n \in 1 .. n BY <1>2
<1>5. \A k \in 1 .. n : ids[1] <= ids[k] /\ ids[k] <= ids[n]
  <2>1. SUFFICES ASSUME NEW k \in 1 .. n PROVE ids[1] <= ids[k] /\ ids[k] <= ids[n] OBVIOUS
  <2>. DEFINE a == ids[1]  b == ids[k]  c == ids[n]
  <2>2. a \in Nat /\ b = a + (k - 1) /\ c = a + (n - 1) BY <1>3, <1>4
  <2>. HIDE DEF a, b, c
  <2>3. a <= b /\ b <= c BY <1>2, <2>2
  <2> QED BY <2>3 DEF a, b, c
<1>6. Last(ids) = ids[n] BY DEF Last
<1>7. \A x \in ToSet(ids) : \E k \in 1 .. n : x = ids[k] BY <1>2 DEF ToSet
<1>8. \A k \in 1 .. n : ids[k] \in DOMAIN out /\ acc[ids[k]] = e.input /\ out[ids[k]] = "pending"
  BY <1>2 DEF Filed
<1> QED BY <1>1, <1>2, <1>3, <1>4, <1>5, <1>6, <1>7, <1>8, ZenonT(30)

\* No input waits for two entries.
LEMMA BooksApart ==
  ASSUME NEW u, NEW acc, NEW out, Books(u, acc, out),
         NEW i \in DOMAIN u, NEW j \in DOMAIN u, i # j,
         NEW x, x \in ToSet(u[i].ids), x \in ToSet(u[j].ids)
  PROVE  FALSE
<1>1. u[i] \in Entries /\ u[j] \in Entries /\ out \in Seq(Verdicts) /\ i \in Int /\ j \in Int
  BY DEF Books
<1>2. Filed(u[i], acc, out) /\ Filed(u[j], acc, out) BY DEF Books
<1>3. /\ u[i].ids[1] <= x /\ x <= u[i].ids[Len(u[i].ids)] /\ u[i].ids[1] \in Nat
      /\ u[i].ids[Len(u[i].ids)] \in Nat
  BY <1>1, <1>2, FiledIds
<1>4. /\ u[j].ids[1] <= x /\ x <= u[j].ids[Len(u[j].ids)] /\ u[j].ids[1] \in Nat
      /\ u[j].ids[Len(u[j].ids)] \in Nat
  BY <1>1, <1>2, FiledIds
<1>5. x \in Nat
  <2>1. x \in DOMAIN out /\ out \in Seq(Verdicts) BY <1>1, <1>2, FiledIds
  <2> QED BY <2>1
<1>6. CASE i < j
  <2>1. u[i].ids[Len(u[i].ids)] < u[j].ids[1] BY <1>6 DEF Books
  <2> QED BY <1>3, <1>4, <1>5, <2>1
<1>7. CASE j < i
  <2>1. u[j].ids[Len(u[j].ids)] < u[i].ids[1] BY <1>7 DEF Books
  <2> QED BY <1>3, <1>4, <1>5, <2>1
<1> QED BY <1>1, <1>6, <1>7

LEMMA WaitersAre ==
  ASSUME NEW u, NEW x
  PROVE  x \in Waiters(u) <=> \E i \in DOMAIN u : x \in ToSet(u[i].ids)
BY DEF Waiters

\* Entries leave the books as what waited for them is settled; those that stay,
\* v, keep their order.
LEMMA BooksKeep ==
  ASSUME NEW u, NEW acc, NEW out, Books(u, acc, out),
         NEW v \in Seq(Entries), NEW h \in [DOMAIN v -> DOMAIN u],
         \A i \in DOMAIN v : v[i] = u[h[i]],
         \A i, j \in DOMAIN v : i < j => h[i] < h[j],
         NEW new \in Seq(Verdicts), Len(new) = Len(out),
         \A x \in DOMAIN out :
           IF x \in Waiters(u) /\ x \notin Waiters(v) THEN new[x] # "pending"
           ELSE new[x] = out[x]
  PROVE  Books(v, acc, new)
<1>1. /\ u \in Seq(Entries) /\ acc \in Seq(Inputs) /\ out \in Seq(Verdicts)
      /\ Len(out) = Len(acc) /\ DOMAIN new = DOMAIN out
      /\ {x \in DOMAIN out : out[x] = "pending"} = Waiters(u)
  BY DEF Books
<1>2. ASSUME NEW i \in DOMAIN v PROVE Filed(v[i], acc, new)
  <2>1. h[i] \in DOMAIN u /\ v[i] = u[h[i]] /\ Filed(v[i], acc, out) BY DEF Books
  <2>2. v[i] \in Entries OBVIOUS
  <2>3. \A k \in DOMAIN v[i].ids : new[v[i].ids[k]] = out[v[i].ids[k]]
    <3>1. SUFFICES ASSUME NEW k \in DOMAIN v[i].ids PROVE new[v[i].ids[k]] = out[v[i].ids[k]]
      OBVIOUS
    <3>2. v[i].ids[k] \in ToSet(v[i].ids) BY DEF ToSet
    <3>3. v[i].ids[k] \in Waiters(v) BY <3>2, WaitersAre
    <3>4. v[i].ids[k] \in DOMAIN out BY <2>1 DEF Filed
    <3> QED BY <3>3, <3>4
  <2> QED BY <1>1, <2>1, <2>3 DEF Filed
<1>3. ASSUME NEW i \in DOMAIN v, NEW j \in DOMAIN v, i < j
      PROVE  v[i].ids[Len(v[i].ids)] < v[j].ids[1]
  <2>1. h[i] \in DOMAIN u /\ h[j] \in DOMAIN u /\ h[i] < h[j] BY <1>3
  <2> QED BY <2>1 DEF Books
<1>4. Waiters(v) \subseteq Waiters(u)
  <2>1. SUFFICES ASSUME NEW x \in Waiters(v) PROVE x \in Waiters(u) OBVIOUS
  <2>2. PICK i \in DOMAIN v : x \in ToSet(v[i].ids) BY WaitersAre
  <2>3. h[i] \in DOMAIN u /\ x \in ToSet(u[h[i]].ids) BY <2>2
  <2> QED BY <2>3, WaitersAre
<1>5. {x \in DOMAIN new : new[x] = "pending"} = Waiters(v)
  BY <1>1, <1>4
<1> QED BY <1>1, <1>2, <1>3, <1>5 DEF Books

\* A new entry at the end.
LEMMA BooksPush ==
  ASSUME NEW u, NEW acc, NEW out, Books(u, acc, out), NEW input \in Inputs
  PROVE  Books(Append(u, [ids |-> <<Len(acc) + 1>>, input |-> input]),
               Append(acc, input), Append(out, "pending"))
<1>. DEFINE m == Len(acc)
            n == Len(u)
            e == [ids |-> <<m + 1>>, input |-> input]
            v == Append(u, e)
            a == Append(acc, input)
            o == Append(out, "pending")
<1>1. /\ u \in Seq(Entries) /\ acc \in Seq(Inputs) /\ out \in Seq(Verdicts) /\ Len(out) = m
      /\ m \in Nat /\ n \in Nat
      /\ {x \in DOMAIN out : out[x] = "pending"} = Waiters(u)
  BY DEF Books
<1>2. e \in Entries /\ e.ids = <<m + 1>> /\ e.input = input
  <2>1. <<m + 1>> \in Seq(Nat) BY <1>1
  <2> QED BY <2>1 DEF Entries
<1>3. Len(e.ids) = 1 /\ e.ids[1] = m + 1 /\ DOMAIN e.ids = 1 .. 1 BY <1>2
<1>. HIDE DEF e
<1>4. /\ v \in Seq(Entries) /\ Len(v) = n + 1 /\ v[n + 1] = e /\ \A i \in 1 .. n : v[i] = u[i]
  BY <1>1, <1>2
<1>5. /\ a \in Seq(Inputs) /\ Len(a) = m + 1 /\ a[m + 1] = input /\ \A i \in 1 .. m : a[i] = acc[i]
  BY <1>1
<1>6. /\ o \in Seq(Verdicts) /\ Len(o) = m + 1 /\ o[m + 1] = "pending"
      /\ \A i \in 1 .. m : o[i] = out[i]
  BY <1>1 DEF Verdicts
<1>. HIDE DEF v, a, o, m, n
<1>7. DOMAIN u = 1 .. n /\ DOMAIN v = 1 .. n + 1 /\ DOMAIN out = 1 .. m /\ DOMAIN o = 1 .. m + 1
  BY <1>1, <1>4, <1>6 DEF n
<1>8. ASSUME NEW i \in 1 .. n
      PROVE  /\ Filed(v[i], a, o) /\ v[i] = u[i]
             /\ v[i].ids[Len(v[i].ids)] < m + 1 /\ v[i].ids[Len(v[i].ids)] \in Nat
  <2>1. v[i] = u[i] /\ u[i] \in Entries /\ Filed(u[i], acc, out)
    <3>1. i \in DOMAIN u BY <1>7
    <3>2. Filed(u[i], acc, out) BY <3>1 DEF Books
    <3> QED BY <1>1, <1>4, <3>1, <3>2
  <2>2. \A k \in DOMAIN u[i].ids : u[i].ids[k] \in 1 .. m BY <1>7, <2>1 DEF Filed
  <2>3. \A k \in DOMAIN u[i].ids : a[u[i].ids[k]] = acc[u[i].ids[k]] /\ o[u[i].ids[k]] = out[u[i].ids[k]]
    BY <1>5, <1>6, <2>2
  <2>4. \A k \in DOMAIN u[i].ids : u[i].ids[k] \in DOMAIN o BY <1>1, <1>7, <2>2
  <2>5. Filed(u[i], a, o) BY <2>1, <2>3, <2>4 DEF Filed
  <2>6. u[i].ids[Len(u[i].ids)] \in 1 .. m
    <3>1. Len(u[i].ids) \in DOMAIN u[i].ids
      <4>1. u[i].ids \in Seq(Nat) /\ Len(u[i].ids) \in Nat /\ Len(u[i].ids) > 0
        BY <1>1, <2>1, FiledIds
      <4> QED BY <4>1
    <3> QED BY <2>2, <3>1
  <2> QED BY <1>1, <2>1, <2>5, <2>6
<1>9. Filed(e, a, o)
  <2>1. e.ids # <<>> BY <1>2
  <2>2. \A k \in DOMAIN e.ids : k = 1 BY <1>3
  <2> QED BY <1>1, <1>2, <1>3, <1>5, <1>6, <1>7, <2>1, <2>2 DEF Filed
<1>10. \A i \in DOMAIN v : Filed(v[i], a, o)
  <2>1. \A i \in 1 .. n + 1 : i \in 1 .. n \/ i = n + 1 BY <1>1
  <2> QED BY <1>4, <1>7, <1>8, <1>9, <2>1
<1>11. ASSUME NEW i \in DOMAIN v, NEW j \in DOMAIN v, i < j
       PROVE  v[i].ids[Len(v[i].ids)] < v[j].ids[1]
  <2>1. i \in 1 .. n /\ (j \in 1 .. n \/ j = n + 1) BY <1>1, <1>7, <1>11
  <2>2. CASE j = n + 1 BY <1>3, <1>4, <1>8, <2>1, <2>2
  <2>3. CASE j \in 1 .. n
    <3>1. u[i].ids[Len(u[i].ids)] < u[j].ids[1] BY <1>7, <1>11, <2>1, <2>3 DEF Books
    <3> QED BY <1>4, <2>1, <2>3, <3>1
  <2> QED BY <2>1, <2>2, <2>3
<1>12. {x \in DOMAIN o : o[x] = "pending"} = Waiters(v)
  <2>1. \A x : x \in Waiters(u) <=> x \in 1 .. m /\ out[x] = "pending" BY <1>1, <1>7
  <2>2. ToSet(e.ids) = {m + 1} BY <1>3 DEF ToSet
  <2>3. \A x : x \in Waiters(v) <=> x \in Waiters(u) \/ x = m + 1
    <3>1. ASSUME NEW x PROVE x \in Waiters(v) <=> x \in Waiters(u) \/ x = m + 1
      <4>1. x \in Waiters(v) <=> \E i \in 1 .. n + 1 : x \in ToSet(v[i].ids) BY <1>7, WaitersAre
      <4>2. x \in Waiters(u) <=> \E i \in 1 .. n : x \in ToSet(u[i].ids) BY <1>7, WaitersAre
      <4>3. \A i \in 1 .. n + 1 : i \in 1 .. n \/ i = n + 1 BY <1>1
      <4>4. \A i \in 1 .. n : i \in 1 .. n + 1 BY <1>1
      <4>5. n + 1 \in 1 .. n + 1 BY <1>1
      <4> QED BY <1>4, <2>2, <4>1, <4>2, <4>3, <4>4, <4>5
    <3> QED BY <3>1
  <2>4. \A x : x \in 1 .. m + 1 <=> x \in 1 .. m \/ x = m + 1 BY <1>1
  <2> QED BY <1>6, <1>7, <2>1, <2>3, <2>4
<1>13. Len(o) = Len(a) BY <1>5, <1>6
<1>14. Books(v, a, o) BY <1>4, <1>5, <1>6, <1>10, <1>11, <1>12, <1>13 DEF Books
<1> QED BY <1>14 DEF v, a, o, e, m

\* One more waiter for the last entry, if it ends with the newest input.
LEMMA BooksJoin ==
  ASSUME NEW u, NEW acc, NEW out, Books(u, acc, out), u # <<>>,
         NEW input \in Inputs, u[Len(u)].input = input, Last(u[Len(u)].ids) = Len(acc)
  PROVE  Books([u EXCEPT ![Len(u)] = [ids |-> Append(u[Len(u)].ids, Len(acc) + 1), input |-> input]],
               Append(acc, input), Append(out, "pending"))
<1>. DEFINE m == Len(acc)
            n == Len(u)
            ids == u[n].ids
            e == [ids |-> Append(ids, m + 1), input |-> input]
            v == [u EXCEPT ![n] = e]
            a == Append(acc, input)
            o == Append(out, "pending")
<1>1. /\ u \in Seq(Entries) /\ acc \in Seq(Inputs) /\ out \in Seq(Verdicts) /\ Len(out) = m
      /\ m \in Nat /\ n \in Nat /\ n > 0 /\ n \in DOMAIN u
      /\ {x \in DOMAIN out : out[x] = "pending"} = Waiters(u)
  BY EmptySeq, LenProperties DEF Books
<1>2. u[n] \in Entries /\ Filed(u[n], acc, out) BY <1>1 DEF Books
<1>3. /\ ids \in Seq(Nat) /\ Len(ids) \in Nat /\ Len(ids) > 0 /\ ids[1] \in Nat
      /\ ids[Len(ids)] = m /\ Last(ids) = m
      /\ \A k \in DOMAIN ids : ids[k] = ids[1] + (k - 1)
  <2>1. Last(ids) = m OBVIOUS
  <2>2. \A k \in DOMAIN ids : ids[k] = ids[1] + (k - 1) BY <1>2 DEF Filed
  <2>3. /\ ids \in Seq(Nat) /\ Len(ids) \in Nat /\ Len(ids) > 0 /\ ids[1] \in Nat
        /\ Last(ids) = ids[Len(ids)]
    BY <1>1, <1>2, FiledIds
  <2> QED BY <2>1, <2>2, <2>3
<1>. DEFINE l == Len(ids)
<1>4. /\ e \in Entries /\ e.input = input /\ e.ids \in Seq(Nat) /\ Len(e.ids) = l + 1
      /\ e.ids[l + 1] = m + 1 /\ \A k \in 1 .. l : e.ids[k] = ids[k]
  <2>1. Append(ids, m + 1) \in Seq(Nat) BY <1>1, <1>3
  <2>2. e.ids = Append(ids, m + 1) /\ e.input = input /\ e \in Entries BY <2>1 DEF Entries
  <2> QED BY <1>1, <1>3, <2>1, <2>2
<1>5. DOMAIN e.ids = 1 .. l + 1 /\ DOMAIN ids = 1 .. l /\ l \in Nat /\ l > 0 BY <1>3, <1>4
<1>. HIDE DEF e
<1>6. v \in Seq(Entries) /\ Len(v) = n /\ v[n] = e /\ \A i \in 1 .. n : i # n => v[i] = u[i]
  BY <1>1, <1>4
<1>7. /\ a \in Seq(Inputs) /\ Len(a) = m + 1 /\ a[m + 1] = input /\ \A i \in 1 .. m : a[i] = acc[i]
  BY <1>1
<1>8. /\ o \in Seq(Verdicts) /\ Len(o) = m + 1 /\ o[m + 1] = "pending"
      /\ \A i \in 1 .. m : o[i] = out[i]
  BY <1>1 DEF Verdicts
<1>. HIDE DEF v, a, o, m, n, l, ids
<1>9. DOMAIN u = 1 .. n /\ DOMAIN v = 1 .. n /\ DOMAIN out = 1 .. m /\ DOMAIN o = 1 .. m + 1
  BY <1>1, <1>6, <1>8 DEF n
<1>10. ASSUME NEW i \in 1 .. n
       PROVE  /\ \A k \in DOMAIN u[i].ids : /\ u[i].ids[k] \in DOMAIN o
                                            /\ a[u[i].ids[k]] = u[i].input
                                            /\ o[u[i].ids[k]] = "pending"
              /\ Filed(u[i], acc, out)
  <2>1. Filed(u[i], acc, out) BY <1>9 DEF Books
  <2>2. \A k \in DOMAIN u[i].ids : u[i].ids[k] \in 1 .. m BY <1>9, <2>1 DEF Filed
  <2>3. \A k \in DOMAIN u[i].ids : u[i].ids[k] \in DOMAIN o BY <1>1, <1>9, <2>2
  <2> QED BY <1>7, <1>8, <2>1, <2>2, <2>3 DEF Filed
<1>11. ASSUME NEW k \in 1 .. l + 1
       PROVE  /\ e.ids[k] = e.ids[1] + (k - 1) /\ e.ids[k] \in DOMAIN o
              /\ a[e.ids[k]] = input /\ o[e.ids[k]] = "pending"
  <2>1. 1 \in 1 .. l /\ e.ids[1] = ids[1] BY <1>4, <1>5
  <2>2. CASE k \in 1 .. l
    <3>1. e.ids[k] = ids[k] /\ ids[k] = ids[1] + (k - 1) BY <1>3, <1>4, <1>5, <2>2
    <3>2. /\ ids[k] \in DOMAIN o /\ a[ids[k]] = input /\ o[ids[k]] = "pending"
      BY <1>1, <1>5, <1>9, <1>10, <2>2 DEF ids, n
    <3> QED BY <2>1, <3>1, <3>2
  <2>3. CASE k = l + 1
    <3>1. ids[l] = ids[1] + (l - 1)
      <4>1. l \in DOMAIN ids BY <1>5
      <4> QED BY <1>3, <4>1
    <3>2. m = ids[1] + (l - 1) BY <1>3, <3>1 DEF l
    <3>3. m + 1 = ids[1] + ((l + 1) - 1) BY <1>1, <1>3, <1>5, <3>2
    <3>4. m + 1 \in 1 .. m + 1 BY <1>1
    <3> QED BY <1>4, <1>7, <1>8, <1>9, <2>1, <2>3, <3>3, <3>4
  <2>4. k \in 1 .. l \/ k = l + 1 BY <1>5
  <2> QED BY <2>2, <2>3, <2>4
<1>12. Filed(e, a, o)
  <2>1. e.ids # <<>> BY <1>4, <1>5
  <2> QED BY <1>4, <1>5, <1>11, <2>1 DEF Filed
<1>13. ASSUME NEW i \in DOMAIN v PROVE Filed(v[i], a, o)
  <2>1. CASE i = n BY <1>6, <1>12, <2>1
  <2>2. CASE i # n BY <1>6, <1>9, <1>10, <2>2 DEF Filed
  <2> QED BY <2>1, <2>2
<1>14. ASSUME NEW i \in DOMAIN v, NEW j \in DOMAIN v, i < j
       PROVE  v[i].ids[Len(v[i].ids)] < v[j].ids[1]
  <2>1. i # n /\ i \in 1 .. n /\ j \in 1 .. n BY <1>1, <1>9, <1>14
  <2>2. u[i].ids[Len(u[i].ids)] < u[j].ids[1] BY <1>9, <1>14, <2>1 DEF Books
  <2>3. v[i] = u[i] BY <1>6, <2>1
  <2>4. v[j].ids[1] = u[j].ids[1]
    <3>1. 1 \in 1 .. l BY <1>5
    <3> QED BY <1>4, <1>6, <2>1, <3>1, SMTT(30) DEF ids
  <2> QED BY <2>2, <2>3, <2>4
<1>15. {x \in DOMAIN o : o[x] = "pending"} = Waiters(v)
  <2>1. \A x : x \in Waiters(u) <=> x \in 1 .. m /\ out[x] = "pending" BY <1>1, <1>9
  <2>2. \A x : x \in ToSet(e.ids) <=> x \in ToSet(ids) \/ x = m + 1
    <3>1. \A k \in 1 .. l + 1 : k \in 1 .. l \/ k = l + 1 BY <1>5
    <3>2. \A k \in 1 .. l : k \in 1 .. l + 1 BY <1>5
    <3>3. l + 1 \in 1 .. l + 1 BY <1>5
    <3> QED BY <1>4, <1>5, <3>1, <3>2, <3>3 DEF ToSet
  <2>3. \A x : x \in Waiters(v) <=> x \in Waiters(u) \/ x = m + 1
    <3>1. ASSUME NEW x PROVE x \in Waiters(v) <=> x \in Waiters(u) \/ x = m + 1
      <4>1. x \in Waiters(v) <=> \E i \in 1 .. n : x \in ToSet(v[i].ids) BY <1>9, WaitersAre
      <4>2. x \in Waiters(u) <=> \E i \in 1 .. n : x \in ToSet(u[i].ids) BY <1>9, WaitersAre
      <4>3. ToSet(u[n].ids) = ToSet(ids) BY DEF ids
      <4>4. n \in 1 .. n BY <1>1
      <4> QED BY <1>6, <2>2, <4>1, <4>2, <4>3, <4>4
    <3> QED BY <3>1
  <2>4. \A x : x \in 1 .. m + 1 <=> x \in 1 .. m \/ x = m + 1 BY <1>1
  <2> QED BY <1>8, <1>9, <2>1, <2>3, <2>4
<1>16. Books(v, a, o) BY <1>6, <1>7, <1>8, <1>13, <1>14, <1>15 DEF Books
<1> QED BY <1>16 DEF v, a, o, e, m, n, ids

-----------------------------------------------------------------------------
(* The parts of a step.                                                    *)

LEMMA EntryFirst ==
  ASSUME NEW e \in Entries, NEW p \in Seq(Entries)
  PROVE  /\ <<e>> \o p \in Seq(Entries) /\ Len(<<e>> \o p) = Len(p) + 1 /\ <<e>> \o p # <<>>
         /\ (<<e>> \o p)[1] = e /\ Tail(<<e>> \o p) = p
         /\ \A i \in 1 .. Len(p) : (<<e>> \o p)[i + 1] = p[i]
<1>1. <<e>> \in Seq(Entries) /\ Len(<<e>>) = 1 /\ Len(p) \in Nat OBVIOUS
<1>. DEFINE u == <<e>> \o p
<1>2. u \in Seq(Entries) /\ Len(u) = Len(p) + 1 BY <1>1
<1>3. u[1] = e /\ \A i \in 1 .. Len(p) : u[i + 1] = p[i]
  <2>1. \A i \in 1 .. Len(p) : i + 1 \in 1 .. Len(p) + 1 /\ ~(i + 1 <= 1) /\ (i + 1) - 1 = i
    BY <1>1
  <2> QED BY <1>1, <2>1
<1>4. Tail(u) = p
  <2>. HIDE DEF u
  <2>1. u # <<>> BY <1>1, <1>2
  <2>2. /\ Tail(u) \in Seq(Entries) /\ Len(Tail(u)) = Len(p)
        /\ \A i \in 1 .. Len(p) : Tail(u)[i] = u[i + 1]
    BY <1>1, <1>2, <2>1
  <2>3. \A i \in 1 .. Len(p) : Tail(u)[i] = p[i] BY <1>3, <2>2
  <2> QED BY <2>2, <2>3, SeqEqual
<1>5. u # <<>> BY <1>1, <1>2
<1> QED BY <1>2, <1>3, <1>4, <1>5

\* The entries that are not settled: the active one, if any, then the pending.
LEMMA UnsettledIs ==
  ASSUME Running, pending \in Seq(Entries)
  PROVE  /\ Unsettled \in Seq(Entries)
         /\ active = None => Unsettled = pending
         /\ active # None => active \in Entries /\ Unsettled = <<active>> \o pending
                             /\ Unsettled # <<>> /\ Unsettled[1] = active /\ Tail(Unsettled) = pending
BY EntryFirst DEF Running, Unsettled

\* A step of an entry is handed on behind everything that was sent.
LEMMA Performed ==
  ASSUME NEW e \in Entries, NEW k \in Nat \ {0}, Perform(e, k), active' = e,
         UNCHANGED accepted, e.ids[1] \in Nat, Last(e.ids) \in Nat,
         e.ids[1] <= Last(e.ids), Last(e.ids) <= Len(accepted),
         \A i \in DOMAIN pending' : Last(e.ids) < pending'[i].ids[1],
         sent \in Seq(Nat \X Nat), SentInOrder,
         \A m \in DOMAIN sent :
           /\ sent[m][1] <= Len(accepted)
           /\ \A i \in DOMAIN pending' : sent[m][1] < pending'[i].ids[1]
           /\ \/ sent[m][1] < e.ids[1]
              \/ sent[m][1] = Last(e.ids) /\ sent[m][2] < k,
         \A j \in Nat \ {0} : j < k => <<Last(e.ids), j>> \in ToSet(sent)
  PROVE  Deliveries' /\ dispatch' # "none" /\ step' = k
<1>. DEFINE l == Last(e.ids)
<1>1. step' = k BY DEF Perform
<1>2. CASE adapter = "writer" /\ broken
  <2>1. dispatch' = "failed" /\ sent' = sent BY <1>2 DEF Perform
  <2>2. \A m \in DOMAIN sent : sent[m][2] < k => sent[m][2] <= k
    <3>1. \A m \in DOMAIN sent : sent[m][2] \in Nat OBVIOUS
    <3> QED BY <3>1
  <2>3. SentInOrder' BY <2>1 DEF SentInOrder
  <2> QED BY <1>1, <2>1, <2>2, <2>3 DEF Deliveries
<1>3. CASE ~(adapter = "writer" /\ broken)
  <2>1. /\ sent' = Append(sent, <<l, k>>)
        /\ dispatch' \in {"writing", "calling"}
    BY <1>3 DEF Perform
  <2>. DEFINE n == Len(sent)
  <2>2. /\ n \in Nat /\ DOMAIN sent = 1 .. n /\ DOMAIN sent' = 1 .. n + 1
        /\ sent' \in Seq(Nat \X Nat) /\ sent'[n + 1] = <<l, k>>
        /\ \A m \in 1 .. n : sent'[m] = sent[m]
    BY <2>1
  <2>. HIDE DEF n
  <2>3. \A m \in 1 .. n + 1 : m \in 1 .. n \/ m = n + 1 BY <2>2
  <2>4. sent'[n + 1][1] = l /\ sent'[n + 1][2] = k BY <2>2
  <2>5. \A m \in 1 .. n : sent[m][1] \in Nat /\ sent[m][2] \in Nat
    <3>1. \A m \in 1 .. n : sent[m] \in Nat \X Nat BY <2>2, SMTT(30)
    <3> QED BY <3>1
  <2>. HIDE DEF l
  <2>6. ASSUME NEW m \in 1 .. n + 1
        PROVE  /\ sent'[m][1] <= Len(accepted)
               /\ \A i \in DOMAIN pending' : sent'[m][1] < pending'[i].ids[1]
               /\ \/ sent'[m][1] < e.ids[1]
                  \/ sent'[m][1] = l /\ sent'[m][2] <= k
    <3>1. CASE m \in 1 .. n
      <4>1. sent'[m] = sent[m] /\ m \in DOMAIN sent BY <2>2, <3>1
      <4>2. sent[m][2] < k => sent[m][2] <= k BY <2>5, <3>1
      <4> QED BY <4>1, <4>2 DEF l
    <3>2. CASE m = n + 1 BY <2>4, <3>2 DEF l
    <3> QED BY <2>3, <3>1, <3>2
  <2>7. SentInOrder'
    <3>1. SUFFICES ASSUME NEW a \in DOMAIN sent', NEW b \in DOMAIN sent', a < b
                   PROVE  \/ sent'[a][1] < sent'[b][1]
                          \/ sent'[a][1] = sent'[b][1] /\ sent'[a][2] < sent'[b][2]
      BY DEF SentInOrder
    <3>2. a \in 1 .. n /\ (b \in 1 .. n \/ b = n + 1)
      <4>1. a \in 1 .. n + 1 /\ b \in 1 .. n + 1 BY <2>2
      <4> QED BY <2>2, <3>1, <4>1, SMTT(30)
    <3>3. CASE b \in 1 .. n
      <4>1. a \in DOMAIN sent /\ b \in DOMAIN sent BY <2>2, <3>2, <3>3
      <4>2. \/ sent[a][1] < sent[b][1]
            \/ sent[a][1] = sent[b][1] /\ sent[a][2] < sent[b][2]
        BY <3>1, <4>1 DEF SentInOrder
      <4> QED BY <2>2, <3>2, <3>3, <4>2
    <3>4. CASE b = n + 1
      <4>1. sent'[a] = sent[a] /\ a \in DOMAIN sent BY <2>2, <3>2
      <4>2. sent[a][1] < e.ids[1] \/ (sent[a][1] = l /\ sent[a][2] < k) BY <4>1 DEF l
      <4>3. sent[a][1] < e.ids[1] => sent[a][1] < l BY <2>5, <3>2 DEF l
      <4> QED BY <2>4, <3>4, <4>1, <4>2, <4>3
    <3> QED BY <3>2, <3>3, <3>4
  <2>8. ASSUME NEW j \in Nat \ {0}, j <= k PROVE <<l, j>> \in ToSet(sent')
    <3>1. CASE j = k
      <4>1. n + 1 \in DOMAIN sent' /\ sent'[n + 1] = <<l, j>> BY <2>2, <3>1
      <4> QED BY <4>1 DEF ToSet
    <3>2. CASE j < k
      <4>1. <<l, j>> \in ToSet(sent) BY <3>2 DEF l
      <4>2. PICK m \in DOMAIN sent : sent[m] = <<l, j>> BY <4>1 DEF ToSet
      <4>3. m \in DOMAIN sent' /\ sent'[m] = <<l, j>> BY <2>2, <4>2, SMTT(30)
      <4> QED BY <4>3 DEF ToSet
    <3> QED BY <2>8, <3>1, <3>2
  <2> QED BY <1>1, <2>1, <2>2, <2>6, <2>7, <2>8 DEF Deliveries, l
<1> QED BY <1>1, <1>2, <1>3

-----------------------------------------------------------------------------
(* The steps.                                                              *)

LEMMA KeptTypes ==
  ASSUME IInv, Kept
  PROVE  /\ pending \in Seq(Entries) /\ accepted \in Seq(Inputs) /\ outcome \in Seq(Verdicts)
         /\ Len(outcome) = Len(accepted) /\ Len(accepted) \in Nat
         /\ Unsettled \in Seq(Entries) /\ sent \in Seq(Nat \X Nat)
         /\ active \in Entries \cup {None} /\ None \notin Entries
  BY NoneIsNoEntry, UnsettledIs DEF IInv, Holds, Kept, Books, Deliveries, Running

\* The last of a sequence, of which the first is taken away.
LEMMA LastOfTail ==
  ASSUME NEW p \in Seq(Entries), p # <<>>, Tail(p) # <<>>
  PROVE  Last(Tail(p)) = Last(p)
<1>. DEFINE t == Tail(p)
<1>1. /\ t \in Seq(Entries) /\ Len(t) = Len(p) - 1 /\ Len(p) \in Nat
      /\ \A i \in 1 .. Len(p) - 1 : t[i] = p[i + 1]
  OBVIOUS
<1>. HIDE DEF t
<1>2. Len(t) > 0 /\ Len(t) \in Nat BY <1>1, EmptySeq, LenProperties DEF t
<1>3. t[Len(t)] = p[Len(p)]
  <2>1. Len(t) \in 1 .. Len(p) - 1 /\ Len(t) + 1 = Len(p) BY <1>1, <1>2
  <2> QED BY <1>1, <2>1
<1> QED BY <1>3 DEF Last, t

\* The pump takes the next of the entries that are left on the books.
LEMMA TakeKeeps ==
  ASSUME IInv, Kept, Take, UNCHANGED accepted, Books(pending, accepted, outcome'),
         depth' = Depth(pending), bytes' = Size(pending), OutcomeIsTrue'
  PROVE  Kept'
<1>1. /\ pending \in Seq(Entries) /\ accepted \in Seq(Inputs) /\ sent \in Seq(Nat \X Nat)
      /\ None \notin Entries /\ Len(accepted) \in Nat
  BY KeptTypes
<1>2. /\ SentInOrder
      /\ \A m \in DOMAIN sent :
           sent[m][1] <= Len(accepted) /\ \A i \in DOMAIN pending : sent[m][1] < pending[i].ids[1]
  BY DEF Kept, Deliveries
<1>3. CASE pending = <<>>
  <2>1. /\ active' = None /\ pending' = <<>> /\ step' = 0 /\ dispatch' = "none"
        /\ pump' = "idle" /\ sent' = sent
    BY <1>3 DEF Take
  <2>2. Unsettled' = <<>> BY <2>1 DEF Unsettled
  <2>3. Running' /\ Newest' BY <2>1 DEF Running, Newest
  <2>4. Deliveries'
    <3>1. SentInOrder' BY <1>2, <2>1 DEF SentInOrder
    <3> QED BY <1>1, <1>2, <2>1, <3>1 DEF Deliveries
  <2>5. Books(Unsettled', accepted', outcome') BY <1>3, <2>2
  <2>6. depth' = Depth(Unsettled') /\ bytes' = Size(Unsettled') BY <1>3, <2>2
  <2> QED BY <2>3, <2>4, <2>5, <2>6 DEF Kept
<1>4. CASE pending # <<>>
  <2>. DEFINE e == Head(pending)  p == Tail(pending)
  <2>1. /\ e \in Entries /\ e = pending[1] /\ 1 \in DOMAIN pending
        /\ p \in Seq(Entries) /\ Len(p) = Len(pending) - 1
        /\ DOMAIN pending = 1 .. Len(pending) /\ Len(pending) \in Nat
        /\ \A i \in DOMAIN p : i + 1 \in DOMAIN pending /\ p[i] = pending[i + 1] /\ i \in Nat
    BY <1>1, <1>4
  <2>2. /\ active' = e /\ pending' = p /\ Perform(e, 1) /\ pump' = "running"
    BY <1>4 DEF Take
  <2>3. <<e>> \o p = pending
    <3>1. /\ <<e>> \o p \in Seq(Entries) /\ Len(<<e>> \o p) = Len(pending)
          /\ (<<e>> \o p)[1] = e /\ \A i \in 1 .. Len(p) : (<<e>> \o p)[i + 1] = p[i]
      BY <2>1, EntryFirst
    <3>2. \A i \in 1 .. Len(pending) : (<<e>> \o p)[i] = pending[i]
      <4>1. SUFFICES ASSUME NEW i \in 1 .. Len(pending) PROVE (<<e>> \o p)[i] = pending[i]
        OBVIOUS
      <4>2. CASE i = 1 BY <2>1, <3>1, <4>2
      <4>3. CASE i # 1
        <5>1. i - 1 \in 1 .. Len(p) /\ (i - 1) + 1 = i BY <2>1, <4>3
        <5>2. i - 1 \in DOMAIN p BY <2>1, <5>1
        <5>3. (<<e>> \o p)[i] = p[i - 1] BY <3>1, <5>1
        <5>4. p[i - 1] = pending[i] BY <2>1, <5>1, <5>2
        <5> QED BY <5>3, <5>4
      <4> QED BY <4>2, <4>3
    <3> QED BY <1>1, <3>1, <3>2, SeqEqual
  <2>. HIDE DEF e, p
  <2>4. active' # None BY <1>1, <2>1, <2>2
  <2>5. Unsettled' = pending BY <2>2, <2>3, <2>4 DEF Unsettled
  <2>6. Filed(e, accepted, outcome') /\ outcome' \in Seq(Verdicts) BY <2>1 DEF Books
  <2>7. /\ e.ids[1] \in Nat /\ Last(e.ids) \in Nat /\ e.ids[1] <= Last(e.ids)
        /\ Last(e.ids) = e.ids[Len(e.ids)] /\ Last(e.ids) <= Len(accepted)
    <3>1. /\ e.ids[1] \in Nat /\ e.ids[Len(e.ids)] \in Nat /\ Last(e.ids) = e.ids[Len(e.ids)]
          /\ Len(e.ids) \in DOMAIN e.ids /\ e.ids[1] <= e.ids[Len(e.ids)]
      <4>1. /\ e.ids \in Seq(Nat) /\ Len(e.ids) \in Nat /\ Len(e.ids) > 0
            /\ e.ids[1] \in Nat /\ e.ids[Len(e.ids)] \in Nat /\ Last(e.ids) = e.ids[Len(e.ids)]
            /\ \A k \in DOMAIN e.ids : e.ids[1] <= e.ids[k] /\ e.ids[k] <= e.ids[Len(e.ids)]
        BY <2>1, <2>6, FiledIds
      <4>2. Len(e.ids) \in DOMAIN e.ids BY <4>1
      <4> QED BY <4>1, <4>2
    <3>2. e.ids[Len(e.ids)] \in DOMAIN outcome' BY <2>6, <3>1 DEF Filed
    <3>3. Len(outcome') = Len(accepted) BY DEF Books
    <3> QED BY <1>1, <2>6, <3>1, <3>2, <3>3
  <2>8. \A i \in DOMAIN pending' : Last(e.ids) < pending'[i].ids[1]
    <3>1. SUFFICES ASSUME NEW i \in DOMAIN p PROVE Last(e.ids) < p[i].ids[1] BY <2>2
    <3>2. i + 1 \in DOMAIN pending /\ p[i] = pending[i + 1] /\ 1 < i + 1 BY <2>1
    <3>3. pending[1].ids[Len(pending[1].ids)] < pending[i + 1].ids[1] BY <2>1, <3>2 DEF Books
    <3> QED BY <2>1, <2>7, <3>2, <3>3
  <2>9. \A m \in DOMAIN sent :
          /\ sent[m][1] <= Len(accepted)
          /\ \A i \in DOMAIN pending' : sent[m][1] < pending'[i].ids[1]
          /\ \/ sent[m][1] < e.ids[1]
             \/ sent[m][1] = Last(e.ids) /\ sent[m][2] < 1
    <3>1. \A m \in DOMAIN sent : \A i \in DOMAIN pending' : sent[m][1] < pending'[i].ids[1]
      BY <1>2, <2>1, <2>2
    <3>2. \A m \in DOMAIN sent : sent[m][1] < e.ids[1] BY <1>2, <2>1
    <3> QED BY <1>2, <3>1, <3>2
  <2>10. \A j \in Nat \ {0} : j < 1 => <<Last(e.ids), j>> \in ToSet(sent) OBVIOUS
  <2>11. 1 \in Nat \ {0} OBVIOUS
  <2>12. Deliveries' /\ dispatch' # "none" /\ step' = 1
    BY <1>1, <1>2, <2>1, <2>2, <2>7, <2>8, <2>9, <2>10, <2>11, Performed
  <2>13. Running' BY <2>1, <2>2, <2>4, <2>12 DEF Running
  <2>14. Newest'
    <3>1. SUFFICES ASSUME p # <<>> PROVE Last(Last(p).ids) = Len(accepted)
      BY <2>2 DEF Newest
    <3>2. Last(p) = Last(pending) BY <1>1, <1>4, <3>1, LastOfTail DEF p
    <3> QED BY <1>4, <3>2 DEF Kept, Newest
  <2> QED BY <2>5, <2>12, <2>13, <2>14 DEF Kept
<1> QED BY <1>3, <1>4

\* An input is accepted: a new entry, or a waiter of the last one.
LEMMA EnqueueKeeps ==
  ASSUME IInv, Kept, NEW input \in Inputs, Enqueue(input)
  PROVE  Kept'
<1>. DEFINE m == Len(accepted)
            n == Len(pending)
            u == Unsettled
<1>1. /\ pending \in Seq(Entries) /\ accepted \in Seq(Inputs) /\ outcome \in Seq(Verdicts)
      /\ Len(outcome) = m /\ m \in Nat /\ u \in Seq(Entries) /\ sent \in Seq(Nat \X Nat)
      /\ active \in Entries \cup {None} /\ None \notin Entries
  BY KeptTypes
<1>2. /\ UNCHANGED <<adapter, active, step, dispatch, waiting, sent>>
      /\ accepted' = Append(accepted, input) /\ outcome' = Append(outcome, "pending")
      /\ (pending # <<>> /\ Coalesces(Last(pending), input) /\ Join(input)) \/ Push(input)
  BY DEF Enqueue, adapting
<1>3. Len(accepted') = m + 1 /\ \A i \in 1 .. m : accepted'[i] = accepted[i] BY <1>1, <1>2
<1>4. /\ Books(u, accepted, outcome) /\ Running /\ Newest /\ depth = Depth(u) /\ bytes = Size(u)
  BY DEF Kept
<1>5. /\ active = None => u = pending
      /\ active # None => active \in Entries /\ u = <<active>> \o pending /\ u # <<>>
  BY <1>1, <1>4, UnsettledIs
<1>6. /\ SentInOrder
      /\ \A k \in DOMAIN sent :
           /\ sent[k][1] <= m /\ sent[k][1] \in Nat
           /\ \A i \in DOMAIN pending : sent[k][1] < pending[i].ids[1]
  <2>1. \A k \in DOMAIN sent : sent[k] \in Nat \X Nat BY <1>1
  <2> QED BY <2>1 DEF Kept, Deliveries
<1>7. OutcomeIsTrue'
  <2>1. /\ DOMAIN outcome = 1 .. m /\ DOMAIN outcome' = 1 .. m + 1 /\ outcome'[m + 1] = "pending"
        /\ \A i \in 1 .. m : outcome'[i] = outcome[i]
    BY <1>1, <1>2
  <2>2. \A i \in 1 .. m + 1 : i \in 1 .. m \/ i = m + 1 BY <1>1
  <2>3. ASSUME NEW i \in DOMAIN outcome', outcome'[i] = "coalesced"
        PROVE  \E j \in DOMAIN outcome' :
                 /\ j > i /\ outcome'[j] = "completed"
                 /\ \A k \in i .. j : accepted'[k] = accepted'[i]
    <3>1. i \in 1 .. m /\ outcome[i] = "coalesced" BY <2>1, <2>2, <2>3
    <3>2. PICK j \in 1 .. m : /\ j > i /\ outcome[j] = "completed"
                              /\ \A k \in i .. j : accepted[k] = accepted[i]
      BY <2>1, <3>1 DEF Kept, OutcomeIsTrue
    <3>3. j \in 1 .. m + 1 /\ \A k \in i .. j : k \in 1 .. m BY <1>1, <3>1
    <3> QED BY <1>3, <2>1, <3>1, <3>2, <3>3
  <2>4. ASSUME NEW i \in DOMAIN outcome', outcome'[i] = "completed"
        PROVE  \A k \in 1 .. Steps([ids |-> <<i>>, input |-> accepted[i]])' : <<i, k>> \in ToSet(sent')
    <3>1. i \in 1 .. m /\ outcome[i] = "completed" BY <2>1, <2>2, <2>4
    <3>2. \A k \in 1 .. Steps([ids |-> <<i>>, input |-> accepted[i]]) : <<i, k>> \in ToSet(sent)
      BY <2>1, <3>1 DEF Kept, OutcomeIsTrue
    <3>3. accepted'[i] = accepted[i] BY <1>3, <3>1
    <3>4. Steps([ids |-> <<i>>, input |-> accepted[i]])' = Steps([ids |-> <<i>>, input |-> accepted[i]])
      BY <1>2, <3>3 DEF Steps
    <3> QED BY <1>2, <3>2, <3>4
  <2> QED BY <2>3, <2>4 DEF OutcomeIsTrue
<1>8. CASE Push(input)
  <2>. DEFINE e == [ids |-> <<m + 1>>, input |-> input]
  <2>1. /\ pending' = Append(pending, e) /\ depth' = depth + 1 /\ bytes' = bytes + Bytes(input)
        /\ pump' = IF pump = "idle" THEN "scheduled" ELSE pump
    BY <1>8 DEF Push
  <2>2. e \in Entries /\ e.ids = <<m + 1>> /\ e.input = input
    <3>1. <<m + 1>> \in Seq(Nat) BY <1>1
    <3> QED BY <3>1 DEF Entries
  <2>3. Books(Append(u, e), accepted', outcome') BY <1>2, <1>4, BooksPush
  <2>. HIDE DEF e
  <2>4. Unsettled' = Append(u, e)
    <3>1. CASE active = None BY <1>1, <1>2, <1>5, <2>1, <2>2, <3>1 DEF Unsettled
    <3>2. CASE active # None
      <4>1. Unsettled' = <<active>> \o Append(pending, e) BY <1>2, <2>1, <3>2 DEF Unsettled
      <4>2. <<active>> \in Seq(Entries) BY <1>5, <3>2
      <4>3. <<active>> \o Append(pending, e) = Append(<<active>> \o pending, e)
        BY <1>1, <2>2, <4>2, SMTT(30)
      <4> QED BY <1>5, <3>2, <4>1, <4>3
    <3> QED BY <3>1, <3>2
  <2>. HIDE DEF u
  <2>5. /\ Append(u, e) \in Seq(Entries) /\ Len(Append(u, e)) = Len(u) + 1
        /\ Append(u, e)[Len(u) + 1] = e /\ \A i \in 1 .. Len(u) : Append(u, e)[i] = u[i]
    BY <1>1, <2>2
  <2>6. /\ Depth(Append(u, e)) = Depth(u) + Len(e.ids)
        /\ Size(Append(u, e)) = Size(u) + Bytes(e.input)
    BY <1>1, <2>5, CountToLast
  <2>7. depth' = Depth(Unsettled') /\ bytes' = Size(Unsettled')
    <3>1. Len(e.ids) = 1 BY <2>2
    <3> QED BY <1>4, <2>1, <2>2, <2>4, <2>6, <3>1
  <2>8. Running' BY <1>2, <1>4, <2>1 DEF Running
  <2>9. Len(pending') = n + 1 /\ n \in Nat /\ pending'[n + 1] = e /\ DOMAIN pending' = 1 .. n + 1
        /\ \A i \in 1 .. n : pending'[i] = pending[i] /\ i \in DOMAIN pending
    BY <1>1, <2>1, <2>2
  <2>10. Newest'
    <3>1. Last(pending') = e BY <2>9 DEF Last
    <3>2. Last(e.ids) = m + 1
      <4>1. Len(e.ids) = 1 /\ e.ids[1] = m + 1 BY <2>2
      <4> QED BY <4>1 DEF Last
    <3> QED BY <1>3, <3>1, <3>2 DEF Newest
  <2>11. ASSUME NEW k \in DOMAIN sent
         PROVE  /\ sent[k][1] <= m + 1
                /\ \A i \in DOMAIN pending' : sent[k][1] < pending'[i].ids[1]
    <3>1. e.ids[1] = m + 1 BY <2>2
    <3>2. sent[k][1] < m + 1 /\ sent[k][1] <= m + 1 BY <1>1, <1>6
    <3>3. \A i \in 1 .. n + 1 : i \in 1 .. n \/ i = n + 1 BY <2>9
    <3> QED BY <1>6, <2>9, <3>1, <3>2, <3>3
  <2>12. Deliveries'
    <3>1. SentInOrder' BY <1>2, <1>6 DEF SentInOrder
    <3> QED BY <1>1, <1>2, <1>3, <2>11, <3>1 DEF Kept, Deliveries
  <2> QED BY <1>7, <2>3, <2>4, <2>7, <2>8, <2>10, <2>12 DEF Kept
<1>9. CASE pending # <<>> /\ Coalesces(Last(pending), input) /\ Join(input)
  <2>1. n \in Nat /\ n > 0 /\ n \in DOMAIN pending /\ Last(pending) = pending[n]
    BY <1>1, <1>9, EmptySeq, LenProperties DEF Last
  <2>0. pending[n] \in Entries /\ pending[n].ids \in Seq(Nat)
    <3>1. pending[n] \in Entries BY <1>1, <2>1
    <3> QED BY <3>1 DEF Entries
  <2>. DEFINE ids == Append(Last(pending).ids, m + 1)
              e == [ids |-> ids, input |-> input]
  <2>2. /\ pending' = [pending EXCEPT ![n] = e] /\ depth' = depth + 1
        /\ UNCHANGED <<bytes, pump>> /\ Last(pending).input = input
    BY <1>9 DEF Join, Coalesces
  <2>3. /\ u # <<>> /\ u[Len(u)] = Last(pending) /\ Len(u) \in Nat
        /\ Unsettled' = [u EXCEPT ![Len(u)] = e]
    <3>1. CASE active = None
      <4>1. u = pending /\ Unsettled' = pending'
        <5>1. u = pending /\ active' = None BY <1>2, <1>5, <3>1
        <5>2. pending' \in Seq(Entries)
          <6>1. pending[n].ids \in Seq(Nat) BY <2>0
          <6>2. ids \in Seq(Nat) BY <1>1, <2>1, <6>1
          <6>3. e \in Entries BY <6>2 DEF Entries
          <6>. HIDE DEF e
          <6> QED BY <1>1, <2>1, <2>2, <6>3
        <5> QED BY <5>1, <5>2 DEF Unsettled
      <4> QED BY <1>9, <2>1, <2>2, <4>1
    <3>2. CASE active # None
      <4>1. u = <<active>> \o pending /\ active \in Entries /\ u # <<>> BY <1>5, <3>2
      <4>2. Len(u) = n + 1 /\ \A i \in 1 .. n : u[i + 1] = pending[i]
        BY <1>1, <4>1, EntryFirst
      <4>3. Unsettled' = <<active>> \o pending' BY <1>2, <3>2 DEF Unsettled
      <4>4. <<active>> \o [pending EXCEPT ![n] = e] = [(<<active>> \o pending) EXCEPT ![n + 1] = e]
        <5>1. pending[n].ids \in Seq(Nat) BY <2>0
        <5>2. ids \in Seq(Nat) BY <1>1, <2>1, <5>1
        <5>3. e \in Entries BY <5>2 DEF Entries
        <5>. HIDE DEF e
        <5>. DEFINE p == [pending EXCEPT ![n] = e]
                    v == <<active>> \o pending
                    w == <<active>> \o p
                    x == [v EXCEPT ![n + 1] = e]
        <5>4. /\ p \in Seq(Entries) /\ Len(p) = n /\ p[n] = e
              /\ \A i \in 1 .. n : i # n => p[i] = pending[i]
          BY <1>1, <2>1, <5>3
        <5>. HIDE DEF p
        <5>5. /\ v \in Seq(Entries) /\ Len(v) = n + 1 /\ v[1] = active
              /\ \A i \in 1 .. n : v[i + 1] = pending[i]
          BY <1>1, <4>1, EntryFirst
        <5>6. /\ w \in Seq(Entries) /\ Len(w) = n + 1 /\ w[1] = active
              /\ \A i \in 1 .. n : w[i + 1] = p[i]
          BY <4>1, <5>4, EntryFirst
        <5>. HIDE DEF v, w
        <5>7. n + 1 \in DOMAIN v /\ n + 1 # 1 BY <2>1, <5>5
        <5>8. /\ x \in Seq(Entries) /\ Len(x) = n + 1 /\ x[n + 1] = e
              /\ \A i \in 1 .. n + 1 : i # n + 1 => x[i] = v[i]
          BY <2>1, <5>3, <5>5, <5>7
        <5>. HIDE DEF x
        <5>9. ASSUME NEW i \in 1 .. n + 1 PROVE w[i] = x[i]
          <6>1. CASE i = 1
            <7>1. 1 \in 1 .. n + 1 /\ 1 # n + 1 BY <2>1
            <7> QED BY <5>5, <5>6, <5>8, <6>1, <7>1
          <6>2. CASE i # 1 /\ i # n + 1
            <7>1. i - 1 \in 1 .. n /\ i - 1 # n /\ (i - 1) + 1 = i BY <2>1, <6>2
            <7>2. w[i] = p[i - 1] /\ v[i] = pending[i - 1] BY <5>5, <5>6, <7>1
            <7> QED BY <5>4, <5>8, <6>2, <7>1, <7>2
          <6>3. CASE i = n + 1
            <7>1. n \in 1 .. n BY <2>1
            <7> QED BY <5>4, <5>6, <5>8, <6>3, <7>1
          <6> QED BY <6>1, <6>2, <6>3
        <5>10. w = x BY <5>6, <5>8, <5>9, SeqEqual
        <5> QED BY <5>10 DEF w, x, v, p
      <4>5. n \in 1 .. n /\ u[Len(u)] = Last(pending)
        <5>1. n \in 1 .. n BY <2>1
        <5> QED BY <2>1, <4>2, <5>1
      <4>6. Unsettled' = <<active>> \o [pending EXCEPT ![n] = e] BY <2>2, <4>3
      <4>. HIDE DEF e, u, n
      <4>7. Unsettled' = [u EXCEPT ![Len(u)] = e] BY <4>1, <4>2, <4>4, <4>6
      <4>8. Len(u) \in Nat BY <2>1, <4>2
      <4>9. u # <<>> /\ u[Len(u)] = Last(pending) BY <4>1, <4>5
      <4> QED BY ONLY <4>7, <4>8, <4>9
    <3> QED BY <3>1, <3>2
  <2>4. Last(Last(pending).ids) = m BY <1>4, <1>9 DEF Newest
  <2>5. Books(Unsettled', accepted', outcome')
    <3>1. e = [ids |-> Append(u[Len(u)].ids, m + 1), input |-> input] BY <2>3
    <3>2. u[Len(u)].input = input /\ Last(u[Len(u)].ids) = m BY <2>2, <2>3, <2>4
    <3>. HIDE DEF u
    <3>3. Books([u EXCEPT ![Len(u)] = [ids |-> Append(u[Len(u)].ids, m + 1), input |-> input]],
                Append(accepted, input), Append(outcome, "pending"))
      BY <1>4, <2>3, <3>2, BooksJoin
    <3> QED BY <1>2, <2>3, <3>1, <3>3
  <2>6. /\ e \in Entries /\ e.input = u[Len(u)].input /\ Len(e.ids) = Len(u[Len(u)].ids) + 1
        /\ e.ids = ids /\ Last(pending).ids \in Seq(Nat) /\ Len(Last(pending).ids) > 0
        /\ ids[1] = Last(pending).ids[1] /\ Last(ids) = m + 1
    <3>. DEFINE old == Last(pending).ids
    <3>1. Last(pending) \in Entries BY <1>1, <2>1
    <3>2. old \in Seq(Nat) BY <3>1 DEF Entries
    <3>3. Filed(u[Len(u)], accepted, outcome)
      <4>1. Len(u) \in DOMAIN u BY <1>1, <2>3
      <4> QED BY <1>4, <4>1 DEF Books
    <3>4. old # <<>> BY <2>3, <3>3 DEF Filed
    <3>5. Len(old) > 0 /\ Len(old) \in Nat BY <3>2, <3>4
    <3>. HIDE DEF old
    <3>6. /\ ids \in Seq(Nat) /\ Len(ids) = Len(old) + 1 /\ ids[1] = old[1] /\ ids[Len(old) + 1] = m + 1
      <4>1. ids = Append(old, m + 1) BY DEF old
      <4>2. m + 1 \in Nat BY <1>1
      <4>. HIDE DEF ids
      <4> QED BY <3>2, <3>5, <4>1, <4>2
    <3>7. e \in Entries /\ e.ids = ids /\ e.input = input BY <3>6 DEF Entries
    <3>. HIDE DEF e, ids
    <3>8. Last(ids) = m + 1 BY <3>6 DEF Last
    <3> QED BY <2>2, <2>3, <3>2, <3>5, <3>6, <3>7, <3>8 DEF old
  <2>. HIDE DEF e, ids
  <2>7. Depth(Unsettled') = Depth(u) + 1 /\ Size(Unsettled') = Size(u)
    BY <1>1, <2>3, <2>6, CountJoined
  <2>8. depth' = Depth(Unsettled') /\ bytes' = Size(Unsettled') BY <1>4, <2>2, <2>7
  <2>9. Running' BY <1>2, <1>4, <2>2 DEF Running
  <2>10. /\ Len(pending') = n /\ pending'[n] = e /\ DOMAIN pending' = DOMAIN pending
         /\ \A i \in DOMAIN pending : i # n => pending'[i] = pending[i]
    BY <1>1, <2>1, <2>2, <2>6
  <2>11. Newest'
    <3>1. Last(pending') = e BY <2>10 DEF Last
    <3> QED BY <1>3, <2>6, <3>1 DEF Newest
  <2>12. ASSUME NEW k \in DOMAIN sent
         PROVE  /\ sent[k][1] <= m + 1
                /\ \A i \in DOMAIN pending' : sent[k][1] < pending'[i].ids[1]
    <3>1. sent[k][1] <= m + 1 BY <1>1, <1>6
    <3>2. \A i \in DOMAIN pending : pending'[i].ids[1] = pending[i].ids[1]
      BY <2>1, <2>6, <2>10
    <3> QED BY <1>6, <2>10, <3>1, <3>2
  <2>13. Deliveries'
    <3>1. SentInOrder' BY <1>2, <1>6 DEF SentInOrder
    <3> QED BY <1>1, <1>2, <1>3, <2>12, <3>1 DEF Kept, Deliveries
  <2> QED BY <1>7, <2>5, <2>8, <2>9, <2>11, <2>13 DEF Kept
<1> QED BY <1>2, <1>8, <1>9

\* The first entry is settled.
LEMMA BooksHead ==
  ASSUME NEW u, NEW acc, NEW out, Books(u, acc, out), u # <<>>,
         NEW new \in Seq(Verdicts), Len(new) = Len(out),
         \A x \in DOMAIN out : IF x \in ToSet(u[1].ids) THEN new[x] # "pending" ELSE new[x] = out[x]
  PROVE  Books(Tail(u), acc, new)
<1>. DEFINE p == Tail(u)
            h == [i \in DOMAIN p |-> i + 1]
<1>1. u \in Seq(Entries) BY DEF Books
<1>2. /\ p \in Seq(Entries) /\ 1 \in DOMAIN u
      /\ \A i \in DOMAIN p : i + 1 \in DOMAIN u /\ p[i] = u[i + 1] /\ i \in Nat /\ i + 1 # 1
      /\ \A j \in DOMAIN u : j # 1 => j - 1 \in DOMAIN p /\ (j - 1) + 1 = j
  BY <1>1
<1>. HIDE DEF p
<1>3. /\ h \in [DOMAIN p -> DOMAIN u] /\ \A i \in DOMAIN p : p[i] = u[h[i]]
      /\ \A i, j \in DOMAIN p : i < j => h[i] < h[j]
  BY <1>2
<1>4. ASSUME NEW x \in DOMAIN out
      PROVE  IF x \in Waiters(u) /\ x \notin Waiters(p) THEN new[x] # "pending"
             ELSE new[x] = out[x]
  <2>1. CASE x \in Waiters(u) /\ x \notin Waiters(p)
    <3>1. PICK j \in DOMAIN u : x \in ToSet(u[j].ids) BY <2>1, WaitersAre
    <3>2. j = 1
      <4>1. SUFFICES ASSUME j # 1 PROVE FALSE OBVIOUS
      <4>2. j - 1 \in DOMAIN p /\ p[j - 1] = u[j] BY <1>2, <4>1
      <4>3. x \in Waiters(p) BY <3>1, <4>2, WaitersAre
      <4> QED BY <2>1, <4>3
    <3> QED BY <2>1, <3>1, <3>2
  <2>2. CASE x \notin Waiters(u)
    <3>1. x \notin ToSet(u[1].ids) BY <1>2, <2>2, WaitersAre
    <3> QED BY <2>2, <3>1
  <2>3. CASE x \in Waiters(p)
    <3>1. PICK i \in DOMAIN p : x \in ToSet(p[i].ids) BY <2>3, WaitersAre
    <3>2. i + 1 \in DOMAIN u /\ i + 1 # 1 /\ x \in ToSet(u[i + 1].ids) BY <1>2, <3>1
    <3>3. x \notin ToSet(u[1].ids) BY <1>2, <3>2, BooksApart
    <3> QED BY <2>3, <3>3
  <2> QED BY <2>1, <2>2, <2>3
<1>. HIDE DEF h
<1>5. new \in Seq(Verdicts) /\ Len(new) = Len(out) OBVIOUS
<1>6. Books(p, acc, new)
  <2>1. Books(u, acc, out) OBVIOUS
  <2>2. p \in Seq(Entries) BY <1>2
  <2> QED BY ONLY <1>3, <1>4, <1>5, <2>1, <2>2, BooksKeep
<1> QED BY <1>6 DEF p

\* All but the first entry are settled.
LEMMA BooksFirst ==
  ASSUME NEW e \in Entries, NEW p \in Seq(Entries), NEW acc, NEW out, Books(<<e>> \o p, acc, out),
         NEW new \in Seq(Verdicts), Len(new) = Len(out),
         \A x \in DOMAIN out : IF x \in Waiters(p) THEN new[x] # "pending" ELSE new[x] = out[x]
  PROVE  Books(<<e>>, acc, new)
<1>. DEFINE u == <<e>> \o p
            v == <<e>>
            h == [i \in DOMAIN v |-> 1]
<1>1. /\ u \in Seq(Entries) /\ u[1] = e /\ DOMAIN u = 1 .. Len(p) + 1 /\ Len(p) \in Nat
      /\ \A i \in 1 .. Len(p) : u[i + 1] = p[i]
  <2>1. u \in Seq(Entries) /\ Len(u) = Len(p) + 1 BY EntryFirst
  <2>2. u[1] = e /\ \A i \in 1 .. Len(p) : u[i + 1] = p[i] BY EntryFirst
  <2>3. Len(p) \in Nat /\ DOMAIN u = 1 .. Len(p) + 1 BY <2>1
  <2> QED BY <2>1, <2>2, <2>3
<1>2. 1 \in DOMAIN u BY <1>1
<1>3. DOMAIN v = {1} /\ v[1] = e /\ v \in Seq(Entries) OBVIOUS
<1>. HIDE DEF u, v
<1>4. /\ h \in [DOMAIN v -> DOMAIN u] /\ \A i \in DOMAIN v : v[i] = u[h[i]]
      /\ \A i, j \in DOMAIN v : i < j => h[i] < h[j]
  BY <1>1, <1>2, <1>3
<1>. HIDE DEF h
<1>5. Books(u, acc, out) BY DEF u
<1>6. ASSUME NEW x \in DOMAIN out
      PROVE  IF x \in Waiters(u) /\ x \notin Waiters(v) THEN new[x] # "pending"
             ELSE new[x] = out[x]
  <2>1. x \in Waiters(v) <=> x \in ToSet(e.ids) BY <1>3, WaitersAre
  <2>2. DOMAIN p = 1 .. Len(p) OBVIOUS
  <2>3. x \in Waiters(p) => x \in Waiters(u) /\ x \notin Waiters(v)
    <3>1. SUFFICES ASSUME x \in Waiters(p) PROVE x \in Waiters(u) /\ x \notin Waiters(v) OBVIOUS
    <3>2. PICK i \in DOMAIN p : x \in ToSet(p[i].ids) BY <3>1, WaitersAre
    <3>3. i + 1 \in DOMAIN u /\ i + 1 # 1 /\ u[i + 1] = p[i] BY <1>1, <2>2
    <3>4. x \in Waiters(u) BY <3>2, <3>3, WaitersAre
    <3>5. x \notin ToSet(u[1].ids) BY <1>2, <1>5, <3>2, <3>3, BooksApart
    <3> QED BY <1>1, <2>1, <3>4, <3>5
  <2>4. x \in Waiters(u) /\ x \notin Waiters(v) => x \in Waiters(p)
    <3>1. SUFFICES ASSUME x \in Waiters(u), x \notin Waiters(v) PROVE x \in Waiters(p) OBVIOUS
    <3>2. PICK j \in DOMAIN u : x \in ToSet(u[j].ids) BY <3>1, WaitersAre
    <3>3. j # 1 BY <1>1, <2>1, <3>1, <3>2
    <3>4. j - 1 \in DOMAIN p /\ u[j] = p[j - 1]
      <4>1. j - 1 \in 1 .. Len(p) /\ (j - 1) + 1 = j BY <1>1, <3>3
      <4> QED BY <1>1, <2>2, <4>1
    <3> QED BY <3>2, <3>4, WaitersAre
  <2> QED BY <2>3, <2>4
<1>7. Books(v, acc, new) BY <1>3, <1>4, <1>5, <1>6, BooksKeep
<1> QED BY <1>7 DEF v

\* Everything is settled.
LEMMA BooksNone ==
  ASSUME NEW u, NEW acc, NEW out, Books(u, acc, out),
         NEW new \in Seq(Verdicts), Len(new) = Len(out),
         \A x \in DOMAIN out : IF x \in Waiters(u) THEN new[x] # "pending" ELSE new[x] = out[x]
  PROVE  Books(<<>>, acc, new)
<1>. DEFINE h == [i \in {} |-> 1]
<1>1. DOMAIN (<<>>) = {} /\ <<>> \in Seq(Entries) OBVIOUS
<1>2. /\ h \in [DOMAIN (<<>>) -> DOMAIN u] /\ \A i \in DOMAIN (<<>>) : (<<>>)[i] = u[h[i]]
      /\ \A i, j \in DOMAIN (<<>>) : i < j => h[i] < h[j]
  BY <1>1
<1>3. \A x : x \notin Waiters(<<>>) BY <1>1, WaitersAre
<1>. HIDE DEF h
<1> QED BY <1>1, <1>2, <1>3, BooksKeep, ZenonT(30)

\* A rejection says nothing of an input, so that it can say nothing wrong.
LEMMA RejectionIsTrue ==
  ASSUME OutcomeIsTrue, NEW S, NEW reason \in {"rejected", "failed"},
         outcome \in Seq(Verdicts), \A x \in S : x \in DOMAIN outcome => outcome[x] = "pending",
         outcome' = RejectedAs(S, reason), UNCHANGED <<accepted, adapter>>,
         ToSet(sent) \subseteq ToSet(sent')
  PROVE  /\ OutcomeIsTrue' /\ outcome' \in Seq(Verdicts) /\ Len(outcome') = Len(outcome)
         /\ \A x \in DOMAIN outcome : IF x \in S THEN outcome'[x] # "pending"
                                      ELSE outcome'[x] = outcome[x]
<1>1. outcome' = [i \in DOMAIN outcome |-> IF i \in S THEN reason ELSE outcome[i]]
  BY DEF RejectedAs
<1>2. DOMAIN outcome = 1 .. Len(outcome) /\ Len(outcome) \in Nat OBVIOUS
<1>3. reason \in Verdicts /\ \A i \in DOMAIN outcome : outcome[i] \in Verdicts BY DEF Verdicts
<1>4. outcome' \in Seq(Verdicts) /\ Len(outcome') = Len(outcome) BY <1>1, <1>2, <1>3
<1>5. \A i \in DOMAIN outcome : outcome'[i] = IF i \in S THEN reason ELSE outcome[i]
  BY <1>1
<1>6. DOMAIN outcome' = DOMAIN outcome BY <1>1
<1>7. \A i \in DOMAIN outcome' : /\ outcome'[i] = "coalesced" => outcome[i] = "coalesced"
                                /\ outcome'[i] = "completed" <=> outcome[i] = "completed"
  BY <1>5, <1>6
<1>8. OutcomeIsTrue'
  <2>1. ASSUME NEW i \in DOMAIN outcome', outcome'[i] = "coalesced"
        PROVE  \E j \in DOMAIN outcome' :
                 /\ j > i /\ outcome'[j] = "completed"
                 /\ \A k \in i .. j : accepted'[k] = accepted'[i]
    <3>1. i \in DOMAIN outcome /\ outcome[i] = "coalesced"
      <4>1. i \in DOMAIN outcome BY <1>6
      <4>2. outcome'[i] = (IF i \in S THEN reason ELSE outcome[i]) BY <1>5, <4>1
      <4>3. reason # "coalesced" OBVIOUS
      <4>4. i \notin S BY <2>1, <4>2, <4>3
      <4> QED BY <2>1, <4>1, <4>2, <4>4
    <3>2. PICK j \in DOMAIN outcome : /\ j > i /\ outcome[j] = "completed"
                                     /\ \A k \in i .. j : accepted[k] = accepted[i]
      BY <3>1 DEF OutcomeIsTrue
    <3>3. j \in DOMAIN outcome' /\ outcome'[j] = "completed" BY <1>6, <1>7, <3>2
    <3> QED BY <3>2, <3>3
  <2>2. ASSUME NEW i \in DOMAIN outcome', outcome'[i] = "completed"
        PROVE  \A k \in 1 .. Steps([ids |-> <<i>>, input |-> accepted[i]])' : <<i, k>> \in ToSet(sent')
    <3>1. \A k \in 1 .. Steps([ids |-> <<i>>, input |-> accepted[i]]) : <<i, k>> \in ToSet(sent)
      BY <1>6, <1>7, <2>2 DEF OutcomeIsTrue
    <3>2. Steps([ids |-> <<i>>, input |-> accepted[i]])' = Steps([ids |-> <<i>>, input |-> accepted[i]])
      BY DEF Steps
    <3> QED BY <3>1, <3>2
  <2> QED BY <2>1, <2>2 DEF OutcomeIsTrue
<1> QED BY <1>4, <1>5, <1>8

\* The entry that is carried out, and what it leaves pending.
LEMMA ActiveIs ==
  ASSUME IInv, Kept, active # None
  PROVE  /\ active \in Entries /\ Filed(active, accepted, outcome)
         /\ Unsettled = <<active>> \o pending /\ Unsettled # <<>> /\ Unsettled[1] = active
         /\ Tail(Unsettled) = pending /\ Unsettled \in Seq(Entries)
         /\ active.ids[1] \in Nat /\ Last(active.ids) \in Nat
         /\ active.ids[1] <= Last(active.ids) /\ Last(active.ids) <= Len(accepted)
         /\ \A i \in DOMAIN pending : Last(active.ids) < pending[i].ids[1]
<1>. DEFINE u == Unsettled
<1>1. /\ pending \in Seq(Entries) /\ accepted \in Seq(Inputs) /\ outcome \in Seq(Verdicts)
      /\ Len(outcome) = Len(accepted) /\ Len(accepted) \in Nat
  BY KeptTypes
<1>2. Running /\ Books(u, accepted, outcome) BY DEF Kept
<1>3. /\ active \in Entries /\ u = <<active>> \o pending /\ u # <<>> /\ u[1] = active
      /\ Tail(u) = pending /\ u \in Seq(Entries)
  BY <1>1, <1>2, UnsettledIs
<1>4. /\ Len(u) = Len(pending) + 1 /\ \A i \in 1 .. Len(pending) : u[i + 1] = pending[i]
  BY <1>1, <1>3, EntryFirst
<1>. HIDE DEF u
<1>5. /\ 1 \in DOMAIN u /\ DOMAIN pending = 1 .. Len(pending)
      /\ \A i \in DOMAIN pending : i + 1 \in DOMAIN u /\ 1 < i + 1
  BY <1>1, <1>3, <1>4
<1>6. Filed(active, accepted, outcome) BY <1>2, <1>3, <1>5 DEF Books
<1>7. /\ active.ids \in Seq(Nat) /\ Len(active.ids) \in Nat /\ Len(active.ids) > 0
      /\ active.ids[1] \in Nat /\ active.ids[Len(active.ids)] \in Nat
      /\ Last(active.ids) = active.ids[Len(active.ids)]
      /\ \A k \in DOMAIN active.ids : active.ids[1] <= active.ids[k] /\ active.ids[k] <= active.ids[Len(active.ids)]
  BY <1>1, <1>3, <1>6, FiledIds
<1>8. Len(active.ids) \in DOMAIN active.ids BY <1>7
<1>9. active.ids[Len(active.ids)] \in DOMAIN outcome BY <1>6, <1>8 DEF Filed
<1>10. Last(active.ids) <= Len(accepted) BY <1>1, <1>7, <1>9
<1>11. ASSUME NEW i \in DOMAIN pending PROVE Last(active.ids) < pending[i].ids[1]
  <2>1. i + 1 \in DOMAIN u /\ 1 < i + 1 /\ u[i + 1] = pending[i] BY <1>4, <1>5
  <2>2. u[1].ids[Len(u[1].ids)] < u[i + 1].ids[1] BY <1>2, <1>5, <2>1 DEF Books
  <2> QED BY <1>3, <1>7, <2>1, <2>2
<1>12. active.ids[1] <= Last(active.ids) BY <1>7, <1>8
<1> QED BY <1>3, <1>6, <1>7, <1>10, <1>11, <1>12 DEF u

\* A completion tells the truth of the entry that was carried out.
LEMMA CompletionIsTrue ==
  ASSUME OutcomeIsTrue, active \in Entries, Filed(active, accepted, outcome),
         outcome \in Seq(Verdicts), accepted \in Seq(Inputs),
         outcome' = Completed(active.ids), UNCHANGED <<accepted, adapter>>,
         ToSet(sent) \subseteq ToSet(sent'),
         \A k \in 1 .. Steps(active) : <<Last(active.ids), k>> \in ToSet(sent)
  PROVE  /\ OutcomeIsTrue' /\ outcome' \in Seq(Verdicts) /\ Len(outcome') = Len(outcome)
         /\ \A x \in DOMAIN outcome : IF x \in ToSet(active.ids) THEN outcome'[x] # "pending"
                                      ELSE outcome'[x] = outcome[x]
<1>. DEFINE ids == active.ids  S == ToSet(ids)  l == Last(ids)
<1>1. /\ ids \in Seq(Nat) /\ Len(ids) \in Nat /\ Len(ids) > 0
      /\ ids[1] \in Nat /\ ids[Len(ids)] \in Nat /\ l = ids[Len(ids)]
      /\ S \subseteq DOMAIN outcome
      /\ \A x \in S : ids[1] <= x /\ x <= l /\ accepted[x] = active.input /\ outcome[x] = "pending"
  BY FiledIds
<1>2. outcome' = [i \in DOMAIN outcome |->
                    IF i \notin S THEN outcome[i] ELSE IF i = l THEN "completed" ELSE "coalesced"]
  BY DEF Completed
<1>3. DOMAIN outcome = 1 .. Len(outcome) /\ Len(outcome) \in Nat OBVIOUS
<1>4. \A x \in ids[1] .. l : x \in S
  <2>1. SUFFICES ASSUME NEW x \in ids[1] .. l PROVE x \in S OBVIOUS
  <2>2. \A k \in DOMAIN ids : ids[k] = ids[1] + (k - 1) BY DEF Filed
  <2>. DEFINE n == Len(ids)  a == ids[1]  k == x - a + 1
  <2>3. n \in Nat /\ n > 0 /\ a \in Nat /\ DOMAIN ids = 1 .. n /\ x \in Int BY <1>1
  <2>4. n \in DOMAIN ids BY <2>3
  <2>5. l = a + (n - 1) BY <1>1, <2>2, <2>4
  <2>6. a <= x /\ x <= l BY <1>1
  <2>. HIDE DEF n, a, l
  <2>7. k \in 1 .. n /\ a + (k - 1) = x BY <2>3, <2>5, <2>6
  <2>8. ids[k] = x BY <2>2, <2>3, <2>7 DEF a
  <2> QED BY <2>3, <2>7, <2>8 DEF ToSet
<1>5. l \in S
  <2>1. Len(ids) \in DOMAIN ids BY <1>1
  <2> QED BY <1>1, <2>1 DEF ToSet
<1>. HIDE DEF S, l, ids
<1>6. \A i \in DOMAIN outcome : /\ i \notin S => outcome'[i] = outcome[i]
                                /\ i \in S /\ i = l => outcome'[i] = "completed"
                                /\ i \in S /\ i # l => outcome'[i] = "coalesced"
  BY <1>2
<1>7. DOMAIN outcome' = DOMAIN outcome BY <1>2
<1>8. outcome' \in Seq(Verdicts) /\ Len(outcome') = Len(outcome)
  <2>1. \A i \in DOMAIN outcome : outcome[i] \in Verdicts OBVIOUS
  <2>2. "completed" \in Verdicts /\ "coalesced" \in Verdicts BY DEF Verdicts
  <2>3. \A i \in 1 .. Len(outcome) : outcome'[i] \in Verdicts BY <1>3, <1>6, <2>1, <2>2
  <2>. DEFINE o == [i \in DOMAIN outcome |->
                      IF i \notin S THEN outcome[i] ELSE IF i = l THEN "completed" ELSE "coalesced"]
  <2>4. outcome' = [i \in 1 .. Len(outcome) |-> outcome'[i]] BY <1>2, <1>3
  <2> QED BY <1>3, <2>3, <2>4
<1>9. ASSUME NEW i \in DOMAIN outcome', outcome'[i] = "coalesced"
      PROVE  \E j \in DOMAIN outcome' :
               /\ j > i /\ outcome'[j] = "completed"
               /\ \A k \in i .. j : accepted'[k] = accepted'[i]
  <2>1. i \in DOMAIN outcome /\ i \in Nat BY <1>3, <1>7
  <2>2. CASE i \notin S
    <3>1. outcome[i] = "coalesced" BY <1>6, <1>9, <2>1, <2>2
    <3>2. PICK j \in DOMAIN outcome : /\ j > i /\ outcome[j] = "completed"
                                      /\ \A k \in i .. j : accepted[k] = accepted[i]
      BY <2>1, <3>1 DEF OutcomeIsTrue
    <3>3. j \notin S BY <1>1, <3>2
    <3>4. outcome'[j] = "completed" /\ j \in DOMAIN outcome' BY <1>6, <1>7, <3>2, <3>3
    <3> QED BY <3>2, <3>4
  <2>3. CASE i \in S
    <3>1. i # l BY <1>6, <1>9, <2>1, <2>3
    <3>2. l \in DOMAIN outcome' /\ outcome'[l] = "completed" BY <1>1, <1>5, <1>6, <1>7
    <3>3. ids[1] <= i /\ i <= l /\ l \in Nat BY <1>1, <2>3 
    <3>4. l > i BY <2>1, <3>1, <3>3
    <3>5. \A k \in i .. l : k \in S
      <4>1. \A k \in i .. l : k \in ids[1] .. l BY <1>1, <2>1, <3>3
      <4> QED BY <1>4, <4>1
    <3>6. \A k \in i .. l : accepted[k] = accepted[i] BY <1>1, <2>3, <3>5
    <3> QED BY <3>2, <3>4, <3>6
  <2> QED BY <2>2, <2>3
<1>10. ASSUME NEW i \in DOMAIN outcome', outcome'[i] = "completed"
       PROVE  \A k \in 1 .. Steps([ids |-> <<i>>, input |-> accepted[i]])' : <<i, k>> \in ToSet(sent')
  <2>1. i \in DOMAIN outcome BY <1>7
  <2>2. Steps([ids |-> <<i>>, input |-> accepted[i]])' = Steps([ids |-> <<i>>, input |-> accepted[i]])
    BY DEF Steps
  <2>3. CASE i \notin S
    <3>1. outcome[i] = "completed" BY <1>6, <1>10, <2>1, <2>3
    <3>2. \A k \in 1 .. Steps([ids |-> <<i>>, input |-> accepted[i]]) : <<i, k>> \in ToSet(sent)
      BY <2>1, <3>1 DEF OutcomeIsTrue
    <3> QED BY <2>2, <3>2
  <2>4. CASE i \in S
    <3>1. i = l BY <1>6, <1>10, <2>1, <2>4
    <3>2. accepted[i] = active.input BY <1>1, <2>4
    <3>3. Steps([ids |-> <<i>>, input |-> accepted[i]]) = Steps(active) BY <3>2 DEF Steps
    <3>4. \A k \in 1 .. Steps(active) : <<i, k>> \in ToSet(sent) BY <3>1 DEF l, ids
    <3> QED BY <2>2, <3>3, <3>4
  <2> QED BY <2>3, <2>4
<1>11. OutcomeIsTrue' BY <1>9, <1>10 DEF OutcomeIsTrue
<1>12. \A x \in DOMAIN outcome : IF x \in S THEN outcome'[x] # "pending" ELSE outcome'[x] = outcome[x]
  BY <1>6
<1> QED BY <1>8, <1>11, <1>12 DEF S, ids

\* While nothing is settled, what was true stays true.
LEMMA TruthStays ==
  ASSUME OutcomeIsTrue, UNCHANGED <<outcome, accepted, adapter>>, ToSet(sent) \subseteq ToSet(sent')
  PROVE  OutcomeIsTrue'
<1>1. ASSUME NEW i \in DOMAIN outcome', outcome'[i] = "completed"
      PROVE  \A k \in 1 .. Steps([ids |-> <<i>>, input |-> accepted[i]])' : <<i, k>> \in ToSet(sent')
  <2>1. Steps([ids |-> <<i>>, input |-> accepted[i]])' = Steps([ids |-> <<i>>, input |-> accepted[i]])
    BY DEF Steps
  <2>2. \A k \in 1 .. Steps([ids |-> <<i>>, input |-> accepted[i]]) : <<i, k>> \in ToSet(sent)
    BY <1>1 DEF OutcomeIsTrue
  <2> QED BY <2>1, <2>2
<1> QED BY <1>1 DEF OutcomeIsTrue

\* Nothing that was sent is taken back.
LEMMA SentGrows ==
  ASSUME sent \in Seq(Nat \X Nat), NEW e, NEW k, Perform(e, k)
  PROVE  ToSet(sent) \subseteq ToSet(sent')
<1>1. sent' = sent \/ sent' = Append(sent, <<Last(e.ids), k>>) BY DEF Perform
<1>2. CASE sent' = Append(sent, <<Last(e.ids), k>>)
  <2>. DEFINE x == <<Last(e.ids), k>>  T == (Nat \X Nat) \cup {x}
  <2>1. sent \in Seq(T) /\ x \in T OBVIOUS
  <2>. HIDE DEF x, T
  <2>2. sent' = Append(sent, x) BY <1>2 DEF x
  <2>3. \A i \in DOMAIN sent : i \in DOMAIN sent' /\ sent'[i] = sent[i] BY <2>1, <2>2
  <2> QED BY <2>3 DEF ToSet
<1> QED BY <1>1, <1>2

\* The parts of the invariant when only the dispatch has moved on.
LEMMA DispatchMoves ==
  ASSUME IInv, Kept,
         UNCHANGED <<adapter, pending, active, depth, bytes, step, sent, pump, accepted, outcome>>,
         dispatch' # "none" <=> dispatch # "none",
         dispatch' \in {"sleeping", "awake"} => dispatch \in {"sleeping", "awake"},
         dispatch' \in {"writing", "calling", "ok"} => dispatch \in {"writing", "calling", "ok"}
  PROVE  Kept'
<1>1. Running' /\ Newest' BY DEF Kept, Running, Newest
<1>2. Unsettled' = Unsettled BY DEF Unsettled
<1>3. Books(Unsettled', accepted', outcome') BY <1>2 DEF Kept
<1>4. depth' = Depth(Unsettled') /\ bytes' = Size(Unsettled') BY <1>2 DEF Kept
<1>5. OutcomeIsTrue' BY TruthStays DEF Kept
<1>6. SentInOrder' BY DEF Kept, Deliveries, SentInOrder
<1>7. Deliveries' BY <1>6 DEF Kept, Deliveries
<1> QED BY <1>1, <1>3, <1>4, <1>5, <1>7 DEF Kept

LEMMA PumpStartsKeeps ==
  ASSUME IInv, Kept, PumpStarts
  PROVE  Kept'
<1>1. /\ pump = "scheduled"
      /\ UNCHANGED <<adapter, depth, bytes, broken, open, closed, accepted, outcome>>
  BY DEF PumpStarts
<1>2. active = None /\ dispatch = "none" BY <1>1 DEF Kept, Running
<1>3. CASE closed
  <2>1. pump' = "idle" /\ UNCHANGED <<active, pending, step, dispatch, waiting, sent>>
    BY <1>3 DEF PumpStarts, adapting
  <2>2. Running' /\ Newest' BY <1>1, <1>2, <2>1 DEF Kept, Running, Newest
  <2>3. Unsettled' = Unsettled BY <2>1 DEF Unsettled
  <2>4. Books(Unsettled', accepted', outcome') BY <1>1, <2>3 DEF Kept
  <2>5. depth' = Depth(Unsettled') /\ bytes' = Size(Unsettled') BY <1>1, <2>3 DEF Kept
  <2>6. OutcomeIsTrue' BY <1>1, <2>1, TruthStays DEF Kept
  <2>7. SentInOrder' BY <2>1 DEF Kept, Deliveries, SentInOrder
  <2>8. Deliveries' BY <1>1, <1>2, <2>1, <2>7 DEF Kept, Deliveries
  <2> QED BY <2>2, <2>4, <2>5, <2>6, <2>8 DEF Kept
<1>4. CASE ~closed
  <2>1. Take BY <1>4 DEF PumpStarts
  <2>2. Unsettled = pending BY <1>2, KeptTypes, UnsettledIs DEF Kept
  <2>3. Books(pending, accepted, outcome') BY <1>1, <2>2 DEF Kept
  <2>4. depth' = Depth(pending) /\ bytes' = Size(pending) BY <1>1, <2>2 DEF Kept
  <2>5. ToSet(sent) \subseteq ToSet(sent')
    <3>1. sent \in Seq(Nat \X Nat) BY KeptTypes
    <3>2. CASE pending = <<>> BY <2>1, <3>2 DEF Take
    <3>3. CASE pending # <<>>
      <4>1. Perform(Head(pending), 1) BY <2>1, <3>3 DEF Take
      <4> QED BY <3>1, <4>1, SentGrows
    <3> QED BY <3>2, <3>3
  <2>6. OutcomeIsTrue' BY <1>1, <2>5, TruthStays DEF Kept
  <2> QED BY <1>1, <2>1, <2>3, <2>4, <2>6, TakeKeeps
<1> QED BY <1>3, <1>4

LEMMA AwakeKeeps ==
  ASSUME IInv, Kept, Awake
  PROVE  Kept'
<1>1. /\ dispatch = "awake" /\ Perform(active, step)
      /\ UNCHANGED <<adapter, pending, active, depth, bytes, pump, accepted, outcome>>
  BY DEF Awake, queue
<1>2. active # None /\ step \in Nat \ {0} BY <1>1 DEF Kept, Running
<1>3. /\ active \in Entries /\ active.ids[1] \in Nat /\ Last(active.ids) \in Nat
      /\ active.ids[1] <= Last(active.ids) /\ Last(active.ids) <= Len(accepted)
      /\ \A i \in DOMAIN pending' : Last(active.ids) < pending'[i].ids[1]
  BY <1>1, <1>2, ActiveIs
<1>4. sent \in Seq(Nat \X Nat) /\ SentInOrder BY DEF Kept, Deliveries
<1>5. \A m \in DOMAIN sent :
        /\ sent[m][1] <= Len(accepted)
        /\ \A i \in DOMAIN pending' : sent[m][1] < pending'[i].ids[1]
        /\ \/ sent[m][1] < active.ids[1]
           \/ sent[m][1] = Last(active.ids) /\ sent[m][2] < step
  BY <1>1, <1>2 DEF Kept, Deliveries
<1>6. \A j \in Nat \ {0} : j < step => <<Last(active.ids), j>> \in ToSet(sent)
  BY <1>1 DEF Kept, Deliveries
<1>7. active' = active /\ UNCHANGED accepted BY <1>1
<1>8. Deliveries' /\ dispatch' # "none" /\ step' = step
  BY <1>1, <1>2, <1>3, <1>4, <1>5, <1>6, <1>7, Performed
<1>9. Running' /\ Newest' BY <1>1, <1>8 DEF Kept, Running, Newest
<1>10. Unsettled' = Unsettled BY <1>1 DEF Unsettled
<1>11. Books(Unsettled', accepted', outcome') BY <1>1, <1>10 DEF Kept
<1>12. depth' = Depth(Unsettled') /\ bytes' = Size(Unsettled') BY <1>1, <1>10 DEF Kept
<1>13. ToSet(sent) \subseteq ToSet(sent') BY <1>1, <1>4, SentGrows
<1>14. OutcomeIsTrue' BY <1>1, <1>13, TruthStays DEF Kept
<1> QED BY <1>8, <1>9, <1>11, <1>12, <1>14 DEF Kept

LEMMA NextStepKeeps ==
  ASSUME IInv, Kept, NextStep
  PROVE  Kept'
<1>1. /\ dispatch = "ok" /\ step' = step + 1 /\ dispatch' = "sleeping"
      /\ UNCHANGED <<adapter, pending, active, depth, bytes, sent, pump, accepted, outcome>>
  BY DEF NextStep, queue
<1>2. active # None /\ step \in Nat BY <1>1 DEF Kept, Running
<1>3. Running' /\ Newest' BY <1>1, <1>2 DEF Kept, Running, Newest
<1>4. Unsettled' = Unsettled BY <1>1 DEF Unsettled
<1>5. Books(Unsettled', accepted', outcome') BY <1>1, <1>4 DEF Kept
<1>6. depth' = Depth(Unsettled') /\ bytes' = Size(Unsettled') BY <1>1, <1>4 DEF Kept
<1>7. OutcomeIsTrue' BY <1>1, TruthStays DEF Kept
<1>8. SentInOrder' BY <1>1 DEF Kept, Deliveries, SentInOrder
<1>9. Deliveries'
  <2>1. sent \in Seq(Nat \X Nat) BY DEF Kept, Deliveries
  <2>2. \A m \in DOMAIN sent : sent[m][2] \in Nat
    <3>1. \A m \in DOMAIN sent : sent[m] \in Nat \X Nat BY <2>1
    <3> QED BY <3>1
  <2>3. ASSUME NEW m \in DOMAIN sent
        PROVE  /\ sent[m][1] <= Len(accepted)
               /\ \A i \in DOMAIN pending : sent[m][1] < pending[i].ids[1]
               /\ \/ sent[m][1] < active.ids[1]
                  \/ sent[m][1] = Last(active.ids) /\ sent[m][2] < step + 1
    <3>1. sent[m][2] <= step => sent[m][2] < step + 1 BY <1>2, <2>2
    <3> QED BY <1>2, <3>1 DEF Kept, Deliveries
  <2>4. \A m \in DOMAIN sent : sent[m][2] < step + 1 => sent[m][2] <= step + 1
    BY <1>2, <2>2
  <2>5. ASSUME NEW k \in Nat \ {0}, k < step + 1 PROVE <<Last(active.ids), k>> \in ToSet(sent)
    <3>1. k <= step BY <1>2, <2>5
    <3> QED BY <1>1, <3>1 DEF Kept, Deliveries
  <2> QED BY <1>1, <1>8, <2>1, <2>3, <2>4, <2>5 DEF Deliveries
<1> QED BY <1>3, <1>5, <1>6, <1>7, <1>9 DEF Kept

LEMMA CompleteOrRejectKeeps ==
  ASSUME IInv, Kept, Complete \/ Reject
  PROVE  Kept'
<1>. DEFINE u == Unsettled
<1>1. /\ dispatch # "none" /\ Release(active) /\ Take
      /\ UNCHANGED <<adapter, broken, open, closed, accepted>>
  BY DEF Complete, Reject
<1>2. active # None BY <1>1 DEF Kept, Running
<1>3. /\ active \in Entries /\ Filed(active, accepted, outcome)
      /\ u \in Seq(Entries) /\ u # <<>> /\ u[1] = active /\ Tail(u) = pending
  BY <1>2, ActiveIs
<1>4. /\ Books(u, accepted, outcome) /\ depth = Depth(u) /\ bytes = Size(u) /\ OutcomeIsTrue
      /\ outcome \in Seq(Verdicts) /\ accepted \in Seq(Inputs) /\ sent \in Seq(Nat \X Nat)
  BY KeptTypes DEF Kept
<1>5. ToSet(sent) \subseteq ToSet(sent')
  <2>1. CASE pending = <<>> BY <1>1, <2>1 DEF Take
  <2>2. CASE pending # <<>>
    <3>1. Perform(Head(pending), 1) BY <1>1, <2>2 DEF Take
    <3> QED BY <1>4, <3>1, SentGrows
  <2> QED BY <2>1, <2>2
<1>6. /\ OutcomeIsTrue' /\ outcome' \in Seq(Verdicts) /\ Len(outcome') = Len(outcome)
      /\ \A x \in DOMAIN outcome : IF x \in ToSet(active.ids) THEN outcome'[x] # "pending"
                                   ELSE outcome'[x] = outcome[x]
  <2>1. CASE Complete
    <3>1. dispatch = "ok" /\ step = Steps(active) /\ outcome' = Completed(active.ids)
      BY <2>1 DEF Complete
    <3>2. \A k \in 1 .. Steps(active) : <<Last(active.ids), k>> \in ToSet(sent)
      <4>1. Steps(active) \in Nat BY DEF Steps
      <4>2. \A k \in 1 .. Steps(active) : k \in Nat \ {0} /\ k <= step BY <3>1, <4>1
      <4> QED BY <3>1, <4>2 DEF Kept, Deliveries
    <3>3. UNCHANGED <<accepted, adapter>> BY <1>1
    <3> QED BY <1>3, <1>4, <1>5, <3>1, <3>2, <3>3, CompletionIsTrue
  <2>2. CASE Reject
    <3>. DEFINE S == ToSet(active.ids)
    <3>1. outcome' = RejectedAs(S, "rejected") BY <2>2 DEF Reject
    <3>2. \A x \in S : x \in DOMAIN outcome => outcome[x] = "pending" BY <1>3, <1>4, FiledIds
    <3>3. UNCHANGED <<accepted, adapter>> BY <1>1
    <3>4. "rejected" \in {"rejected", "failed"} OBVIOUS
    <3>. HIDE DEF S
    <3>5. /\ OutcomeIsTrue' /\ outcome' \in Seq(Verdicts) /\ Len(outcome') = Len(outcome)
          /\ \A x \in DOMAIN outcome : IF x \in S THEN outcome'[x] # "pending"
                                       ELSE outcome'[x] = outcome[x]
      BY <1>4, <1>5, <3>1, <3>2, <3>3, <3>4, RejectionIsTrue
    <3> QED BY <3>5 DEF S
  <2> QED BY <2>1, <2>2
<1>. HIDE DEF u
<1>7. Books(pending, accepted, outcome')
  <2>1. Books(Tail(u), accepted, outcome') BY <1>3, <1>4, <1>6, BooksHead
  <2> QED BY <1>3, <2>1
<1>8. depth' = Depth(pending) /\ bytes' = Size(pending)
  <2>1. /\ Depth(u) = Len(active.ids) + Depth(pending) /\ Size(u) = Bytes(active.input) + Size(pending)
        /\ Depth(pending) \in Nat /\ Size(pending) \in Nat
    BY <1>3, CountFromHead
  <2>2. Len(active.ids) \in Nat /\ Bytes(active.input) \in Nat BY <1>3, EntryBounds
  <2>3. depth' = depth - Len(active.ids) /\ bytes' = bytes - Bytes(active.input) BY <1>1 DEF Release
  <2> QED BY <1>4, <2>1, <2>2, <2>3
<1>9. UNCHANGED accepted BY <1>1
<1> QED BY <1>1, <1>6, <1>7, <1>8, <1>9, TakeKeeps

LEMMA CloseKeeps ==
  ASSUME IInv, Kept, Close
  PROVE  Kept'
<1>. DEFINE u == Unsettled
<1>1. /\ outcome' = RejectedAs(Waiters(pending), "failed") /\ ReleaseAll(pending) /\ pending' = <<>>
      /\ dispatch' = (IF dispatch \in {"sleeping", "writing"} THEN "failed" ELSE dispatch)
      /\ UNCHANGED <<adapter, active, step, sent, pump, accepted>>
  BY DEF Close
<1>2. /\ pending \in Seq(Entries) /\ accepted \in Seq(Inputs) /\ outcome \in Seq(Verdicts)
      /\ Len(outcome) = Len(accepted) /\ u \in Seq(Entries) /\ sent \in Seq(Nat \X Nat)
  BY KeptTypes
<1>3. /\ Books(u, accepted, outcome) /\ depth = Depth(u) /\ bytes = Size(u) /\ OutcomeIsTrue
      /\ Running
  BY DEF Kept
<1>4. Unsettled' = IF active = None THEN <<>> ELSE <<active>>
  <2>1. active # None => <<active>> \o <<>> = <<active>> OBVIOUS
  <2> QED BY <1>1, <2>1 DEF Unsettled
<1>5. /\ active = None => u = pending
      /\ active # None => active \in Entries /\ u = <<active>> \o pending /\ u # <<>>
                          /\ u[1] = active /\ Tail(u) = pending
  BY <1>2, <1>3, UnsettledIs
<1>6. \A x \in Waiters(pending) : x \in DOMAIN outcome => outcome[x] = "pending"
  <2>1. SUFFICES ASSUME NEW x \in Waiters(pending) PROVE x \in Waiters(u)
    BY <1>3 DEF Books
  <2>2. CASE active = None BY <1>5, <2>2
  <2>3. CASE active # None
    <3>1. PICK i \in DOMAIN pending : x \in ToSet(pending[i].ids) BY WaitersAre
    <3>2. /\ Len(u) = Len(pending) + 1 /\ \A j \in 1 .. Len(pending) : u[j + 1] = pending[j]
      BY <1>2, <1>5, <2>3, EntryFirst
    <3>. HIDE DEF u
    <3>3. DOMAIN pending = 1 .. Len(pending) /\ DOMAIN u = 1 .. Len(pending) + 1 /\ Len(pending) \in Nat
      BY <1>2, <3>2
    <3>4. i + 1 \in DOMAIN u /\ u[i + 1] = pending[i] BY <3>2, <3>3
    <3> QED BY <3>1, <3>4, WaitersAre
  <2> QED BY <2>2, <2>3
<1>7. /\ OutcomeIsTrue' /\ outcome' \in Seq(Verdicts) /\ Len(outcome') = Len(outcome)
      /\ \A x \in DOMAIN outcome : IF x \in Waiters(pending) THEN outcome'[x] # "pending"
                                   ELSE outcome'[x] = outcome[x]
  <2>1. "failed" \in {"rejected", "failed"} OBVIOUS
  <2>2. ToSet(sent) \subseteq ToSet(sent') BY <1>1
  <2>3. UNCHANGED <<accepted, adapter>> BY <1>1
  <2> QED BY <1>1, <1>2, <1>3, <1>6, <2>1, <2>2, <2>3, RejectionIsTrue
<1>. HIDE DEF u
<1>8. Books(Unsettled', accepted', outcome')
  <2>1. CASE active = None
    <3>1. Books(<<>>, accepted, outcome') BY <1>2, <1>3, <1>5, <1>7, <2>1, BooksNone
    <3> QED BY <1>1, <1>4, <2>1, <3>1
  <2>2. CASE active # None
    <3>1. Books(<<active>>, accepted, outcome')
      BY <1>2, <1>3, <1>5, <1>7, <2>2, BooksFirst
    <3> QED BY <1>1, <1>4, <2>2, <3>1
  <2> QED BY <2>1, <2>2
<1>9. depth' = Depth(Unsettled') /\ bytes' = Size(Unsettled')
  <2>1. depth' = depth - Depth(pending) /\ bytes' = bytes - Size(pending)
    BY <1>1 DEF ReleaseAll
  <2>2. CASE active = None
    <3>1. Depth(pending) \in Nat /\ Size(pending) \in Nat
      <4>1. CASE pending = <<>> BY <4>1, NothingCounts
      <4>2. CASE pending # <<>> BY <1>2, <4>2, CountFromHead
      <4> QED BY <4>1, <4>2
    <3> QED BY <1>3, <1>4, <1>5, <2>1, <2>2, <3>1, NothingCounts
  <2>3. CASE active # None
    <3>. DEFINE s == <<active>>
    <3>1. s \in Seq(Entries) /\ s # <<>> /\ s[1] = active /\ Tail(s) = <<>> BY <1>5, <2>3
    <3>. HIDE DEF s
    <3>2. Depth(s) = Len(active.ids) /\ Size(s) = Bytes(active.input)
      <4>1. /\ Depth(s) = Len(active.ids) + Depth(<<>>) /\ Size(s) = Bytes(active.input) + Size(<<>>)
        BY <3>1, CountFromHead
      <4>2. Len(active.ids) \in Nat /\ Bytes(active.input) \in Nat
        BY <1>5, <2>3, EntryBounds
      <4> QED BY <4>1, <4>2, NothingCounts
    <3>3. /\ Depth(u) = Len(active.ids) + Depth(pending)
          /\ Size(u) = Bytes(active.input) + Size(pending)
          /\ Depth(pending) \in Nat /\ Size(pending) \in Nat
      BY <1>2, <1>5, <2>3, CountFromHead
    <3>4. Len(active.ids) \in Nat /\ Bytes(active.input) \in Nat BY <1>5, <2>3, EntryBounds
    <3> QED BY <1>3, <1>4, <2>1, <2>3, <3>2, <3>3, <3>4 DEF s
  <2> QED BY <2>2, <2>3
<1>10. Running' /\ Newest' BY <1>1, <1>3 DEF Running, Newest
<1>11. SentInOrder' BY <1>1 DEF Kept, Deliveries, SentInOrder
<1>12. Deliveries'
  <2>1. /\ dispatch' \in {"sleeping", "awake"} => dispatch \in {"sleeping", "awake"}
        /\ dispatch' \in {"writing", "calling", "ok"} => dispatch \in {"writing", "calling", "ok"}
    BY <1>1
  <2> QED BY <1>1, <1>11, <2>1 DEF Kept, Deliveries
<1> QED BY <1>7, <1>8, <1>9, <1>10, <1>12 DEF Kept

LEMMA FailKeeps ==
  ASSUME IInv, Kept, Fail
  PROVE  Kept'
<1>. DEFINE u == Unsettled
<1>1. /\ dispatch # "none"
      /\ outcome' = RejectedAs(Waiters(<<active>> \o pending), "failed")
      /\ ReleaseAll(<<active>> \o pending)
      /\ pending' = <<>> /\ active' = None /\ step' = 0 /\ dispatch' = "none" /\ pump' = "idle"
      /\ UNCHANGED <<adapter, sent, accepted>>
  BY DEF Fail
<1>2. active # None BY <1>1 DEF Kept, Running
<1>3. u = <<active>> \o pending /\ u \in Seq(Entries) /\ u # <<>> BY <1>2, ActiveIs
<1>4. /\ Books(u, accepted, outcome) /\ depth = Depth(u) /\ bytes = Size(u) /\ OutcomeIsTrue
      /\ outcome \in Seq(Verdicts) /\ sent \in Seq(Nat \X Nat)
  BY KeptTypes DEF Kept
<1>. HIDE DEF u
<1>5. \A x \in Waiters(u) : x \in DOMAIN outcome => outcome[x] = "pending"
  BY <1>4 DEF Books
<1>6. /\ OutcomeIsTrue' /\ outcome' \in Seq(Verdicts) /\ Len(outcome') = Len(outcome)
      /\ \A x \in DOMAIN outcome : IF x \in Waiters(u) THEN outcome'[x] # "pending"
                                   ELSE outcome'[x] = outcome[x]
  <2>1. "failed" \in {"rejected", "failed"} OBVIOUS
  <2>2. ToSet(sent) \subseteq ToSet(sent') BY <1>1
  <2>3. UNCHANGED <<accepted, adapter>> BY <1>1
  <2>4. outcome' = RejectedAs(Waiters(u), "failed") BY <1>1, <1>3
  <2> QED BY <1>4, <1>5, <2>1, <2>2, <2>3, <2>4, RejectionIsTrue
<1>7. Unsettled' = <<>> BY <1>1 DEF Unsettled
<1>8. Books(Unsettled', accepted', outcome')
  <2>1. Books(<<>>, accepted, outcome') BY <1>4, <1>6, BooksNone
  <2> QED BY <1>1, <1>7, <2>1
<1>9. depth' = Depth(Unsettled') /\ bytes' = Size(Unsettled')
  <2>1. depth' = depth - Depth(u) /\ bytes' = bytes - Size(u) BY <1>1, <1>3 DEF ReleaseAll
  <2>2. Depth(u) \in Nat /\ Size(u) \in Nat BY <1>3, CountFromHead
  <2> QED BY <1>4, <1>7, <2>1, <2>2, NothingCounts
<1>10. Running' /\ Newest' BY <1>1 DEF Running, Newest
<1>11. SentInOrder' BY <1>1 DEF Kept, Deliveries, SentInOrder
<1>12. Deliveries' BY <1>1, <1>11 DEF Kept, Deliveries
<1> QED BY <1>6, <1>8, <1>9, <1>10, <1>12 DEF Kept

LEMMA EnvironmentKeeps ==
  ASSUME IInv, Kept, Environment
  PROVE  Kept'
<1>1. CASE SleepEnds
  <2>1. /\ UNCHANGED <<adapter, pending, active, depth, bytes, step, sent, pump, accepted, outcome>>
        /\ dispatch = "sleeping" /\ dispatch' = "awake"
    BY <1>1 DEF SleepEnds, queue
  <2> QED BY <2>1, DispatchMoves
<1>2. ASSUME NEW what \in {"callback", "drain"}, SocketAnswers(what) PROVE Kept'
  <2>1. /\ UNCHANGED <<adapter, pending, active, depth, bytes, step, sent, pump, accepted, outcome>>
        /\ dispatch = "writing" /\ dispatch' \in {"writing", "ok"}
    BY <1>2 DEF SocketAnswers, queue
  <2> QED BY <2>1, DispatchMoves
<1>3. CASE SocketFails
  <2>1. /\ UNCHANGED <<adapter, pending, active, depth, bytes, step, sent, pump, accepted, outcome>>
        /\ dispatch' = (IF dispatch = "writing" THEN "failed" ELSE dispatch)
    BY <1>3 DEF SocketFails, queue
  <2> QED BY <2>1, DispatchMoves
<1>4. ASSUME NEW result \in {"ok", "rejected", "failed"}, DispatcherSettles(result) PROVE Kept'
  <2>1. /\ UNCHANGED <<adapter, pending, active, depth, bytes, step, sent, pump, accepted, outcome>>
        /\ dispatch = "calling" /\ dispatch' = result
    BY <1>4 DEF DispatcherSettles, queue
  <2> QED BY <1>4, <2>1, DispatchMoves
<1> QED BY <1>1, <1>2, <1>3, <1>4 DEF Environment

-----------------------------------------------------------------------------
(* What the queue promises.                                                *)

\* The whole state of the queue hangs together in every reachable state: what is
\* active, pending, settled and sent, with the counters.
THEOREM QueueInvariance == Spec => []Kept
<1>1. Init => Kept
  <2>. SUFFICES ASSUME Init PROVE Kept OBVIOUS
  <2>1. /\ pending = <<>> /\ active = None /\ step = 0 /\ dispatch = "none" /\ pump = "idle"
        /\ depth = 0 /\ bytes = 0 /\ accepted = <<>> /\ outcome = <<>> /\ sent = <<>>
    BY DEF Init
  <2>2. Running /\ Newest BY <2>1 DEF Running, Newest
  <2>3. Unsettled = <<>> BY <2>1 DEF Unsettled
  <2>4. Books(<<>>, <<>>, <<>>)
    <3>1. \A x : x \notin Waiters(<<>>) BY WaitersAre
    <3> QED BY <3>1 DEF Books
  <2>5. Deliveries BY <2>1 DEF Deliveries, SentInOrder
  <2>6. OutcomeIsTrue BY <2>1 DEF OutcomeIsTrue
  <2> QED BY <2>1, <2>2, <2>3, <2>4, <2>5, <2>6, NothingCounts DEF Kept
<1>2. IInv /\ Kept /\ [Next]_vars => Kept'
  <2>. SUFFICES ASSUME IInv, Kept, [Next]_vars PROVE Kept' OBVIOUS
  <2>1. CASE UNCHANGED vars
    <3>1. UNCHANGED <<adapter, pending, active, depth, bytes, step, dispatch, sent, pump, accepted, outcome>>
      BY <2>1 DEF vars, queue, adapting
    <3> QED BY <3>1, DispatchMoves
  <2>2. CASE Pump
    BY <2>2, PumpStartsKeeps, AwakeKeeps, NextStepKeeps, CompleteOrRejectKeeps, FailKeeps DEF Pump
  <2> QED BY <2>1, <2>2, EnqueueKeeps, CloseKeeps, EnvironmentKeeps DEF Next
<1> QED BY <1>1, <1>2, Invariance, PTL DEF Spec

\* No capacity leaks through coalescing, rejection, failure or close: #depth and
\* #bytes are what the entries hold, however long the queue lives, and an input
\* is unsettled exactly while an entry waits for it.
THEOREM Balance == Spec => []AccountsBalance
<1>1. Kept => AccountsBalance BY DEF Kept, Books, AccountsBalance
<1> QED BY <1>1, QueueInvariance, PTL

\* No completion lies: what is reported completed was carried out to its last
\* step, and what is reported coalesced was superseded by its own kind.
THEOREM Truth == Spec => []OutcomeIsTrue
<1>1. Kept => OutcomeIsTrue BY DEF Kept
<1> QED BY <1>1, QueueInvariance, PTL

\* The device sees the inputs in the order of their acceptance, a step at a time.
THEOREM Order == Spec => []SentInOrder
<1>1. Kept => SentInOrder BY DEF Kept, Deliveries
<1> QED BY <1>1, QueueInvariance, PTL

\* Once the queue is closed, or its socket has failed, nothing leaves it any more.
THEOREM NothingSent == Spec => NothingSentAfterFailure
<1>. DEFINE dead == closed \/ (adapter = "writer" /\ broken)
<1>1. ASSUME [Next]_vars, dead PROVE sent' = sent
  <2>1. ASSUME NEW input \in Inputs, Enqueue(input) PROVE sent' = sent
    BY <2>1 DEF Enqueue, adapting
  <2>2. CASE Take /\ ~closed
    <3>1. CASE pending = <<>> BY <2>2, <3>1 DEF Take
    <3>2. CASE pending # <<>> BY <1>1, <2>2, <3>2 DEF Take, Perform
    <3> QED BY <3>1, <3>2
  <2>3. CASE PumpStarts BY <2>2, <2>3 DEF PumpStarts, adapting
  <2>4. CASE Awake BY <1>1, <2>4 DEF Awake, Perform
  <2>5. CASE NextStep BY <2>5 DEF NextStep
  <2>6. CASE Complete \/ Reject BY <2>2, <2>6 DEF Complete, Reject
  <2>7. CASE Fail BY <2>7 DEF Fail
  <2>8. CASE Close BY <2>8 DEF Close
  <2>9. CASE Environment
    BY <2>9 DEF Environment, SleepEnds, SocketAnswers, SocketFails, DispatcherSettles
  <2>10. CASE UNCHANGED vars BY <2>10 DEF vars, adapting
  <2> QED BY <1>1, <2>1, <2>3, <2>4, <2>5, <2>6, <2>7, <2>8, <2>9, <2>10 DEF Next, Pump
<1>2. [Next]_vars => [dead => sent' = sent]_vars
  <2>1. ASSUME [Next]_vars, dead PROVE sent' = sent BY <1>1, <2>1
  <2> QED BY <2>1
<1> QED BY <1>2, PTL DEF Spec, NothingSentAfterFailure

-----------------------------------------------------------------------------
(* RouterPool, its inductive invariant.                                     *)

Maybe(S) == S \cup {0}

Pool == [app : Maybe(Requests), start : Maybe(Requests), tail : Maybe(Requests),
         cooling : BOOLEAN, stopping : BOOLEAN, stopped : BOOLEAN, forgotten : BOOLEAN]
Start == [step : {"none", "stopOld", "open", "discard", "settled"}, old : Maybe(Requests),
          aborted : BOOLEAN, queued : BOOLEAN]
Request == [step : {"none", "waiting", "joining", "open", "closing", "done"},
            old : Maybe(Requests), aborted : BOOLEAN,
            kind : {"none", "get", "queued", "switch"},
            after : Maybe(Requests), join : Maybe(Requests)]
Stop == [step : {"none", "wait", "late", "kill", "over", "done"}, app : Maybe(Requests),
         start : Maybe(Requests), tail : Maybe(Requests)]
AppStop == {k \in Stop : k.step # "done"}
Stages == {"unborn", "opening", "live", "ended", "closing", "closed"}

Types ==
  /\ pool \in Pool
  /\ app \in [Requests -> Stages]
  /\ start \in [Requests -> Start]
  /\ request \in [Requests -> Request]
  /\ stop \in [Stops -> AppStop] /\ stopAll \in Stop

\* The steps of a request q and its place in the queue Q with tail t: requests are
\* made in order; one that is queued, and not answered, is waited for by all that
\* were made after it; a request goes on only when all that were made before it and
\* are not answered went on.
Kinds(Q) ==
  \A r \in Requests :
    /\ Q[r].step \in {"none", "done"} => Q[r].kind = "none"
    /\ Q[r].step \in {"waiting", "joining"} => Q[r].kind # "none"
    /\ Q[r].step \in {"open", "closing"} => Q[r].kind = "switch"
    /\ Q[r].step = "waiting" => Q[r].after < r
    /\ Q[r].step = "joining" => Q[r].join # 0

InQueue(Q, r) == Q[r].kind \in {"queued", "switch"}

InOrder(Q, t) ==
  /\ \A q, r \in Requests : q < r /\ Q[r].step # "none" => Q[q].step # "none"
  /\ \A q, r \in Requests :
       q < r /\ (InQueue(Q, q) \/ Q[q].step = "waiting") /\ InQueue(Q, r) => Q[r].step = "waiting"
  /\ \A r \in Requests :
       Q[r].step = "waiting" /\ Q[r].after # 0 =>
         InQueue(Q, Q[r].after) \/ Q[Q[r].after].step = "done"
  /\ \A q, r \in Requests :
       q < r /\ InQueue(Q, q) /\ Q[r].step = "waiting" =>
         q <= Q[r].after /\ InQueue(Q, Q[r].after)
  /\ t # 0 => InQueue(Q, t)
  /\ \A q \in Requests : InQueue(Q, q) => t # 0 /\ q <= t

Active == {"stopOld", "open", "discard"}

\* One start at a time, or one switch: b is the start that is under way, of S, and r
\* the queued request that joined it.
OneAtATime(Q, S, b) ==
  /\ \A s \in Requests : S[s].step \in Active => b = s
  /\ b # 0 => S[b].step \in Active
  /\ \A r \in Requests : Q[r].step = "joining" => S[Q[r].join].step \in Active \cup {"settled"}
  /\ \A r \in Requests : Q[r].step = "joining" /\ InQueue(Q, r) /\ b # 0 => b = Q[r].join
  /\ \A r \in Requests : Q[r].step = "open" => b = 0

\* An app that is open is in the hands of its start or switch, or published.
Owned(Q, S, A, b, p) ==
  /\ \A a \in Requests : A[a] = "opening" => S[a].step = "open" \/ Q[a].step = "open"
  /\ \A a \in Requests : A[a] = "live" => p = a
  /\ b # 0 /\ p # 0 => A[p] # "live"

\* What a stop k found is all there is to wait for, and when it waited there is nothing.
Gone(Q, b, r) == InQueue(Q, r) => Q[r].step = "waiting"
Covers(k, Q, b, p) ==
  /\ k.step = "wait" /\ b # 0 => k.start = b
  /\ k.step = "wait" =>
       \A r \in Requests : InQueue(Q, r) /\ Q[r].step # "waiting" =>
                             k.tail # 0 /\ r <= k.tail /\ InQueue(Q, k.tail)
  /\ k.step \in {"late", "kill", "done"} =>
       /\ b = 0
       /\ \A r \in Requests : InQueue(Q, r) => Q[r].step = "waiting"
  /\ k.step = "late" => p \in {0, k.app}
  /\ k.step \in {"kill", "done"} => p = 0

\* So it is of all the stops that are under way.
Covered(Q, b, p) == (\A k \in Stops : Covers(stop[k], Q, b, p)) /\ Covers(stopAll, Q, b, p)

Orderly ==
  /\ Kinds(request) /\ InOrder(request, pool.tail)
  /\ OneAtATime(request, start, pool.start)
  /\ Owned(request, start, app, pool.start, pool.app)
  /\ Covered(request, pool.start, pool.app)
  /\ \A k \in Stops : UnderWay(k) => pool.stopping
  /\ stopAll.step # "none" => pool.stopped

RInv == Types /\ (pool.forgotten \/ Orderly)
-----------------------------------------------------------------------------
(* Types.                                                                   *)

\* stop() of an app makes it closing, and changes no other app.
LEMMA StoppedIs ==
  ASSUME NEW A \in [Requests -> Stages], NEW p \in Maybe(Requests)
  PROVE  /\ Stopped(A, p) \in [Requests -> Stages]
         /\ \A a \in Requests : Stopped(A, p)[a] \in {A[a], "closing"}
         /\ p # 0 => Stopped(A, p)[p] \in {"closing", "closed"}
         /\ \A a \in Requests : a # p => Stopped(A, p)[a] = A[a]
BY RouterAssumption DEF Stopped, NoApp, Maybe, Stages

\* What the parts of the pool become keeps its type.
LEMMA PoolTypes ==
  ASSUME pool \in Pool
  PROVE  /\ \A p \in Pool : Cooling(p) \in Pool
         /\ Emptied(pool) \in Pool
BY RouterAssumption DEF Pool, Cooling, Emptied, Maybe, NoApp, Refusing

\* What the pool is when the serial leaves stoppingSerials.
LEMMA ForgottenIs ==
  ASSUME pool \in Pool, NEW S \in SUBSET Stops
  PROVE  /\ Forgotten(S) \in Pool
         /\ Forgotten(S).start = pool.start /\ Forgotten(S).app = pool.app
         /\ Forgotten(S).tail = pool.tail /\ Forgotten(S).stopped = pool.stopped
         /\ ~Forgotten(S).stopping
         /\ pool.forgotten => Forgotten(S).forgotten
         /\ pool.stopping /\ ~Forgotten(S).forgotten => \A k \in S : ~UnderWay(k)
<1> DEFINE b == pool.stopping /\ \E k \in S : UnderWay(k)
<1>1. b \in BOOLEAN /\ (pool.stopping /\ ~b => \A k \in S : ~UnderWay(k))
  OBVIOUS
<1>2. Forgotten(S) = [pool EXCEPT !.stopping = FALSE, !.forgotten = @ \/ b]
  BY DEF Forgotten
<1> HIDE DEF b
<1>3. /\ Forgotten(S) \in Pool
      /\ Forgotten(S).start = pool.start /\ Forgotten(S).app = pool.app
      /\ Forgotten(S).tail = pool.tail /\ Forgotten(S).stopped = pool.stopped
      /\ ~Forgotten(S).stopping
      /\ Forgotten(S).forgotten = (pool.forgotten \/ b)
  BY <1>1, <1>2 DEF Pool
<1> QED
  BY <1>1, <1>3

LEMMA StartSettlesTypes ==
  ASSUME Types, NEW s \in Requests, NEW p \in Pool, StartSettles(s, p)
  PROVE  pool' \in Pool /\ start' \in [Requests -> Start]
<1>1. [NoStart EXCEPT !.step = "settled"] \in Start
  BY DEF NoStart, NoApp, Start, Maybe
<1> QED
  BY <1>1, RouterAssumption DEF StartSettles, Types, Pool, Maybe

LEMMA AnswerTypes ==
  ASSUME Types, NEW r \in Requests, NEW p \in Pool, Answer(r, p)
  PROVE  pool' \in Pool /\ request' \in [Requests -> Request]
<1>1. [NoRequest EXCEPT !.step = "done"] \in Request
  BY DEF NoRequest, NoApp, Request, Maybe
<1> QED
  BY <1>1, RouterAssumption DEF Answer, Types, Pool, Maybe

LEMMA InitTypes == RouterInit => Types
<1> SUFFICES ASSUME RouterInit PROVE Types
  OBVIOUS
<1>1. NoStart \in Start /\ NoRequest \in Request /\ NoStop \in Stop /\ NoStop \in AppStop
  BY DEF NoStart, NoRequest, NoStop, NoApp, Start, Request, Stop, AppStop, Maybe
<1>2. pool \in Pool
  BY DEF RouterInit, Pool, Maybe, NoApp
<1> QED
  BY <1>1, <1>2 DEF RouterInit, Types, Stages

LEMMA AppTypes ==
  ASSUME Types, NEW a \in Requests, AppEnds(a) \/ AppCloses(a)
  PROVE  Types'
BY DEF AppEnds, AppCloses, Types, Stages

LEMMA StartTypes ==
  ASSUME Types, NEW s \in Requests, StartProceeds(s)
  PROVE  Types'
<1>c. Cooling(pool) \in Pool
  BY PoolTypes DEF Types
<1>1. CASE OldStopped(s)
  <2>1. CASE start[s].aborted
    <3> DEFINE p == [pool EXCEPT !.app = IF @ = start[s].old THEN NoApp ELSE @]
    <3>1. StartSettles(s, Cooling(p)) /\ UNCHANGED <<app, request, stop, stopAll>>
      BY <1>1, <2>1 DEF OldStopped
    <3>2. p \in Pool
      BY DEF Types, Pool, Maybe, NoApp
    <3>3. Cooling(p) \in Pool
      BY <3>2, PoolTypes DEF Types
    <3> QED
      BY <3>1, <3>3, StartSettlesTypes DEF Types
  <2>2. CASE ~start[s].aborted
    <3>1. /\ pool' = [pool EXCEPT !.app = IF @ = start[s].old THEN NoApp ELSE @]
          /\ start' = [start EXCEPT ![s].step = "open"]
          /\ app' = [app EXCEPT ![s] = "opening"]
          /\ UNCHANGED <<request, stop, stopAll>>
      BY <1>1, <2>2 DEF OldStopped
    <3>2. pool' \in Pool
      BY <3>1 DEF Types, Pool, Maybe, NoApp
    <3>3. start' \in [Requests -> Start]
      BY <3>1 DEF Types, Start
    <3> QED
      BY <3>1, <3>2, <3>3 DEF Types, Stages
  <2> QED
    BY <2>1, <2>2
<1>2. CASE StartOpens(s)
  <2> PICK result \in Outcomes :
           CASE result = "closed" -> app' = [app EXCEPT ![s] = "closed"] /\ StartFails(s)
             [] Publishable(result, start[s]) ->
                  /\ app' = [app EXCEPT ![s] = "live"]
                  /\ StartSettles(s, [pool EXCEPT !.app = s])
             [] OTHER -> /\ app' = [app EXCEPT ![s] = "closing"]
                         /\ start' = [start EXCEPT ![s].step = "discard"]
                         /\ UNCHANGED pool
    BY <1>2 DEF StartOpens
  <2>0. UNCHANGED <<request, stop, stopAll>>
    BY <1>2 DEF StartOpens
  <2>1. CASE result = "closed"
    <3>1. app' = [app EXCEPT ![s] = "closed"] /\ StartSettles(s, Cooling(pool))
      BY <2>1 DEF StartFails, Publishable
    <3> QED
      BY <3>1, <2>0, <1>c, StartSettlesTypes DEF Types, Stages
  <2>2. CASE result # "closed" /\ Publishable(result, start[s])
    <3>1. app' = [app EXCEPT ![s] = "live"] /\ StartSettles(s, [pool EXCEPT !.app = s])
      BY <2>2
    <3>2. [pool EXCEPT !.app = s] \in Pool
      BY DEF Types, Pool, Maybe
    <3> QED
      BY <3>1, <3>2, <2>0, StartSettlesTypes DEF Types, Stages
  <2>3. CASE result # "closed" /\ ~Publishable(result, start[s])
    <3>1. /\ app' = [app EXCEPT ![s] = "closing"]
          /\ start' = [start EXCEPT ![s].step = "discard"]
          /\ UNCHANGED pool
      BY <2>3
    <3>2. start' \in [Requests -> Start]
      BY <3>1 DEF Types, Start
    <3> QED
      BY <3>1, <3>2, <2>0 DEF Types, Stages
  <2> QED
    BY <2>1, <2>2, <2>3
<1>3. CASE StartDiscards(s)
  <2>1. StartSettles(s, Cooling(pool)) /\ UNCHANGED <<app, request, stop, stopAll>>
    BY <1>3 DEF StartDiscards, StartFails
  <2> QED
    BY <2>1, <1>c, StartSettlesTypes DEF Types
<1> QED
  BY <1>1, <1>2, <1>3 DEF StartProceeds

\* A request that goes on keeps its type, and so do those that do not.
LEMMA StepTypes ==
  ASSUME Types, NEW r \in Requests, NEW s \in {"joining", "open", "closing"},
         NEW a \in Maybe(Requests)
  PROVE  /\ [request EXCEPT ![r].step = s] \in [Requests -> Request]
         /\ [request EXCEPT ![r].step = s, ![r].join = a] \in [Requests -> Request]
         /\ [request EXCEPT ![r].step = s, ![r].old = a] \in [Requests -> Request]
<1> DEFINE Q == [request EXCEPT ![r].step = s]
<1>1. ASSUME NEW x \in Request
      PROVE  [x EXCEPT !.step = s] \in Request /\ [x EXCEPT !.join = a] \in Request
             /\ [x EXCEPT !.old = a] \in Request
  BY DEF Request
<1>2. Q \in [Requests -> Request]
  BY <1>1 DEF Types
<1>3. /\ [request EXCEPT ![r].step = s, ![r].join = a] = [Q EXCEPT ![r].join = a]
      /\ [request EXCEPT ![r].step = s, ![r].old = a] = [Q EXCEPT ![r].old = a]
  OBVIOUS
<1>4. [Q EXCEPT ![r].join = a] \in [Requests -> Request] /\ [Q EXCEPT ![r].old = a] \in [Requests -> Request]
  <2> HIDE DEF Q
  <2> QED
    BY <1>1, <1>2
<1> QED
  BY <1>2, <1>3, <1>4

LEMMA MadeTypes ==
  ASSUME Types, NEW r \in Requests, Requested(r)
  PROVE  Types'
<1> PICK kind \in {"get", "queued", "switch"} :
       LET made == [request[r] EXCEPT !.kind = kind, !.after = pool.tail, !.step = "waiting"]
       IN  IF kind # "get" /\ pool.stopped
           THEN request' = [request EXCEPT ![r].step = "done"] /\ UNCHANGED pool
           ELSE /\ request' = [request EXCEPT ![r] = made]
                /\ pool' = [pool EXCEPT !.tail = IF kind = "get" THEN @ ELSE r]
  BY DEF Requested
<1> DEFINE made == [request[r] EXCEPT !.kind = kind, !.after = pool.tail, !.step = "waiting"]
<1>1. made \in Request
  <2>1. request[r] \in Request /\ pool.tail \in Maybe(Requests)
    BY DEF Types, Pool
  <2> QED
    BY <2>1 DEF Request
<1>2. UNCHANGED <<app, start, stop, stopAll>>
  BY DEF Requested
<1>3. request' \in [Requests -> Request]
  <2>1. [request EXCEPT ![r].step = "done"] \in [Requests -> Request]
    BY DEF Types, Request
  <2>2. [request EXCEPT ![r] = made] \in [Requests -> Request]
    BY <1>1 DEF Types
  <2> QED
    BY <2>1, <2>2
<1>4. pool' \in Pool
  BY DEF Types, Pool, Maybe
<1> QED
  BY <1>2, <1>3, <1>4 DEF Types

LEMMA BeginsTypes ==
  ASSUME Types, NEW r \in Requests, Begins(r)
  PROVE  Types'
<1>1. /\ StartBegins(r) /\ request' = [request EXCEPT ![r].step = "joining", ![r].join = r]
      /\ UNCHANGED <<stop, stopAll>>
  BY DEF Begins
<1>2. request' \in [Requests -> Request]
  BY <1>1, StepTypes DEF Maybe
<1> DEFINE task == [start[r] EXCEPT !.queued = Queued(r), !.old = pool.app]
<1>3. pool' \in Pool
  BY <1>1 DEF StartBegins, Types, Pool, Maybe
<1>4. task \in Start
  <2> DEFINE b == Queued(r)
  <2>1. start[r] \in Start /\ pool.app \in Maybe(Requests) /\ b \in BOOLEAN
    BY DEF Types, Pool, Queued
  <2>2. task = [start[r] EXCEPT !.queued = b, !.old = pool.app]
    OBVIOUS
  <2> HIDE DEF b, task
  <2> QED
    BY <2>1, <2>2 DEF Start
<1>5. start' \in [Requests -> Start] /\ app' \in [Requests -> Stages]
  <2>1. CASE pool.app # NoApp
    <3>1. start' = [start EXCEPT ![r] = [task EXCEPT !.step = "stopOld"]] /\ app' = Stopped(app, pool.app)
      BY <1>1, <2>1 DEF StartBegins
    <3>2. [task EXCEPT !.step = "stopOld"] \in Start
      BY <1>4 DEF Start
    <3> HIDE DEF task
    <3> QED
      BY <3>1, <3>2, StoppedIs DEF Types, Pool
  <2>2. CASE pool.app = NoApp
    <3>1. start' = [start EXCEPT ![r] = [task EXCEPT !.step = "open"]] /\ app' = [app EXCEPT ![r] = "opening"]
      BY <1>1, <2>2 DEF StartBegins
    <3>2. [task EXCEPT !.step = "open"] \in Start
      BY <1>4 DEF Start
    <3> HIDE DEF task
    <3> QED
      BY <3>1, <3>2 DEF Types, Stages
  <2> QED
    BY <2>1, <2>2
<1> QED
  BY <1>1, <1>2, <1>3, <1>5 DEF Types

\* How a switch that opened its app goes on.
SwitchOutcome(r, result) ==
  \/ /\ result = "closed"
     /\ app' = [app EXCEPT ![r] = "closed"] /\ Answer(r, pool)
  \/ /\ Publishable(result, request[r])
     /\ pool' = [pool EXCEPT !.app = r, !.cooling = FALSE]
     /\ app' = Stopped([app EXCEPT ![r] = "live"], pool.app)
     /\ request' = [request EXCEPT ![r].step = "closing", ![r].old = pool.app]
  \/ /\ app' = [app EXCEPT ![r] = "closing"]
     /\ request' = [request EXCEPT ![r].step = "closing", ![r].old = r]
     /\ UNCHANGED pool

LEMMA SwitchOpensIs ==
  ASSUME NEW r \in Requests, SwitchOpens(r)
  PROVE  /\ request[r].step = "open"
         /\ \E result \in Outcomes : SwitchOutcome(r, result)
         /\ UNCHANGED <<start, stop, stopAll>>
<1> PICK result \in Outcomes :
           CASE result = "closed" -> app' = [app EXCEPT ![r] = "closed"] /\ Answer(r, pool)
             [] Publishable(result, request[r]) ->
                  /\ pool' = [pool EXCEPT !.app = r, !.cooling = FALSE]
                  /\ app' = Stopped([app EXCEPT ![r] = "live"], pool.app)
                  /\ request' = [request EXCEPT ![r].step = "closing", ![r].old = pool.app]
             [] OTHER -> /\ app' = [app EXCEPT ![r] = "closing"]
                         /\ request' = [request EXCEPT ![r].step = "closing", ![r].old = r]
                         /\ UNCHANGED pool
  BY DEF SwitchOpens
<1>1. CASE result = "closed"
  <2>1. app' = [app EXCEPT ![r] = "closed"] /\ Answer(r, pool)
    BY <1>1 DEF Publishable
  <2> QED
    BY <2>1, <1>1 DEF SwitchOpens, SwitchOutcome
<1>2. CASE result # "closed" /\ Publishable(result, request[r])
  BY <1>2 DEF SwitchOpens, SwitchOutcome
<1>3. CASE result # "closed" /\ ~Publishable(result, request[r])
  BY <1>3 DEF SwitchOpens, SwitchOutcome
<1> QED
  BY <1>1, <1>2, <1>3

LEMMA SwitchOpensTypes ==
  ASSUME Types, NEW r \in Requests, SwitchOpens(r)
  PROVE  Types'
<1> PICK result \in Outcomes : SwitchOutcome(r, result)
  BY SwitchOpensIs
<1>0. UNCHANGED <<start, stop, stopAll>>
  BY SwitchOpensIs
<1>1. CASE app' = [app EXCEPT ![r] = "closed"] /\ Answer(r, pool)
  BY <1>1, <1>0, AnswerTypes DEF Types, Stages
<1>2. CASE /\ pool' = [pool EXCEPT !.app = r, !.cooling = FALSE]
           /\ app' = Stopped([app EXCEPT ![r] = "live"], pool.app)
           /\ request' = [request EXCEPT ![r].step = "closing", ![r].old = pool.app]
  <2>1. pool' \in Pool
    BY <1>2 DEF Types, Pool, Maybe
  <2>2. [app EXCEPT ![r] = "live"] \in [Requests -> Stages] /\ pool.app \in Maybe(Requests)
    BY DEF Types, Stages, Pool
  <2>3. app' \in [Requests -> Stages]
    BY <1>2, <2>2, StoppedIs
  <2>4. request' \in [Requests -> Request]
    BY <1>2, <2>2, StepTypes
  <2> QED
    BY <1>0, <2>1, <2>3, <2>4 DEF Types
<1>3. CASE /\ app' = [app EXCEPT ![r] = "closing"]
           /\ request' = [request EXCEPT ![r].step = "closing", ![r].old = r]
           /\ UNCHANGED pool
  <2>1. request' \in [Requests -> Request]
    BY <1>3, StepTypes DEF Maybe
  <2> QED
    BY <1>3, <1>0, <2>1 DEF Types, Stages
<1> QED
  BY <1>1, <1>2, <1>3 DEF SwitchOutcome

LEMMA RequestTypes ==
  ASSUME Types, NEW r \in Requests, RequestProceeds(r)
  PROVE  Types'
<1>p. pool \in Pool
  BY DEF Types
<1>1. CASE Refused(r) \/ AppFound(r) \/ StartShared(r) \/ SwitchEnds(r)
  <2>1. Answer(r, pool) /\ UNCHANGED <<app, start, stop, stopAll>>
    BY <1>1 DEF Refused, AppFound, StartShared, SwitchEnds
  <2> QED
    BY <2>1, <1>p, AnswerTypes DEF Types
<1>2. CASE Joins(r)
  <2>1. /\ request' = [request EXCEPT ![r].step = "joining", ![r].join = pool.start]
        /\ UNCHANGED <<pool, app, start, stop, stopAll>>
    BY <1>2 DEF Joins
  <2> QED
    BY <2>1, <1>p, StepTypes DEF Types, Pool
<1>3. CASE Begins(r)
  BY <1>3, BeginsTypes
<1>4. CASE SwitchBegins(r)
  <2>1. /\ request' = [request EXCEPT ![r].step = "open"]
        /\ app' = [app EXCEPT ![r] = "opening"]
        /\ UNCHANGED <<pool, start, stop, stopAll>>
    BY <1>4 DEF SwitchBegins
  <2>2. request' \in [Requests -> Request]
    BY <2>1, StepTypes DEF Maybe
  <2> QED
    BY <2>1, <2>2 DEF Types, Stages
<1>5. CASE SwitchOpens(r)
  BY <1>5, SwitchOpensTypes
<1> QED
  BY <1>1, <1>2, <1>3, <1>4, <1>5 DEF RequestProceeds

\* Aborting changes no step.
LEMMA AbortTypes ==
  ASSUME Types
  PROVE  /\ AbortStarts \in [Requests -> Start]
         /\ AbortRequests \in [Requests -> Request]
         /\ \A r \in Requests :
              /\ AbortStarts[r].step = start[r].step
              /\ AbortRequests[r].step = request[r].step /\ AbortRequests[r].kind = request[r].kind
              /\ AbortRequests[r].after = request[r].after /\ AbortRequests[r].join = request[r].join
<1>1. ASSUME NEW r \in Requests
      PROVE  /\ AbortStarts[r] \in Start /\ AbortStarts[r].step = start[r].step
             /\ AbortRequests[r] \in Request
             /\ AbortRequests[r].step = request[r].step /\ AbortRequests[r].kind = request[r].kind
             /\ AbortRequests[r].after = request[r].after /\ AbortRequests[r].join = request[r].join
  <2> DEFINE b == start[r].aborted \/ start[r].step = "open"
                    \/ (start[r].step = "stopOld" /\ start[r].queued)
             c == request[r].aborted \/ (Queued(r) /\ ~Done(r))
  <2>1. b \in BOOLEAN /\ c \in BOOLEAN /\ start[r] \in Start /\ request[r] \in Request
    BY DEF Types, Start, Request
  <2>2. AbortStarts[r] = [start[r] EXCEPT !.aborted = b]
    BY DEF AbortStarts
  <2>3. AbortRequests[r] = [request[r] EXCEPT !.aborted = c]
    BY DEF AbortRequests
  <2> HIDE DEF b, c
  <2> QED
    BY <2>1, <2>2, <2>3 DEF Start, Request
<1>2. AbortStarts = [r \in Requests |-> AbortStarts[r]] /\ AbortRequests = [r \in Requests |-> AbortRequests[r]]
  BY DEF AbortStarts, AbortRequests
<1>3. AbortStarts \in [Requests -> Start]
  BY <1>1, <1>2
<1>4. AbortRequests \in [Requests -> Request]
  BY <1>1, <1>2
<1> QED
  BY <1>1, <1>3, <1>4

LEMMA StopTypes ==
  ASSUME Types, StopAll \/ StopAllProceeds \/ \E k \in Stops : StopApp(k) \/ StopProceeds(k)
  PROVE  Types'
<1>p. /\ pool \in Pool /\ pool.app \in Maybe(Requests)
      /\ Emptied(pool) \in Pool
      /\ Stopped(app, pool.app) \in [Requests -> Stages]
  BY PoolTypes, StoppedIs DEF Types, Pool
<1>c. Captured \in Stop /\ Captured \in AppStop
  BY <1>p DEF Captured, Stop, AppStop, Pool
<1>k. /\ NoStop \in Stop /\ [NoStop EXCEPT !.step = "kill"] \in AppStop
      /\ [NoStop EXCEPT !.step = "over"] \in AppStop
      /\ [NoStop EXCEPT !.step = "done"] \in Stop
      /\ [NoStop EXCEPT !.step = "late", !.app = pool.app] \in Stop
      /\ [NoStop EXCEPT !.step = "late", !.app = pool.app] \in AppStop
  BY <1>p DEF NoStop, NoApp, Stop, AppStop, Maybe
<1>b. ASSUME NEW p \in Pool, StopBegins(p)
      PROVE  /\ app' \in [Requests -> Stages] /\ pool' \in Pool
             /\ start' \in [Requests -> Start] /\ request' \in [Requests -> Request]
  BY <1>p, <1>b, AbortTypes DEF StopBegins, Pool, Maybe, NoApp
<1>1. ASSUME NEW k \in Stops, StopApp(k)
      PROVE  Types'
  <2>1. [pool EXCEPT !.stopping = TRUE] \in Pool
    BY <1>p DEF Pool
  <2>2. /\ StopBegins([pool EXCEPT !.stopping = TRUE])
        /\ stop' = [stop EXCEPT ![k] = Captured] /\ UNCHANGED stopAll
    BY <1>1 DEF StopApp
  <2> QED
    BY <2>1, <2>2, <1>b, <1>c DEF Types
<1>2. CASE StopAll
  <2>1. [pool EXCEPT !.stopped = TRUE] \in Pool
    BY <1>p DEF Pool
  <2>2. StopBegins([pool EXCEPT !.stopped = TRUE]) /\ stopAll' = Captured /\ UNCHANGED stop
    BY <1>2 DEF StopAll
  <2> QED
    BY <2>1, <2>2, <1>b, <1>c DEF Types
<1>3. ASSUME NEW k \in Stops, LateAppStops(k)
      PROVE  Types'
  BY <1>3, <1>p, <1>k DEF LateAppStops, Types
<1>4. ASSUME NEW k \in Stops, AppStopped(k)
      PROVE  Types'
  BY <1>4, <1>p, <1>k DEF AppStopped, Types
<1>5. ASSUME NEW k \in Stops, EmulatorKilled(k)
      PROVE  Types'
  <2>1. Stops \ {k} \in SUBSET Stops
    OBVIOUS
  <2>2. pool' \in Pool
    BY <1>5, <1>p, <2>1, ForgottenIs DEF EmulatorKilled
  <2> QED
    BY <1>5, <2>2, <1>k DEF EmulatorKilled, Types
<1>6. CASE StopAllLate
  BY <1>6, <1>p, <1>k DEF StopAllLate, Types
<1>7. CASE StopAllFinishes
  BY <1>7, <1>p, <1>k DEF StopAllFinishes, Types
<1> QED
  BY <1>1, <1>2, <1>3, <1>4, <1>5, <1>6, <1>7 DEF StopProceeds, StopAllProceeds

LEMMA NextTypes ==
  ASSUME Types, [RouterNext]_routerVars
  PROVE  Types'
<1>1. CASE \E a \in Requests : AppEnds(a) \/ AppCloses(a)
  BY <1>1, AppTypes
<1>2. CASE \E s \in Requests : StartProceeds(s)
  BY <1>2, StartTypes
<1>3. CASE \E r \in Requests : Requested(r)
  BY <1>3, MadeTypes
<1>4. CASE \E r \in Requests : RequestProceeds(r)
  BY <1>4, RequestTypes
<1>5. CASE CoolsDown \/ StoppingForgotten \/ AvdStarted
  <2>1. pool' = [pool EXCEPT !.cooling = FALSE] \/ pool' = Forgotten(Stops)
    BY <1>5 DEF CoolsDown, StoppingForgotten, AvdStarted
  <2>2. Forgotten(Stops) \in Pool /\ [pool EXCEPT !.cooling = FALSE] \in Pool
    BY ForgottenIs DEF Types, Pool
  <2>3. pool' \in Pool
    BY <2>1, <2>2
  <2> QED
    BY <1>5, <2>3 DEF CoolsDown, StoppingForgotten, AvdStarted, Types
<1>6. CASE StopAll \/ StopAllProceeds \/ \E k \in Stops : StopApp(k) \/ StopProceeds(k)
  BY <1>6, StopTypes
<1>7. CASE UNCHANGED routerVars
  BY <1>7 DEF routerVars, Types
<1> QED
  BY <1>1, <1>2, <1>3, <1>4, <1>5, <1>6, <1>7 DEF RouterNext

-----------------------------------------------------------------------------
(* What a step of one request does to the queue.                            *)

\* No request before r waits, or is in the queue.
QueueHead(Q, r) ==
  \A q \in Requests : q < r => ~InQueue(Q, q) /\ Q[q].step # "waiting"

\* Q2 is Q, r in another step.
Moved(Q, Q2, r) ==
  /\ \A q \in Requests : q # r => Q2[q] = Q[q]
  /\ Q[r].step \notin {"none", "done"} /\ Q2[r].step \in {"joining", "open", "closing"}
  /\ Q2[r].kind = Q[r].kind
Answered(Q, Q2, r) ==
  /\ \A q \in Requests : q # r => Q2[q] = Q[q]
  /\ Q[r].step \notin {"none", "done"} /\ Q2[r].step = "done" /\ Q2[r].kind = "none"
Untouched(Q, Q2) ==
  \A q \in Requests : /\ Q2[q].step = Q[q].step /\ Q2[q].kind = Q[q].kind
                      /\ Q2[q].after = Q[q].after /\ Q2[q].join = Q[q].join

\* Who is in the queue and does not wait is its head.
LEMMA WorkerIsHead ==
  ASSUME NEW Q \in [Requests -> Request], NEW t \in Maybe(Requests), InOrder(Q, t),
         NEW r \in Requests, InQueue(Q, r), Q[r].step # "waiting"
  PROVE  QueueHead(Q, r)
BY DEF InOrder, QueueHead

\* Who waits may go on as the first that may only when nobody before it waits.
CanGo(Q, S, r) ==
  \/ Q[r].step = "waiting" /\ (Q[r].after # 0 => Q[Q[r].after].step = "done")
  \/ Q[r].step = "joining" /\ (Q[r].join # 0 => S[Q[r].join].step = "settled")

LEMMA FirstIsHead ==
  ASSUME NEW Q \in [Requests -> Request], NEW S, NEW t \in Maybe(Requests),
         Kinds(Q), InOrder(Q, t),
         NEW r \in Requests, Q[r].step = "waiting", CanGo(Q, S, r),
         \A q \in Requests : q < r => ~CanGo(Q, S, q)
  PROVE  QueueHead(Q, r)
<1>n. Requests \subseteq Nat /\ 0 \notin Requests
  BY RouterAssumption
<1>1. Q[r].after # 0 => Q[r].after \in Requests /\ ~InQueue(Q, Q[r].after)
  BY <1>n DEF CanGo, Kinds, InQueue, Request, Maybe
<1>2. ASSUME NEW q \in Requests, q < r
      PROVE  ~InQueue(Q, q)
  BY <1>1, <1>2, <1>n DEF InOrder, InQueue, Request, Maybe, Kinds, CanGo
<1>3. ASSUME NEW q \in Requests, q < r, Q[q].step = "waiting"
      PROVE  FALSE
  <2>1. Q[q].after # 0 /\ Q[Q[q].after].step # "done" /\ Q[q].after < q
    BY <1>3 DEF CanGo, Kinds
  <2>2. Q[q].after \in Requests
    BY <2>1 DEF Request, Maybe
  <2>3. InQueue(Q, Q[q].after)
    BY <2>1, <1>3 DEF InOrder
  <2> DEFINE a == Q[q].after
  <2>4. a < r
    <3>1. a \in Nat /\ q \in Nat /\ r \in Nat /\ a < q
      BY <2>1, <2>2, <1>n
    <3> HIDE DEF a
    <3> QED
      BY <3>1, <1>3
  <2> QED
    BY <2>2, <2>3, <2>4, <1>2
<1> QED
  BY <1>2, <1>3 DEF QueueHead

LEMMA MovedInOrder ==
  ASSUME NEW Q \in [Requests -> Request], NEW Q2 \in [Requests -> Request],
         NEW t \in Maybe(Requests), InOrder(Q, t),
         NEW r \in Requests, Moved(Q, Q2, r), InQueue(Q, r) => QueueHead(Q, r)
  PROVE  InOrder(Q2, t)
<1>n. Requests \subseteq Nat /\ 0 \notin Requests
  BY RouterAssumption
<1>i. \A q \in Requests : InQueue(Q2, q) <=> InQueue(Q, q)
  BY DEF Moved, InQueue
<1>w. \A q \in Requests : Q2[q].step = "waiting" => Q[q].step = "waiting" /\ q # r /\ Q2[q].after = Q[q].after
  BY DEF Moved
<1>1. \A q, s \in Requests : q < s /\ Q2[s].step # "none" => Q2[q].step # "none"
  BY DEF InOrder, Moved
<1>2. \A q, s \in Requests :
       q < s /\ (InQueue(Q2, q) \/ Q2[q].step = "waiting") /\ InQueue(Q2, s) => Q2[s].step = "waiting"
  BY <1>i, <1>w DEF InOrder, Moved, QueueHead
<1>3. \A s \in Requests :
       Q2[s].step = "waiting" /\ Q2[s].after # 0 =>
         InQueue(Q2, Q2[s].after) \/ Q2[Q2[s].after].step = "done"
  BY <1>i, <1>w DEF InOrder, Moved, Request, Maybe
<1>4. ASSUME NEW q \in Requests, NEW s \in Requests,
             q < s, InQueue(Q2, q), Q2[s].step = "waiting"
      PROVE  q <= Q2[s].after /\ InQueue(Q2, Q2[s].after)
  <2>1. InQueue(Q, q) /\ Q[s].step = "waiting" /\ Q2[s].after = Q[s].after
    BY <1>4, <1>i, <1>w
  <2>2. q <= Q[s].after /\ InQueue(Q, Q[s].after)
    BY <2>1, <1>4 DEF InOrder
  <2>3. Q[s].after \in Requests
    <3>1. Q[s].after \in Maybe(Requests) /\ q \in Nat /\ q # 0
      BY <1>n DEF Request
    <3> QED
      BY <3>1, <2>2 DEF Maybe
  <2> QED
    BY <2>1, <2>2, <2>3, <1>i
<1>5. /\ t # 0 => InQueue(Q2, t)
      /\ \A q \in Requests : InQueue(Q2, q) => t # 0 /\ q <= t
  BY <1>i DEF InOrder, Maybe
<1> QED
  BY <1>1, <1>2, <1>3, <1>4, <1>5 DEF InOrder

LEMMA AnsweredInOrder ==
  ASSUME NEW Q \in [Requests -> Request], NEW Q2 \in [Requests -> Request],
         NEW t \in Maybe(Requests), InOrder(Q, t),
         NEW r \in Requests, Answered(Q, Q2, r), InQueue(Q, r) => QueueHead(Q, r),
         NEW u, u = IF t = r THEN 0 ELSE t
  PROVE  InOrder(Q2, u)
<1>n. Requests \subseteq Nat /\ 0 \notin Requests
  BY RouterAssumption
<1>i. \A q \in Requests : InQueue(Q2, q) <=> q # r /\ InQueue(Q, q)
  BY DEF Answered, InQueue
<1>w. \A q \in Requests : Q2[q].step = "waiting" => Q[q].step = "waiting" /\ q # r /\ Q2[q].after = Q[q].after
  BY DEF Answered
<1>1. \A q, s \in Requests : q < s /\ Q2[s].step # "none" => Q2[q].step # "none"
  BY DEF InOrder, Answered
<1>2. \A q, s \in Requests :
       q < s /\ (InQueue(Q2, q) \/ Q2[q].step = "waiting") /\ InQueue(Q2, s) => Q2[s].step = "waiting"
  BY <1>i, <1>w DEF InOrder, Answered
<1>3. \A s \in Requests :
       Q2[s].step = "waiting" /\ Q2[s].after # 0 =>
         InQueue(Q2, Q2[s].after) \/ Q2[Q2[s].after].step = "done"
  BY <1>i, <1>w DEF InOrder, Answered, Request, Maybe
<1>4. ASSUME NEW q \in Requests, NEW s \in Requests,
             q < s, InQueue(Q2, q), Q2[s].step = "waiting"
      PROVE  q <= Q2[s].after /\ InQueue(Q2, Q2[s].after)
  <2>1. q # r /\ InQueue(Q, q) /\ Q[s].step = "waiting" /\ Q2[s].after = Q[s].after
    BY <1>4, <1>i, <1>w
  <2>2. q <= Q[s].after /\ InQueue(Q, Q[s].after)
    BY <2>1, <1>4 DEF InOrder
  <2>3. Q[s].after \in Requests
    BY <2>2, <1>n DEF Request, Maybe
  <2>4. Q[s].after # r
    BY <2>1, <2>2, <2>3, <1>n DEF QueueHead
  <2> QED
    BY <2>1, <2>2, <2>3, <2>4, <1>i
<1>5. u # 0 => InQueue(Q2, u)
  BY <1>i DEF InOrder, Maybe
<1>6. ASSUME NEW q \in Requests, InQueue(Q2, q)
      PROVE  u # 0 /\ q <= u
  <2>1. q # r /\ t # 0 /\ q <= t /\ InQueue(Q, t) /\ t \in Requests
    BY <1>6, <1>i DEF InOrder, Maybe
  <2>2. t # r
    BY <2>1, <1>6, <1>i, <1>n DEF QueueHead
  <2> QED
    BY <2>1, <2>2
<1> QED
  BY <1>1, <1>2, <1>3, <1>4, <1>5, <1>6 DEF InOrder

\* A new request waits for the tail, and becomes it unless it is a get.
LEMMA MadeInOrder ==
  ASSUME NEW Q \in [Requests -> Request], NEW Q2 \in [Requests -> Request],
         NEW t \in Maybe(Requests), InOrder(Q, t), Kinds(Q),
         NEW r \in Requests, \A q \in Requests : q # r => Q2[q] = Q[q],
         Q[r].step = "none", \A q \in Requests : q < r => Q[q].step # "none",
         Q2[r].step = "waiting", Q2[r].after = t, Q2[r].kind # "none",
         NEW u, u = IF InQueue(Q2, r) THEN r ELSE t
  PROVE  Kinds(Q2) /\ InOrder(Q2, u)
<1>n. Requests \subseteq Nat /\ 0 \notin Requests
  BY RouterAssumption
<1>i. \A q \in Requests : q # r => (InQueue(Q2, q) <=> InQueue(Q, q))
  BY DEF InQueue
<1>q. \A q \in Requests : InQueue(Q, q) => Q[q].step \notin {"none", "done"}
  BY DEF InQueue, Kinds
<1>l. \A q \in Requests : r < q => Q[q].step = "none"
  BY DEF InOrder
<1>m. \A q \in Requests : InQueue(Q, q) => q < r
  <2>1. ASSUME NEW q \in Requests, InQueue(Q, q)
        PROVE  q < r
    <3>1. q # r /\ ~(r < q)
      BY <2>1, <1>q, <1>l
    <3> QED
      BY <3>1, <1>n
  <2> QED
    BY <2>1
<1>t. t # 0 => t \in Requests /\ t < r /\ InQueue(Q, t) /\ InQueue(Q2, t)
  BY <1>m, <1>i, <1>n DEF InOrder, Maybe
<1>k. Kinds(Q2)
  <2>1. t < r
    BY <1>t, <1>n
  <2> QED
    BY <2>1 DEF Kinds
<1>1. \A q, s \in Requests : q < s /\ Q2[s].step # "none" => Q2[q].step # "none"
  BY <1>l, <1>n DEF InOrder
<1>2. \A q, s \in Requests :
       q < s /\ (InQueue(Q2, q) \/ Q2[q].step = "waiting") /\ InQueue(Q2, s) => Q2[s].step = "waiting"
  <2>1. ASSUME NEW q \in Requests, NEW s \in Requests, q < s,
               InQueue(Q2, q) \/ Q2[q].step = "waiting", InQueue(Q2, s), s # r
        PROVE  Q2[s].step = "waiting"
    <3>1. InQueue(Q, s) /\ s < r
      BY <2>1, <1>i, <1>m
    <3>2. q # r
      BY <2>1, <3>1, <1>n
    <3> QED
      BY <2>1, <3>1, <3>2, <1>i DEF InOrder
  <2> QED
    BY <2>1
<1>3. ASSUME NEW s \in Requests, Q2[s].step = "waiting", Q2[s].after # 0
      PROVE  InQueue(Q2, Q2[s].after) \/ Q2[Q2[s].after].step = "done"
  <2>1. CASE s = r
    BY <2>1, <1>3, <1>t
  <2>2. CASE s # r
    <3>1. Q2[s] = Q[s] /\ Q[s].after \in Requests
      BY <2>2, <1>3 DEF Request, Maybe
    <3>2. InQueue(Q, Q[s].after) \/ Q[Q[s].after].step = "done"
      BY <3>1, <1>3 DEF InOrder
    <3>3. Q[s].after # r
      BY <3>2, <3>1, <1>q
    <3> QED
      BY <3>1, <3>2, <3>3, <1>i
  <2> QED
    BY <2>1, <2>2
<1>4. ASSUME NEW q \in Requests, NEW s \in Requests,
             q < s, InQueue(Q2, q), Q2[s].step = "waiting"
      PROVE  q <= Q2[s].after /\ InQueue(Q2, Q2[s].after)
  <2>1. CASE s = r
    <3>1. q # r /\ InQueue(Q, q)
      BY <2>1, <1>4, <1>i, <1>n
    <3> QED
      BY <2>1, <3>1, <1>t DEF InOrder
  <2>2. CASE s # r
    <3>1. Q2[s] = Q[s] /\ s < r
      <4>1. Q[s].step # "none" /\ Q2[s] = Q[s]
        BY <2>2, <1>4
      <4> QED
        BY <4>1, <2>2, <1>l, <1>n
    <3>2. q # r /\ InQueue(Q, q)
      BY <3>1, <1>4, <1>i, <1>n
    <3>3. q <= Q[s].after /\ InQueue(Q, Q[s].after)
      BY <3>1, <3>2, <1>4 DEF InOrder
    <3>4. Q[s].after \in Requests
      <4>1. Q[s].after \in Maybe(Requests) /\ q \in Nat /\ q # 0
        BY <1>n DEF Request
      <4> QED
        BY <4>1, <3>3 DEF Maybe
    <3>5. Q[s].after # r
      BY <3>3, <3>4, <1>m, <1>n
    <3> QED
      BY <3>1, <3>3, <3>4, <3>5, <1>i
  <2> QED
    BY <2>1, <2>2
<1>5. u # 0 => InQueue(Q2, u)
  BY <1>t
<1>6. ASSUME NEW q \in Requests, InQueue(Q2, q)
      PROVE  u # 0 /\ q <= u
  <2>1. CASE q = r
    BY <2>1, <1>6, <1>n
  <2>2. CASE q # r
    <3>1. InQueue(Q, q) /\ t # 0 /\ q <= t /\ q < r
      BY <2>2, <1>6, <1>i, <1>m DEF InOrder
    <3> QED
      BY <3>1, <1>n
  <2> QED
    BY <2>1, <2>2
<1> QED
  BY <1>k, <1>1, <1>2, <1>3, <1>4, <1>5, <1>6 DEF InOrder

\* A request that is refused at once.
LEMMA RefusedInOrder ==
  ASSUME NEW Q \in [Requests -> Request], NEW Q2 \in [Requests -> Request],
         NEW t \in Maybe(Requests), InOrder(Q, t), Kinds(Q),
         NEW r \in Requests, \A q \in Requests : q # r => Q2[q] = Q[q],
         Q[r].step = "none", \A q \in Requests : q < r => Q[q].step # "none",
         Q2[r].step = "done", Q2[r].kind = Q[r].kind
  PROVE  Kinds(Q2) /\ InOrder(Q2, t)
<1>n. Requests \subseteq Nat /\ 0 \notin Requests
  BY RouterAssumption
<1>i. \A q \in Requests : InQueue(Q2, q) <=> InQueue(Q, q)
  BY DEF InQueue
<1>q. ~InQueue(Q, r)
  BY DEF InQueue, Kinds
<1>k. Kinds(Q2)
  BY DEF Kinds
<1>w. \A q \in Requests : Q2[q].step = "waiting" => Q[q].step = "waiting" /\ q # r /\ Q2[q] = Q[q]
  OBVIOUS
<1>1. \A q, s \in Requests : q < s /\ Q2[s].step # "none" => Q2[q].step # "none"
  BY DEF InOrder
<1>2. \A q, s \in Requests :
       q < s /\ (InQueue(Q2, q) \/ Q2[q].step = "waiting") /\ InQueue(Q2, s) => Q2[s].step = "waiting"
  BY <1>i, <1>w, <1>q DEF InOrder
<1>3. ASSUME NEW s \in Requests, Q2[s].step = "waiting", Q2[s].after # 0
      PROVE  InQueue(Q2, Q2[s].after) \/ Q2[Q2[s].after].step = "done"
  <2>1. Q2[s] = Q[s] /\ Q[s].after \in Requests /\ Q[s].step = "waiting"
    BY <1>3, <1>w DEF Request, Maybe
  <2>2. InQueue(Q, Q[s].after) \/ Q[Q[s].after].step = "done"
    BY <2>1, <1>3 DEF InOrder
  <2> QED
    BY <2>1, <2>2, <1>i
<1>4. ASSUME NEW q \in Requests, NEW s \in Requests,
             q < s, InQueue(Q2, q), Q2[s].step = "waiting"
      PROVE  q <= Q2[s].after /\ InQueue(Q2, Q2[s].after)
  <2>1. Q2[s] = Q[s] /\ InQueue(Q, q)
    BY <1>4, <1>w, <1>i
  <2>2. q <= Q[s].after /\ InQueue(Q, Q[s].after)
    BY <2>1, <1>4 DEF InOrder
  <2>3. Q[s].after \in Requests
    <3>1. Q[s].after \in Maybe(Requests) /\ q \in Nat /\ q # 0
      BY <1>n DEF Request
    <3> QED
      BY <3>1, <2>2 DEF Maybe
  <2> QED
    BY <2>1, <2>2, <2>3, <1>i
<1>5. /\ t # 0 => InQueue(Q2, t)
      /\ \A q \in Requests : InQueue(Q2, q) => t # 0 /\ q <= t
  BY <1>i DEF InOrder, Maybe
<1> QED
  BY <1>k, <1>1, <1>2, <1>3, <1>4, <1>5 DEF InOrder

\* Aborting what is in the queue or being opened changes none of this.
LEMMA UntouchedKeeps ==
  ASSUME NEW Q \in [Requests -> Request], NEW Q2 \in [Requests -> Request], Untouched(Q, Q2),
         NEW S \in [Requests -> Start], NEW S2 \in [Requests -> Start],
         \A s \in Requests : S2[s].step = S[s].step,
         NEW t \in Maybe(Requests), NEW b \in Maybe(Requests),
         Kinds(Q), InOrder(Q, t), OneAtATime(Q, S, b)
  PROVE  /\ Kinds(Q2) /\ InOrder(Q2, t) /\ OneAtATime(Q2, S2, b)
         /\ \A k \in Stop, p \in Maybe(Requests) : Covers(k, Q, b, p) => Covers(k, Q2, b, p)
<1>n. Requests \subseteq Nat /\ 0 \notin Requests
  BY RouterAssumption
<1>i. \A q \in Requests : InQueue(Q2, q) <=> InQueue(Q, q)
  BY DEF InQueue, Untouched
<1>u. \A q \in Requests : Q2[q].step = Q[q].step /\ Q2[q].after = Q[q].after /\ Q2[q].join = Q[q].join
  BY DEF Untouched
<1>1. Kinds(Q2)
  BY DEF Kinds, Untouched
<1>2. InOrder(Q2, t)
  <2>1. \A q, s \in Requests : q < s /\ Q2[s].step # "none" => Q2[q].step # "none"
    BY <1>u DEF InOrder
  <2>2. \A q, s \in Requests :
         q < s /\ (InQueue(Q2, q) \/ Q2[q].step = "waiting") /\ InQueue(Q2, s) => Q2[s].step = "waiting"
    BY <1>i, <1>u DEF InOrder
  <2>3. ASSUME NEW s \in Requests, Q2[s].step = "waiting", Q2[s].after # 0
        PROVE  InQueue(Q2, Q2[s].after) \/ Q2[Q2[s].after].step = "done"
    <3>1. Q2[s].after = Q[s].after /\ Q[s].after \in Requests /\ Q[s].step = "waiting"
      BY <2>3, <1>u DEF Request, Maybe
    <3>2. InQueue(Q, Q[s].after) \/ Q[Q[s].after].step = "done"
      BY <3>1, <2>3 DEF InOrder
    <3> QED
      BY <3>1, <3>2, <1>i, <1>u
  <2>4. ASSUME NEW q \in Requests, NEW s \in Requests,
               q < s, InQueue(Q2, q), Q2[s].step = "waiting"
        PROVE  q <= Q2[s].after /\ InQueue(Q2, Q2[s].after)
    <3>1. Q2[s].after = Q[s].after /\ InQueue(Q, q) /\ Q[s].step = "waiting"
      BY <2>4, <1>u, <1>i
    <3>2. q <= Q[s].after /\ InQueue(Q, Q[s].after)
      BY <3>1, <2>4 DEF InOrder
    <3>3. Q[s].after \in Requests
      <4>1. Q[s].after \in Maybe(Requests) /\ q \in Nat /\ q # 0
        BY <1>n DEF Request
      <4> QED
        BY <4>1, <3>2 DEF Maybe
    <3> QED
      BY <3>1, <3>2, <3>3, <1>i
  <2>5. /\ t # 0 => InQueue(Q2, t)
        /\ \A q \in Requests : InQueue(Q2, q) => t # 0 /\ q <= t
    BY <1>i DEF InOrder, Maybe
  <2> QED
    BY <2>1, <2>2, <2>3, <2>4, <2>5 DEF InOrder
<1>3. OneAtATime(Q2, S2, b)
  <2>1. \A r \in Requests : Q2[r].step = "joining" => Q[r].join \in Requests
    BY <1>u DEF Kinds, Request, Maybe
  <2>2. \A s \in Requests : S2[s].step \in Active => b = s
    BY DEF OneAtATime
  <2>3. b # 0 => S2[b].step \in Active
    BY DEF OneAtATime, Maybe
  <2>4. ASSUME NEW r \in Requests, Q2[r].step = "joining"
        PROVE  S2[Q2[r].join].step \in Active \cup {"settled"}
    <3>1. Q[r].step = "joining" /\ Q2[r].join = Q[r].join /\ Q[r].join \in Requests
      BY <2>4, <1>u, <2>1
    <3>2. S[Q[r].join].step \in Active \cup {"settled"}
      BY <3>1 DEF OneAtATime
    <3> QED
      BY <3>1, <3>2
  <2>5. \A r \in Requests : Q2[r].step = "joining" /\ InQueue(Q2, r) /\ b # 0 => b = Q2[r].join
    BY <1>u, <1>i DEF OneAtATime
  <2>6. \A r \in Requests : Q2[r].step = "open" => b = 0
    BY <1>u DEF OneAtATime
  <2> QED
    BY <2>2, <2>3, <2>4, <2>5, <2>6 DEF OneAtATime
<1>4. ASSUME NEW k \in Stop, NEW p \in Maybe(Requests), Covers(k, Q, b, p)
      PROVE  Covers(k, Q2, b, p)
  <2>1. k.tail \in Maybe(Requests)
    BY DEF Stop
  <2> QED
    BY <1>4, <1>u, <1>i, <2>1 DEF Covers, Maybe
<1> QED
  BY <1>1, <1>2, <1>3, <1>4

\* What an answer leaves as it was.
LEMMA AnsweredKeeps ==
  ASSUME NEW Q \in [Requests -> Request], NEW Q2 \in [Requests -> Request],
         NEW t \in Maybe(Requests), InOrder(Q, t), Kinds(Q),
         NEW r \in Requests, Answered(Q, Q2, r), InQueue(Q, r) => QueueHead(Q, r),
         NEW S \in [Requests -> Start], NEW b \in Maybe(Requests), OneAtATime(Q, S, b)
  PROVE  /\ Kinds(Q2) /\ OneAtATime(Q2, S, b)
         /\ \A k \in Stop, p \in Maybe(Requests) : Covers(k, Q, b, p) => Covers(k, Q2, b, p)
<1>n. Requests \subseteq Nat /\ 0 \notin Requests
  BY RouterAssumption
<1>i. \A q \in Requests : InQueue(Q2, q) <=> q # r /\ InQueue(Q, q)
  BY DEF Answered, InQueue
<1>1. Kinds(Q2)
  BY DEF Kinds, Answered
<1>2. OneAtATime(Q2, S, b)
  BY <1>i DEF OneAtATime, Answered
<1>3. ASSUME NEW k \in Stop, NEW p \in Maybe(Requests), Covers(k, Q, b, p)
      PROVE  Covers(k, Q2, b, p)
  <2>1. ASSUME k.step = "wait", NEW q \in Requests, InQueue(Q2, q), Q2[q].step # "waiting"
        PROVE  k.tail # 0 /\ q <= k.tail /\ InQueue(Q2, k.tail)
    <3>1. q # r /\ InQueue(Q, q) /\ Q[q].step # "waiting"
      BY <2>1, <1>i DEF Answered
    <3>2. k.tail # 0 /\ q <= k.tail /\ InQueue(Q, k.tail)
      BY <3>1, <2>1, <1>3 DEF Covers
    <3>3. k.tail \in Requests
      BY <3>2 DEF Stop, Maybe
    <3>4. k.tail # r
      BY <3>1, <3>2, <3>3, <1>n DEF QueueHead
    <3> QED
      BY <3>2, <3>3, <3>4, <1>i
  <2>2. k.step \in {"late", "kill", "done"} =>
          \A q \in Requests : InQueue(Q2, q) => Q2[q].step = "waiting"
    BY <1>i, <1>3 DEF Covers, Answered
  <2> QED
    BY <2>1, <2>2, <1>3 DEF Covers
<1> QED
  BY <1>1, <1>2, <1>3

-----------------------------------------------------------------------------
(* The steps of the apps and of starts.                                     *)

LEMMA NoZero == Requests \subseteq Nat /\ 0 \notin Requests
BY RouterAssumption

LEMMA AppOrderly ==
  ASSUME Types, Types', Orderly, NEW a \in Requests, AppEnds(a) \/ AppCloses(a)
  PROVE  Orderly'
<1>1. /\ UNCHANGED <<pool, start, request, stop, stopAll>>
      /\ \A c \in Requests : app'[c] = app[c] \/ app'[c] \in {"ended", "closed"}
  BY DEF AppEnds, AppCloses, Types
<1>2. Owned(request, start, app', pool.start, pool.app)
  BY <1>1 DEF Orderly, Owned, Types, Pool, Maybe
<1> QED
  BY <1>1, <1>2 DEF Orderly, Covered, UnderWay

\* A start that is under way is the one of the pool; no switch is open, and no
\* stop has found everything gone.
LEMMA StartIsThePools ==
  ASSUME Types, Orderly, NEW s \in Requests, start[s].step \in Active
  PROVE  /\ pool.start = s
         /\ \A r \in Requests : request[r].step # "open"
         /\ stopAll.step \in {"none", "wait", "over"}
         /\ \A k \in Stops : stop[k].step \in {"none", "wait", "over"}
         /\ \A a \in Requests : app[a] # "live"
<1>1. pool.start = s /\ s # 0
  BY NoZero DEF Orderly, OneAtATime
<1>2. /\ \A r \in Requests : request[r].step # "open"
      /\ \A a \in Requests : app[a] # "live"
  BY <1>1, NoZero DEF Orderly, OneAtATime, Owned
<1>3. ASSUME NEW k \in Stop, Covers(k, request, pool.start, pool.app)
      PROVE  k.step \in {"none", "wait", "over"}
  BY <1>1, <1>3 DEF Covers, Stop
<1>4. /\ stopAll.step \in {"none", "wait", "over"}
      /\ \A k \in Stops : stop[k].step \in {"none", "wait", "over"}
  BY <1>3 DEF Orderly, Covered, Types, AppStop
<1> QED
  BY <1>1, <1>2, <1>3, <1>4

\* The end of a start: p is what becomes of the pool but for its start.
LEMMA SettledOrderly ==
  ASSUME Types, Types', Orderly, NEW s \in Requests, start[s].step \in Active,
         NEW p \in Pool, StartSettles(s, p), UNCHANGED <<request, stop, stopAll>>,
         p.tail = pool.tail, p.start = pool.start,
         p.stopping = pool.stopping, p.stopped = pool.stopped,
         \A a \in Requests : a # s => app'[a] = app[a],
         app'[s] # "opening",
         app'[s] = "live" => p.app = s
  PROVE  Orderly'
<1>1. /\ pool.start = s /\ s # 0
      /\ \A r \in Requests : request[r].step # "open"
      /\ stopAll.step \in {"none", "wait", "over"}
      /\ \A k \in Stops : stop[k].step \in {"none", "wait", "over"}
      /\ \A a \in Requests : app[a] # "live"
  BY StartIsThePools, NoZero
<1>2. /\ pool'.start = 0 /\ pool'.app = p.app /\ pool'.tail = pool.tail
      /\ pool'.stopping = pool.stopping /\ pool'.stopped = pool.stopped
  BY <1>1 DEF StartSettles, Pool
<1>3. /\ start'[s].step = "settled"
      /\ \A q \in Requests : q # s => start'[q] = start[q]
  BY DEF StartSettles, NoStart, Types
<1>4. OneAtATime(request, start', 0)
  <2>1. \A q \in Requests : start'[q].step \notin Active
    BY <1>1, <1>3 DEF Orderly, OneAtATime, Active
  <2>2. ASSUME NEW r \in Requests, request[r].step = "joining"
        PROVE  start'[request[r].join].step \in Active \cup {"settled"}
    <3>1. request[r].join \in Requests
      BY <2>2 DEF Orderly, Kinds, Types, Request, Maybe
    <3> QED
      BY <3>1, <2>2, <1>3 DEF Orderly, OneAtATime
  <2> QED
    BY <2>1, <2>2 DEF OneAtATime
<1>5. Owned(request, start', app', 0, p.app)
  BY <1>1, <1>3 DEF Orderly, Owned
<1>6. ASSUME NEW k \in Stop, Covers(k, request, pool.start, pool.app), k.step \in {"none", "wait", "over"}
      PROVE  Covers(k, request, 0, p.app)
  BY <1>6 DEF Covers
<1>7. Covered(request, 0, p.app)
  BY <1>1, <1>6 DEF Orderly, Covered, Types, AppStop
<1> QED
  BY <1>2, <1>4, <1>5, <1>7 DEF Orderly, Covered, UnderWay

LEMMA CoolingIs ==
  ASSUME NEW p \in Pool
  PROVE  /\ Cooling(p) \in Pool
         /\ Cooling(p).tail = p.tail /\ Cooling(p).start = p.start /\ Cooling(p).app = p.app
         /\ Cooling(p).stopping = p.stopping /\ Cooling(p).stopped = p.stopped
         /\ Cooling(p).forgotten = p.forgotten
<1> DEFINE b == p.cooling \/ ~Refusing
<1>1. b \in BOOLEAN
  OBVIOUS
<1>2. Cooling(p) = [p EXCEPT !.cooling = b]
  BY DEF Cooling
<1> HIDE DEF b
<1> QED
  BY <1>1, <1>2 DEF Pool

LEMMA OldStoppedOrderly ==
  ASSUME Types, Types', Orderly, NEW s \in Requests, OldStopped(s)
  PROVE  Orderly'
<1> DEFINE p == [pool EXCEPT !.app = IF @ = start[s].old THEN NoApp ELSE @]
<1>0. /\ start[s].step = "stopOld" /\ Closed(start[s].old) /\ UNCHANGED <<request, stop, stopAll>>
      /\ start[s].step \in Active
  BY DEF OldStopped, Active
<1>p. /\ p \in Pool /\ p.tail = pool.tail /\ p.start = pool.start
      /\ p.stopping = pool.stopping /\ p.stopped = pool.stopped
      /\ p.app \in {0, pool.app}
  BY DEF Types, Pool, Maybe, NoApp
<1>a. /\ pool.start = s /\ s # 0
      /\ \A r \in Requests : request[r].step # "open"
      /\ stopAll.step \in {"none", "wait", "over"}
      /\ \A k \in Stops : stop[k].step \in {"none", "wait", "over"}
      /\ \A a \in Requests : app[a] # "live"
  BY <1>0, StartIsThePools, NoZero
<1>1. CASE start[s].aborted
  <2>1. StartSettles(s, Cooling(p)) /\ UNCHANGED app
    BY <1>1 DEF OldStopped
  <2>2. app[s] # "opening"
    BY <1>a, <1>0 DEF Orderly, Owned
  <2> HIDE DEF p
  <2> QED
    BY <1>0, <1>p, <1>a, <2>1, <2>2, CoolingIs, SettledOrderly
<1>2. CASE ~start[s].aborted
  <2>1. pool' = p /\ start' = [start EXCEPT ![s].step = "open"] /\ app' = [app EXCEPT ![s] = "opening"]
    BY <1>2 DEF OldStopped
  <2>2. /\ start'[s].step = "open" /\ \A q \in Requests : q # s => start'[q] = start[q]
        /\ app'[s] = "opening" /\ \A a \in Requests : a # s => app'[a] = app[a]
    BY <2>1 DEF Types, Start
  <2> HIDE DEF p
  <2>3. OneAtATime(request, start', pool.start)
    <3>1. ASSUME NEW r \in Requests, request[r].step = "joining"
          PROVE  start'[request[r].join].step \in Active \cup {"settled"}
      <4>1. request[r].join \in Requests
        BY <3>1 DEF Orderly, Kinds, Types, Request, Maybe
      <4>2. start[request[r].join].step \in Active \cup {"settled"}
        BY <3>1 DEF Orderly, OneAtATime
      <4> QED
        BY <4>1, <4>2, <2>2 DEF Active
    <3>2. \A q \in Requests : start'[q].step \in Active => pool.start = q
      BY <1>a, <2>2 DEF Orderly, OneAtATime
    <3>3. start'[pool.start].step \in Active
      BY <1>a, <2>2 DEF Active
    <3> QED
      BY <3>1, <3>2, <3>3 DEF Orderly, OneAtATime
  <2>4. Owned(request, start', app', pool.start, p.app)
    <3>1. \A a \in Requests : app'[a] # "live"
      BY <1>a, <2>2
    <3>2. p.app # 0 => p.app \in Requests
      BY <1>p DEF Pool, Maybe
    <3> QED
      BY <3>1, <3>2, <2>2 DEF Orderly, Owned
  <2>5. ASSUME NEW k \in Stop, Covers(k, request, pool.start, pool.app), k.step \in {"none", "wait", "over"}
        PROVE  Covers(k, request, pool.start, p.app)
    BY <2>5 DEF Covers
  <2>6. Covered(request, pool.start, p.app)
    BY <1>a, <2>5 DEF Orderly, Covered, Types, AppStop
  <2> QED
    BY <1>0, <1>p, <2>1, <2>3, <2>4, <2>6 DEF Orderly, Covered, UnderWay
<1> QED
  BY <1>1, <1>2

LEMMA StartOpensOrderly ==
  ASSUME Types, Types', Orderly, NEW s \in Requests, StartOpens(s)
  PROVE  Orderly'
<1>0. start[s].step = "open" /\ start[s].step \in Active /\ UNCHANGED <<request, stop, stopAll>>
  BY DEF StartOpens, Active
<1>a. /\ pool.start = s /\ s # 0
      /\ \A r \in Requests : request[r].step # "open"
      /\ stopAll.step \in {"none", "wait", "over"}
      /\ \A k \in Stops : stop[k].step \in {"none", "wait", "over"}
      /\ \A a \in Requests : app[a] # "live"
  BY <1>0, StartIsThePools, NoZero
<1> PICK result \in Outcomes :
         CASE result = "closed" -> app' = [app EXCEPT ![s] = "closed"] /\ StartFails(s)
           [] Publishable(result, start[s]) ->
                /\ app' = [app EXCEPT ![s] = "live"]
                /\ StartSettles(s, [pool EXCEPT !.app = s])
           [] OTHER -> /\ app' = [app EXCEPT ![s] = "closing"]
                       /\ start' = [start EXCEPT ![s].step = "discard"]
                       /\ UNCHANGED pool
  BY DEF StartOpens
<1>p. pool \in Pool
  BY DEF Types
<1>1. CASE result = "closed"
  <2>1. app' = [app EXCEPT ![s] = "closed"] /\ StartSettles(s, Cooling(pool))
    BY <1>1 DEF StartFails, Publishable
  <2>2. app'[s] = "closed" /\ \A a \in Requests : a # s => app'[a] = app[a]
    BY <2>1 DEF Types
  <2> QED
    BY <1>0, <1>p, <2>1, <2>2, CoolingIs, SettledOrderly
<1>2. CASE result # "closed" /\ Publishable(result, start[s])
  <2> DEFINE p == [pool EXCEPT !.app = s]
  <2>1. app' = [app EXCEPT ![s] = "live"] /\ StartSettles(s, p)
    BY <1>2
  <2>2. app'[s] = "live" /\ \A a \in Requests : a # s => app'[a] = app[a]
    BY <2>1 DEF Types
  <2>3. /\ p \in Pool /\ p.tail = pool.tail /\ p.start = pool.start /\ p.app = s
        /\ p.stopping = pool.stopping /\ p.stopped = pool.stopped
    BY <1>p DEF Pool, Maybe
  <2> HIDE DEF p
  <2> QED
    BY <1>0, <2>1, <2>2, <2>3, SettledOrderly
<1>3. CASE result # "closed" /\ ~Publishable(result, start[s])
  <2>1. /\ app' = [app EXCEPT ![s] = "closing"]
        /\ start' = [start EXCEPT ![s].step = "discard"]
        /\ UNCHANGED pool
    BY <1>3
  <2>2. /\ start'[s].step = "discard" /\ \A q \in Requests : q # s => start'[q] = start[q]
        /\ app'[s] = "closing" /\ \A a \in Requests : a # s => app'[a] = app[a]
    BY <2>1 DEF Types, Start
  <2>3. OneAtATime(request, start', pool.start)
    <3>1. ASSUME NEW r \in Requests, request[r].step = "joining"
          PROVE  start'[request[r].join].step \in Active \cup {"settled"}
      <4>1. request[r].join \in Requests
        BY <3>1 DEF Orderly, Kinds, Types, Request, Maybe
      <4>2. start[request[r].join].step \in Active \cup {"settled"}
        BY <3>1 DEF Orderly, OneAtATime
      <4> QED
        BY <4>1, <4>2, <2>2 DEF Active
    <3>2. \A q \in Requests : start'[q].step \in Active => pool.start = q
      BY <1>a, <2>2 DEF Orderly, OneAtATime
    <3>3. start'[pool.start].step \in Active
      BY <1>a, <2>2 DEF Active
    <3> QED
      BY <3>1, <3>2, <3>3 DEF Orderly, OneAtATime
  <2>4. Owned(request, start', app', pool.start, pool.app)
    <3>1. \A a \in Requests : app'[a] # "live"
      BY <1>a, <2>2
    <3>2. pool.app # 0 => pool.app \in Requests
      BY <1>p DEF Pool, Maybe
    <3> QED
      BY <3>1, <3>2, <2>2 DEF Orderly, Owned
  <2> QED
    BY <1>0, <2>1, <2>3, <2>4 DEF Orderly, Covered, UnderWay
<1> QED
  BY <1>1, <1>2, <1>3

LEMMA StartOrderly ==
  ASSUME Types, Types', Orderly, NEW s \in Requests, StartProceeds(s)
  PROVE  Orderly'
<1>1. CASE OldStopped(s)
  BY <1>1, OldStoppedOrderly
<1>2. CASE StartOpens(s)
  BY <1>2, StartOpensOrderly
<1>3. CASE StartDiscards(s)
  <2>1. /\ start[s].step = "discard" /\ start[s].step \in Active
        /\ StartSettles(s, Cooling(pool)) /\ UNCHANGED <<app, request, stop, stopAll>>
    BY <1>3 DEF StartDiscards, StartFails, Active
  <2>2. /\ \A r \in Requests : request[r].step # "open"
        /\ \A a \in Requests : app[a] # "live"
    BY <2>1, StartIsThePools
  <2>3. app[s] # "opening" /\ pool \in Pool
    BY <2>1, <2>2 DEF Orderly, Owned, Types
  <2> QED
    BY <2>1, <2>2, <2>3, CoolingIs, SettledOrderly
<1> QED
  BY <1>1, <1>2, <1>3 DEF StartProceeds

-----------------------------------------------------------------------------
(* The steps of requests.                                                   *)

LEMMA RequestedOrderly ==
  ASSUME Types, Types', Orderly, NEW r \in Requests, Requested(r)
  PROVE  Orderly'
<1> PICK kind \in {"get", "queued", "switch"} :
       LET made == [request[r] EXCEPT !.kind = kind, !.after = pool.tail, !.step = "waiting"]
       IN  IF kind # "get" /\ pool.stopped
           THEN request' = [request EXCEPT ![r].step = "done"] /\ UNCHANGED pool
           ELSE /\ request' = [request EXCEPT ![r] = made]
                /\ pool' = [pool EXCEPT !.tail = IF kind = "get" THEN @ ELSE r]
  BY DEF Requested
<1>0. /\ request[r].step = "none" /\ \A q \in Requests : q < r => request[q].step # "none"
      /\ UNCHANGED <<app, start, stop, stopAll>>
  BY DEF Requested
<1>t. /\ request \in [Requests -> Request] /\ request' \in [Requests -> Request]
      /\ pool.tail \in Maybe(Requests) /\ pool.start \in Maybe(Requests) /\ pool \in Pool
      /\ InOrder(request, pool.tail) /\ Kinds(request) /\ request[r].kind = "none"
  BY <1>0 DEF Types, Pool, Orderly, Kinds
<1>o. \A q \in Requests : q # r => request'[q] = request[q]
  BY DEF Types
\* What holds of the rest whatever the new request does, which waits or is refused.
<1>r. ASSUME (request'[r].step = "done" /\ ~InQueue(request', r)) \/ request'[r].step = "waiting"
      PROVE  /\ OneAtATime(request', start, pool.start)
             /\ Owned(request', start, app, pool.start, pool.app)
             /\ \A k \in Stop, p \in Maybe(Requests) :
                  Covers(k, request, pool.start, p) => Covers(k, request', pool.start, p)
             /\ Covered(request', pool.start, pool.app)
  <2>i. \A q \in Requests : q # r => (InQueue(request', q) <=> InQueue(request, q))
    BY <1>o DEF InQueue
  <2>1. OneAtATime(request', start, pool.start)
    BY <1>r, <1>o, <2>i DEF Orderly, OneAtATime
  <2>2. Owned(request', start, app, pool.start, pool.app)
    BY <1>r, <1>o, <1>0 DEF Orderly, Owned
  <2>3. ASSUME NEW k \in Stop, NEW p \in Maybe(Requests), Covers(k, request, pool.start, p)
        PROVE  Covers(k, request', pool.start, p)
    <3>1. ~InQueue(request, r) /\ k.tail \in Maybe(Requests)
      BY <1>t DEF InQueue, Stop
    <3>2. \A q \in Requests : InQueue(request', q) /\ request'[q].step # "waiting" =>
            q # r /\ InQueue(request, q) /\ request[q].step # "waiting"
      BY <1>r, <1>o, <2>i
    <3>3. \A q \in Requests : InQueue(request, q) => InQueue(request', q)
      BY <2>i, <3>1
    <3> QED
      BY <2>3, <3>1, <3>2, <3>3 DEF Covers, Maybe
  <2>4. Covered(request', pool.start, pool.app)
    BY <2>3 DEF Orderly, Covered, Types, AppStop, Pool
  <2> QED
    BY <2>1, <2>2, <2>3, <2>4
<1>1. CASE kind # "get" /\ pool.stopped
  <2>1. request' = [request EXCEPT ![r].step = "done"] /\ UNCHANGED pool
    BY <1>1
  <2>2. request'[r].step = "done" /\ request'[r].kind = request[r].kind /\ ~InQueue(request', r)
    BY <2>1, <1>t DEF Request, InQueue
  <2>3. Kinds(request') /\ InOrder(request', pool.tail)
    BY <1>0, <1>t, <1>o, <2>2, RefusedInOrder
  <2> QED
    BY <1>0, <1>r, <2>1, <2>2, <2>3 DEF Orderly, Covered, UnderWay
<1>2. CASE ~(kind # "get" /\ pool.stopped)
  <2> DEFINE made == [request[r] EXCEPT !.kind = kind, !.after = pool.tail, !.step = "waiting"]
             u == IF kind = "get" THEN pool.tail ELSE r
  <2>1. /\ request' = [request EXCEPT ![r] = made]
        /\ pool' = [pool EXCEPT !.tail = u]
    BY <1>2
  <2>2. /\ request'[r].step = "waiting" /\ request'[r].kind = kind
        /\ request'[r].after = pool.tail
    <3>1. request[r] \in Request
      BY <1>t
    <3>2. made.step = "waiting" /\ made.kind = kind /\ made.after = pool.tail
      BY <3>1 DEF Request
    <3>3. request'[r] = made
      BY <2>1, <1>t
    <3> HIDE DEF made
    <3> QED
      BY <3>2, <3>3
  <2>3. /\ pool'.tail = u /\ pool'.start = pool.start /\ pool'.app = pool.app
        /\ pool'.stopping = pool.stopping /\ pool'.stopped = pool.stopped
    BY <2>1, <1>t DEF Pool
  <2>4. u = IF InQueue(request', r) THEN r ELSE pool.tail
    BY <2>2 DEF InQueue
  <2> HIDE DEF made, u
  <2>5. Kinds(request') /\ InOrder(request', u)
    BY <1>0, <1>t, <1>o, <2>2, <2>4, MadeInOrder
  <2> QED
    BY <1>0, <1>r, <2>2, <2>3, <2>5 DEF Orderly, Covered, UnderWay
<1> QED
  BY <1>1, <1>2

LEMMA RunnableIs ==
  ASSUME Types, NEW r \in Requests
  PROVE  Runnable(r) <=> CanGo(request, start, r)
BY DEF Runnable, CanGo, Done, Settled

\* Who goes on is the head of what waits, or was waited for already.
LEMMA GoesOnAsHead ==
  ASSUME Types, Orderly, NEW r \in Requests
  PROVE  /\ MayRun(r) => QueueHead(request, r) /\ request[r].step = "waiting"
         /\ MayGoOn(r) => request[r].step = "joining" /\ (InQueue(request, r) => QueueHead(request, r))
<1>t. /\ request \in [Requests -> Request] /\ pool.tail \in Maybe(Requests)
      /\ Kinds(request) /\ InOrder(request, pool.tail)
  BY DEF Types, Pool, Orderly
<1>1. ASSUME MayRun(r)
      PROVE  QueueHead(request, r) /\ request[r].step = "waiting"
  <2>1. /\ request[r].step = "waiting" /\ CanGo(request, start, r)
        /\ \A q \in Requests : q < r => ~CanGo(request, start, q)
    BY <1>1, RunnableIs DEF MayRun, MayContinue
  <2> QED
    BY <1>t, <2>1, FirstIsHead
<1>2. ASSUME MayGoOn(r)
      PROVE  request[r].step = "joining" /\ (InQueue(request, r) => QueueHead(request, r))
  BY <1>2, <1>t, WorkerIsHead DEF MayGoOn
<1> QED
  BY <1>1, <1>2

LEMMA AnswerOrderly ==
  ASSUME Types, Types', Orderly, NEW r \in Requests,
         request[r].step \notin {"none", "done"},
         InQueue(request, r) => QueueHead(request, r),
         Answer(r, pool), UNCHANGED <<start, stop, stopAll>>,
         \A a \in Requests : a # r => app'[a] = app[a],
         (app'[r] = app[r] /\ request[r].step # "open") \/ app'[r] = "closed"
  PROVE  Orderly'
<1>t. /\ request \in [Requests -> Request] /\ request' \in [Requests -> Request]
      /\ start \in [Requests -> Start]
      /\ pool.tail \in Maybe(Requests) /\ pool.start \in Maybe(Requests) /\ pool \in Pool
      /\ InOrder(request, pool.tail) /\ Kinds(request) /\ OneAtATime(request, start, pool.start)
  BY DEF Types, Pool, Orderly
<1>1. Answered(request, request', r)
  BY <1>t DEF Answer, Answered, NoRequest
<1>2. /\ pool'.tail = IF pool.tail = r THEN 0 ELSE pool.tail
      /\ pool'.start = pool.start /\ pool'.app = pool.app
      /\ pool'.stopping = pool.stopping /\ pool'.stopped = pool.stopped
  BY <1>t DEF Answer, Pool
<1>3. InOrder(request', pool'.tail)
  <2> DEFINE u == pool'.tail
  <2>1. u = IF pool.tail = r THEN 0 ELSE pool.tail
    BY <1>2
  <2> HIDE DEF u
  <2>2. InOrder(request', u)
    BY <1>t, <1>1, <2>1, AnsweredInOrder
  <2> QED
    BY <2>2 DEF u
<1>4. /\ Kinds(request') /\ OneAtATime(request', start, pool.start)
      /\ \A k \in Stop, p \in Maybe(Requests) :
           Covers(k, request, pool.start, p) => Covers(k, request', pool.start, p)
  BY <1>t, <1>1, AnsweredKeeps
<1>5. Owned(request', start, app', pool.start, pool.app)
  <2>1. pool.app # 0 => pool.app \in Requests
    BY <1>t DEF Pool, Maybe
  <2> QED
    BY <1>1, <2>1 DEF Orderly, Owned, Answered
<1> QED
  BY <1>2, <1>3, <1>4, <1>5 DEF Orderly, Covered, UnderWay, Types, AppStop, Pool

\* A request that moves on keeps the queue, and what stops have found when none stops
\* or it did not wait before.
LEMMA MovedKeeps ==
  ASSUME NEW Q \in [Requests -> Request], NEW Q2 \in [Requests -> Request],
         NEW r \in Requests, Moved(Q, Q2, r),
         NEW k \in Stop, NEW b \in Maybe(Requests), NEW p \in Maybe(Requests), Covers(k, Q, b, p),
         k.step \in {"none", "over"} \/ Q[r].step # "waiting"
  PROVE  Covers(k, Q2, b, p)
<1>i. \A q \in Requests : InQueue(Q2, q) <=> InQueue(Q, q)
  BY DEF Moved, InQueue
<1>1. k.tail \in Maybe(Requests)
  BY DEF Stop
<1>2. k.step \notin {"none", "over"} =>
        \A q \in Requests : InQueue(Q2, q) /\ Q2[q].step # "waiting" =>
                              InQueue(Q, q) /\ Q[q].step # "waiting"
  BY <1>i DEF Moved
<1>3. k.step = "wait" =>
        \A q \in Requests : InQueue(Q2, q) /\ Q2[q].step # "waiting" =>
                              k.tail # 0 /\ q <= k.tail /\ InQueue(Q2, k.tail)
  BY <1>1, <1>2, <1>i DEF Covers, Maybe
<1>4. k.step \in {"late", "kill", "done"} =>
        \A q \in Requests : InQueue(Q2, q) => Q2[q].step = "waiting"
  BY <1>i, <1>2 DEF Covers
<1> QED
  BY <1>3, <1>4 DEF Covers

\* Nobody stops while something may begin.
LEMMA NobodyStops ==
  ASSUME Types, Orderly, ~Refusing
  PROVE  stopAll.step = "none" /\ \A k \in Stops : stop[k].step \in {"none", "over"}
BY DEF Orderly, Refusing, UnderWay, Types, Stop, AppStop

LEMMA JoinsOrderly ==
  ASSUME Types, Types', Orderly, NEW r \in Requests, Joins(r)
  PROVE  Orderly'
<1>0. /\ MayRun(r) /\ ~Refusing /\ pool.start # 0
      /\ request' = [request EXCEPT ![r].step = "joining", ![r].join = pool.start]
      /\ UNCHANGED <<pool, app, start, stop, stopAll>>
  BY DEF Joins
<1>t. /\ request \in [Requests -> Request] /\ request' \in [Requests -> Request]
      /\ start \in [Requests -> Start] /\ stop \in [Stops -> AppStop] /\ stopAll \in Stop
      /\ pool.tail \in Maybe(Requests) /\ pool.start \in Maybe(Requests) /\ pool.app \in Maybe(Requests)
      /\ InOrder(request, pool.tail) /\ Kinds(request) /\ OneAtATime(request, start, pool.start)
  BY DEF Types, Pool, Orderly
<1>h. /\ QueueHead(request, r) /\ request[r].step = "waiting"
      /\ stopAll.step = "none" /\ \A k \in Stops : stop[k].step \in {"none", "over"}
  BY <1>0, GoesOnAsHead, NobodyStops
<1>r. /\ request'[r].step = "joining" /\ request'[r].join = pool.start
      /\ request'[r].kind = request[r].kind
      /\ \A q \in Requests : q # r => request'[q] = request[q]
  BY <1>0, <1>t DEF Request
<1>m. Moved(request, request', r)
  BY <1>h, <1>r DEF Moved
<1>1. InOrder(request', pool.tail)
  BY <1>t, <1>m, <1>h, MovedInOrder
<1>2. Kinds(request')
  BY <1>t, <1>r, <1>h, <1>0 DEF Kinds
<1>3. OneAtATime(request', start, pool.start)
  <2>i. \A q \in Requests : q # r => (InQueue(request', q) <=> InQueue(request, q))
    BY <1>r DEF InQueue
  <2>1. start[pool.start].step \in Active
    BY <1>0, <1>t DEF OneAtATime
  <2> QED
    BY <1>t, <1>r, <2>i, <2>1 DEF OneAtATime
<1>4. Owned(request', start, app, pool.start, pool.app)
  BY <1>r, <1>h DEF Orderly, Owned
<1>5. Covered(request', pool.start, pool.app)
  BY <1>t, <1>m, <1>h, MovedKeeps DEF Orderly, Covered, AppStop
<1> QED
  BY <1>0, <1>1, <1>2, <1>3, <1>4, <1>5 DEF Orderly, Covered, UnderWay

LEMMA BeginsOrderly ==
  ASSUME Types, Types', Orderly, NEW r \in Requests, Begins(r)
  PROVE  Orderly'
<1>0. /\ MayRun(r) /\ ~Refusing /\ ~Published /\ pool.start = 0
      /\ StartBegins(r)
      /\ request' = [request EXCEPT ![r].step = "joining", ![r].join = r]
      /\ UNCHANGED <<stop, stopAll>>
  BY DEF Begins
<1>n. Requests \subseteq Nat /\ 0 \notin Requests
  BY NoZero
<1>t. /\ request \in [Requests -> Request] /\ request' \in [Requests -> Request]
      /\ start \in [Requests -> Start] /\ start' \in [Requests -> Start]
      /\ app \in [Requests -> Stages] /\ stop \in [Stops -> AppStop] /\ stopAll \in Stop /\ pool \in Pool
      /\ pool.tail \in Maybe(Requests) /\ pool.start \in Maybe(Requests) /\ pool.app \in Maybe(Requests)
      /\ InOrder(request, pool.tail) /\ Kinds(request) /\ OneAtATime(request, start, pool.start)
  BY DEF Types, Pool, Orderly
<1>h. /\ QueueHead(request, r) /\ request[r].step = "waiting"
      /\ stopAll.step = "none" /\ \A k \in Stops : stop[k].step \in {"none", "over"}
  BY <1>0, GoesOnAsHead, NobodyStops
<1>r. /\ request'[r].step = "joining" /\ request'[r].join = r
      /\ request'[r].kind = request[r].kind
      /\ \A q \in Requests : q # r => request'[q] = request[q]
  BY <1>0, <1>t DEF Request
<1>m. Moved(request, request', r)
  BY <1>h, <1>r DEF Moved
<1>l. \A a \in Requests : app[a] # "live"
  BY <1>0, <1>n DEF Published, Orderly, Owned, NoApp
<1>p. /\ pool'.start = r /\ pool'.app = pool.app /\ pool'.tail = pool.tail
      /\ pool'.stopping = pool.stopping /\ pool'.stopped = pool.stopped
  BY <1>0, <1>t DEF StartBegins, Pool
<1>s. /\ start'[r].step \in {"stopOld", "open"}
      /\ \A q \in Requests : q # r => start'[q] = start[q]
      /\ \A a \in Requests : app'[a] \in {app[a], "closing"} \/ (a = r /\ start'[r].step = "open" /\ app'[a] = "opening")
  <2> DEFINE task == [start[r] EXCEPT !.queued = Queued(r), !.old = pool.app]
             stepped(x) == [task EXCEPT !.step = x]
  <2>0. \A x : stepped(x).step = x
    <3>1. start[r] \in Start
      BY <1>t
    <3> DEFINE b == Queued(r)
    <3>2. \A x : stepped(x) = [[start[r] EXCEPT !.queued = b, !.old = pool.app] EXCEPT !.step = x]
      OBVIOUS
    <3> HIDE DEF b, stepped, task
    <3> QED
      BY <3>1, <3>2 DEF Start
  <2>1. CASE pool.app # NoApp
    <3>1. start' = [start EXCEPT ![r] = stepped("stopOld")] /\ app' = Stopped(app, pool.app)
      BY <1>0, <2>1 DEF StartBegins
    <3> HIDE DEF stepped, task
    <3> QED
      BY <3>1, <2>0, <1>t, StoppedIs
  <2>2. CASE pool.app = NoApp
    <3>1. start' = [start EXCEPT ![r] = stepped("open")] /\ app' = [app EXCEPT ![r] = "opening"]
      BY <1>0, <2>2 DEF StartBegins
    <3> HIDE DEF stepped, task
    <3> QED
      BY <3>1, <2>0, <1>t
  <2> QED
    BY <2>1, <2>2
<1>1. InOrder(request', pool.tail)
  BY <1>t, <1>m, <1>h, MovedInOrder
<1>2. Kinds(request')
  BY <1>t, <1>r, <1>h, <1>n DEF Kinds
<1>3. OneAtATime(request', start', r)
  <2>i. \A q \in Requests : InQueue(request', q) <=> InQueue(request, q)
    BY <1>m DEF InQueue, Moved
  <2>1. \A q \in Requests : start'[q].step \in Active => r = q
    BY <1>t, <1>0, <1>s, <1>n DEF OneAtATime
  <2>2. start'[r].step \in Active
    BY <1>s DEF Active
  <2>3. ASSUME NEW q \in Requests, request'[q].step = "joining"
        PROVE  start'[request'[q].join].step \in Active \cup {"settled"}
    <3>1. CASE q = r
      BY <3>1, <1>r, <2>2
    <3>2. CASE q # r
      <4>1. request'[q] = request[q] /\ request[q].join \in Requests
        BY <3>2, <2>3, <1>r, <1>t DEF Kinds, Request, Maybe
      <4>2. start[request[q].join].step \in Active \cup {"settled"}
        BY <4>1, <2>3, <1>t DEF OneAtATime
      <4> QED
        BY <4>1, <4>2, <2>2, <1>s
    <3> QED
      BY <3>1, <3>2
  \* Nobody else in the queue is past waiting.
  <2>4. \A q \in Requests : q # r /\ InQueue(request, q) => request[q].step = "waiting"
    <3>1. ASSUME NEW q \in Requests, q < r
          PROVE  ~InQueue(request, q)
      BY <3>1, <1>h DEF QueueHead
    <3>2. ASSUME NEW q \in Requests, r < q, InQueue(request, q)
          PROVE  request[q].step = "waiting"
      BY <3>2, <1>h, <1>t DEF InOrder
    <3> QED
      BY <3>1, <3>2, <1>n
  <2>5. \A q \in Requests : request'[q].step = "joining" /\ InQueue(request', q) => r = request'[q].join
    BY <2>4, <2>i, <1>r
  <2>6. \A q \in Requests : request'[q].step # "open"
    BY <2>4, <1>r, <1>t DEF Kinds, InQueue
  <2> QED
    BY <2>1, <2>2, <2>3, <2>5, <2>6 DEF OneAtATime
<1>4. Owned(request', start', app', r, pool.app)
  <2>1. \A a \in Requests : app'[a] # "live"
    BY <1>l, <1>s
  <2>2. \A a \in Requests : app'[a] = "opening" => start'[a].step = "open" \/ request'[a].step = "open"
    <3>1. ASSUME NEW a \in Requests, app'[a] = "opening", ~(a = r /\ start'[r].step = "open")
          PROVE  start'[a].step = "open" \/ request'[a].step = "open"
      <4>1. app[a] = "opening"
        BY <3>1, <1>s
      <4>2. start[a].step = "open" \/ request[a].step = "open"
        BY <4>1 DEF Orderly, Owned
      <4>3. start[a].step # "open"
        BY <1>t, <1>0, <1>n DEF OneAtATime, Active
      <4>4. a # r
        BY <4>2, <4>3, <1>h
      <4> QED
        BY <4>2, <4>3, <4>4, <1>r
    <3> QED
      BY <3>1
  <2>3. pool.app # 0 => pool.app \in Requests
    BY <1>t DEF Maybe
  <2> QED
    BY <2>1, <2>2, <2>3 DEF Owned
<1>5. Covered(request', r, pool.app)
  BY <1>h DEF Covered, Covers
<1> QED
  BY <1>0, <1>p, <1>1, <1>2, <1>3, <1>4, <1>5 DEF Orderly, Covered, UnderWay

LEMMA SwitchBeginsOrderly ==
  ASSUME Types, Types', Orderly, NEW r \in Requests, SwitchBegins(r)
  PROVE  Orderly'
<1>0. /\ MaySwitch(r) /\ ~Refusing
      /\ app' = [app EXCEPT ![r] = "opening"]
      /\ request' = [request EXCEPT ![r].step = "open"]
      /\ UNCHANGED <<pool, start, stop, stopAll>>
  BY DEF SwitchBegins
<1>n. Requests \subseteq Nat /\ 0 \notin Requests
  BY NoZero
<1>t. /\ request \in [Requests -> Request] /\ request' \in [Requests -> Request]
      /\ start \in [Requests -> Start] /\ stop \in [Stops -> AppStop] /\ stopAll \in Stop
      /\ pool.tail \in Maybe(Requests) /\ pool.start \in Maybe(Requests) /\ pool.app \in Maybe(Requests)
      /\ InOrder(request, pool.tail) /\ Kinds(request) /\ OneAtATime(request, start, pool.start)
  BY DEF Types, Pool, Orderly
<1>k. /\ request[r].kind = "switch" /\ InQueue(request, r)
      /\ stopAll.step = "none" /\ \A k \in Stops : stop[k].step \in {"none", "over"}
  BY <1>0, NobodyStops DEF MaySwitch, InQueue
<1>h. QueueHead(request, r) /\ request[r].step \in {"waiting", "joining"} /\ pool.start = 0
  <2>1. CASE MayRun(r) /\ pool.start = 0
    BY <2>1, GoesOnAsHead
  <2>2. CASE MayGoOn(r)
    <3>1. request[r].step = "joining" /\ QueueHead(request, r)
      BY <2>2, <1>k, GoesOnAsHead
    <3>2. CanGo(request, start, r)
      BY <2>2, RunnableIs DEF MayGoOn, MayContinue
    <3>3. request[r].join # 0 /\ start[request[r].join].step = "settled"
      BY <3>1, <3>2, <1>t DEF CanGo, Kinds
    <3>4. pool.start = 0
      BY <3>1, <3>3, <1>k, <1>t DEF OneAtATime, Active
    <3> QED
      BY <3>1, <3>4
  <2> QED
    BY <1>0, <2>1, <2>2 DEF MaySwitch
<1>r. /\ request'[r].step = "open" /\ request'[r].kind = request[r].kind
      /\ \A q \in Requests : q # r => request'[q] = request[q]
      /\ app'[r] = "opening" /\ \A a \in Requests : a # r => app'[a] = app[a]
  BY <1>0, <1>t DEF Request, Types
<1>m. Moved(request, request', r)
  BY <1>h, <1>r DEF Moved
<1>1. InOrder(request', pool.tail)
  BY <1>t, <1>m, <1>h, MovedInOrder
<1>2. Kinds(request')
  BY <1>t, <1>r, <1>k DEF Kinds
<1>3. OneAtATime(request', start, pool.start)
  BY <1>t, <1>r, <1>h DEF OneAtATime, InQueue
<1>4. Owned(request', start, app', pool.start, pool.app)
  <2>1. \A a \in Requests : app'[a] = "opening" => start[a].step = "open" \/ request'[a].step = "open"
    BY <1>r DEF Orderly, Owned
  <2>2. \A a \in Requests : app'[a] = "live" => pool.app = a
    BY <1>r DEF Orderly, Owned
  <2> QED
    BY <1>h, <2>1, <2>2 DEF Owned
<1>5. Covered(request', pool.start, pool.app)
  BY <1>t, <1>m, <1>k, MovedKeeps DEF Orderly, Covered, AppStop
<1> QED
  BY <1>0, <1>1, <1>2, <1>3, <1>4, <1>5 DEF Orderly, Covered, UnderWay

LEMMA SwitchOpensOrderly ==
  ASSUME Types, Types', Orderly, NEW r \in Requests, SwitchOpens(r)
  PROVE  Orderly'
<1>0. request[r].step = "open" /\ UNCHANGED <<start, stop, stopAll>>
  BY SwitchOpensIs
<1> PICK result \in Outcomes : SwitchOutcome(r, result)
  BY SwitchOpensIs
<1>n. Requests \subseteq Nat /\ 0 \notin Requests
  BY NoZero
<1>t. /\ request \in [Requests -> Request] /\ request' \in [Requests -> Request]
      /\ app \in [Requests -> Stages] /\ pool \in Pool
      /\ start \in [Requests -> Start] /\ stop \in [Stops -> AppStop] /\ stopAll \in Stop
      /\ pool.tail \in Maybe(Requests) /\ pool.start \in Maybe(Requests) /\ pool.app \in Maybe(Requests)
      /\ InOrder(request, pool.tail) /\ Kinds(request) /\ OneAtATime(request, start, pool.start)
  BY DEF Types, Pool, Orderly
<1>h. /\ pool.start = 0 /\ request[r].kind = "switch" /\ InQueue(request, r)
      /\ QueueHead(request, r)
  <2>1. InQueue(request, r) /\ request[r].kind = "switch" /\ pool.start = 0
    BY <1>0, <1>t DEF Kinds, InQueue, OneAtATime
  <2> QED
    BY <2>1, <1>0, <1>t, WorkerIsHead
<1>1. CASE app' = [app EXCEPT ![r] = "closed"] /\ Answer(r, pool)
  <2>1. app'[r] = "closed" /\ \A a \in Requests : a # r => app'[a] = app[a]
    BY <1>1, <1>t
  <2> QED
    BY <1>0, <1>1, <1>h, <2>1, AnswerOrderly
\* Otherwise it waits for the close of an app.
<1>c. ASSUME NEW x \in Maybe(Requests),
             request' = [request EXCEPT ![r].step = "closing", ![r].old = x]
      PROVE  /\ request'[r].step = "closing" /\ Moved(request, request', r)
             /\ Kinds(request') /\ InOrder(request', pool.tail)
             /\ OneAtATime(request', start, pool.start)
  <2>1. /\ request'[r].step = "closing" /\ request'[r].kind = request[r].kind
        /\ \A q \in Requests : q # r => request'[q] = request[q]
    BY <1>c, <1>t DEF Request
  <2>2. Moved(request, request', r)
    BY <1>0, <2>1 DEF Moved
  <2>3. InOrder(request', pool.tail)
    BY <1>t, <2>2, <1>h, MovedInOrder
  <2>4. Kinds(request')
    BY <1>t, <2>1, <1>h DEF Kinds
  <2>5. OneAtATime(request', start, pool.start)
    BY <1>t, <2>1, <1>h DEF OneAtATime, InQueue
  <2> QED
    BY <2>1, <2>2, <2>3, <2>4, <2>5
<1>2. CASE /\ Publishable(result, request[r])
           /\ pool' = [pool EXCEPT !.app = r, !.cooling = FALSE]
           /\ app' = Stopped([app EXCEPT ![r] = "live"], pool.app)
           /\ request' = [request EXCEPT ![r].step = "closing", ![r].old = pool.app]
  <2>1. /\ request'[r].step = "closing" /\ Moved(request, request', r)
        /\ Kinds(request') /\ InOrder(request', pool.tail)
        /\ OneAtATime(request', start, pool.start)
    BY <1>2, <1>c, <1>t
  <2>2. /\ pool'.app = r /\ pool'.start = pool.start /\ pool'.tail = pool.tail
        /\ pool'.stopping = pool.stopping /\ pool'.stopped = pool.stopped
    BY <1>2, <1>t DEF Pool
  <2>3. stopAll.step = "none" /\ \A k \in Stops : stop[k].step \in {"none", "over"}
    BY <1>2, NobodyStops DEF Publishable
  <2> DEFINE A == [app EXCEPT ![r] = "live"]
  <2>4. A \in [Requests -> Stages] /\ A[r] = "live" /\ \A a \in Requests : a # r => A[a] = app[a]
    BY <1>t DEF Stages
  <2>5. /\ \A a \in Requests : app'[a] \in {A[a], "closing"}
        /\ pool.app # 0 => app'[pool.app] \in {"closing", "closed"}
    <3>1. app' = Stopped(A, pool.app)
      BY <1>2
    <3> HIDE DEF A
    <3> QED
      BY <3>1, <2>4, <1>t, StoppedIs
  <2> HIDE DEF A
  <2>6. \A a \in Requests : app'[a] = "opening" => start[a].step = "open" \/ request'[a].step = "open"
    BY <2>1, <2>4, <2>5 DEF Orderly, Owned, Moved
  <2>7. ASSUME NEW a \in Requests, app'[a] = "live", a # r
        PROVE  FALSE
    <3>1. app[a] = "live"
      BY <2>7, <2>4, <2>5
    <3>2. pool.app = a
      BY <3>1 DEF Orderly, Owned
    <3> QED
      BY <3>2, <2>5, <2>7, <1>n
  <2>8. Owned(request', start, app', pool.start, r)
    BY <2>6, <2>7, <1>h DEF Owned
  <2>9. Covered(request', pool.start, r)
    BY <2>3 DEF Covered, Covers
  <2> QED
    BY <1>0, <2>1, <2>2, <2>3, <2>8, <2>9 DEF Orderly, Covered, UnderWay
<1>3. CASE /\ app' = [app EXCEPT ![r] = "closing"]
           /\ request' = [request EXCEPT ![r].step = "closing", ![r].old = r]
           /\ UNCHANGED pool
  <2>0. r \in Maybe(Requests)
    BY DEF Maybe
  <2>1. /\ request'[r].step = "closing" /\ Moved(request, request', r)
        /\ Kinds(request') /\ InOrder(request', pool.tail)
        /\ OneAtATime(request', start, pool.start)
    BY <1>3, <1>c, <2>0
  <2>2. app'[r] = "closing" /\ \A a \in Requests : a # r => app'[a] = app[a]
    BY <1>3, <1>t
  <2>3. Owned(request', start, app', pool.start, pool.app)
    BY <2>1, <2>2, <1>h DEF Orderly, Owned, Moved
  <2>4. Covered(request', pool.start, pool.app)
    BY <1>t, <1>0, <2>1, MovedKeeps DEF Orderly, Covered, AppStop
  <2> QED
    BY <1>0, <1>3, <2>1, <2>3, <2>4 DEF Orderly, Covered, UnderWay
<1> QED
  BY <1>1, <1>2, <1>3 DEF SwitchOutcome

LEMMA RequestOrderly ==
  ASSUME Types, Types', Orderly, NEW r \in Requests, RequestProceeds(r)
  PROVE  Orderly'
<1>t. /\ request \in [Requests -> Request] /\ pool.tail \in Maybe(Requests)
      /\ Kinds(request) /\ InOrder(request, pool.tail)
  BY DEF Types, Pool, Orderly
<1>1. CASE Refused(r) \/ AppFound(r) \/ StartShared(r) \/ SwitchEnds(r)
  <2>1. Answer(r, pool) /\ UNCHANGED <<app, start, stop, stopAll>>
    BY <1>1 DEF Refused, AppFound, StartShared, SwitchEnds
  <2>2. request[r].step \in {"waiting", "joining", "closing"} /\ (InQueue(request, r) => QueueHead(request, r))
    <3>1. CASE Refused(r) \/ AppFound(r) \/ StartShared(r)
      <4>1. MayRun(r) \/ MayGoOn(r)
        BY <3>1 DEF Refused, AppFound, StartShared, MaySwitch
      <4> QED
        BY <4>1, GoesOnAsHead
    <3>2. CASE SwitchEnds(r)
      BY <3>2, <1>t, WorkerIsHead DEF SwitchEnds
    <3> QED
      BY <1>1, <3>1, <3>2
  <2> QED
    BY <2>1, <2>2, AnswerOrderly
<1>2. CASE Joins(r)
  BY <1>2, JoinsOrderly
<1>3. CASE Begins(r)
  BY <1>3, BeginsOrderly
<1>4. CASE SwitchBegins(r)
  BY <1>4, SwitchBeginsOrderly
<1>5. CASE SwitchOpens(r)
  BY <1>5, SwitchOpensOrderly
<1> QED
  BY <1>1, <1>2, <1>3, <1>4, <1>5 DEF RequestProceeds

-----------------------------------------------------------------------------
(* The steps of the stops.                                                  *)

\* When no request may go on, and all that are in the queue wait, none is.
LEMMA QuietQueueIsEmpty ==
  ASSUME Types, Orderly, Quiet, \A r \in Requests : InQueue(request, r) => request[r].step = "waiting"
  PROVE  \A r \in Requests : ~InQueue(request, r)
<1> SUFFICES ASSUME NEW r \in Requests, InQueue(request, r)
             PROVE  FALSE
  OBVIOUS
<1> DEFINE T == {q \in Requests : InQueue(request, q)}
<1>1. T \subseteq Nat /\ T # {}
  BY NoZero
<1>2. PICK m \in T : \A n \in T : m <= n
  <2> HIDE DEF T
  <2> QED
    BY <1>1, Least
<1>3. m \in Requests /\ InQueue(request, m) /\ request[m].step = "waiting"
  BY <1>2
<1>4. request[m].after # 0 /\ request[request[m].after].step # "done"
  BY <1>3, RunnableIs DEF Quiet, CanGo
<1>5. request[m].after \in Requests /\ request[m].after < m /\ InQueue(request, request[m].after)
  BY <1>3, <1>4 DEF Orderly, Kinds, InOrder, Types, Request, Maybe
<1>6. m <= request[m].after
  BY <1>5, <1>2
<1> DEFINE a == request[m].after
<1>7. a \in Nat /\ m \in Nat /\ a < m /\ m <= a
  BY <1>3, <1>5, <1>6, NoZero
<1> HIDE DEF a
<1> QED
  BY <1>7

\* What a stop waits for is all there is.
LEMMA JoinedIsAll ==
  ASSUME Types, Orderly, Quiet, NEW k \in Stop, k.step = "wait",
         Covers(k, request, pool.start, pool.app), Joined(k)
  PROVE  pool.start = 0 /\ \A r \in Requests : InQueue(request, r) => request[r].step = "waiting"
<1>1. /\ k.start # 0 => start[k.start].step = "settled"
      /\ k.tail # 0 => request[k.tail].step = "done"
  BY DEF Joined, Settled, Done
<1>2. pool.start = 0
  BY <1>1, NoZero DEF Covers, Orderly, OneAtATime, Active
<1>3. ASSUME NEW r \in Requests, InQueue(request, r), request[r].step # "waiting"
      PROVE  FALSE
  <2>1. k.tail # 0 /\ InQueue(request, k.tail)
    BY <1>3 DEF Covers
  <2>2. k.tail \in Requests
    BY <2>1 DEF Stop, Maybe
  <2> QED
    BY <1>1, <2>1, <2>2 DEF Orderly, Kinds, InQueue
<1> QED
  BY <1>2, <1>3

\* The beginning of a stop, for either: all that is in the hands of others is known.
LEMMA StopBeginsOrderly ==
  ASSUME Types, Types', Orderly, NEW p \in Pool, StopBegins(p),
         p.start = pool.start, p.tail = pool.tail
  PROVE  /\ Kinds(request') /\ InOrder(request', pool'.tail)
         /\ OneAtATime(request', start', pool'.start)
         /\ Owned(request', start', app', pool'.start, pool'.app)
         /\ Covers(Captured, request', pool'.start, pool'.app)
         /\ Covered(request', pool'.start, pool'.app)
         /\ pool'.stopping = p.stopping /\ pool'.stopped = p.stopped
<1>n. Requests \subseteq Nat /\ 0 \notin Requests
  BY NoZero
<1>t. /\ request \in [Requests -> Request] /\ request' \in [Requests -> Request]
      /\ start \in [Requests -> Start] /\ start' \in [Requests -> Start]
      /\ app \in [Requests -> Stages] /\ stop \in [Stops -> AppStop] /\ stopAll \in Stop
      /\ pool.tail \in Maybe(Requests) /\ pool.start \in Maybe(Requests) /\ pool.app \in Maybe(Requests)
      /\ InOrder(request, pool.tail) /\ Kinds(request) /\ OneAtATime(request, start, pool.start)
  BY DEF Types, Pool, Orderly
<1>1. /\ pool'.app = 0 /\ pool'.start = pool.start /\ pool'.tail = pool.tail
      /\ pool'.stopping = p.stopping /\ pool'.stopped = p.stopped
  BY DEF StopBegins, Pool, NoApp
<1>2. Untouched(request, request') /\ \A s \in Requests : start'[s].step = start[s].step
  BY AbortTypes DEF StopBegins, Untouched
<1>3. /\ \A a \in Requests : app'[a] \in {app[a], "closing"}
      /\ pool.app # 0 => app'[pool.app] \in {"closing", "closed"}
  BY <1>t, StoppedIs DEF StopBegins
<1>4. /\ Kinds(request') /\ InOrder(request', pool.tail) /\ OneAtATime(request', start', pool.start)
      /\ \A k \in Stop, q \in Maybe(Requests) :
           Covers(k, request, pool.start, q) => Covers(k, request', pool.start, q)
  BY <1>t, <1>2, UntouchedKeeps
<1>5. Owned(request', start', app', pool.start, 0)
  <2>1. ASSUME NEW a \in Requests, app'[a] = "live"
        PROVE  FALSE
    <3>1. app[a] = "live" /\ pool.app = a
      BY <2>1, <1>3 DEF Orderly, Owned
    <3> QED
      BY <3>1, <2>1, <1>3, <1>n
  <2>2. \A a \in Requests : app'[a] = "opening" => start'[a].step = "open" \/ request'[a].step = "open"
    BY <1>2, <1>3 DEF Orderly, Owned, Untouched
  <2> QED
    BY <2>1, <2>2 DEF Owned
<1>6. ASSUME NEW k \in Stop, Covers(k, request, pool.start, pool.app)
      PROVE  Covers(k, request, pool.start, 0)
  BY <1>6 DEF Covers
<1>7. 0 \in Maybe(Requests)
  BY DEF Maybe
<1>8. Covered(request', pool.start, 0)
  BY <1>t, <1>4, <1>6, <1>7 DEF Orderly, Covered, AppStop
<1>9. Covers(Captured, request', pool.start, 0)
  <2>1. /\ Captured.step = "wait" /\ Captured.start = pool.start /\ Captured.tail = pool.tail
    BY DEF Captured
  <2>2. \A r \in Requests : InQueue(request', r) => pool.tail # 0 /\ r <= pool.tail
    BY <1>4 DEF InOrder
  <2>3. pool.tail # 0 => InQueue(request', pool.tail)
    BY <1>4 DEF InOrder
  <2> QED
    BY <2>1, <2>2, <2>3 DEF Covers
<1> QED
  BY <1>1, <1>4, <1>5, <1>8, <1>9

\* stop() of the published app, which stays published.
LEMMA StoppedOwned ==
  ASSUME Types, Orderly, app' = Stopped(app, pool.app)
  PROVE  Owned(request, start, app', pool.start, pool.app)
<1>1. pool.app \in Maybe(Requests) /\ app \in [Requests -> Stages]
  BY DEF Types, Pool
<1>2. \A a \in Requests : app'[a] \in {app[a], "closing"}
  BY <1>1, StoppedIs
<1>3. pool.app # 0 => pool.app \in Requests
  BY <1>1 DEF Maybe
<1> QED
  BY <1>2, <1>3 DEF Orderly, Owned

\* When the pool is emptied, there is nothing in it that anybody has in hand.
LEMMA EmptiedOrderly ==
  ASSUME Types, Types', Orderly, Quiet, pool' = Emptied(pool),
         UNCHANGED <<app, start, request>>,
         pool.start = 0,
         \A r \in Requests : InQueue(request, r) => request[r].step = "waiting",
         pool.app # 0 => app[pool.app] = "closed"
  PROVE  /\ Kinds(request') /\ InOrder(request', pool'.tail)
         /\ OneAtATime(request', start', pool'.start)
         /\ Owned(request', start', app', pool'.start, pool'.app)
         /\ \A k \in Stop : Covers(k, request, pool.start, pool.app) => Covers(k, request', pool'.start, pool'.app)
         /\ \A k \in Stop : k.step \in {"kill", "done"} => Covers(k, request', pool'.start, pool'.app)
         /\ pool'.stopping = pool.stopping /\ pool'.stopped = pool.stopped
<1>1. /\ pool'.app = 0 /\ pool'.start = 0 /\ pool'.tail = 0
      /\ pool'.stopping = pool.stopping /\ pool'.stopped = pool.stopped
  BY DEF Emptied, Types, Pool, NoApp
<1>2. \A r \in Requests : ~InQueue(request, r)
  BY QuietQueueIsEmpty
<1>3. InOrder(request, 0)
  BY <1>2 DEF Orderly, InOrder
<1>4. \A a \in Requests : app[a] # "live"
  BY NoZero DEF Orderly, Owned
<1>5. Owned(request, start, app, 0, 0)
  BY <1>4 DEF Orderly, Owned
<1>6. ASSUME NEW k \in Stop, Covers(k, request, pool.start, pool.app)
      PROVE  Covers(k, request, 0, 0)
  BY <1>6 DEF Covers
<1>7. ASSUME NEW k \in Stop, k.step \in {"kill", "done"}
      PROVE  Covers(k, request, 0, 0)
  BY <1>7, <1>2 DEF Covers
<1> QED
  BY <1>1, <1>3, <1>5, <1>6, <1>7 DEF Orderly

LEMMA StopAppOrderly ==
  ASSUME Types, Types', Orderly, NEW k \in Stops, StopApp(k)
  PROVE  Orderly'
<1>t. /\ pool \in Pool /\ pool.app \in Maybe(Requests)
  BY DEF Types, Pool
<1> DEFINE p == [pool EXCEPT !.stopping = TRUE]
<1>1. StopBegins(p) /\ stop' = [stop EXCEPT ![k] = Captured] /\ UNCHANGED stopAll
  BY DEF StopApp
<1>2. /\ p \in Pool /\ p.start = pool.start /\ p.tail = pool.tail
      /\ p.stopping = TRUE /\ p.stopped = pool.stopped
  BY <1>t DEF Pool
<1> HIDE DEF p
<1>3. /\ Kinds(request') /\ InOrder(request', pool'.tail)
      /\ OneAtATime(request', start', pool'.start)
      /\ Owned(request', start', app', pool'.start, pool'.app)
      /\ Covers(Captured, request', pool'.start, pool'.app)
      /\ Covered(request', pool'.start, pool'.app)
      /\ pool'.stopping /\ pool'.stopped = pool.stopped
  BY <1>1, <1>2, StopBeginsOrderly
<1>4. \A q \in Stops : stop'[q] = IF q = k THEN Captured ELSE stop[q]
  BY <1>1 DEF Types
<1>5. (\A q \in Stops : Covers(stop'[q], request', pool'.start, pool'.app))
      /\ Covers(stopAll', request', pool'.start, pool'.app)
  BY <1>1, <1>3, <1>4 DEF Covered
<1> QED
  BY <1>1, <1>3, <1>5 DEF Orderly, Covered

LEMMA LateAppStopsOrderly ==
  ASSUME Types, Types', Orderly, NEW k \in Stops, LateAppStops(k)
  PROVE  Orderly'
<1> DEFINE x == [NoStop EXCEPT !.step = "late", !.app = pool.app]
<1>1. /\ Quiet /\ stop[k].step = "wait" /\ Joined(stop[k]) /\ app' = Stopped(app, pool.app)
      /\ stop' = [stop EXCEPT ![k] = x]
      /\ UNCHANGED <<pool, start, request, stopAll>>
  BY DEF LateAppStops
<1>2. /\ pool.start = 0 /\ \A r \in Requests : InQueue(request, r) => request[r].step = "waiting"
      /\ pool.stopping
  <2>1. stop[k] \in Stop /\ Covers(stop[k], request, pool.start, pool.app)
    BY DEF Types, AppStop, Orderly, Covered
  <2> QED
    BY <1>1, <2>1, JoinedIsAll DEF Orderly, UnderWay
<1>3. Owned(request, start, app', pool.start, pool.app)
  BY <1>1, StoppedOwned
<1>4. x.step = "late" /\ x.app = pool.app
  BY DEF NoStop
<1> HIDE DEF x
<1>5. Covers(x, request, pool.start, pool.app)
  BY <1>2, <1>4 DEF Covers
<1>6. \A q \in Stops : stop'[q] = IF q = k THEN x ELSE stop[q]
  BY <1>1 DEF Types
<1>7. (\A q \in Stops : Covers(stop'[q], request, pool.start, pool.app))
      /\ Covers(stopAll, request, pool.start, pool.app)
  BY <1>5, <1>6 DEF Orderly, Covered
<1> QED
  BY <1>1, <1>2, <1>3, <1>7 DEF Orderly, Covered

LEMMA AppStoppedOrderly ==
  ASSUME Types, Types', Orderly, NEW k \in Stops, AppStopped(k)
  PROVE  Orderly'
<1> DEFINE x == [NoStop EXCEPT !.step = "kill"]
<1>1. /\ Quiet /\ pool' = Emptied(pool) /\ stop' = [stop EXCEPT ![k] = x]
      /\ UNCHANGED <<app, start, request, stopAll>>
      /\ \/ stop[k].step = "wait" /\ Joined(stop[k]) /\ pool.app \in {NoApp, stop[k].app}
         \/ stop[k].step = "late" /\ Closed(stop[k].app)
  BY DEF AppStopped
<1>c. stop[k] \in Stop /\ Covers(stop[k], request, pool.start, pool.app) /\ pool.stopping
  BY <1>1 DEF Types, AppStop, Orderly, Covered, UnderWay
<1>2. /\ pool.start = 0
      /\ \A r \in Requests : InQueue(request, r) => request[r].step = "waiting"
      /\ pool.app # 0 => app[pool.app] = "closed"
  <2>1. CASE stop[k].step = "wait" /\ Joined(stop[k]) /\ pool.app \in {NoApp, stop[k].app}
    <3>1. pool.start = 0 /\ \A r \in Requests : InQueue(request, r) => request[r].step = "waiting"
      BY <1>1, <1>c, <2>1, JoinedIsAll
    <3> QED
      BY <2>1, <3>1 DEF Joined, Closed, NoApp
  <2>2. CASE stop[k].step = "late" /\ Closed(stop[k].app)
    BY <1>c, <2>2 DEF Covers, Closed, NoApp
  <2> QED
    BY <1>1, <2>1, <2>2
<1>3. x.step = "kill" /\ x \in Stop
  BY DEF NoStop, NoApp, Stop, Maybe
<1> HIDE DEF x
<1>4. /\ Kinds(request') /\ InOrder(request', pool'.tail)
      /\ OneAtATime(request', start', pool'.start)
      /\ Owned(request', start', app', pool'.start, pool'.app)
      /\ \A y \in Stop : Covers(y, request, pool.start, pool.app) => Covers(y, request', pool'.start, pool'.app)
      /\ \A y \in Stop : y.step \in {"kill", "done"} => Covers(y, request', pool'.start, pool'.app)
      /\ pool'.stopping = pool.stopping /\ pool'.stopped = pool.stopped
  BY <1>1, <1>2, EmptiedOrderly
<1>5. \A q \in Stops : stop'[q] = IF q = k THEN x ELSE stop[q]
  BY <1>1 DEF Types
<1>6. /\ \A q \in Stops : Covers(stop[q], request', pool'.start, pool'.app)
      /\ Covers(stopAll, request', pool'.start, pool'.app) /\ Covers(x, request', pool'.start, pool'.app)
  BY <1>3, <1>4 DEF Orderly, Covered, Types, AppStop
<1>7. (\A q \in Stops : Covers(stop'[q], request', pool'.start, pool'.app))
      /\ Covers(stopAll', request', pool'.start, pool'.app)
  BY <1>1, <1>5, <1>6
<1>8. /\ \A q \in Stops : stop'[q].step \in {"wait", "late", "kill"} => pool'.stopping
      /\ stopAll'.step # "none" => pool'.stopped
  BY <1>1, <1>4, <1>c DEF Orderly
<1> QED
  BY <1>4, <1>7, <1>8 DEF Orderly, Covered, UnderWay

\* The kill of k that fails lets the serial go, when no other stop of it is under way.
LEMMA EmulatorKilledOrderly ==
  ASSUME Types, Types', Orderly, NEW k \in Stops, EmulatorKilled(k), ~pool'.forgotten
  PROVE  Orderly'
<1> DEFINE x == [NoStop EXCEPT !.step = "over"]
<1>1. /\ stop[k].step = "kill"
      /\ stop' = [stop EXCEPT ![k] = x] /\ UNCHANGED <<app, start, request, stopAll>>
      /\ pool' = pool \/ pool' = Forgotten(Stops \ {k})
  BY DEF EmulatorKilled
<1>2. pool.stopping /\ pool \in Pool /\ Stops \ {k} \in SUBSET Stops
  BY <1>1 DEF Orderly, UnderWay, Types
<1>3. x.step = "over"
  BY DEF NoStop
<1> HIDE DEF x
<1>4. /\ pool'.start = pool.start /\ pool'.app = pool.app /\ pool'.tail = pool.tail
      /\ pool'.stopped = pool.stopped
      /\ pool'.stopping \/ \A q \in Stops \ {k} : ~UnderWay(q)
  <2>1. CASE pool' = pool
    BY <1>2, <2>1
  <2>2. CASE pool' = Forgotten(Stops \ {k})
    BY <1>2, <2>2, ForgottenIs
  <2> QED
    BY <1>1, <2>1, <2>2
<1>5. \A q \in Stops : stop'[q] = IF q = k THEN x ELSE stop[q]
  BY <1>1 DEF Types
<1>6. Covers(x, request, pool.start, pool.app)
  BY <1>3 DEF Covers
<1>7. (\A q \in Stops : Covers(stop'[q], request, pool.start, pool.app))
      /\ Covers(stopAll, request, pool.start, pool.app)
  BY <1>5, <1>6 DEF Orderly, Covered
<1>8. \A q \in Stops : stop'[q].step \in {"wait", "late", "kill"} => pool'.stopping
  BY <1>3, <1>4, <1>5 DEF UnderWay
<1> QED
  BY <1>1, <1>4, <1>7, <1>8 DEF Orderly, Covered, UnderWay

LEMMA StopOrderly ==
  ASSUME Types, Types', Orderly, NEW k \in Stops, StopApp(k) \/ StopProceeds(k), ~pool'.forgotten
  PROVE  Orderly'
BY StopAppOrderly, LateAppStopsOrderly, AppStoppedOrderly, EmulatorKilledOrderly DEF StopProceeds

LEMMA StopAllOrderly ==
  ASSUME Types, Types', Orderly, StopAll \/ StopAllProceeds
  PROVE  Orderly'
<1>t. /\ pool \in Pool /\ stop \in [Stops -> AppStop] /\ stopAll' \in Stop /\ stopAll \in Stop
      /\ pool.app \in Maybe(Requests)
  BY DEF Types, Pool
<1>1. CASE StopAll
  <2> DEFINE p == [pool EXCEPT !.stopped = TRUE]
  <2>1. StopBegins(p) /\ stopAll' = Captured /\ UNCHANGED stop
    BY <1>1 DEF StopAll
  <2>2. /\ p \in Pool /\ p.start = pool.start /\ p.tail = pool.tail
        /\ p.stopped = TRUE /\ p.stopping = pool.stopping
    BY <1>t DEF Pool
  <2> HIDE DEF p
  <2> QED
    BY <2>1, <2>2, StopBeginsOrderly DEF Orderly, Covered, UnderWay
<1>2. CASE StopAllLate
  <2>1. /\ Quiet /\ stopAll.step = "wait" /\ Joined(stopAll) /\ app' = Stopped(app, pool.app)
        /\ stopAll' = [NoStop EXCEPT !.step = "late", !.app = pool.app]
        /\ UNCHANGED <<pool, start, request, stop>>
    BY <1>2 DEF StopAllLate
  <2>2. pool.start = 0 /\ \A r \in Requests : InQueue(request, r) => request[r].step = "waiting"
    BY <1>t, <2>1, JoinedIsAll DEF Orderly, Covered
  <2>3. Owned(request, start, app', pool.start, pool.app)
    BY <2>1, StoppedOwned
  <2>4. stopAll'.step = "late" /\ stopAll'.app = pool.app
    BY <2>1 DEF NoStop
  <2>5. Covers(stopAll', request, pool.start, pool.app)
    BY <2>2, <2>4 DEF Covers
  <2> QED
    BY <2>1, <2>3, <2>5 DEF Orderly, Covered, UnderWay
<1>3. CASE StopAllFinishes
  <2>1. /\ Quiet /\ pool' = Emptied(pool) /\ stopAll' = [NoStop EXCEPT !.step = "done"]
        /\ UNCHANGED <<app, start, request, stop>>
        /\ stopAll.step = "late" /\ Closed(stopAll.app)
    BY <1>3 DEF StopAllFinishes
  <2>2. /\ pool.start = 0
        /\ \A r \in Requests : InQueue(request, r) => request[r].step = "waiting"
        /\ pool.app # 0 => app[pool.app] = "closed"
    <3>1. Covers(stopAll, request, pool.start, pool.app)
      BY DEF Orderly, Covered
    <3> QED
      BY <2>1, <3>1 DEF Covers, Closed, NoApp
  <2>3. stopAll'.step = "done"
    BY <2>1 DEF NoStop
  <2> QED
    BY <1>t, <2>1, <2>2, <2>3, EmptiedOrderly DEF Orderly, Covered, UnderWay, AppStop
<1> QED
  BY <1>1, <1>2, <1>3 DEF StopAllProceeds

-----------------------------------------------------------------------------
(* The invariant.                                                           *)

\* That the serial left stoppingSerials too early is not forgotten.
LEMMA ForgottenStays ==
  ASSUME Types, RouterNext, pool.forgotten
  PROVE  pool'.forgotten
<1>p. pool \in Pool
  BY DEF Types
<1>s. ASSUME NEW s \in Requests, NEW p \in Pool, p.forgotten, StartSettles(s, p)
      PROVE  pool'.forgotten
  BY <1>s DEF StartSettles, Pool
<1>1. CASE \E s \in Requests : StartProceeds(s)
  <2> PICK s \in Requests : StartProceeds(s)
    BY <1>1
  <2>1. CASE OldStopped(s)
    <3> DEFINE p == [pool EXCEPT !.app = IF @ = start[s].old THEN NoApp ELSE @]
    <3>1. StartSettles(s, Cooling(p)) \/ pool' = p
      BY <2>1 DEF OldStopped
    <3>2. p \in Pool /\ p.forgotten
      BY <1>p DEF Pool, Maybe, NoApp
    <3> HIDE DEF p
    <3> QED
      BY <3>1, <3>2, <1>s, CoolingIs
  <2>2. CASE StartOpens(s)
    <3> DEFINE p == [pool EXCEPT !.app = s]
    <3>1. StartSettles(s, Cooling(pool)) \/ StartSettles(s, p) \/ pool' = pool
      BY <2>2 DEF StartOpens, StartFails, Outcomes, Publishable
    <3>2. p \in Pool /\ p.forgotten
      BY <1>p DEF Pool, Maybe
    <3> HIDE DEF p
    <3> QED
      BY <3>1, <3>2, <1>s, <1>p, CoolingIs
  <2>3. CASE StartDiscards(s)
    BY <2>3, <1>s, <1>p, CoolingIs DEF StartDiscards, StartFails
  <2> QED
    BY <2>1, <2>2, <2>3 DEF StartProceeds
<1>a. ASSUME NEW r \in Requests, Answer(r, pool)
      PROVE  pool'.forgotten
  BY <1>a, <1>p DEF Answer, Pool
<1>2. CASE \E r \in Requests : RequestProceeds(r)
  <2> PICK r \in Requests : RequestProceeds(r)
    BY <1>2
  <2>1. CASE SwitchOpens(r)
    <3> PICK result \in Outcomes : SwitchOutcome(r, result)
      BY <2>1, SwitchOpensIs
    <3> QED
      BY <1>a, <1>p DEF SwitchOutcome, Pool
  <2>2. CASE Begins(r)
    BY <2>2, <1>p DEF Begins, StartBegins, Pool
  <2>3. CASE Refused(r) \/ AppFound(r) \/ StartShared(r) \/ SwitchEnds(r)
    BY <2>3, <1>a DEF Refused, AppFound, StartShared, SwitchEnds
  <2>4. CASE Joins(r) \/ SwitchBegins(r)
    BY <2>4 DEF Joins, SwitchBegins
  <2> QED
    BY <2>1, <2>2, <2>3, <2>4 DEF RequestProceeds
<1>3. CASE \E r \in Requests : Requested(r)
  BY <1>3, <1>p DEF Requested, Pool
<1>4. CASE \E a \in Requests : AppEnds(a) \/ AppCloses(a)
  BY <1>4 DEF AppEnds, AppCloses
<1>f. Emptied(pool).forgotten /\ \A S \in SUBSET Stops : Forgotten(S).forgotten
  <2>1. Emptied(pool).forgotten
    BY <1>p DEF Emptied, Pool
  <2> QED
    BY <2>1, <1>p, ForgottenIs
<1>5. CASE CoolsDown \/ StoppingForgotten \/ AvdStarted
  BY <1>5, <1>p, <1>f DEF CoolsDown, StoppingForgotten, AvdStarted, Pool
<1>6. CASE StopAll \/ \E k \in Stops : StopApp(k)
  BY <1>6, <1>p DEF StopApp, StopAll, StopBegins, Pool
<1>7. CASE StopAllProceeds \/ \E k \in Stops : StopProceeds(k)
  <2>1. \A k \in Stops : Stops \ {k} \in SUBSET Stops
    OBVIOUS
  <2> QED
    BY <1>7, <1>p, <1>f, <2>1 DEF StopProceeds, StopAllProceeds, LateAppStops, AppStopped, EmulatorKilled,
                                  StopAllLate, StopAllFinishes
<1> QED
  BY <1>1, <1>2, <1>3, <1>4, <1>5, <1>6, <1>7 DEF RouterNext

LEMMA NextOrderly ==
  ASSUME Types, Types', Orderly, RouterNext, ~pool'.forgotten
  PROVE  Orderly'
<1>1. CASE \E a \in Requests : AppEnds(a) \/ AppCloses(a)
  BY <1>1, AppOrderly
<1>2. CASE \E s \in Requests : StartProceeds(s)
  BY <1>2, StartOrderly
<1>3. CASE \E r \in Requests : Requested(r)
  BY <1>3, RequestedOrderly
<1>4. CASE \E r \in Requests : RequestProceeds(r)
  BY <1>4, RequestOrderly
<1>5. CASE CoolsDown
  <2>1. /\ pool'.start = pool.start /\ pool'.app = pool.app /\ pool'.tail = pool.tail
        /\ pool'.stopped = pool.stopped /\ pool'.stopping = pool.stopping
    BY <1>5 DEF CoolsDown, Types, Pool
  <2> QED
    BY <1>5, <2>1 DEF CoolsDown, Orderly, Covered, UnderWay
<1>6. CASE StoppingForgotten \/ AvdStarted
  <2>1. pool' = Forgotten(Stops) /\ UNCHANGED <<app, start, request, stop, stopAll>>
    BY <1>6 DEF StoppingForgotten, AvdStarted
  <2>2. /\ pool'.start = pool.start /\ pool'.app = pool.app /\ pool'.tail = pool.tail
        /\ pool'.stopped = pool.stopped
        /\ pool.stopping => \A k \in Stops : ~UnderWay(k)
    BY <2>1, ForgottenIs DEF Types
  <2>3. \A k \in Stops : ~UnderWay(k)
    BY <2>2 DEF Orderly
  <2> QED
    BY <2>1, <2>2, <2>3 DEF Orderly, Covered, UnderWay
<1>7. CASE \E k \in Stops : StopApp(k) \/ StopProceeds(k)
  BY <1>7, StopOrderly
<1>8. CASE StopAll \/ StopAllProceeds
  BY <1>8, StopAllOrderly
<1> QED
  BY <1>1, <1>2, <1>3, <1>4, <1>5, <1>6, <1>7, <1>8 DEF RouterNext

LEMMA InitOrderly == RouterInit => Orderly
<1> SUFFICES ASSUME RouterInit PROVE Orderly
  OBVIOUS
<1>1. /\ pool.app = 0 /\ pool.start = 0 /\ pool.tail = 0
      /\ \A r \in Requests : request[r].step = "none" /\ request[r].kind = "none"
      /\ \A r \in Requests : start[r].step = "none" /\ app[r] = "unborn"
      /\ stopAll.step = "none" /\ \A k \in Stops : stop[k].step = "none"
  BY DEF RouterInit, NoApp, NoRequest, NoStart, NoStop
<1>2. Kinds(request) /\ InOrder(request, 0)
  BY <1>1 DEF Kinds, InOrder, InQueue
<1>3. OneAtATime(request, start, 0) /\ Owned(request, start, app, 0, 0)
  BY <1>1 DEF OneAtATime, Owned, Active
<1>4. Covered(request, 0, 0)
  BY <1>1 DEF Covered, Covers
<1> QED
  BY <1>1, <1>2, <1>3, <1>4 DEF Orderly, UnderWay

\* The inductive invariant, for any number of requests and of stops that overlap: as long as
\* the serial stays in stoppingSerials while a stop of it is under way, requests go on in the order of the queue, one start or switch is under way
\* at a time, every open app is in its hands or published, and what a stop captured is
\* all it has to wait for (createRouter: getAppUnqueued, the queue of switches, stopApp,
\* stopAll).
THEOREM RouterInvariance == RouterSpec => []RInv
<1>1. RouterInit => RInv
  BY InitTypes, InitOrderly DEF RInv
<1>2. RInv /\ [RouterNext]_routerVars => RInv'
  <2> SUFFICES ASSUME RInv, [RouterNext]_routerVars PROVE RInv'
    OBVIOUS
  <2>1. Types /\ Types'
    BY NextTypes DEF RInv
  <2>2. CASE RouterNext
    <3>1. CASE pool.forgotten
      BY <2>1, <2>2, <3>1, ForgottenStays DEF RInv
    <3>2. CASE ~pool.forgotten
      <4>1. Orderly
        BY <3>2 DEF RInv
      <4> QED
        BY <2>1, <2>2, <4>1, NextOrderly DEF RInv
    <3> QED
      BY <3>1, <3>2
  <2>3. CASE UNCHANGED routerVars
    BY <2>1, <2>3 DEF RInv, routerVars, Orderly, Covered, UnderWay
  <2> QED
    BY <2>2, <2>3
<1> QED
  BY <1>1, <1>2, PTL DEF RouterSpec

\* In an orderly pool at most one app is being opened.
LEMMA OneIsOpened ==
  ASSUME Types, Orderly
  PROVE  Cardinality({a \in Requests : app[a] = "opening"}) <= 1
<1> DEFINE T == {a \in Requests : app[a] = "opening"}
<1>1. ASSUME NEW a \in T, NEW c \in T
      PROVE  a = c
  <2>1. /\ a \in Requests /\ c \in Requests
        /\ start[a].step = "open" \/ request[a].step = "open"
        /\ start[c].step = "open" \/ request[c].step = "open"
    BY DEF Orderly, Owned
  <2>2. CASE start[a].step = "open" \/ start[c].step = "open"
    BY <2>1, <2>2, NoZero DEF Orderly, OneAtATime, Active
  <2>3. CASE request[a].step = "open" /\ request[c].step = "open"
    <3>1. InQueue(request, a) /\ InQueue(request, c)
      BY <2>1, <2>3 DEF Orderly, Kinds, InQueue
    <3>2. ~(a < c) /\ ~(c < a)
      BY <2>1, <2>3, <3>1 DEF Orderly, InOrder
    <3> QED
      BY <2>1, <3>2, NoZero
  <2> QED
    BY <2>1, <2>2, <2>3
<1>2. CASE T = {}
  BY <1>2, FS_EmptySet
<1>3. CASE T # {}
  <2> PICK a \in T : TRUE
    BY <1>3
  <2>1. T = {a}
    BY <1>1
  <2> HIDE DEF T
  <2>2. Cardinality(T) = 1
    BY <2>1, FS_Singleton
  <2> QED
    BY <2>2 DEF T
<1> QED
  BY <1>2, <1>3

\* createRouter's maps: as long as the serial stays in stoppingSerials while a stop of it is
\* under way (nobody starts the AVD then, adb goes on listing it, and no other stop fails to
\* kill it), every open app is published or in the hands of who opens it, one is opened at a time, and the
\* emulator is killed, or the router stopped, with no app open.
THEOREM OwnedInOrder == RouterSpec => []AppsAreOwnedInOrder
<1>1. RInv => AppsAreOwnedInOrder
  <2> SUFFICES ASSUME RInv, ~pool.forgotten
               PROVE  /\ AppsAreOwned
                      /\ Cardinality({a \in Requests : app[a] = "opening"}) <= 1
                      /\ (\E k \in Stops : stop[k].step = "kill") \/ stopAll.step = "done" => Open = {}
    BY DEF AppsAreOwnedInOrder
  <2>0. Types /\ Orderly
    BY DEF RInv
  <2>1. AppsAreOwned
    BY <2>0 DEF AppsAreOwned, Open, InHand, Orderly, Owned
  <2>2. Cardinality({a \in Requests : app[a] = "opening"}) <= 1
    BY <2>0, OneIsOpened
  <2>3. ASSUME (\E k \in Stops : stop[k].step = "kill") \/ stopAll.step = "done"
        PROVE  Open = {}
    <3>1. /\ pool.start = 0 /\ pool.app = 0
          /\ \A r \in Requests : InQueue(request, r) => request[r].step = "waiting"
      BY <2>0, <2>3 DEF Orderly, Covered, Covers
    <3>2. \A a \in Requests : app[a] # "live"
      BY <2>0, <3>1, NoZero DEF Orderly, Owned
    <3>3. \A a \in Requests : start[a].step # "open"
      BY <2>0, <3>1, NoZero DEF Orderly, OneAtATime, Active
    <3>4. \A a \in Requests : request[a].step # "open"
      BY <2>0, <3>1 DEF Orderly, Kinds, InQueue
    <3>5. \A a \in Requests : app[a] # "opening"
      BY <2>0, <3>3, <3>4 DEF Orderly, Owned
    <3> QED
      BY <3>2, <3>5 DEF Open
  <2> QED
    BY <2>1, <2>2, <2>3
<1> QED
  BY <1>1, RouterInvariance, PTL

=============================================================================

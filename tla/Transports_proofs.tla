--------------------------- MODULE Transports_proofs ---------------------------
(***************************************************************************)
(* Proofs about the two transports of a stream, ScrcpyLaunch and           *)
(* GrpcCapture. For any commands, lanes, limits and numbers of attempts    *)
(* and packets the executor uses its slots and keeps its reserves, a       *)
(* scrcpy launch leaves its device clean, and its reader misses no packet. *)
(* For any displays, limits and encoders the packet queue of a gRPC        *)
(* capture stays within its limit and decodable however much of it is      *)
(* thrown away, an encoder only gets images of its own size, no image is   *)
(* stranded, and close leaves nothing behind.                              *)
(***************************************************************************)
EXTENDS ScrcpyLaunch, GrpcCapture, FiniteSetTheorems, SequenceTheorems,
        WellFoundedInduction, TLAPS

-----------------------------------------------------------------------------
(* Data: the least-number principle, and a sequence without one element.   *)

LEMMA Least ==
  ASSUME NEW T, T \subseteq Nat, T # {}
  PROVE  \E m \in T : \A n \in T : m <= n
<1>. DEFINE R == OpToRel(<, Nat)
<1>1. IsWellFoundedOn(R, Nat) BY NatLessThanWellFounded
<1>2. \A x, y \in Nat : <<y, x>> \in R <=> y < x BY DEF OpToRel
<1>. HIDE DEF R
<1>3. PICK m \in T : \A y \in T : ~(<<y, m>> \in R) BY <1>1, WFMin
<1>4. ASSUME NEW n \in T PROVE m <= n
  <2>1. m \in Nat /\ n \in Nat OBVIOUS
  <2>2. ~(<<n, m>> \in R) BY <1>3
  <2>3. ~(n < m) BY <1>2, <2>1, <2>2
  <2> QED BY <2>1, <2>3
<1> QED BY <1>4

LEMMA Removal ==
  ASSUME NEW S, NEW q \in Seq(S), NEW i \in DOMAIN q
  PROVE  /\ RemoveAt(q, i) \in Seq(S)
         /\ Len(RemoveAt(q, i)) = Len(q) - 1
         /\ \A j \in 1 .. Len(q) - 1 :
              RemoveAt(q, i)[j] = IF j < i THEN q[j] ELSE q[j + 1]
<1>. DEFINE a == SubSeq(q, 1, i - 1)
            b == SubSeq(q, i + 1, Len(q))
<1>1. i \in 1 .. Len(q) /\ Len(q) \in Nat OBVIOUS
<1>2. \A j \in 1 .. Len(q) : q[j] \in S OBVIOUS
<1>3. /\ a \in Seq(S) /\ Len(a) = i - 1
      /\ \A j \in 1 .. i - 1 : a[j] = q[j]
  <2>1. 1 \in Int /\ i - 1 \in Int /\ \A j \in 1 .. i - 1 : q[j] \in S BY <1>1, <1>2
  <2>2. /\ a \in Seq(S) /\ Len(a) = IF 1 <= i - 1 THEN (i - 1) - 1 + 1 ELSE 0
        /\ \A j \in 1 .. (i - 1) - 1 + 1 : a[j] = q[1 + j - 1]
    BY <2>1, SubSeqProperties
  <2> QED BY <1>1, <2>2
<1>4. /\ b \in Seq(S) /\ Len(b) = Len(q) - i
      /\ \A j \in 1 .. Len(q) - i : b[j] = q[i + j]
  <2>1. i + 1 \in Int /\ Len(q) \in Int /\ \A j \in i + 1 .. Len(q) : q[j] \in S BY <1>1, <1>2
  <2>2. /\ b \in Seq(S) /\ Len(b) = IF i + 1 <= Len(q) THEN Len(q) - (i + 1) + 1 ELSE 0
        /\ \A j \in 1 .. Len(q) - (i + 1) + 1 : b[j] = q[(i + 1) + j - 1]
    BY <2>1, SubSeqProperties
  <2> QED BY <1>1, <2>2
<1>. HIDE DEF a, b
<1>. DEFINE r == RemoveAt(q, i)
<1>5. /\ r \in Seq(S) /\ Len(r) = Len(a) + Len(b)
      /\ \A j \in 1 .. Len(a) + Len(b) : r[j] = IF j <= Len(a) THEN a[j] ELSE b[j - Len(a)]
  <2>1. r = a \o b BY DEF RemoveAt, a, b
  <2> QED BY <1>3, <1>4, <2>1, ConcatProperties
<1>. HIDE DEF r
<1>6. Len(r) = Len(q) - 1 BY <1>1, <1>3, <1>4, <1>5
<1>7. \A j \in 1 .. Len(q) - 1 : r[j] = IF j < i THEN q[j] ELSE q[j + 1]
  <2>. SUFFICES ASSUME NEW j \in 1 .. Len(q) - 1
                PROVE  r[j] = IF j < i THEN q[j] ELSE q[j + 1]
    OBVIOUS
  <2>0. j \in Nat /\ i \in Nat /\ j \in 1 .. Len(a) + Len(b) /\ Len(a) = i - 1
    BY <1>1, <1>3, <1>4, SMTT(30)
  <2>1. CASE j < i
    <3>1. j <= Len(a) /\ j \in 1 .. i - 1 BY <2>0, <2>1
    <3> QED BY <1>3, <1>5, <2>0, <2>1, <3>1
  <2>2. CASE ~(j < i)
    <3>1. j - (i - 1) \in 1 .. Len(q) - i /\ i + (j - (i - 1)) = j + 1 BY <1>1, <2>2
    <3>2. b[j - (i - 1)] = q[j + 1] BY <1>4, <3>1
    <3>3. r[j] = b[j - (i - 1)]
      <4>1. ~(j <= Len(a)) BY <2>0, <2>2
      <4> QED BY <1>5, <2>0, <4>1
    <3> QED BY <2>2, <3>2, <3>3
  <2> QED BY <2>1, <2>2
<1> QED BY <1>5, <1>6, <1>7 DEF r

Distinct(q) == \A i, j \in DOMAIN q : q[i] = q[j] => i = j
In(q, c) == \E i \in DOMAIN q : q[i] = c

LEMMA RemovalOfOne ==
  ASSUME NEW S, NEW q \in Seq(S), NEW i \in DOMAIN q, Distinct(q)
  PROVE  /\ Distinct(RemoveAt(q, i))
         /\ \A c : In(RemoveAt(q, i), c) <=> In(q, c) /\ c # q[i]
<1>. DEFINE r == RemoveAt(q, i)
<1>1. /\ r \in Seq(S) /\ Len(r) = Len(q) - 1
      /\ \A j \in 1 .. Len(q) - 1 : r[j] = IF j < i THEN q[j] ELSE q[j + 1]
  BY Removal
<1>2. DOMAIN r = 1 .. Len(q) - 1 /\ i \in 1 .. Len(q) /\ Len(q) \in Nat
      /\ DOMAIN q = 1 .. Len(q)
  BY <1>1
<1>. HIDE DEF r
<1>3. Distinct(r)
  <2>. SUFFICES ASSUME NEW j \in DOMAIN r, NEW k \in DOMAIN r, r[j] = r[k] PROVE j = k
    BY DEF Distinct
  <2>1. /\ r[j] = IF j < i THEN q[j] ELSE q[j + 1]
        /\ r[k] = IF k < i THEN q[k] ELSE q[k + 1]
    BY <1>1, <1>2
  <2>2. {j, j + 1, k, k + 1} \subseteq DOMAIN q /\ j \in Nat /\ k \in Nat BY <1>2
  <2>3. CASE j < i /\ ~(k < i)
    <3>1. q[j] = q[k + 1] BY <2>1, <2>3
    <3>2. j = k + 1 BY <2>2, <3>1 DEF Distinct
    <3> QED BY <1>2, <2>2, <2>3, <3>2
  <2>4. CASE ~(j < i) /\ k < i
    <3>1. q[j + 1] = q[k] BY <2>1, <2>4
    <3>2. j + 1 = k BY <2>2, <3>1 DEF Distinct
    <3> QED BY <1>2, <2>2, <2>4, <3>2
  <2>5. CASE j < i /\ k < i BY <1>2, <2>1, <2>2, <2>5 DEF Distinct
  <2>6. CASE ~(j < i) /\ ~(k < i)
    <3>1. q[j + 1] = q[k + 1] BY <2>1, <2>6
    <3>2. j + 1 = k + 1 BY <2>2, <3>1 DEF Distinct
    <3> QED BY <2>2, <3>2
  <2> QED BY <2>3, <2>4, <2>5, <2>6
<1>4. ASSUME NEW c PROVE In(r, c) <=> In(q, c) /\ c # q[i]
  <2>1. ASSUME NEW j \in DOMAIN r, r[j] = c PROVE In(q, c) /\ c # q[i]
    <3>1. r[j] = IF j < i THEN q[j] ELSE q[j + 1] BY <1>1, <1>2
    <3>2. j \in DOMAIN q /\ j + 1 \in DOMAIN q /\ j \in Nat BY <1>2
    <3> QED BY <1>2, <2>1, <3>1, <3>2 DEF In, Distinct
  <2>2. ASSUME NEW j \in DOMAIN q, q[j] = c, c # q[i] PROVE In(r, c)
    <3>1. CASE j < i
      <4>1. j \in DOMAIN r /\ r[j] = q[j] BY <1>1, <1>2, <3>1
      <4> QED BY <2>2, <4>1 DEF In
    <3>2. CASE i < j
      <4>1. j - 1 \in DOMAIN r /\ ~(j - 1 < i) /\ (j - 1) + 1 = j BY <1>2, <3>2
      <4>2. r[j - 1] = q[j] BY <1>1, <1>2, <4>1
      <4> QED BY <2>2, <4>1, <4>2 DEF In
    <3>3. j # i BY <2>2
    <3> QED BY <1>2, <3>1, <3>2, <3>3
  <2> QED BY <2>1, <2>2 DEF In
<1> QED BY <1>3, <1>4 DEF r

-----------------------------------------------------------------------------
(* The executor.                                                           *)

Results == {"none", "ok", "failed", "closed", "unavailable"}
JobRecord ==
  [state : {"idle", "queued", "active", "settled"}, killed : BOOLEAN, result : Results]
ExecType == [job : [Issuers -> JobRecord], queue : Seq(Issuers)]

\* What holds between the removal of a command and the start of the next ones.
Core(x) ==
  /\ x \in ExecType
  /\ \A c \in Issuers : x.job[c].state = "queued" <=> In(x.queue, c)
  /\ Distinct(x.queue)
  /\ IsFiniteSet(Active(x)) /\ Cardinality(Active(x)) <= MaxActive
  /\ IsFiniteSet(OthersQueued(x))
  /\ ReservesKept(x)

ExecOK(x) == Core(x) /\ WorkConserving(x)

\* Command c was left alone, or was waiting and has been started.
Moved(x, y, c) ==
  \/ y.job[c] = x.job[c]
  \/ /\ x.job[c].state = "queued" /\ y.job[c].state = "active"
     /\ y.job[c].killed = x.job[c].killed /\ y.job[c].result = x.job[c].result

LEMMA Numbers ==
  /\ MaxActive \in Nat /\ MaxQueued \in Nat
  /\ ActiveReserve \in Nat /\ ActiveReserve < MaxActive
  /\ QueueReserve \in Nat /\ QueueReserve <= MaxQueued
  /\ \A c \in Issuers : LaneOf[c] \in {"interactive", "default", "background"}
BY ExecutorAssumption DEF Priority

\* Interactive and background commands are different ones.
LEMMA LanesAreDisjoint ==
  ASSUME NEW A, IsFiniteSet(A)
  PROVE  LET I == InLane(A, "interactive")  B == InLane(A, "background")
         IN  /\ IsFiniteSet(I) /\ IsFiniteSet(B)
             /\ Cardinality(A) \in Nat /\ Cardinality(I) \in Nat /\ Cardinality(B) \in Nat
             /\ Cardinality(I) + Cardinality(B) <= Cardinality(A)
<1>. DEFINE I == InLane(A, "interactive")
            B == InLane(A, "background")
<1>1. I \in SUBSET A /\ B \in SUBSET A /\ I \cup B \in SUBSET A /\ I \cap B = {}
  BY DEF InLane
<1>. HIDE DEF I, B
<1>2. IsFiniteSet(I) /\ IsFiniteSet(B) BY <1>1, FS_Subset
<1>3. Cardinality(I \cup B) <= Cardinality(A) BY <1>1, FS_Subset
<1>4. Cardinality(I \cup B) = Cardinality(I) + Cardinality(B) - Cardinality(I \cap B)
  BY <1>2, FS_Union
<1>5. Cardinality(I \cap B) = 0 BY <1>1, FS_EmptySet
<1>6. Cardinality(A) \in Nat /\ Cardinality(I) \in Nat /\ Cardinality(B) \in Nat
  BY <1>2, FS_CardinalityType
<1> QED BY <1>2, <1>3, <1>4, <1>5, <1>6 DEF I, B

\* A command is started only where its lane may start one.
LEMMA OneMoreActive ==
  ASSUME NEW x, NEW y, NEW c \in Issuers, c \notin Active(x), Active(y) = Active(x) \cup {c},
         IsFiniteSet(Active(x)), CanStartLane(x, LaneOf[c]),
         Cardinality(InLane(Active(x), "background")) <= MaxActive - ActiveReserve
  PROVE  /\ IsFiniteSet(Active(y))
         /\ Cardinality(Active(y)) = Cardinality(Active(x)) + 1
         /\ Cardinality(Active(y)) <= MaxActive
         /\ Cardinality(InLane(Active(y), "background")) <= MaxActive - ActiveReserve
<1>. DEFINE A == Active(x)
            I == InLane(A, "interactive")
            B == InLane(A, "background")
<1>1. /\ IsFiniteSet(I) /\ IsFiniteSet(B)
      /\ Cardinality(A) \in Nat /\ Cardinality(I) \in Nat /\ Cardinality(B) \in Nat
      /\ Cardinality(I) + Cardinality(B) <= Cardinality(A)
  BY LanesAreDisjoint
<1>2. IsFiniteSet(Active(y)) /\ Cardinality(Active(y)) = Cardinality(A) + 1
  BY FS_AddElement
<1>3. /\ Cardinality(A) < MaxActive
      /\ LaneOf[c] = "background" /\ ActiveReserve - Cardinality(I) > 0 =>
           Cardinality(A) < MaxActive - (ActiveReserve - Cardinality(I))
  BY DEF CanStartLane
<1>4. CASE LaneOf[c] # "background"
  <2>1. InLane(Active(y), "background") = B BY <1>4 DEF InLane
  <2> QED BY <1>1, <1>2, <1>3, <2>1, Numbers
<1>5. CASE LaneOf[c] = "background"
  <2>1. InLane(Active(y), "background") = B \cup {c} BY <1>5 DEF InLane
  <2>. HIDE DEF A, I, B
  <2>2. Cardinality(B \cup {c}) = IF c \in B THEN Cardinality(B) ELSE Cardinality(B) + 1
    BY <1>1, FS_AddElement
  <2>3. Cardinality(B \cup {c}) \in Nat BY <1>1, FS_AddElement, FS_CardinalityType
  <2>4. Cardinality(B) + 1 <= MaxActive - ActiveReserve
    BY ONLY <1>1, <1>3, <1>5, Numbers
  <2>5. Cardinality(InLane(Active(y), "background")) <= MaxActive - ActiveReserve
    BY ONLY <1>1, <2>1, <2>2, <2>3, <2>4, Numbers
  <2>6. Cardinality(A) + 1 <= MaxActive BY ONLY <1>1, <1>3, Numbers
  <2> QED BY <1>2, <2>5, <2>6 DEF A
<1> QED BY <1>4, <1>5

\* Once a command has started, what could not start before cannot now.
LEMMA StillBlocked ==
  ASSUME NEW x, NEW y, NEW c \in Issuers, c \notin Active(x), Active(y) = Active(x) \cup {c},
         IsFiniteSet(Active(x)), NEW lane, ~CanStartLane(x, lane)
  PROVE  ~CanStartLane(y, lane)
<1>. DEFINE A == Active(x)
            I == InLane(A, "interactive")
            J == InLane(Active(y), "interactive")
<1>1. IsFiniteSet(I) /\ Cardinality(A) \in Nat /\ Cardinality(I) \in Nat BY LanesAreDisjoint
<1>2. Cardinality(Active(y)) = Cardinality(A) + 1 BY FS_AddElement
<1>3. Cardinality(J) \in Nat /\ Cardinality(J) <= Cardinality(I) + 1
  <2>1. J = I \/ J = I \cup {c} BY DEF InLane
  <2>. HIDE DEF I, J
  <2>2. /\ IsFiniteSet(I \cup {c})
        /\ Cardinality(I \cup {c}) = IF c \in I THEN Cardinality(I) ELSE Cardinality(I) + 1
    BY <1>1, FS_AddElement
  <2>3. Cardinality(I \cup {c}) \in Nat BY <2>2, FS_CardinalityType
  <2> QED BY <1>1, <2>1, <2>2, <2>3
<1>4. ~ /\ Cardinality(A) < MaxActive
        /\ lane = "background" /\ ActiveReserve - Cardinality(I) > 0 =>
             Cardinality(A) < MaxActive - (ActiveReserve - Cardinality(I))
  BY DEF CanStartLane
<1>5. ~ /\ Cardinality(Active(y)) < MaxActive
        /\ lane = "background" /\ ActiveReserve - Cardinality(J) > 0 =>
             Cardinality(Active(y)) < MaxActive - (ActiveReserve - Cardinality(J))
  <2>. HIDE DEF A, I, J
  <2> QED BY ONLY <1>1, <1>2, <1>3, <1>4, Numbers
<1> QED BY <1>5 DEF CanStartLane

LEMMA StartNextKeeps ==
  ASSUME NEW x, Core(x)
  PROVE  /\ Core(StartNext(x))
         /\ \A c \in Issuers : Moved(x, StartNext(x), c)
         /\ Eligible(x) = {} => StartNext(x) = x
         /\ Eligible(x) # {} => Len(StartNext(x).queue) = Len(x.queue) - 1
<1>1. CASE Eligible(x) = {} BY <1>1 DEF StartNext, Moved
<1>2. CASE Eligible(x) # {}
  <2>. DEFINE best(k) == \A j \in Eligible(x) : MoreUrgent(x, k, j)
              i == CHOOSE k \in Eligible(x) : best(k)
              c == x.queue[i]
              z == [x EXCEPT !.queue = RemoveAt(@, i)]
              y == StartNext(x)
  <2>1. \E k \in Eligible(x) : best(k)
    <3>. DEFINE prio(k) == Priority[LaneOf[x.queue[k]]]
                P == {prio(k) : k \in Eligible(x)}
    <3>1. \A k \in Eligible(x) : prio(k) \in Nat /\ k \in Nat
      BY ExecutorAssumption DEF Eligible, Core, ExecType, Priority
    <3>2. PICK p \in P : \A n \in P : p <= n
      <4>1. P \subseteq Nat /\ P # {} BY <1>2, <3>1
      <4> QED BY ONLY <4>1, Least
    <3>. DEFINE K == {k \in Eligible(x) : prio(k) = p}
    <3>3. PICK k \in K : \A n \in K : k <= n
      <4>1. K \subseteq Nat /\ K # {} BY <3>1, <3>2
      <4> QED BY ONLY <4>1, Least
    <3>4. ASSUME NEW j \in Eligible(x) PROVE prio(k) < prio(j) \/ (prio(k) = prio(j) /\ k <= j)
      <4>1. prio(k) = p /\ p <= prio(j) /\ prio(j) \in Nat /\ p \in Nat BY <3>1, <3>2, <3>3
      <4>2. prio(j) = p => k <= j BY <3>3
      <4>. HIDE DEF prio
      <4> QED BY <4>1, <4>2
    <3> QED BY <3>3, <3>4 DEF MoreUrgent
  <2>2. i \in Eligible(x) BY <2>1
  <2>3. y = Start(z, c) BY <1>2 DEF StartNext
  <2>. HIDE DEF i, best
  <2>4. /\ x \in ExecType /\ x.queue \in Seq(Issuers) /\ Distinct(x.queue)
        /\ i \in DOMAIN x.queue /\ CanStartLane(x, LaneOf[c])
    BY <2>2 DEF Core, ExecType, Eligible
  <2>5. /\ RemoveAt(x.queue, i) \in Seq(Issuers)
        /\ Len(RemoveAt(x.queue, i)) = Len(x.queue) - 1
        /\ Distinct(RemoveAt(x.queue, i))
        /\ \A d : In(RemoveAt(x.queue, i), d) <=> In(x.queue, d) /\ d # c
    BY <2>4, Removal, RemovalOfOne
  <2>6. c \in Issuers /\ x.job[c].state = "queued" /\ In(x.queue, c)
    <3>1. c \in Issuers /\ In(x.queue, c) BY <2>4 DEF In
    <3> QED BY <3>1 DEF Core
  <2>. HIDE DEF c
  <2>7. z \in ExecType /\ z.job = x.job /\ z.queue = RemoveAt(x.queue, i)
    BY <2>4, <2>5 DEF ExecType
  <2>. HIDE DEF z
  <2>8. /\ y \in ExecType /\ y.queue = RemoveAt(x.queue, i)
        /\ \A d \in Issuers : d # c => y.job[d] = x.job[d]
        /\ y.job[c].state = "active" /\ y.job[c].killed = x.job[c].killed
        /\ y.job[c].result = x.job[c].result
    BY <2>3, <2>6, <2>7 DEF Start, ExecType, JobRecord
  <2>. HIDE DEF y
  <2>9. \A d \in Issuers : Moved(x, y, d) BY <2>6, <2>8 DEF Moved
  <2>10. c \notin Active(x) /\ Active(y) = Active(x) \cup {c}
    BY <2>6, <2>8 DEF Active
  <2>11. /\ IsFiniteSet(Active(y)) /\ Cardinality(Active(y)) <= MaxActive
         /\ Cardinality(InLane(Active(y), "background")) <= MaxActive - ActiveReserve
    BY <2>4, <2>6, <2>10, OneMoreActive DEF Core, ReservesKept
  <2>12. /\ IsFiniteSet(OthersQueued(y))
         /\ Cardinality(OthersQueued(y)) <= MaxQueued - QueueReserve
    <3>1. OthersQueued(y) \in SUBSET OthersQueued(x)
      BY <2>5, <2>8, ZenonT(30) DEF OthersQueued, In
    <3>2. /\ IsFiniteSet(OthersQueued(x))
          /\ Cardinality(OthersQueued(x)) <= MaxQueued - QueueReserve
      BY DEF Core, ReservesKept
    <3>3. /\ IsFiniteSet(OthersQueued(y))
          /\ Cardinality(OthersQueued(y)) <= Cardinality(OthersQueued(x))
      BY <3>1, <3>2, FS_Subset
    <3>4. Cardinality(OthersQueued(x)) \in Nat /\ Cardinality(OthersQueued(y)) \in Nat
      BY <3>2, <3>3, FS_CardinalityType
    <3> QED BY <3>2, <3>3, <3>4, Numbers
  <2>13. \A d \in Issuers : y.job[d].state = "queued" <=> In(y.queue, d)
    BY <2>5, <2>6, <2>8 DEF Core
  <2>14. Core(y) BY <2>5, <2>8, <2>11, <2>12, <2>13 DEF Core, ReservesKept
  <2> QED BY <1>2, <2>5, <2>8, <2>9, <2>14 DEF y
<1> QED BY <1>1, <1>2

\* The loop is well defined: there is a state of the executor after every round.
Round(x, f, n) == f = [k \in 0 .. n |-> IF k = 0 THEN x ELSE StartNext(f[k - 1])]

LEMMA RoundsExist ==
  ASSUME NEW x, NEW n \in Nat
  PROVE  \E f : Round(x, f, n)
<1>. DEFINE T == {m \in Nat : ~ \E f : Round(x, f, m)}
<1>1. CASE T = {} BY <1>1
<1>2. CASE T # {}
  <2>1. PICK m \in T : \A k \in T : m <= k BY <1>2, Least
  <2>2. CASE m = 0
    <3>1. Round(x, [k \in 0 .. 0 |-> x], 0) BY DEF Round
    <3> QED BY <2>1, <2>2, <3>1
  <2>3. CASE m # 0
    <3>1. m \in Nat /\ m - 1 \in Nat /\ m - 1 \notin T BY <2>1, <2>3
    <3>2. PICK f : Round(x, f, m - 1) BY <3>1
    <3>. DEFINE g == [k \in 0 .. m |-> IF k = m THEN StartNext(f[m - 1]) ELSE f[k]]
    <3>3. \A k \in 0 .. m - 1 : f[k] = IF k = 0 THEN x ELSE StartNext(f[k - 1])
      BY <3>1, <3>2 DEF Round
    <3>4. \A k \in 0 .. m : g[k] = IF k = 0 THEN x ELSE StartNext(g[k - 1])
      <4>1. ASSUME NEW k \in 0 .. m - 1
            PROVE  g[k] = IF k = 0 THEN x ELSE StartNext(g[k - 1])
        <5>1. k \in 0 .. m /\ k # m /\ (k # 0 => k - 1 \in 0 .. m /\ k - 1 # m)
          BY <3>1
        <5>2. g[k] = f[k] /\ (k # 0 => g[k - 1] = f[k - 1]) BY <5>1
        <5> QED BY <3>3, <4>1, <5>2
      <4>2. g[m] = StartNext(f[m - 1]) /\ g[m - 1] = f[m - 1] BY <3>1
      <4>3. \A k \in 0 .. m : k = m \/ k \in 0 .. m - 1 BY <3>1
      <4>. HIDE DEF g
      <4> QED BY <2>3, <4>1, <4>2, <4>3
    <3>5. g = [k \in 0 .. m |-> g[k]] OBVIOUS
    <3>. HIDE DEF g
    <3>6. Round(x, g, m) BY <3>4, <3>5 DEF Round
    <3> QED BY <2>1, <3>6
  <2> QED BY <2>2, <2>3
<1> QED BY <1>1, <1>2

\* The queue is worked off as far as the lanes allow.
LEMMA DrainKeeps ==
  ASSUME NEW x, Core(x)
  PROVE  ExecOK(Drain(x)) /\ \A c \in Issuers : Moved(x, Drain(x), c)
<1>. DEFINE N == Len(x.queue)
            f == CHOOSE g : Round(x, g, N)
<1>1. N \in Nat BY DEF Core, ExecType
<1>2. Round(x, f, N)
  <2>1. \E g : Round(x, g, N) BY <1>1, RoundsExist
  <2> QED BY <2>1
<1>3. Drain(x) = f[N] BY DEF Drain, Round
<1>. HIDE DEF f
<1>4. \A k \in 0 .. N : f[k] = IF k = 0 THEN x ELSE StartNext(f[k - 1])
  BY <1>2 DEF Round
<1>. DEFINE good(k) == /\ Core(f[k])
                       /\ \A c \in Issuers : Moved(x, f[k], c)
                       /\ Eligible(f[k]) = {} \/ Len(f[k].queue) = N - k
            T == {k \in 0 .. N : ~good(k)}
<1>5. T = {}
  <2>1. SUFFICES ASSUME T # {} PROVE FALSE OBVIOUS
  <2>2. PICK m \in T : \A k \in T : m <= k
    <3>1. T \subseteq Nat BY <1>1
    <3> QED BY ONLY <2>1, <3>1, Least
  <2>3. CASE m = 0
    <3>1. f[0] = x BY <1>1, <1>4
    <3>2. Len(f[0].queue) = N - 0 BY <1>1, <3>1
    <3>3. \A c \in Issuers : Moved(x, f[0], c) BY <3>1 DEF Moved
    <3>4. good(0) BY <3>1, <3>2, <3>3
    <3> QED BY <2>2, <2>3, <3>4
  <2>4. CASE m # 0
    <3>1. m \in 0 .. N /\ m - 1 \in 0 .. N BY <1>1, <2>2, <2>4
    <3>2. good(m - 1)
      <4>1. ~(m <= m - 1) BY <1>1, <3>1
      <4>2. m - 1 \notin T BY <2>2, <4>1
      <4>. HIDE DEF good
      <4> QED BY <3>1, <4>2
    <3>. DEFINE y == f[m - 1]
    <3>3. f[m] = StartNext(y) BY <1>4, <2>4, <3>1
    <3>4. /\ Core(y) /\ \A c \in Issuers : Moved(x, y, c)
          /\ Eligible(y) = {} \/ Len(y.queue) = N - (m - 1)
      BY <3>2
    <3>. HIDE DEF y
    <3>5. /\ Core(StartNext(y))
          /\ \A c \in Issuers : Moved(y, StartNext(y), c)
          /\ Eligible(y) = {} => StartNext(y) = y
          /\ Eligible(y) # {} => Len(StartNext(y).queue) = Len(y.queue) - 1
      BY <3>4, StartNextKeeps
    <3>6. \A c \in Issuers : Moved(x, StartNext(y), c) BY <3>4, <3>5 DEF Moved
    <3>7. Eligible(StartNext(y)) = {} \/ Len(StartNext(y).queue) = N - m
      <4>1. CASE Eligible(y) = {} BY <3>5, <4>1
      <4>2. CASE Eligible(y) # {}
        <5>1. Len(StartNext(y).queue) = (N - (m - 1)) - 1 BY <3>4, <3>5, <4>2
        <5> QED BY <1>1, <3>1, <5>1
      <4> QED BY <4>1, <4>2
    <3>8. good(m) BY <3>3, <3>5, <3>6, <3>7
    <3> QED BY <2>2, <3>8
  <2> QED BY <2>3, <2>4
<1>6. good(N)
  <2>1. N \in 0 .. N BY <1>1
  <2>. HIDE DEF good
  <2> QED BY <1>5, <2>1
<1>7. WorkConserving(f[N])
  <2>1. CASE Eligible(f[N]) = {} BY <2>1 DEF Eligible, WorkConserving
  <2>2. CASE Len(f[N].queue) = N - N
    <3>1. f[N].queue \in Seq(Issuers) /\ Len(f[N].queue) = 0
      BY <1>1, <1>6, <2>2 DEF Core, ExecType
    <3>2. DOMAIN f[N].queue = {} BY <3>1
    <3> QED BY <3>2 DEF WorkConserving
  <2> QED BY <1>6, <2>1, <2>2
<1> QED BY <1>3, <1>6, <1>7 DEF ExecOK

\* A command that is given is started, waits, or is refused at once.
LEMMA SubmitKeeps ==
  ASSUME NEW x, ExecOK(x), NEW c \in Issuers, x.job[c].state = "idle"
  PROVE  /\ ExecOK(Submit(x, c))
         /\ \A d \in Issuers : d # c => Submit(x, c).job[d] = x.job[d]
         /\ \/ Submit(x, c).job[c].state \in {"active", "queued"}
            \/ Submit(x, c).job[c].state = "settled" /\ Submit(x, c).job[c].result = "failed"
<1>. DEFINE y == Submit(x, c)
<1>0. /\ x \in ExecType /\ c \notin Active(x) /\ ~In(x.queue, c) /\ Distinct(x.queue)
      /\ x.job[c].state = "idle"
      /\ x.queue \in Seq(Issuers)
  BY DEF ExecOK, Core, Active, ExecType
<1>1. CASE CanStartLane(x, LaneOf[c])
  <2>1. y = Start(x, c) BY <1>1 DEF Submit
  <2>2. /\ y \in ExecType /\ y.queue = x.queue
        /\ \A d \in Issuers : d # c => y.job[d] = x.job[d]
        /\ y.job[c].state = "active"
    <3>1. x \in ExecType BY <1>0
    <3>2. Start(x, c) \in ExecType BY <3>1 DEF Start, ExecType, JobRecord
    <3>3. /\ Start(x, c).queue = x.queue
          /\ \A d \in Issuers : d # c => Start(x, c).job[d] = x.job[d]
          /\ Start(x, c).job[c].state = "active"
      BY <3>1 DEF Start, ExecType, JobRecord
    <3> QED BY <2>1, <3>2, <3>3
  <2>. HIDE DEF y
  <2>3. Active(y) = Active(x) \cup {c} BY <2>2 DEF Active
  <2>4. /\ IsFiniteSet(Active(y)) /\ Cardinality(Active(y)) <= MaxActive
        /\ Cardinality(InLane(Active(y), "background")) <= MaxActive - ActiveReserve
    BY <1>0, <1>1, <2>3, OneMoreActive DEF ExecOK, Core, ReservesKept
  <2>5. OthersQueued(y) = OthersQueued(x) BY <2>2 DEF OthersQueued
  <2>6. \A d \in Issuers : y.job[d].state = "queued" <=> In(y.queue, d)
    BY <1>0, <2>2 DEF ExecOK, Core
  <2>7. WorkConserving(y)
    <3>1. ASSUME NEW lane, ~CanStartLane(x, lane) PROVE ~CanStartLane(y, lane)
      BY <1>0, <2>3, <3>1, StillBlocked DEF ExecOK, Core
    <3> QED BY <2>2, <3>1 DEF ExecOK, WorkConserving
  <2>8. ExecOK(y)
    BY <1>0, <2>2, <2>4, <2>5, <2>6, <2>7 DEF ExecOK, Core, ReservesKept
  <2> QED BY <2>2, <2>8 DEF y
<1>2. CASE ~CanStartLane(x, LaneOf[c]) /\ QueueHasCapacity(x, LaneOf[c])
  <2>1. y = [x EXCEPT !.job[c].state = "queued", !.queue = Append(@, c)]
    BY <1>2 DEF Submit
  <2>2. /\ Append(x.queue, c) \in Seq(Issuers)
        /\ Len(Append(x.queue, c)) = Len(x.queue) + 1
        /\ \A i \in 1 .. Len(x.queue) : Append(x.queue, c)[i] = x.queue[i]
        /\ Append(x.queue, c)[Len(x.queue) + 1] = c
    BY <1>0, AppendProperties
  <2>3. /\ y.queue = Append(x.queue, c)
        /\ \A d \in Issuers : d # c => y.job[d] = x.job[d]
        /\ y.job[c].state = "queued"
    BY <1>0, <2>1 DEF ExecType, JobRecord
  <2>4. y \in ExecType
    <3>. DEFINE z == [x EXCEPT !.job[c].state = "queued"]
    <3>1. z \in ExecType BY <1>0 DEF ExecType, JobRecord
    <3>2. y = [z EXCEPT !.queue = Append(x.queue, c)] BY <1>0, <2>1 DEF ExecType
    <3>. HIDE DEF y, z
    <3> QED BY <2>2, <3>1, <3>2 DEF ExecType
  <2>. HIDE DEF y
  <2>5. DOMAIN x.queue = 1 .. Len(x.queue) /\ DOMAIN y.queue = 1 .. Len(x.queue) + 1
        /\ Len(x.queue) \in Nat
    BY <1>0, <2>2, <2>3
  <2>6. Distinct(y.queue) BY <1>0, <2>2, <2>3, <2>5 DEF Distinct, In
  <2>7. \A d : In(y.queue, d) <=> In(x.queue, d) \/ d = c
    <3>1. \A d : In(x.queue, d) => In(y.queue, d) BY <2>2, <2>3, <2>5 DEF In
    <3>2. In(y.queue, c)
      <4>1. Len(x.queue) + 1 \in DOMAIN y.queue BY <2>5
      <4> QED BY <2>2, <2>3, <4>1 DEF In
    <3>3. ASSUME NEW d, NEW i \in DOMAIN y.queue, y.queue[i] = d PROVE In(x.queue, d) \/ d = c
      <4>1. i = Len(x.queue) + 1 \/ i \in DOMAIN x.queue BY <2>5
      <4> QED BY <2>2, <2>3, <2>5, <3>3, <4>1 DEF In
    <3> QED BY <3>1, <3>2, <3>3 DEF In
  <2>8. Active(y) = Active(x) BY <1>0, <2>3 DEF Active
  <2>9. \A d \in Issuers : y.job[d].state = "queued" <=> In(y.queue, d)
    BY <2>3, <2>7 DEF ExecOK, Core
  <2>10. /\ IsFiniteSet(OthersQueued(y))
         /\ Cardinality(OthersQueued(y)) <= MaxQueued - QueueReserve
    <3>1. /\ IsFiniteSet(OthersQueued(x)) /\ Cardinality(OthersQueued(x)) \in Nat
          /\ Cardinality(OthersQueued(x)) <= MaxQueued - QueueReserve
      BY FS_CardinalityType DEF ExecOK, Core, ReservesKept
    <3>2. CASE LaneOf[c] = "interactive"
      <4>1. OthersQueued(y) = OthersQueued(x) BY <2>7, <3>2 DEF OthersQueued, In
      <4> QED BY <3>1, <4>1
    <3>3. CASE LaneOf[c] # "interactive"
      <4>1. OthersQueued(y) = OthersQueued(x) \cup {c} BY <2>7, <3>3 DEF OthersQueued, In
      <4>2. /\ IsFiniteSet(OthersQueued(y))
            /\ Cardinality(OthersQueued(y)) = IF c \in OthersQueued(x)
                 THEN Cardinality(OthersQueued(x)) ELSE Cardinality(OthersQueued(x)) + 1
        BY <3>1, <4>1, FS_AddElement
      <4>3. Cardinality(OthersQueued(x)) < MaxQueued - QueueReserve
        BY <1>2, <3>3 DEF QueueHasCapacity
      <4> QED BY <3>1, <4>2, <4>3, Numbers
    <3> QED BY <3>2, <3>3
  <2>11. \A lane : CanStartLane(y, lane) <=> CanStartLane(x, lane)
    BY <2>8 DEF CanStartLane
  <2>12. WorkConserving(y)
    <3>. SUFFICES ASSUME NEW i \in DOMAIN y.queue PROVE ~CanStartLane(x, LaneOf[y.queue[i]])
      BY <2>11 DEF WorkConserving
    <3>1. i = Len(x.queue) + 1 \/ i \in DOMAIN x.queue BY <2>5
    <3> QED BY <1>2, <2>2, <2>3, <2>5, <3>1 DEF ExecOK, WorkConserving
  <2>13. ExecOK(y)
    BY <2>4, <2>6, <2>8, <2>9, <2>10, <2>12 DEF ExecOK, Core, ReservesKept
  <2> QED BY <2>3, <2>13 DEF y
<1>3. CASE ~CanStartLane(x, LaneOf[c]) /\ ~QueueHasCapacity(x, LaneOf[c])
  <2>. DEFINE j == [x.job[c] EXCEPT !.state = "settled", !.result = "failed"]
  <2>0. j \in JobRecord /\ j.state = "settled" /\ j.result = "failed"
    BY <1>0 DEF ExecType, JobRecord, Results
  <2>1. y = [x EXCEPT !.job[c] = j] BY <1>3 DEF Submit
  <2>. HIDE DEF j
  <2>2. /\ y \in ExecType /\ y.queue = x.queue
        /\ \A d \in Issuers : d # c => y.job[d] = x.job[d]
        /\ y.job[c].state = "settled" /\ y.job[c].result = "failed"
    BY <1>0, <2>0, <2>1 DEF ExecType
  <2>. HIDE DEF y
  <2>3. Active(y) = Active(x) BY <1>0, <2>2 DEF Active
  <2>4. OthersQueued(y) = OthersQueued(x) BY <2>2 DEF OthersQueued
  <2>5. \A d \in Issuers : y.job[d].state = "queued" <=> In(y.queue, d)
    BY <1>0, <2>2 DEF ExecOK, Core
  <2>6. WorkConserving(y) BY <2>2, <2>3 DEF ExecOK, WorkConserving, CanStartLane
  <2>7. ExecOK(y)
    BY <1>0, <2>2, <2>3, <2>4, <2>5, <2>6 DEF ExecOK, Core, ReservesKept
  <2> QED BY <2>2, <2>7 DEF y
<1> QED BY <1>1, <1>2, <1>3

\* The queue without a command that waits or does not.
LEMMA DequeuedKeeps ==
  ASSUME NEW q \in Seq(Issuers), Distinct(q), NEW c \in Issuers
  PROVE  /\ Dequeued(q, c) \in Seq(Issuers)
         /\ Distinct(Dequeued(q, c))
         /\ \A d : In(Dequeued(q, c), d) <=> In(q, d) /\ d # c
<1>1. CASE In(q, c)
  <2>. DEFINE i == CHOOSE k \in DOMAIN q : q[k] = c
  <2>1. i \in DOMAIN q /\ q[i] = c BY <1>1 DEF In
  <2>2. Dequeued(q, c) = RemoveAt(q, i) BY <1>1 DEF Dequeued, In
  <2>. HIDE DEF i
  <2> QED BY <2>1, <2>2, Removal, RemovalOfOne
<1>2. CASE ~In(q, c)
  <2>1. Dequeued(q, c) = q BY <1>2 DEF Dequeued, In
  <2> QED BY <1>2, <2>1
<1> QED BY <1>1, <1>2

\* The end of a command lets others start, and is itself final.
LEMMA SettleKeeps ==
  ASSUME NEW x, ExecOK(x), NEW c \in Issuers, NEW result \in Results
  PROVE  /\ ExecOK(Settle(x, c, result))
         /\ Settle(x, c, result).job[c].state = "settled"
         /\ Settle(x, c, result).job[c].result = result
         /\ \A d \in Issuers : d # c => Moved(x, Settle(x, c, result), d)
<1>. DEFINE j == [NoCommand EXCEPT !.state = "settled", !.result = result]
            z == [x EXCEPT !.job[c] = j, !.queue = Dequeued(@, c)]
<1>1. j \in JobRecord /\ j.state = "settled" /\ j.result = result /\ ~j.killed
  BY DEF JobRecord, NoCommand
<1>2. /\ x \in ExecType /\ Core(x) /\ x.queue \in Seq(Issuers) /\ Distinct(x.queue)
  BY DEF ExecOK, Core, ExecType
<1>3. /\ Dequeued(x.queue, c) \in Seq(Issuers)
      /\ Distinct(Dequeued(x.queue, c))
      /\ \A d : In(Dequeued(x.queue, c), d) <=> In(x.queue, d) /\ d # c
  BY <1>2, DequeuedKeeps
<1>4. Settle(x, c, result) = Drain(z) BY DEF Settle
<1>. HIDE DEF j
<1>5. /\ z \in ExecType /\ z.queue = Dequeued(x.queue, c) /\ z.job[c] = j
      /\ \A d \in Issuers : d # c => z.job[d] = x.job[d]
  BY <1>1, <1>2, <1>3 DEF ExecType
<1>. HIDE DEF z
<1>6. Active(z) = Active(x) \ {c} BY <1>1, <1>5 DEF Active
<1>7. OthersQueued(z) \in SUBSET OthersQueued(x) BY <1>3, <1>5 DEF OthersQueued, In
<1>8. /\ IsFiniteSet(Active(z)) /\ Cardinality(Active(z)) <= MaxActive
      /\ Cardinality(InLane(Active(z), "background")) <= MaxActive - ActiveReserve
  <2>1. Active(z) \in SUBSET Active(x)
        /\ InLane(Active(z), "background") \in SUBSET InLane(Active(x), "background")
    BY <1>6 DEF InLane
  <2>2. /\ IsFiniteSet(Active(x)) /\ IsFiniteSet(InLane(Active(x), "background"))
        /\ Cardinality(Active(x)) <= MaxActive
        /\ Cardinality(InLane(Active(x), "background")) <= MaxActive - ActiveReserve
    BY <1>2, LanesAreDisjoint DEF Core, ReservesKept
  <2>3. /\ IsFiniteSet(Active(z)) /\ Cardinality(Active(z)) <= Cardinality(Active(x))
        /\ IsFiniteSet(InLane(Active(z), "background"))
        /\ Cardinality(InLane(Active(z), "background"))
             <= Cardinality(InLane(Active(x), "background"))
    BY <2>1, <2>2, FS_Subset
  <2>4. /\ Cardinality(Active(x)) \in Nat /\ Cardinality(Active(z)) \in Nat
        /\ Cardinality(InLane(Active(x), "background")) \in Nat
        /\ Cardinality(InLane(Active(z), "background")) \in Nat
    BY <2>2, <2>3, FS_CardinalityType
  <2> QED BY <2>2, <2>3, <2>4, Numbers
<1>9. /\ IsFiniteSet(OthersQueued(z))
      /\ Cardinality(OthersQueued(z)) <= MaxQueued - QueueReserve
  <2>1. /\ IsFiniteSet(OthersQueued(x))
        /\ Cardinality(OthersQueued(x)) <= MaxQueued - QueueReserve
    BY <1>2 DEF Core, ReservesKept
  <2>2. /\ IsFiniteSet(OthersQueued(z))
        /\ Cardinality(OthersQueued(z)) <= Cardinality(OthersQueued(x))
    BY <1>7, <2>1, FS_Subset
  <2>3. Cardinality(OthersQueued(x)) \in Nat /\ Cardinality(OthersQueued(z)) \in Nat
    BY <2>1, <2>2, FS_CardinalityType
  <2> QED BY <2>1, <2>2, <2>3, Numbers
<1>10. \A d \in Issuers : z.job[d].state = "queued" <=> In(z.queue, d)
  BY <1>1, <1>2, <1>3, <1>5 DEF Core
<1>11. Core(z) BY <1>3, <1>5, <1>8, <1>9, <1>10 DEF Core, ReservesKept
<1>12. ExecOK(Drain(z)) /\ \A d \in Issuers : Moved(z, Drain(z), d)
  BY <1>11, DrainKeeps
<1>13. Drain(z).job[c] = j BY <1>1, <1>5, <1>12 DEF Moved
<1>14. \A d \in Issuers : d # c => Moved(x, Drain(z), d) BY <1>5, <1>12 DEF Moved
<1> QED BY <1>1, <1>4, <1>12, <1>13, <1>14

\* A change of a command that leaves it where it is.
LEMMA ChangeKeeps ==
  ASSUME NEW x, ExecOK(x), NEW c \in Issuers, NEW j \in JobRecord,
         \/ j.state \in {"idle", "settled"} /\ x.job[c].state \in {"idle", "settled"}
         \/ j.state = x.job[c].state
  PROVE  /\ ExecOK([x EXCEPT !.job[c] = j])
         /\ [x EXCEPT !.job[c] = j].job[c] = j
         /\ \A d \in Issuers : d # c => [x EXCEPT !.job[c] = j].job[d] = x.job[d]
<1>. DEFINE y == [x EXCEPT !.job[c] = j]
<1>1. /\ y \in ExecType /\ y.queue = x.queue /\ y.job[c] = j
      /\ \A d \in Issuers : d # c => y.job[d] = x.job[d]
  BY DEF ExecOK, Core, ExecType
<1>. HIDE DEF y
<1>2. Active(y) = Active(x) BY <1>1 DEF Active
<1>3. OthersQueued(y) = OthersQueued(x) BY <1>1 DEF OthersQueued
<1>4. \A d \in Issuers : y.job[d].state = "queued" <=> In(y.queue, d)
  BY <1>1 DEF ExecOK, Core
<1>5. WorkConserving(y) BY <1>1, <1>2 DEF ExecOK, WorkConserving, CanStartLane
<1>6. ExecOK(y) BY <1>1, <1>2, <1>3, <1>4, <1>5 DEF ExecOK, Core, ReservesKept
<1> QED BY <1>1, <1>6 DEF y

LEMMA CollectedKeeps ==
  ASSUME NEW x, ExecOK(x), NEW c \in Issuers, x.job[c].state \in {"idle", "settled"}
  PROVE  /\ ExecOK(Collected(x, c))
         /\ Collected(x, c).job[c] = NoCommand
         /\ \A d \in Issuers : d # c => Collected(x, c).job[d] = x.job[d]
<1>1. NoCommand \in JobRecord /\ NoCommand.state = "idle"
  BY DEF NoCommand, JobRecord, Results
<1>2. Collected(x, c) = [x EXCEPT !.job[c] = NoCommand] BY DEF Collected
<1> QED BY <1>1, <1>2, ChangeKeeps

\* What is killed is settled at once or still to end.
LEMMA KillKeeps ==
  ASSUME NEW x, ExecOK(x), NEW c \in Issuers
  PROVE  /\ ExecOK(Kill(x, c))
         /\ \A d \in Issuers : d # c => Moved(x, Kill(x, c), d)
         /\ x.job[c].state = "queued" =>
              /\ Kill(x, c).job[c].state = "settled"
              /\ Kill(x, c).job[c].result = "failed"
         /\ x.job[c].state = "active" =>
              /\ Kill(x, c).job[c].state = "active"
              /\ Kill(x, c).job[c].result = x.job[c].result
         /\ x.job[c].state \in {"idle", "settled"} => Kill(x, c) = x
<1>1. x.job[c].state \in {"idle", "queued", "active", "settled"} /\ x.job[c] \in JobRecord
  BY DEF ExecOK, Core, ExecType, JobRecord
<1>2. CASE x.job[c].state = "queued"
  <2>1. Kill(x, c) = Settle(x, c, "failed") BY <1>2 DEF Kill
  <2>2. "failed" \in Results BY DEF Results
  <2> QED BY <1>2, <2>1, <2>2, SettleKeeps
<1>3. CASE x.job[c].state = "active"
  <2>. DEFINE j == [x.job[c] EXCEPT !.killed = TRUE]
  <2>1. j \in JobRecord /\ j.state = x.job[c].state /\ j.result = x.job[c].result
    BY <1>1 DEF JobRecord
  <2>2. Kill(x, c) = [x EXCEPT !.job[c] = j] BY <1>3 DEF Kill
  <2>. HIDE DEF j
  <2>3. /\ ExecOK([x EXCEPT !.job[c] = j]) /\ [x EXCEPT !.job[c] = j].job[c] = j
        /\ \A d \in Issuers : d # c => [x EXCEPT !.job[c] = j].job[d] = x.job[d]
    BY <2>1, ChangeKeeps
  <2> QED BY <1>3, <2>1, <2>2, <2>3 DEF Moved
<1>4. CASE x.job[c].state \in {"idle", "settled"}
  BY <1>4 DEF Kill, Moved
<1> QED BY <1>1, <1>2, <1>3, <1>4

LEMMA NewExecutorIsOK ==
  ExecOK(NewExecutor) /\ \A c \in Issuers : NewExecutor.job[c] = NoCommand
<1>. DEFINE x == NewExecutor
<1>1. /\ x \in ExecType /\ x.queue = <<>>
      /\ \A c \in Issuers : x.job[c] = NoCommand /\ x.job[c].state = "idle"
  BY DEF NewExecutor, NoCommand, ExecType, JobRecord, Results
<1>. HIDE DEF x
<1>2. Active(x) = {} /\ InLane(Active(x), "background") = {} BY <1>1 DEF Active, InLane
<1>3. OthersQueued(x) = {} BY <1>1 DEF OthersQueued
<1>4. WorkConserving(x) /\ Distinct(x.queue) BY <1>1 DEF WorkConserving, Distinct
<1>5. IsFiniteSet({}) /\ Cardinality({}) = 0 BY FS_EmptySet
<1>6. \A c \in Issuers : x.job[c].state = "queued" <=> In(x.queue, c) BY <1>1 DEF In
<1>7. 0 <= MaxActive /\ 0 <= MaxActive - ActiveReserve /\ 0 <= MaxQueued - QueueReserve
  BY Numbers
<1>8. ExecOK(x)
  BY <1>1, <1>2, <1>3, <1>4, <1>5, <1>6, <1>7 DEF ExecOK, Core, ReservesKept
<1> QED BY <1>1, <1>8 DEF x

-----------------------------------------------------------------------------
(* The launch.                                                             *)

M == exec.job["main"]
J == exec.job["jars"]

LaunchRecord ==
  [video : BOOLEAN, aborted : BOOLEAN, jarStarted : BOOLEAN, forwarding : BOOLEAN,
   port : Nat, attempts : Nat, proc : {"none", "running", "exited"},
   sockets : SUBSET {"connectVideo", "connectControl"}, errors : BOOLEAN,
   fw : {"none", "list", "all", "known", "done"}, jars : {"none", "rm", "again", "done"}]
StreamRecord ==
  [read : Nat, gate : SUBSET PacketKinds, buffered : Seq(Nat), delivered : Nat, gap : BOOLEAN]

\* Every variable holds a value the program can produce.
LTypeOK ==
  /\ step \in Starting \cup Closing \cup {"packets", "open", "closed"}
  /\ launch \in LaunchRecord
  /\ device \in BOOLEAN
  /\ files \subseteq {"temporary", "working"}
  /\ cache \in {"none", "whole"}
  /\ forwards \subseteq Nat
  /\ stream \in StreamRecord

\* The launch has a command with the executor exactly while it waits for one.
CommandsFit ==
  /\ step \in StartUp => M.state # "idle"
  /\ step \notin StartUp \cup {"cleanup"} => M = NoCommand
  /\ step # "cleanup" => J = NoCommand
  /\ step = "cleanup" =>
       /\ \/ launch.fw = "done" /\ M = NoCommand
          \/ launch.fw \in {"list", "all", "known"} /\ M.state # "idle"
       /\ \/ launch.jars = "done" /\ J = NoCommand
          \/ launch.jars \in {"rm", "again"} /\ J.state # "idle"
  /\ step = "closed" => launch.fw = "done" /\ launch.jars = "done"

\* What a settled command may have answered.
AnswersFit ==
  /\ M.state = "settled" => /\ M.result \in {"ok", "failed", "unavailable"}
                            /\ M.result = "unavailable" => ~device
  /\ J.state = "settled" => /\ J.result \in {"ok", "failed", "closed", "unavailable"}
                            /\ J.result = "unavailable" => ~device
                            /\ J.result = "closed" => launch.jars = "rm"

\* Nothing is left on the device that the launch did not announce.
ForwardsAnnounced ==
  /\ forwards # {} => launch.forwarding
  /\ files # {} => launch.jarStarted
  /\ step \in StartUp => launch.jarStarted
  /\ step \in {"forward", "list", "fixed"} => launch.forwarding

\* How far the clean-up is.
CleanedUp ==
  step \in {"cleanup", "closed"} /\ ~launch.errors =>
    /\ launch.proc # "running"
    /\ device =>
         /\ launch.fw \in {"known", "done"} => forwards = {}
         /\ launch.fw = "all" /\ M.state = "settled" /\ M.result = "ok" => forwards = {}
         /\ launch.jars = "done" => files = {}
         /\ J.state = "settled" /\ J.result = "ok" => files = {}

SocketsGone == step \in Closing \cup {"closed"} => launch.sockets = {}

\* The buffer holds what was read and not delivered, in order.
StreamFlows ==
  /\ ~stream.gap
  /\ Len(stream.buffered) + stream.delivered = stream.read
  /\ \A i \in 1 .. Len(stream.buffered) : stream.buffered[i] = stream.delivered + i

LInv ==
  /\ ExecOK(exec)
  /\ LTypeOK /\ CommandsFit /\ AnswersFit /\ ForwardsAnnounced /\ CleanedUp /\ SocketsGone
  /\ StreamFlows

-----------------------------------------------------------------------------
(* Steps that leave the launch where it is.                                *)

LEMMA Names ==
  /\ "main" \in Issuers /\ "jars" \in Issuers
  /\ \A c \in Others : c \in Issuers /\ c # "main" /\ c # "jars"
BY LaunchAssumption

\* Command c is there as before, or still has not ended, or has failed.
Kept(x, y, c) ==
  /\ x.job[c] = NoCommand => y.job[c] = NoCommand
  /\ x.job[c].state # "idle" => y.job[c].state # "idle"
  /\ y.job[c].state = "settled" =>
       \/ y.job[c].result = "failed"
       \/ x.job[c].state = "settled" /\ y.job[c].result = x.job[c].result

LEMMA MovedIsKept ==
  ASSUME NEW x, NEW y, NEW c, Moved(x, y, c)
  PROVE  Kept(x, y, c)
BY DEF Moved, Kept, NoCommand

LEMMA QuietKeeps ==
  ASSUME LInv, ExecOK(exec'), Kept(exec, exec', "main"), Kept(exec, exec', "jars"),
         UNCHANGED <<step, device, files, cache, forwards, stream>>,
         launch' \in LaunchRecord,
         launch'.jarStarted = launch.jarStarted, launch'.forwarding = launch.forwarding,
         launch'.errors = launch.errors, launch'.sockets = launch.sockets,
         launch'.fw = launch.fw, launch'.jars = launch.jars,
         launch'.proc = launch.proc \/ launch'.proc = "exited"
  PROVE  LInv'
<1>1. LTypeOK' BY DEF LInv, LTypeOK
<1>2. CommandsFit' BY DEF LInv, CommandsFit, Kept, M, J
<1>3. AnswersFit' BY DEF LInv, AnswersFit, Kept, M, J
<1>4. ForwardsAnnounced' BY DEF LInv, ForwardsAnnounced
<1>5. CleanedUp' BY DEF LInv, CleanedUp, Kept, M, J
<1>6. SocketsGone' BY DEF LInv, SocketsGone
<1>7. StreamFlows' BY DEF LInv, StreamFlows
<1> QED BY <1>1, <1>2, <1>3, <1>4, <1>5, <1>6, <1>7 DEF LInv

LEMMA OthersKeep ==
  ASSUME LInv, NEW c \in Others, OtherSubmits(c) \/ OtherEnds(c) \/ OtherAborted(c)
  PROVE  LInv'
<1>1. /\ UNCHANGED <<step, launch, remote, stream>>
      /\ ExecOK(exec) /\ launch \in LaunchRecord
  BY DEF OtherSubmits, OtherEnds, OtherAborted, LInv, LTypeOK
<1>2. c \in Issuers /\ "main" \in Issuers /\ "jars" \in Issuers /\ c # "main" /\ c # "jars"
  BY Names
<1>3. /\ ExecOK(exec')
      /\ \A d \in Issuers : d # c => Moved(exec, exec', d)
  <2>1. CASE OtherSubmits(c)
    <3>. DEFINE x == Submit(exec, c)
    <3>1. exec.job[c].state = "idle" BY <2>1 DEF OtherSubmits
    <3>2. /\ ExecOK(x)
          /\ \A d \in Issuers : d # c => x.job[d] = exec.job[d]
      BY <1>1, <1>2, <3>1, SubmitKeeps
    <3>3. exec' = IF x.job[c].state = "settled" THEN Collected(x, c) ELSE x
      BY <2>1 DEF OtherSubmits
    <3>. HIDE DEF x
    <3>4. CASE x.job[c].state = "settled"
      <4>1. /\ ExecOK(Collected(x, c))
            /\ \A d \in Issuers : d # c => Collected(x, c).job[d] = x.job[d]
        BY <1>2, <3>2, <3>4, CollectedKeeps
      <4> QED BY <3>2, <3>3, <3>4, <4>1 DEF Moved
    <3>5. CASE x.job[c].state # "settled" BY <3>2, <3>3, <3>5 DEF Moved
    <3> QED BY <3>4, <3>5
  <2>2. CASE OtherEnds(c)
    <3>1. exec' = Collected(Settle(exec, c, "ok"), c) BY <2>2 DEF OtherEnds
    <3>2. "ok" \in Results BY DEF Results
    <3>3. /\ ExecOK(Settle(exec, c, "ok"))
          /\ Settle(exec, c, "ok").job[c].state = "settled"
          /\ \A d \in Issuers : d # c => Moved(exec, Settle(exec, c, "ok"), d)
      BY <1>1, <1>2, <3>2, SettleKeeps
    <3>. DEFINE x == Settle(exec, c, "ok")
    <3>. HIDE DEF x
    <3>4. /\ ExecOK(Collected(x, c))
          /\ \A d \in Issuers : d # c => Collected(x, c).job[d] = x.job[d]
      BY <1>2, <3>3, CollectedKeeps DEF x
    <3> QED BY <3>1, <3>3, <3>4 DEF Moved, x
  <2>3. CASE OtherAborted(c)
    <3>. DEFINE x == Kill(exec, c)
    <3>1. exec.job[c].state = "queued" /\ exec' = Collected(x, c) BY <2>3 DEF OtherAborted
    <3>2. /\ ExecOK(x) /\ x.job[c].state = "settled"
          /\ \A d \in Issuers : d # c => Moved(exec, x, d)
      BY <1>1, <1>2, <3>1, KillKeeps
    <3>. HIDE DEF x
    <3>3. /\ ExecOK(Collected(x, c))
          /\ \A d \in Issuers : d # c => Collected(x, c).job[d] = x.job[d]
      BY <1>2, <3>2, CollectedKeeps
    <3> QED BY <3>1, <3>2, <3>3 DEF Moved
  <2> QED BY <2>1, <2>2, <2>3
<1>4. Kept(exec, exec', "main") /\ Kept(exec, exec', "jars") BY <1>2, <1>3, MovedIsKept
<1> QED BY <1>1, <1>3, <1>4, QuietKeeps DEF remote

-----------------------------------------------------------------------------
(* closeWithReason.                                                        *)

LEMMA NoCommandIsIdle == NoCommand.state = "idle" /\ NoCommand.state # "settled"
BY DEF NoCommand

LEMMA CleanUpKeeps ==
  ASSUME LInv, NEW x, ExecOK(x), x.job["main"] = NoCommand, x.job["jars"] = NoCommand,
         NEW l \in LaunchRecord, l.sockets = {},
         l.forwarding = launch.forwarding, l.jarStarted = launch.jarStarted,
         l.proc # "running" \/ l.errors,
         CleanUp(x, l), UNCHANGED remote, stream' \in StreamRecord, StreamFlows'
  PROVE  LInv'
<1>. USE NoCommandIsIdle
<1>. DEFINE w == IF l.forwarding THEN Submit(x, "main") ELSE x
            e == IF l.jarStarted THEN Submit(w, "jars") ELSE w
<1>0. "main" \in Issuers /\ "jars" \in Issuers /\ "jars" # "main" BY Names
<1>1. /\ ExecOK(w) /\ w.job["jars"] = NoCommand
      /\ IF l.forwarding
         THEN \/ w.job["main"].state \in {"active", "queued"}
              \/ w.job["main"].state = "settled" /\ w.job["main"].result = "failed"
         ELSE w.job["main"] = NoCommand
  <2>1. CASE l.forwarding
    <3>1. x.job["main"].state = "idle" OBVIOUS
    <3> QED BY <1>0, <2>1, <3>1, SubmitKeeps
  <2>2. CASE ~l.forwarding BY <2>2
  <2> QED BY <2>1, <2>2
<1>. HIDE DEF w
<1>2. /\ ExecOK(e) /\ e.job["main"] = w.job["main"]
      /\ IF l.jarStarted
         THEN \/ e.job["jars"].state \in {"active", "queued"}
              \/ e.job["jars"].state = "settled" /\ e.job["jars"].result = "failed"
         ELSE e.job["jars"] = NoCommand
  <2>1. CASE l.jarStarted
    <3>1. w.job["jars"].state = "idle" BY <1>1
    <3> QED BY <1>0, <1>1, <2>1, <3>1, SubmitKeeps
  <2>2. CASE ~l.jarStarted BY <1>1, <2>2
  <2> QED BY <2>1, <2>2
<1>3. /\ exec' = e
      /\ step' = IF l.forwarding \/ l.jarStarted THEN "cleanup" ELSE "closed"
      /\ launch' = [l EXCEPT !.fw = IF l.forwarding THEN "list" ELSE "done",
                             !.jars = IF l.jarStarted THEN "rm" ELSE "done"]
  BY DEF CleanUp, w
<1>. HIDE DEF e
<1>4. /\ launch' \in LaunchRecord
      /\ launch'.fw = IF l.forwarding THEN "list" ELSE "done"
      /\ launch'.jars = IF l.jarStarted THEN "rm" ELSE "done"
      /\ launch'.forwarding = l.forwarding /\ launch'.jarStarted = l.jarStarted
      /\ launch'.sockets = {} /\ launch'.proc = l.proc /\ launch'.errors = l.errors
      /\ l.forwarding \in BOOLEAN /\ l.jarStarted \in BOOLEAN
  BY <1>3 DEF LaunchRecord
<1>5. LTypeOK' BY <1>3, <1>4 DEF LInv, LTypeOK, remote, Closing
<1>6. CommandsFit' BY <1>1, <1>2, <1>3, <1>4 DEF CommandsFit, M, J, StartUp
<1>7. AnswersFit' BY <1>1, <1>2, <1>3, <1>4 DEF AnswersFit, M, J
<1>8. ForwardsAnnounced' BY <1>3, <1>4 DEF LInv, ForwardsAnnounced, remote, StartUp
<1>9. CleanedUp' BY <1>1, <1>2, <1>3, <1>4 DEF LInv, ForwardsAnnounced, CleanedUp, M, J, remote
<1>10. SocketsGone' BY <1>4 DEF SocketsGone
<1> QED BY <1>2, <1>3, <1>5, <1>6, <1>7, <1>8, <1>9, <1>10 DEF LInv

\* The stream is gone, and with it the buffer.
LEMMA NoStreamFlows ==
  ASSUME stream \in StreamRecord, StreamFlows, stream' = [NoStream EXCEPT !.gap = stream.gap]
  PROVE  stream' \in StreamRecord /\ StreamFlows'
<1>1. NoStream \in StreamRecord
  <2>1. <<>> \in Seq(Nat) /\ {} \in SUBSET PacketKinds OBVIOUS
  <2>. DEFINE b == <<>>  g == {}
  <2>2. NoStream = [read |-> 0, gate |-> g, buffered |-> b, delivered |-> 0, gap |-> FALSE]
    BY DEF NoStream
  <2>3. b \in Seq(Nat) /\ g \in SUBSET PacketKinds BY <2>1
  <2>. HIDE DEF b, g
  <2> QED BY <2>2, <2>3 DEF StreamRecord
<1>2. /\ NoStream.buffered = <<>> /\ NoStream.read = 0 /\ NoStream.delivered = 0
  BY DEF NoStream
<1>3. stream' \in StreamRecord BY <1>1 DEF StreamRecord
<1>4. /\ stream'.buffered = <<>> /\ stream'.read = 0
      /\ stream'.delivered = 0 /\ stream'.gap = stream.gap
  BY <1>1, <1>2 DEF StreamRecord
<1> QED BY <1>3, <1>4 DEF StreamFlows

LEMMA CloseKeeps ==
  ASSUME LInv, NEW x, ExecOK(x), x.job["main"] = NoCommand, x.job["jars"] = NoCommand,
         NEW l \in LaunchRecord,
         l.forwarding = launch.forwarding, l.jarStarted = launch.jarStarted,
         CloseWithReason(x, l), UNCHANGED remote
  PROVE  LInv'
<1>. USE NoCommandIsIdle
<1>. DEFINE dead == [l EXCEPT !.aborted = TRUE, !.sockets = {}]
<1>1. /\ dead \in LaunchRecord /\ dead.sockets = {} /\ dead.proc = l.proc
      /\ dead.forwarding = launch.forwarding /\ dead.jarStarted = launch.jarStarted
  BY DEF LaunchRecord
<1>2. /\ stream' = [NoStream EXCEPT !.gap = stream.gap]
      /\ \/ l.proc = "running" /\ step' = "exiting" /\ exec' = x /\ launch' = dead
         \/ l.proc # "running" /\ CleanUp(x, dead)
  BY DEF CloseWithReason
<1>. HIDE DEF dead
<1>3. stream' \in StreamRecord /\ StreamFlows'
  BY <1>2, NoStreamFlows DEF LInv, LTypeOK
<1>4. CASE l.proc # "running" BY <1>1, <1>2, <1>3, <1>4, CleanUpKeeps
<1>5. CASE l.proc = "running"
  <2>1. step' = "exiting" /\ exec' = x /\ launch' = dead BY <1>2, <1>5
  <2>2. LTypeOK' BY <1>1, <1>3, <2>1 DEF LInv, LTypeOK, remote, Closing
  <2>3. CommandsFit' BY <2>1 DEF CommandsFit, M, J, StartUp
  <2>4. AnswersFit' BY <2>1 DEF AnswersFit, M, J
  <2>5. ForwardsAnnounced' BY <1>1, <2>1 DEF LInv, ForwardsAnnounced, remote, StartUp
  <2>6. CleanedUp' BY <2>1 DEF CleanedUp
  <2>7. SocketsGone' BY <1>1, <2>1 DEF SocketsGone
  <2> QED BY <1>3, <2>1, <2>2, <2>3, <2>4, <2>5, <2>6, <2>7 DEF LInv
<1> QED BY <1>4, <1>5

\* The command of the launch is collected, the state of the removal is idle.
LEMMA CollectMain ==
  ASSUME LInv, step # "cleanup", ~Running("main")
  PROVE  /\ ExecOK(Collected(exec, "main"))
         /\ Collected(exec, "main").job["main"] = NoCommand
         /\ Collected(exec, "main").job["jars"] = NoCommand
<1>1. ExecOK(exec) /\ J = NoCommand BY DEF LInv, CommandsFit
<1>2. exec.job["main"].state \in {"idle", "settled"}
  BY <1>1, Names DEF Running, ExecOK, Core, ExecType, JobRecord
<1> QED BY <1>1, <1>2, Names, CollectedKeeps DEF J

LEMMA ThrowKeeps ==
  ASSUME LInv, step # "cleanup", ~Running("main"), Throw, UNCHANGED remote
  PROVE  LInv'
<1>1. launch \in LaunchRecord BY DEF LInv, LTypeOK
<1> QED BY <1>1, CollectMain, CloseKeeps DEF Throw

\* A launch that is killed while a command runs waits for it.
LEMMA KillMain ==
  ASSUME LInv, Running("main"), exec' = Kill(exec, "main"),
         UNCHANGED <<step, device, files, cache, forwards, stream>>,
         launch' \in LaunchRecord,
         launch'.jarStarted = launch.jarStarted, launch'.forwarding = launch.forwarding,
         launch'.errors = launch.errors, launch'.sockets = launch.sockets,
         launch'.fw = launch.fw, launch'.jars = launch.jars,
         launch'.proc = launch.proc \/ launch'.proc = "exited"
  PROVE  LInv'
<1>1. ExecOK(exec) BY DEF LInv
<1>2. /\ ExecOK(exec')
      /\ \A d \in Issuers : d # "main" => Moved(exec, exec', d)
      /\ exec.job["main"].state = "queued" =>
           exec'.job["main"].state = "settled" /\ exec'.job["main"].result = "failed"
      /\ exec.job["main"].state = "active" => exec'.job["main"].state = "active"
  BY <1>1, Names, KillKeeps
<1>3. Kept(exec, exec', "main")
  BY <1>2, NoCommandIsIdle DEF Kept, Running
<1>4. Kept(exec, exec', "jars") BY <1>2, Names, MovedIsKept
<1> QED BY <1>2, <1>3, <1>4, QuietKeeps

LEMMA GiveUpKeeps ==
  ASSUME LInv, step \in Starting \cup {"packets", "open"}, GiveUp, UNCHANGED remote
  PROVE  LInv'
<1>1. step # "cleanup" BY DEF Starting, StartUp, Waits
<1>2. launch \in LaunchRecord BY DEF LInv, LTypeOK
<1>3. CASE step \in StartUp /\ Running("main")
  <2>1. /\ exec' = Kill(exec, "main") /\ UNCHANGED <<step, stream>>
        /\ launch' = [launch EXCEPT !.aborted = TRUE]
    BY <1>3 DEF GiveUp
  <2>2. /\ launch' \in LaunchRecord
        /\ launch'.jarStarted = launch.jarStarted /\ launch'.forwarding = launch.forwarding
        /\ launch'.errors = launch.errors /\ launch'.sockets = launch.sockets
        /\ launch'.fw = launch.fw /\ launch'.jars = launch.jars /\ launch'.proc = launch.proc
    BY <1>2, <2>1 DEF LaunchRecord
  <2> QED BY <1>3, <2>1, <2>2, KillMain DEF remote
<1>4. CASE ~(step \in StartUp /\ Running("main"))
  <2>1. ~Running("main")
    BY <1>1, <1>4, NoCommandIsIdle DEF LInv, CommandsFit, M, Running
  <2>2. CloseWithReason(Collected(exec, "main"), launch) BY <1>4 DEF GiveUp
  <2> QED BY <1>1, <1>2, <2>1, <2>2, CollectMain, CloseKeeps
<1> QED BY <1>3, <1>4

-----------------------------------------------------------------------------
(* The steps of the start-up.                                              *)

\* The launch goes on to a step, with a command of its own or without.
LEMMA EnterKeeps ==
  ASSUME LInv, step # "cleanup", ~Running("main"),
         NEW next \in Starting \cup {"packets", "open"}, NEW l \in LaunchRecord,
         l.forwarding = launch.forwarding \/ l.forwarding,
         l.jarStarted = launch.jarStarted \/ l.jarStarted,
         next \in StartUp => l.jarStarted,
         next \in {"forward", "list", "fixed"} => l.forwarding,
         Enter(next, l), UNCHANGED remote
  PROVE  LInv'
<1>. USE NoCommandIsIdle
<1>. DEFINE x == Collected(exec, "main")
<1>1. ExecOK(x) /\ x.job["main"] = NoCommand /\ x.job["jars"] = NoCommand BY CollectMain
<1>2. /\ step' = next /\ launch' = l /\ UNCHANGED stream
      /\ exec' = IF next \in StartUp THEN Submit(x, "main") ELSE x
  BY DEF Enter
<1>. HIDE DEF x
<1>3. /\ ExecOK(exec') /\ exec'.job["jars"] = NoCommand
      /\ next \notin StartUp => exec'.job["main"] = NoCommand
      /\ next \in StartUp =>
           \/ exec'.job["main"].state \in {"active", "queued"}
           \/ exec'.job["main"].state = "settled" /\ exec'.job["main"].result = "failed"
  <2>1. CASE next \in StartUp
    <3>1. x.job["main"].state = "idle" BY <1>1
    <3> QED BY <1>1, <1>2, <2>1, <3>1, Names, SubmitKeeps
  <2>2. CASE next \notin StartUp BY <1>1, <1>2, <2>2
  <2> QED BY <2>1, <2>2
<1>4. next \notin Closing \cup {"closed", "cleanup"}
  BY DEF Starting, StartUp, Waits, Closing
<1>5. LTypeOK' BY <1>2 DEF LInv, LTypeOK, remote
<1>6. CommandsFit' BY <1>2, <1>3, <1>4 DEF CommandsFit, M, J
<1>7. AnswersFit' BY <1>2, <1>3 DEF AnswersFit, M, J
<1>8. ForwardsAnnounced' BY <1>2 DEF LInv, ForwardsAnnounced, remote
<1>9. CleanedUp' BY <1>2, <1>4 DEF CleanedUp
<1>10. SocketsGone' BY <1>2, <1>4 DEF SocketsGone
<1>11. StreamFlows' BY <1>2 DEF LInv, StreamFlows
<1> QED BY <1>3, <1>5, <1>6, <1>7, <1>8, <1>9, <1>10, <1>11 DEF LInv

LEMMA CommandSettledKeeps ==
  ASSUME LInv, CommandSettled
  PROVE  LInv'
<1>. DEFINE ok == exec.job["main"].result = "ok"
<1>1. /\ step \in StartUp /\ Settled("main") /\ UNCHANGED remote /\ step # "cleanup"
      /\ ~Running("main")
  BY DEF CommandSettled, StartUp, Settled, Running
<1>2. launch \in LaunchRecord /\ launch.jarStarted
  BY <1>1 DEF LInv, LTypeOK, ForwardsAnnounced
<1>3. ASSUME Throw PROVE LInv' BY <1>1, <1>3, ThrowKeeps
<1>4. ASSUME NEW next \in (StartUp \ {"forward", "list", "fixed"}) \cup {"connectVideo", "connectControl"},
             Enter(next, launch)
      PROVE  LInv'
  BY <1>1, <1>2, <1>4, EnterKeeps DEF Starting, Waits
<1>5. ASSUME NEW next \in {"list", "fixed"}, step \in {"forward", "list", "fixed"},
             Enter(next, launch)
      PROVE  LInv'
  <2>1. launch.forwarding BY <1>5 DEF LInv, ForwardsAnnounced
  <2> QED BY <1>1, <1>2, <1>5, <2>1, EnterKeeps DEF Starting, StartUp
<1>6. ASSUME Enter("forward", [launch EXCEPT !.forwarding = TRUE]) PROVE LInv'
  <2>. DEFINE l == [launch EXCEPT !.forwarding = TRUE]
  <2>1. l \in LaunchRecord /\ l.forwarding /\ l.jarStarted BY <1>2 DEF LaunchRecord
  <2>. HIDE DEF l
  <2> QED BY <1>1, <1>6, <2>1, EnterKeeps DEF Starting, StartUp, l
<1>7. ASSUME step \in {"forward", "list", "fixed"}, Spawned(Port) PROVE LInv'
  <2>. DEFINE l == [launch EXCEPT !.port = Port, !.proc = "running"]
  <2>1. Port \in Nat BY <1>2 DEF Port, LaunchRecord
  <2>2. l \in LaunchRecord /\ l.forwarding = launch.forwarding /\ l.jarStarted
    BY <1>2, <2>1 DEF LaunchRecord
  <2>3. Enter("socket", l) BY <1>7 DEF Spawned
  <2>. HIDE DEF l
  <2> QED BY <1>1, <2>2, <2>3, EnterKeeps DEF Starting, StartUp
<1>8. ASSUME step = "fixed", Enter("fixed", [launch EXCEPT !.attempts = @ + 1]) PROVE LInv'
  <2>. DEFINE l == [launch EXCEPT !.attempts = @ + 1]
  <2>1. l \in LaunchRecord /\ l.forwarding = launch.forwarding /\ l.jarStarted
    BY <1>2 DEF LaunchRecord
  <2>2. launch.forwarding BY <1>8 DEF LInv, ForwardsAnnounced
  <2>3. Enter("fixed", l) BY <1>8
  <2>. HIDE DEF l
  <2> QED BY <1>1, <2>1, <2>2, <2>3, EnterKeeps DEF Starting, StartUp
<1>9. \/ Throw
      \/ \E next \in (StartUp \ {"forward", "list", "fixed"}) \cup {"connectVideo", "connectControl"} :
           Enter(next, launch)
      \/ step \in {"forward", "list", "fixed"} /\ \E next \in {"list", "fixed"} : Enter(next, launch)
      \/ Enter("forward", [launch EXCEPT !.forwarding = TRUE])
      \/ step \in {"forward", "list", "fixed"} /\ Spawned(Port)
      \/ step = "fixed" /\ Enter("fixed", [launch EXCEPT !.attempts = @ + 1])
  <2>1. CASE launch.aborted BY <2>1 DEF CommandSettled
  <2>2. CASE ~launch.aborted /\ step = "probe" BY <2>2 DEF CommandSettled, StartUp
  <2>3. CASE ~launch.aborted /\ step = "push" BY <2>3 DEF CommandSettled, StartUp
  <2>4. CASE ~launch.aborted /\ step = "mv" BY <2>4 DEF CommandSettled, StartUp
  <2>5. CASE ~launch.aborted /\ step = "cp" BY <2>5 DEF CommandSettled, StartUp
  <2>6. CASE ~launch.aborted /\ step = "forward" BY <2>6 DEF CommandSettled, StartUp
  <2>7. CASE ~launch.aborted /\ step = "list" BY <2>7 DEF CommandSettled, StartUp
  <2>8. CASE ~launch.aborted /\ step = "fixed" BY <2>8 DEF CommandSettled, StartUp
  <2>9. CASE ~launch.aborted /\ step = "socket" BY <2>9 DEF CommandSettled, StartUp
  <2> QED BY <1>1, <2>1, <2>2, <2>3, <2>4, <2>5, <2>6, <2>7, <2>8, <2>9 DEF StartUp
<1> QED BY <1>3, <1>4, <1>5, <1>6, <1>7, <1>8, <1>9

LEMMA StartUpKeeps ==
  ASSUME LInv, Located \/ Connected \/ PreambleRead \/ StepFails \/ StepTimesOut \/ Aborted
  PROVE  LInv'
<1>. USE NoCommandIsIdle
<1>1. launch \in LaunchRecord BY DEF LInv, LTypeOK
<1>2. ASSUME step \in Waits \cup {"packets"} PROVE step # "cleanup" /\ ~Running("main")
  BY <1>2 DEF LInv, CommandsFit, M, Running, Waits, StartUp
<1>3. CASE Located
  <2>. DEFINE l == [launch EXCEPT !.jarStarted = TRUE]
  <2>1. l \in LaunchRecord /\ l.forwarding = launch.forwarding /\ l.jarStarted
    BY <1>1 DEF LaunchRecord
  <2>2. step \in Waits /\ Enter("probe", l) /\ UNCHANGED remote BY <1>3 DEF Located, Waits
  <2>. HIDE DEF l
  <2> QED BY <1>2, <2>1, <2>2, EnterKeeps DEF Starting, StartUp
<1>4. CASE Connected
  <2>. DEFINE l == [launch EXCEPT !.sockets = @ \cup {step}]
              next == IF step = "connectVideo" THEN "connectControl"
                      ELSE IF launch.video THEN "preamble" ELSE "open"
  <2>1. step \in Waits /\ step \in {"connectVideo", "connectControl"} /\ UNCHANGED remote
    BY <1>4 DEF Connected, Waits
  <2>2. /\ l \in LaunchRecord /\ l.forwarding = launch.forwarding
        /\ l.jarStarted = launch.jarStarted
    BY <1>1, <2>1 DEF LaunchRecord
  <2>3. Enter(next, l) BY <1>4 DEF Connected
  <2>4. next \in Waits \cup {"open"} /\ next \notin StartUp BY DEF Waits, StartUp
  <2>. HIDE DEF l, next
  <2>5. next \notin {"forward", "list", "fixed"} BY <2>4 DEF Waits
  <2> QED BY <1>2, <2>1, <2>2, <2>3, <2>4, <2>5, EnterKeeps DEF Starting
<1>5. CASE PreambleRead
  <2>1. step \in Waits /\ Enter("packets", launch) /\ UNCHANGED remote
    BY <1>5 DEF PreambleRead, Waits
  <2>2. "packets" \notin StartUp BY DEF StartUp
  <2> QED BY <1>1, <1>2, <2>1, <2>2, EnterKeeps
<1>6. CASE StepFails BY <1>2, <1>6, ThrowKeeps DEF StepFails
<1>7. CASE StepTimesOut BY <1>7, GiveUpKeeps DEF StepTimesOut
<1>8. CASE Aborted BY <1>8, GiveUpKeeps DEF Aborted
<1> QED BY <1>3, <1>4, <1>5, <1>6, <1>7, <1>8

LEMMA ProcessExitsKeeps ==
  ASSUME LInv, ProcessExits
  PROVE  LInv'
<1>. USE NoCommandIsIdle
<1>. DEFINE l == [launch EXCEPT !.proc = "exited"]
<1>1. /\ l \in LaunchRecord /\ l.proc = "exited" /\ l.sockets = launch.sockets
      /\ l.forwarding = launch.forwarding /\ l.jarStarted = launch.jarStarted
      /\ l.errors = launch.errors /\ l.fw = launch.fw /\ l.jars = launch.jars
  BY DEF LInv, LTypeOK, LaunchRecord
<1>2. /\ UNCHANGED remote
      /\ \/ step \in {"exiting", "killing"} /\ CleanUp(exec, l) /\ UNCHANGED stream
         \/ /\ step \in Starting /\ Running("main")
            /\ exec' = Kill(exec, "main") /\ launch' = [l EXCEPT !.aborted = TRUE]
            /\ UNCHANGED <<step, stream>>
         \/ /\ step \in Starting /\ ~Running("main")
            /\ CloseWithReason(Collected(exec, "main"), l)
         \/ launch' = l /\ UNCHANGED <<exec, step, stream>>
  BY DEF ProcessExits
<1>. HIDE DEF l
<1>3. CASE step \in {"exiting", "killing"} /\ CleanUp(exec, l) /\ UNCHANGED stream
  <2>1. ExecOK(exec) /\ exec.job["main"] = NoCommand /\ exec.job["jars"] = NoCommand
    BY <1>3 DEF LInv, CommandsFit, M, J, StartUp
  <2>2. l.sockets = {} BY <1>1, <1>3 DEF LInv, SocketsGone, Closing
  <2>3. stream' \in StreamRecord /\ StreamFlows' BY <1>3 DEF LInv, LTypeOK, StreamFlows
  <2> QED BY <1>1, <1>2, <1>3, <2>1, <2>2, <2>3, CleanUpKeeps
<1>4. CASE /\ step \in Starting /\ Running("main")
           /\ exec' = Kill(exec, "main") /\ launch' = [l EXCEPT !.aborted = TRUE]
           /\ UNCHANGED <<step, stream>>
  <2>1. /\ launch' \in LaunchRecord /\ launch'.sockets = launch.sockets
        /\ launch'.forwarding = launch.forwarding /\ launch'.jarStarted = launch.jarStarted
        /\ launch'.errors = launch.errors /\ launch'.fw = launch.fw
        /\ launch'.jars = launch.jars /\ launch'.proc = "exited"
    BY <1>1, <1>4 DEF LaunchRecord
  <2> QED BY <1>2, <1>4, <2>1, KillMain DEF remote
<1>5. CASE /\ step \in Starting /\ ~Running("main")
           /\ CloseWithReason(Collected(exec, "main"), l)
  <2>1. step # "cleanup" BY <1>5 DEF Starting, StartUp, Waits
  <2> QED BY <1>1, <1>2, <1>5, <2>1, CollectMain, CloseKeeps
<1>6. CASE launch' = l /\ UNCHANGED <<exec, step, stream>>
  <2>1. ExecOK(exec) BY DEF LInv
  <2>2. Kept(exec, exec', "main") /\ Kept(exec, exec', "jars") BY <1>6 DEF Kept
  <2> QED BY <1>1, <1>2, <1>6, <2>1, <2>2, QuietKeeps DEF remote
<1> QED BY <1>2, <1>3, <1>4, <1>5, <1>6

LEMMA ExitWaitTimesOutKeeps ==
  ASSUME LInv, ExitWaitTimesOut
  PROVE  LInv'
<1>. USE NoCommandIsIdle
<1>1. /\ step \in {"exiting", "killing"} /\ UNCHANGED <<remote, stream>>
      /\ \/ step = "exiting" /\ step' = "killing" /\ UNCHANGED <<exec, launch>>
         \/ CleanUp(exec, [launch EXCEPT !.errors = TRUE])
  BY DEF ExitWaitTimesOut
<1>2. CASE step = "exiting" /\ step' = "killing" /\ UNCHANGED <<exec, launch>>
  <2>1. LTypeOK' BY <1>1, <1>2 DEF LInv, LTypeOK, remote, Closing
  <2>2. CommandsFit' BY <1>2 DEF LInv, CommandsFit, M, J, StartUp
  <2>3. AnswersFit' BY <1>1, <1>2 DEF LInv, AnswersFit, M, J, remote
  <2>4. ForwardsAnnounced' BY <1>1, <1>2 DEF LInv, ForwardsAnnounced, remote, StartUp
  <2>5. CleanedUp' BY <1>2 DEF CleanedUp
  <2>6. SocketsGone' BY <1>2 DEF LInv, SocketsGone, Closing
  <2>7. StreamFlows' BY <1>1 DEF LInv, StreamFlows
  <2> QED BY <1>2, <2>1, <2>2, <2>3, <2>4, <2>5, <2>6, <2>7 DEF LInv
<1>3. CASE CleanUp(exec, [launch EXCEPT !.errors = TRUE])
  <2>. DEFINE l == [launch EXCEPT !.errors = TRUE]
  <2>1. /\ l \in LaunchRecord /\ l.errors /\ l.sockets = launch.sockets
        /\ l.forwarding = launch.forwarding /\ l.jarStarted = launch.jarStarted
    BY DEF LInv, LTypeOK, LaunchRecord
  <2>2. CleanUp(exec, l) BY <1>3
  <2>. HIDE DEF l
  <2>3. ExecOK(exec) /\ exec.job["main"] = NoCommand /\ exec.job["jars"] = NoCommand
    BY <1>1 DEF LInv, CommandsFit, M, J, StartUp
  <2>4. l.sockets = {} BY <1>1, <2>1 DEF LInv, SocketsGone, Closing
  <2>5. stream' \in StreamRecord /\ StreamFlows' BY <1>1 DEF LInv, LTypeOK, StreamFlows
  <2> QED BY <1>1, <2>1, <2>2, <2>3, <2>4, <2>5, CleanUpKeeps
<1> QED BY <1>1, <1>2, <1>3

-----------------------------------------------------------------------------
(* The stream.                                                             *)

LEMMA PacketBufferedKeeps ==
  ASSUME LInv, NEW kind \in PacketKinds, PacketBuffered(kind)
  PROVE  LInv'
<1>. DEFINE gate == stream.gate \cup {kind}
            g == IF Decodable(gate) THEN {} ELSE gate
            b == Append(stream.buffered, stream.read + 1)
<1>0. stream \in StreamRecord BY DEF LInv, LTypeOK
<1>1. /\ step = "packets" /\ UNCHANGED <<exec, launch, remote>>
      /\ step' \in {"packets", "open"}
  BY DEF PacketBuffered
<1>2. stream' = [stream EXCEPT !.read = @ + 1, !.buffered = b, !.gate = g]
  BY DEF PacketBuffered
<1>3. /\ stream.read \in Nat /\ stream.buffered \in Seq(Nat) /\ stream.delivered \in Nat
      /\ stream.gate \in SUBSET PacketKinds
  BY <1>0 DEF StreamRecord
<1>4. g \in SUBSET PacketKinds BY <1>3
<1>5. b \in Seq(Nat) /\ Len(b) = Len(stream.buffered) + 1 /\ Len(stream.buffered) \in Nat
      /\ b[Len(stream.buffered) + 1] = stream.read + 1
      /\ \A i \in 1 .. Len(stream.buffered) : b[i] = stream.buffered[i]
  BY <1>3
<1>. HIDE DEF b, g
<1>6. /\ stream' \in StreamRecord /\ stream'.buffered = b /\ stream'.read = stream.read + 1
      /\ stream'.delivered = stream.delivered /\ stream'.gap = stream.gap
  <2>1. stream.read + 1 \in Nat BY <1>3
  <2>. DEFINE r == stream.read + 1
  <2>2. r \in Nat /\ stream' = [stream EXCEPT !.read = r, !.buffered = b, !.gate = g]
    BY <1>2, <2>1
  <2>. HIDE DEF r
  <2>3. /\ stream' \in StreamRecord /\ stream'.buffered = b /\ stream'.read = r
        /\ stream'.delivered = stream.delivered /\ stream'.gap = stream.gap
    BY <1>0, <1>4, <1>5, <2>2 DEF StreamRecord
  <2> QED BY <2>3 DEF r
<1>7. StreamFlows'
  <2>1. /\ ~stream.gap /\ Len(stream.buffered) + stream.delivered = stream.read
        /\ \A i \in 1 .. Len(stream.buffered) : stream.buffered[i] = stream.delivered + i
    BY DEF LInv, StreamFlows
  <2>. DEFINE p == Len(b)  q == Len(stream.buffered)  d == stream.delivered  s == stream.read
  <2>2. p = q + 1 /\ q + d = s /\ q \in Nat /\ d \in Nat /\ b[q + 1] = s + 1
    BY <1>3, <1>5, <2>1
  <2>. HIDE DEF p, q, d, s
  <2>3. p + d = s + 1 BY <2>2
  <2>4. ASSUME NEW i \in 1 .. p PROVE b[i] = d + i
    <3>1. CASE i = q + 1
      <4>1. d + i = s + 1 BY <2>2, <3>1
      <4> QED BY <2>2, <3>1, <4>1
    <3>2. CASE i # q + 1
      <4>1. i \in 1 .. q BY <2>2, <3>2
      <4> QED BY <1>5, <2>1, <4>1 DEF d, q
    <3> QED BY <3>1, <3>2
  <2> QED BY <1>6, <2>1, <2>3, <2>4 DEF p, d, s, StreamFlows
<1>8. LTypeOK' BY <1>1, <1>6 DEF LInv, LTypeOK, remote
<1>9. CommandsFit' BY <1>1 DEF LInv, CommandsFit, M, J, StartUp
<1>10. AnswersFit' BY <1>1 DEF LInv, AnswersFit, M, J, remote
<1>11. ForwardsAnnounced' BY <1>1 DEF LInv, ForwardsAnnounced, remote, StartUp
<1>12. CleanedUp' BY <1>1 DEF CleanedUp
<1>13. SocketsGone' BY <1>1 DEF SocketsGone, Closing
<1> QED BY <1>1, <1>7, <1>8, <1>9, <1>10, <1>11, <1>12, <1>13 DEF LInv

LEMMA ReadFrameKeeps ==
  ASSUME LInv, FrameIsRead
  PROVE  LInv'
<1>. DEFINE n == NextPacket
            r == IF n > stream.read THEN n ELSE stream.read
            b == IF stream.buffered # <<>> THEN Tail(stream.buffered) ELSE stream.buffered
<1>0. stream \in StreamRecord BY DEF LInv, LTypeOK
<1>1. UNCHANGED <<exec, step, launch, remote>> BY DEF FrameIsRead
<1>2. stream' = [stream EXCEPT !.read = r, !.buffered = b, !.delivered = n,
                               !.gap = @ \/ n # stream.delivered + 1]
  BY DEF FrameIsRead
<1>3. /\ stream.read \in Nat /\ stream.buffered \in Seq(Nat) /\ stream.delivered \in Nat
      /\ stream.gap = FALSE
  BY <1>0 DEF StreamRecord, LInv, StreamFlows
<1>4. /\ Len(stream.buffered) \in Nat
      /\ Len(stream.buffered) + stream.delivered = stream.read
      /\ \A i \in 1 .. Len(stream.buffered) : stream.buffered[i] = stream.delivered + i
  BY <1>3 DEF LInv, StreamFlows
<1>5. /\ n = stream.delivered + 1 /\ n \in Nat /\ r \in Nat /\ b \in Seq(Nat)
      /\ Len(b) + n = r
      /\ \A i \in 1 .. Len(b) : b[i] = n + i
  <2>1. CASE stream.buffered = <<>>
    <3>1. n = stream.read + 1 /\ b = <<>> /\ Len(b) = 0 BY <2>1 DEF NextPacket
    <3>2. Len(stream.buffered) = 0 BY <2>1
    <3> QED BY <1>3, <1>4, <3>1, <3>2
  <2>2. CASE stream.buffered # <<>>
    <3>1. /\ n = stream.buffered[1] /\ b \in Seq(Nat) /\ Len(b) = Len(stream.buffered) - 1
          /\ Len(stream.buffered) >= 1
          /\ \A i \in 1 .. Len(b) : b[i] = stream.buffered[i + 1]
      BY <1>3, <2>2 DEF NextPacket
    <3>. HIDE DEF b, n
    <3>2. n = stream.delivered + 1 BY <1>3, <1>4, <3>1
    <3>3. r = stream.read BY <1>3, <1>4, <3>1, <3>2
    <3>. HIDE DEF r
    <3>4. ASSUME NEW i \in 1 .. Len(b) PROVE b[i] = n + i
      <4>1. i + 1 \in 1 .. Len(stream.buffered) BY <1>4, <3>1
      <4>2. stream.buffered[i + 1] = stream.delivered + (i + 1) BY <1>4, <4>1
      <4>3. b[i] = stream.buffered[i + 1] BY <3>1
      <4>4. i \in Int
        <5>. DEFINE p == Len(b)
        <5>1. p \in Int BY <1>4, <3>1
        <5>. HIDE DEF p
        <5> QED BY <5>1
      <4>5. stream.delivered + (i + 1) = n + i
        <5>. DEFINE d == stream.delivered
        <5>1. d \in Nat /\ n = d + 1 BY <1>3, <3>2
        <5>. HIDE DEF d
        <5>2. d + (i + 1) = n + i BY <4>4, <5>1
        <5> QED BY <5>2 DEF d
      <4> QED BY <4>2, <4>3, <4>5
    <3>5. Len(b) + n = r
      <4>. DEFINE p == Len(b)  q == Len(stream.buffered)  d == stream.delivered  s == stream.read
      <4>1. p = q - 1 /\ q + d = s /\ n = d + 1 /\ r = s /\ q \in Nat /\ d \in Nat
        BY <1>3, <1>4, <3>1, <3>2, <3>3
      <4>. HIDE DEF p, q, d, s
      <4>2. p + n = r BY <4>1
      <4> QED BY <4>2 DEF p
    <3>6. n \in Nat /\ r \in Nat BY <1>3, <3>2, <3>3
    <3> QED BY <3>1, <3>2, <3>4, <3>5, <3>6
  <2> QED BY <2>1, <2>2
<1>. HIDE DEF b, n, r
<1>6. /\ stream' \in StreamRecord /\ stream'.buffered = b /\ stream'.read = r
      /\ stream'.delivered = n /\ stream'.gap = FALSE
  <2>1. stream' = [stream EXCEPT !.read = r, !.buffered = b, !.delivered = n, !.gap = FALSE]
    BY <1>2, <1>3, <1>5
  <2> QED BY <1>0, <1>5, <2>1 DEF StreamRecord
<1>7. StreamFlows' BY <1>5, <1>6 DEF StreamFlows
<1>8. LTypeOK' BY <1>1, <1>6 DEF LInv, LTypeOK, remote
<1>9. CommandsFit' BY <1>1 DEF LInv, CommandsFit, M, J
<1>10. AnswersFit' BY <1>1 DEF LInv, AnswersFit, M, J, remote
<1>11. ForwardsAnnounced' BY <1>1 DEF LInv, ForwardsAnnounced, remote
<1>12. CleanedUp' BY <1>1 DEF LInv, CleanedUp, M, J, remote
<1>13. SocketsGone' BY <1>1 DEF LInv, SocketsGone
<1> QED BY <1>1, <1>7, <1>8, <1>9, <1>10, <1>11, <1>12, <1>13 DEF LInv

-----------------------------------------------------------------------------
(* The clean-up commands, adb and the device.                              *)

\* A step of the clean-up leaves the rest as it is.
LEMMA CleanUpGoesKeeps ==
  ASSUME LInv, step = "cleanup", NEW x, ExecOK(x), NEW l \in LaunchRecord,
         l.sockets = launch.sockets, l.proc = launch.proc, l.errors = launch.errors \/ l.errors,
         l.forwarding = launch.forwarding, l.jarStarted = launch.jarStarted,
         \/ l.fw = "done" /\ x.job["main"] = NoCommand
         \/ l.fw \in {"list", "all", "known"} /\ x.job["main"].state # "idle",
         \/ l.jars = "done" /\ x.job["jars"] = NoCommand
         \/ l.jars \in {"rm", "again"} /\ x.job["jars"].state # "idle",
         x.job["main"].state = "settled" =>
           \/ x.job["main"].result = "failed"
           \/ /\ l.fw = launch.fw /\ M.state = "settled"
              /\ x.job["main"].result = M.result,
         x.job["jars"].state = "settled" =>
           \/ x.job["jars"].result = "failed"
           \/ /\ l.jars = launch.jars /\ J.state = "settled"
              /\ x.job["jars"].result = J.result,
         ~l.errors /\ device =>
           /\ l.fw \in {"known", "done"} => forwards = {}
           /\ l.jars = "done" => files = {},
         CleanUpGoes(x, l)
  PROVE  LInv'
<1>. USE NoCommandIsIdle
<1>1. /\ exec' = x /\ launch' = l /\ UNCHANGED <<remote, stream>>
      /\ step' = IF l.fw = "done" /\ l.jars = "done" THEN "closed" ELSE "cleanup"
  BY DEF CleanUpGoes, CleanUpDone
<1>2. l.errors \in BOOLEAN /\ launch.errors \in BOOLEAN BY DEF LInv, LTypeOK, LaunchRecord
<1>3. ~l.errors => ~launch.errors BY <1>2
<1>4. LTypeOK' BY <1>1 DEF LInv, LTypeOK, remote, Closing
<1>5. CommandsFit' BY <1>1 DEF CommandsFit, M, J, StartUp
<1>6. AnswersFit' BY <1>1 DEF LInv, AnswersFit, M, J, remote
<1>7. ForwardsAnnounced' BY <1>1 DEF LInv, ForwardsAnnounced, remote, StartUp
<1>8. CleanedUp' BY <1>1, <1>3 DEF LInv, CleanedUp, M, J, remote
<1>9. SocketsGone' BY <1>1 DEF LInv, SocketsGone, Closing
<1>10. StreamFlows' BY <1>1 DEF LInv, StreamFlows
<1> QED BY <1>1, <1>4, <1>5, <1>6, <1>7, <1>8, <1>9, <1>10 DEF LInv

LEMMA ForwardsListedKeeps ==
  ASSUME LInv, ForwardsListed
  PROVE  LInv'
<1>. USE NoCommandIsIdle
<1>. DEFINE x == Collected(exec, "main")
            listed == exec.job["main"].result = "ok" /\ forwards # {}
            bad == Reported("main")
            l == [launch EXCEPT !.errors = bad]
            l1 == [l EXCEPT !.fw = IF listed THEN "all" ELSE "known"]
            l2 == [l EXCEPT !.fw = "done"]
<1>0. /\ step = "cleanup" /\ launch.fw = "list" /\ M.state = "settled" /\ ExecOK(exec)
      /\ launch \in LaunchRecord
  BY DEF ForwardsListed, Settled, M, LInv, LTypeOK
<1>1. IF listed \/ launch.port # 0 THEN CleanUpGoes(Submit(x, "main"), l1) ELSE CleanUpGoes(x, l2)
  BY DEF ForwardsListed
<1>2. bad \in BOOLEAN /\ (~bad => ~launch.errors /\ M.result # "failed") /\ (launch.errors => bad)
  BY <1>0 DEF Reported, M, LaunchRecord
<1>3. ~bad /\ device => M.result = "ok"
  BY <1>0, <1>2 DEF LInv, AnswersFit
<1>4. listed <=> M.result = "ok" /\ forwards # {} BY DEF M
<1>5. ~bad /\ device /\ ~listed => forwards = {} BY <1>3, <1>4
<1>. HIDE DEF bad, listed
<1>6. /\ l1 \in LaunchRecord /\ l1.errors = bad /\ l1.fw = (IF listed THEN "all" ELSE "known")
      /\ l1.jars = launch.jars /\ l1.sockets = launch.sockets /\ l1.proc = launch.proc
      /\ l1.forwarding = launch.forwarding /\ l1.jarStarted = launch.jarStarted
  BY <1>0, <1>2 DEF LaunchRecord
<1>7. /\ l2 \in LaunchRecord /\ l2.errors = bad /\ l2.fw = "done"
      /\ l2.jars = launch.jars /\ l2.sockets = launch.sockets /\ l2.proc = launch.proc
      /\ l2.forwarding = launch.forwarding /\ l2.jarStarted = launch.jarStarted
  BY <1>0, <1>2 DEF LaunchRecord
<1>. HIDE DEF l1, l2
<1>8. /\ ExecOK(x) /\ x.job["main"] = NoCommand /\ x.job["jars"] = J
  BY <1>0, Names, CollectedKeeps DEF M, J
<1>. HIDE DEF x
<1>9. /\ \/ launch.jars = "done" /\ J = NoCommand
         \/ launch.jars \in {"rm", "again"} /\ J.state # "idle"
      /\ ~launch.errors /\ device => (launch.jars = "done" => files = {})
      /\ launch.errors \in BOOLEAN
  BY <1>0 DEF LInv, CommandsFit, CleanedUp, LaunchRecord
<1>10. CASE listed \/ launch.port # 0
  <2>. DEFINE y == Submit(x, "main")
  <2>1. x.job["main"].state = "idle" BY <1>8
  <2>2. /\ ExecOK(y) /\ y.job["jars"] = J
        /\ \/ y.job["main"].state \in {"active", "queued"}
           \/ y.job["main"].state = "settled" /\ y.job["main"].result = "failed"
    BY <1>8, <2>1, Names, SubmitKeeps
  <2>3. CleanUpGoes(y, l1) BY <1>1, <1>10
  <2>. HIDE DEF y
  <2> QED BY <1>0, <1>2, <1>5, <1>6, <1>9, <2>2, <2>3, CleanUpGoesKeeps
<1>11. CASE ~(listed \/ launch.port # 0)
  <2>1. CleanUpGoes(x, l2) BY <1>1, <1>11
  <2> QED BY <1>0, <1>2, <1>5, <1>7, <1>8, <1>9, <1>11, <2>1, CleanUpGoesKeeps
<1> QED BY <1>10, <1>11

LEMMA ForwardsRemovedKeeps ==
  ASSUME LInv, ForwardsRemoved
  PROVE  LInv'
<1>. USE NoCommandIsIdle
<1>. DEFINE x == Collected(exec, "main")
            bad == Reported("main")
            l == [launch EXCEPT !.fw = "done", !.errors = bad]
<1>0. /\ step = "cleanup" /\ launch.fw \in {"all", "known"} /\ M.state = "settled"
      /\ ExecOK(exec) /\ launch \in LaunchRecord /\ CleanUpGoes(x, l)
  BY DEF ForwardsRemoved, Settled, M, LInv, LTypeOK
<1>1. bad \in BOOLEAN /\ (~bad => ~launch.errors /\ M.result # "failed") /\ (launch.errors => bad)
  BY <1>0 DEF Reported, M, LaunchRecord
<1>2. ~bad /\ device => M.result = "ok" BY <1>0, <1>1 DEF LInv, AnswersFit
<1>3. ~bad /\ device => forwards = {} BY <1>0, <1>1, <1>2 DEF LInv, CleanedUp
<1>. HIDE DEF bad
<1>4. /\ l \in LaunchRecord /\ l.errors = bad /\ l.fw = "done"
      /\ l.jars = launch.jars /\ l.sockets = launch.sockets /\ l.proc = launch.proc
      /\ l.forwarding = launch.forwarding /\ l.jarStarted = launch.jarStarted
  BY <1>0, <1>1 DEF LaunchRecord
<1>. HIDE DEF l
<1>5. /\ ExecOK(x) /\ x.job["main"] = NoCommand /\ x.job["jars"] = J
  BY <1>0, Names, CollectedKeeps DEF M, J
<1>. HIDE DEF x
<1>6. /\ \/ launch.jars = "done" /\ J = NoCommand
         \/ launch.jars \in {"rm", "again"} /\ J.state # "idle"
      /\ ~launch.errors /\ device => (launch.jars = "done" => files = {})
      /\ launch.errors \in BOOLEAN
  BY <1>0 DEF LInv, CommandsFit, CleanedUp, LaunchRecord
<1> QED BY <1>0, <1>1, <1>3, <1>4, <1>5, <1>6, CleanUpGoesKeeps

LEMMA JarsRemovedKeeps ==
  ASSUME LInv, JarsRemoved
  PROVE  LInv'
<1>. USE NoCommandIsIdle
<1>. DEFINE x == Collected(exec, "jars")
            again == exec.job["jars"].result = "closed" /\ launch.jars = "rm"
            bad == Reported("jars")
            l1 == [launch EXCEPT !.jars = "again"]
            l2 == [launch EXCEPT !.jars = "done", !.errors = bad]
<1>0. /\ step = "cleanup" /\ launch.jars \in {"rm", "again"} /\ J.state = "settled"
      /\ ExecOK(exec) /\ launch \in LaunchRecord
      /\ IF again THEN CleanUpGoes(Submit(x, "jars"), l1) ELSE CleanUpGoes(x, l2)
  BY DEF JarsRemoved, Settled, J, LInv, LTypeOK
<1>1. bad \in BOOLEAN /\ (~bad => ~launch.errors /\ J.result # "failed") /\ (launch.errors => bad)
  BY <1>0 DEF Reported, J, LaunchRecord
<1>2. ~again /\ ~bad /\ device => J.result = "ok"
  BY <1>0, <1>1 DEF LInv, AnswersFit, J
<1>3. ~again /\ ~bad /\ device => files = {} BY <1>0, <1>1, <1>2 DEF LInv, CleanedUp
<1>. HIDE DEF bad, again
<1>4. /\ l1 \in LaunchRecord /\ l1.errors = launch.errors /\ l1.jars = "again"
      /\ l1.fw = launch.fw /\ l1.sockets = launch.sockets /\ l1.proc = launch.proc
      /\ l1.forwarding = launch.forwarding /\ l1.jarStarted = launch.jarStarted
  BY <1>0, <1>1 DEF LaunchRecord
<1>5. /\ l2 \in LaunchRecord /\ l2.errors = bad /\ l2.jars = "done"
      /\ l2.fw = launch.fw /\ l2.sockets = launch.sockets /\ l2.proc = launch.proc
      /\ l2.forwarding = launch.forwarding /\ l2.jarStarted = launch.jarStarted
  BY <1>0, <1>1 DEF LaunchRecord
<1>. HIDE DEF l1, l2
<1>6. /\ ExecOK(x) /\ x.job["jars"] = NoCommand /\ x.job["main"] = M
  BY <1>0, Names, CollectedKeeps DEF M, J
<1>. HIDE DEF x
<1>7. /\ \/ launch.fw = "done" /\ M = NoCommand
         \/ launch.fw \in {"list", "all", "known"} /\ M.state # "idle"
      /\ ~launch.errors /\ device => (launch.fw \in {"known", "done"} => forwards = {})
      /\ launch.errors \in BOOLEAN
  BY <1>0 DEF LInv, CommandsFit, CleanedUp, LaunchRecord
<1>8. CASE again
  <2>. DEFINE y == Submit(x, "jars")
  <2>1. x.job["jars"].state = "idle" BY <1>6
  <2>2. /\ ExecOK(y) /\ y.job["main"] = M
        /\ \/ y.job["jars"].state \in {"active", "queued"}
           \/ y.job["jars"].state = "settled" /\ y.job["jars"].result = "failed"
    BY <1>6, <2>1, Names, SubmitKeeps
  <2>3. CleanUpGoes(y, l1) BY <1>0, <1>8
  <2>. HIDE DEF y
  <2> QED BY <1>0, <1>4, <1>7, <2>2, <2>3, CleanUpGoesKeeps
<1>9. CASE ~again
  <2>1. CleanUpGoes(x, l2) BY <1>0, <1>9
  <2> QED BY <1>0, <1>1, <1>3, <1>5, <1>6, <1>7, <1>9, <2>1, CleanUpGoesKeeps
<1> QED BY <1>8, <1>9

LEMMA CleanUpTimesOutKeeps ==
  ASSUME LInv, NEW c \in {"main", "jars"}, CleanUpTimesOut(c)
  PROVE  LInv'
<1>1. /\ exec' = Kill(exec, c) /\ UNCHANGED <<step, launch, remote, stream>>
      /\ exec.job[c].state \in {"queued", "active"} /\ ExecOK(exec) /\ launch \in LaunchRecord
  BY DEF CleanUpTimesOut, Running, LInv, LTypeOK
<1>2. c \in Issuers BY Names
<1>3. /\ ExecOK(exec')
      /\ \A d \in Issuers : d # c => Moved(exec, exec', d)
      /\ exec.job[c].state = "queued" =>
           exec'.job[c].state = "settled" /\ exec'.job[c].result = "failed"
      /\ exec.job[c].state = "active" => exec'.job[c].state = "active"
  BY <1>1, <1>2, KillKeeps
<1>4. Kept(exec, exec', c) BY <1>1, <1>3, NoCommandIsIdle DEF Kept
<1>5. \A d \in Issuers : d # c => Kept(exec, exec', d) BY <1>3, MovedIsKept
<1>6. Kept(exec, exec', "main") /\ Kept(exec, exec', "jars") BY <1>4, <1>5, Names
<1> QED BY <1>1, <1>3, <1>6, QuietKeeps DEF remote

LEMMA DeviceGoesKeeps ==
  ASSUME LInv, DeviceGoes
  PROVE  LInv'
<1>1. device' = FALSE /\ forwards' = {} /\ UNCHANGED <<exec, step, launch, files, cache, stream>>
  BY DEF DeviceGoes
<1>2. LTypeOK' BY <1>1 DEF LInv, LTypeOK
<1>3. CommandsFit' BY <1>1 DEF LInv, CommandsFit, M, J
<1>4. AnswersFit' BY <1>1 DEF LInv, AnswersFit, M, J
<1>5. ForwardsAnnounced' BY <1>1 DEF LInv, ForwardsAnnounced
<1>6. CleanedUp' BY <1>1 DEF LInv, CleanedUp, M, J
<1>7. SocketsGone' BY <1>1 DEF LInv, SocketsGone
<1>8. StreamFlows' BY <1>1 DEF LInv, StreamFlows
<1> QED BY <1>1, <1>2, <1>3, <1>4, <1>5, <1>6, <1>7, <1>8 DEF LInv

\* What a command may answer, and what it may have done by then.
LEMMA AnswersAre ==
  ASSUME NEW c \in {"main", "jars"}, NEW answer \in Answers(c)
  PROVE  /\ answer \in {"ok", "failed", "unavailable", "closed"}
         /\ answer = "unavailable" => ~device
         /\ answer = "closed" => c = "jars" /\ launch.jars = "rm"
BY DEF Answers

LEMMA EffectsAre ==
  ASSUME LInv, NEW c \in {"main", "jars"}, exec.job[c].state = "active",
         NEW whole \in BOOLEAN, Effect(c, whole)
  PROVE  /\ files' \subseteq {"temporary", "working"} /\ cache' \in {"none", "whole"}
         /\ forwards' \subseteq Nat
         /\ c = "jars" => forwards' = forwards /\ files' = (IF whole THEN {} ELSE files)
         /\ c = "main" /\ step = "cleanup" =>
              /\ files' = files /\ forwards' \subseteq forwards
              /\ launch.fw = "all" /\ whole => forwards' = {}
         /\ forwards' # {} => launch.forwarding
         /\ files' # {} => launch.jarStarted
<1>1. /\ files \subseteq {"temporary", "working"} /\ cache \in {"none", "whole"}
      /\ forwards \subseteq Nat /\ launch \in LaunchRecord
      /\ forwards # {} => launch.forwarding
      /\ files # {} => launch.jarStarted
      /\ step \in StartUp => launch.jarStarted
      /\ step \in {"forward", "fixed"} => launch.forwarding
  BY DEF LInv, LTypeOK, ForwardsAnnounced
<1>2. Port \in Nat BY <1>1 DEF Port, LaunchRecord
<1>3. CASE c = "jars" BY <1>1, <1>3 DEF Effect
<1>4. CASE c = "main" /\ step = "push" BY <1>1, <1>4 DEF Effect, Push, StartUp
<1>5. CASE c = "main" /\ step = "mv" /\ whole BY <1>1, <1>5 DEF Effect, StartUp
<1>6. CASE c = "main" /\ step = "cp" BY <1>1, <1>6 DEF Effect, StartUp
<1>7. CASE c = "main" /\ step \in {"forward", "fixed"} /\ whole
  BY <1>1, <1>2, <1>7 DEF Effect, StartUp
<1>8. CASE c = "main" /\ step = "cleanup" /\ launch.fw = "all" /\ whole
  BY <1>1, <1>8 DEF Effect
<1>9. CASE c = "main" /\ step = "cleanup" /\ launch.fw = "known" /\ whole
  BY <1>1, <1>9 DEF Effect
<1>10. CASE /\ c = "main" /\ step \notin {"push", "cp"}
            /\ \/ ~whole
               \/ step \notin {"mv", "forward", "fixed", "cleanup"}
               \/ step = "cleanup" /\ launch.fw \notin {"all", "known"}
  <2>1. UNCHANGED <<files, cache, forwards>> BY <1>10 DEF Effect
  <2> QED BY <1>1, <1>10, <2>1
<1> QED BY <1>3, <1>4, <1>5, <1>6, <1>7, <1>8, <1>9, <1>10

LEMMA CommandEndsKeeps ==
  ASSUME LInv, NEW c \in {"main", "jars"}, CommandEnds(c)
  PROVE  LInv'
<1>. USE NoCommandIsIdle
<1>1. PICK answer \in Answers(c) :
        /\ exec' = Settle(exec, c, answer)
        /\ \/ device /\ Effect(c, TRUE)
           \/ answer # "ok" /\ device /\ Effect(c, FALSE)
           \/ answer # "ok" /\ UNCHANGED <<files, cache, forwards>>
  BY DEF CommandEnds
<1>2. exec.job[c].state = "active" /\ UNCHANGED <<step, launch, device, stream>>
  BY DEF CommandEnds
<1>3. /\ answer \in Results
      /\ answer \in {"ok", "failed", "unavailable", "closed"}
      /\ answer = "unavailable" => ~device
      /\ answer = "closed" => c = "jars" /\ launch.jars = "rm"
  BY AnswersAre DEF Results
<1>4. c \in Issuers /\ "main" \in Issuers /\ "jars" \in Issuers /\ ExecOK(exec)
  BY Names DEF LInv
<1>5. /\ ExecOK(exec') /\ exec'.job[c].state = "settled" /\ exec'.job[c].result = answer
      /\ \A d \in Issuers : d # c => Moved(exec, exec', d)
  BY <1>1, <1>2, <1>3, <1>4, SettleKeeps
<1>6. /\ c = "main" => Kept(exec, exec', "jars")
      /\ c = "jars" => Kept(exec, exec', "main")
  BY <1>4, <1>5, MovedIsKept
<1>7. /\ c = "main" => step \in StartUp \/ (step = "cleanup" /\ launch.fw \in {"list", "all", "known"})
      /\ c = "jars" => step = "cleanup" /\ launch.jars \in {"rm", "again"}
  BY <1>2 DEF LInv, CommandsFit, M, J
<1>8. /\ files' \subseteq {"temporary", "working"} /\ cache' \in {"none", "whole"}
      /\ forwards' \subseteq Nat
      /\ c = "jars" => forwards' = forwards /\ (files = {} => files' = {})
      /\ c = "jars" /\ answer = "ok" => files' = {}
      /\ c = "main" /\ step = "cleanup" =>
           /\ files' = files /\ forwards' \subseteq forwards
           /\ launch.fw = "all" /\ answer = "ok" => forwards' = {}
      /\ forwards' # {} => launch.forwarding
      /\ files' # {} => launch.jarStarted
  <2>1. CASE device /\ Effect(c, TRUE) BY <1>2, <2>1, EffectsAre
  <2>2. CASE answer # "ok" /\ device /\ Effect(c, FALSE) BY <1>2, <2>2, EffectsAre
  <2>3. CASE answer # "ok" /\ UNCHANGED <<files, cache, forwards>>
    BY <2>3 DEF LInv, LTypeOK, ForwardsAnnounced
  <2> QED BY <1>1, <2>1, <2>2, <2>3
<1>9. LTypeOK' BY <1>2, <1>8 DEF LInv, LTypeOK
<1>10. CommandsFit'
  <2>1. CASE c = "main" BY <1>2, <1>5, <1>6, <1>7, <2>1 DEF LInv, CommandsFit, M, J, Kept, StartUp
  <2>2. CASE c = "jars" BY <1>2, <1>5, <1>6, <1>7, <2>2 DEF LInv, CommandsFit, M, J, Kept, StartUp
  <2> QED BY <2>1, <2>2
<1>11. AnswersFit'
  <2>1. CASE c = "main" BY <1>2, <1>3, <1>5, <1>6, <2>1 DEF LInv, AnswersFit, M, J, Kept
  <2>2. CASE c = "jars" BY <1>2, <1>3, <1>5, <1>6, <2>2 DEF LInv, AnswersFit, M, J, Kept
  <2> QED BY <2>1, <2>2
<1>12. ForwardsAnnounced' BY <1>2, <1>8 DEF LInv, ForwardsAnnounced
<1>13. CleanedUp'
  <2>1. CASE step = "cleanup"
    <3>1. CASE c = "main"
      BY <1>2, <1>5, <1>6, <1>7, <1>8, <2>1, <3>1 DEF LInv, CleanedUp, M, J, Kept, StartUp
    <3>2. CASE c = "jars"
      BY <1>2, <1>5, <1>6, <1>7, <1>8, <2>1, <3>2 DEF LInv, CleanedUp, M, J, Kept
    <3> QED BY <3>1, <3>2
  <2>2. CASE step # "cleanup"
    BY <1>2, <1>7, <2>2 DEF CleanedUp, StartUp
  <2> QED BY <2>1, <2>2
<1>14. SocketsGone' BY <1>2 DEF LInv, SocketsGone
<1>15. StreamFlows' BY <1>2 DEF LInv, StreamFlows
<1> QED BY <1>5, <1>9, <1>10, <1>11, <1>12, <1>13, <1>14, <1>15 DEF LInv

-----------------------------------------------------------------------------
(* The theorems.                                                           *)

LEMMA LInit ==
  ASSUME Init
  PROVE  LInv
<1>. USE NoCommandIsIdle
<1>1. PICK video \in BOOLEAN : launch = Fresh(video) BY DEF Init
<1>2. /\ launch \in LaunchRecord /\ launch.fw = "none" /\ launch.jars = "none"
  BY <1>1 DEF Fresh, LaunchRecord
<1>3. /\ exec = NewExecutor /\ step = "locate" /\ device = TRUE /\ files = {}
      /\ cache \in {"none", "whole"} /\ forwards = {} /\ stream = NoStream
  BY DEF Init
<1>4. ExecOK(exec) /\ M = NoCommand /\ J = NoCommand
  BY <1>3, NewExecutorIsOK, Names DEF M, J
<1>5. stream \in StreamRecord /\ StreamFlows
  <2>1. <<>> \in Seq(Nat) /\ {} \in SUBSET PacketKinds /\ Len(<<>>) = 0 OBVIOUS
  <2>. DEFINE b == <<>>  g == {}
  <2>2. stream = [read |-> 0, gate |-> g, buffered |-> b, delivered |-> 0, gap |-> FALSE]
    BY <1>3 DEF NoStream
  <2>3. b \in Seq(Nat) /\ g \in SUBSET PacketKinds /\ Len(b) = 0 BY <2>1
  <2>. HIDE DEF b, g
  <2> QED BY <2>2, <2>3 DEF StreamRecord, StreamFlows
<1>6. LTypeOK BY <1>2, <1>3, <1>5 DEF LTypeOK, Starting, Waits
<1>7. CommandsFit BY <1>3, <1>4 DEF CommandsFit, StartUp
<1>8. AnswersFit BY <1>4 DEF AnswersFit
<1>9. ForwardsAnnounced BY <1>3 DEF ForwardsAnnounced, StartUp
<1>10. CleanedUp BY <1>3 DEF CleanedUp
<1>11. SocketsGone BY <1>3 DEF SocketsGone, Closing
<1> QED BY <1>4, <1>5, <1>6, <1>7, <1>8, <1>9, <1>10, <1>11 DEF LInv

LEMMA LStep ==
  ASSUME LInv, [Next]_vars
  PROVE  LInv'
<1>1. CASE Next
  BY <1>1, StartUpKeeps, CommandSettledKeeps, ProcessExitsKeeps, ExitWaitTimesOutKeeps,
     PacketBufferedKeeps, ReadFrameKeeps, ForwardsListedKeeps, ForwardsRemovedKeeps,
     JarsRemovedKeeps, CleanUpTimesOutKeeps, CommandEndsKeeps, DeviceGoesKeeps, OthersKeep
  DEF Next
<1>2. CASE UNCHANGED vars
  <2>1. UNCHANGED <<exec, step, launch, device, files, cache, forwards, stream>>
    BY <1>2 DEF vars
  <2>2. LTypeOK' BY <2>1 DEF LInv, LTypeOK
  <2>3. CommandsFit' BY <2>1 DEF LInv, CommandsFit, M, J
  <2>4. AnswersFit' BY <2>1 DEF LInv, AnswersFit, M, J
  <2>5. ForwardsAnnounced' BY <2>1 DEF LInv, ForwardsAnnounced
  <2>6. CleanedUp' BY <2>1 DEF LInv, CleanedUp, M, J
  <2>7. SocketsGone' BY <2>1 DEF LInv, SocketsGone
  <2>8. StreamFlows' BY <2>1 DEF LInv, StreamFlows
  <2> QED BY <2>1, <2>2, <2>3, <2>4, <2>5, <2>6, <2>7, <2>8 DEF LInv
<1> QED BY <1>1, <1>2

(* The launch, the executor, the device and the stream fit together in     *)
(* every reachable state: the inductive invariant of the start and the     *)
(* clean-up of a scrcpy session (startScrcpyTransport, closeWithReason).   *)
THEOREM LaunchInvariance == Spec => []LInv
BY LInit, LStep, PTL DEF Spec

(* However many commands compete, for every number of slots and of places, *)
(* the executor keeps no slot idle that a waiting command may use, and     *)
(* gives no reserve away (#drain, #canStartLane, #queueHasCapacity).       *)
THEOREM SlotsUsed == Spec => []SlotsAreUsed
<1>1. LInv => SlotsAreUsed BY DEF LInv, ExecOK, Core, SlotsAreUsed
<1> QED BY <1>1, LaunchInvariance, PTL

(* However the launch ended, a clean-up without an error left nothing on a *)
(* device that can be reached, and no half-written jar was ever cached     *)
(* (closeWithReason, prepareDeviceServerJar).                              *)
THEOREM LeftClean == Spec => []DeviceIsLeftClean
<1>1. ASSUME LInv PROVE DeviceIsLeftClean
  <2>1. cache # "partial" BY <1>1 DEF LInv, LTypeOK
  <2>2. ASSUME step = "closed"
        PROVE  /\ launch.sockets = {} /\ ~Running("main") /\ ~Running("jars")
               /\ launch.fw = "done" /\ launch.jars = "done"
    BY <1>1, <2>2, NoCommandIsIdle
    DEF LInv, SocketsGone, CommandsFit, M, J, Running, StartUp
  <2>3. ASSUME step = "closed", device, ~launch.errors
        PROVE  forwards = {} /\ files = {} /\ launch.proc # "running"
    BY <1>1, <2>2, <2>3 DEF LInv, CleanedUp
  <2> QED BY <2>1, <2>2, <2>3 DEF DeviceIsLeftClean
<1> QED BY <1>1, LaunchInvariance, PTL

(* The reader gets every packet of the stream once and in order, however   *)
(* many were kept back until a decoder could start                         *)
(* (prepareDecodableScrcpySession, readFrame).                             *)
THEOREM WholeStream == Spec => []StreamIsWhole
<1>1. LInv => StreamIsWhole BY DEF LInv, StreamFlows, StreamIsWhole
<1> QED BY <1>1, LaunchInvariance, PTL

-----------------------------------------------------------------------------
(* GrpcCapture. CInv is its inductive invariant. Its part about the queue, *)
(* QueueOK, is local: every packet fits its predecessor, the first one the *)
(* decoder. So it survives a push, a shift and the cut of an overflow      *)
(* without any induction over the packets.                                 *)

(* The queue.                                                              *)

Encoders == 0 .. MaxEncoders
PacketType == [kind : Kinds, encoder : Encoders, n : 0 .. MaxFrames, config : Encoders]
DecoderType == [config : Encoders, encoder : Encoders, n : 0 .. MaxFrames, broken : BOOLEAN]
QueueType ==
  [packets : Seq(PacketType), config : Encoders, session : BOOLEAN, awaiting : BOOLEAN,
   waiting : BOOLEAN, needsKey : BOOLEAN, over : BOOLEAN, gate : SUBSET Kinds,
   decoder : DecoderType]

\* Decoder d can take packet p, and packet p can come right after packet a.
Fits(d, p) ==
  /\ p.kind \in {"key", "delta"} => d.config = p.encoder
  /\ p.kind = "delta" => d.encoder = p.encoder /\ d.n + 1 = p.n
Follows(a, p) ==
  /\ p.kind \in {"key", "delta"} =>
       a.kind \in {"config", "key", "delta"} /\ a.encoder = p.encoder
  /\ p.kind = "delta" => a.kind \in {"key", "delta"} /\ a.n + 1 = p.n

\* Packets that a decoder takes one after the other without ever breaking.
Linked(ps) ==
  /\ \A i \in 1 .. Len(ps) - 1 : Follows(ps[i], ps[i + 1])
  /\ \A i \in 1 .. Len(ps) : ps[i].kind = "key" => ps[i].config = ps[i].encoder
Chain(d, ps) == (ps # <<>> => Fits(d, ps[1])) /\ Linked(ps)

\* Packet p can come next.
NextFits(q, p) ==
  IF q.packets = <<>> THEN Fits(q.decoder, p) ELSE Follows(q.packets[Len(q.packets)], p)

DecodableQueue(q) ==
  /\ q \in QueueType
  /\ q.over \/ QueuedBytes(q.packets) <= MaxBytes
  /\ ~q.decoder.broken
  /\ q.awaiting => q.packets = <<>>
  /\ Chain(q.decoder, q.packets)
QueueOK(q) == DecodableQueue(q) /\ (q.waiting => q.over \/ q.packets = <<>>)

\* The queue waits for a key frame, or for frame n of encoder e.
Ready(q, e, n) ==
  /\ q.config = e
  /\ q.awaiting \/ NextFits(q, Packet("delta", e, n))

-----------------------------------------------------------------------------
(* The session.                                                            *)

EncoderType ==
  [id : 0 .. MaxEncoders, size : DisplaySizes \cup {0}, alive : BOOLEAN,
   units : 0 .. MaxUnits, frames : 0 .. MaxFrames, output : BOOLEAN]

LifecycleType ==
  [last : 0 .. MaxEncoders, drain : {"none", "closing", "creating"},
   closed : BOOLEAN, announce : BOOLEAN, clear : BOOLEAN, pending : BOOLEAN]

\* Every variable but the queue holds a value the program can produce.
ValuesOK ==
  /\ options \in Options
  /\ phase \in {"probing", "first", "gate", "running", "closing", "closed"}
  /\ fatal \in BOOLEAN /\ fresh \in BOOLEAN /\ shutting \in BOOLEAN /\ client \in BOOLEAN
  /\ latest \in DisplaySizes \cup {0}
  /\ encoder \in EncoderType /\ lifecycle \in LifecycleType
  /\ timers \subseteq {"write", "flush", "idle"}
  /\ transport \in {"none", "open", "stopped", "closed"}
  /\ control \in {"none", "starting", "open", "closed"}
  /\ release \in {"none", "started", "done"}

\* Between two steps no push is under way, and the queue is over its limit only
\* if the session has failed.
QueueSettled ==
  /\ QueueOK(queue) /\ ~queue.needsKey
  /\ queue.over => fatal /\ ~queue.waiting

CaptureTypeOK == ValuesOK /\ QueueSettled

\* One encoder at a time, and its size.
OneEncoder ==
  /\ Current => lifecycle.drain = "none"
  /\ encoder.alive => Current
  /\ shutting => lifecycle.drain = "closing"
  /\ phase \in {"probing", "first"} => ~Current /\ lifecycle.drain = "none"
  /\ lifecycle.announce => lifecycle.clear
  /\ Current /\ ~Closed => encoder.size = latest

\* What close has ended already.
Ended ==
  /\ Closed <=> lifecycle.closed
  /\ Closed => timers = {} /\ ~queue.waiting /\ transport \in {"none", "stopped", "closed"}
  /\ phase = "closed" =>
       /\ ~Current /\ lifecycle.drain = "none" /\ ~client
       /\ transport \in {"none", "closed"} /\ control \in {"none", "closed"}

\* The queue goes on where the encoder does.
QueueReady ==
  Current /\ encoder.frames > 0 /\ ~fatal /\ ~Closed => Ready(queue, encoder.id, encoder.frames)

CInv == CaptureTypeOK /\ OneEncoder /\ Ended /\ QueueReady /\ NoImageStranded

-----------------------------------------------------------------------------
(* The size of a queue.                                                    *)

LEMMA Limits ==
  /\ MaxBytes \in Nat /\ MaxBytes # 0
  /\ MaxEncoders \in Nat /\ MaxFrames \in Nat /\ MaxUnits \in Nat
  /\ 0 \in Encoders /\ 0 \in 0 .. MaxFrames
BY CaptureAssumption DEF Encoders

LEMMA KeyFramesAreFinite ==
  ASSUME NEW ps \in Seq(PacketType)
  PROVE  /\ IsFiniteSet(KeyFrames(ps)) /\ Cardinality(KeyFrames(ps)) \in Nat
         /\ KeyFrames(ps) \subseteq 1 .. Len(ps) /\ Len(ps) \in Nat
         /\ QueuedBytes(ps) \in Nat
<1>1. KeyFrames(ps) \subseteq 1 .. Len(ps) /\ Len(ps) \in Nat BY DEF KeyFrames
<1>2. IsFiniteSet(1 .. Len(ps)) BY <1>1, FS_Interval
<1>3. IsFiniteSet(KeyFrames(ps)) BY <1>1, <1>2, FS_Subset
<1>4. Cardinality(KeyFrames(ps)) \in Nat BY <1>3, FS_CardinalityType
<1> QED BY <1>1, <1>3, <1>4 DEF QueuedBytes

LEMMA BytesOfAppend ==
  ASSUME NEW ps \in Seq(PacketType), NEW p \in PacketType
  PROVE  QueuedBytes(Append(ps, p)) = QueuedBytes(ps) + (IF p.kind = "key" THEN 2 ELSE 1)
<1>. DEFINE qs == Append(ps, p)  n == Len(ps)
<1>1. /\ n \in Nat /\ Len(qs) = n + 1 /\ qs[n + 1] = p
      /\ \A i \in 1 .. n : qs[i] = ps[i]
      /\ DOMAIN ps = 1 .. n /\ DOMAIN qs = 1 .. n + 1
  OBVIOUS
<1>. HIDE DEF qs, n
<1>2. KeyFrames(qs) = IF p.kind = "key" THEN KeyFrames(ps) \cup {n + 1} ELSE KeyFrames(ps)
  BY <1>1 DEF KeyFrames
<1>3. n + 1 \notin KeyFrames(ps) BY <1>1 DEF KeyFrames
<1>4. IsFiniteSet(KeyFrames(ps)) /\ Cardinality(KeyFrames(ps)) \in Nat BY KeyFramesAreFinite
<1>5. Cardinality(KeyFrames(ps) \cup {n + 1}) = Cardinality(KeyFrames(ps)) + 1
  BY <1>3, <1>4, FS_AddElement
<1>6. Cardinality(KeyFrames(qs)) =
        IF p.kind = "key" THEN Cardinality(KeyFrames(ps)) + 1 ELSE Cardinality(KeyFrames(ps))
  BY <1>2, <1>5
<1>7. QueuedBytes(qs) = n + 1 + Cardinality(KeyFrames(qs)) BY <1>1 DEF QueuedBytes
<1>8. QueuedBytes(ps) = n + Cardinality(KeyFrames(ps)) BY DEF QueuedBytes, n
<1> QED BY <1>1, <1>4, <1>6, <1>7, <1>8 DEF qs

LEMMA BytesOfTail ==
  ASSUME NEW ps \in Seq(PacketType), ps # <<>>
  PROVE  QueuedBytes(Tail(ps)) <= QueuedBytes(ps)
<1>. DEFINE qs == Tail(ps)  n == Len(ps)
<1>1. /\ n \in Nat /\ n >= 1 /\ Len(qs) = n - 1 /\ qs \in Seq(PacketType)
      /\ \A i \in 1 .. n - 1 : qs[i] = ps[i + 1]
      /\ DOMAIN ps = 1 .. n /\ DOMAIN qs = 1 .. n - 1
  OBVIOUS
<1>2. IsFiniteSet(KeyFrames(qs)) /\ Cardinality(KeyFrames(qs)) \in Nat
  BY <1>1, KeyFramesAreFinite
<1>. HIDE DEF qs, n
<1>. DEFINE f == [i \in KeyFrames(qs) |-> i + 1]
<1>3. f \in Injection(KeyFrames(qs), KeyFrames(ps))
  <2>1. ASSUME NEW i \in KeyFrames(qs) PROVE i \in Nat /\ i + 1 \in KeyFrames(ps)
    BY <1>1 DEF KeyFrames
  <2> QED BY <2>1 DEF Injection, IsInjective
<1>4. IsFiniteSet(KeyFrames(ps)) /\ Cardinality(KeyFrames(ps)) \in Nat BY KeyFramesAreFinite
<1>5. Cardinality(KeyFrames(qs)) <= Cardinality(KeyFrames(ps))
  <2>. HIDE DEF f
  <2> QED BY <1>3, <1>4, FS_Injection
<1>6. QueuedBytes(qs) = n - 1 + Cardinality(KeyFrames(qs)) BY <1>1 DEF QueuedBytes
<1>7. QueuedBytes(ps) = n + Cardinality(KeyFrames(ps)) BY DEF QueuedBytes, n
<1> QED BY <1>1, <1>2, <1>4, <1>5, <1>6, <1>7 DEF qs

LEMMA BytesOfNothing == QueuedBytes(<<>>) = 0 /\ <<>> \in Seq(PacketType)
<1>1. KeyFrames(<<>>) = {} BY DEF KeyFrames
<1> QED BY <1>1, FS_EmptySet DEF QueuedBytes

-----------------------------------------------------------------------------
(* Chains of packets.                                                      *)

LEMMA DecodedFits ==
  ASSUME NEW d \in DecoderType, ~d.broken, NEW a \in PacketType, Fits(d, a)
  PROVE  /\ Decoded(d, a) \in DecoderType /\ ~Decoded(d, a).broken
         /\ \A p : Follows(a, p) => Fits(Decoded(d, a), p)
<1>. DEFINE e == Decoded(d, a)
<1>0. /\ a.encoder \in Encoders /\ a.n \in 0 .. MaxFrames /\ a.kind \in Kinds /\ 0 \in Encoders
      /\ d.broken = FALSE
  BY Limits DEF PacketType, DecoderType
<1>1. CASE a.kind = "session"
  <2>1. e = [d EXCEPT !.config = 0] BY <1>1 DEF Decoded
  <2>2. e \in DecoderType /\ ~e.broken BY <1>0, <2>1 DEF DecoderType
  <2> QED BY <1>1, <2>2 DEF Follows, Fits
<1>2. CASE a.kind = "config"
  <2>1. e = [d EXCEPT !.config = a.encoder] BY <1>2 DEF Decoded
  <2>2. e \in DecoderType /\ ~e.broken /\ e.config = a.encoder BY <1>0, <2>1 DEF DecoderType
  <2>. HIDE DEF e
  <2> QED BY <1>2, <2>2 DEF Follows, Fits, e
<1>3. CASE a.kind = "key"
  <2>1. d.config = a.encoder BY <1>3 DEF Fits
  <2>2. e = [d EXCEPT !.encoder = a.encoder, !.n = a.n, !.broken = FALSE]
    BY <1>0, <1>3, <2>1 DEF Decoded
  <2>3. /\ e \in DecoderType /\ ~e.broken /\ e.config = a.encoder /\ e.encoder = a.encoder
        /\ e.n = a.n
    BY <1>0, <2>1, <2>2 DEF DecoderType
  <2>. HIDE DEF e
  <2> QED BY <1>3, <2>3 DEF Follows, Fits, e
<1>4. CASE a.kind = "delta"
  <2>1. d.config = a.encoder /\ d.encoder = a.encoder /\ d.n + 1 = a.n BY <1>4 DEF Fits
  <2>2. e = [d EXCEPT !.n = a.n, !.broken = FALSE]
    BY <1>0, <1>4, <2>1 DEF Decoded
  <2>3. /\ e \in DecoderType /\ ~e.broken /\ e.config = a.encoder /\ e.encoder = a.encoder
        /\ e.n = a.n
    BY <1>0, <2>1, <2>2 DEF DecoderType
  <2>. HIDE DEF e
  <2> QED BY <1>4, <2>3 DEF Follows, Fits, e
<1> QED BY <1>0, <1>1, <1>2, <1>3, <1>4 DEF Kinds

LEMMA LinkedAppend ==
  ASSUME NEW ps \in Seq(PacketType), NEW p \in PacketType, Linked(ps),
         ps # <<>> => Follows(ps[Len(ps)], p),
         p.kind = "key" => p.config = p.encoder
  PROVE  Linked(Append(ps, p))
<1>. DEFINE qs == Append(ps, p)  n == Len(ps)
<1>1. /\ n \in Nat /\ Len(qs) = n + 1 /\ qs[n + 1] = p
      /\ \A i \in 1 .. n : qs[i] = ps[i]
      /\ n # 0 => ps # <<>>
  OBVIOUS
<1>2. /\ \A i \in 1 .. n - 1 : Follows(ps[i], ps[i + 1])
      /\ \A i \in 1 .. n : ps[i].kind = "key" => ps[i].config = ps[i].encoder
      /\ n # 0 => Follows(ps[n], p)
  BY <1>1 DEF Linked
<1>. HIDE DEF qs, n
<1>3. ASSUME NEW i \in 1 .. n PROVE Follows(qs[i], qs[i + 1])
  <2>1. CASE i = n
    <3>1. n # 0 /\ qs[i] = ps[n] /\ qs[i + 1] = p BY <1>1, <2>1
    <3> QED BY <1>2, <3>1
  <2>2. CASE i # n
    <3>1. i \in 1 .. n - 1 /\ i + 1 \in 1 .. n BY <1>1, <2>2
    <3> QED BY <1>1, <1>2, <3>1
  <2> QED BY <2>1, <2>2
<1>4. ASSUME NEW i \in 1 .. n + 1 PROVE qs[i].kind = "key" => qs[i].config = qs[i].encoder
  <2>1. CASE i = n + 1 BY <1>1, <2>1
  <2>2. CASE i # n + 1
    <3>1. i \in 1 .. n BY <1>1, <2>2
    <3> QED BY <1>1, <1>2, <3>1
  <2> QED BY <2>1, <2>2
<1>5. 1 .. Len(qs) - 1 = 1 .. n /\ 1 .. Len(qs) = 1 .. n + 1 BY <1>1
<1>6. Linked(qs) BY <1>3, <1>4, <1>5 DEF Linked
<1> QED BY <1>6 DEF qs

LEMMA LinkedPrepend ==
  ASSUME NEW ps \in Seq(PacketType), NEW a \in PacketType, Linked(ps),
         ps # <<>> => Follows(a, ps[1]), a.kind # "key"
  PROVE  /\ Linked(<<a>> \o ps) /\ <<a>> \o ps \in Seq(PacketType)
         /\ Len(<<a>> \o ps) = Len(ps) + 1 /\ (<<a>> \o ps)[1] = a
         /\ \A i \in 1 .. Len(ps) : (<<a>> \o ps)[i + 1] = ps[i]
<1>. DEFINE qs == <<a>> \o ps  n == Len(ps)
<1>1. <<a>> \in Seq(PacketType) /\ Len(<<a>>) = 1 /\ <<a>>[1] = a OBVIOUS
<1>2. /\ n \in Nat /\ Len(qs) = n + 1 /\ qs[1] = a /\ qs \in Seq(PacketType)
      /\ \A i \in 1 .. n + 1 : qs[i] = IF i <= 1 THEN <<a>>[i] ELSE ps[i - 1]
      /\ n # 0 => ps # <<>>
  <2>1. n \in Nat /\ (n # 0 => ps # <<>>) OBVIOUS
  <2>2. /\ Len(qs) = 1 + n
        /\ \A i \in 1 .. 1 + n : qs[i] = IF i <= 1 THEN <<a>>[i] ELSE ps[i - 1]
    BY <1>1, ConcatProperties
  <2>3. qs \in Seq(PacketType) BY <1>1, ConcatProperties
  <2>. HIDE DEF qs, n
  <2>4. 1 + n = n + 1 /\ 1 \in 1 .. n + 1 BY <2>1
  <2> QED BY <1>1, <2>1, <2>2, <2>3, <2>4
<1>3. /\ \A i \in 1 .. n - 1 : Follows(ps[i], ps[i + 1])
      /\ \A i \in 1 .. n : ps[i].kind = "key" => ps[i].config = ps[i].encoder
      /\ n # 0 => Follows(a, ps[1])
  BY <1>2 DEF Linked
<1>. HIDE DEF qs, n
<1>4. ASSUME NEW i \in 1 .. n PROVE qs[i + 1] = ps[i]
  <2>1. i + 1 \in 1 .. n + 1 /\ ~(i + 1 <= 1) /\ i + 1 - 1 = i BY <1>2
  <2> QED BY <1>2, <2>1
<1>5. ASSUME NEW i \in 1 .. n PROVE Follows(qs[i], qs[i + 1])
  <2>1. CASE i = 1
    <3>1. n # 0 /\ qs[i] = a /\ qs[i + 1] = ps[1] BY <1>2, <1>4, <2>1
    <3> QED BY <1>3, <3>1
  <2>2. CASE i # 1
    <3>0. n \in Nat BY <1>2
    <3>1. i - 1 \in 1 .. n - 1 /\ i - 1 \in 1 .. n /\ i - 1 + 1 = i BY <3>0, <2>2
    <3>2. qs[i] = ps[i - 1] /\ qs[i + 1] = ps[i] BY <1>4, <3>1
    <3>3. Follows(ps[i - 1], ps[i]) BY <1>3, <3>1
    <3> QED BY <3>2, <3>3
  <2> QED BY <2>1, <2>2
<1>6. ASSUME NEW i \in 1 .. n + 1 PROVE qs[i].kind = "key" => qs[i].config = qs[i].encoder
  <2>1. CASE i = 1 BY <1>2, <2>1
  <2>2. CASE i # 1
    <3>0. n \in Nat BY <1>2
    <3>1. i - 1 \in 1 .. n /\ i - 1 + 1 = i BY <3>0, <2>2
    <3>2. qs[i] = ps[i - 1] BY <1>4, <3>1
    <3> QED BY <1>3, <3>1, <3>2
  <2> QED BY <2>1, <2>2
<1>7. 1 .. Len(qs) - 1 = 1 .. n /\ 1 .. Len(qs) = 1 .. n + 1 BY <1>2
<1>8. Linked(qs) BY <1>5, <1>6, <1>7 DEF Linked
<1> QED BY <1>2, <1>4, <1>8 DEF qs, n

LEMMA LinkedTail ==
  ASSUME NEW ps \in Seq(PacketType), ps # <<>>, Linked(ps)
  PROVE  /\ Linked(Tail(ps)) /\ Tail(ps) \in Seq(PacketType) /\ Len(Tail(ps)) = Len(ps) - 1
         /\ Tail(ps) # <<>> => /\ Follows(ps[1], Tail(ps)[1])
                               /\ Tail(ps)[Len(Tail(ps))] = ps[Len(ps)]
         /\ Tail(ps) = <<>> => ps[Len(ps)] = ps[1]
<1>. DEFINE qs == Tail(ps)  n == Len(ps)
<1>1. /\ n \in Nat /\ n >= 1 /\ Len(qs) = n - 1 /\ qs \in Seq(PacketType)
      /\ \A i \in 1 .. n - 1 : qs[i] = ps[i + 1]
      /\ qs = <<>> <=> n = 1
  <2>1. n \in Nat /\ n >= 1 /\ Len(qs) = n - 1 /\ qs \in Seq(PacketType) OBVIOUS
  <2>2. \A i \in 1 .. n - 1 : qs[i] = ps[i + 1] OBVIOUS
  <2>3. qs = <<>> <=> Len(qs) = 0 BY <2>1
  <2>. HIDE DEF qs, n
  <2> QED BY <2>1, <2>2, <2>3
<1>2. /\ \A i \in 1 .. n - 1 : Follows(ps[i], ps[i + 1])
      /\ \A i \in 1 .. n : ps[i].kind = "key" => ps[i].config = ps[i].encoder
  BY DEF Linked
<1>. HIDE DEF qs, n
<1>3. ASSUME NEW i \in 1 .. Len(qs) - 1 PROVE Follows(qs[i], qs[i + 1])
  <2>1. i \in 1 .. n - 1 /\ i + 1 \in 1 .. n - 1 BY <1>1
  <2> QED BY <1>1, <1>2, <2>1
<1>4. ASSUME NEW i \in 1 .. Len(qs) PROVE qs[i].kind = "key" => qs[i].config = qs[i].encoder
  <2>1. i \in 1 .. n - 1 /\ i + 1 \in 1 .. n BY <1>1
  <2> QED BY <1>1, <1>2, <2>1
<1>5. Linked(qs) BY <1>3, <1>4 DEF Linked
<1>6. qs # <<>> => Follows(ps[1], qs[1]) /\ qs[Len(qs)] = ps[n]
  <2>1. SUFFICES ASSUME qs # <<>> PROVE Follows(ps[1], qs[1]) /\ qs[Len(qs)] = ps[n] OBVIOUS
  <2>2. 1 \in 1 .. n - 1 /\ n - 1 \in 1 .. n - 1 /\ n - 1 + 1 = n /\ Len(qs) = n - 1
    BY <1>1, <2>1
  <2> QED BY <1>1, <1>2, <2>2
<1> QED BY <1>1, <1>5, <1>6 DEF qs, n

\* What follows a key frame, with that key frame.
LEMMA LinkedSuffix ==
  ASSUME NEW ps \in Seq(PacketType), Linked(ps), NEW k \in 1 .. Len(ps)
  PROVE  LET qs == SubSeq(ps, k, Len(ps))
         IN  /\ Linked(qs) /\ qs \in Seq(PacketType) /\ qs # <<>> /\ qs[1] = ps[k]
             /\ qs[Len(qs)] = ps[Len(ps)]
<1>. DEFINE qs == SubSeq(ps, k, Len(ps))  n == Len(ps)
<1>1. /\ n \in Nat /\ k \in 1 .. n /\ qs \in Seq(PacketType) /\ Len(qs) = n - k + 1
      /\ \A i \in 1 .. n - k + 1 : qs[i] = ps[k + i - 1]
  <2>1. n \in Nat /\ k \in 1 .. n /\ n \in 1 .. n OBVIOUS
  <2>2. /\ qs \in Seq(PacketType) /\ Len(qs) = n - k + 1
        /\ \A i \in 1 .. n - k + 1 : qs[i] = ps[k + i - 1]
    BY <2>1, SubSeqProperties
  <2> QED BY <2>1, <2>2
<1>2. /\ \A i \in 1 .. n - 1 : Follows(ps[i], ps[i + 1])
      /\ \A i \in 1 .. n : ps[i].kind = "key" => ps[i].config = ps[i].encoder
  BY DEF Linked
<1>. HIDE DEF qs, n
<1>3. ASSUME NEW i \in 1 .. Len(qs) - 1 PROVE Follows(qs[i], qs[i + 1])
  <2>1. /\ i \in 1 .. n - k + 1 /\ i + 1 \in 1 .. n - k + 1 /\ k + i - 1 \in 1 .. n - 1
        /\ k + i - 1 + 1 = k + (i + 1) - 1
    BY <1>1
  <2> QED BY <1>1, <1>2, <2>1
<1>4. ASSUME NEW i \in 1 .. Len(qs) PROVE qs[i].kind = "key" => qs[i].config = qs[i].encoder
  <2>1. i \in 1 .. n - k + 1 /\ k + i - 1 \in 1 .. n BY <1>1
  <2> QED BY <1>1, <1>2, <2>1
<1>5. Linked(qs) BY <1>3, <1>4 DEF Linked
<1>6. /\ 1 \in 1 .. n - k + 1 /\ k + 1 - 1 = k /\ Len(qs) \in 1 .. n - k + 1
      /\ k + Len(qs) - 1 = n
  BY <1>1
<1>7. qs[1] = ps[k] /\ qs[Len(qs)] = ps[n] BY <1>1, <1>6
<1>8. qs # <<>> BY <1>1, <1>6
<1> QED BY <1>1, <1>5, <1>7, <1>8 DEF qs, n

-----------------------------------------------------------------------------
(* The operations of the queue.                                            *)

LEMMA ShiftKeeps ==
  ASSUME NEW q, DecodableQueue(q), q.packets # <<>>
  PROVE  /\ QueueOK(Shift(q))
         /\ Shift(q).config = q.config /\ Shift(q).awaiting = q.awaiting
         /\ Shift(q).over = q.over /\ Shift(q).needsKey = q.needsKey /\ Shift(q).waiting = FALSE
         /\ \A p : NextFits(q, p) => NextFits(Shift(q), p)
<1>. DEFINE a == q.packets[1]  d == Decoded(q.decoder, a)  ps == Tail(q.packets)  s == Shift(q)
<1>1. /\ q \in QueueType /\ q.packets \in Seq(PacketType) /\ a \in PacketType
      /\ Head(q.packets) = a /\ q.decoder \in DecoderType /\ ~q.decoder.broken
      /\ Linked(q.packets) /\ Fits(q.decoder, a)
  BY DEF DecodableQueue, QueueType, Chain
<1>2. /\ d \in DecoderType /\ ~d.broken
      /\ \A p : Follows(a, p) => Fits(d, p)
  BY <1>1, DecodedFits
<1>3. /\ Linked(ps) /\ ps \in Seq(PacketType)
      /\ ps # <<>> => /\ Follows(a, ps[1]) /\ ps[Len(ps)] = q.packets[Len(q.packets)]
      /\ ps = <<>> => q.packets[Len(q.packets)] = a
  BY <1>1, LinkedTail
<1>4. q.over \/ QueuedBytes(ps) <= MaxBytes
  <2>1. /\ QueuedBytes(ps) <= QueuedBytes(q.packets)
        /\ q.over \/ QueuedBytes(q.packets) <= MaxBytes
    BY <1>1, BytesOfTail DEF DecodableQueue
  <2>2. QueuedBytes(ps) \in Nat /\ QueuedBytes(q.packets) \in Nat /\ MaxBytes \in Nat
    BY <1>1, <1>3, KeyFramesAreFinite, Limits
  <2> QED BY <2>1, <2>2
<1>5. s = [q EXCEPT !.packets = ps, !.waiting = FALSE, !.decoder = d]
  BY <1>1 DEF Shift
<1>. HIDE DEF a, d, ps, s
<1>6. /\ s \in QueueType /\ s.packets = ps /\ s.decoder = d /\ s.waiting = FALSE
      /\ s.config = q.config /\ s.awaiting = q.awaiting /\ s.over = q.over
      /\ s.needsKey = q.needsKey
  BY <1>1, <1>2, <1>3, <1>5 DEF QueueType
<1>7. ~s.awaiting BY <1>6 DEF DecodableQueue
<1>8. Chain(d, ps) BY <1>2, <1>3 DEF Chain
<1>9. QueueOK(s) BY <1>2, <1>4, <1>6, <1>7, <1>8 DEF QueueOK, DecodableQueue
<1>10. ASSUME NEW p, NextFits(q, p) PROVE NextFits(s, p)
  <2>1. Follows(q.packets[Len(q.packets)], p) BY <1>10 DEF NextFits
  <2> QED BY <1>2, <1>3, <1>6, <2>1 DEF NextFits
<1> QED BY <1>6, <1>9, <1>10 DEF s

LEMMA ClearKeeps ==
  ASSUME NEW q, DecodableQueue(q)
  PROVE  /\ QueueOK(Clear(q))
         /\ Clear(q).packets = <<>> /\ Clear(q).awaiting = FALSE /\ Clear(q).over = FALSE
         /\ Clear(q).needsKey = FALSE /\ Clear(q).waiting = q.waiting
<1>. DEFINE b == <<>>  s == Clear(q)
<1>1. q \in QueueType /\ ~q.decoder.broken BY DEF DecodableQueue
<1>2. b \in Seq(PacketType) /\ QueuedBytes(b) <= MaxBytes /\ Len(b) = 0
  BY BytesOfNothing, Limits
<1>3. s = [packets |-> b, config |-> 0, session |-> FALSE, awaiting |-> FALSE,
           waiting |-> q.waiting, needsKey |-> FALSE, over |-> FALSE, gate |-> q.gate,
           decoder |-> q.decoder]
  <2>. DEFINE d0 == [config |-> 0, encoder |-> 0, n |-> 0, broken |-> FALSE]
              n0 == [packets |-> b, config |-> 0, session |-> FALSE, awaiting |-> FALSE,
                     waiting |-> FALSE, needsKey |-> FALSE, over |-> FALSE, gate |-> {},
                     decoder |-> d0]
  <2>1. NewQueue = n0 BY DEF NewQueue
  <2>2. s = [NewQueue EXCEPT !.gate = q.gate, !.decoder = q.decoder, !.waiting = q.waiting]
    BY DEF Clear
  <2>. HIDE DEF b, s, d0
  <2> QED BY <2>1, <2>2
<1>4. Chain(q.decoder, b) BY <1>2 DEF Chain, Linked
<1>5. 0 \in Encoders BY Limits
<1>. HIDE DEF b, s
<1>6. /\ s.packets = b /\ s.awaiting = FALSE /\ s.over = FALSE /\ s.needsKey = FALSE
      /\ s.waiting = q.waiting /\ s.decoder = q.decoder
  BY <1>3
<1>7. s \in QueueType BY <1>1, <1>2, <1>3, <1>5 DEF QueueType
<1>8. QueueOK(s) BY <1>1, <1>2, <1>4, <1>6, <1>7 DEF QueueOK, DecodableQueue, b
<1> QED BY <1>6, <1>8 DEF s, b

LEMMA LastKeyFrameIs ==
  ASSUME NEW ps \in Seq(PacketType), KeyFrames(ps) # {}
  PROVE  LastKeyFrame(ps) \in KeyFrames(ps) /\ \A j \in KeyFrames(ps) : j <= LastKeyFrame(ps)
<1>1. KeyFrames(ps) \subseteq 1 .. Len(ps) /\ Len(ps) \in Nat BY KeyFramesAreFinite
<1>. DEFINE T == {m \in Nat : Len(ps) - m \in KeyFrames(ps)}
<1>2. T \subseteq Nat /\ T # {}
  <2>1. PICK k \in KeyFrames(ps) : TRUE OBVIOUS
  <2>2. Len(ps) - k \in Nat /\ Len(ps) - (Len(ps) - k) = k BY <1>1, <2>1
  <2>3. Len(ps) - k \in T BY <2>1, <2>2
  <2> QED BY <2>3
<1>3. PICK m \in T : \A n \in T : m <= n
  <2>. HIDE DEF T
  <2> QED BY <1>2, Least
<1>. DEFINE k == Len(ps) - m
<1>4. k \in KeyFrames(ps) BY <1>3
<1>5. ASSUME NEW j \in KeyFrames(ps) PROVE j <= k
  <2>1. Len(ps) - j \in Nat /\ Len(ps) - (Len(ps) - j) = j BY <1>1, <1>5
  <2>2. Len(ps) - j \in T BY <1>5, <2>1
  <2>3. m <= Len(ps) - j /\ m \in Nat BY <1>3, <2>2
  <2>. DEFINE n == Len(ps)
  <2>4. n \in Nat /\ j \in Nat /\ m \in Nat /\ m <= n - j BY <1>1, <1>5, <2>3
  <2>. HIDE DEF n
  <2>5. j <= n - m BY <2>4
  <2> QED BY <2>5 DEF n
<1>6. \E i \in KeyFrames(ps) : \A j \in KeyFrames(ps) : j <= i BY <1>4, <1>5
<1> QED BY <1>6 DEF LastKeyFrame

\* What is kept of a full queue: the config of a key frame, the key frame and
\* what follows it.
LEMMA ResumptionIs ==
  ASSUME NEW session \in BOOLEAN, NEW c \in Encoders, NEW frames \in Seq(PacketType),
         frames # <<>>, Linked(frames), frames[1].kind = "key", frames[1].encoder = c
  PROVE  LET R == Resumption(session, c, frames)
         IN  /\ R \in Seq(PacketType) /\ R # <<>> /\ Linked(R)
             /\ \A d : Fits(d, R[1])
             /\ R[Len(R)] = frames[Len(frames)]
<1>. DEFINE C == Packet("config", c, 0)  S == SessionPacket(c)  P == <<C>> \o frames
<1>1. /\ C \in PacketType /\ S \in PacketType /\ C.kind = "config" /\ S.kind = "session"
      /\ C.encoder = c
  BY Limits DEF Packet, SessionPacket, PacketType, Kinds
<1>2. Follows(C, frames[1]) BY <1>1 DEF Follows
<1>3. /\ Linked(P) /\ P \in Seq(PacketType) /\ Len(P) = Len(frames) + 1 /\ P[1] = C
      /\ \A i \in 1 .. Len(frames) : P[i + 1] = frames[i]
  <2>. HIDE DEF C, P
  <2> QED BY <1>1, <1>2, LinkedPrepend DEF P
<1>4. Len(frames) \in Nat /\ Len(frames) \in 1 .. Len(frames) OBVIOUS
<1>5. P # <<>> /\ P[Len(P)] = frames[Len(frames)]
  <2>. DEFINE n == Len(frames)
  <2>1. n \in Nat /\ Len(P) = n + 1 /\ P[n + 1] = frames[n] BY <1>3, <1>4
  <2>. HIDE DEF P, n
  <2>2. Len(P) # 0 BY <2>1
  <2> QED BY <2>1, <2>2 DEF n
<1>6. Follows(S, P[1]) BY <1>1, <1>3 DEF Follows
<1>. DEFINE Q == <<S>> \o P
<1>7. /\ Linked(Q) /\ Q \in Seq(PacketType) /\ Len(Q) = Len(P) + 1 /\ Q[1] = S
      /\ \A i \in 1 .. Len(P) : Q[i + 1] = P[i]
  <2>. HIDE DEF S, P, Q, C
  <2> QED BY <1>1, <1>3, <1>6, LinkedPrepend DEF Q
<1>8. Q # <<>> /\ Q[Len(Q)] = frames[Len(frames)]
  <2>. DEFINE n == Len(P)
  <2>0. n \in Nat /\ n >= 1 BY <1>3, <1>4
  <2>1. n \in Nat /\ Len(Q) = n + 1 /\ Q[n + 1] = P[n] BY <1>7, <2>0
  <2>. HIDE DEF P, Q, n
  <2>2. Len(Q) # 0 BY <2>1
  <2> QED BY <1>5, <2>1, <2>2 DEF n
<1>9. Resumption(session, c, frames) = IF session THEN Q ELSE P
  <2>1. <<S>> \in Seq(PacketType) /\ <<C>> \in Seq(PacketType) BY <1>1
  <2>2. (<<S>> \o <<C>>) \o frames = Q
    <3>. HIDE DEF S, C
    <3> QED BY <2>1, ConcatAssociative
  <2>3. <<>> \o <<C>> = <<C>>
    <3>. HIDE DEF C
    <3> QED BY <2>1, ConcatEmptySeq
  <2> QED BY <2>2, <2>3 DEF Resumption
<1>10. \A d : Fits(d, C) /\ Fits(d, S) BY <1>1 DEF Fits
<1>. HIDE DEF C, S, P, Q
<1> QED BY <1>3, <1>5, <1>7, <1>8, <1>9, <1>10

\* Packets whose last key frame starts a chain.
LEMMA OverflowKeeps ==
  ASSUME NEW q, DecodableQueue(q), ~q.awaiting, NEW ps \in Seq(PacketType), ps # <<>>,
         Chain(q.decoder, ps)
  PROVE  /\ DecodableQueue(Overflow(q, ps))
         /\ Overflow(q, ps).config = q.config /\ Overflow(q, ps).waiting = q.waiting
         /\ \/ Overflow(q, ps).awaiting
            \/ /\ Overflow(q, ps).packets # <<>>
               /\ Overflow(q, ps).packets[Len(Overflow(q, ps).packets)] = ps[Len(ps)]
<1>. DEFINE r == Overflow(q, ps)  k == LastKeyFrame(ps)
<1>1. q \in QueueType /\ ~q.decoder.broken /\ Linked(ps) BY DEF DecodableQueue, Chain
<1>2. CASE KeyFrames(ps) = {} \/ ps[k].config = 0
  <2>. DEFINE b == <<>>  t == SessionBefore(ps, Len(ps) + 1)
  <2>1. b \in Seq(PacketType) /\ QueuedBytes(b) <= MaxBytes /\ Len(b) = 0
    BY BytesOfNothing, Limits
  <2>2. t \in BOOLEAN BY DEF SessionBefore
  <2>3. r = [q EXCEPT !.packets = b, !.awaiting = TRUE, !.needsKey = TRUE, !.session = t]
    BY <1>2 DEF Overflow, DropUntilKeyFrame
  <2>4. Chain(q.decoder, b) BY <2>1 DEF Chain, Linked
  <2>. HIDE DEF b, t, r
  <2>5. /\ r \in QueueType /\ r.packets = b /\ r.awaiting = TRUE /\ r.config = q.config
        /\ r.waiting = q.waiting /\ r.over = q.over /\ r.decoder = q.decoder
    BY <1>1, <2>1, <2>2, <2>3 DEF QueueType
  <2>6. DecodableQueue(r) BY <1>1, <2>1, <2>4, <2>5 DEF DecodableQueue, b
  <2> QED BY <2>5, <2>6 DEF r
<1>3. CASE ~(KeyFrames(ps) = {} \/ ps[k].config = 0)
  <2>. DEFINE f == SubSeq(ps, k, Len(ps))  t == SessionBefore(ps, k)
              R == Resumption(t, ps[k].config, f)
  <2>1. /\ k \in KeyFrames(ps) /\ k \in 1 .. Len(ps) /\ ps[k].kind = "key"
        /\ ps[k] \in PacketType /\ Len(ps) \in Nat
    <3>1. k \in KeyFrames(ps) BY <1>3, LastKeyFrameIs
    <3>2. KeyFrames(ps) \subseteq 1 .. Len(ps) /\ Len(ps) \in Nat BY KeyFramesAreFinite
    <3>. HIDE DEF k
    <3> QED BY <3>1, <3>2 DEF KeyFrames
  <2>. HIDE DEF k
  <2>2. ps[k].config = ps[k].encoder BY <1>1, <2>1 DEF Linked
  <2>3. /\ Linked(f) /\ f \in Seq(PacketType) /\ f # <<>> /\ f[1] = ps[k]
        /\ f[Len(f)] = ps[Len(ps)]
    BY <1>1, <2>1, LinkedSuffix
  <2>4. t \in BOOLEAN BY DEF SessionBefore
  <2>5. ps[k].config \in Encoders BY <2>1 DEF PacketType
  <2>. DEFINE s == [q EXCEPT !.packets = ps]
  <2>6. r = IF QueuedBytes(R) > MaxBytes THEN [s EXCEPT !.over = TRUE]
            ELSE [s EXCEPT !.packets = R, !.session = FALSE, !.awaiting = FALSE]
    BY <1>3 DEF Overflow, Retained, k
  <2>. HIDE DEF f, t
  <2>7. /\ R \in Seq(PacketType) /\ R # <<>> /\ Linked(R)
        /\ \A d : Fits(d, R[1])
        /\ R[Len(R)] = f[Len(f)]
    BY <2>1, <2>2, <2>3, <2>4, <2>5, ResumptionIs, ZenonT(30)
  <2>8. /\ s \in QueueType /\ s.packets = ps /\ s.over = q.over /\ s.config = q.config
        /\ s.waiting = q.waiting /\ s.decoder = q.decoder /\ s.awaiting = q.awaiting
    BY <1>1 DEF QueueType
  <2>. HIDE DEF R, r, s
  <2>9. CASE QueuedBytes(R) > MaxBytes
    <3>1. /\ r \in QueueType /\ r.packets = ps /\ r.over = TRUE /\ r.config = q.config
          /\ r.waiting = q.waiting /\ r.decoder = q.decoder /\ r.awaiting = q.awaiting
      BY <2>6, <2>8, <2>9 DEF QueueType
    <3>2. DecodableQueue(r) BY <1>1, <3>1 DEF DecodableQueue
    <3> QED BY <3>1, <3>2 DEF r
  <2>10. CASE ~(QueuedBytes(R) > MaxBytes)
    <3>1. /\ r \in QueueType /\ r.packets = R /\ r.over = q.over /\ r.config = q.config
          /\ r.waiting = q.waiting /\ r.decoder = q.decoder /\ r.awaiting = FALSE
      BY <2>6, <2>7, <2>8, <2>10 DEF QueueType
    <3>2. QueuedBytes(R) <= MaxBytes BY <2>7, <2>10, KeyFramesAreFinite, Limits
    <3>3. Chain(r.decoder, R) BY <2>7 DEF Chain
    <3>4. DecodableQueue(r) BY <1>1, <3>1, <3>2, <3>3 DEF DecodableQueue
    <3> QED BY <2>3, <2>7, <3>1, <3>4 DEF r
  <2> QED BY <2>9, <2>10
<1> QED BY <1>2, <1>3

LEMMA ObservedKeeps ==
  ASSUME NEW q, DecodableQueue(q), NEW p \in PacketType
  PROVE  /\ DecodableQueue(Observed(q, p))
         /\ Observed(q, p).packets = q.packets /\ Observed(q, p).config = q.config
         /\ Observed(q, p).waiting = q.waiting /\ Observed(q, p).over = q.over
         /\ Observed(q, p).needsKey = q.needsKey /\ Observed(q, p).awaiting = q.awaiting
         /\ Observed(q, p).decoder = q.decoder
<1>. DEFINE r == Observed(q, p)  g == q.gate \cup {p.kind}
<1>1. q \in QueueType /\ g \subseteq Kinds BY DEF DecodableQueue, QueueType, PacketType
<1>2. r = [q EXCEPT !.gate = g] BY DEF Observed
<1>. HIDE DEF r, g
<1>3. /\ r \in QueueType /\ r.packets = q.packets /\ r.config = q.config
      /\ r.waiting = q.waiting /\ r.over = q.over /\ r.needsKey = q.needsKey
      /\ r.awaiting = q.awaiting /\ r.decoder = q.decoder
  BY <1>1, <1>2 DEF QueueType
<1>4. DecodableQueue(r) BY <1>3 DEF DecodableQueue
<1> QED BY <1>3, <1>4 DEF r

LEMMA QueuedKeeps ==
  ASSUME NEW q, DecodableQueue(q), ~q.awaiting, NEW p \in PacketType,
         p.kind = "key" => p.config = p.encoder, NextFits(q, p)
  PROVE  /\ DecodableQueue(Queued(q, p))
         /\ Queued(q, p).config = q.config /\ Queued(q, p).waiting = q.waiting
         /\ QueuedBytes(Append(q.packets, p)) <= MaxBytes =>
              Queued(q, p).over = q.over /\ Queued(q, p).needsKey = q.needsKey
         /\ \/ Queued(q, p).awaiting
            \/ /\ Queued(q, p).packets # <<>>
               /\ Queued(q, p).packets[Len(Queued(q, p).packets)] = p
<1>. DEFINE r == Queued(q, p)  ps == Append(q.packets, p)
<1>1. q \in QueueType /\ ~q.decoder.broken /\ q.packets \in Seq(PacketType) /\ Linked(q.packets)
  BY DEF DecodableQueue, QueueType, Chain
<1>2. /\ ps \in Seq(PacketType) /\ ps # <<>> /\ ps[Len(ps)] = p
      /\ q.packets # <<>> => ps[1] = q.packets[1]
      /\ q.packets = <<>> => ps[1] = p
  <2>. DEFINE w == q.packets
  <2>1. w \in Seq(PacketType) BY <1>1
  <2>. HIDE DEF w
  <2>2. /\ Append(w, p) \in Seq(PacketType) /\ Len(Append(w, p)) = Len(w) + 1
        /\ Len(w) \in Nat /\ Append(w, p)[Len(w) + 1] = p
        /\ \A i \in 1 .. Len(w) : Append(w, p)[i] = w[i]
    BY <2>1
  <2>3. Append(w, p) # <<>> BY <2>2
  <2>4. w # <<>> => 1 \in 1 .. Len(w) BY <2>1, <2>2
  <2>5. w = <<>> => Len(w) + 1 = 1 BY <2>1
  <2> QED BY <2>2, <2>3, <2>4, <2>5 DEF w
<1>3. Chain(q.decoder, ps)
  <2>1. Linked(ps) BY <1>1, LinkedAppend DEF NextFits
  <2>2. Fits(q.decoder, ps[1])
    <3>1. CASE q.packets = <<>> BY <1>2, <3>1 DEF NextFits
    <3>2. CASE q.packets # <<>> BY <1>2, <3>2 DEF DecodableQueue, Chain
    <3> QED BY <3>1, <3>2
  <2> QED BY <2>1, <2>2 DEF Chain
<1>4. r = IF QueuedBytes(ps) <= MaxBytes THEN [q EXCEPT !.packets = ps] ELSE Overflow(q, ps)
  BY DEF Queued
<1>5. CASE QueuedBytes(ps) <= MaxBytes
  <2>1. r = [q EXCEPT !.packets = ps] BY <1>4, <1>5
  <2>. HIDE DEF ps, r
  <2>2. /\ r \in QueueType /\ r.packets = ps /\ r.config = q.config /\ r.waiting = q.waiting
        /\ r.over = q.over /\ r.needsKey = q.needsKey /\ r.awaiting = q.awaiting
        /\ r.decoder = q.decoder
    BY <1>1, <1>2, <2>1 DEF QueueType
  <2>3. DecodableQueue(r) BY <1>1, <1>3, <1>5, <2>2 DEF DecodableQueue
  <2> QED BY <1>2, <2>2, <2>3 DEF r
<1>6. CASE ~(QueuedBytes(ps) <= MaxBytes)
  <2>1. r = Overflow(q, ps) BY <1>4, <1>6
  <2>. HIDE DEF ps, r
  <2>2. /\ DecodableQueue(r) /\ r.config = q.config /\ r.waiting = q.waiting
        /\ \/ r.awaiting
           \/ r.packets # <<>> /\ r.packets[Len(r.packets)] = ps[Len(ps)]
    BY <1>2, <1>3, <2>1, OverflowKeeps
  <2> QED BY <1>2, <1>6, <2>2 DEF r, ps
<1> QED BY <1>5, <1>6

LEMMA SkippedKeeps ==
  ASSUME NEW q, DecodableQueue(q), q.awaiting, NEW p \in PacketType,
         p.kind = "key" => p.config = p.encoder /\ q.config = p.encoder
  PROVE  /\ DecodableQueue(Skipped(q, p))
         /\ Skipped(q, p).config = q.config /\ Skipped(q, p).waiting = q.waiting
         /\ \/ Skipped(q, p).awaiting
            \/ /\ Skipped(q, p).packets # <<>>
               /\ Skipped(q, p).packets[Len(Skipped(q, p).packets)] = p
<1>. DEFINE r == Skipped(q, p)
<1>1. /\ q \in QueueType /\ ~q.decoder.broken /\ q.packets = <<>> /\ q.config \in Encoders
      /\ q.session \in BOOLEAN /\ q.awaiting = TRUE
  BY DEF DecodableQueue, QueueType
<1>2. CASE p.kind = "session"
  <2>1. r = [q EXCEPT !.session = TRUE] BY <1>2 DEF Skipped
  <2>. HIDE DEF r
  <2>2. /\ r \in QueueType /\ r.packets = q.packets /\ r.over = q.over /\ r.config = q.config
        /\ r.waiting = q.waiting /\ r.decoder = q.decoder /\ r.awaiting = q.awaiting
    BY <1>1, <2>1 DEF QueueType
  <2>3. DecodableQueue(r) BY <2>2 DEF DecodableQueue
  <2> QED BY <1>1, <2>2, <2>3 DEF r
<1>3. CASE p.kind = "key" /\ q.config # 0
  <2>. DEFINE R == Resumption(q.session, q.config, <<p>>)
  <2>1. r = IF QueuedBytes(R) > MaxBytes THEN [q EXCEPT !.over = TRUE]
            ELSE [q EXCEPT !.packets = R, !.session = FALSE, !.awaiting = FALSE]
    BY <1>3 DEF Skipped, Retained
  <2>2. R \in Seq(PacketType) /\ R # <<>> /\ Linked(R) /\ (\A d : Fits(d, R[1])) /\ R[Len(R)] = p
    <3>. DEFINE f == <<p>>
    <3>1. f \in Seq(PacketType) /\ f # <<>> /\ Len(f) = 1 /\ f[1] = p OBVIOUS
    <3>. HIDE DEF f
    <3>2. Linked(f) BY <1>3, <3>1 DEF Linked
    <3>3. f[1].kind = "key" /\ f[1].encoder = q.config BY <1>3, <3>1
    <3>. DEFINE X == Resumption(q.session, q.config, f)
    <3>4. /\ X \in Seq(PacketType) /\ X # <<>> /\ Linked(X)
          /\ \A d : Fits(d, X[1])
          /\ X[Len(X)] = f[Len(f)]
      BY <1>1, <3>1, <3>2, <3>3, ResumptionIs
    <3> QED BY <3>1, <3>4 DEF f
  <2>. HIDE DEF R, r
  <2>3. CASE QueuedBytes(R) > MaxBytes
    <3>1. /\ r \in QueueType /\ r.packets = q.packets /\ r.over = TRUE /\ r.config = q.config
          /\ r.waiting = q.waiting /\ r.decoder = q.decoder /\ r.awaiting = q.awaiting
      BY <1>1, <2>1, <2>3 DEF QueueType
    <3>2. DecodableQueue(r) BY <3>1 DEF DecodableQueue
    <3> QED BY <1>1, <3>1, <3>2 DEF r
  <2>4. CASE ~(QueuedBytes(R) > MaxBytes)
    <3>1. /\ r \in QueueType /\ r.packets = R /\ r.over = q.over /\ r.config = q.config
          /\ r.waiting = q.waiting /\ r.decoder = q.decoder /\ r.awaiting = FALSE
      BY <1>1, <2>1, <2>2, <2>4 DEF QueueType
    <3>2. QueuedBytes(R) <= MaxBytes BY <2>2, <2>4, KeyFramesAreFinite, Limits
    <3>3. Chain(r.decoder, R) BY <2>2 DEF Chain
    <3>4. DecodableQueue(r) BY <1>1, <3>1, <3>2, <3>3 DEF DecodableQueue
    <3> QED BY <2>2, <3>1, <3>4 DEF r
  <2> QED BY <2>3, <2>4
<1>4. CASE p.kind # "session" /\ ~(p.kind = "key" /\ q.config # 0)
  <2>1. r = q BY <1>4 DEF Skipped
  <2> QED BY <1>1, <2>1
<1> QED BY <1>2, <1>3, <1>4

\* A push leaves a queue that a decoder can take, which is dropped until the next
\* key frame, or goes on after what was pushed, or has failed.
LEMMA PushKeeps ==
  ASSUME NEW q, QueueOK(q), NEW p \in PacketType,
         p.kind = "key" => q.config = p.encoder, q.awaiting \/ NextFits(q, p)
  PROVE  /\ QueueOK(PushPacket(q, p))
         /\ PushPacket(q, p).config = IF p.kind = "config" THEN p.encoder ELSE q.config
         /\ ~q.awaiting /\ QueuedBytes(Append(q.packets, p)) <= MaxBytes =>
              PushPacket(q, p).over = q.over /\ PushPacket(q, p).needsKey = q.needsKey
         /\ \/ PushPacket(q, p).awaiting
            \/ \A x : Follows(p, x) => NextFits(PushPacket(q, p), x)
<1>. DEFINE noted == IF p.kind = "config" THEN [q EXCEPT !.config = p.encoder] ELSE q
            packet == IF p.kind = "key" THEN [p EXCEPT !.config = q.config] ELSE p
            r == IF q.awaiting THEN Skipped(noted, packet) ELSE Queued(noted, packet)
            f == PushPacket(q, p)
<1>1. /\ q \in QueueType /\ q.config \in Encoders /\ DecodableQueue(q)
      /\ q.packets \in Seq(PacketType) /\ p.encoder \in Encoders
  BY DEF QueueOK, DecodableQueue, QueueType, PacketType
<1>2. /\ noted \in QueueType /\ noted.packets = q.packets /\ noted.decoder = q.decoder
      /\ noted.awaiting = q.awaiting /\ noted.waiting = q.waiting /\ noted.over = q.over
      /\ noted.needsKey = q.needsKey
      /\ noted.config = IF p.kind = "config" THEN p.encoder ELSE q.config
  <2>1. CASE p.kind = "config" BY <1>1, <2>1 DEF QueueType
  <2>2. CASE p.kind # "config" BY <1>1, <2>2
  <2> QED BY <2>1, <2>2
<1>3. /\ packet \in PacketType /\ packet.kind = p.kind /\ packet.encoder = p.encoder
      /\ packet.n = p.n /\ (p.kind = "key" => packet.config = p.encoder)
  <2>1. CASE p.kind = "key" BY <1>1, <2>1 DEF PacketType
  <2>2. CASE p.kind # "key" BY <2>2
  <2> QED BY <2>1, <2>2
<1>4. f = IF r.over \/ r.awaiting THEN r ELSE Delivered(Observed(r, p))
  BY DEF PushPacket
<1>. HIDE DEF noted, packet
<1>5. DecodableQueue(noted) BY <1>1, <1>2 DEF DecodableQueue
<1>6. QueuedBytes(Append(noted.packets, packet)) = QueuedBytes(Append(q.packets, p))
  BY <1>1, <1>2, <1>3, BytesOfAppend
<1>7. NextFits(q, p) => NextFits(noted, packet)
  BY <1>2, <1>3 DEF NextFits, Fits, Follows
<1>8. /\ DecodableQueue(r) /\ r.config = noted.config /\ r.waiting = q.waiting
      /\ ~q.awaiting /\ QueuedBytes(Append(q.packets, p)) <= MaxBytes =>
           r.over = q.over /\ r.needsKey = q.needsKey
      /\ r.awaiting \/ (r.packets # <<>> /\ r.packets[Len(r.packets)] = packet)
  <2>1. CASE q.awaiting
    <3>1. packet.kind = "key" => packet.config = packet.encoder /\ noted.config = packet.encoder
      BY <1>2, <1>3
    <3>2. r = Skipped(noted, packet) BY <2>1
    <3>. HIDE DEF r
    <3> QED BY <1>2, <1>3, <1>5, <2>1, <3>1, <3>2, SkippedKeeps
  <2>2. CASE ~q.awaiting
    <3>1. NextFits(noted, packet) BY <1>7, <2>2
    <3>2. r = Queued(noted, packet) BY <2>2
    <3>. HIDE DEF r
    <3>3. /\ DecodableQueue(r) /\ r.config = noted.config /\ r.waiting = noted.waiting
          /\ QueuedBytes(Append(noted.packets, packet)) <= MaxBytes =>
               r.over = noted.over /\ r.needsKey = noted.needsKey
          /\ \/ r.awaiting
             \/ r.packets # <<>> /\ r.packets[Len(r.packets)] = packet
      <4>1. ~noted.awaiting /\ (packet.kind = "key" => packet.config = packet.encoder)
        BY <1>2, <1>3, <2>2
      <4>2. packet \in PacketType BY <1>3
      <4> QED BY ONLY <1>5, <3>1, <3>2, <4>1, <4>2, QueuedKeeps
    <3> QED BY <1>2, <1>6, <2>2, <3>3
  <2> QED BY <2>1, <2>2
<1>. HIDE DEF r, f
<1>9. \A x : r.awaiting \/ (Follows(p, x) => NextFits(r, x))
  BY <1>3, <1>8 DEF NextFits, Follows
<1>10. CASE r.over \/ r.awaiting
  <2>1. f = r BY <1>4, <1>10
  <2>2. QueueOK(r) BY <1>8, <1>10 DEF QueueOK, DecodableQueue
  <2> QED BY <1>2, <1>8, <1>9, <2>1, <2>2 DEF f
<1>11. CASE ~(r.over \/ r.awaiting)
  <2>. DEFINE s == Observed(r, p)
  <2>1. /\ DecodableQueue(s) /\ s.packets = r.packets /\ s.config = r.config
        /\ s.waiting = r.waiting /\ s.over = r.over /\ s.needsKey = r.needsKey
        /\ s.awaiting = r.awaiting
    BY <1>8, ObservedKeeps
  <2>2. f = IF s.waiting /\ s.packets # <<>> THEN Shift(s) ELSE s
    BY <1>4, <1>11 DEF Delivered
  <2>3. \A x : Follows(p, x) => NextFits(s, x)
    <3>1. s.packets # <<>> /\ s.packets[Len(s.packets)] = packet BY <1>8, <1>11, <2>1
    <3> QED BY <1>3, <3>1 DEF NextFits, Follows
  <2>. HIDE DEF s
  <2>4. CASE s.waiting /\ s.packets # <<>>
    <3>1. f = Shift(s) BY <2>2, <2>4
    <3>2. /\ QueueOK(f) /\ f.config = s.config /\ f.awaiting = s.awaiting
          /\ f.over = s.over /\ f.needsKey = s.needsKey
          /\ \A x : NextFits(s, x) => NextFits(f, x)
      BY <2>1, <2>4, <3>1, ShiftKeeps
    <3> QED BY <1>2, <1>8, <2>1, <2>3, <3>2 DEF f
  <2>5. CASE ~(s.waiting /\ s.packets # <<>>)
    <3>1. f = s BY <2>2, <2>5
    <3>2. QueueOK(s) BY <2>1, <2>5 DEF QueueOK
    <3> QED BY <1>2, <1>8, <2>1, <2>3, <3>1, <3>2 DEF f
  <2> QED BY <2>4, <2>5
<1> QED BY <1>10, <1>11

\* An access unit of the encoder is pushed, the first one with its config.
LEMMA EmittedKeeps ==
  ASSUME QueueOK(queue), encoder.id \in Encoders, NEW n \in 0 .. MaxFrames - 1,
         NEW kind \in {"key", "delta"}, n # 0 => Ready(queue, encoder.id, n)
  PROVE  /\ QueueOK(Emitted(queue, kind, n))
         /\ \/ Emitted(queue, kind, n).over
            \/ Emitted(queue, kind, n).needsKey
            \/ Ready(Emitted(queue, kind, n), encoder.id, n + 1)
<1>. DEFINE id == encoder.id  x == Packet("delta", id, n + 1)
<1>0. n \in 0 .. MaxFrames /\ n \in Nat /\ n + 1 \in 0 .. MaxFrames BY Limits
<1>1. CASE n = 0
  <2>. DEFINE c == Packet("config", id, 0)  k == Packet("key", id, 0)
              q1 == PushPacket(queue, c)  q2 == PushPacket(q1, k)
  <2>1. /\ c \in PacketType /\ k \in PacketType /\ c.kind = "config" /\ k.kind = "key"
        /\ c.encoder = id /\ k.encoder = id /\ k.n = 0
    BY Limits DEF Packet, PacketType, Kinds
  <2>2. NextFits(queue, c) BY <2>1 DEF NextFits, Fits, Follows
  <2>3. Follows(c, k) /\ Follows(k, x) BY <1>1, <2>1 DEF Follows, Packet
  <2>4. Emitted(queue, kind, n) = IF q1.over \/ (q1.needsKey /\ q2.over) THEN q1 ELSE q2
    BY <1>0, <1>1 DEF Emitted
  <2>. HIDE DEF c, k, x, id
  <2>5. /\ QueueOK(q1) /\ q1.config = id
        /\ q1.awaiting \/ \A y : Follows(c, y) => NextFits(q1, y)
    BY <2>1, <2>2, PushKeeps
  <2>6. q1.awaiting \/ NextFits(q1, k) BY <2>3, <2>5
  <2>. HIDE DEF q1
  <2>7. /\ QueueOK(q2) /\ q2.config = id
        /\ q2.awaiting \/ \A y : Follows(k, y) => NextFits(q2, y)
    BY <2>1, <2>5, <2>6, PushKeeps
  <2>8. q2.awaiting \/ NextFits(q2, x) BY <2>3, <2>7
  <2>. HIDE DEF q2
  <2> QED BY <2>4, <2>5, <2>7, <2>8 DEF Ready, x, id
<1>2. CASE n # 0
  <2>. DEFINE p == Packet(kind, id, n)  q == PushPacket(queue, p)  y0 == Packet("delta", id, n)
  <2>1. p \in PacketType /\ p.kind = kind /\ p.encoder = id /\ p.n = n
    BY <1>0, Limits DEF Packet, PacketType, Kinds
  <2>2. y0.kind = "delta" /\ y0.encoder = id /\ y0.n = n BY DEF Packet
  <2>3. Emitted(queue, kind, n) = q BY <1>0, <1>2 DEF Emitted
  <2>4. Follows(p, x) BY <1>0, <2>1 DEF Follows, Packet
  <2>5. queue.config = id /\ (queue.awaiting \/ NextFits(queue, y0)) BY <1>2 DEF Ready
  <2>. HIDE DEF p, y0, x, id
  <2>6. NextFits(queue, y0) => NextFits(queue, p)
    BY <2>1, <2>2 DEF NextFits, Fits, Follows
  <2>7. /\ QueueOK(q) /\ q.config = id
        /\ q.awaiting \/ \A y : Follows(p, y) => NextFits(q, y)
    BY <2>1, <2>5, <2>6, PushKeeps
  <2>8. q.awaiting \/ NextFits(q, x) BY <2>4, <2>7
  <2>. HIDE DEF q
  <2> QED BY <2>3, <2>7, <2>8 DEF Ready, x, id
<1> QED BY <1>1, <1>2

LEMMA AnnouncedKeeps ==
  ASSUME QueueOK(queue), queue.over => fatal /\ ~queue.waiting, ~queue.needsKey,
         NEW id \in Encoders, lifecycle.announce => lifecycle.clear
  PROVE  /\ QueueOK(Announced(queue, id)) /\ ~Announced(queue, id).needsKey
         /\ Announced(queue, id).over => fatal /\ ~Announced(queue, id).waiting
<1>. DEFINE c == Clear(queue)  p == SessionPacket(id)  q == PushPacket(c, p)
<1>1. /\ QueueOK(c) /\ c.packets = <<>> /\ c.awaiting = FALSE /\ c.over = FALSE
      /\ c.needsKey = FALSE
  BY ClearKeeps DEF QueueOK
<1>2. p \in PacketType /\ p.kind = "session"
  BY Limits DEF SessionPacket, Packet, PacketType, Kinds
<1>. HIDE DEF c, p
<1>3. NextFits(c, p) BY <1>2 DEF NextFits, Fits, Follows
<1>4. QueuedBytes(Append(c.packets, p)) <= MaxBytes
  <2>1. QueuedBytes(Append(c.packets, p)) = 0 + 1
    BY <1>1, <1>2, BytesOfNothing, BytesOfAppend
  <2> QED BY <2>1, Limits
<1>5. QueueOK(q) /\ q.over = FALSE /\ q.needsKey = FALSE
  BY <1>1, <1>2, <1>3, <1>4, PushKeeps
<1>6. Announced(queue, id) =
        IF lifecycle.clear THEN IF lifecycle.announce /\ ~fatal THEN q ELSE c ELSE queue
  BY DEF Announced, c, p
<1>. HIDE DEF q
<1> QED BY <1>1, <1>5, <1>6

-----------------------------------------------------------------------------
(* Writing to the encoder.                                                 *)

\* A write to encoder e, with the timers armed: it is still the same encoder, and
\* an image it did not take will be offered again.
Written(e, armed) ==
  /\ encoder' \in EncoderType /\ fresh' \in BOOLEAN /\ timers' \subseteq {"write", "flush", "idle"}
  /\ encoder'.id = e.id /\ encoder'.size = e.size /\ encoder'.alive = e.alive
  /\ encoder'.frames = e.frames
  /\ Closed => timers' = armed
  /\ Closed \/ fatal \/ e.id = 0 \/ ~fresh' \/ timers' \cap {"write", "flush"} # {}

LEMMA WriteKeeps ==
  ASSUME NEW e \in EncoderType, NEW isNew \in BOOLEAN, NEW repeat \in BOOLEAN,
         NEW armed \in SUBSET {"write", "flush", "idle"}, WriteFrame(e, isNew, armed, repeat)
  PROVE  Written(e, armed)
<1>1. CASE Closed \/ fatal \/ e.id = 0
  <2>1. encoder' = e /\ fresh' = isNew /\ timers' = armed BY <1>1 DEF WriteFrame
  <2> QED BY <1>1, <2>1 DEF Written
<1>2. CASE ~(Closed \/ fatal \/ e.id = 0)
  <2>1. PICK accepted \in BOOLEAN :
          /\ accepted => e.units < MaxUnits
          /\ encoder' = IF accepted THEN [e EXCEPT !.units = @ + 1] ELSE e
          /\ fresh' = (isNew /\ ~accepted)
          /\ timers' = FollowUp(armed, repeat, accepted, e.output)
    BY <1>2 DEF WriteFrame
  <2>2. timers' \subseteq {"write", "flush", "idle"} BY <2>1 DEF FollowUp
  <2>3. accepted \/ timers' \cap {"write", "flush"} # {}
    <3>1. SUFFICES ASSUME ~accepted PROVE timers' \cap {"write", "flush"} # {} OBVIOUS
    <3>2. CASE ~repeat BY <2>1, <3>1, <3>2 DEF FollowUp
    <3>3. CASE repeat BY <2>1, <3>1, <3>3 DEF FollowUp
    <3> QED BY <3>2, <3>3
  <2>4. /\ encoder' \in EncoderType
        /\ encoder'.id = e.id /\ encoder'.size = e.size /\ encoder'.alive = e.alive
        /\ encoder'.frames = e.frames
    <3>1. CASE accepted
      <4>1. e.units \in 0 .. MaxUnits /\ e.units < MaxUnits BY <2>1, <3>1 DEF EncoderType
      <4>2. e.units + 1 \in 0 .. MaxUnits BY <4>1, Limits
      <4> QED BY <2>1, <3>1, <4>2 DEF EncoderType
    <3>2. CASE ~accepted BY <2>1, <3>2
    <3> QED BY <3>1, <3>2
  <2>5. fresh' \in BOOLEAN /\ (accepted => ~fresh') BY <2>1
  <2> QED BY <1>2, <2>2, <2>3, <2>4, <2>5 DEF Written
<1> QED BY <1>1, <1>2

LEMMA ScheduleKeeps ==
  ASSUME encoder \in EncoderType, NEW isNew \in BOOLEAN,
         NEW armed \in SUBSET {"write", "flush", "idle"}, ScheduleWrite(isNew, armed)
  PROVE  Written(encoder, armed)
<1>1. CASE "write" \in armed \/ Closed \/ encoder.id = 0
  <2>1. encoder' = encoder /\ fresh' = isNew /\ timers' = armed BY <1>1 DEF ScheduleWrite
  <2> QED BY <1>1, <2>1 DEF Written
<1>2. CASE ~("write" \in armed \/ Closed \/ encoder.id = 0)
  <2>1. CASE encoder' = encoder /\ fresh' = isNew /\ timers' = armed \cup {"write"}
    BY <1>2, <2>1 DEF Written
  <2>2. CASE WriteFrame(encoder, isNew, armed, FALSE) BY <2>2, WriteKeeps
  <2> QED BY <1>2, <2>1, <2>2 DEF ScheduleWrite
<1> QED BY <1>1, <1>2

-----------------------------------------------------------------------------
(* The steps.                                                              *)

\* A write, by a timer or for a new image.
LEMMA WrittenKeeps ==
  ASSUME CInv, NEW armed \in SUBSET timers, Written(encoder, armed),
         UNCHANGED <<phase, fatal, queue, shutting, lifecycle, ends>>,
         latest' \in DisplaySizes \cup {0}, ~Current \/ latest' \in {latest, encoder.size},
         phase \notin {"probing", "first"} \/ latest' = latest
  PROVE  CInv'
<1>1. ValuesOK /\ QueueSettled BY DEF CInv, CaptureTypeOK
<1>2. ValuesOK' /\ QueueSettled'
  BY <1>1 DEF ValuesOK, QueueSettled, Written, ends
<1>3. CaptureTypeOK' BY <1>2 DEF CaptureTypeOK
<1>4. Current' = Current /\ Closed' = Closed BY DEF Written, Current, Closed
<1>5. OneEncoder'
  BY <1>4 DEF CInv, OneEncoder, Written
<1>6. Ended' BY <1>4 DEF CInv, Ended, Written, ends
<1>7. QueueReady' BY <1>4 DEF CInv, QueueReady, Written
<1>8. NoImageStranded' BY <1>4 DEF NoImageStranded, Written, Current
<1> QED BY <1>3, <1>5, <1>6, <1>7, <1>8 DEF CInv

LEMMA WritesKeep ==
  ASSUME CInv, WriteTimerFires \/ FlushTimerFires \/ IdleTick
  PROVE  CInv'
<1>1. /\ encoder \in EncoderType /\ fresh \in BOOLEAN /\ latest \in DisplaySizes \cup {0}
      /\ timers \in SUBSET {"write", "flush", "idle"}
  BY DEF CInv, CaptureTypeOK, ValuesOK
<1>2. /\ UNCHANGED <<phase, fatal, queue, latest, shutting, lifecycle, ends>>
      /\ \/ ScheduleWrite(fresh, timers \ {"write"})
         \/ WriteFrame(encoder, fresh, timers \ {"flush"}, TRUE)
         \/ WriteFrame(encoder, fresh, timers, TRUE)
  BY DEF WriteTimerFires, FlushTimerFires, IdleTick
<1>3. \E armed \in SUBSET timers : Written(encoder, armed)
  <2>1. CASE ScheduleWrite(fresh, timers \ {"write"})
    <3>1. Written(encoder, timers \ {"write"}) BY <1>1, <2>1, ScheduleKeeps
    <3> QED BY <3>1
  <2>2. CASE WriteFrame(encoder, fresh, timers \ {"flush"}, TRUE)
    <3>1. Written(encoder, timers \ {"flush"}) BY <1>1, <2>2, WriteKeeps
    <3> QED BY <3>1
  <2>3. CASE WriteFrame(encoder, fresh, timers, TRUE)
    <3>1. Written(encoder, timers) BY <1>1, <2>3, WriteKeeps
    <3> QED BY <3>1
  <2> QED BY <1>2, <2>1, <2>2, <2>3
<1> QED BY <1>1, <1>2, <1>3, WrittenKeeps

\* A restart, as one image, a reset or a full queue may ask for it.
LEMMA RestartKeeps ==
  ASSUME CInv, NEW b \in BOOLEAN, Restart(b, b), phase' \in {"gate", "running"},
         ~Closed, UNCHANGED <<fatal, ends>>, latest' \in DisplaySizes \cup {0},
         fresh' \in BOOLEAN, QueueSettled'
  PROVE  CInv'
<1>1. ValuesOK BY DEF CInv, CaptureTypeOK
<1>2. /\ timers' = timers \ {"write", "flush"}
      /\ lifecycle' \in LifecycleType
      /\ lifecycle'.closed = lifecycle.closed
      /\ lifecycle'.announce => lifecycle'.clear
      /\ lifecycle'.drain # "none"
      /\ lifecycle.drain = "none" /\ Current => lifecycle'.drain = "closing"
      /\ lifecycle.drain # "none" => lifecycle'.drain = lifecycle.drain
  <2>1. lifecycle \in LifecycleType /\ (lifecycle.announce => lifecycle.clear)
    BY <1>1 DEF ValuesOK, CInv, OneEncoder
  <2>. DEFINE a == lifecycle.announce \/ b  c == lifecycle.clear \/ b
              d == IF lifecycle.drain # "none" THEN lifecycle.drain
                   ELSE IF Current THEN "closing" ELSE "creating"
  <2>2. lifecycle' = [lifecycle EXCEPT !.pending = TRUE, !.announce = a, !.clear = c, !.drain = d]
    BY DEF Restart
  <2>3. a \in BOOLEAN /\ c \in BOOLEAN /\ (a => c) BY <2>1 DEF LifecycleType
  <2>4. /\ d \in {"closing", "creating"}
        /\ lifecycle.drain = "none" /\ Current => d = "closing"
        /\ lifecycle.drain # "none" => d = lifecycle.drain
    BY <2>1 DEF LifecycleType
  <2>. HIDE DEF a, c, d
  <2>5. /\ lifecycle' \in LifecycleType /\ lifecycle'.closed = lifecycle.closed
        /\ lifecycle'.announce = a /\ lifecycle'.clear = c /\ lifecycle'.drain = d
    BY <2>1, <2>2, <2>3, <2>4 DEF LifecycleType
  <2>6. timers' = timers \ {"write", "flush"} BY DEF Restart
  <2> QED BY <2>3, <2>4, <2>5, <2>6
<1>3. /\ encoder' \in EncoderType /\ shutting' \in BOOLEAN /\ ~Current' /\ ~encoder'.alive
      /\ shutting' => lifecycle'.drain = "closing"
  <2>1. CASE lifecycle.drain = "none" /\ Current
    <3>1. encoder' = NoEncoder /\ shutting' = encoder.alive /\ encoder.alive \in BOOLEAN
      BY <1>1, <2>1 DEF Restart, ValuesOK, EncoderType
    <3>2. /\ NoEncoder \in EncoderType /\ NoEncoder.id = 0 /\ ~NoEncoder.alive
      BY Limits DEF NoEncoder, EncoderType, Encoders
    <3> QED BY <1>2, <2>1, <3>1, <3>2 DEF Current
  <2>2. CASE ~(lifecycle.drain = "none" /\ Current)
    <3>1. UNCHANGED <<shutting, encoder>> BY <2>2 DEF Restart
    <3>2. ~Current /\ ~encoder.alive BY <2>2 DEF CInv, OneEncoder
    <3>3. shutting => lifecycle.drain = "closing" BY DEF CInv, OneEncoder
    <3> QED BY <1>1, <1>2, <3>1, <3>2, <3>3 DEF ValuesOK, Current
  <2> QED BY <2>1, <2>2
<1>4. ValuesOK' BY <1>1, <1>2, <1>3 DEF ValuesOK, ends
<1>5. CaptureTypeOK' BY <1>4 DEF CaptureTypeOK
<1>6. ~Closed' BY DEF Closed
<1>7. OneEncoder' BY <1>2, <1>3 DEF OneEncoder
<1>8. Ended' BY <1>2, <1>6 DEF CInv, Ended, Closed
<1>9. QueueReady' BY <1>3 DEF QueueReady
<1>10. NoImageStranded' BY <1>3 DEF NoImageStranded
<1> QED BY <1>5, <1>7, <1>8, <1>9, <1>10 DEF CInv

LEMMA RestartsKeep ==
  ASSUME CInv, ResetVideo \/ \E size \in DisplaySizes : ImageArrives(size)
  PROVE  CInv'
<1>0. ValuesOK /\ QueueSettled BY DEF CInv, CaptureTypeOK
<1>1. CASE ResetVideo
  <2>1. Restart(FALSE, FALSE) /\ phase = "running"
        /\ UNCHANGED <<phase, fatal, queue, imageVars, ends>>
    BY <1>1 DEF ResetVideo
  <2> QED BY <1>0, <2>1, RestartKeeps DEF Closed, imageVars, ValuesOK, QueueSettled
<1>2. ASSUME NEW size \in DisplaySizes, ImageArrives(size) PROVE CInv'
  <2>1. /\ phase \in {"first", "gate", "running"} /\ latest' = size
        /\ UNCHANGED <<fatal, queue, ends>> /\ ~Closed
        /\ phase' = IF phase = "first" THEN "gate" ELSE phase
    BY <1>2 DEF ImageArrives, Closed
  <2>2. CASE phase = "first"
    <3>1. Restart(FALSE, FALSE) /\ fresh' = TRUE BY <1>2, <2>2 DEF ImageArrives
    <3> QED BY <1>0, <2>1, <2>2, <3>1, RestartKeeps DEF QueueSettled
  <2>3. CASE phase # "first" /\ Current /\ size # encoder.size
    <3>1. Restart(TRUE, TRUE) /\ fresh' = TRUE BY <1>2, <2>3 DEF ImageArrives
    <3> QED BY <1>0, <2>1, <2>3, <3>1, RestartKeeps DEF QueueSettled
  <2>4. CASE phase # "first" /\ ~(Current /\ size # encoder.size)
    <3>1. ScheduleWrite(TRUE, timers) /\ UNCHANGED <<shutting, lifecycle>>
      BY <1>2, <2>4 DEF ImageArrives
    <3>2. Written(encoder, timers) BY <1>0, <3>1, ScheduleKeeps DEF ValuesOK
    <3> QED BY <2>1, <2>4, <3>1, <3>2, WrittenKeeps
  <2> QED BY <2>2, <2>3, <2>4
<1> QED BY <1>1, <1>2

LEMMA ReplacementKeeps ==
  ASSUME CInv, EncoderShutDown \/ EncoderCreated \/ CreationAbandoned
  PROVE  CInv'
<1>0. ValuesOK /\ QueueSettled /\ lifecycle \in LifecycleType
  BY DEF CInv, CaptureTypeOK, ValuesOK
<1>1. CASE EncoderShutDown
  <2>. DEFINE d == IF lifecycle.closed THEN "none" ELSE "creating"
  <2>1. /\ lifecycle.drain = "closing" /\ shutting' = FALSE
        /\ lifecycle' = [lifecycle EXCEPT !.drain = d]
        /\ UNCHANGED <<phase, fatal, queue, imageVars, encoder, timers, ends>>
    BY <1>1 DEF EncoderShutDown
  <2>2. /\ lifecycle' \in LifecycleType /\ lifecycle'.closed = lifecycle.closed
        /\ lifecycle'.announce = lifecycle.announce /\ lifecycle'.clear = lifecycle.clear
    BY <1>0, <2>1 DEF LifecycleType
  <2>3. ~Current /\ ~encoder.alive /\ phase \notin {"probing", "first", "closed"}
    BY <2>1 DEF CInv, OneEncoder, Ended
  <2>4. Current' = Current /\ Closed' = Closed BY <2>1 DEF Current, Closed
  <2>5. CaptureTypeOK'
    <3>1. ValuesOK' BY <1>0, <2>1, <2>2, ZenonT(60) DEF ValuesOK, imageVars, ends
    <3>2. QueueSettled' BY <1>0, <2>1 DEF QueueSettled
    <3> QED BY <3>1, <3>2 DEF CaptureTypeOK
  <2>6. OneEncoder' BY <2>1, <2>2, <2>3, <2>4 DEF CInv, OneEncoder
  <2>7. Ended' BY <2>1, <2>2, <2>3, <2>4 DEF CInv, Ended, ends
  <2>8. QueueReady' BY <2>3, <2>4 DEF QueueReady
  <2>9. NoImageStranded' BY <2>3, <2>4 DEF NoImageStranded
  <2> QED BY <2>5, <2>6, <2>7, <2>8, <2>9 DEF CInv
<1>2. CASE CreationAbandoned
  <2>1. /\ lifecycle.drain = "creating" /\ lifecycle.closed
        /\ lifecycle' = [lifecycle EXCEPT !.drain = "none"]
        /\ UNCHANGED <<phase, fatal, queue, imageVars, encoder, shutting, timers, ends>>
    BY <1>2 DEF CreationAbandoned
  <2>2. /\ lifecycle' \in LifecycleType /\ lifecycle'.closed = lifecycle.closed
        /\ lifecycle'.announce = lifecycle.announce /\ lifecycle'.clear = lifecycle.clear
    BY <1>0, <2>1 DEF LifecycleType
  <2>3. ~Current /\ ~encoder.alive /\ ~shutting /\ phase \notin {"probing", "first", "closed"}
    BY <2>1 DEF CInv, OneEncoder, Ended
  <2>4. Current' = Current /\ Closed' = Closed BY <2>1 DEF Current, Closed
  <2>5. CaptureTypeOK'
    <3>1. ValuesOK' BY <1>0, <2>1, <2>2 DEF ValuesOK, imageVars, ends
    <3>2. QueueSettled' BY <1>0, <2>1 DEF QueueSettled
    <3> QED BY <3>1, <3>2 DEF CaptureTypeOK
  <2>6. OneEncoder' BY <2>1, <2>2, <2>3, <2>4 DEF CInv, OneEncoder
  <2>7. Ended' BY <2>1, <2>2, <2>3, <2>4 DEF CInv, Ended, ends
  <2>8. QueueReady' BY <2>3, <2>4 DEF QueueReady
  <2>9. NoImageStranded' BY <2>3, <2>4 DEF NoImageStranded
  <2> QED BY <2>5, <2>6, <2>7, <2>8, <2>9 DEF CInv
<1>3. CASE EncoderCreated
  <2>. DEFINE id == lifecycle.last + 1
              e == [NoEncoder EXCEPT !.id = id, !.size = latest, !.alive = TRUE]
  <2>1. /\ lifecycle.drain = "creating" /\ ~lifecycle.closed /\ lifecycle.last < MaxEncoders
        /\ lifecycle' = [lifecycle EXCEPT !.last = id, !.drain = "none", !.pending = FALSE,
                                          !.announce = FALSE, !.clear = FALSE]
        /\ queue' = Announced(queue, id)
        /\ WriteFrame(e, TRUE, timers, FALSE)
        /\ UNCHANGED <<phase, fatal, latest, shutting, ends>>
    BY <1>3 DEF EncoderCreated
  <2>2. id \in Encoders /\ id # 0
    <3>1. lifecycle.last \in 0 .. MaxEncoders BY <1>0 DEF LifecycleType
    <3> QED BY <2>1, <3>1, Limits DEF Encoders
  <2>3. e \in EncoderType /\ e.id = id /\ e.size = latest /\ e.alive /\ e.frames = 0
    <3>. HIDE DEF id
    <3>1. NoEncoder \in EncoderType /\ NoEncoder.frames = 0
      BY Limits DEF NoEncoder, EncoderType
    <3>2. latest \in DisplaySizes \cup {0} BY <1>0 DEF ValuesOK
    <3> QED BY <2>2, <3>1, <3>2 DEF EncoderType, Encoders
  <2>. HIDE DEF e, id
  <2>4. Written(e, timers) BY <1>0, <2>1, <2>3, WriteKeeps DEF ValuesOK
  <2>5. QueueSettled'
    <3>1. lifecycle.announce => lifecycle.clear BY DEF CInv, OneEncoder
    <3>2. /\ QueueOK(Announced(queue, id)) /\ ~Announced(queue, id).needsKey
          /\ Announced(queue, id).over => fatal /\ ~Announced(queue, id).waiting
      BY <1>0, <2>2, <3>1, AnnouncedKeeps DEF QueueSettled
    <3> QED BY <2>1, <3>2 DEF QueueSettled
  <2>6. /\ lifecycle' \in LifecycleType /\ lifecycle'.closed = lifecycle.closed
        /\ lifecycle'.announce = FALSE /\ lifecycle'.drain = "none"
    BY <1>0, <2>1, <2>2 DEF LifecycleType, Encoders
  <2>7. ~shutting /\ phase \notin {"probing", "first"} /\ ~Closed
    BY <2>1 DEF CInv, OneEncoder, Ended
  <2>8. ValuesOK' BY <1>0, <2>1, <2>4, <2>6 DEF ValuesOK, Written, ends
  <2>9. Closed' = Closed /\ encoder'.id = id /\ encoder'.size = latest' /\ encoder'.frames = 0
    BY <2>1, <2>3, <2>4 DEF Closed, Written
  <2>10. Current' BY <2>2, <2>9 DEF Current
  <2>11. CaptureTypeOK' BY <2>5, <2>8 DEF CaptureTypeOK
  <2>12. OneEncoder' BY <2>1, <2>6, <2>7, <2>9, <2>10 DEF OneEncoder
  <2>13. Ended' BY <2>1, <2>6, <2>7, <2>9 DEF CInv, Ended, Closed
  <2>14. QueueReady'
    <3>1. encoder'.frames \in Nat /\ ~(encoder'.frames > 0) BY <2>9
    <3> QED BY <3>1 DEF QueueReady
  <2>15. NoImageStranded' BY <2>1, <2>2, <2>3, <2>4, <2>9 DEF NoImageStranded, Written
  <2> QED BY <2>11, <2>12, <2>13, <2>14, <2>15 DEF CInv
<1> QED BY <1>1, <1>2, <1>3

LEMMA FailuresKeep ==
  ASSUME CInv, EncoderDies \/ SourceFails
  PROVE  CInv'
<1>0. ValuesOK /\ QueueSettled BY DEF CInv, CaptureTypeOK
<1>1. /\ fatal' = TRUE /\ queue' = [queue EXCEPT !.waiting = FALSE] /\ ~Closed
      /\ UNCHANGED <<phase, imageVars, shutting, lifecycle, timers, ends>>
      /\ \/ encoder' = [encoder EXCEPT !.alive = FALSE]
         \/ encoder' = encoder
  BY DEF EncoderDies, SourceFails, Fails, encoderVars
<1>2. /\ encoder' \in EncoderType /\ encoder'.id = encoder.id /\ encoder'.size = encoder.size
      /\ encoder'.alive => encoder.alive
  <2>1. encoder \in EncoderType BY <1>0 DEF ValuesOK
  <2> QED BY <1>1, <2>1 DEF EncoderType
<1>3. QueueSettled'
  <2>1. queue \in QueueType BY <1>0 DEF QueueSettled, QueueOK, DecodableQueue
  <2>2. /\ queue' \in QueueType /\ queue'.packets = queue.packets
        /\ queue'.decoder = queue.decoder /\ queue'.awaiting = queue.awaiting
        /\ queue'.waiting = FALSE /\ queue'.over = queue.over /\ queue'.needsKey = queue.needsKey
    BY <1>1, <2>1 DEF QueueType
  <2> QED BY <1>0, <1>1, <2>2 DEF QueueSettled, QueueOK, DecodableQueue
<1>4. Closed' = Closed /\ Current' = Current BY <1>1, <1>2 DEF Closed, Current
<1>5. CaptureTypeOK' BY <1>0, <1>1, <1>2, <1>3 DEF CaptureTypeOK, ValuesOK, imageVars, ends
<1>6. OneEncoder' BY <1>1, <1>2, <1>4 DEF CInv, OneEncoder, imageVars
<1>7. Ended' BY <1>1, <1>4 DEF CInv, Ended, Closed
<1>8. QueueReady' BY <1>1 DEF QueueReady
<1>9. NoImageStranded' BY <1>1 DEF NoImageStranded
<1> QED BY <1>5, <1>6, <1>7, <1>8, <1>9 DEF CInv

LEMMA EncoderOutputsKeeps ==
  ASSUME CInv, NEW kind \in Kinds, EncoderOutputs(kind)
  PROVE  CInv'
<1>. DEFINE n == encoder.frames
            e == [encoder EXCEPT !.units = @ - 1, !.frames = @ + 1, !.output = TRUE]
            q == IF fatal \/ Closed THEN queue ELSE Emitted(queue, kind, n)
<1>0. ValuesOK /\ QueueSettled /\ encoder \in EncoderType
  BY DEF CInv, CaptureTypeOK, ValuesOK
<1>1. /\ encoder.alive /\ encoder.units > 1 /\ n < MaxFrames /\ kind \in {"key", "delta"}
      /\ UNCHANGED <<phase, imageVars, ends>>
      /\ IF q.over /\ ~fatal
         THEN /\ fatal' = TRUE
              /\ queue' = [q EXCEPT !.needsKey = FALSE, !.waiting = FALSE]
              /\ encoder' = [e EXCEPT !.alive = FALSE]
              /\ UNCHANGED <<shutting, lifecycle, timers>>
         ELSE /\ queue' = [q EXCEPT !.needsKey = FALSE]
              /\ UNCHANGED fatal
              /\ IF q.needsKey THEN Restart(FALSE, FALSE)
                 ELSE encoder' = e /\ UNCHANGED <<shutting, lifecycle, timers>>
  BY DEF EncoderOutputs
<1>2. n \in 0 .. MaxFrames - 1 /\ n \in Nat /\ n + 1 \in 0 .. MaxFrames /\ encoder.id \in Encoders
      /\ encoder.units - 1 \in 0 .. MaxUnits
  BY <1>0, <1>1, Limits DEF EncoderType, Encoders
<1>3. Current /\ lifecycle.drain = "none" /\ phase \notin {"probing", "first", "closed"}
  BY <1>1 DEF CInv, OneEncoder, Ended
<1>4. /\ e \in EncoderType /\ e.id = encoder.id /\ e.size = encoder.size /\ e.alive = encoder.alive
      /\ e.frames = n + 1
  <2>. DEFINE u == encoder.units - 1  m == n + 1
  <2>1. u \in 0 .. MaxUnits /\ m \in 0 .. MaxFrames BY <1>2
  <2>2. e = [encoder EXCEPT !.units = u, !.frames = m, !.output = TRUE] OBVIOUS
  <2>. HIDE DEF u, m, e
  <2>3. /\ e \in EncoderType /\ e.id = encoder.id /\ e.size = encoder.size
        /\ e.alive = encoder.alive /\ e.frames = m
    BY <1>0, <2>1, <2>2 DEF EncoderType
  <2> QED BY <2>3 DEF m
<1>5. /\ QueueOK(q)
      /\ ~Closed /\ ~fatal => q.over \/ q.needsKey \/ Ready(q, encoder.id, n + 1)
      /\ fatal \/ Closed => q = queue
  <2>1. CASE fatal \/ Closed BY <1>0, <2>1 DEF QueueSettled
  <2>2. CASE ~(fatal \/ Closed)
    <3>1. n # 0 => Ready(queue, encoder.id, n)
      <4>1. n # 0 => n > 0 BY <1>2
      <4> QED BY <1>3, <2>2, <4>1 DEF CInv, QueueReady
    <3>2. q = Emitted(queue, kind, n) BY <2>2
    <3>. HIDE DEF q, n
    <3>3. QueueOK(queue) BY <1>0 DEF QueueSettled
    <3> QED BY <1>1, <1>2, <2>2, <3>1, <3>2, <3>3, EmittedKeeps
  <2> QED BY <2>1, <2>2
<1>. HIDE DEF e, q, n
<1>6. q \in QueueType BY <1>5 DEF QueueOK, DecodableQueue
<1>7. CASE q.over /\ ~fatal
  <2>1. /\ fatal' = TRUE /\ queue' = [q EXCEPT !.needsKey = FALSE, !.waiting = FALSE]
        /\ encoder' = [e EXCEPT !.alive = FALSE] /\ UNCHANGED <<shutting, lifecycle, timers>>
    BY <1>1, <1>7
  <2>2. /\ encoder' \in EncoderType /\ encoder'.id = encoder.id /\ encoder'.size = encoder.size
        /\ ~encoder'.alive
    BY <1>4, <2>1 DEF EncoderType
  <2>3. ~Closed BY <1>0, <1>5, <1>7 DEF QueueSettled
  <2>4. QueueSettled'
    <3>1. /\ queue' \in QueueType /\ queue'.packets = q.packets /\ queue'.decoder = q.decoder
          /\ queue'.awaiting = q.awaiting /\ queue'.waiting = FALSE /\ queue'.over = q.over
          /\ queue'.needsKey = FALSE
      BY <1>6, <2>1 DEF QueueType
    <3> QED BY <1>5, <2>1, <3>1 DEF QueueSettled, QueueOK, DecodableQueue
  <2>5. CaptureTypeOK' BY <1>0, <1>1, <2>1, <2>2, <2>4 DEF CaptureTypeOK, ValuesOK, imageVars, ends
  <2>6. Closed' = Closed /\ Current' = Current BY <1>1, <2>2 DEF Closed, Current
  <2>7. OneEncoder' BY <1>1, <2>1, <2>2, <2>6 DEF CInv, OneEncoder, imageVars
  <2>8. Ended' BY <1>1, <1>3, <2>1, <2>3, <2>6 DEF CInv, Ended
  <2>9. QueueReady' BY <2>1 DEF QueueReady
  <2>10. NoImageStranded' BY <2>1 DEF NoImageStranded
  <2> QED BY <2>5, <2>7, <2>8, <2>9, <2>10 DEF CInv
<1>8. CASE ~(q.over /\ ~fatal)
  <2>1. queue' = [q EXCEPT !.needsKey = FALSE] /\ fatal' = fatal BY <1>1, <1>8
  <2>2. /\ queue' \in QueueType /\ queue'.packets = q.packets /\ queue'.decoder = q.decoder
        /\ queue'.awaiting = q.awaiting /\ queue'.waiting = q.waiting /\ queue'.over = q.over
        /\ queue'.needsKey = FALSE /\ queue'.config = q.config
    BY <1>6, <2>1 DEF QueueType
  <2>3. QueueSettled'
    <3>1. QueueOK(queue') BY <1>5, <2>2 DEF QueueOK, DecodableQueue
    <3>2. q.over => fatal /\ ~q.waiting BY <1>0, <1>5, <1>8 DEF QueueSettled
    <3> QED BY <2>1, <2>2, <3>1, <3>2 DEF QueueSettled
  <2>4. CASE q.needsKey
    <3>1. ~Closed BY <1>0, <1>5, <2>4 DEF QueueSettled
    <3>2. Restart(FALSE, FALSE) BY <1>1, <1>8, <2>4
    <3>3. phase' \in {"gate", "running"} BY <1>0, <1>1, <1>3, <3>1 DEF Closed, ValuesOK
    <3>4. /\ UNCHANGED <<fatal, ends>> /\ latest' \in DisplaySizes \cup {0}
          /\ fresh' \in BOOLEAN
      BY <1>0, <1>1, <2>1 DEF ValuesOK, imageVars
    <3> QED BY <2>3, <3>1, <3>2, <3>3, <3>4, RestartKeeps
  <2>5. CASE ~q.needsKey
    <3>1. encoder' = e /\ UNCHANGED <<shutting, lifecycle, timers>> BY <1>1, <1>8, <2>5
    <3>2. Closed' = Closed /\ Current' = Current BY <1>1, <1>4, <3>1 DEF Closed, Current
    <3>3. CaptureTypeOK'
      BY <1>0, <1>1, <1>4, <2>1, <2>3, <3>1 DEF CaptureTypeOK, ValuesOK, imageVars, ends
    <3>4. OneEncoder' BY <1>1, <1>4, <3>1, <3>2 DEF CInv, OneEncoder, imageVars
    <3>5. Ended'
      <4>1. Closed => queue'.waiting = queue.waiting BY <1>5, <2>2
      <4> QED BY <1>1, <1>3, <3>1, <3>2, <4>1 DEF CInv, Ended, ends
    <3>6. QueueReady'
      <4>1. ~Closed /\ ~fatal => Ready(q, encoder.id, n + 1) BY <1>5, <1>8, <2>5
      <4>2. Ready(q, encoder.id, n + 1) => Ready(queue', encoder.id, n + 1)
        BY <2>2 DEF Ready, NextFits
      <4>3. encoder'.id = encoder.id /\ encoder'.frames = n + 1 BY <1>4, <3>1
      <4> QED BY <2>1, <3>2, <4>1, <4>2, <4>3 DEF QueueReady
    <3>7. NoImageStranded' BY <1>1, <2>1, <3>1, <3>2 DEF CInv, NoImageStranded, imageVars
    <3> QED BY <3>3, <3>4, <3>5, <3>6, <3>7 DEF CInv
  <2> QED BY <2>4, <2>5
<1> QED BY <1>7, <1>8

\* The start and the close of the session, as far as they leave its queue alone.
LEMMA SessionKeeps ==
  ASSUME CInv,
         \/ ControlOpens \/ ProbeAnswered \/ Started
         \/ InputReleased \/ ControlClosed \/ CloseFinishes
  PROVE  CInv'
<1>0. ValuesOK /\ QueueSettled BY DEF CInv, CaptureTypeOK
<1>1. UNCHANGED <<options, fatal, queue, imageVars, encoderVars>>
  BY DEF ControlOpens, ProbeAnswered, Started, InputReleased, ControlClosed, CloseFinishes, ends
<1>2. UNCHANGED <<latest, fresh, encoder, shutting, lifecycle>>
  BY <1>1 DEF imageVars, encoderVars
<1>3. Closed' = Closed /\ Current' = Current
  BY <1>2 DEF ControlOpens, ProbeAnswered, Started, InputReleased, ControlClosed, CloseFinishes,
     Closed, Current, ends
<1>4. ValuesOK'
  <2>1. CASE ControlOpens BY <1>0, <1>1, <1>2, <2>1 DEF ControlOpens, ValuesOK
  <2>2. CASE ProbeAnswered BY <1>0, <1>1, <1>2, <2>2 DEF ProbeAnswered, ValuesOK
  <2>3. CASE Started BY <1>0, <1>1, <1>2, <2>3 DEF Started, ValuesOK, ends
  <2>4. CASE InputReleased BY <1>0, <1>1, <1>2, <2>4 DEF InputReleased, ValuesOK
  <2>5. CASE ControlClosed BY <1>0, <1>1, <1>2, <2>5 DEF ControlClosed, ValuesOK
  <2>6. CASE CloseFinishes BY <1>0, <1>1, <1>2, <2>6 DEF CloseFinishes, ValuesOK
  <2> QED BY <2>1, <2>2, <2>3, <2>4, <2>5, <2>6
<1>5. QueueSettled' BY <1>0, <1>1 DEF QueueSettled
<1>6. OneEncoder'
  BY <1>2, <1>3 DEF CInv, OneEncoder, ControlOpens, ProbeAnswered, Started, InputReleased,
     ControlClosed, CloseFinishes
<1>7. Ended'
  <2>1. CASE CloseFinishes
    BY <1>1, <1>2, <1>3, <2>1 DEF CInv, Ended, CloseFinishes, ReleaseSettled, Closed
  <2>2. CASE Started
    BY <1>1, <1>2, <1>3, <2>2 DEF CInv, Ended, Started, Closed, ends
  <2>3. CASE ControlOpens \/ ProbeAnswered \/ InputReleased \/ ControlClosed
    BY <1>1, <1>2, <1>3, <2>3 DEF CInv, Ended, ControlOpens, ProbeAnswered, InputReleased,
       ControlClosed, Closed
  <2> QED BY <2>1, <2>2, <2>3
<1>8. QueueReady' BY <1>1, <1>2, <1>3 DEF CInv, QueueReady
<1>9. NoImageStranded'
  <2>1. timers \subseteq timers'
    BY DEF ControlOpens, ProbeAnswered, Started, InputReleased, ControlClosed, CloseFinishes
  <2> QED BY <1>1, <1>2, <1>3, <2>1 DEF CInv, NoImageStranded
<1> QED BY <1>4, <1>5, <1>6, <1>7, <1>8, <1>9 DEF CInv, CaptureTypeOK

LEMMA ReadKeeps ==
  ASSUME CInv, Read
  PROVE  CInv'
<1>0. ValuesOK /\ QueueSettled BY DEF CInv, CaptureTypeOK
<1>1. /\ phase = "running" /\ queue' = ReadFrame(queue) /\ (queue.packets # <<>> \/ ~fatal)
      /\ UNCHANGED <<phase, fatal, latest, fresh, encoder, shutting, lifecycle, timers, ends>>
  BY DEF Read, imageVars, encoderVars
<1>2. /\ QueueOK(queue') /\ queue'.config = queue.config /\ queue'.awaiting = queue.awaiting
      /\ queue'.over = queue.over /\ queue'.needsKey = queue.needsKey
      /\ \A p : NextFits(queue, p) => NextFits(queue', p)
      /\ queue'.over => ~queue'.waiting
  <2>0. DecodableQueue(queue) /\ queue \in QueueType BY <1>0 DEF QueueSettled, QueueOK, DecodableQueue
  <2>1. CASE queue.packets = <<>>
    <3>1. queue' = [queue EXCEPT !.waiting = TRUE] BY <1>1, <2>1 DEF ReadFrame
    <3>2. /\ queue' \in QueueType /\ queue'.packets = queue.packets
          /\ queue'.decoder = queue.decoder /\ queue'.config = queue.config
          /\ queue'.awaiting = queue.awaiting /\ queue'.over = queue.over
          /\ queue'.needsKey = queue.needsKey /\ queue'.waiting = TRUE
      BY <2>0, <3>1 DEF QueueType
    <3>3. QueueOK(queue') BY <2>0, <2>1, <3>2 DEF QueueOK, DecodableQueue
    <3>4. ~queue.over BY <1>0, <1>1, <2>1 DEF QueueSettled
    <3> QED BY <3>2, <3>3, <3>4 DEF NextFits
  <2>2. CASE queue.packets # <<>>
    <3>1. queue' = Shift(queue) BY <1>1, <2>2 DEF ReadFrame
    <3> QED BY <2>0, <2>2, <3>1, ShiftKeeps
  <2> QED BY <2>1, <2>2
<1>3. QueueSettled' BY <1>0, <1>1, <1>2 DEF QueueSettled
<1>4. Closed' = Closed /\ Current' = Current /\ ~Closed BY <1>1 DEF Closed, Current
<1>5. ValuesOK' BY <1>0, <1>1 DEF ValuesOK, ends
<1>6. OneEncoder' BY <1>1, <1>4 DEF CInv, OneEncoder
<1>7. Ended' BY <1>1, <1>4 DEF CInv, Ended, Closed
<1>8. QueueReady' BY <1>1, <1>2, <1>4 DEF CInv, QueueReady, Ready
<1>9. NoImageStranded' BY <1>1, <1>4 DEF CInv, NoImageStranded
<1> QED BY <1>3, <1>5, <1>6, <1>7, <1>8, <1>9 DEF CInv, CaptureTypeOK

LEMMA ClosesKeep ==
  ASSUME CInv, Close \/ EncoderClosed
  PROVE  CInv'
<1>0. ValuesOK /\ QueueSettled BY DEF CInv, CaptureTypeOK
<1>1. CASE Close
  <2>1. /\ ~Closed /\ phase' = "closing" /\ timers' = {}
        /\ transport' = IF transport = "open" THEN "stopped" ELSE transport
        /\ lifecycle' = [lifecycle EXCEPT !.closed = TRUE, !.pending = FALSE,
                                          !.announce = FALSE, !.clear = FALSE]
        /\ release' = IF options.inputSource = "grpc" THEN "started" ELSE "done"
        /\ queue' = [Clear(queue) EXCEPT !.waiting = FALSE]
        /\ UNCHANGED <<options, fatal, latest, fresh, encoder, shutting, control, client>>
    BY <1>1 DEF Close, imageVars
  <2>2. /\ lifecycle' \in LifecycleType /\ lifecycle'.closed = TRUE
        /\ lifecycle'.announce = FALSE /\ lifecycle'.drain = lifecycle.drain
    BY <1>0, <2>1 DEF ValuesOK, LifecycleType
  <2>3. Closed' /\ Current' = Current BY <2>1 DEF Closed, Current
  <2>4. ~queue'.waiting /\ QueueSettled'
    <3>. DEFINE c == Clear(queue)
    <3>1. QueueOK(c) /\ c.packets = <<>> /\ c.over = FALSE /\ c.needsKey = FALSE
      BY <1>0, ClearKeeps DEF QueueSettled, QueueOK
    <3>. HIDE DEF c
    <3>2. queue' = [c EXCEPT !.waiting = FALSE] BY <2>1 DEF c
    <3>3. /\ queue' \in QueueType /\ queue'.packets = c.packets /\ queue'.decoder = c.decoder
          /\ queue'.awaiting = c.awaiting /\ queue'.over = FALSE /\ queue'.needsKey = FALSE
          /\ queue'.waiting = FALSE
      BY <3>1, <3>2 DEF QueueOK, DecodableQueue, QueueType
    <3> QED BY <3>1, <3>3 DEF QueueSettled, QueueOK, DecodableQueue
  <2>5. ValuesOK' BY <1>0, <2>1, <2>2 DEF ValuesOK
  <2>6. OneEncoder' BY <2>1, <2>2, <2>3 DEF CInv, OneEncoder
  <2>7. Ended'
    <3>1. transport' \in {"none", "stopped", "closed"} BY <1>0, <2>1 DEF ValuesOK
    <3> QED BY <2>1, <2>2, <2>3, <2>4, <3>1 DEF Ended
  <2>8. QueueReady' /\ NoImageStranded' BY <2>3 DEF QueueReady, NoImageStranded
  <2> QED BY <2>4, <2>5, <2>6, <2>7, <2>8 DEF CInv, CaptureTypeOK
<1>2. CASE EncoderClosed
  <2>1. /\ phase = "closing" /\ lifecycle.drain = "none" /\ encoder' = NoEncoder
        /\ shutting' = encoder.alive /\ lifecycle' = [lifecycle EXCEPT !.drain = "closing"]
        /\ UNCHANGED <<phase, fatal, queue, latest, fresh, timers, ends>>
    BY <1>2 DEF EncoderClosed, imageVars
  <2>2. /\ lifecycle' \in LifecycleType /\ lifecycle'.closed = lifecycle.closed
        /\ lifecycle'.announce = lifecycle.announce /\ lifecycle'.clear = lifecycle.clear
        /\ lifecycle'.drain = "closing"
    BY <1>0, <2>1 DEF ValuesOK, LifecycleType
  <2>3. Closed' = Closed /\ Closed BY <2>1 DEF Closed
  <2>4. encoder' \in EncoderType /\ ~Current' /\ ~encoder'.alive /\ shutting' \in BOOLEAN
    <3>1. NoEncoder \in EncoderType /\ NoEncoder.id = 0 /\ ~NoEncoder.alive
      BY Limits DEF NoEncoder, EncoderType, Encoders
    <3>2. encoder.alive \in BOOLEAN BY <1>0 DEF ValuesOK, EncoderType
    <3> QED BY <2>1, <3>1, <3>2 DEF Current
  <2>5. ValuesOK' BY <1>0, <2>1, <2>2, <2>4 DEF ValuesOK, ends
  <2>6. QueueSettled' BY <1>0, <2>1 DEF QueueSettled
  <2>7. OneEncoder' BY <2>1, <2>2, <2>3, <2>4 DEF CInv, OneEncoder
  <2>8. Ended' BY <2>1, <2>2, <2>3 DEF CInv, Ended, ends
  <2>9. QueueReady' /\ NoImageStranded' BY <2>4 DEF QueueReady, NoImageStranded
  <2> QED BY <2>5, <2>6, <2>7, <2>8, <2>9 DEF CInv, CaptureTypeOK
<1> QED BY <1>1, <1>2

LEMMA InitialState == GrpcInit => CInv
<1>1. SUFFICES ASSUME GrpcInit PROVE CInv OBVIOUS
<1>2. NoEncoder \in EncoderType /\ NoEncoder.id = 0 /\ ~NoEncoder.alive
  BY Limits DEF NoEncoder, EncoderType, Encoders
<1>3. lifecycle \in LifecycleType /\ ~lifecycle.closed /\ ~lifecycle.announce
      /\ lifecycle.drain = "none"
  BY <1>1, Limits DEF GrpcInit, LifecycleType
<1>4. ValuesOK BY <1>1, <1>2, <1>3 DEF GrpcInit, ValuesOK
<1>5. QueueSettled
  <2>. DEFINE b == <<>>  g == {}
              d == [config |-> 0, encoder |-> 0, n |-> 0, broken |-> FALSE]
  <2>1. b \in Seq(PacketType) /\ QueuedBytes(b) <= MaxBytes /\ Len(b) = 0
    BY BytesOfNothing, Limits
  <2>2. d \in DecoderType /\ ~d.broken BY Limits DEF DecoderType
  <2>3. Chain(d, b) BY <2>1 DEF Chain, Linked
  <2>4. queue = [packets |-> b, config |-> 0, session |-> FALSE, awaiting |-> FALSE,
                 waiting |-> FALSE, needsKey |-> FALSE, over |-> FALSE, gate |-> g,
                 decoder |-> d]
    BY <1>1 DEF GrpcInit, NewQueue
  <2>5. g \subseteq Kinds /\ 0 \in Encoders BY Limits
  <2>. HIDE DEF b, d, g
  <2>6. queue \in QueueType BY <2>1, <2>2, <2>4, <2>5 DEF QueueType
  <2> QED BY <2>1, <2>2, <2>3, <2>4, <2>6 DEF QueueSettled, QueueOK, DecodableQueue
<1>6. ~Current /\ ~Closed BY <1>1, <1>2 DEF GrpcInit, Current, Closed
<1>7. OneEncoder BY <1>1, <1>2, <1>3, <1>6 DEF GrpcInit, OneEncoder
<1>8. Ended BY <1>1, <1>3, <1>6 DEF GrpcInit, Ended
<1>9. QueueReady /\ NoImageStranded BY <1>6 DEF QueueReady, NoImageStranded
<1> QED BY <1>4, <1>5, <1>7, <1>8, <1>9 DEF CInv, CaptureTypeOK

LEMMA InvariantKept == CInv /\ [GrpcNext]_grpcVars => CInv'
<1>1. ASSUME CInv, UNCHANGED grpcVars PROVE CInv'
  <2>1. /\ UNCHANGED <<options, phase, fatal, queue, latest, fresh, encoder, shutting>>
        /\ UNCHANGED <<lifecycle, timers, transport, control, release, client>>
    BY <1>1 DEF grpcVars
  <2>2. ValuesOK' /\ QueueSettled'
    BY <1>1, <2>1 DEF CInv, CaptureTypeOK, ValuesOK, QueueSettled
  <2>3. OneEncoder' /\ Ended' BY <1>1, <2>1 DEF CInv, OneEncoder, Ended, Current, Closed
  <2>4. QueueReady' /\ NoImageStranded'
    BY <1>1, <2>1 DEF CInv, QueueReady, NoImageStranded, Current, Closed
  <2> QED BY <2>2, <2>3, <2>4 DEF CInv, CaptureTypeOK
<1>2. ASSUME CInv, GrpcNext PROVE CInv'
  <2>1. CASE WriteTimerFires \/ FlushTimerFires \/ IdleTick BY <1>2, <2>1, WritesKeep
  <2>2. CASE EncoderShutDown \/ EncoderCreated \/ CreationAbandoned
    BY <1>2, <2>2, ReplacementKeeps
  <2>3. CASE \E kind \in Kinds : EncoderOutputs(kind) BY <1>2, <2>3, EncoderOutputsKeeps
  <2>4. CASE EncoderDies \/ SourceFails BY <1>2, <2>4, FailuresKeep
  <2>5. CASE \/ ControlOpens \/ ProbeAnswered \/ Started
             \/ InputReleased \/ ControlClosed \/ CloseFinishes
    BY <1>2, <2>5, SessionKeeps
  <2>6. CASE ResetVideo \/ \E size \in DisplaySizes : ImageArrives(size)
    BY <1>2, <2>6, RestartsKeep
  <2>7. CASE Read BY <1>2, <2>7, ReadKeeps
  <2>8. CASE Close \/ EncoderClosed BY <1>2, <2>8, ClosesKeep
  <2> QED BY <1>2, <2>1, <2>2, <2>3, <2>4, <2>5, <2>6, <2>7, <2>8 DEF GrpcNext
<1> QED BY <1>1, <1>2

-----------------------------------------------------------------------------
(* The theorems.                                                           *)

(* The inductive invariant: every step of a gRPC capture session, whatever *)
(* it interrupts, keeps the queue linked and in step with the encoder.     *)
THEOREM CaptureInvariance == GrpcSpec => []CInv
BY InitialState, InvariantKept, PTL DEF GrpcSpec

(* The values stay within their types; in particular the queue never holds *)
(* more than its byte limit while the session lives                        *)
(* (MAX_QUEUED_PACKET_BYTES, GrpcVideoPacketQueue.push).                   *)
THEOREM TypeCorrect == GrpcSpec => []TypeOK
<1>1. CInv => TypeOK
  <2>1. SUFFICES ASSUME CInv PROVE TypeOK OBVIOUS
  <2>2. ValuesOK /\ QueueSettled BY <2>1 DEF CInv, CaptureTypeOK
  <2>3. {fatal, fresh, shutting, client} \subseteq BOOLEAN BY <2>2 DEF ValuesOK
  <2>4. /\ queue.packets \in Seq(PacketType)
        /\ ~fatal => QueuedBytes(queue.packets) <= MaxBytes
    BY <2>2 DEF QueueSettled, QueueOK, DecodableQueue, QueueType
  <2> QED BY <2>2, <2>3, <2>4 DEF TypeOK, ValuesOK, EncoderType, LifecycleType, PacketType, Encoders
<1> QED BY <1>1, CaptureInvariance, PTL

(* What the pump reads can be decoded, whatever was dropped or replaced on *)
(* the way (GrpcVideoPacketQueue, restartEncoder).                         *)
THEOREM Decodes == GrpcSpec => []ReaderDecodes
<1>1. CInv => ReaderDecodes
  BY DEF CInv, CaptureTypeOK, QueueSettled, QueueOK, DecodableQueue, ReaderDecodes
<1> QED BY <1>1, CaptureInvariance, PTL

(* An encoder only gets images of its own size, and is only started once   *)
(* its predecessor is gone (onImage, GrpcEncoderLifecycle.restart).        *)
THEOREM EncoderFits == GrpcSpec => []EncoderFitsImage
<1>1. CInv => EncoderFitsImage BY DEF CInv, OneEncoder, EncoderFitsImage
<1> QED BY <1>1, CaptureInvariance, PTL

(* An image the encoder has not accepted will be offered again             *)
(* (writeFrame, scheduleWrite).                                            *)
THEOREM NotStranded == GrpcSpec => []NoImageStranded
<1>1. CInv => NoImageStranded BY DEF CInv
<1> QED BY <1>1, CaptureInvariance, PTL

(* close leaves no process, timer, region or reader behind, also in the    *)
(* middle of a start-up or of a replacement of the encoder.                *)
THEOREM ClosedClean == GrpcSpec => []ClosedLeavesNothing
<1>1. CInv => ClosedLeavesNothing
  BY DEF CInv, OneEncoder, Ended, ClosedLeavesNothing, Closed
<1> QED BY <1>1, CaptureInvariance, PTL

=============================================================================

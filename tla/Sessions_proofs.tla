---------------------------- MODULE Sessions_proofs ----------------------------
(***************************************************************************)
(* Proofs about the sessions of the server: DeviceSessions, how they are   *)
(* made, replaced and stopped, and StreamDelivery, how their frames reach  *)
(* the clients.                                                            *)
(***************************************************************************)
EXTENDS DeviceSessions, StreamDelivery, SequenceTheorems, TLAPS

-----------------------------------------------------------------------------
(***************************************************************************)
(* Safety of DeviceSessions for any devices, requests and number of        *)
(* contexts, and that it implements PublishedSession. The inductive        *)
(* invariant says that only the head of the chain is busy, that what it    *)
(* replaces is still current, and how contexts and device states hold on   *)
(* to each other (Sound). The second part adds who owns a device state and *)
(* who awaits a disposal (PInv), which the promises need.                  *)
(***************************************************************************)

Busy == {"preparing", "abandoning", "prepared", "retiring", "rollback",
         "stopping"}

\* What contexts C and device states D owe each other when contexts below n
\* exist and only those in A were activated.
Sound(C, D, n, A) ==
  /\ C \in [Contexts -> CtxRecord]
  /\ D \in [Contexts -> DevRecord]
  /\ \A c \in Contexts : c < n => C[c].home <= c
  /\ \A s \in Contexts : s >= n => D[s] = UnusedDev
  /\ \A c \in Contexts : c < n /\ C[c].phase = "live" =>
       D[C[c].home].state = "open" /\ c \in D[C[c].home].owners
  /\ \A s \in Contexts :
       /\ D[s].targets = {c \in A : C[c].phase = "live" /\ C[c].home = s}
       /\ D[s].input = Youngest(D[s].targets)

\* At most one context beside the current one is being activated or retired.
Pair(A, n) ==
  \E p, q \in Contexts : p <= q /\ p < n /\ q < n /\ A = {p, q}

HeadOnly == \A o \in Ops : op[o].pc \in Busy => Running(o)

ReplacesCurrent ==
  \A o \in Ops : op[o].pc \in {"preparing", "prepared"} => op[o].ctx = current

CandidateIsNew ==
  \A o \in Ops : op[o].pc = "prepared" =>
    /\ op[o].cand \in Contexts
    /\ current < op[o].cand
    /\ op[o].cand < nextCtx
    /\ ~Aborted(op[o].cand)

StagedOwns ==
  \A o \in Ops : op[o].pc = "preparing" /\ op[o].state # None =>
    /\ op[o].state < nextCtx
    /\ dev[op[o].state].state = "open"
    /\ o \in dev[op[o].state].owners

IInv ==
  /\ TypeOK
  /\ current < nextCtx
  /\ Sound(ctx, dev, nextCtx, {current})
  /\ HeadOnly
  /\ ReplacesCurrent
  /\ CandidateIsNew
  /\ StagedOwns
  /\ NoStrayContext

-----------------------------------------------------------------------------
(* The youngest of at most two registered targets.                         *)

LEMMA YoungestOfTwo ==
  ASSUME NEW p \in Nat, NEW q \in Nat, p <= q, NEW S \in SUBSET {p, q}
  PROVE  /\ S = {} => Youngest(S) = None
         /\ q \in S => Youngest(S) = q
         /\ q \notin S /\ p \in S => Youngest(S) = p
<1>1. CASE S = {} BY <1>1 DEF Youngest
<1>2. CASE q \in S
  <2>1. \A d \in S : d <= q BY DEF Youngest
  <2>2. \A c \in S : (\A d \in S : d <= c) => c = q BY <1>2
  <2> QED BY <1>2, <2>1, <2>2 DEF Youngest
<1>3. CASE q \notin S /\ p \in S
  <2>1. S = {p} BY <1>3
  <2> QED BY <1>3, <2>1 DEF Youngest
<1> QED BY <1>1, <1>2, <1>3

-----------------------------------------------------------------------------
(* What release, dispose and markTerminal do to a sound pair.              *)

LEMMA ContextsAreNat == Contexts \subseteq Nat
BY SessionAssumption DEF Contexts

\* Changes to a context that neither revoke it nor move it keep the pair sound.
LEMMA SoundUnlessRevoked ==
  ASSUME NEW C, NEW C2, NEW D, NEW n, NEW A \in SUBSET Contexts,
         Sound(C, D, n, A), C2 \in [Contexts -> CtxRecord],
         \A c \in Contexts : /\ C2[c].home = C[c].home
                             /\ C2[c].phase = "live" <=> C[c].phase = "live"
  PROVE  Sound(C2, D, n, A)
BY DEF Sound

LEMMA RevokedContext ==
  ASSUME NEW C \in [Contexts -> CtxRecord], NEW D, NEW c \in Contexts, NEW status \in Statuses,
         C[c].phase = "live"
  PROVE  /\ DisposeCtx(C, D, c, status) \in [Contexts -> CtxRecord]
         /\ DisposeCtx(C, D, c, status)[c].phase # "live"
         /\ DisposeCtx(C, D, c, status)[c].home = C[c].home
         /\ \A x \in Contexts : x # c => DisposeCtx(C, D, c, status)[x] = C[x]
<1>. DEFINE ended == IF LastOwner(D, C[c].home, c) THEN "releasing" ELSE "released"
            C2 == [C EXCEPT ![c].status = status, ![c].phase = ended]
<1>1. C2 = DisposeCtx(C, D, c, status) BY DEF DisposeCtx
<1>2. ended \in Phases /\ ended # "live" BY DEF Phases
<1>. HIDE DEF ended
<1>3. C2 \in [Contexts -> CtxRecord] BY <1>2, ZenonT(30) DEF CtxRecord
<1>4. /\ C2[c].phase = ended /\ C2[c].home = C[c].home
      /\ \A x \in Contexts : x # c => C2[x] = C[x]
  BY DEF CtxRecord
<1>. HIDE DEF C2
<1> QED BY <1>1, <1>2, <1>3, <1>4

LEMMA ReleasedDevice ==
  ASSUME NEW D \in [Contexts -> DevRecord], NEW h \in Contexts, NEW owner, ~LastOwner(D, h, owner),
         D[h].input = owner =>
           Youngest(D[h].targets \ {owner}) \in Contexts \cup {None}
  PROVE  /\ Release(D, h, owner) \in [Contexts -> DevRecord]
         /\ Release(D, h, owner)[h].owners = D[h].owners \ {owner}
         /\ Release(D, h, owner)[h].targets = D[h].targets \ {owner}
         /\ Release(D, h, owner)[h].input =
              IF D[h].input = owner THEN Youngest(D[h].targets \ {owner})
              ELSE D[h].input
         /\ Release(D, h, owner)[h].state = D[h].state
         /\ \A s \in Contexts : s # h => Release(D, h, owner)[s] = D[s]
<1>. DEFINE owners  == D[h].owners \ {owner}
            targets == D[h].targets \ {owner}
            input   == IF D[h].input = owner THEN Youngest(targets) ELSE D[h].input
            d == [owners |-> owners, targets |-> targets, input |-> input,
                  state |-> D[h].state]
<1>1. Release(D, h, owner) = [D EXCEPT ![h] = d]
  BY DEF Release
<1>2. d \in DevRecord BY DEF DevRecord
<1>3. /\ d.owners = D[h].owners \ {owner}
      /\ d.targets = D[h].targets \ {owner}
      /\ d.input = IF D[h].input = owner THEN Youngest(D[h].targets \ {owner})
                   ELSE D[h].input
      /\ d.state = D[h].state
  OBVIOUS
<1>. HIDE DEF d
<1> QED BY <1>1, <1>2, <1>3 DEF DevRecord

LEMMA DisposeIsSound ==
  ASSUME NEW C, NEW D, NEW n \in Nat, NEW A, Pair(A, n), Sound(C, D, n, A),
         NEW c \in Contexts, c < n, NEW status \in Statuses
  PROVE  /\ Sound(DisposeCtx(C, D, c, status), DisposeDev(C, D, c), n, A)
         /\ DisposeCtx(C, D, c, status)[c].phase # "live"
         /\ \A x \in Contexts :
              /\ x # c => DisposeCtx(C, D, c, status)[x] = C[x]
              /\ DisposeDev(C, D, c)[x].owners \subseteq D[x].owners
              /\ \A o \in Ops : o \in D[x].owners /\ D[x].state = "open" =>
                   /\ o \in DisposeDev(C, D, c)[x].owners
                   /\ DisposeDev(C, D, c)[x].state = "open"
<1>. DEFINE C2 == DisposeCtx(C, D, c, status)
            D2 == DisposeDev(C, D, c)
            h  == C[c].home
<1>. PICK p \in Contexts, q \in Contexts : p <= q /\ p < n /\ q < n /\ A = {p, q}
  BY DEF Pair
<1>1. CASE C[c].phase # "live"
  BY <1>1 DEF DisposeCtx, DisposeDev
<1>2. CASE C[c].phase = "live"
  <2>1. /\ C \in [Contexts -> CtxRecord] /\ D \in [Contexts -> DevRecord]
        /\ h \in Contexts /\ c \in D[h].owners /\ D[h].state = "open"
        /\ h <= c
    BY <1>2 DEF Sound, CtxRecord, DevRecord
  <2>3. /\ C2 \in [Contexts -> CtxRecord]
        /\ C2[c].phase # "live" /\ C2[c].home = h
        /\ \A x \in Contexts : x # c => C2[x] = C[x]
    <3>1. C \in [Contexts -> CtxRecord] BY <2>1
    <3> QED BY ONLY <3>1, <1>2, RevokedContext, c \in Contexts, status \in Statuses
  <2>4. /\ D2 = Release(D, h, c)
        /\ \A s \in Contexts : s # h => D2[s] = D[s]
    BY <1>2, <2>1 DEF DisposeDev, Release, DevRecord
  <2>5. \A x \in {p, q} : C[x].phase = "live" /\ C[x].home = h =>
          x \in D[h].targets /\ x \in D[h].owners
    BY <2>1 DEF Sound
  <2>6. CASE LastOwner(D, h, c)
    <3>0. D2 = [D EXCEPT ![h] = ClosingDev]
      BY <2>4, <2>6 DEF Release
    <3>1. D2[h] = [owners |-> {}, targets |-> {}, input |-> None, state |-> "closing"]
      BY <2>1, <3>0 DEF ClosingDev, DevRecord
    <3>2. D2 \in [Contexts -> DevRecord]
      BY <2>1, <3>0 DEF ClosingDev, DevRecord
    <3>3. \A x \in Contexts : x < n /\ x # c /\ C[x].phase = "live" => C[x].home # h
      BY <2>1, <2>6 DEF Sound, LastOwner
    <3>4. {x \in {p, q} : C2[x].phase = "live" /\ C2[x].home = h} = {}
      BY <2>3, <3>3
    <3>5. \A s \in Contexts : s # h =>
            {x \in {p, q} : C2[x].phase = "live" /\ C2[x].home = s}
              = {x \in {p, q} : C[x].phase = "live" /\ C[x].home = s}
      BY <2>3
    <3>6. \A s \in Contexts :
            /\ D2[s].targets = {x \in {p, q} : C2[x].phase = "live" /\ C2[x].home = s}
            /\ D2[s].input = Youngest(D2[s].targets)
      BY <2>4, <3>1, <3>4, <3>5 DEF Sound, Youngest
    <3>7. \A x \in Contexts : x < n => C2[x].home <= x
      BY <2>1, <2>3 DEF Sound
    <3>8. \A s \in Contexts : s >= n => D2[s] = UnusedDev
      BY <2>1, <2>4, ContextsAreNat DEF Sound
    <3>9. \A x \in Contexts : x < n /\ C2[x].phase = "live" =>
            D2[C2[x].home].state = "open" /\ x \in D2[C2[x].home].owners
      BY <2>1, <2>3, <2>4, <3>3 DEF Sound, CtxRecord
    <3>10. Sound(C2, D2, n, {p, q})
      BY <2>3, <3>2, <3>6, <3>7, <3>8, <3>9 DEF Sound
    <3>11. \A x \in Contexts, o \in Ops : o \in D[x].owners => x # h
      BY <2>6, SessionAssumption, ContextsAreNat DEF LastOwner
    <3> QED BY <2>3, <2>4, <3>1, <3>10, <3>11
  <2>7. CASE ~LastOwner(D, h, c)
    <3>. DEFINE T == D[h].targets
    <3>. DEFINE input == IF D[h].input = c THEN Youngest(T \ {c}) ELSE D[h].input
    <3>1. /\ T \in SUBSET {p, q} /\ D[h].input = Youngest(T)
          /\ c \in {p, q} => c \in T
          /\ T \in SUBSET Contexts /\ D[h].input \in Contexts \cup {None}
      BY <1>2, <2>1, <2>5 DEF Sound, DevRecord
    <3>2. p \in Nat /\ q \in Nat /\ T \ {c} \in SUBSET {p, q}
      BY <3>1, ContextsAreNat
    <3>3. input = Youngest(T \ {c})
      <4>1. CASE c \notin T
        <5>1. T \ {c} = T BY <4>1
        <5> QED BY <3>1, <5>1
      <4>2. CASE D[h].input = c BY <4>2
      <4>3. CASE c \in T /\ D[h].input # c
        <5>1. q \in T /\ c = p /\ p # q
          BY <3>1, <3>2, <4>3, YoungestOfTwo
        <5>2. Youngest(T) = q /\ Youngest(T \ {c}) = q
          BY <3>1, <3>2, <5>1, YoungestOfTwo
        <5> QED BY <3>1, <4>3, <5>2
      <4> QED BY <4>1, <4>2, <4>3
    <3>4. input \in Contexts \cup {None}
      BY <3>1, <3>2, YoungestOfTwo
    <3>5. /\ D2 \in [Contexts -> DevRecord]
          /\ D2[h].owners = D[h].owners \ {c}
          /\ D2[h].targets = T \ {c} /\ D2[h].input = input
          /\ D2[h].state = "open"
      BY <2>1, <2>4, <2>7, <3>1, <3>3, <3>4, ReleasedDevice
    <3>6. \A s \in Contexts :
            D2[s].targets = {x \in {p, q} : C2[x].phase = "live" /\ C2[x].home = s}
      BY <1>2, <2>1, <2>3, <2>4, <3>5 DEF Sound
    <3>7. \A s \in Contexts : D2[s].input = Youngest(D2[s].targets)
      <4>1. \A s \in Contexts : D[s].input = Youngest(D[s].targets) BY DEF Sound
      <4>2. D2[h].input = Youngest(D2[h].targets) BY <3>3, <3>5
      <4> QED BY <2>4, <4>1, <4>2
    <3>8. \A x \in Contexts : x < n => C2[x].home <= x
      BY <2>1, <2>3 DEF Sound
    <3>9. \A s \in Contexts : s >= n => D2[s] = UnusedDev
      BY <2>1, <2>4, ContextsAreNat DEF Sound
    <3>10. \A x \in Contexts : x < n /\ C2[x].phase = "live" =>
             D2[C2[x].home].state = "open" /\ x \in D2[C2[x].home].owners
      BY <2>1, <2>3, <2>4, <3>5 DEF Sound, CtxRecord
    <3>11. Sound(C2, D2, n, {p, q})
      BY <2>3, <3>5, <3>6, <3>7, <3>8, <3>9, <3>10 DEF Sound
    <3>12. \A o \in Ops : o # c BY SessionAssumption, ContextsAreNat
    <3> QED BY <2>3, <2>4, <3>5, <3>11, <3>12
  <2> QED BY <2>6, <2>7
<1> QED BY <1>1, <1>2

LEMMA MarkIsSound ==
  ASSUME NEW C, NEW D, NEW n \in Nat, NEW A, Pair(A, n), Sound(C, D, n, A),
         NEW c \in Contexts, c < n, NEW status \in Statuses
  PROVE  /\ Sound(MarkCtx(C, D, c, status), MarkDev(C, D, c, status), n, A)
         /\ \A x \in Contexts :
              /\ x # c => MarkCtx(C, D, c, status)[x] = C[x]
              /\ MarkCtx(C, D, c, status)[x].phase = "live" => C[x].phase = "live"
              /\ \A o \in Ops : o \in D[x].owners /\ D[x].state = "open" =>
                   /\ o \in MarkDev(C, D, c, status)[x].owners
                   /\ MarkDev(C, D, c, status)[x].state = "open"
<1>. DEFINE C1 == [C EXCEPT ![c].terminal = TRUE, ![c].status = status]
<1>1. CASE ~TerminalAllowed(C[c].status, status)
  BY <1>1 DEF MarkCtx, MarkDev
<1>2. CASE TerminalAllowed(C[c].status, status)
  <2>1. C \in [Contexts -> CtxRecord] BY DEF Sound
  <2>2. C1 \in [Contexts -> CtxRecord] BY <2>1, ZenonT(60) DEF CtxRecord
  <2>3. \A x \in Contexts :
          /\ C1[x].home = C[x].home
          /\ C1[x].phase = C[x].phase
          /\ x # c => C1[x] = C[x]
    BY <2>1 DEF CtxRecord
  <2>4. /\ MarkCtx(C, D, c, status) = DisposeCtx(C1, D, c, status)
        /\ MarkDev(C, D, c, status) = DisposeDev(C, D, c)
    BY <1>2 DEF MarkCtx, MarkDev
  <2>. HIDE DEF C1
  <2>5. DisposeDev(C, D, c) = DisposeDev(C1, D, c)
    BY <2>3 DEF DisposeDev
  <2>6. Sound(C1, D, n, A)
    <3>1. A \in SUBSET Contexts BY DEF Pair
    <3> QED BY <2>2, <2>3, <3>1, SoundUnlessRevoked
  <2>7. /\ Sound(DisposeCtx(C1, D, c, status), DisposeDev(C1, D, c), n, A)
        /\ DisposeCtx(C1, D, c, status)[c].phase # "live"
        /\ \A x \in Contexts :
             /\ x # c => DisposeCtx(C1, D, c, status)[x] = C1[x]
             /\ \A o \in Ops : o \in D[x].owners /\ D[x].state = "open" =>
                  /\ o \in DisposeDev(C1, D, c)[x].owners
                  /\ DisposeDev(C1, D, c)[x].state = "open"
    BY <2>6, DisposeIsSound
  <2> QED BY <2>3, <2>4, <2>5, <2>7
<1> QED BY <1>1, <1>2

\* A context that activates becomes the target of its device state.
LEMMA ActivateIsSound ==
  ASSUME NEW C, NEW C2, NEW D, NEW n \in Nat, NEW p \in Contexts, NEW q \in Contexts,
         p < q, q < n, Sound(C, D, n, {p}), C[q].phase = "live",
         C2 \in [Contexts -> CtxRecord],
         \A c \in Contexts : C2[c].home = C[c].home /\ C2[c].phase = C[c].phase
  PROVE  /\ Sound(C2, Activate(D, C[q].home, q), n, {p, q})
         /\ \A x \in Contexts :
              /\ Activate(D, C[q].home, q)[x].owners = D[x].owners
              /\ Activate(D, C[q].home, q)[x].state = D[x].state
<1>. DEFINE h == C[q].home
            D2 == Activate(D, h, q)
<1>1. /\ C \in [Contexts -> CtxRecord] /\ D \in [Contexts -> DevRecord]
      /\ h \in Contexts /\ h <= q /\ p \in Nat /\ q \in Nat
  BY ContextsAreNat DEF Sound, CtxRecord
<1>2. /\ D2 \in [Contexts -> DevRecord]
      /\ D2[h].targets = D[h].targets \cup {q}
      /\ D2[h].input = q
      /\ \A x \in Contexts : /\ D2[x].owners = D[x].owners
                             /\ D2[x].state = D[x].state
                             /\ x # h => D2[x] = D[x]
  BY <1>1, Z3 DEF Activate, DevRecord
<1>. HIDE DEF D2
<1>3. \A s \in Contexts :
        D2[s].targets = {c \in {p, q} : C2[c].phase = "live" /\ C2[c].home = s}
  BY <1>1, <1>2 DEF Sound
<1>4. D2[h].targets \in SUBSET {p, q} /\ q \in D2[h].targets
  BY <1>1, <1>2, <1>3
<1>5. Youngest(D2[h].targets) = q
  BY <1>1, <1>4, YoungestOfTwo
<1>6. \A s \in Contexts : D2[s].input = Youngest(D2[s].targets)
  <2>1. \A s \in Contexts : D[s].input = Youngest(D[s].targets) BY DEF Sound
  <2> QED BY <1>2, <1>5, <2>1
<1>7. \A s \in Contexts : s >= n => D2[s] = UnusedDev
  <2>. HIDE DEF h
  <2>1. h \in Nat BY <1>1, ContextsAreNat
  <2>2. h < n BY <1>1, <2>1
  <2> QED BY <2>2, <1>1, <1>2, ContextsAreNat DEF Sound
<1>8. \A c \in Contexts : c < n => C2[c].home <= c
  BY DEF Sound
<1>9. \A c \in Contexts : c < n /\ C2[c].phase = "live" =>
        D2[C2[c].home].state = "open" /\ c \in D2[C2[c].home].owners
  <2>1. \A c \in Contexts : c < n /\ C[c].phase = "live" =>
          D[C[c].home].state = "open" /\ c \in D[C[c].home].owners
    BY DEF Sound
  <2>2. \A c \in Contexts : C[c].home \in Contexts
    BY <1>1 DEF CtxRecord
  <2> QED BY <1>2, <2>1, <2>2
<1>10. Sound(C2, D2, n, {p, q})
  BY <1>2, <1>3, <1>6, <1>7, <1>8, <1>9 DEF Sound
<1> QED BY <1>2, <1>10 DEF D2

\* A revoked context no longer counts among the activated ones.
LEMMA SoundWithoutRevoked ==
  ASSUME NEW C, NEW D, NEW n, NEW p, NEW q,
         Sound(C, D, n, {p, q}), C[p].phase # "live"
  PROVE  Sound(C, D, n, {q})
<1>1. \A s \in Contexts :
        {c \in {p, q} : C[c].phase = "live" /\ C[c].home = s}
          = {c \in {q} : C[c].phase = "live" /\ C[c].home = s}
  OBVIOUS
<1> QED BY <1>1 DEF Sound

\* A staging owner's release leaves the contexts' holds alone.
LEMMA StagingReleased ==
  ASSUME NEW C, NEW D, NEW n \in Nat, NEW A \in SUBSET Contexts, Sound(C, D, n, A),
         NEW h \in Contexts, h < n, NEW o \in Ops, \A a \in A : a < n
  PROVE  Sound(C, Release(D, h, o), n, A)
<1>. DEFINE D2 == Release(D, h, o)
<1>1. /\ C \in [Contexts -> CtxRecord] /\ D \in [Contexts -> DevRecord]
      /\ o \notin Contexts /\ o # None
      /\ D[h].targets \in SUBSET Contexts
      /\ D[h].input \in Contexts \cup {None}
  BY SessionAssumption, ContextsAreNat DEF Sound, DevRecord
<1>2. \A x \in Contexts : x < n /\ C[x].phase = "live" =>
        /\ C[x].home \in Contexts
        /\ D[C[x].home].state = "open" /\ x \in D[C[x].home].owners
  BY <1>1 DEF Sound, CtxRecord
<1>3. \A s \in Contexts :
        /\ D[s].targets = {c \in A : C[c].phase = "live" /\ C[c].home = s}
        /\ D[s].input = Youngest(D[s].targets)
  BY DEF Sound
<1>4. CASE LastOwner(D, h, o)
  <2>1. D2 = [D EXCEPT ![h] = ClosingDev] BY <1>4 DEF Release
  <2>2. /\ D2[h] = ClosingDev
        /\ \A s \in Contexts : s # h => D2[s] = D[s]
        /\ D2 \in [Contexts -> DevRecord]
    BY <1>1, <2>1 DEF ClosingDev, DevRecord
  <2>3. \A x \in Contexts : x < n /\ C[x].phase = "live" => C[x].home # h
    BY <1>1, <1>2, <1>4 DEF LastOwner
  <2>4. D[h].targets = {}
    BY <1>3, <2>3
  <2>5. D2[h].targets = {} /\ D2[h].input = None
    BY <2>2 DEF ClosingDev
  <2>6. Youngest({}) = None BY DEF Youngest
  <2>7. \A s \in Contexts :
          /\ D2[s].targets = {c \in A : C[c].phase = "live" /\ C[c].home = s}
          /\ D2[s].input = Youngest(D2[s].targets)
    BY <1>3, <2>2, <2>4, <2>5, <2>6
  <2>8. \A s \in Contexts : s >= n => D2[s] = UnusedDev
    BY <2>2, ContextsAreNat DEF Sound
  <2>. HIDE DEF D2
  <2>9. \A x \in Contexts : x < n /\ C[x].phase = "live" =>
          D2[C[x].home].state = "open" /\ x \in D2[C[x].home].owners
    BY <1>2, <2>2, <2>3
  <2>10. Sound(C, D2, n, A)
    BY <1>1, <2>2, <2>7, <2>8, <2>9 DEF Sound
  <2> QED BY <2>10 DEF D2
<1>5. CASE ~LastOwner(D, h, o)
  <2>1. D[h].input # o /\ D[h].targets \ {o} = D[h].targets
    BY <1>1
  <2>2. /\ D2 \in [Contexts -> DevRecord]
        /\ D2[h].owners = D[h].owners \ {o}
        /\ D2[h].targets = D[h].targets
        /\ D2[h].input = D[h].input
        /\ D2[h].state = D[h].state
        /\ \A s \in Contexts : s # h => D2[s] = D[s]
    <3>. DEFINE owners == D[h].owners \ {o}
                d == [owners |-> owners, targets |-> D[h].targets,
                      input |-> D[h].input, state |-> D[h].state]
    <3>1. D2 = [D EXCEPT ![h] = d] BY <1>5, <2>1 DEF Release
    <3>2. d \in DevRecord BY <1>1 DEF DevRecord
    <3>3. /\ d.owners = D[h].owners \ {o} /\ d.targets = D[h].targets
          /\ d.input = D[h].input /\ d.state = D[h].state
      OBVIOUS
    <3>. HIDE DEF d, D2
    <3> QED BY <1>1, <3>1, <3>2, <3>3
  <2>. HIDE DEF D2
  <2>3. \A s \in Contexts :
          /\ D2[s].targets = {c \in A : C[c].phase = "live" /\ C[c].home = s}
          /\ D2[s].input = Youngest(D2[s].targets)
    BY <1>3, <2>2
  <2>4. \A s \in Contexts : s >= n => D2[s] = UnusedDev
    BY <2>2, ContextsAreNat DEF Sound
  <2>5. \A x \in Contexts : x < n /\ C[x].phase = "live" =>
          D2[C[x].home].state = "open" /\ x \in D2[C[x].home].owners
    BY <1>1, <1>2, <2>2
  <2>6. Sound(C, D2, n, A)
    BY <1>1, <2>2, <2>3, <2>4, <2>5 DEF Sound
  <2> QED BY <2>6 DEF D2
<1> QED BY <1>4, <1>5

\* An open device state can be acquired once more.
LEMMA AcquireIsSound ==
  ASSUME NEW C, NEW D, NEW n \in Nat, NEW A \in SUBSET Contexts, Sound(C, D, n, A),
         NEW h \in Contexts, h < n, D[h].state = "open", NEW owner \in Contexts \cup Ops
  PROVE  /\ Sound(C, Acquire(D, h, owner), n, A)
         /\ owner \in Acquire(D, h, owner)[h].owners
         /\ Acquire(D, h, owner)[h].state = "open"
<1>. DEFINE D2 == Acquire(D, h, owner)
<1>1. C \in [Contexts -> CtxRecord] /\ D \in [Contexts -> DevRecord]
  BY DEF Sound
<1>2. /\ D2 \in [Contexts -> DevRecord]
      /\ D2[h].owners = D[h].owners \cup {owner}
      /\ D2[h].state = "open"
      /\ \A s \in Contexts : /\ s # h => D2[s] = D[s]
                             /\ D2[s].targets = D[s].targets
                             /\ D2[s].input = D[s].input
  <2>1. D[h] \in DevRecord BY <1>1
  <2>2. D2 \in [Contexts -> DevRecord]
    BY <1>1, <2>1 DEF Acquire, DevRecord
  <2>3. D2[h].owners = D[h].owners \cup {owner} /\ D2[h].state = "open"
    BY <1>1, <2>1 DEF Acquire, DevRecord
  <2>4. D2[h].targets = D[h].targets /\ D2[h].input = D[h].input
    BY <1>1, <2>1 DEF Acquire, DevRecord
  <2>5. \A s \in Contexts : s # h => D2[s] = D[s]
    BY <1>1 DEF Acquire
  <2> QED BY <2>2, <2>3, <2>4, <2>5
<1>. HIDE DEF D2
<1>3. \A s \in Contexts :
        /\ D2[s].targets = {c \in A : C[c].phase = "live" /\ C[c].home = s}
        /\ D2[s].input = Youngest(D2[s].targets)
  BY <1>2 DEF Sound
<1>4. \A s \in Contexts : s >= n => D2[s] = UnusedDev
  BY <1>2, ContextsAreNat DEF Sound
<1>5. \A x \in Contexts : x < n /\ C[x].phase = "live" =>
        D2[C[x].home].state = "open" /\ x \in D2[C[x].home].owners
  <2>1. \A x \in Contexts : x < n /\ C[x].phase = "live" =>
          D[C[x].home].state = "open" /\ x \in D[C[x].home].owners
    BY DEF Sound
  <2>2. \A c \in Contexts : C[c].home \in Contexts BY <1>1 DEF CtxRecord
  <2> QED BY <1>2, <2>1, <2>2
<1>6. Sound(C, D2, n, A)
  BY <1>1, <1>2, <1>3, <1>4, <1>5 DEF Sound
<1> QED BY <1>2, <1>6 DEF D2

-----------------------------------------------------------------------------
(* What the steps have in common.                                          *)

OpsTyped ==
  /\ op \in [Ops -> OpRecord]
  /\ tail \in Seq(Ops)
  /\ closing \in BOOLEAN
  /\ cancelled \in SUBSET Nat

LEMMA SoundNow ==
  ASSUME IInv
  PROVE  /\ Pair({current}, nextCtx)
         /\ current \in Contexts /\ current \in Nat /\ current < nextCtx
         /\ nextCtx \in Nat
         /\ {current} \in SUBSET Contexts
         /\ ctx \in [Contexts -> CtxRecord]
         /\ dev \in [Contexts -> DevRecord]
         /\ Sound(ctx, dev, nextCtx, {current})
         /\ OpsTyped
<1>1. current \in Contexts /\ nextCtx \in Nat /\ current < nextCtx
  BY SessionAssumption DEF IInv, TypeOK
<1>2. current \in Nat BY <1>1, ContextsAreNat
<1>3. Pair({current}, nextCtx) BY <1>1, <1>2 DEF Pair
<1> QED BY <1>1, <1>2, <1>3 DEF IInv, TypeOK, OpsTyped

\* A step that neither creates nor publishes a context.
LEMMA QuietStep ==
  ASSUME IInv, OpsTyped', UNCHANGED <<nextCtx, current>>,
         Sound(ctx', dev', nextCtx, {current}),
         HeadOnly',
         \A o \in Ops : op'[o].pc \in {"preparing", "prepared"} => op'[o] = op[o],
         \A o \in Ops : Prepared(o) /\ ctx'[op[o].cand].phase = "live" =>
                          Prepared(o)' /\ op'[o] = op[o],
         \A o \in Ops : op'[o].pc = "prepared" => ctx'[op[o].cand].phase = "live",
         \A c \in Contexts : ~Aborted(c)' => ~Aborted(c),
         \A o \in Ops : op'[o].pc = "preparing" =>
           \A s \in Contexts : o \in dev[s].owners /\ dev[s].state = "open" =>
             o \in dev'[s].owners /\ dev'[s].state = "open"
  PROVE  IInv'
<1>1. TypeOK'
  BY DEF IInv, TypeOK, OpsTyped, Sound
<1>2. ReplacesCurrent' BY DEF IInv, ReplacesCurrent
<1>3. CandidateIsNew' BY DEF IInv, CandidateIsNew, Aborted
<1>4. StagedOwns'
  <2>1. \A o \in Ops : op[o].state \in Contexts \cup {None}
    BY DEF IInv, TypeOK, OpRecord
  <2> QED BY <2>1 DEF IInv, StagedOwns
<1>5. NoStrayContext'
  BY DEF IInv, NoStrayContext, Created, Aborted
<1> QED BY <1>1, <1>2, <1>3, <1>4, <1>5 DEF IInv

\* A request joins the chain, or waits for the uploads it cancelled.
LEMMA RequestMoves ==
  ASSUME IInv, NEW o \in Ops, op[o].pc \in {"idle", "uploads"},
         op' \in [Ops -> OpRecord],
         \A x \in Ops : x # o => op'[x] = op[x],
         op'[o].pc \in {"uploads", "queued"},
         tail' = tail \/ tail' = Append(tail, o)
  PROVE  /\ tail' \in Seq(Ops)
         /\ HeadOnly'
         /\ \A x \in Ops : op'[x].pc \in {"preparing", "prepared"} => op'[x] = op[x]
         /\ \A x \in Ops : Prepared(x) => Prepared(x)' /\ op'[x] = op[x]
<1>1. tail \in Seq(Ops) BY DEF IInv, TypeOK
<1>2. tail' \in Seq(Ops) BY <1>1, AppendProperties
<1>3. \A x : Running(x) => Running(x)'
  BY <1>1, AppendProperties, HeadTailAppend DEF Running
<1>4. HeadOnly' BY <1>3 DEF IInv, HeadOnly, Busy
<1> QED BY <1>2, <1>3, <1>4 DEF Prepared

\* The head of the chain does something other than prepare.
LEMMA HeadMoves ==
  ASSUME IInv, NEW o \in Ops, Running(o),
         op' \in [Ops -> OpRecord],
         \A x \in Ops : x # o => op'[x] = op[x],
         \/ tail' = tail /\ op'[o].pc \in {"abandoning", "retiring", "rollback", "stopping"}
         \/ tail' = Tail(tail) /\ op'[o].pc = "answered"
  PROVE  /\ tail' \in Seq(Ops)
         /\ HeadOnly'
         /\ \A x \in Ops : op'[x].pc \notin {"preparing", "prepared"}
         /\ \A x \in Ops : Prepared(x) => x = o
<1>1. tail \in Seq(Ops) BY DEF IInv, TypeOK
<1>2. tail' \in Seq(Ops) BY <1>1, HeadTailProperties DEF Running
<1>3. \A x \in Ops : x # o => op'[x].pc \notin Busy
  BY DEF IInv, HeadOnly, Running
<1>4. HeadOnly'
  BY <1>3 DEF HeadOnly, Busy, Running
<1>5. \A x \in Ops : op'[x].pc \notin {"preparing", "prepared"}
  BY <1>3 DEF Busy
<1> QED BY <1>2, <1>4, <1>5 DEF Prepared, Running

\* Only contexts, their device states and the cancelled uploads change.
LEMMA ContextStep ==
  ASSUME IInv, UNCHANGED <<nextCtx, current, tail, op, closing>>,
         cancelled' \in SUBSET Nat,
         Sound(ctx', dev', nextCtx, {current}),
         \A c \in Contexts : ~Aborted(c)' => ~Aborted(c),
         \A c \in Contexts : c # current => (~Aborted(c)' <=> ~Aborted(c)),
         \A s \in Contexts, o \in Ops : o \in dev[s].owners /\ dev[s].state = "open" =>
             o \in dev'[s].owners /\ dev'[s].state = "open"
  PROVE  IInv'
<1>1. OpsTyped' BY DEF IInv, TypeOK, OpsTyped
<1>2. HeadOnly' BY DEF IInv, HeadOnly, Running
<1>3. \A o \in Ops : op'[o].pc = "prepared" => ctx'[op[o].cand].phase = "live"
  BY SoundNow DEF IInv, CandidateIsNew, Aborted
<1>4. \A o \in Ops : Prepared(o) => Prepared(o)'
  BY DEF Prepared, Running
<1> QED BY <1>1, <1>2, <1>3, <1>4, QuietStep

-----------------------------------------------------------------------------
(* What a context does on its own.                                         *)

LEMMA HarmlessContextStep ==
  ASSUME IInv, UNCHANGED <<dev, nextCtx, current, tail, op, closing>>,
         cancelled' \in SUBSET Nat,
         ctx' \in [Contexts -> CtxRecord],
         \A c \in Contexts : /\ ctx'[c].home = ctx[c].home
                             /\ ctx'[c].phase = "live" <=> ctx[c].phase = "live"
  PROVE  IInv'
<1>1. Sound(ctx', dev, nextCtx, {current})
  BY SoundNow, SoundUnlessRevoked
<1> QED BY <1>1, ContextStep DEF Aborted

LEMMA UnwindStep ==
  ASSUME IInv, NEW c \in Contexts, Unwind(c)
  PROVE  IInv'
<1>. USE SoundNow
<1>1. CASE RunCleanups(c)
  <2>1. ctx' \in [Contexts -> CtxRecord]
    BY <1>1, ZenonT(60) DEF RunCleanups, CtxRecord
  <2>3. \A x \in Contexts : ctx'[x].home = ctx[x].home /\ ctx'[x].phase = ctx[x].phase
    BY <1>1 DEF RunCleanups, CtxRecord
  <2>2. cancelled' \in SUBSET Nat BY <1>1 DEF RunCleanups, CtxRecord, OpsTyped
  <2> QED BY <1>1, <2>1, <2>2, <2>3, HarmlessContextStep DEF RunCleanups
<1>2. CASE CloseStream(c)
  <2>1. /\ ctx' \in [Contexts -> CtxRecord]
        /\ ctx[c].phase # "live"
        /\ \A x \in Contexts : /\ ctx'[x].home = ctx[x].home
                               /\ ctx'[x].phase = "live" <=> ctx[x].phase = "live"
    BY <1>2 DEF CloseStream, CtxRecord, Phases
  <2> QED BY <1>2, <2>1, HarmlessContextStep DEF CloseStream, OpsTyped
<1>3. CASE PumpExits(c)
  <2>1. /\ ctx' \in [Contexts -> CtxRecord]
        /\ \A x \in Contexts : ctx'[x].home = ctx[x].home /\ ctx'[x].phase = ctx[x].phase
    BY <1>3 DEF PumpExits, CtxRecord
  <2> QED BY <1>3, <2>1, HarmlessContextStep DEF PumpExits, OpsTyped
<1>4. CASE FinishDispose(c)
  <2>1. /\ ctx' \in [Contexts -> CtxRecord]
        /\ \A x \in Contexts : /\ ctx'[x].home = ctx[x].home
                               /\ ctx'[x].phase = "live" <=> ctx[x].phase = "live"
    BY <1>4 DEF FinishDispose, CtxRecord, Phases
  <2> QED BY <1>4, <2>1, HarmlessContextStep DEF FinishDispose, OpsTyped
<1> QED BY <1>1, <1>2, <1>3, <1>4 DEF Unwind

\* markTerminal on the current context, after a harmless change to it.
LEMMA MarkStep ==
  ASSUME IInv, NEW C \in [Contexts -> CtxRecord], NEW status \in Statuses,
         UNCHANGED <<nextCtx, current, tail, op, closing, cancelled>>,
         \A x \in Contexts : C[x].home = ctx[x].home /\ C[x].phase = ctx[x].phase,
         ctx' = MarkCtx(C, dev, current, status),
         dev' = MarkDev(C, dev, current, status)
  PROVE  IInv'
<1>. USE SoundNow
<1>1. Sound(C, dev, nextCtx, {current})
  BY SoundUnlessRevoked
<1>2. /\ Sound(ctx', dev', nextCtx, {current})
      /\ \A x \in Contexts :
           /\ x # current => ctx'[x] = C[x]
           /\ ctx'[x].phase = "live" => C[x].phase = "live"
           /\ \A o \in Ops : o \in dev[x].owners /\ dev[x].state = "open" =>
                o \in dev'[x].owners /\ dev'[x].state = "open"
  BY <1>1, MarkIsSound
<1> QED BY <1>2, ContextStep DEF Aborted, OpsTyped

LEMMA PumpEndsStep ==
  ASSUME IInv, NEW c \in Contexts, PumpEnds(c)
  PROVE  IInv'
<1>. DEFINE C == [ctx EXCEPT ![c].pump = "done"]
<1>1. /\ C \in [Contexts -> CtxRecord]
      /\ \A x \in Contexts : C[x].home = ctx[x].home /\ C[x].phase = ctx[x].phase
  BY SoundNow DEF CtxRecord
<1>2. PICK status \in {"stopped", "error"} :
        ctx' = MarkCtx(C, dev, c, status) /\ dev' = MarkDev(C, dev, c, status)
  BY DEF PumpEnds
<1>3. c = current BY DEF PumpEnds, IsCurrent
<1>4. status \in Statuses BY DEF Statuses
<1>. HIDE DEF C
<1> QED BY <1>1, <1>2, <1>3, <1>4, MarkStep DEF PumpEnds

LEMMA StreamFailsStep ==
  ASSUME IInv, NEW c \in Contexts, StreamFails(c)
  PROVE  IInv'
<1>. DEFINE C == [ctx EXCEPT ![c].fatal = TRUE]
<1>0. C \in [Contexts -> CtxRecord]
  BY SoundNow DEF CtxRecord
<1>1. \A x \in Contexts : C[x].home = ctx[x].home /\ C[x].phase = ctx[x].phase
  BY SoundNow DEF CtxRecord
<1>2. CASE Hears(c)
  <2>1. /\ ctx' = MarkCtx(C, dev, c, "error") /\ dev' = MarkDev(C, dev, c, "error")
        /\ c = current
    BY <1>2 DEF StreamFails, Hears
  <2>2. "error" \in Statuses BY DEF Statuses
  <2>. HIDE DEF C
  <2> QED BY <1>0, <1>1, <2>1, <2>2, MarkStep DEF StreamFails
<1>3. CASE ~Hears(c)
  <2>1. ctx' = C /\ dev' = dev BY <1>3 DEF StreamFails
  <2>. HIDE DEF C
  <2> QED BY <1>0, <1>1, <2>1, SoundNow, HarmlessContextStep DEF StreamFails, OpsTyped
<1> QED BY <1>2, <1>3

LEMMA CloseStateStep ==
  ASSUME IInv, NEW s \in Contexts, CloseState(s)
  PROVE  IInv'
<1>. USE SoundNow
<1>1. /\ dev' \in [Contexts -> DevRecord]
      /\ \A x \in Contexts : /\ x # s => dev'[x] = dev[x]
                             /\ dev'[x].owners = dev[x].owners
                             /\ dev'[x].targets = dev[x].targets
                             /\ dev'[x].input = dev[x].input
      /\ dev[s].state = "closing"
  BY DEF CloseState, DevRecord
<1>2. ~(s >= nextCtx) BY <1>1 DEF Sound, UnusedDev
<1>3. \A x \in Contexts : x < nextCtx /\ ctx[x].phase = "live" =>
        /\ ctx[x].home \in Contexts
        /\ dev[ctx[x].home].state = "open" /\ x \in dev[ctx[x].home].owners
  BY DEF Sound, CtxRecord
<1>4. \A x \in Contexts : x < nextCtx /\ ctx[x].phase = "live" =>
        dev'[ctx[x].home].state = "open" /\ x \in dev'[ctx[x].home].owners
  BY <1>1, <1>3
<1>5. \A x \in Contexts : x >= nextCtx => dev'[x] = UnusedDev
  BY <1>1, <1>2 DEF Sound
<1>6. Sound(ctx, dev', nextCtx, {current})
  BY <1>1, <1>4, <1>5 DEF Sound
<1>7. ctx' = ctx BY DEF CloseState
<1> QED BY <1>1, <1>6, <1>7, ContextStep DEF CloseState, OpsTyped, Aborted

-----------------------------------------------------------------------------
(* Requests.                                                               *)

LEMMA FreshOpTyped ==
  ASSUME NEW kind \in {"none", "switch", "mode", "settings", "stop", "close"},
         NEW serial \in Serials, NEW context \in Contexts \cup {None},
         NEW pc \in {"idle", "uploads", "queued", "answered"}
  PROVE  /\ FreshOp(kind, serial, context, pc) \in OpRecord
         /\ FreshOp(kind, serial, context, pc).pc = pc
BY DEF FreshOp, OpRecord

LEMMA DisposeCurrent ==
  ASSUME IInv, NEW status \in Statuses,
         ctx' = DisposeCtx(ctx, dev, current, status),
         dev' = DisposeDev(ctx, dev, current)
  PROVE  /\ Sound(ctx', dev', nextCtx, {current})
         /\ \A c \in Contexts : c # current => ctx'[c] = ctx[c]
         /\ \A c \in Contexts : ~Aborted(c)' => ~Aborted(c)
         /\ \A s \in Contexts, o \in Ops : o \in dev[s].owners /\ dev[s].state = "open" =>
              o \in dev'[s].owners /\ dev'[s].state = "open"
<1>. USE SoundNow
<1>1. /\ Sound(DisposeCtx(ctx, dev, current, status), DisposeDev(ctx, dev, current),
               nextCtx, {current})
      /\ DisposeCtx(ctx, dev, current, status)[current].phase # "live"
      /\ \A x \in Contexts :
           /\ x # current => DisposeCtx(ctx, dev, current, status)[x] = ctx[x]
           /\ DisposeDev(ctx, dev, current)[x].owners \subseteq dev[x].owners
           /\ \A o \in Ops : o \in dev[x].owners /\ dev[x].state = "open" =>
                /\ o \in DisposeDev(ctx, dev, current)[x].owners
                /\ DisposeDev(ctx, dev, current)[x].state = "open"
  BY DisposeIsSound
<1> QED BY <1>1 DEF Aborted

LEMMA RequestStep ==
  ASSUME IInv, NEW o \in Ops, op[o].pc \in {"idle", "uploads"},
         NEW r \in OpRecord, r.pc \in {"uploads", "queued"},
         op' = [op EXCEPT ![o] = r],
         tail' = tail \/ tail' = Append(tail, o),
         UNCHANGED <<nextCtx, current>>,
         closing' \in BOOLEAN, cancelled' \in SUBSET Nat,
         \/ UNCHANGED <<ctx, dev>>
         \/ /\ ctx' = DisposeCtx(ctx, dev, current, "stopped")
            /\ dev' = DisposeDev(ctx, dev, current)
  PROVE  IInv'
<1>1. /\ Sound(ctx', dev', nextCtx, {current})
      /\ \A c \in Contexts : c # current => ctx'[c] = ctx[c]
      /\ \A c \in Contexts : ~Aborted(c)' => ~Aborted(c)
      /\ \A s \in Contexts, x \in Ops : x \in dev[s].owners /\ dev[s].state = "open" =>
           x \in dev'[s].owners /\ dev'[s].state = "open"
  <2>1. CASE UNCHANGED <<ctx, dev>>
    BY <2>1, SoundNow DEF Aborted
  <2>2. CASE /\ ctx' = DisposeCtx(ctx, dev, current, "stopped")
             /\ dev' = DisposeDev(ctx, dev, current)
    <3>1. "stopped" \in Statuses BY DEF Statuses
    <3> QED BY <2>2, <3>1, DisposeCurrent
  <2> QED BY <2>1, <2>2
<1>2. op \in [Ops -> OpRecord] BY SoundNow DEF OpsTyped
<1>3. /\ op' \in [Ops -> OpRecord]
      /\ \A x \in Ops : x # o => op'[x] = op[x]
      /\ op'[o].pc \in {"uploads", "queued"}
  BY <1>2
<1>4. /\ tail' \in Seq(Ops)
      /\ HeadOnly'
      /\ \A x \in Ops : op'[x].pc \in {"preparing", "prepared"} => op'[x] = op[x]
      /\ \A x \in Ops : Prepared(x) => Prepared(x)' /\ op'[x] = op[x]
  BY <1>3, RequestMoves
<1>5. \A x \in Ops : op'[x].pc = "prepared" => ctx'[op[x].cand].phase = "live"
  <2>1. \A x \in Ops : op[x].pc = "prepared" =>
          /\ op[x].cand \in Contexts /\ op[x].cand # current
          /\ ctx[op[x].cand].phase = "live"
    BY SoundNow, ContextsAreNat DEF IInv, CandidateIsNew, Aborted
  <2> QED BY <1>1, <1>4, <2>1
<1>6. OpsTyped' BY <1>3, <1>4 DEF OpsTyped
<1> QED BY <1>1, <1>4, <1>5, <1>6, QuietStep

LEMMA RequestsStep ==
  ASSUME IInv, NEW o \in Ops, Request(o) \/ UploadsSettled(o)
  PROVE  IInv'
<1>. USE SoundNow
<1>1. ASSUME NEW serial \in Serials, RequestSwitch(o, serial)
      PROVE  IInv'
  <2>1. /\ FreshOp("switch", serial, None, "uploads") \in OpRecord
        /\ FreshOp("switch", serial, None, "uploads").pc = "uploads"
        /\ FreshOp("switch", serial, None, "queued") \in OpRecord
        /\ FreshOp("switch", serial, None, "queued").pc = "queued"
    BY FreshOpTyped
  <2>2. cancelled' \in SUBSET Nat
    BY <1>1 DEF RequestSwitch, OpsTyped, CtxRecord
  <2> QED BY <1>1, <2>1, <2>2, RequestStep DEF RequestSwitch, Enqueue, OpsTyped
<1>2. ASSUME NEW kind \in {"mode", "settings", "stop"}, RequestOnCurrent(o, kind)
      PROVE  IInv'
  <2>1. ctx[current].serial \in Serials BY DEF CtxRecord
  <2>2. /\ FreshOp(kind, ctx[current].serial, current, "queued") \in OpRecord
        /\ FreshOp(kind, ctx[current].serial, current, "queued").pc = "queued"
    BY <2>1, FreshOpTyped
  <2> QED BY <1>2, <2>2, RequestStep DEF RequestOnCurrent, Enqueue, OpsTyped
<1>3. CASE Shutdown(o)
  <2>1. /\ FreshOp("close", FirstSerial, current, "queued") \in OpRecord
        /\ FreshOp("close", FirstSerial, current, "queued").pc = "queued"
    BY FreshOpTyped, SessionAssumption
  <2> QED BY <1>3, <2>1, RequestStep DEF Shutdown, Enqueue, OpsTyped
<1>4. CASE UploadsSettled(o)
  <2>1. op[o].serial \in Serials BY DEF OpsTyped, OpRecord
  <2>2. /\ FreshOp("switch", op[o].serial, None, "queued") \in OpRecord
        /\ FreshOp("switch", op[o].serial, None, "queued").pc = "queued"
    BY <2>1, FreshOpTyped
  <2> QED BY <1>4, <2>2, RequestStep DEF UploadsSettled, Enqueue, OpsTyped
<1> QED BY <1>1, <1>2, <1>3, <1>4 DEF Request

-----------------------------------------------------------------------------
(* The head of the chain.                                                  *)

LEMMA HeadStep ==
  ASSUME IInv, NEW o \in Ops, Running(o),
         op' \in [Ops -> OpRecord],
         \A x \in Ops : x # o => op'[x] = op[x],
         \/ tail' = tail /\ op'[o].pc \in {"abandoning", "retiring", "rollback", "stopping"}
         \/ tail' = Tail(tail) /\ op'[o].pc = "answered",
         UNCHANGED <<nextCtx, current, closing, cancelled>>,
         Sound(ctx', dev', nextCtx, {current}),
         \A c \in Contexts : ~Aborted(c)' => ~Aborted(c),
         op[o].pc = "prepared" => ctx'[op[o].cand].phase # "live"
  PROVE  IInv'
<1>1. /\ tail' \in Seq(Ops)
      /\ HeadOnly'
      /\ \A x \in Ops : op'[x].pc \notin {"preparing", "prepared"}
      /\ \A x \in Ops : Prepared(x) => x = o
  BY HeadMoves
<1>2. OpsTyped' BY <1>1, SoundNow DEF OpsTyped
<1> QED BY <1>1, <1>2, QuietStep DEF Prepared

LEMMA FinishTyped ==
  ASSUME IInv, NEW o \in Ops, Finish(o)
  PROVE  /\ op' \in [Ops -> OpRecord]
         /\ \A x \in Ops : x # o => op'[x] = op[x]
         /\ tail' = Tail(tail) /\ op'[o].pc = "answered"
<1>1. op \in [Ops -> OpRecord] BY SoundNow DEF OpsTyped
<1>2. op[o].kind \in {"none", "switch", "mode", "settings", "stop", "close"}
  BY <1>1 DEF OpRecord
<1>3. /\ FreshOp(op[o].kind, FirstSerial, None, "answered") \in OpRecord
      /\ FreshOp(op[o].kind, FirstSerial, None, "answered").pc = "answered"
  BY <1>2, FreshOpTyped, SessionAssumption
<1> QED BY <1>1, <1>3 DEF Finish

LEMMA ReplyStep ==
  ASSUME IInv, NEW o \in Ops, Running(o), op[o].pc # "prepared", Reply(o)
  PROVE  IInv'
<1>1. /\ op' \in [Ops -> OpRecord]
      /\ \A x \in Ops : x # o => op'[x] = op[x]
      /\ tail' = Tail(tail) /\ op'[o].pc = "answered"
  BY FinishTyped DEF Reply
<1>2. UNCHANGED <<ctx, dev, nextCtx, current, closing, cancelled>> BY DEF Reply
<1> QED BY <1>1, <1>2, SoundNow, HeadStep DEF Aborted

\* The record of o after a step that changes only where it is.
LEMMA PcTyped ==
  ASSUME IInv, NEW o \in Ops,
         NEW pc \in {"abandoning", "retiring", "rollback", "stopping"},
         op' = [op EXCEPT ![o].pc = pc]
  PROVE  /\ op' \in [Ops -> OpRecord]
         /\ \A x \in Ops : x # o => op'[x] = op[x]
         /\ op'[o].pc = pc
BY SoundNow, ZenonT(60) DEF OpsTyped, OpRecord

LEMMA RunStopStep ==
  ASSUME IInv, NEW o \in Ops, RunStop(o)
  PROVE  IInv'
<1>1. Running(o) /\ op[o].pc = "queued" BY DEF RunStop, Ready
<1>2. CASE Reply(o) BY <1>1, <1>2, ReplyStep
<1>3. CASE ~Reply(o)
  <2>1. /\ ctx' = DisposeCtx(ctx, dev, current, "stopped")
        /\ dev' = DisposeDev(ctx, dev, current)
        /\ op' = [op EXCEPT ![o].pc = "stopping"]
        /\ UNCHANGED <<nextCtx, current, tail, closing, cancelled>>
    BY <1>3 DEF RunStop
  <2>2. /\ Sound(ctx', dev', nextCtx, {current})
        /\ \A c \in Contexts : ~Aborted(c)' => ~Aborted(c)
    <3>1. "stopped" \in Statuses BY DEF Statuses
    <3> QED BY <2>1, <3>1, DisposeCurrent
  <2>3. /\ op' \in [Ops -> OpRecord]
        /\ \A x \in Ops : x # o => op'[x] = op[x]
        /\ op'[o].pc = "stopping"
    BY <2>1, PcTyped
  <2> QED BY <1>1, <2>1, <2>2, <2>3, HeadStep
<1> QED BY <1>2, <1>3

LEMMA RunCloseStep ==
  ASSUME IInv, NEW o \in Ops, RunClose(o)
  PROVE  IInv'
<1>1. Running(o) /\ op[o].pc = "queued" BY DEF RunClose, Ready
<1>2. /\ op' \in [Ops -> OpRecord]
      /\ \A x \in Ops : x # o => op'[x] = op[x]
      /\ op'[o].pc = "stopping"
  BY PcTyped DEF RunClose
<1> QED BY <1>1, <1>2, SoundNow, HeadStep DEF RunClose, Aborted

LEMMA OpenFailsStep ==
  ASSUME IInv, NEW o \in Ops, OpenFails(o)
  PROVE  IInv'
<1>. USE SoundNow
<1>1. Running(o) /\ op[o].pc = "preparing" BY DEF OpenFails
<1>2. /\ op' \in [Ops -> OpRecord]
      /\ \A x \in Ops : x # o => op'[x] = op[x]
      /\ \/ tail' = tail /\ op'[o].pc = "abandoning"
         \/ tail' = Tail(tail) /\ op'[o].pc = "answered"
  <2>1. CASE Finish(o) BY <2>1, FinishTyped
  <2>2. CASE ~Finish(o)
    <3>1. op' = [op EXCEPT ![o].pc = "abandoning"] /\ tail' = tail
      BY <2>2 DEF OpenFails
    <3> QED BY <3>1, PcTyped
  <2> QED BY <2>1, <2>2
<1>3. Sound(ctx', dev', nextCtx, {current})
  <2>1. CASE op[o].state = None BY <2>1 DEF OpenFails
  <2>2. CASE op[o].state # None
    <3>1. op[o].state \in Contexts BY <2>2 DEF OpsTyped, OpRecord
    <3>2. op[o].state < nextCtx BY <1>1, <2>2 DEF IInv, StagedOwns
    <3>3. Sound(ctx, Release(dev, op[o].state, o), nextCtx, {current})
      BY <3>1, <3>2, StagingReleased
    <3> QED BY <2>2, <3>3 DEF OpenFails
  <2> QED BY <2>1, <2>2
<1>4. UNCHANGED <<ctx, nextCtx, current, closing, cancelled>> BY DEF OpenFails
<1> QED BY <1>1, <1>2, <1>3, <1>4, HeadStep DEF Aborted

\* The candidate is disposed, activated or not.
LEMMA WithdrawStep ==
  ASSUME IInv, NEW o \in Ops, Withdraw(o)
  PROVE  IInv'
<1>. USE SoundNow
<1>. DEFINE cand == op[o].cand
<1>1. /\ Running(o) /\ op[o].pc = "prepared"
      /\ cand \in Contexts /\ cand < nextCtx
  BY DEF Withdraw, Prepared, IInv, CandidateIsNew
<1>2. "stopped" \in Statuses BY DEF Statuses
<1>3. /\ Sound(DisposeCtx(ctx, dev, cand, "stopped"), DisposeDev(ctx, dev, cand),
               nextCtx, {current})
      /\ DisposeCtx(ctx, dev, cand, "stopped")[cand].phase # "live"
      /\ \A x \in Contexts : x # cand => DisposeCtx(ctx, dev, cand, "stopped")[x] = ctx[x]
  <2>. HIDE DEF cand
  <2> QED BY <1>1, <1>2, DisposeIsSound
<1>4. /\ op' \in [Ops -> OpRecord]
      /\ \A x \in Ops : x # o => op'[x] = op[x]
      /\ op'[o].pc = "rollback"
  BY PcTyped DEF Withdraw
<1>5. /\ ctx' = DisposeCtx(ctx, dev, cand, "stopped")
      /\ dev' = DisposeDev(ctx, dev, cand)
      /\ UNCHANGED <<nextCtx, current, tail, closing, cancelled>>
  BY DEF Withdraw
<1> QED BY <1>1, <1>3, <1>4, <1>5, HeadStep DEF Aborted

LEMMA ActivationFailsStep ==
  ASSUME IInv, NEW o \in Ops, NEW pumping \in BOOLEAN, ActivationFails(o, pumping)
  PROVE  IInv'
<1>. USE SoundNow
<1>. DEFINE cand == op[o].cand
            pump == IF pumping THEN "running" ELSE "none"
            C == [ctx EXCEPT ![cand].pump = pump]
            D == Activate(dev, ctx[cand].home, cand)
            C2 == DisposeCtx(C, D, cand, "stopped")
            D2 == DisposeDev(C, D, cand)
<1>1. /\ Running(o) /\ op[o].pc = "prepared"
      /\ cand \in Contexts /\ cand < nextCtx /\ current < cand
      /\ ctx[cand].phase = "live"
  BY DEF ActivationFails, Prepared, IInv, CandidateIsNew, Aborted
<1>2. "stopped" \in Statuses BY DEF Statuses
<1>3. /\ ctx' = C2 /\ dev' = D2 /\ op' = [op EXCEPT ![o].pc = "rollback"]
      /\ UNCHANGED <<nextCtx, current, tail, closing, cancelled>>
  BY DEF ActivationFails
<1>4. pump \in {"none", "running", "done"} OBVIOUS
<1>. HIDE DEF cand, pump
<1>5. C \in [Contexts -> CtxRecord]
  BY <1>1, <1>4 DEF CtxRecord
<1>6. \A x \in Contexts : C[x].home = ctx[x].home /\ C[x].phase = ctx[x].phase
  BY <1>1 DEF CtxRecord
<1>. HIDE DEF C
<1>7. Sound(C, D, nextCtx, {current, cand})
  BY <1>1, <1>5, <1>6, ActivateIsSound
<1>8. Pair({current, cand}, nextCtx)
  BY <1>1, ContextsAreNat DEF Pair
<1>. HIDE DEF D
<1>9. /\ Sound(C2, D2, nextCtx, {current, cand})
      /\ C2[cand].phase # "live"
      /\ \A x \in Contexts : x # cand => C2[x] = C[x]
  <2>1. nextCtx \in Nat OBVIOUS
  <2>2. /\ Sound(DisposeCtx(C, D, cand, "stopped"), DisposeDev(C, D, cand),
                 nextCtx, {current, cand})
        /\ DisposeCtx(C, D, cand, "stopped")[cand].phase # "live"
        /\ \A x \in Contexts :
             /\ x # cand => DisposeCtx(C, D, cand, "stopped")[x] = C[x]
             /\ DisposeDev(C, D, cand)[x].owners \subseteq D[x].owners
             /\ \A z \in Ops : z \in D[x].owners /\ D[x].state = "open" =>
                  /\ z \in DisposeDev(C, D, cand)[x].owners
                  /\ DisposeDev(C, D, cand)[x].state = "open"
    BY ONLY <2>1, <1>1, <1>2, <1>7, <1>8, DisposeIsSound, SMTT(30)
  <2> QED BY <2>2
<1>10. Sound(C2, D2, nextCtx, {current})
  <2>1. {current, cand} = {cand, current} OBVIOUS
  <2> QED BY <1>9, <2>1, SoundWithoutRevoked
<1>. HIDE DEF C2, D2
<1>11. /\ op' \in [Ops -> OpRecord]
       /\ \A x \in Ops : x # o => op'[x] = op[x]
       /\ op'[o].pc = "rollback"
  BY <1>3, PcTyped
<1>12. \A c \in Contexts : ~Aborted(c)' => ~Aborted(c)
  BY <1>3, <1>6, <1>9 DEF Aborted
<1>13. ctx'[op[o].cand].phase # "live" BY <1>3, <1>9 DEF cand
<1> QED BY <1>1, <1>3, <1>10, <1>11, <1>12, <1>13, HeadStep

LEMMA SettleStep ==
  ASSUME IInv, NEW o \in Ops, Settle(o) \/ FinishAbandoned(o)
  PROVE  IInv'
<1>1. Running(o) /\ op[o].pc # "prepared" /\ Reply(o)
  BY DEF Settle, FinishAbandoned
<1> QED BY <1>1, ReplyStep

LEMMA PrepareStep ==
  ASSUME IInv, NEW o \in Ops, Running(o), op[o].pc = "queued",
         NEW serial \in Serials, NEW state \in Contexts \cup {None},
         state # None => state < nextCtx /\ dev[state].state = "open",
         Prepare(o, serial, state)
  PROVE  IInv'
<1>. USE SoundNow
<1>1. /\ op' \in [Ops -> OpRecord]
      /\ \A x \in Ops : x # o => op'[x] = op[x]
      /\ op'[o].pc = "preparing" /\ op'[o].ctx = current /\ op'[o].state = state
  BY DEF Prepare, OpsTyped, OpRecord
<1>2. UNCHANGED <<ctx, nextCtx, current, tail, closing, cancelled>>
  BY DEF Prepare
<1>3. \A x \in Ops : x # o => op[x].pc \notin Busy
  BY DEF IInv, HeadOnly, Running
<1>4. /\ Sound(ctx, dev', nextCtx, {current})
      /\ state # None => o \in dev'[state].owners /\ dev'[state].state = "open"
  <2>1. CASE state = None BY <2>1, SessionAssumption, ContextsAreNat DEF Prepare
  <2>2. CASE state # None
    <3>1. state \in Contexts BY <2>2
    <3>2. /\ Sound(ctx, Acquire(dev, state, o), nextCtx, {current})
          /\ o \in Acquire(dev, state, o)[state].owners
          /\ Acquire(dev, state, o)[state].state = "open"
      BY <2>2, <3>1, AcquireIsSound
    <3> QED BY <2>2, <3>2 DEF Prepare
  <2> QED BY <2>1, <2>2
<1>5. TypeOK' BY <1>1, <1>2, <1>4 DEF IInv, TypeOK, Sound
<1>6. HeadOnly' BY <1>1, <1>2, <1>3 DEF HeadOnly, Running
<1>7. ReplacesCurrent' /\ CandidateIsNew'
  BY <1>1, <1>2, <1>3 DEF ReplacesCurrent, CandidateIsNew, Busy
<1>8. StagedOwns'
  BY <1>1, <1>2, <1>3, <1>4 DEF StagedOwns, Busy
<1>9. NoStrayContext'
  BY <1>2, <1>3 DEF IInv, NoStrayContext, Prepared, Created, Aborted, Busy
<1> QED BY <1>2, <1>4, <1>5, <1>6, <1>7, <1>8, <1>9 DEF IInv

LEMMA RunReplaceStep ==
  ASSUME IInv, NEW o \in Ops, RunSwitch(o) \/ RunMode(o) \/ RunSettings(o)
  PROVE  IInv'
<1>. USE SoundNow
<1>1. Running(o) /\ op[o].pc = "queued"
  BY DEF RunSwitch, RunMode, RunSettings, Ready
<1>2. CASE Reply(o) BY <1>1, <1>2, ReplyStep
<1>3. CASE ~Reply(o)
  <2>1. op[o].serial \in Serials BY DEF OpsTyped, OpRecord
  <2>2. ~Aborted(current) =>
          /\ ctx[current].home \in Contexts
          /\ ctx[current].home < nextCtx
          /\ dev[ctx[current].home].state = "open"
    <3>1. /\ ctx[current].home \in Contexts /\ ctx[current].home <= current
      BY DEF Sound, CtxRecord
    <3>2. ~Aborted(current) => dev[ctx[current].home].state = "open"
      BY DEF Sound, Aborted
    <3>3. ctx[current].home \in Nat BY <3>1, ContextsAreNat
    <3>4. ctx[current].home < nextCtx BY <3>1, <3>3
    <3> QED BY <3>1, <3>2, <3>4
  <2>3. \/ Prepare(o, op[o].serial, None)
        \/ ~Aborted(current) /\ Prepare(o, op[o].serial, ctx[current].home)
    BY <1>3 DEF RunSwitch, RunMode, RunSettings, IsCurrent
  <2>4. CASE Prepare(o, op[o].serial, None)
    BY <1>1, <2>1, <2>4, PrepareStep
  <2>5. CASE ~Aborted(current) /\ Prepare(o, op[o].serial, ctx[current].home)
    BY <1>1, <2>1, <2>2, <2>5, PrepareStep
  <2> QED BY <2>3, <2>4, <2>5
<1> QED BY <1>2, <1>3

LEMMA CreatedIsSound ==
  ASSUME NEW C, NEW D, NEW n \in Contexts, NEW A \in SUBSET Contexts, Sound(C, D, n, A),
         \A a \in A : a < n,
         NEW h \in Contexts, h = n \/ (h < n /\ D[h].state = "open"),
         NEW r \in CtxRecord, r.phase = "live", r.home = h
  PROVE  Sound([C EXCEPT ![n] = r], Acquire(D, h, n), n + 1, A)
<1>. DEFINE C2 == [C EXCEPT ![n] = r]
            D2 == Acquire(D, h, n)
<1>1. C \in [Contexts -> CtxRecord] /\ D \in [Contexts -> DevRecord] /\ n \in Nat
  BY ContextsAreNat DEF Sound
<1>2. /\ C2 \in [Contexts -> CtxRecord]
      /\ C2[n] = r
      /\ \A c \in Contexts : c # n => C2[c] = C[c]
  BY <1>1
<1>3. D2 \in [Contexts -> DevRecord]
  <2>1. D[h] \in DevRecord BY <1>1
  <2> QED BY <1>1, <2>1, ZenonT(60) DEF Acquire, DevRecord
<1>4. D2[h].owners = D[h].owners \cup {n} /\ D2[h].state = "open"
  BY <1>1 DEF Acquire, DevRecord
<1>5. \A s \in Contexts : /\ s # h => D2[s] = D[s]
                          /\ D2[s].targets = D[s].targets
                          /\ D2[s].input = D[s].input
  <2>1. \A s \in Contexts : s # h => D2[s] = D[s] BY <1>1 DEF Acquire
  <2>2. D2[h].targets = D[h].targets /\ D2[h].input = D[h].input
    BY <1>1 DEF Acquire, DevRecord
  <2> QED BY <2>1, <2>2
<1>. HIDE DEF C2, D2
<1>6. \A s \in Contexts :
        /\ D2[s].targets = {c \in A : C2[c].phase = "live" /\ C2[c].home = s}
        /\ D2[s].input = Youngest(D2[s].targets)
  <2>1. n \notin A BY <1>1
  <2>2. \A s \in Contexts : {c \in A : C2[c].phase = "live" /\ C2[c].home = s}
                            = {c \in A : C[c].phase = "live" /\ C[c].home = s}
    BY <1>2, <2>1
  <2> QED BY <1>5, <2>2 DEF Sound
<1>7. \A s \in Contexts : s >= n + 1 => D2[s] = UnusedDev
  <2>1. \A s \in Contexts : s >= n + 1 => s >= n /\ s # n /\ ~(s < n)
    BY <1>1, ContextsAreNat
  <2>2. \A s \in Contexts : s >= n + 1 => s # h BY <2>1
  <2> QED BY <1>5, <2>1, <2>2 DEF Sound
<1>8. \A c \in Contexts : c < n + 1 => C2[c].home <= c
  <2>1. \A c \in Contexts : c < n + 1 => c = n \/ c < n BY <1>1, ContextsAreNat
  <2> QED BY <1>1, <1>2, <2>1, ContextsAreNat DEF Sound
<1>9. \A c \in Contexts : c < n + 1 /\ C2[c].phase = "live" =>
        D2[C2[c].home].state = "open" /\ c \in D2[C2[c].home].owners
  <2>1. \A c \in Contexts : c < n + 1 => c = n \/ c < n BY <1>1, ContextsAreNat
  <2>2. \A c \in Contexts : c < n /\ C[c].phase = "live" =>
          /\ C[c].home \in Contexts
          /\ D[C[c].home].state = "open" /\ c \in D[C[c].home].owners
    BY <1>1 DEF Sound, CtxRecord
  <2>3. D2[C2[n].home].state = "open" /\ n \in D2[C2[n].home].owners
    BY <1>2, <1>4
  <2>4. \A c \in Contexts : c < n /\ C2[c].phase = "live" =>
          D2[C2[c].home].state = "open" /\ c \in D2[C2[c].home].owners
    <3>1. \A c \in Contexts : c < n => c # n /\ C2[c] = C[c] BY <1>1, <1>2
    <3> QED BY <1>4, <1>5, <2>2, <3>1
  <2> QED BY <2>1, <2>3, <2>4
<1> QED BY <1>2, <1>3, <1>6, <1>7, <1>8, <1>9 DEF Sound, C2, D2

LEMMA OpenSucceedsStep ==
  ASSUME IInv, NEW o \in Ops, OpenSucceeds(o)
  PROVE  IInv'
<1>. USE SoundNow
<1>. DEFINE n == nextCtx
            state == op[o].state
            home == IF state = None THEN n ELSE state
            r == NewContext(op[o].serial, ctx[op[o].ctx].gen + 1, home)
            owned == Acquire(dev, home, n)
<1>1. /\ Running(o) /\ op[o].pc = "preparing" /\ op[o].ctx = current
      /\ n \in Contexts
  BY DEF OpenSucceeds, IInv, ReplacesCurrent
<1>2. state # None => /\ state \in Contexts /\ state < n
                      /\ dev[state].state = "open"
  BY <1>1 DEF OpsTyped, OpRecord, IInv, StagedOwns
<1>3. home \in Contexts /\ (home = n \/ (home < n /\ dev[home].state = "open"))
  BY <1>1, <1>2
<1>4. /\ r \in CtxRecord /\ r.phase = "live" /\ r.home = home
  <2>1. op[o].serial \in Serials /\ ctx[op[o].ctx].gen + 1 \in Nat
    BY <1>1 DEF OpsTyped, OpRecord, CtxRecord
  <2>2. r \in CtxRecord
    BY <1>3, <2>1 DEF NewContext, CtxRecord, Statuses, Phases
  <2> QED BY <2>2 DEF NewContext
<1>5. /\ ctx' = [ctx EXCEPT ![n] = r]
      /\ dev' = IF state = None THEN owned ELSE Release(owned, home, o)
      /\ nextCtx' = n + 1
      /\ op' = [op EXCEPT ![o].cand = n, ![o].pc = "prepared"]
      /\ UNCHANGED <<current, tail, closing, cancelled>>
  BY DEF OpenSucceeds
<1>. HIDE DEF home, r, owned
<1>6. /\ ctx'[n].phase = "live"
      /\ \A c \in Contexts : c # n => ctx'[c] = ctx[c]
  BY <1>1, <1>4, <1>5
<1>7. Sound(ctx', owned, n + 1, {current})
  BY <1>1, <1>3, <1>4, <1>5, CreatedIsSound DEF owned
<1>8. Sound(ctx', dev', n + 1, {current})
  <2>1. CASE state = None BY <1>5, <1>7, <2>1
  <2>2. CASE state # None
    <3>1. home \in Contexts /\ home < n + 1 /\ n + 1 \in Nat
      <4>1. home = state /\ home \in Contexts /\ home < n
        BY <1>2, <2>2 DEF home
      <4>2. home \in Nat BY <4>1, ContextsAreNat
      <4> QED BY <4>1, <4>2
    <3>2. \A a \in {current} : a < n + 1 OBVIOUS
    <3>3. Sound(ctx', Release(owned, home, o), n + 1, {current})
      BY <1>7, <3>1, <3>2, StagingReleased
    <3> QED BY <1>5, <2>2, <3>3
  <2> QED BY <2>1, <2>2
<1>9. /\ op' \in [Ops -> OpRecord]
      /\ \A x \in Ops : x # o => op'[x] = op[x]
      /\ op'[o].pc = "prepared" /\ op'[o].cand = n /\ op'[o].ctx = current
  BY <1>1, <1>5 DEF OpsTyped, OpRecord
<1>10. \A x \in Ops : x # o => op[x].pc \notin Busy
  BY <1>1 DEF IInv, HeadOnly, Running
<1>11. nextCtx' \in 1 .. MaxContexts + 1 /\ current' < nextCtx'
  BY <1>1, <1>5, SessionAssumption DEF Contexts
<1>12. TypeOK'
  BY <1>5, <1>8, <1>9, <1>11 DEF IInv, TypeOK, Sound
<1>13. HeadOnly' BY <1>1, <1>5, <1>9, <1>10 DEF HeadOnly, Running
<1>14. ReplacesCurrent' /\ StagedOwns'
  BY <1>5, <1>9, <1>10 DEF ReplacesCurrent, StagedOwns, Busy
<1>15. CandidateIsNew'
  BY <1>1, <1>5, <1>6, <1>9, <1>10 DEF CandidateIsNew, Busy, Aborted
<1>16. NoStrayContext'
  <2>1. \A x \in Ops : ~Prepared(x) BY <1>1, <1>10 DEF Prepared, Busy
  <2>2. \A c \in Contexts : c < n + 1 => c = n \/ c < n BY ContextsAreNat
  <2>3. Prepared(o)' BY <1>1, <1>5, <1>9 DEF Prepared, Running
  <2>4. \A c \in Contexts : c < n /\ ctx[c].phase = "live" => c = current
    BY <2>1 DEF IInv, NoStrayContext, Created, Aborted
  <2>5. \A c \in Contexts : c < n + 1 /\ ctx'[c].phase = "live" => c = n \/ c = current
    BY <1>6, <2>2, <2>4
  <2> QED BY <1>5, <1>9, <2>3, <2>5 DEF NoStrayContext, Created, Aborted
<1> QED BY <1>5, <1>8, <1>11, <1>12, <1>13, <1>14, <1>15, <1>16 DEF IInv

LEMMA PublishStep ==
  ASSUME IInv, NEW o \in Ops, Publish(o)
  PROVE  IInv'
<1>. USE SoundNow
<1>. DEFINE cand == op[o].cand
            A == {current, cand}
            C == [ctx EXCEPT ![cand].pump = "running", ![cand].listening = TRUE]
            D == Activate(dev, ctx[cand].home, cand)
            C1 == IF ctx[cand].fatal THEN MarkCtx(C, D, cand, "error") ELSE C
            D1 == IF ctx[cand].fatal THEN MarkDev(C, D, cand, "error") ELSE D
<1>1. /\ Running(o) /\ op[o].pc = "prepared" /\ op[o].ctx = current
      /\ cand \in Contexts /\ cand < nextCtx /\ current < cand
      /\ ctx[cand].phase = "live"
  BY DEF Publish, Prepared, IInv, CandidateIsNew, ReplacesCurrent, Aborted
<1>2. "stopped" \in Statuses /\ "error" \in Statuses BY DEF Statuses
<1>3. /\ ctx' = DisposeCtx(C1, D1, current, "stopped")
      /\ dev' = DisposeDev(C1, D1, current)
      /\ current' = cand
      /\ op' = [op EXCEPT ![o].pc = "retiring"]
      /\ UNCHANGED <<nextCtx, tail, closing, cancelled>>
  BY <1>1 DEF Publish
<1>. HIDE DEF cand
<1>4. C \in [Contexts -> CtxRecord]
  BY <1>1, ZenonT(60) DEF CtxRecord
<1>5. \A x \in Contexts : C[x].home = ctx[x].home /\ C[x].phase = ctx[x].phase
  BY <1>1 DEF CtxRecord
<1>. HIDE DEF C
<1>6. Sound(C, D, nextCtx, A)
  BY <1>1, <1>4, <1>5, ActivateIsSound
<1>7. Pair(A, nextCtx)
  BY <1>1, ContextsAreNat DEF Pair
<1>. HIDE DEF A, D
<1>8. /\ Sound(C1, D1, nextCtx, A)
      /\ \A x \in Contexts : C1[x].phase = "live" => ctx[x].phase = "live"
  <2>1. CASE ctx[cand].fatal
    <3>1. /\ Sound(MarkCtx(C, D, cand, "error"), MarkDev(C, D, cand, "error"), nextCtx, A)
          /\ \A x \in Contexts :
               /\ x # cand => MarkCtx(C, D, cand, "error")[x] = C[x]
               /\ MarkCtx(C, D, cand, "error")[x].phase = "live" => C[x].phase = "live"
               /\ \A z \in Ops : z \in D[x].owners /\ D[x].state = "open" =>
                    /\ z \in MarkDev(C, D, cand, "error")[x].owners
                    /\ MarkDev(C, D, cand, "error")[x].state = "open"
      <4>1. nextCtx \in Nat OBVIOUS
      <4> QED BY ONLY <4>1, <1>1, <1>2, <1>6, <1>7, MarkIsSound
    <3> QED BY <1>5, <2>1, <3>1
  <2>2. CASE ~ctx[cand].fatal BY <1>5, <1>6, <2>2
  <2> QED BY <2>1, <2>2
<1>. HIDE DEF C1, D1
<1>9. /\ Sound(ctx', dev', nextCtx, A)
      /\ ctx'[current].phase # "live"
      /\ \A x \in Contexts : x # current => ctx'[x] = C1[x]
  <2>1. nextCtx \in Nat /\ current \in Contexts /\ current < nextCtx OBVIOUS
  <2>2. /\ Sound(DisposeCtx(C1, D1, current, "stopped"), DisposeDev(C1, D1, current),
                 nextCtx, A)
        /\ DisposeCtx(C1, D1, current, "stopped")[current].phase # "live"
        /\ \A x \in Contexts :
             /\ x # current => DisposeCtx(C1, D1, current, "stopped")[x] = C1[x]
             /\ DisposeDev(C1, D1, current)[x].owners \subseteq D1[x].owners
             /\ \A z \in Ops : z \in D1[x].owners /\ D1[x].state = "open" =>
                  /\ z \in DisposeDev(C1, D1, current)[x].owners
                  /\ DisposeDev(C1, D1, current)[x].state = "open"
    BY ONLY <2>1, <1>2, <1>7, <1>8, DisposeIsSound
  <2> QED BY <1>3, <2>2
<1>10. Sound(ctx', dev', nextCtx, {cand})
  BY <1>9, SoundWithoutRevoked DEF A
<1>11. \A c \in Contexts : ctx'[c].phase = "live" => c # current /\ ctx[c].phase = "live"
  BY <1>8, <1>9
<1>12. /\ op' \in [Ops -> OpRecord]
       /\ \A x \in Ops : x # o => op'[x] = op[x]
       /\ op'[o].pc = "retiring"
  BY <1>3, PcTyped
<1>13. /\ HeadOnly'
       /\ \A x \in Ops : op'[x].pc \notin {"preparing", "prepared"}
       /\ \A x \in Ops : Prepared(x) => x = o
  BY <1>1, <1>3, <1>12, HeadMoves
<1>14. TypeOK'
  BY <1>1, <1>3, <1>10, <1>12 DEF IInv, TypeOK, Sound
<1>15. ReplacesCurrent' /\ CandidateIsNew' /\ StagedOwns'
  BY <1>13 DEF ReplacesCurrent, CandidateIsNew, StagedOwns
<1>16. NoStrayContext'
  <2>1. \A c \in Contexts : c < nextCtx /\ ctx[c].phase = "live" => c = current \/ c = cand
    BY <1>13 DEF IInv, NoStrayContext, Created, Aborted, cand
  <2> QED BY <1>3, <1>11, <2>1 DEF NoStrayContext, Created, Aborted
<1> QED BY <1>1, <1>3, <1>10, <1>13, <1>14, <1>15, <1>16 DEF IInv

-----------------------------------------------------------------------------
(* The theorems.                                                           *)

LEMMA InitIsSound == Init => IInv
<1>. SUFFICES ASSUME Init PROVE IInv
  OBVIOUS
<1>. DEFINE r == NewContext(FirstSerial, 0, 0)
            fresh == [c \in Contexts |-> r]
            d == [owners |-> {0}, targets |-> {0}, input |-> 0, state |-> "open"]
<1>1. 0 \in Contexts BY SessionAssumption DEF Contexts
<1>2. r \in CtxRecord /\ r.phase = "live" /\ r.home = 0
  <2>1. r \in CtxRecord
    BY <1>1, SessionAssumption DEF NewContext, CtxRecord, Statuses, Phases
  <2> QED BY <2>1 DEF NewContext
<1>. HIDE DEF r
<1>3. fresh \in [Contexts -> CtxRecord] BY <1>2
<1>4. /\ \A c \in Contexts : fresh[c].home = 0 /\ fresh[c].phase = "live"
      /\ ctx = [fresh EXCEPT ![0].pump = "running", ![0].listening = TRUE]
  BY <1>2 DEF Init, r
<1>. HIDE DEF fresh
<1>5. ctx \in [Contexts -> CtxRecord]
  <2>. DEFINE pumping == [fresh EXCEPT ![0].pump = "running"]
  <2>1. pumping \in [Contexts -> CtxRecord] BY <1>1, <1>3 DEF CtxRecord
  <2>2. ctx = [pumping EXCEPT ![0].listening = TRUE] BY <1>1, <1>3, <1>4
  <2>. HIDE DEF pumping
  <2> QED BY <1>1, <2>1, <2>2, ZenonT(30) DEF CtxRecord
<1>6. \A c \in Contexts : ctx[c].home = 0 /\ ctx[c].phase = "live"
  BY <1>1, <1>3, <1>4 DEF CtxRecord
<1>7. d \in DevRecord /\ UnusedDev \in DevRecord
  BY <1>1 DEF DevRecord, UnusedDev
<1>8. /\ d.owners = {0} /\ d.targets = {0} /\ d.input = 0 /\ d.state = "open"
      /\ UnusedDev.targets = {} /\ UnusedDev.input = None
  BY DEF UnusedDev
<1>9. dev = [s \in Contexts |-> IF s = 0 THEN d ELSE UnusedDev] BY DEF Init
<1>. HIDE DEF d
<1>10. /\ dev \in [Contexts -> DevRecord]
       /\ dev[0] = d
       /\ \A s \in Contexts : s # 0 => dev[s] = UnusedDev
  BY <1>1, <1>7, <1>9
<1>11. Youngest({0}) = 0 /\ Youngest({}) = None BY YoungestOfTwo
<1>12. \A s \in Contexts :
         /\ dev[s].targets = {c \in {0} : ctx[c].phase = "live" /\ ctx[c].home = s}
         /\ dev[s].input = Youngest(dev[s].targets)
  <2>1. {c \in {0} : ctx[c].phase = "live" /\ ctx[c].home = 0} = {0}
    BY <1>1, <1>6
  <2>2. \A s \in Contexts : s # 0 =>
          {c \in {0} : ctx[c].phase = "live" /\ ctx[c].home = s} = {}
    BY <1>1, <1>6
  <2> QED BY <1>8, <1>10, <1>11, <2>1, <2>2
<1>13. Sound(ctx, dev, 1, {0})
  <2>1. \A c \in Contexts : 0 <= c /\ (c < 1 => c = 0) /\ (c >= 1 => c # 0)
    BY ContextsAreNat
  <2> QED BY <1>1, <1>5, <1>6, <1>8, <1>10, <1>12, <2>1 DEF Sound
<1>14. /\ nextCtx = 1 /\ current = 0 /\ tail = <<>> /\ closing = FALSE /\ cancelled = {}
       /\ op = [o \in Ops |-> FreshOp("none", FirstSerial, None, "idle")]
  BY DEF Init
<1>15. op \in [Ops -> OpRecord] /\ \A o \in Ops : op[o].pc = "idle"
  <2>1. /\ FreshOp("none", FirstSerial, None, "idle") \in OpRecord
        /\ FreshOp("none", FirstSerial, None, "idle").pc = "idle"
    BY FreshOpTyped, SessionAssumption
  <2> QED BY <1>14, <2>1
<1>16. 1 \in 1 .. MaxContexts + 1 BY SessionAssumption
<1>17. TypeOK
  BY <1>1, <1>5, <1>10, <1>14, <1>15, <1>16 DEF TypeOK
<1>18. HeadOnly /\ ReplacesCurrent /\ CandidateIsNew /\ StagedOwns
  BY <1>15 DEF HeadOnly, ReplacesCurrent, CandidateIsNew, StagedOwns, Busy
<1>19. NoStrayContext
  BY <1>14, ContextsAreNat DEF NoStrayContext, Created
<1> QED BY <1>13, <1>14, <1>17, <1>18, <1>19 DEF IInv

LEMMA StepIsSound == IInv /\ [Next]_vars => IInv'
<1>. SUFFICES ASSUME IInv, [Next]_vars PROVE IInv'
  OBVIOUS
<1>1. ASSUME NEW o \in Ops, Request(o) PROVE IInv'
  BY <1>1, RequestsStep
<1>2. ASSUME NEW o \in Ops, Progress(o) PROVE IInv'
  <2>1. CASE UploadsSettled(o) BY <2>1, RequestsStep
  <2>2. CASE RunSwitch(o) \/ RunMode(o) \/ RunSettings(o) BY <2>2, RunReplaceStep
  <2>3. CASE RunStop(o) BY <2>3, RunStopStep
  <2>4. CASE RunClose(o) BY <2>4, RunCloseStep
  <2>5. CASE OpenFails(o) BY <2>5, OpenFailsStep
  <2>6. CASE OpenSucceeds(o) BY <2>6, OpenSucceedsStep
  <2>7. CASE Settle(o) \/ FinishAbandoned(o) BY <2>7, SettleStep
  <2>8. CASE Withdraw(o) BY <2>8, WithdrawStep
  <2>9. CASE Publish(o) BY <2>9, PublishStep
  <2>10. ASSUME NEW pumping \in BOOLEAN, ActivationFails(o, pumping) PROVE IInv'
    BY <2>10, ActivationFailsStep
  <2> QED BY <1>2, <2>1, <2>2, <2>3, <2>4, <2>5, <2>6, <2>7, <2>8, <2>9, <2>10 DEF Progress
<1>3. ASSUME NEW c \in Contexts,
             StreamFails(c) \/ PumpEnds(c) \/ Unwind(c) \/ CloseState(c)
      PROVE  IInv'
  BY <1>3, StreamFailsStep, PumpEndsStep, UnwindStep, CloseStateStep
<1>4. CASE UNCHANGED vars
  BY <1>4 DEF vars, IInv, TypeOK, Sound, HeadOnly, ReplacesCurrent, CandidateIsNew,
              StagedOwns, NoStrayContext, Running, Prepared, Created, Aborted
<1> QED BY <1>1, <1>2, <1>3, <1>4 DEF Next

\* The inductive invariant holds in every reachable state.
THEOREM Invariance == Spec => []IInv
<1>1. Init => IInv BY InitIsSound
<1>2. IInv /\ [Next]_vars => IInv' BY StepIsSound
<1> QED BY <1>1, <1>2, PTL DEF Spec

\* Every variable always holds a value the program can produce.
THEOREM TypeCorrect == Spec => []TypeOK
<1>1. IInv => TypeOK BY DEF IInv
<1> QED BY <1>1, Invariance, PTL

\* No generation outlives its purpose, whatever fails while it is prepared.
THEOREM NoStray == Spec => []NoStrayContext
<1>1. IInv => NoStrayContext BY DEF IInv
<1> QED BY <1>1, Invariance, PTL

\* A published live session always holds its device state and is the target
\* of replayed gestures.
THEOREM PublishedDrives == Spec => []PublishedSessionDrivesItsDevice
<1>1. IInv => PublishedSessionDrivesItsDevice
  <2>. SUFFICES ASSUME IInv, IsCurrent(current) PROVE
         /\ dev[ctx[current].home].state = "open"
         /\ current \in dev[ctx[current].home].owners
         /\ dev[ctx[current].home].input = current
    BY DEF PublishedSessionDrivesItsDevice
  <2>. USE SoundNow
  <2>1. ctx[current].phase = "live" /\ ctx[current].home \in Contexts
    BY DEF IsCurrent, Aborted, CtxRecord
  <2>2. dev[ctx[current].home].targets = {current}
    BY <2>1 DEF Sound
  <2>3. Youngest({current}) = current BY YoungestOfTwo
  <2> QED BY <2>1, <2>2, <2>3 DEF Sound
<1> QED BY <1>1, Invariance, PTL

\* Replayed gestures never go to a staged, withdrawn or retired stream.
THEOREM ReplayIsCurrent == Spec => []ReplayTargetsPublished
<1>1. IInv => ReplayTargetsPublished
  <2>. SUFFICES ASSUME IInv, NEW s \in Contexts, dev[s].input # None
                PROVE  IsCurrent(dev[s].input)
    BY DEF ReplayTargetsPublished
  <2>. USE SoundNow
  <2>1. dev[s].targets \in SUBSET {current} /\ dev[s].input = Youngest(dev[s].targets)
    BY DEF Sound
  <2>2. dev[s].targets = {current} /\ dev[s].input = current
    BY <2>1, YoungestOfTwo
  <2>3. ctx[current].phase = "live" BY <2>2 DEF Sound
  <2> QED BY <2>2, <2>3 DEF IsCurrent, Aborted
<1> QED BY <1>1, Invariance, PTL

\* The device state a replacement keeps is never disposed while it prepares.
THEOREM StagedStaysOpen == Spec => []StagedStateStaysOpen
<1>1. IInv => StagedStateStaysOpen BY DEF IInv, StagedOwns, StagedStateStaysOpen
<1> QED BY <1>1, Invariance, PTL


-----------------------------------------------------------------------------
(* What the manager promises: it implements PublishedSession, a verdict is *)
(* final, and an answered close() leaves nothing behind. PInv adds to IInv *)
(* what these need: who owns a device state and who awaits a disposal.     *)

\* The device states D are open as long as somebody owns them: a live context
\* of C, or a request of P that stages one; and somebody awaits their disposal.
Held(C, D, n, P) ==
  \A s \in Contexts :
    /\ \A x \in D[s].owners :
         \/ x \in Contexts /\ x < n /\ C[x].phase = "live" /\ C[x].home = s
         \/ x \in Ops /\ P[x].pc = "preparing" /\ P[x].state = s
    /\ D[s].state = "open" => D[s].owners # {}
    /\ D[s].state = "closing" =>
         \/ \E o \in Ops : P[o].pc = "abandoning" /\ P[o].state = s
         \/ \E c \in Contexts : c < n /\ C[c].phase = "releasing" /\ C[c].home = s

\* A live context has nothing to report yet, a revoked one has a verdict.
VerdictGiven(C) ==
  \A c \in Contexts :
    IF C[c].phase = "live" THEN C[c].status = "streaming" /\ ~C[c].terminal
                           ELSE C[c].status # "streaming"

\* The candidate carries the generation after the published one's.
CandidateSucceeds ==
  \A o \in Ops : op[o].pc = "prepared" =>
    ctx[op[o].cand].gen = ctx[current].gen + 1

\* A stop that waits names the published context or one before it.
StopsNameThePast ==
  \A o \in Ops : op[o].kind = "stop" /\ op[o].pc = "queued" =>
    op[o].ctx \in Contexts /\ op[o].ctx <= current

\* close() names the context it revoked, which stays the last one published.
CloseIsLast ==
  /\ closing => Aborted(current)
  /\ \A o \in Ops : op[o].kind = "close" =>
       /\ closing
       /\ op[o].pc \in {"queued", "stopping", "answered"}
       /\ op[o].pc \in {"queued", "stopping"} => op[o].ctx = current

\* Every context created is the published one, disposed, or one that the head
\* of the chain prepares or whose disposal it awaits.
DisposalAwaited ==
  \A c \in Contexts : Created(c) /\ ~Disposed(c) =>
    \/ c = current
    \/ \E o \in Ops : \/ op[o].pc \in {"prepared", "rollback"} /\ op[o].cand = c
                      \/ op[o].pc = "retiring" /\ op[o].ctx = c

Over(o) == op[o].kind = "close" /\ op[o].pc = "answered"

\* Once close() has been answered every context is disposed of and stays so.
OverIsOver ==
  (\E o \in Ops : Over(o)) =>
    /\ \A x \in Ops : op[x].pc \in Busy => op[x].pc = "stopping"
    /\ \A c \in Contexts : Created(c) => Disposed(c)

PInv ==
  /\ IInv
  /\ Held(ctx, dev, nextCtx, op)
  /\ VerdictGiven(ctx)
  /\ CandidateSucceeds
  /\ StopsNameThePast
  /\ CloseIsLast
  /\ DisposalAwaited
  /\ OverIsOver

-----------------------------------------------------------------------------
(* What dispose and markTerminal do to a context and its device state.     *)

LEMMA Disposal ==
  ASSUME NEW C \in [Contexts -> CtxRecord], NEW D \in [Contexts -> DevRecord],
         NEW c \in Contexts, NEW status \in Statuses, C[c].phase = "live"
  PROVE  /\ \A x \in Contexts : x # c => DisposeCtx(C, D, c, status)[x] = C[x]
         /\ DisposeCtx(C, D, c, status)[c].home = C[c].home
         /\ DisposeCtx(C, D, c, status)[c].gen = C[c].gen
         /\ DisposeCtx(C, D, c, status)[c].status = status
         /\ DisposeCtx(C, D, c, status)[c].terminal = C[c].terminal
         /\ DisposeCtx(C, D, c, status)[c].phase
              = IF LastOwner(D, C[c].home, c) THEN "releasing" ELSE "released"
         /\ \A s \in Contexts : s # C[c].home => DisposeDev(C, D, c)[s] = D[s]
         /\ DisposeDev(C, D, c)[C[c].home].owners = D[C[c].home].owners \ {c}
         /\ DisposeDev(C, D, c)[C[c].home].state
              = IF LastOwner(D, C[c].home, c) THEN "closing" ELSE D[C[c].home].state
<1>. DEFINE h == C[c].home
            C2 == DisposeCtx(C, D, c, status)
            D2 == DisposeDev(C, D, c)
            ended == IF LastOwner(D, h, c) THEN "releasing" ELSE "released"
<1>1. C2 = [C EXCEPT ![c].status = status, ![c].phase = ended] BY DEF DisposeCtx
<1>2. h \in Contexts BY DEF CtxRecord
<1>3. D2 = Release(D, h, c) BY DEF DisposeDev
<1>4. ended = IF LastOwner(D, h, c) THEN "releasing" ELSE "released" OBVIOUS
<1>. HIDE DEF ended, C2, D2
<1>5. /\ \A x \in Contexts : x # c => C2[x] = C[x]
      /\ C2[c].home = h /\ C2[c].gen = C[c].gen
      /\ C2[c].status = status /\ C2[c].terminal = C[c].terminal
      /\ C2[c].phase = ended
  BY <1>1 DEF CtxRecord
<1>6. /\ \A s \in Contexts : s # h => D2[s] = D[s]
      /\ D2[h].owners = D[h].owners \ {c}
      /\ D2[h].state = IF LastOwner(D, h, c) THEN "closing" ELSE D[h].state
  BY <1>2, <1>3 DEF Release, LastOwner, ClosingDev
<1> QED BY <1>4, <1>5, <1>6 DEF C2, D2

LEMMA DisposalOfRevoked ==
  ASSUME NEW C, NEW D, NEW c, NEW status, C[c].phase # "live"
  PROVE  DisposeCtx(C, D, c, status) = C /\ DisposeDev(C, D, c) = D
BY DEF DisposeCtx, DisposeDev

\* A context with a verdict of its own.
LEMMA DisposalGivesVerdict ==
  ASSUME NEW C \in [Contexts -> CtxRecord], NEW D \in [Contexts -> DevRecord],
         NEW c \in Contexts, NEW status \in Statuses, status # "streaming",
         VerdictGiven(C)
  PROVE  VerdictGiven(DisposeCtx(C, D, c, status))
<1>1. CASE C[c].phase # "live" BY <1>1, DisposalOfRevoked
<1>2. CASE C[c].phase = "live" BY <1>2, Disposal DEF VerdictGiven
<1> QED BY <1>1, <1>2

\* Disposal keeps every device state in somebody's hands.
LEMMA DisposalHolds ==
  ASSUME NEW C \in [Contexts -> CtxRecord], NEW D \in [Contexts -> DevRecord],
         NEW n \in Nat, NEW P, NEW c \in Contexts, c < n, NEW status \in Statuses,
         Held(C, D, n, P)
  PROVE  Held(DisposeCtx(C, D, c, status), DisposeDev(C, D, c), n, P)
<1>1. CASE C[c].phase # "live" BY <1>1, DisposalOfRevoked
<1>2. CASE C[c].phase = "live"
  <2>. DEFINE h  == C[c].home
              C2 == DisposeCtx(C, D, c, status)
              D2 == DisposeDev(C, D, c)
  <2>1. h \in Contexts BY DEF CtxRecord
  <2>2. /\ \A x \in Contexts : x # c => C2[x] = C[x]
        /\ C2[c].home = h
        /\ C2[c].phase = IF LastOwner(D, h, c) THEN "releasing" ELSE "released"
        /\ \A s \in Contexts : s # h => D2[s] = D[s]
        /\ D2[h].owners = D[h].owners \ {c}
        /\ D2[h].state = IF LastOwner(D, h, c) THEN "closing" ELSE D[h].state
    BY <1>2, Disposal
  <2>3. c \notin Ops BY ContextsAreNat, SessionAssumption
  <2>. HIDE DEF C2, D2, h
  <2>4. ASSUME NEW s \in Contexts, NEW x \in D2[s].owners
        PROVE  \/ x \in Contexts /\ x < n /\ C2[x].phase = "live" /\ C2[x].home = s
               \/ x \in Ops /\ P[x].pc = "preparing" /\ P[x].state = s
    <3>1. x \in D[s].owners BY <2>2
    <3>2. x # c \/ s # h BY <2>2
    <3>3. CASE x = c
      BY <2>3, <3>1, <3>2, <3>3 DEF Held, h
    <3> QED BY <2>2, <3>1, <3>3 DEF Held
  <2>5. ASSUME NEW s \in Contexts, D2[s].state = "open" PROVE D2[s].owners # {}
    <3>1. CASE s # h BY <2>2, <2>5, <3>1 DEF Held
    <3>2. CASE s = h
      <4>1. ~LastOwner(D, h, c) /\ D[h].state = "open" BY <2>2, <2>5, <3>2
      <4>2. D[h].owners # {} /\ D[h].owners # {c} BY <2>1, <4>1 DEF Held, LastOwner
      <4> QED BY <2>2, <3>2, <4>2
    <3> QED BY <3>1, <3>2
  <2>6. ASSUME NEW s \in Contexts, D2[s].state = "closing"
        PROVE  \/ \E o \in Ops : P[o].pc = "abandoning" /\ P[o].state = s
               \/ \E d \in Contexts : d < n /\ C2[d].phase = "releasing" /\ C2[d].home = s
    <3>1. CASE s = h /\ LastOwner(D, h, c) BY <2>2, <3>1
    <3>2. CASE ~(s = h /\ LastOwner(D, h, c))
      <4>1. D[s].state = "closing" BY <2>2, <2>6, <3>2
      <4>2. \A d \in Contexts : C[d].phase = "releasing" => d # c /\ C2[d] = C[d]
        BY <1>2, <2>2
      <4> QED BY <4>1, <4>2 DEF Held
    <3> QED BY <3>1, <3>2
  <2>7. Held(C2, D2, n, P) BY <2>4, <2>5, <2>6 DEF Held
  <2> QED BY <2>7 DEF C2, D2
<1> QED BY <1>1, <1>2

\* What is held does not depend on anything else of the contexts.
LEMMA HeldUnlessRevoked ==
  ASSUME NEW C, NEW C2, NEW D, NEW D2, NEW n, NEW P, Held(C, D, n, P),
         \A c \in Contexts : C2[c].home = C[c].home /\ C2[c].phase = C[c].phase,
         \A s \in Contexts : D2[s].owners = D[s].owners /\ D2[s].state = D[s].state
  PROVE  Held(C2, D2, n, P)
BY DEF Held

\* markTerminal either does nothing, or gives the context its last verdict.
LEMMA Marking ==
  ASSUME NEW C \in [Contexts -> CtxRecord], NEW D \in [Contexts -> DevRecord],
         NEW c \in Contexts, NEW status \in {"stopped", "error"}, VerdictGiven(C)
  PROVE  /\ VerdictGiven(MarkCtx(C, D, c, status))
         /\ \A x \in Contexts : x # c => MarkCtx(C, D, c, status)[x] = C[x]
         /\ MarkCtx(C, D, c, status)[c].gen = C[c].gen
         /\ C[c].phase = "live" =>
              /\ MarkCtx(C, D, c, status)[c].phase \in {"releasing", "released"}
              /\ MarkCtx(C, D, c, status)[c].terminal
              /\ MarkCtx(C, D, c, status)[c].status = status
         /\ C[c].phase # "live" =>
              \/ MarkCtx(C, D, c, status) = C
              \/ /\ MarkCtx(C, D, c, status)[c].phase = C[c].phase
                 /\ MarkCtx(C, D, c, status)[c].terminal
                 /\ MarkCtx(C, D, c, status)[c].status = "error"
                 /\ C[c].status = "stopped"
<1>. DEFINE C1 == [C EXCEPT ![c].terminal = TRUE, ![c].status = status]
<1>0. status \in Statuses /\ status # "streaming" BY DEF Statuses
<1>1. C1 \in [Contexts -> CtxRecord] BY <1>0, ZenonT(60) DEF CtxRecord
<1>2. /\ \A x \in Contexts : x # c => C1[x] = C[x]
      /\ C1[c].gen = C[c].gen /\ C1[c].home = C[c].home /\ C1[c].phase = C[c].phase
      /\ C1[c].terminal /\ C1[c].status = status
  BY DEF CtxRecord
<1>3. CASE C[c].phase = "live"
  <2>1. TerminalAllowed(C[c].status, status) BY <1>3 DEF VerdictGiven, TerminalAllowed
  <2>2. /\ MarkCtx(C, D, c, status) = DisposeCtx(C1, D, c, status)
        /\ MarkDev(C, D, c, status) = DisposeDev(C, D, c)
    BY <2>1 DEF MarkCtx, MarkDev
  <2>. HIDE DEF C1
  <2>3. DisposeDev(C, D, c) = DisposeDev(C1, D, c) BY <1>2 DEF DisposeDev
  <2>4. /\ \A x \in Contexts : x # c => DisposeCtx(C1, D, c, status)[x] = C1[x]
        /\ DisposeCtx(C1, D, c, status)[c].gen = C1[c].gen
        /\ DisposeCtx(C1, D, c, status)[c].status = status
        /\ DisposeCtx(C1, D, c, status)[c].terminal = C1[c].terminal
        /\ DisposeCtx(C1, D, c, status)[c].phase
             = IF LastOwner(D, C1[c].home, c) THEN "releasing" ELSE "released"
    <3>1. C1[c].phase = "live" BY <1>2, <1>3
    <3>2. status \in Statuses BY <1>0
    <3> QED BY ONLY <1>1, <3>1, <3>2, Disposal, D \in [Contexts -> DevRecord], c \in Contexts
  <2>5. VerdictGiven(DisposeCtx(C1, D, c, status))
    BY <1>0, <1>2, <2>4 DEF VerdictGiven
  <2> QED BY <1>2, <1>3, <2>2, <2>3, <2>4, <2>5
<1>4. CASE C[c].phase # "live"
  <2>1. CASE ~TerminalAllowed(C[c].status, status)
    BY <1>4, <2>1 DEF MarkCtx, MarkDev
  <2>2. CASE TerminalAllowed(C[c].status, status)
    <3>1. C[c].status = "stopped" /\ status = "error"
      BY <1>4, <2>2 DEF VerdictGiven, TerminalAllowed
    <3>2. /\ MarkCtx(C, D, c, status) = DisposeCtx(C1, D, c, status)
          /\ MarkDev(C, D, c, status) = DisposeDev(C, D, c)
      BY <2>2 DEF MarkCtx, MarkDev
    <3>. HIDE DEF C1
    <3>3. MarkCtx(C, D, c, status) = C1 /\ MarkDev(C, D, c, status) = D
      BY <1>2, <1>4, <3>2, DisposalOfRevoked
    <3>4. VerdictGiven(C1) BY <1>0, <1>2, <1>4 DEF VerdictGiven
    <3> QED BY <1>2, <1>4, <3>1, <3>3, <3>4
  <2> QED BY <2>1, <2>2
<1> QED BY <1>3, <1>4

LEMMA MarkingHolds ==
  ASSUME NEW C \in [Contexts -> CtxRecord], NEW D \in [Contexts -> DevRecord],
         NEW n \in Nat, NEW P, NEW c \in Contexts, c < n,
         NEW status \in {"stopped", "error"}, Held(C, D, n, P)
  PROVE  Held(MarkCtx(C, D, c, status), MarkDev(C, D, c, status), n, P)
<1>. DEFINE C1 == [C EXCEPT ![c].terminal = TRUE, ![c].status = status]
<1>0. status \in Statuses BY DEF Statuses
<1>1. C1 \in [Contexts -> CtxRecord] BY <1>0, ZenonT(60) DEF CtxRecord
<1>2. \A x \in Contexts : C1[x].home = C[x].home /\ C1[x].phase = C[x].phase
  BY DEF CtxRecord
<1>3. CASE ~TerminalAllowed(C[c].status, status)
  BY <1>3 DEF MarkCtx, MarkDev
<1>4. CASE TerminalAllowed(C[c].status, status)
  <2>1. /\ MarkCtx(C, D, c, status) = DisposeCtx(C1, D, c, status)
        /\ MarkDev(C, D, c, status) = DisposeDev(C, D, c)
    BY <1>4 DEF MarkCtx, MarkDev
  <2>. HIDE DEF C1
  <2>2. DisposeDev(C, D, c) = DisposeDev(C1, D, c) BY <1>2 DEF DisposeDev
  <2>3. Held(C1, D, n, P) BY <1>2, HeldUnlessRevoked
  <2>4. Held(DisposeCtx(C1, D, c, status), DisposeDev(C1, D, c), n, P)
    BY <1>0, <1>1, <2>3, DisposalHolds
  <2> QED BY <2>1, <2>2, <2>4
<1> QED BY <1>3, <1>4

-----------------------------------------------------------------------------
(* What the steps have in common.                                          *)

LEMMA PNow ==
  ASSUME PInv
  PROVE  /\ IInv
         /\ current \in Contexts /\ current \in Nat /\ current < nextCtx
         /\ nextCtx \in Nat
         /\ ctx \in [Contexts -> CtxRecord]
         /\ dev \in [Contexts -> DevRecord]
         /\ op \in [Ops -> OpRecord]
         /\ Held(ctx, dev, nextCtx, op) /\ VerdictGiven(ctx)
BY SoundNow DEF PInv, OpsTyped

LEMMA OthersWait ==
  ASSUME IInv, NEW o \in Ops, Running(o)
  PROVE  \A x \in Ops : x # o => op[x].pc \notin Busy
BY DEF IInv, HeadOnly, Running

\* Nothing is prepared, and nobody waits for one that was, once close() is
\* answered.
LEMMA NotOver ==
  ASSUME PInv, NEW o \in Ops,
         ~closing \/ op[o].pc \in Busy \ {"stopping"}
  PROVE  \A x \in Ops : ~Over(x)
BY DEF PInv, CloseIsLast, OverIsOver, Over

\* The head of the chain is answered and changes nothing else.
LEMMA ReplyKeeps ==
  ASSUME PInv, IInv', NEW o \in Ops, Running(o), Reply(o),
         op[o].pc \notin {"preparing", "prepared"},
         op[o].pc = "abandoning" => dev[op[o].state].state = "closed",
         op[o].pc = "rollback" => Disposed(op[o].cand),
         op[o].pc = "retiring" => Disposed(op[o].ctx),
         op[o].kind = "close" => op[o].pc = "stopping" /\ Disposed(op[o].ctx)
  PROVE  PInv'
<1>. USE PNow
<1>1. /\ \A x \in Ops : x # o => op'[x] = op[x]
      /\ op'[o].pc = "answered" /\ op'[o].kind = op[o].kind
      /\ UNCHANGED <<ctx, dev, nextCtx, current, closing>>
  BY DEF Reply, Finish, FreshOp
<1>2. \A x \in Ops : x # o => op[x].pc \notin Busy BY OthersWait
<1>3. Held(ctx', dev', nextCtx', op')
  BY <1>1 DEF Held
<1>4. VerdictGiven(ctx') BY <1>1
<1>5. CandidateSucceeds' BY <1>1 DEF PInv, CandidateSucceeds
<1>6. StopsNameThePast' BY <1>1 DEF PInv, StopsNameThePast
<1>7. CloseIsLast' BY <1>1 DEF PInv, CloseIsLast, Aborted
<1>8. DisposalAwaited'
  BY <1>1 DEF PInv, DisposalAwaited, Created, Disposed
<1>9. OverIsOver'
  <2>1. CASE \E x \in Ops : Over(x)
    BY <1>1, <2>1 DEF PInv, OverIsOver, Over, Created, Disposed, Busy
  <2>2. CASE ~\E x \in Ops : Over(x)
    <3>1. SUFFICES ASSUME op[o].kind = "close"
                   PROVE  /\ \A x \in Ops : op'[x].pc \notin Busy
                          /\ \A c \in Contexts : Created(c) => Disposed(c)
      BY <1>1, <2>2 DEF OverIsOver, Over, Created, Disposed
    <3>2. op[o].pc = "stopping" /\ Disposed(current)
      BY <3>1 DEF PInv, CloseIsLast
    <3>3. \A c \in Contexts : Created(c) => Disposed(c)
      BY <1>2, <3>2 DEF PInv, DisposalAwaited, Busy
    <3> QED BY <1>1, <1>2, <3>3 DEF Busy
  <2> QED BY <2>1, <2>2
<1> QED BY <1>3, <1>4, <1>5, <1>6, <1>7, <1>8, <1>9 DEF PInv

\* A request is made or joins the chain.
LEMMA RequestKeeps ==
  ASSUME PInv, IInv', NEW o \in Ops, op[o].pc \in {"idle", "uploads"},
         NEW r, op' = [op EXCEPT ![o] = r], r.pc \in {"uploads", "queued"},
         r.kind = "stop" => r.ctx = current,
         UNCHANGED <<nextCtx, current>>,
         \/ UNCHANGED <<ctx, dev, closing>> /\ r.kind # "close"
         \/ /\ ~closing /\ closing' = TRUE
            /\ r.kind = "close" /\ r.ctx = current /\ r.pc = "queued"
            /\ ctx' = DisposeCtx(ctx, dev, current, "stopped")
            /\ dev' = DisposeDev(ctx, dev, current)
  PROVE  PInv'
<1>. USE PNow
<1>1. (\A x \in Ops : x # o => op'[x] = op[x]) /\ op'[o] = r OBVIOUS
<1>2. "stopped" \in Statuses BY DEF Statuses
<1>3. Held(ctx', dev', nextCtx', op')
  <2>1. Held(ctx', dev', nextCtx, op) BY <1>2, DisposalHolds
  <2> QED BY <1>1, <2>1 DEF Held
<1>4. VerdictGiven(ctx') BY <1>2, DisposalGivesVerdict
<1>5. /\ \A c \in Contexts : c # current => ctx'[c] = ctx[c]
      /\ ctx'[current].gen = ctx[current].gen
      /\ \A c \in Contexts : Disposed(c) => ctx'[c] = ctx[c]
      /\ Aborted(current) => Aborted(current)'
      /\ closing' => closing \/ Aborted(current)'
  <2>1. CASE UNCHANGED <<ctx, dev, closing>> BY <2>1 DEF Aborted
  <2>2. CASE ~UNCHANGED <<ctx, dev, closing>>
    <3>1. CASE Aborted(current)
      BY <2>2, <3>1, DisposalOfRevoked DEF Aborted
    <3>2. CASE ~Aborted(current)
      <4>1. ctx[current].phase = "live" BY <3>2 DEF Aborted
      <4>2. /\ \A x \in Contexts : x # current =>
                 DisposeCtx(ctx, dev, current, "stopped")[x] = ctx[x]
            /\ DisposeCtx(ctx, dev, current, "stopped")[current].gen = ctx[current].gen
            /\ DisposeCtx(ctx, dev, current, "stopped")[current].phase
                 = IF LastOwner(dev, ctx[current].home, current)
                   THEN "releasing" ELSE "released"
        BY <1>2, <4>1, Disposal
      <4>3. ctx' = DisposeCtx(ctx, dev, current, "stopped") BY <2>2
      <4> QED BY <3>2, <4>1, <4>2, <4>3 DEF Aborted, Disposed
    <3> QED BY <3>1, <3>2
  <2> QED BY <2>1, <2>2
<1>6. CandidateSucceeds'
  BY <1>1, <1>5 DEF PInv, IInv, CandidateIsNew, CandidateSucceeds
<1>7. StopsNameThePast'
  BY <1>1 DEF PInv, StopsNameThePast
<1>8. CloseIsLast'
  BY <1>1, <1>5 DEF PInv, CloseIsLast, Aborted
<1>9. DisposalAwaited'
  BY <1>1, <1>5 DEF PInv, DisposalAwaited, Created, Disposed
<1>10. OverIsOver'
  <2>1. CASE \E x \in Ops : Over(x)
    BY <1>1, <1>5, <2>1 DEF PInv, OverIsOver, Over, Created, Disposed, Busy
  <2>2. CASE ~\E x \in Ops : Over(x)
    BY <1>1, <2>2 DEF OverIsOver, Over
  <2> QED BY <2>1, <2>2
<1> QED BY <1>3, <1>4, <1>6, <1>7, <1>8, <1>9, <1>10 DEF PInv

LEMMA RequestsKeep ==
  ASSUME PInv, IInv', NEW o \in Ops, Request(o) \/ UploadsSettled(o)
  PROVE  PInv'
<1>1. ASSUME NEW serial \in Serials, RequestSwitch(o, serial)
      PROVE  PInv'
  <2>1. /\ FreshOp("switch", serial, None, "uploads").pc = "uploads"
        /\ FreshOp("switch", serial, None, "uploads").kind = "switch"
        /\ FreshOp("switch", serial, None, "queued").pc = "queued"
        /\ FreshOp("switch", serial, None, "queued").kind = "switch"
    BY DEF FreshOp
  <2> QED BY <1>1, <2>1, RequestKeeps DEF RequestSwitch, Enqueue
<1>2. ASSUME NEW kind \in {"mode", "settings", "stop"}, RequestOnCurrent(o, kind)
      PROVE  PInv'
  <2>1. /\ FreshOp(kind, ctx[current].serial, current, "queued").pc = "queued"
        /\ FreshOp(kind, ctx[current].serial, current, "queued").kind = kind
        /\ FreshOp(kind, ctx[current].serial, current, "queued").ctx = current
    BY DEF FreshOp
  <2> QED BY <1>2, <2>1, RequestKeeps DEF RequestOnCurrent, Enqueue
<1>3. CASE Shutdown(o)
  <2>1. /\ FreshOp("close", FirstSerial, current, "queued").pc = "queued"
        /\ FreshOp("close", FirstSerial, current, "queued").kind = "close"
        /\ FreshOp("close", FirstSerial, current, "queued").ctx = current
    BY DEF FreshOp
  <2> QED BY <1>3, <2>1, RequestKeeps DEF Shutdown, Enqueue
<1>4. CASE UploadsSettled(o)
  <2>1. /\ FreshOp("switch", op[o].serial, None, "queued").pc = "queued"
        /\ FreshOp("switch", op[o].serial, None, "queued").kind = "switch"
    BY DEF FreshOp
  <2> QED BY <1>4, <2>1, RequestKeeps DEF UploadsSettled, Enqueue
<1> QED BY <1>1, <1>2, <1>3, <1>4 DEF Request

-----------------------------------------------------------------------------
(* The head of the chain.                                                  *)

LEMMA PrepareKeeps ==
  ASSUME PInv, IInv', NEW o \in Ops, Running(o), op[o].pc = "queued", ~closing,
         NEW serial, NEW state \in Contexts \cup {None}, Prepare(o, serial, state)
  PROVE  PInv'
<1>. USE PNow
<1>1. /\ \A x \in Ops : x # o => op'[x] = op[x]
      /\ op'[o].pc = "preparing" /\ op'[o].state = state /\ op'[o].kind = op[o].kind
      /\ UNCHANGED <<ctx, nextCtx, current, closing>>
      /\ dev' = IF state = None THEN dev ELSE Acquire(dev, state, o)
  BY DEF Prepare, OpRecord
<1>2. \A s \in Contexts :
        /\ dev'[s].owners = dev[s].owners \/ (s = state /\ dev'[s].owners = dev[s].owners \cup {o})
        /\ dev'[s].state = dev[s].state \/ (o \in dev'[s].owners /\ dev'[s].state = "open")
  <2>1. CASE state = None BY <1>1, <2>1
  <2>2. CASE state # None
    <3>1. \A s \in Contexts : s # state => dev'[s] = dev[s] BY <1>1, <2>2 DEF Acquire
    <3>2. dev'[state].owners = dev[state].owners \cup {o} /\ dev'[state].state = "open"
      BY <1>1, <2>2 DEF Acquire, DevRecord
    <3> QED BY <3>1, <3>2
  <2> QED BY <2>1, <2>2
<1>3. Held(ctx', dev', nextCtx', op')
  BY <1>1, <1>2 DEF Held
<1>4. CandidateSucceeds' BY <1>1 DEF PInv, CandidateSucceeds
<1>5. StopsNameThePast' BY <1>1 DEF PInv, StopsNameThePast
<1>6. CloseIsLast' BY <1>1 DEF PInv, CloseIsLast, Aborted
<1>7. DisposalAwaited'
  BY <1>1 DEF PInv, DisposalAwaited, Created, Disposed
<1>8. OverIsOver'
  <2>1. \A x \in Ops : ~Over(x) BY NotOver
  <2> QED BY <1>1, <2>1 DEF OverIsOver, Over
<1> QED BY <1>1, <1>3, <1>4, <1>5, <1>6, <1>7, <1>8 DEF PInv

LEMMA RunReplaceKeeps ==
  ASSUME PInv, IInv', NEW o \in Ops, RunSwitch(o) \/ RunMode(o) \/ RunSettings(o)
  PROVE  PInv'
<1>. USE PNow
<1>1. /\ Running(o) /\ op[o].pc = "queued"
      /\ op[o].kind \in {"switch", "mode", "settings"}
  BY DEF RunSwitch, RunMode, RunSettings, Ready
<1>2. CASE Reply(o) BY <1>1, <1>2, ReplyKeeps
<1>3. CASE ~Reply(o)
  <2>1. ~closing BY <1>3 DEF RunSwitch, RunMode, RunSettings
  <2>2. ctx[current].home \in Contexts BY DEF CtxRecord
  <2>3. \/ Prepare(o, op[o].serial, None)
        \/ Prepare(o, op[o].serial, ctx[current].home)
    BY <1>3 DEF RunSwitch, RunMode, RunSettings
  <2>4. CASE Prepare(o, op[o].serial, None) BY <1>1, <2>1, <2>4, PrepareKeeps
  <2>5. CASE Prepare(o, op[o].serial, ctx[current].home)
    BY <1>1, <2>1, <2>2, <2>5, PrepareKeeps
  <2> QED BY <2>3, <2>4, <2>5
<1> QED BY <1>2, <1>3

\* The head of the chain disposes of context c, if anything, and awaits that. C
\* and D are what activation left of ctx and dev before it threw.
LEMMA HeadDisposesKeeps ==
  ASSUME PInv, IInv', NEW o \in Ops, Running(o),
         NEW pc \in {"rollback", "stopping"}, op' = [op EXCEPT ![o].pc = pc],
         \/ pc = "stopping" /\ op[o].pc = "queued"
         \/ pc = "rollback" /\ op[o].pc = "prepared",
         UNCHANGED <<nextCtx, current, closing>>,
         NEW c \in Contexts, c < nextCtx,
         pc = "stopping" => c = current,
         pc = "rollback" => c = op[o].cand,
         NEW C \in [Contexts -> CtxRecord], NEW D \in [Contexts -> DevRecord],
         \A x \in Contexts : /\ C[x].home = ctx[x].home /\ C[x].phase = ctx[x].phase
                             /\ C[x].gen = ctx[x].gen /\ C[x].status = ctx[x].status
                             /\ C[x].terminal = ctx[x].terminal,
         \A s \in Contexts : D[s].owners = dev[s].owners /\ D[s].state = dev[s].state,
         \/ ctx' = C /\ dev' = D
         \/ /\ ctx' = DisposeCtx(C, D, c, "stopped")
            /\ dev' = DisposeDev(C, D, c)
  PROVE  PInv'
<1>. USE PNow
<1>1. /\ \A x \in Ops : x # o => op'[x] = op[x]
      /\ op'[o].pc = pc /\ op'[o].kind = op[o].kind /\ op'[o].ctx = op[o].ctx
      /\ op'[o].cand = op[o].cand
  BY DEF OpRecord
<1>2. "stopped" \in Statuses BY DEF Statuses
<1>3. Held(ctx', dev', nextCtx', op')
  <2>1. Held(C, D, nextCtx, op) BY HeldUnlessRevoked
  <2>2. Held(ctx', dev', nextCtx, op) BY <1>2, <2>1, DisposalHolds
  <2> QED BY <1>1, <2>2 DEF Held
<1>4. VerdictGiven(ctx')
  <2>1. VerdictGiven(C) BY DEF VerdictGiven
  <2> QED BY <1>2, <2>1, DisposalGivesVerdict
<1>5. /\ \A x \in Contexts : ctx'[x].gen = ctx[x].gen
      /\ \A x \in Contexts : ctx[x].phase = "disposed" => ctx'[x].phase = "disposed"
      /\ \A x \in Contexts : x # c => ctx'[x].phase = ctx[x].phase
      /\ \A x \in Contexts : ctx[x].phase # "live" => ctx'[x].phase # "live"
  <2>1. CASE ctx' = C BY <2>1
  <2>2. CASE C[c].phase # "live" BY <2>2, DisposalOfRevoked
  <2>3. CASE C[c].phase = "live" /\ ctx' = DisposeCtx(C, D, c, "stopped")
    <3>1. /\ \A x \in Contexts : x # c => DisposeCtx(C, D, c, "stopped")[x] = C[x]
          /\ DisposeCtx(C, D, c, "stopped")[c].gen = C[c].gen
          /\ DisposeCtx(C, D, c, "stopped")[c].phase
               = IF LastOwner(D, C[c].home, c) THEN "releasing" ELSE "released"
      <4>1. C[c].phase = "live" BY <2>3
      <4> QED BY ONLY <1>2, <4>1, Disposal, C \in [Contexts -> CtxRecord],
                      D \in [Contexts -> DevRecord], c \in Contexts
    <3> QED BY <2>3, <3>1, Z3
  <2> QED BY <2>1, <2>2, <2>3
<1>6. \A x \in Ops : x # o => op[x].pc \notin Busy BY OthersWait
<1>7. CandidateSucceeds'
  BY <1>1, <1>6 DEF CandidateSucceeds, Busy
<1>8. StopsNameThePast' BY <1>1 DEF PInv, StopsNameThePast
<1>9. CloseIsLast' BY <1>1, <1>5 DEF PInv, CloseIsLast, Aborted
<1>10. DisposalAwaited'
  BY <1>1, <1>5 DEF PInv, DisposalAwaited, Created, Disposed
<1>11. OverIsOver'
  <2>1. CASE \E x \in Ops : Over(x)
    <3>1. pc = "stopping" BY <2>1, NotOver DEF Busy
    <3> QED
      BY <1>1, <1>5, <2>1, <3>1 DEF PInv, OverIsOver, Over, Created, Disposed, Busy
  <2>2. CASE ~\E x \in Ops : Over(x)
    BY <1>1, <2>2 DEF OverIsOver, Over
  <2> QED BY <2>1, <2>2
<1> QED BY <1>3, <1>4, <1>7, <1>8, <1>9, <1>10, <1>11 DEF PInv

LEMMA RunStopKeeps ==
  ASSUME PInv, IInv', NEW o \in Ops, RunStop(o) \/ RunClose(o)
  PROVE  PInv'
<1>. USE PNow
<1>1. Running(o) /\ op[o].pc = "queued" BY DEF RunStop, RunClose, Ready
<1>2. CASE RunStop(o) /\ Reply(o)
  <2>1. op[o].kind = "stop" BY <1>2 DEF RunStop, Ready
  <2> QED BY <1>1, <1>2, <2>1, ReplyKeeps
<1>3. CASE RunClose(o) \/ ~Reply(o)
  <2>1. /\ op' = [op EXCEPT ![o].pc = "stopping"]
        /\ UNCHANGED <<nextCtx, current, closing>>
        /\ \/ ctx' = ctx /\ dev' = dev
           \/ /\ ctx' = DisposeCtx(ctx, dev, current, "stopped")
              /\ dev' = DisposeDev(ctx, dev, current)
    BY <1>3 DEF RunStop, RunClose
  <2> QED BY <1>1, <2>1, PNow, HeadDisposesKeeps
<1> QED BY <1>2, <1>3

LEMMA SettleKeeps ==
  ASSUME PInv, IInv', NEW o \in Ops, Settle(o) \/ FinishAbandoned(o)
  PROVE  PInv'
<1>1. op[o].kind = "close" => op[o].pc \in {"queued", "stopping", "answered"}
  BY DEF PInv, CloseIsLast
<1> QED BY <1>1, ReplyKeeps DEF Settle, FinishAbandoned

LEMMA WithdrawKeeps ==
  ASSUME PInv, IInv', NEW o \in Ops, Withdraw(o)
  PROVE  PInv'
<1>1. /\ Running(o) /\ op[o].pc = "prepared"
      /\ op[o].cand \in Contexts /\ op[o].cand < nextCtx
      /\ op' = [op EXCEPT ![o].pc = "rollback"]
      /\ UNCHANGED <<nextCtx, current, closing>>
      /\ ctx' = DisposeCtx(ctx, dev, op[o].cand, "stopped")
      /\ dev' = DisposeDev(ctx, dev, op[o].cand)
  BY PNow DEF Withdraw, Prepared, IInv, CandidateIsNew
<1> QED BY <1>1, PNow, HeadDisposesKeeps

LEMMA ActivationFailsKeeps ==
  ASSUME PInv, IInv', NEW o \in Ops, NEW pumping \in BOOLEAN, ActivationFails(o, pumping)
  PROVE  PInv'
<1>. USE PNow
<1>. DEFINE cand == op[o].cand
            pump == IF pumping THEN "running" ELSE "none"
            C == [ctx EXCEPT ![cand].pump = pump]
            D == Activate(dev, ctx[cand].home, cand)
<1>1. /\ Running(o) /\ op[o].pc = "prepared"
      /\ cand \in Contexts /\ cand < nextCtx /\ current < cand
      /\ ctx[cand].phase = "live"
  BY DEF ActivationFails, Prepared, IInv, CandidateIsNew, Aborted
<1>2. /\ ctx' = DisposeCtx(C, D, cand, "stopped") /\ dev' = DisposeDev(C, D, cand)
      /\ op' = [op EXCEPT ![o].pc = "rollback"]
      /\ UNCHANGED <<nextCtx, current, closing>>
  BY DEF ActivationFails
<1>3. pump \in {"none", "running", "done"} OBVIOUS
<1>4. cand = op[o].cand OBVIOUS
<1>. HIDE DEF cand, pump
<1>5. C \in [Contexts -> CtxRecord] BY <1>1, <1>3 DEF CtxRecord
<1>6. \A x \in Contexts : /\ C[x].home = ctx[x].home /\ C[x].phase = ctx[x].phase
                          /\ C[x].gen = ctx[x].gen /\ C[x].status = ctx[x].status
                          /\ C[x].terminal = ctx[x].terminal
  BY <1>1 DEF CtxRecord
<1>. HIDE DEF C
<1>7. Sound(ctx, dev, nextCtx, {current}) BY SoundNow
<1>8. Sound(C, D, nextCtx, {current, cand})
  BY <1>1, <1>5, <1>6, <1>7, ActivateIsSound, ZenonT(30)
<1>9. D \in [Contexts -> DevRecord] BY <1>8 DEF Sound
<1>10. \A s \in Contexts : D[s].owners = dev[s].owners /\ D[s].state = dev[s].state
  BY <1>1 DEF Activate, DevRecord, CtxRecord
<1>. HIDE DEF D
<1> QED BY <1>1, <1>2, <1>4, <1>5, <1>6, <1>9, <1>10, HeadDisposesKeeps, ZenonT(30)

LEMMA ReleasedOwners ==
  ASSUME NEW D \in [Contexts -> DevRecord], NEW h \in Contexts, NEW owner
  PROVE  /\ \A s \in Contexts : s # h => Release(D, h, owner)[s] = D[s]
         /\ Release(D, h, owner)[h].owners = D[h].owners \ {owner}
         /\ Release(D, h, owner)[h].state
              = IF LastOwner(D, h, owner) THEN "closing" ELSE D[h].state
BY DEF Release, LastOwner, ClosingDev

\* Nothing is prepared for the candidate of a request whose stream did not open.
LEMMA OpenFailsKeeps ==
  ASSUME PInv, IInv', NEW o \in Ops, OpenFails(o)
  PROVE  PInv'
<1>. USE PNow
<1>. DEFINE h == op[o].state
            last == h # None /\ LastOwner(dev, h, o)
<1>1. /\ Running(o) /\ op[o].pc = "preparing"
      /\ UNCHANGED <<ctx, nextCtx, current, closing>>
      /\ dev' = IF h = None THEN dev ELSE Release(dev, h, o)
      /\ h \in Contexts \cup {None}
  BY DEF OpenFails, OpRecord
<1>2. /\ \A x \in Ops : x # o => op'[x] = op[x]
      /\ op'[o].kind = op[o].kind
      /\ \/ last /\ op'[o].pc = "abandoning" /\ op'[o].state = h
         \/ ~last /\ op'[o].pc = "answered"
  <2>1. CASE last
    <3>1. op' = [op EXCEPT ![o].pc = "abandoning"] BY <2>1 DEF OpenFails
    <3> QED BY <2>1, <3>1 DEF OpRecord
  <2>2. CASE ~last BY <2>2 DEF OpenFails, Finish, FreshOp
  <2> QED BY <2>1, <2>2
<1>3. /\ \A s \in Contexts : s # h => dev'[s] = dev[s]
      /\ h # None => /\ dev'[h].owners = dev[h].owners \ {o}
                     /\ dev'[h].state = IF last THEN "closing" ELSE dev[h].state
  BY <1>1, ReleasedOwners
<1>4. last = (h # None /\ LastOwner(dev, h, o)) OBVIOUS
<1>5. h = op[o].state OBVIOUS
<1>6. None \notin Contexts BY SessionAssumption, ContextsAreNat
<1>. HIDE DEF h, last
<1>7. ASSUME NEW s \in Contexts, NEW x \in dev'[s].owners
      PROVE  \/ x \in Contexts /\ x < nextCtx /\ ctx[x].phase = "live" /\ ctx[x].home = s
             \/ x \in Ops /\ op'[x].pc = "preparing" /\ op'[x].state = s
  <2>1. x \in dev[s].owners BY <1>3, <1>6, <1>7
  <2>2. \/ x \in Contexts /\ x < nextCtx /\ ctx[x].phase = "live" /\ ctx[x].home = s
        \/ x \in Ops /\ op[x].pc = "preparing" /\ op[x].state = s
    BY <2>1 DEF Held
  <2>3. CASE x = o /\ op[x].state = s
    BY <1>3, <1>5, <1>6, <1>7, <2>3
  <2>4. o \notin Contexts BY SessionAssumption, ContextsAreNat
  <2> QED BY <1>2, <2>2, <2>3, <2>4
<1>8. ASSUME NEW s \in Contexts, dev'[s].state = "open" PROVE dev'[s].owners # {}
  <2>1. CASE s # h BY <1>3, <1>8, <2>1 DEF Held
  <2>2. CASE s = h
    <3>1. ~LastOwner(dev, h, o) /\ dev[h].state = "open"
      BY <1>3, <1>4, <1>6, <1>8, <2>2
    <3>2. dev[h].owners # {} /\ dev[h].owners # {o} BY <2>2, <3>1 DEF Held, LastOwner
    <3> QED BY <1>3, <1>6, <2>2, <3>2
  <2> QED BY <2>1, <2>2
<1>9. ASSUME NEW s \in Contexts, dev'[s].state = "closing"
      PROVE  \/ \E x \in Ops : op'[x].pc = "abandoning" /\ op'[x].state = s
             \/ \E c \in Contexts : c < nextCtx /\ ctx[c].phase = "releasing" /\ ctx[c].home = s
  <2>1. CASE s = h /\ last BY <1>2, <2>1
  <2>2. CASE ~(s = h /\ last)
    <3>1. dev[s].state = "closing" BY <1>3, <1>6, <1>9, <2>2
    <3> QED BY <1>1, <1>2, <3>1 DEF Held
  <2> QED BY <2>1, <2>2
<1>10. Held(ctx', dev', nextCtx', op')
  BY <1>1, <1>7, <1>8, <1>9 DEF Held
<1>11. VerdictGiven(ctx') BY <1>1
<1>12. CandidateSucceeds' BY <1>1, <1>2 DEF PInv, CandidateSucceeds
<1>13. StopsNameThePast' BY <1>1, <1>2 DEF PInv, StopsNameThePast
<1>14. op[o].kind # "close" BY <1>1 DEF PInv, CloseIsLast
<1>15. CloseIsLast' BY <1>1, <1>2, <1>14 DEF PInv, CloseIsLast, Aborted
<1>16. DisposalAwaited'
  BY <1>1, <1>2 DEF PInv, DisposalAwaited, Created, Disposed
<1>17. OverIsOver'
  <2>1. \A x \in Ops : ~Over(x) BY <1>1, NotOver DEF Busy
  <2> QED BY <1>2, <1>14, <2>1 DEF OverIsOver, Over
<1> QED BY <1>10, <1>11, <1>12, <1>13, <1>15, <1>16, <1>17 DEF PInv

LEMMA OpenSucceedsKeeps ==
  ASSUME PInv, IInv', NEW o \in Ops, OpenSucceeds(o)
  PROVE  PInv'
<1>. USE PNow
<1>. DEFINE n == nextCtx
            state == op[o].state
            home == IF state = None THEN n ELSE state
            r == NewContext(op[o].serial, ctx[op[o].ctx].gen + 1, home)
            owned == Acquire(dev, home, n)
<1>1. /\ Running(o) /\ op[o].pc = "preparing" /\ op[o].ctx = current
      /\ n \in Contexts /\ n \in Nat
  BY DEF OpenSucceeds, IInv, ReplacesCurrent, PInv
<1>2. state \in Contexts \cup {None} BY DEF OpRecord
<1>3. home \in Contexts BY <1>1, <1>2
<1>4. /\ r.phase = "live" /\ r.home = home /\ r.status = "streaming"
      /\ r.terminal = FALSE /\ r.gen = ctx[current].gen + 1
  BY <1>1 DEF NewContext
<1>5. /\ ctx' = [ctx EXCEPT ![n] = r]
      /\ dev' = IF state = None THEN owned ELSE Release(owned, home, o)
      /\ nextCtx' = n + 1
      /\ op' = [op EXCEPT ![o].cand = n, ![o].pc = "prepared"]
      /\ UNCHANGED <<current, tail, closing, cancelled>>
  BY DEF OpenSucceeds
<1>6. /\ owned \in [Contexts -> DevRecord]
      /\ owned[home].owners = dev[home].owners \cup {n} /\ owned[home].state = "open"
      /\ \A s \in Contexts : s # home => owned[s] = dev[s]
  <2>1. dev[home] \in DevRecord BY <1>3
  <2>2. owned \in [Contexts -> DevRecord] BY <1>1, <1>3, <2>1, Z3 DEF Acquire, DevRecord
  <2> QED BY <1>3, <2>1, <2>2 DEF Acquire, DevRecord
<1>7. /\ \A x \in Ops : x # o => op'[x] = op[x]
      /\ op'[o].pc = "prepared" /\ op'[o].cand = n /\ op'[o].kind = op[o].kind
  BY <1>5 DEF OpRecord
<1>8. n # o /\ o \notin Contexts BY <1>1, SessionAssumption, ContextsAreNat
<1>9. state = None => home = n /\ dev[n].owners = {}
  <2>1. Sound(ctx, dev, n, {current}) BY SoundNow
  <2>2. dev[n] = UnusedDev BY <1>1, <2>1 DEF Sound
  <2> QED BY <2>2 DEF UnusedDev
<1>10. state # None => home = state OBVIOUS
<1>. HIDE DEF r, owned, home, state
<1>11. /\ \A s \in Contexts : s # home => dev'[s] = dev[s]
       /\ dev'[home].owners = (dev[home].owners \cup {n}) \ {o}
       /\ dev'[home].state = "open"
  <2>1. CASE state = None BY <1>5, <1>6, <1>8, <1>9, <2>1
  <2>2. CASE state # None
    <3>1. ~LastOwner(owned, home, o) BY <1>6, <1>8 DEF LastOwner
    <3>2. dev' = Release(owned, home, o) BY <1>5, <2>2
    <3>3. /\ \A s \in Contexts : s # home => Release(owned, home, o)[s] = owned[s]
          /\ Release(owned, home, o)[home].owners = owned[home].owners \ {o}
          /\ Release(owned, home, o)[home].state
               = IF LastOwner(owned, home, o) THEN "closing" ELSE owned[home].state
      BY ONLY <1>3, <1>6, ReleasedOwners
    <3> QED BY <1>6, <3>1, <3>2, <3>3
  <2> QED BY <2>1, <2>2
<1>12. ctx'[n] = r /\ \A x \in Contexts : x # n => ctx'[x] = ctx[x]
  BY <1>1, <1>5
<1>13. /\ \A c \in Contexts : c < n => c < n + 1 /\ c # n
       /\ \A c \in Contexts : c < n + 1 => c = n \/ c < n
  BY <1>1, ContextsAreNat
<1>14. ASSUME NEW s \in Contexts, NEW x \in dev'[s].owners
       PROVE  \/ x \in Contexts /\ x < n + 1 /\ ctx'[x].phase = "live" /\ ctx'[x].home = s
              \/ x \in Ops /\ op'[x].pc = "preparing" /\ op'[x].state = s
  <2>1. CASE x = n /\ s = home BY <1>1, <1>4, <1>12, <2>1
  <2>2. CASE x \in dev[s].owners
    <3>1. \/ x \in Contexts /\ x < n /\ ctx[x].phase = "live" /\ ctx[x].home = s
          \/ x \in Ops /\ op[x].pc = "preparing" /\ op[x].state = s
      BY <2>2 DEF Held
    <3>2. x = o => s # home BY <1>3, <1>11, <1>14
    <3>3. ~(x = o /\ op[x].state = s)
      BY <1>2, <1>10, <3>2, SessionAssumption, ContextsAreNat DEF state
    <3> QED BY <1>7, <1>12, <1>13, <3>1, <3>3
  <2> QED BY <1>11, <1>14, <2>1, <2>2
<1>15. ASSUME NEW s \in Contexts, dev'[s].state = "open" PROVE dev'[s].owners # {}
  <2>1. CASE s = home BY <1>8, <1>11, <2>1
  <2>2. CASE s # home BY <1>11, <1>15, <2>2 DEF Held
  <2> QED BY <2>1, <2>2
<1>16. ASSUME NEW s \in Contexts, dev'[s].state = "closing"
       PROVE  \/ \E x \in Ops : op'[x].pc = "abandoning" /\ op'[x].state = s
              \/ \E c \in Contexts : c < n + 1 /\ ctx'[c].phase = "releasing" /\ ctx'[c].home = s
  <2>1. dev[s].state = "closing" BY <1>11, <1>16
  <2> QED BY <1>1, <1>7, <1>12, <1>13, <2>1 DEF Held
<1>17. Held(ctx', dev', nextCtx', op')
  BY <1>5, <1>14, <1>15, <1>16 DEF Held
<1>18. VerdictGiven(ctx') BY <1>4, <1>12 DEF VerdictGiven
<1>19. \A x \in Ops : x # o => op[x].pc \notin Busy BY <1>1, OthersWait
<1>20. CandidateSucceeds'
  <2>1. current # n BY <1>1
  <2> QED BY <1>4, <1>5, <1>7, <1>12, <1>19, <2>1 DEF CandidateSucceeds, Busy
<1>21. StopsNameThePast' BY <1>5, <1>7 DEF PInv, StopsNameThePast
<1>22. op[o].kind # "close" BY <1>1 DEF PInv, CloseIsLast
<1>23. CloseIsLast'
  <2>1. ctx'[current] = ctx[current] BY <1>1, <1>12
  <2> QED BY <1>5, <1>7, <1>22, <2>1 DEF PInv, CloseIsLast, Aborted
<1>24. DisposalAwaited'
  <2>1. \A c \in Contexts : c < n /\ ctx[c].phase # "disposed" => c = current
    BY <1>1, <1>19 DEF PInv, DisposalAwaited, Created, Disposed, Busy
  <2> QED BY <1>5, <1>7, <1>12, <1>13, <2>1 DEF DisposalAwaited, Created, Disposed
<1>25. OverIsOver'
  <2>1. \A x \in Ops : ~Over(x) BY <1>1, NotOver DEF Busy
  <2> QED BY <1>7, <1>22, <2>1 DEF OverIsOver, Over
<1> QED BY <1>17, <1>18, <1>20, <1>21, <1>23, <1>24, <1>25 DEF PInv

LEMMA PublishKeeps ==
  ASSUME PInv, IInv', NEW o \in Ops, Publish(o)
  PROVE  /\ PInv'
         /\ ctx'[current'].gen = ctx[current].gen + 1
         /\ \/ /\ ctx'[current'].phase = "live"
               /\ ctx'[current'].status = "streaming" /\ ctx'[current'].terminal = FALSE
            \/ /\ ctx'[current'].phase # "live"
               /\ ctx'[current'].status = "error" /\ ctx'[current'].terminal = TRUE
         /\ \A c \in Contexts : ctx[c].phase # "live" => ctx'[c].status = ctx[c].status
         /\ ~closing /\ UNCHANGED closing
         /\ StopsAsked' = {}
<1>. USE PNow
<1>. DEFINE cand == op[o].cand
            C == [ctx EXCEPT ![cand].pump = "running", ![cand].listening = TRUE]
            D == Activate(dev, ctx[cand].home, cand)
            C1 == IF ctx[cand].fatal THEN MarkCtx(C, D, cand, "error") ELSE C
            D1 == IF ctx[cand].fatal THEN MarkDev(C, D, cand, "error") ELSE D
<1>1. /\ Running(o) /\ op[o].pc = "prepared" /\ op[o].ctx = current /\ ~closing
      /\ cand \in Contexts /\ cand < nextCtx /\ current < cand
      /\ ctx[cand].phase = "live"
  BY DEF Publish, Prepared, IInv, CandidateIsNew, ReplacesCurrent, Aborted
<1>0. ctx[cand].gen = ctx[current].gen + 1
  BY <1>1 DEF PInv, CandidateSucceeds
<1>2. "stopped" \in Statuses /\ "error" \in {"stopped", "error"} BY DEF Statuses
<1>3. /\ ctx' = DisposeCtx(C1, D1, current, "stopped")
      /\ dev' = DisposeDev(C1, D1, current)
      /\ current' = cand
      /\ op' = [op EXCEPT ![o].pc = "retiring"]
      /\ UNCHANGED <<nextCtx, tail, closing, cancelled>>
  BY <1>1 DEF Publish
<1>4. cand = op[o].cand OBVIOUS
<1>. HIDE DEF cand
<1>5. C \in [Contexts -> CtxRecord] BY <1>1, ZenonT(60) DEF CtxRecord
<1>6. \A x \in Contexts : /\ C[x].home = ctx[x].home /\ C[x].phase = ctx[x].phase
                          /\ C[x].gen = ctx[x].gen /\ C[x].status = ctx[x].status
                          /\ C[x].terminal = ctx[x].terminal
  BY <1>1 DEF CtxRecord
<1>. HIDE DEF C
<1>7. Sound(ctx, dev, nextCtx, {current}) BY SoundNow
<1>8. Sound(C, D, nextCtx, {current, cand})
  <2>1. \A x \in Contexts : C[x].home = ctx[x].home /\ C[x].phase = ctx[x].phase
    BY <1>6
  <2>2. current \in Contexts /\ nextCtx \in Nat OBVIOUS
  <2>3. Sound(C, Activate(dev, ctx[cand].home, cand), nextCtx, {current, cand})
    BY ONLY <1>1, <1>5, <1>7, <2>1, <2>2, ActivateIsSound
  <2> QED BY <2>3
<1>9. D \in [Contexts -> DevRecord] BY <1>8 DEF Sound
<1>10. \A s \in Contexts : D[s].owners = dev[s].owners /\ D[s].state = dev[s].state
  BY <1>1 DEF Activate, DevRecord, CtxRecord
<1>11. Held(C, D, nextCtx, op) BY <1>6, <1>10, HeldUnlessRevoked
<1>12. VerdictGiven(C) BY <1>6 DEF VerdictGiven
<1>13. Pair({current, cand}, nextCtx) BY <1>1, ContextsAreNat DEF Pair
<1>. HIDE DEF D
<1>14. /\ Held(C1, D1, nextCtx, op) /\ VerdictGiven(C1)
       /\ C1 \in [Contexts -> CtxRecord] /\ D1 \in [Contexts -> DevRecord]
       /\ \A x \in Contexts : x # cand => C1[x] = C[x]
       /\ C1[cand].gen = C[cand].gen
       /\ \/ C1[cand].phase = "live"
          \/ C1[cand].phase # "live" /\ C1[cand].status = "error" /\ C1[cand].terminal
  <2>1. CASE ctx[cand].fatal
    <3>1. /\ C1 = MarkCtx(C, D, cand, "error") /\ D1 = MarkDev(C, D, cand, "error")
          /\ C[cand].phase = "live" /\ nextCtx \in Nat
          /\ "error" \in Statuses /\ cand \in Contexts /\ cand < nextCtx
      BY <1>1, <1>6, <2>1 DEF Statuses
    <3>. HIDE DEF C1, D1
    <3>2. Held(MarkCtx(C, D, cand, "error"), MarkDev(C, D, cand, "error"), nextCtx, op)
      BY ONLY <1>2, <1>5, <1>9, <1>11, <3>1, MarkingHolds
    <3>3. /\ VerdictGiven(MarkCtx(C, D, cand, "error"))
          /\ \A x \in Contexts : x # cand => MarkCtx(C, D, cand, "error")[x] = C[x]
          /\ MarkCtx(C, D, cand, "error")[cand].gen = C[cand].gen
          /\ C[cand].phase = "live" =>
               /\ MarkCtx(C, D, cand, "error")[cand].phase \in {"releasing", "released"}
               /\ MarkCtx(C, D, cand, "error")[cand].terminal
               /\ MarkCtx(C, D, cand, "error")[cand].status = "error"
      BY ONLY <1>2, <1>5, <1>9, <1>12, <3>1, Marking
    <3>4. Sound(MarkCtx(C, D, cand, "error"), MarkDev(C, D, cand, "error"),
                nextCtx, {current, cand})
      BY ONLY <1>8, <1>13, <3>1, MarkIsSound
    <3>5. C1 \in [Contexts -> CtxRecord] /\ D1 \in [Contexts -> DevRecord]
      BY <3>1, <3>4 DEF Sound
    <3> QED BY <3>1, <3>2, <3>3, <3>5
  <2>2. CASE ~ctx[cand].fatal
    BY <1>1, <1>5, <1>6, <1>9, <1>11, <1>12, <2>2
  <2> QED BY <2>1, <2>2
<1>. HIDE DEF C1, D1
<1>15. Held(ctx', dev', nextCtx, op)
  <2>1. current \in Contexts /\ current < nextCtx /\ nextCtx \in Nat OBVIOUS
  <2>2. Held(DisposeCtx(C1, D1, current, "stopped"), DisposeDev(C1, D1, current), nextCtx, op)
    BY ONLY <1>2, <1>14, <2>1, DisposalHolds
  <2> QED BY <1>3, <2>2
<1>16. VerdictGiven(ctx')
  <2>1. current \in Contexts OBVIOUS
  <2>2. VerdictGiven(DisposeCtx(C1, D1, current, "stopped"))
    BY ONLY <1>2, <1>14, <2>1, DisposalGivesVerdict
  <2> QED BY <1>3, <2>2
<1>17. /\ \A x \in Contexts : x # current => ctx'[x] = C1[x]
       /\ ctx[current].phase # "live" => ctx'[current] = C1[current]
  <2>1. CASE C1[current].phase # "live" BY <1>3, <2>1, DisposalOfRevoked
  <2>2. CASE C1[current].phase = "live"
    <3>1. current \in Contexts OBVIOUS
    <3>2. \A x \in Contexts : x # current => DisposeCtx(C1, D1, current, "stopped")[x] = C1[x]
      BY ONLY <1>2, <1>14, <2>2, <3>1, Disposal
    <3>3. ctx[current].phase = "live" BY <1>1, <1>6, <1>14, <2>2
    <3> QED BY <1>3, <3>2, <3>3
  <2> QED BY <2>1, <2>2
<1>18. /\ current # cand /\ ctx'[cand] = C1[cand]
       /\ \A x \in Contexts : x # current /\ x # cand => ctx'[x].phase = ctx[x].phase
  BY <1>1, <1>6, <1>14, <1>17
<1>19. \A c \in Contexts : ctx[c].phase # "live" => ctx'[c].status = ctx[c].status
  BY <1>1, <1>6, <1>14, <1>17
<1>20. /\ \A x \in Ops : x # o => op'[x] = op[x]
       /\ op'[o].pc = "retiring" /\ op'[o].kind = op[o].kind /\ op'[o].ctx = current
       /\ op[o].kind # "close"
  BY <1>1, <1>3 DEF OpRecord, PInv, CloseIsLast
<1>21. \A x \in Ops : x # o => op[x].pc \notin Busy BY <1>1, OthersWait
<1>22. Held(ctx', dev', nextCtx', op')
  BY <1>1, <1>3, <1>15, <1>20 DEF Held
<1>23. CandidateSucceeds' BY <1>20, <1>21 DEF CandidateSucceeds, Busy
<1>24. \A x \in Ops : op[x].kind = "stop" /\ op[x].pc = "queued" =>
         op[x].ctx \in Contexts /\ op[x].ctx < cand
  BY <1>1, ContextsAreNat DEF PInv, StopsNameThePast
<1>25. StopsNameThePast' BY <1>1, <1>3, <1>20, <1>24, ContextsAreNat DEF StopsNameThePast
<1>26. StopsAsked' = {} BY <1>1, <1>3, <1>20, <1>24, ContextsAreNat DEF StopsAsked
<1>27. CloseIsLast' BY <1>1, <1>3, <1>20 DEF PInv, CloseIsLast
<1>28. DisposalAwaited'
  <2>1. \A c \in Contexts : c < nextCtx /\ ctx[c].phase # "disposed" => c = current \/ c = cand
    BY <1>1, <1>4, <1>21 DEF PInv, DisposalAwaited, Created, Disposed, Busy
  <2> QED BY <1>3, <1>18, <1>20, <2>1 DEF DisposalAwaited, Created, Disposed
<1>29. OverIsOver'
  <2>1. \A x \in Ops : ~Over(x) BY <1>1, NotOver
  <2> QED BY <1>20, <2>1 DEF OverIsOver, Over
<1>30. PInv'
  BY <1>16, <1>22, <1>23, <1>25, <1>27, <1>28, <1>29 DEF PInv
<1>31. ctx'[cand].gen = ctx[current].gen + 1 BY <1>0, <1>1, <1>6, <1>14, <1>18
<1>32. \/ /\ ctx'[cand].phase = "live"
          /\ ctx'[cand].status = "streaming" /\ ctx'[cand].terminal = FALSE
       \/ ctx'[cand].phase # "live" /\ ctx'[cand].status = "error" /\ ctx'[cand].terminal = TRUE
  <2>1. ctx' \in [Contexts -> CtxRecord] BY DEF IInv, TypeOK
  <2>2. ctx'[cand].terminal \in BOOLEAN BY <1>1, <2>1 DEF CtxRecord
  <2>3. ctx'[cand].phase = "live" => ctx'[cand].status = "streaming" /\ ~ctx'[cand].terminal
    BY <1>1, <1>16 DEF VerdictGiven
  <2> QED BY <1>14, <1>18, <2>2, <2>3
<1> QED BY <1>1, <1>3, <1>19, <1>26, <1>30, <1>31, <1>32

-----------------------------------------------------------------------------
(* What a context does on its own.                                         *)

LEMMA ContextKeeps ==
  ASSUME PInv, IInv', UNCHANGED <<nextCtx, current, op, closing>>,
         Held(ctx', dev', nextCtx, op), VerdictGiven(ctx'),
         \A c \in Contexts : /\ ctx'[c].gen = ctx[c].gen
                             /\ Disposed(c) => ctx'[c].phase = "disposed"
                             /\ Aborted(c) => ctx'[c].phase # "live"
  PROVE  PInv'
<1>. USE PNow
<1>1. CandidateSucceeds'
  BY DEF PInv, CandidateSucceeds, IInv, CandidateIsNew
<1>2. StopsNameThePast' BY DEF PInv, StopsNameThePast
<1>3. CloseIsLast' BY DEF PInv, CloseIsLast, Aborted
<1>4. DisposalAwaited' BY DEF PInv, DisposalAwaited, Created, Disposed
<1>5. OverIsOver' BY DEF PInv, OverIsOver, Over, Created, Disposed
<1> QED BY <1>1, <1>2, <1>3, <1>4, <1>5 DEF PInv

LEMMA UnwindKeeps ==
  ASSUME PInv, IInv', NEW c \in Contexts, Unwind(c)
  PROVE  /\ PInv'
         /\ \A x \in Contexts : /\ ctx'[x].gen = ctx[x].gen
                                /\ ctx'[x].status = ctx[x].status
                                /\ ctx'[x].terminal = ctx[x].terminal
                                /\ ctx'[x].phase = "live" <=> ctx[x].phase = "live"
<1>. USE PNow
<1>1. /\ \A x \in Contexts : x # c => ctx'[x] = ctx[x]
      /\ ctx'[c].home = ctx[c].home /\ ctx'[c].gen = ctx[c].gen
      /\ ctx'[c].status = ctx[c].status /\ ctx'[c].terminal = ctx[c].terminal
      /\ \/ ctx'[c].phase = ctx[c].phase
         \/ ctx'[c].phase = "closing" /\ ctx[c].phase = "released"
         \/ /\ ctx'[c].phase = "closing" /\ ctx[c].phase = "releasing"
            /\ dev[ctx[c].home].state = "closed"
         \/ ctx'[c].phase = "disposed" /\ ctx[c].phase = "closing"
  BY DEF Unwind, RunCleanups, CloseStream, PumpExits, FinishDispose, CtxRecord
<1>2. UNCHANGED <<dev, nextCtx, current, op, closing>>
  BY DEF Unwind, RunCleanups, CloseStream, PumpExits, FinishDispose
<1>3. VerdictGiven(ctx') BY <1>1 DEF VerdictGiven
<1>4. Held(ctx', dev', nextCtx, op)
  <2>1. \A x \in Contexts : /\ ctx'[x].home = ctx[x].home
                            /\ ctx[x].phase = "live" => ctx'[x].phase = "live"
    BY <1>1
  <2>2. \A x, s \in Contexts : ctx[x].phase = "releasing" /\ ctx[x].home = s
                               /\ dev[s].state = "closing" => ctx'[x].phase = "releasing"
    BY <1>1
  <2> QED BY <1>2, <2>1, <2>2, Z3 DEF Held
<1>5. \A x \in Contexts : /\ ctx'[x].gen = ctx[x].gen
                          /\ ctx'[x].status = ctx[x].status
                          /\ ctx'[x].terminal = ctx[x].terminal
                          /\ ctx'[x].phase = "live" <=> ctx[x].phase = "live"
                          /\ Disposed(x) => ctx'[x].phase = "disposed"
  BY <1>1 DEF Disposed
<1> QED BY <1>2, <1>3, <1>4, <1>5, ContextKeeps DEF Aborted

LEMMA CloseStateKeeps ==
  ASSUME PInv, IInv', NEW s \in Contexts, CloseState(s)
  PROVE  PInv'
<1>. USE PNow
<1>1. /\ \A x \in Contexts : x # s => dev'[x] = dev[x]
      /\ dev'[s].owners = dev[s].owners /\ dev'[s].state = "closed"
      /\ UNCHANGED <<ctx, nextCtx, current, op, closing>>
  BY DEF CloseState, DevRecord
<1>2. Held(ctx', dev', nextCtx, op) BY <1>1 DEF Held
<1> QED BY <1>1, <1>2, ContextKeeps DEF Disposed, Aborted

\* The published context reports its end, after a change to it that none of the
\* properties sees.
LEMMA MarkKeeps ==
  ASSUME PInv, IInv', NEW C \in [Contexts -> CtxRecord], NEW status \in {"stopped", "error"},
         UNCHANGED <<nextCtx, current, op, closing>>,
         \A x \in Contexts : /\ C[x].home = ctx[x].home /\ C[x].phase = ctx[x].phase
                             /\ C[x].gen = ctx[x].gen /\ C[x].status = ctx[x].status
                             /\ C[x].terminal = ctx[x].terminal,
         ctx' = MarkCtx(C, dev, current, status),
         dev' = MarkDev(C, dev, current, status)
  PROVE  /\ PInv'
         /\ ctx'[current].gen = ctx[current].gen
         /\ \A c \in Contexts : c # current => ctx'[c].status = ctx[c].status
         /\ ctx[current].phase = "live" =>
              /\ ctx'[current].phase # "live"
              /\ ctx'[current].terminal
              /\ ctx'[current].status = status
         /\ ctx[current].phase # "live" =>
              /\ ctx'[current].phase # "live"
              /\ \/ /\ ctx'[current].status = ctx[current].status
                    /\ ctx'[current].terminal = ctx[current].terminal
                 \/ /\ ctx[current].status = "stopped"
                    /\ ctx'[current].status = "error"
                    /\ ctx'[current].terminal
<1>. USE PNow
<1>1. Held(C, dev, nextCtx, op) BY HeldUnlessRevoked
<1>2. VerdictGiven(C) BY DEF VerdictGiven
<1>3. current \in Contexts /\ dev \in [Contexts -> DevRecord] /\ current < nextCtx
      /\ nextCtx \in Nat /\ status \in {"stopped", "error"}
      /\ C \in [Contexts -> CtxRecord]
  OBVIOUS
<1>4. Held(ctx', dev', nextCtx, op)
  <2>1. Held(MarkCtx(C, dev, current, status), MarkDev(C, dev, current, status), nextCtx, op)
    BY ONLY <1>1, <1>3, MarkingHolds
  <2> QED BY <2>1
<1>5. /\ VerdictGiven(MarkCtx(C, dev, current, status))
      /\ \A x \in Contexts : x # current => MarkCtx(C, dev, current, status)[x] = C[x]
      /\ MarkCtx(C, dev, current, status)[current].gen = C[current].gen
      /\ C[current].phase = "live" =>
           /\ MarkCtx(C, dev, current, status)[current].phase \in {"releasing", "released"}
           /\ MarkCtx(C, dev, current, status)[current].terminal
           /\ MarkCtx(C, dev, current, status)[current].status = status
      /\ C[current].phase # "live" =>
           \/ MarkCtx(C, dev, current, status) = C
           \/ /\ MarkCtx(C, dev, current, status)[current].phase = C[current].phase
              /\ MarkCtx(C, dev, current, status)[current].terminal
              /\ MarkCtx(C, dev, current, status)[current].status = "error"
              /\ C[current].status = "stopped"
  BY ONLY <1>2, <1>3, Marking
<1>6. VerdictGiven(ctx') BY <1>5
<1>7. \A c \in Contexts : /\ ctx'[c].gen = ctx[c].gen
                          /\ ctx[c].phase = "disposed" => ctx'[c].phase = "disposed"
                          /\ ctx[c].phase # "live" => ctx'[c].phase # "live"
                          /\ c # current => ctx'[c].status = ctx[c].status
  BY <1>5
<1>8. PInv' BY <1>4, <1>6, <1>7, ContextKeeps DEF Disposed, Aborted
<1>9. ctx[current].phase = "live" =>
        /\ ctx'[current].phase # "live"
        /\ ctx'[current].terminal
        /\ ctx'[current].status = status
  BY <1>5
<1>10. ctx[current].phase # "live" =>
         \/ /\ ctx'[current].status = ctx[current].status
            /\ ctx'[current].terminal = ctx[current].terminal
         \/ /\ ctx[current].status = "stopped"
            /\ ctx'[current].status = "error"
            /\ ctx'[current].terminal
  BY <1>5
<1> QED BY <1>7, <1>8, <1>9, <1>10

-----------------------------------------------------------------------------
(* What each step shows of the published session.                          *)

VerdictStep ==
  \A c \in Contexts :
    Created(c) /\ Aborted(c) /\ (ctx[c].status = "error" \/ ~ctx[c].terminal) =>
      ctx'[c].status = ctx[c].status

Shown == [Published!Next]_(Published!sessionVars) /\ VerdictStep

\* A step that leaves the verdict of what was revoked and the published session
\* alone, and concerns no stop of it, shows nothing.
LEMMA NothingShown ==
  ASSUME UNCHANGED <<current, closing>>, StopsAsked' = StopsAsked,
         ctx'[current].gen = ctx[current].gen,
         ctx'[current].status = ctx[current].status,
         ctx'[current].terminal = ctx[current].terminal,
         ctx'[current].phase = "live" <=> ctx[current].phase = "live",
         \A c \in Contexts : Created(c) /\ Aborted(c) => ctx'[c].status = ctx[c].status
  PROVE  Shown
<1>1. (~Aborted(current))' = ~Aborted(current) BY DEF Aborted
<1>2. /\ (ctx[current].gen)' = ctx[current].gen
      /\ (ctx[current].status)' = ctx[current].status
      /\ (ctx[current].terminal)' = ctx[current].terminal
  OBVIOUS
<1>3. UNCHANGED Published!sessionVars
  BY <1>1, <1>2 DEF Published!sessionVars
<1> QED BY <1>3 DEF Shown, VerdictStep

\* Request o is no stop of the published session, neither before nor after.
LEMMA SameStops ==
  ASSUME NEW o \in Ops, \A x \in Ops : x # o => op'[x] = op[x], current' = current,
         op[o].pc # "queued" \/ op[o].kind # "stop" \/ op[o].ctx # current,
         op'[o].pc # "queued" \/ op'[o].kind # "stop" \/ op'[o].ctx # current
  PROVE  StopsAsked' = StopsAsked
BY DEF StopsAsked

LEMMA ReplyShows ==
  ASSUME PInv, NEW o \in Ops, Reply(o),
         op[o].pc # "queued" \/ op[o].kind # "stop" \/ op[o].ctx # current
  PROVE  Shown
<1>1. /\ \A x \in Ops : x # o => op'[x] = op[x]
      /\ op'[o].pc = "answered"
      /\ UNCHANGED <<ctx, current, closing>>
  BY PNow DEF Reply, Finish, FreshOp
<1>2. StopsAsked' = StopsAsked BY <1>1, SameStops
<1> QED BY <1>1, <1>2, NothingShown

LEMMA RequestsShow ==
  ASSUME PInv, NEW o \in Ops, Request(o) \/ UploadsSettled(o)
  PROVE  Shown
<1>. USE PNow
<1>1. ASSUME UNCHANGED <<ctx, current, closing>>, NEW r, op' = [op EXCEPT ![o] = r],
             op[o].pc # "queued", r.kind # "stop"
      PROVE  Shown
  <2>1. (\A x \in Ops : x # o => op'[x] = op[x]) /\ op'[o] = r BY <1>1
  <2>2. StopsAsked' = StopsAsked BY <1>1, <2>1, SameStops
  <2> QED BY <1>1, <2>2, NothingShown
<1>2. ASSUME NEW serial \in Serials, RequestSwitch(o, serial)
      PROVE  Shown
  <2>1. /\ FreshOp("switch", serial, None, "uploads").kind = "switch"
        /\ FreshOp("switch", serial, None, "queued").kind = "switch"
    BY DEF FreshOp
  <2> QED BY <1>1, <1>2, <2>1 DEF RequestSwitch, Enqueue
<1>3. ASSUME NEW kind \in {"mode", "settings", "stop"}, RequestOnCurrent(o, kind)
      PROVE  Shown
  <2>. DEFINE r == FreshOp(kind, ctx[current].serial, current, "queued")
  <2>1. r.kind = kind /\ r.pc = "queued" /\ r.ctx = current BY DEF FreshOp
  <2>2. /\ op' = [op EXCEPT ![o] = r] /\ op[o].pc = "idle"
        /\ UNCHANGED <<ctx, current, closing>>
    BY <1>3 DEF RequestOnCurrent, Enqueue
  <2>. HIDE DEF r
  <2>3. CASE kind # "stop" BY <1>1, <2>1, <2>2, <2>3
  <2>4. CASE kind = "stop"
    <3>1. StopsAsked' = StopsAsked \cup {o} /\ o \in Ops \ StopsAsked
      BY <2>1, <2>2, <2>4 DEF StopsAsked
    <3>2. (~Aborted(current))' = ~Aborted(current) BY <2>2 DEF Aborted
    <3>3. Published!AskStop BY <2>2, <3>1, <3>2 DEF Published!AskStop
    <3>4. VerdictStep BY <2>2 DEF VerdictStep
    <3> QED BY <3>3, <3>4 DEF Shown, Published!Next
  <2> QED BY <2>3, <2>4
<1>4. CASE Shutdown(o)
  <2>. DEFINE r == FreshOp("close", FirstSerial, current, "queued")
  <2>1. r.kind = "close" BY DEF FreshOp
  <2>2. /\ op' = [op EXCEPT ![o] = r] /\ op[o].pc = "idle" /\ ~closing /\ closing' = TRUE
        /\ ctx' = DisposeCtx(ctx, dev, current, "stopped") /\ current' = current
    BY <1>4 DEF Shutdown, Enqueue
  <2>. HIDE DEF r
  <2>3. (\A x \in Ops : x # o => op'[x] = op[x]) /\ op'[o] = r BY <2>2
  <2>4. StopsAsked' = StopsAsked BY <2>1, <2>2, <2>3, SameStops
  <2>5. "stopped" \in Statuses BY DEF Statuses
  <2>6. /\ ctx'[current].phase # "live"
        /\ ctx'[current].gen = ctx[current].gen
        /\ ctx'[current].terminal = ctx[current].terminal
        /\ ctx'[current].status
             = IF ctx[current].phase = "live" THEN "stopped" ELSE ctx[current].status
        /\ \A c \in Contexts : Aborted(c) => ctx'[c].status = ctx[c].status
    <3>1. CASE ctx[current].phase # "live"
      BY <2>2, <3>1, DisposalOfRevoked
    <3>2. CASE ctx[current].phase = "live"
      <4>1. /\ \A x \in Contexts : x # current =>
                 DisposeCtx(ctx, dev, current, "stopped")[x] = ctx[x]
            /\ DisposeCtx(ctx, dev, current, "stopped")[current].gen = ctx[current].gen
            /\ DisposeCtx(ctx, dev, current, "stopped")[current].status = "stopped"
            /\ DisposeCtx(ctx, dev, current, "stopped")[current].terminal
                 = ctx[current].terminal
            /\ DisposeCtx(ctx, dev, current, "stopped")[current].phase
                 = IF LastOwner(dev, ctx[current].home, current)
                   THEN "releasing" ELSE "released"
        BY <2>5, <3>2, Disposal
      <4> QED BY <2>2, <3>2, <4>1 DEF Aborted
    <3> QED BY <3>1, <3>2
  <2>7. /\ (~Aborted(current))' = FALSE
        /\ (ctx[current].status)'
             = IF ~Aborted(current) THEN "stopped" ELSE ctx[current].status
        /\ (ctx[current].gen)' = ctx[current].gen
        /\ (ctx[current].terminal)' = ctx[current].terminal
    BY <2>2, <2>6 DEF Aborted
  <2>8. Published!Shutdown BY <2>2, <2>4, <2>7 DEF Published!Shutdown
  <2>9. VerdictStep BY <2>6 DEF VerdictStep
  <2> QED BY <2>8, <2>9 DEF Shown, Published!Next
<1>5. CASE UploadsSettled(o)
  <2>1. FreshOp("switch", op[o].serial, None, "queued").kind = "switch" BY DEF FreshOp
  <2> QED BY <1>1, <1>5, <2>1 DEF UploadsSettled, Enqueue
<1> QED BY <1>2, <1>3, <1>4, <1>5 DEF Request

LEMMA RunReplaceShows ==
  ASSUME PInv, NEW o \in Ops, RunSwitch(o) \/ RunMode(o) \/ RunSettings(o)
  PROVE  Shown
<1>. USE PNow
<1>1. op[o].kind \in {"switch", "mode", "settings"}
  BY DEF RunSwitch, RunMode, RunSettings, Ready
<1>2. CASE Reply(o) BY <1>1, <1>2, ReplyShows
<1>3. CASE ~Reply(o)
  <2>1. \/ Prepare(o, op[o].serial, None)
        \/ Prepare(o, op[o].serial, ctx[current].home)
    BY <1>3 DEF RunSwitch, RunMode, RunSettings
  <2>2. /\ \A x \in Ops : x # o => op'[x] = op[x]
        /\ op'[o].pc = "preparing"
        /\ UNCHANGED <<ctx, current, closing>>
    BY <2>1 DEF Prepare, OpRecord
  <2>3. StopsAsked' = StopsAsked BY <1>1, <2>2, SameStops
  <2> QED BY <2>2, <2>3, NothingShown
<1> QED BY <1>2, <1>3

\* A stop of the published session is carried out or, during shutdown, refused.
LEMMA RunStopShows ==
  ASSUME PInv, NEW o \in Ops, RunStop(o)
  PROVE  Shown
<1>. USE PNow
<1>1. op[o].kind = "stop" /\ op[o].pc = "queued" BY DEF RunStop, Ready
<1>2. CASE op[o].ctx # current
  <2>1. Reply(o) BY <1>2 DEF RunStop
  <2> QED BY <1>2, <2>1, ReplyShows
<1>3. CASE op[o].ctx = current /\ closing
  <2>1. Reply(o) BY <1>3 DEF RunStop
  <2>2. /\ \A x \in Ops : x # o => op'[x] = op[x]
        /\ op'[o].pc = "answered"
        /\ UNCHANGED <<ctx, current, closing>>
    BY <2>1 DEF Reply, Finish, FreshOp
  <2>3. o \in StopsAsked /\ StopsAsked' = StopsAsked \ {o}
    BY <1>1, <1>3, <2>2 DEF StopsAsked
  <2>4. (~Aborted(current))' = ~Aborted(current) BY <2>2 DEF Aborted
  <2>5. Published!Refuse BY <1>3, <2>2, <2>3, <2>4 DEF Published!Refuse
  <2>6. VerdictStep BY <2>2 DEF VerdictStep
  <2> QED BY <2>5, <2>6 DEF Shown, Published!Next
<1>4. CASE op[o].ctx = current /\ ~closing
  <2>1. /\ ctx' = DisposeCtx(ctx, dev, current, "stopped")
        /\ op' = [op EXCEPT ![o].pc = "stopping"]
        /\ current' = current /\ closing' = closing
    BY <1>4 DEF RunStop
  <2>2. (\A x \in Ops : x # o => op'[x] = op[x]) /\ op'[o].pc = "stopping"
    BY <2>1 DEF OpRecord
  <2>3. o \in StopsAsked /\ StopsAsked' = StopsAsked \ {o}
    BY <1>1, <1>4, <2>1, <2>2 DEF StopsAsked
  <2>4. "stopped" \in Statuses BY DEF Statuses
  <2>5. /\ ctx'[current].phase # "live"
        /\ ctx'[current].gen = ctx[current].gen
        /\ ctx'[current].terminal = ctx[current].terminal
        /\ ctx'[current].status
             = IF ctx[current].phase = "live" THEN "stopped" ELSE ctx[current].status
        /\ \A c \in Contexts : Aborted(c) => ctx'[c].status = ctx[c].status
    <3>1. CASE ctx[current].phase # "live"
      BY <2>1, <3>1, DisposalOfRevoked
    <3>2. CASE ctx[current].phase = "live"
      <4>1. /\ \A x \in Contexts : x # current =>
                 DisposeCtx(ctx, dev, current, "stopped")[x] = ctx[x]
            /\ DisposeCtx(ctx, dev, current, "stopped")[current].gen = ctx[current].gen
            /\ DisposeCtx(ctx, dev, current, "stopped")[current].status = "stopped"
            /\ DisposeCtx(ctx, dev, current, "stopped")[current].terminal
                 = ctx[current].terminal
            /\ DisposeCtx(ctx, dev, current, "stopped")[current].phase
                 = IF LastOwner(dev, ctx[current].home, current)
                   THEN "releasing" ELSE "released"
        BY <2>4, <3>2, Disposal
      <4> QED BY <2>1, <3>2, <4>1 DEF Aborted
    <3> QED BY <3>1, <3>2
  <2>6. /\ (~Aborted(current))' = FALSE
        /\ (ctx[current].status)'
             = IF ~Aborted(current) THEN "stopped" ELSE ctx[current].status
        /\ (ctx[current].gen)' = ctx[current].gen
        /\ (ctx[current].terminal)' = ctx[current].terminal
    BY <2>1, <2>5 DEF Aborted
  <2>7. Published!Stop BY <1>4, <2>1, <2>3, <2>6 DEF Published!Stop
  <2>8. VerdictStep BY <2>5 DEF VerdictStep
  <2> QED BY <2>7, <2>8 DEF Shown, Published!Next
<1> QED BY <1>2, <1>3, <1>4

LEMMA OpenShows ==
  ASSUME PInv, NEW o \in Ops,
         RunClose(o) \/ OpenFails(o) \/ OpenSucceeds(o) \/ Settle(o) \/ FinishAbandoned(o)
  PROVE  Shown
<1>. USE PNow
<1>1. CASE Settle(o) \/ FinishAbandoned(o)
  BY <1>1, ReplyShows DEF Settle, FinishAbandoned
<1>2. CASE RunClose(o)
  <2>1. /\ \A x \in Ops : x # o => op'[x] = op[x]
        /\ op'[o].pc = "stopping" /\ op[o].kind = "close"
        /\ UNCHANGED <<ctx, current, closing>>
    BY <1>2 DEF RunClose, Ready, OpRecord
  <2>2. StopsAsked' = StopsAsked BY <2>1, SameStops
  <2> QED BY <2>1, <2>2, NothingShown
<1>3. CASE OpenFails(o)
  <2>1. /\ \A x \in Ops : x # o => op'[x] = op[x]
        /\ op'[o].pc \in {"abandoning", "answered"} /\ op[o].pc = "preparing"
        /\ UNCHANGED <<ctx, current, closing>>
    BY <1>3 DEF OpenFails, Finish, FreshOp, OpRecord
  <2>2. StopsAsked' = StopsAsked BY <2>1, SameStops
  <2> QED BY <2>1, <2>2, NothingShown
<1>4. CASE OpenSucceeds(o)
  <2>1. /\ \A x \in Ops : x # o => op'[x] = op[x]
        /\ op'[o].pc = "prepared" /\ op[o].pc = "preparing"
        /\ UNCHANGED <<current, closing>>
        /\ \A c \in Contexts : c # nextCtx => ctx'[c] = ctx[c]
    BY <1>4 DEF OpenSucceeds, OpRecord
  <2>2. StopsAsked' = StopsAsked BY <2>1, SameStops
  <2>3. \A c \in Contexts : c < nextCtx => c # nextCtx BY ContextsAreNat
  <2>4. ctx'[current] = ctx[current] BY <2>1
  <2> QED BY <2>1, <2>2, <2>3, <2>4, NothingShown DEF Created
<1> QED BY <1>1, <1>2, <1>3, <1>4

\* A candidate that is given up was never seen.
LEMMA RollbackShows ==
  ASSUME PInv, NEW o \in Ops,
         Withdraw(o) \/ \E pumping \in BOOLEAN : ActivationFails(o, pumping)
  PROVE  Shown
<1>. USE PNow
<1>. DEFINE cand == op[o].cand
<1>1. /\ op[o].pc = "prepared" /\ cand \in Contexts /\ current < cand
      /\ ctx[cand].phase = "live"
  BY DEF Withdraw, ActivationFails, Prepared, IInv, CandidateIsNew, Aborted
<1>2. /\ UNCHANGED <<current, closing>>
      /\ op' = [op EXCEPT ![o].pc = "rollback"]
  BY DEF Withdraw, ActivationFails
<1>3. /\ \A x \in Ops : x # o => op'[x] = op[x]
      /\ op'[o].pc = "rollback"
  BY <1>2 DEF OpRecord
<1>4. StopsAsked' = StopsAsked BY <1>1, <1>2, <1>3, SameStops
<1>. HIDE DEF cand
<1>5. \A c \in Contexts : c # cand => ctx'[c] = ctx[c]
  <2>1. ASSUME NEW C \in [Contexts -> CtxRecord], NEW D,
               \A c \in Contexts : c # cand => C[c] = ctx[c]
        PROVE  \A c \in Contexts : c # cand => DisposeCtx(C, D, cand, "stopped")[c] = ctx[c]
    BY <2>1 DEF DisposeCtx
  <2>2. CASE Withdraw(o) BY <2>1, <2>2 DEF Withdraw, cand
  <2>3. ASSUME NEW pumping \in BOOLEAN, ActivationFails(o, pumping)
        PROVE  \A c \in Contexts : c # cand => ctx'[c] = ctx[c]
    <3>. DEFINE pump == IF pumping THEN "running" ELSE "none"
                C == [ctx EXCEPT ![cand].pump = pump]
                D == Activate(dev, ctx[cand].home, cand)
    <3>1. ctx' = DisposeCtx(C, D, cand, "stopped") BY <2>3 DEF ActivationFails, cand
    <3>2. pump \in {"none", "running", "done"} OBVIOUS
    <3>. HIDE DEF pump
    <3>3. C \in [Contexts -> CtxRecord] BY <1>1, <3>2 DEF CtxRecord
    <3>4. \A c \in Contexts : c # cand => C[c] = ctx[c] OBVIOUS
    <3>. HIDE DEF C, D
    <3> QED BY <2>1, <3>1, <3>3, <3>4
  <2> QED BY <2>2, <2>3
<1>6. current # cand BY <1>1
<1>7. ctx'[current] = ctx[current] BY <1>5, <1>6
<1>8. \A c \in Contexts : Aborted(c) => ctx'[c].status = ctx[c].status
  BY <1>1, <1>5 DEF Aborted
<1> QED BY <1>2, <1>4, <1>7, <1>8, NothingShown

LEMMA PublishShows ==
  ASSUME PInv, IInv', NEW o \in Ops, Publish(o)
  PROVE  Shown
<1>1. /\ ctx'[current'].gen = ctx[current].gen + 1
      /\ \/ /\ ctx'[current'].phase = "live"
            /\ ctx'[current'].status = "streaming" /\ ctx'[current'].terminal = FALSE
         \/ /\ ctx'[current'].phase # "live"
            /\ ctx'[current'].status = "error" /\ ctx'[current'].terminal = TRUE
      /\ \A c \in Contexts : ctx[c].phase # "live" => ctx'[c].status = ctx[c].status
      /\ ~closing /\ UNCHANGED closing
      /\ StopsAsked' = {}
  BY PublishKeeps
<1>2. /\ (ctx[current].gen)' = ctx[current].gen + 1
      /\ \/ /\ (~Aborted(current))' = TRUE
            /\ (ctx[current].status)' = "streaming" /\ (ctx[current].terminal)' = FALSE
         \/ /\ (~Aborted(current))' = FALSE
            /\ (ctx[current].status)' = "error" /\ (ctx[current].terminal)' = TRUE
  BY <1>1 DEF Aborted
<1>3. Published!Publish BY <1>1, <1>2 DEF Published!Publish
<1>4. VerdictStep BY <1>1 DEF VerdictStep, Aborted
<1> QED BY <1>3, <1>4 DEF Shown, Published!Next
\* What the published stream reports ends the session, or turns the end of its
\* video into a failure.
LEMMA MarkShows ==
  ASSUME PInv, IInv', NEW C \in [Contexts -> CtxRecord], NEW status \in {"stopped", "error"},
         UNCHANGED <<nextCtx, current, op, closing>>,
         \A x \in Contexts : /\ C[x].home = ctx[x].home /\ C[x].phase = ctx[x].phase
                             /\ C[x].gen = ctx[x].gen /\ C[x].status = ctx[x].status
                             /\ C[x].terminal = ctx[x].terminal,
         ctx' = MarkCtx(C, dev, current, status),
         dev' = MarkDev(C, dev, current, status),
         ctx[current].phase = "live" \/ ctx[current].terminal
  PROVE  PInv' /\ Shown
<1>. USE PNow
<1>1. /\ PInv'
      /\ ctx'[current].gen = ctx[current].gen
      /\ \A c \in Contexts : c # current => ctx'[c].status = ctx[c].status
      /\ ctx[current].phase = "live" =>
           /\ ctx'[current].phase # "live"
           /\ ctx'[current].terminal
           /\ ctx'[current].status = status
      /\ ctx[current].phase # "live" =>
           /\ ctx'[current].phase # "live"
           /\ \/ /\ ctx'[current].status = ctx[current].status
                 /\ ctx'[current].terminal = ctx[current].terminal
              \/ /\ ctx[current].status = "stopped"
                 /\ ctx'[current].status = "error"
                 /\ ctx'[current].terminal
  BY MarkKeeps
<1>2. /\ ctx[current].terminal \in BOOLEAN /\ ctx'[current].terminal \in BOOLEAN
      /\ StopsAsked' = StopsAsked
  <2>1. ctx' \in [Contexts -> CtxRecord] BY DEF IInv, TypeOK
  <2> QED BY <2>1 DEF CtxRecord, StopsAsked
<1>3. (ctx[current].gen)' = ctx[current].gen BY <1>1
<1>4. CASE ctx[current].phase = "live"
  <2>1. /\ ~Aborted(current) /\ (~Aborted(current))' = FALSE
        /\ (ctx[current].status)' = status /\ (ctx[current].terminal)' = TRUE
    BY <1>1, <1>2, <1>4 DEF Aborted
  <2>2. Published!End BY <1>2, <1>3, <2>1 DEF Published!End
  <2>3. VerdictStep BY <1>1, <1>4 DEF VerdictStep, Aborted
  <2> QED BY <1>1, <2>2, <2>3 DEF Shown, Published!Next
<1>5. CASE ctx[current].phase # "live" /\ ctx'[current].status = ctx[current].status
                                      /\ ctx'[current].terminal = ctx[current].terminal
  <2>1. \A c \in Contexts : ctx'[c].status = ctx[c].status BY <1>1, <1>5
  <2> QED BY <1>1, <1>2, <1>5, <2>1, NothingShown
<1>6. CASE /\ ctx[current].phase # "live" /\ ctx[current].status = "stopped"
           /\ ctx'[current].status = "error" /\ ctx'[current].terminal
  <2>1. /\ ctx[current].terminal = TRUE /\ (ctx[current].terminal)' = ctx[current].terminal
        /\ Aborted(current) /\ (~Aborted(current))' = ~Aborted(current)
        /\ (ctx[current].status)' = "error"
    BY <1>1, <1>2, <1>6 DEF Aborted
  <2>2. Published!Escalate BY <1>2, <1>3, <1>6, <2>1 DEF Published!Escalate
  <2>3. VerdictStep BY <1>1, <1>6, <2>1 DEF VerdictStep
  <2> QED BY <1>1, <2>2, <2>3 DEF Shown, Published!Next
<1> QED BY <1>1, <1>4, <1>5, <1>6

\* PInv' and what a step of a context shows.
LEMMA ContextShows ==
  ASSUME PInv, IInv', NEW c \in Contexts,
         StreamFails(c) \/ PumpEnds(c) \/ Unwind(c) \/ CloseState(c)
  PROVE  PInv' /\ Shown
<1>. USE PNow
<1>1. CASE Unwind(c)
  <2>1. /\ PInv'
        /\ \A x \in Contexts : /\ ctx'[x].gen = ctx[x].gen
                               /\ ctx'[x].status = ctx[x].status
                               /\ ctx'[x].terminal = ctx[x].terminal
                               /\ ctx'[x].phase = "live" <=> ctx[x].phase = "live"
    BY <1>1, UnwindKeeps
  <2>2. UNCHANGED <<current, op, closing>>
    BY <1>1 DEF Unwind, RunCleanups, CloseStream, PumpExits, FinishDispose
  <2>3. StopsAsked' = StopsAsked BY <2>2 DEF StopsAsked
  <2> QED BY <2>1, <2>2, <2>3, NothingShown
<1>2. CASE CloseState(c)
  <2>1. PInv' BY <1>2, CloseStateKeeps
  <2>2. UNCHANGED <<ctx, current, op, closing>> BY <1>2 DEF CloseState
  <2>3. StopsAsked' = StopsAsked BY <2>2 DEF StopsAsked
  <2> QED BY <2>1, <2>2, <2>3, NothingShown
<1>3. CASE PumpEnds(c)
  <2>. DEFINE C == [ctx EXCEPT ![c].pump = "done"]
  <2>1. /\ c = current /\ ctx[current].phase = "live"
        /\ UNCHANGED <<nextCtx, current, tail, op, closing, cancelled>>
        /\ \E status \in {"stopped", "error"} :
             /\ ctx' = MarkCtx(C, dev, c, status)
             /\ dev' = MarkDev(C, dev, c, status)
    BY <1>3 DEF PumpEnds, IsCurrent, Aborted
  <2>2. C \in [Contexts -> CtxRecord] BY DEF CtxRecord
  <2>3. \A x \in Contexts : /\ C[x].home = ctx[x].home /\ C[x].phase = ctx[x].phase
                            /\ C[x].gen = ctx[x].gen /\ C[x].status = ctx[x].status
                            /\ C[x].terminal = ctx[x].terminal
    BY DEF CtxRecord
  <2>. HIDE DEF C
  <2> QED BY <2>1, <2>2, <2>3, MarkShows
<1>4. CASE StreamFails(c)
  <2>. DEFINE C == [ctx EXCEPT ![c].fatal = TRUE]
  <2>1. /\ UNCHANGED <<nextCtx, current, tail, op, closing, cancelled>>
        /\ ctx' = IF Hears(c) THEN MarkCtx(C, dev, c, "error") ELSE C
        /\ dev' = IF Hears(c) THEN MarkDev(C, dev, c, "error") ELSE dev
    BY <1>4 DEF StreamFails
  <2>2. C \in [Contexts -> CtxRecord] BY ZenonT(30) DEF CtxRecord
  <2>3. \A x \in Contexts : /\ C[x].home = ctx[x].home /\ C[x].phase = ctx[x].phase
                            /\ C[x].gen = ctx[x].gen /\ C[x].status = ctx[x].status
                            /\ C[x].terminal = ctx[x].terminal
    BY DEF CtxRecord
  <2>. HIDE DEF C
  <2>4. CASE Hears(c)
    <3>1. c = current /\ (ctx[current].phase = "live" \/ ctx[current].terminal)
      BY <2>4 DEF Hears, Aborted
    <3> QED BY <2>1, <2>2, <2>3, <2>4, <3>1, MarkShows
  <2>5. CASE ~Hears(c)
    <3>1. ctx' = C /\ dev' = dev BY <2>1, <2>5
    <3>2. Held(ctx', dev', nextCtx, op)
      <4>1. Held(C, dev, nextCtx, op) BY <2>3, HeldUnlessRevoked
      <4> QED BY <3>1, <4>1
    <3>3. VerdictGiven(ctx') BY <2>3, <3>1 DEF VerdictGiven
    <3>4. PInv' BY <2>1, <2>3, <3>1, <3>2, <3>3, ContextKeeps DEF Disposed, Aborted
    <3>5. StopsAsked' = StopsAsked BY <2>1 DEF StopsAsked
    <3> QED BY <2>1, <2>3, <3>1, <3>4, <3>5, NothingShown
  <2> QED BY <2>4, <2>5
<1> QED BY <1>1, <1>2, <1>3, <1>4

-----------------------------------------------------------------------------
(* The invariant is inductive, and every step shows what it may.           *)

LEMMA InitShows == Init => PInv /\ Published!Init
<1>. SUFFICES ASSUME Init PROVE PInv /\ Published!Init
  OBVIOUS
<1>1. IInv BY InitIsSound
<1>. USE SoundNow, <1>1
<1>2. 0 \in Contexts BY SessionAssumption DEF Contexts
<1>3. /\ nextCtx = 1 /\ current = 0 /\ closing = FALSE
      /\ \A o \in Ops : op[o].kind = "none" /\ op[o].pc = "idle"
  BY DEF Init, FreshOp
<1>4. \A c \in Contexts : /\ ctx[c].phase = "live" /\ ctx[c].status = "streaming"
                          /\ ctx[c].terminal = FALSE /\ ctx[c].home = 0 /\ ctx[c].gen = 0
  <2>. DEFINE r == NewContext(FirstSerial, 0, 0)
              fresh == [c \in Contexts |-> r]
  <2>1. /\ r.phase = "live" /\ r.status = "streaming" /\ r.terminal = FALSE
        /\ r.home = 0 /\ r.gen = 0 /\ r \in CtxRecord
    <3>1. r \in CtxRecord
      BY <1>2, SessionAssumption DEF NewContext, CtxRecord, Statuses, Phases
    <3> QED BY <3>1 DEF NewContext
  <2>. HIDE DEF r
  <2>2. ctx = [fresh EXCEPT ![0].pump = "running", ![0].listening = TRUE]
    BY DEF Init, r
  <2> QED BY <1>2, <2>1, <2>2 DEF CtxRecord
<1>5. \A s \in Contexts : IF s = 0 THEN dev[s].owners = {0} /\ dev[s].state = "open"
                          ELSE dev[s].owners = {} /\ dev[s].state = "unused"
  BY DEF Init, UnusedDev
<1>6. Held(ctx, dev, nextCtx, op) BY <1>2, <1>3, <1>4, <1>5, Z3 DEF Held
<1>7. VerdictGiven(ctx) BY <1>4 DEF VerdictGiven
<1>8. CandidateSucceeds /\ StopsNameThePast /\ CloseIsLast
  BY <1>3 DEF CandidateSucceeds, StopsNameThePast, CloseIsLast
<1>9. DisposalAwaited /\ OverIsOver
  <2>1. \A c \in Contexts : c < 1 => c = 0 BY ContextsAreNat
  <2> QED BY <1>3, <2>1 DEF DisposalAwaited, OverIsOver, Over, Created
<1>10. Published!Init
  <2>1. StopsAsked = {} BY <1>3 DEF StopsAsked
  <2> QED BY <1>2, <1>3, <1>4, <2>1 DEF Published!Init, Aborted
<1> QED BY <1>6, <1>7, <1>8, <1>9, <1>10 DEF PInv

LEMMA StepShows == PInv /\ [Next]_vars => PInv' /\ Shown
<1>. SUFFICES ASSUME PInv, [Next]_vars PROVE PInv' /\ Shown
  OBVIOUS
<1>1. IInv' BY StepIsSound DEF PInv
<1>2. ASSUME NEW o \in Ops, Request(o) \/ UploadsSettled(o) PROVE PInv' /\ Shown
  BY <1>1, <1>2, RequestsKeep, RequestsShow
<1>3. ASSUME NEW o \in Ops, Progress(o) PROVE PInv' /\ Shown
  <2>1. CASE UploadsSettled(o) BY <1>2, <2>1
  <2>2. CASE RunSwitch(o) \/ RunMode(o) \/ RunSettings(o)
    BY <1>1, <2>2, RunReplaceKeeps, RunReplaceShows
  <2>3. CASE RunStop(o) BY <1>1, <2>3, RunStopKeeps, RunStopShows
  <2>4. CASE RunClose(o) BY <1>1, <2>4, RunStopKeeps, OpenShows
  <2>5. CASE OpenFails(o) BY <1>1, <2>5, OpenFailsKeeps, OpenShows
  <2>6. CASE OpenSucceeds(o) BY <1>1, <2>6, OpenSucceedsKeeps, OpenShows
  <2>7. CASE Settle(o) \/ FinishAbandoned(o) BY <1>1, <2>7, SettleKeeps, OpenShows
  <2>8. CASE Withdraw(o) BY <1>1, <2>8, WithdrawKeeps, RollbackShows
  <2>9. CASE Publish(o) BY <1>1, <2>9, PublishKeeps, PublishShows
  <2>10. ASSUME NEW pumping \in BOOLEAN, ActivationFails(o, pumping) PROVE PInv' /\ Shown
    BY <1>1, <2>10, ActivationFailsKeeps, RollbackShows
  <2> QED BY <1>3, <2>1, <2>2, <2>3, <2>4, <2>5, <2>6, <2>7, <2>8, <2>9, <2>10 DEF Progress
<1>4. ASSUME NEW c \in Contexts,
             StreamFails(c) \/ PumpEnds(c) \/ Unwind(c) \/ CloseState(c)
      PROVE  PInv' /\ Shown
  BY <1>1, <1>4, ContextShows
<1>5. CASE UNCHANGED vars
  <2>1. UNCHANGED <<ctx, dev, nextCtx, current, tail, op, closing, cancelled>>
    BY <1>5 DEF vars
  <2>2. PInv'
    BY <1>1, <2>1 DEF PInv, Held, VerdictGiven, CandidateSucceeds, StopsNameThePast,
                CloseIsLast, DisposalAwaited, OverIsOver, Over, Created, Aborted, Disposed
  <2>3. StopsAsked' = StopsAsked BY <2>1 DEF StopsAsked
  <2> QED BY <2>1, <2>2, <2>3, NothingShown
<1> QED BY <1>2, <1>3, <1>4, <1>5 DEF Next

\* The strengthened invariant holds in every reachable state.
THEOREM PromiseInvariance == Spec => []PInv
<1>1. Init => PInv BY InitShows
<1>2. PInv /\ [Next]_vars => PInv' BY StepShows
<1> QED BY <1>1, <1>2, PTL DEF Spec

\* The manager implements PublishedSession: whatever fails, is refused or is
\* staged, the published session is replaced by its successor only and ends for
\* its own reasons, by a stop that named it or by shutdown.
THEOREM Implements == Spec => ImplementsPublishedSession
<1>1. Init => Published!Init BY InitShows
<1>2. PInv /\ [Next]_vars => [Published!Next]_(Published!sessionVars)
  BY StepShows DEF Shown
<1> QED BY <1>1, <1>2, PromiseInvariance, PTL
        DEF Spec, ImplementsPublishedSession, Published!Spec

\* A revoked session keeps its verdict, except that the end of its own video
\* may turn out to have been a failure.
THEOREM FinalVerdicts == Spec => VerdictIsFinal
<1>1. PInv /\ [Next]_vars =>
        [\A c \in Contexts :
           Created(c) /\ Aborted(c) /\ (ctx[c].status = "error" \/ ~ctx[c].terminal) =>
             ctx'[c].status = ctx[c].status]_vars
  BY StepShows DEF Shown, VerdictStep
<1> QED BY <1>1, PromiseInvariance, PTL DEF Spec, VerdictIsFinal

\* When the server's stop() resolves, no context is left undisposed and no
\* device state open, whatever the chain was doing when it was called.
THEOREM StopIsClean == Spec => []StopLeavesNothing
<1>1. PInv => StopLeavesNothing
  <2>. SUFFICES ASSUME PInv, NEW o \in Ops, op[o].kind = "close", op[o].pc = "answered",
                       NEW s \in Contexts
                PROVE  /\ Created(s) => Disposed(s)
                       /\ dev[s].state \in {"unused", "closed"}
    BY DEF StopLeavesNothing
  <2>. USE PNow
  <2>1. /\ \A x \in Ops : op[x].pc \in Busy => op[x].pc = "stopping"
        /\ \A c \in Contexts : c < nextCtx => ctx[c].phase = "disposed"
    BY DEF PInv, OverIsOver, Over, Created, Disposed
  <2>2. /\ \A x \in dev[s].owners :
             \/ x \in Contexts /\ x < nextCtx /\ ctx[x].phase = "live"
             \/ x \in Ops /\ op[x].pc = "preparing"
        /\ dev[s].state = "open" => dev[s].owners # {}
        /\ dev[s].state = "closing" =>
             \/ \E x \in Ops : op[x].pc = "abandoning"
             \/ \E c \in Contexts : c < nextCtx /\ ctx[c].phase = "releasing"
    BY DEF Held
  <2>3. \A x \in Ops : op[x].pc \notin {"preparing", "abandoning"}
    BY <2>1 DEF Busy
  <2>4. dev[s].state \in {"unused", "open", "closing", "closed"} BY DEF DevRecord
  <2> QED BY <2>1, <2>2, <2>3, <2>4 DEF Created, Disposed
<1> QED BY <1>1, PromiseInvariance, PTL

-----------------------------------------------------------------------------
(***************************************************************************)
(* Proofs about StreamDelivery: for any clients, peers and periods of the  *)
(* watchdog, nobody is handed frames it cannot decode, nobody waits for a  *)
(* key frame unnoticed, and the session leaves no peer behind.             *)
(*                                                                         *)
(* DInv is the inductive invariant. Its part about the watchdog, Retried,  *)
(* bounds the time an overdue client has been neglected by the age of the  *)
(* last attempt and by the time since the last tick: a tick that finds the *)
(* cooldown of an attempt running has seen that attempt after it.          *)
(***************************************************************************)

WatchdogType ==
  [running : BOOLEAN, attempt : Ages(Cooldown), frames : BOOLEAN,
   quiet : Ages(QuietLimit), timer : Ages(Interval)]

\* A frame is only ever sent when the config of its video session is there.
ConfigKept == source # "session" => cachedConfig

\* Peers live in the publisher that was opened for the session.
PeersAreOwned == publisher # "ready" => \A s \in SessionIds : ~Open(peer[s])

Retried ==
  /\ watchdog.attempt < Cooldown => neglect <= watchdog.attempt
  /\ neglect <= Cooldown - 1 + watchdog.timer
  /\ ~Overdue => neglect = 0

DInv ==
  /\ DeliveryTypeOK /\ ConfigKept /\ PeersAreOwned /\ Retried
  /\ IntactWhenServed /\ PeersAreTracked /\ NothingOutlivesSession

-----------------------------------------------------------------------------
(* The parts of the state.                                                 *)

LEMMA Limits ==
  /\ Interval \in Nat /\ Cooldown \in Nat /\ FirstFrame \in Nat /\ Stall \in Nat /\ Retry \in Nat
  /\ Interval > 0 /\ Cooldown > 0 /\ FirstFrame > 0 /\ Stall > 0 /\ Retry > 0
  /\ MaxCancelled \in Nat /\ MaxCancelled > 0 /\ QuietLimit \in Nat
  /\ 0 \in Ages(Interval) /\ 0 \in Ages(Cooldown) /\ 0 \in Ages(Retry) /\ 0 \in Ages(QuietLimit)
  /\ 0 \in Ages(Interval + Cooldown)
<1>1. /\ Interval \in Nat \ {0} /\ Cooldown \in Nat \ {0} /\ FirstFrame \in Nat \ {0}
      /\ Stall \in Nat \ {0} /\ Retry \in Nat \ {0} /\ MaxCancelled \in Nat \ {0}
  BY DeliveryAssumption
<1>2. QuietLimit \in Nat BY <1>1 DEF QuietLimit
<1> QED BY <1>1, <1>2 DEF Ages

LEMMA OlderAge ==
  ASSUME NEW limit \in Nat, NEW age \in Ages(limit)
  PROVE  /\ Older(age, limit) \in Ages(limit) /\ Older(age, limit) \in Nat /\ age \in Nat
         /\ age <= limit /\ age <= Older(age, limit) /\ Older(age, limit) <= age + 1
         /\ Older(age, limit) < limit => Older(age, limit) = age + 1
         /\ age < limit => Older(age, limit) = age + 1
BY DEF Older, Ages

\* A client of the recovery is marked, served, or covered by a request.
LEMMA Marks ==
  ASSUME NEW x \in Client
  PROVE  /\ MarkAwaiting(x) \in Client /\ MarkAwaiting(x).awaiting /\ MarkAwaiting(x).ws = x.ws
         /\ MarkAwaiting(x).intact = x.intact
         /\ KeyFrameAccepted(x) \in Client /\ ~KeyFrameAccepted(x).awaiting
         /\ KeyFrameAccepted(x).ws = x.ws /\ KeyFrameAccepted(x).intact = x.intact
         /\ Requested(x) \in Client /\ Requested(x).awaiting = x.awaiting
         /\ Requested(x).ws = x.ws /\ Requested(x).intact = x.intact
BY Limits DEF MarkAwaiting, KeyFrameAccepted, Requested, Client

LEMMA WebMarks ==
  ASSUME NEW x \in Waiting
  PROVE  /\ MarkAwaiting(x) \in Waiting /\ MarkAwaiting(x).awaiting
         /\ x.awaiting => MarkAwaiting(x) = x
         /\ KeyFrameAccepted(x) \in Waiting
         /\ Requested(x) \in Waiting /\ Requested(x).awaiting = x.awaiting
BY Limits DEF MarkAwaiting, KeyFrameAccepted, Requested, Waiting

\* What the pump may find after a request: the clients wait as they did.
Kept(cs, w, dog) ==
  /\ client' \in [Clients -> Client] /\ web' \in Waiting /\ web'.awaiting = w.awaiting
  /\ \A c \in Clients : /\ client'[c].ws = cs[c].ws /\ client'[c].awaiting = cs[c].awaiting
                        /\ client'[c].intact = cs[c].intact
  /\ watchdog' \in WatchdogType /\ watchdog'.running = dog.running
  /\ neglect' \in Ages(Interval + Cooldown)

LEMMA VideoResetKeeps ==
  ASSUME neglect \in Ages(Interval + Cooldown),
         NEW dog \in WatchdogType, NEW cs \in [Clients -> Client], NEW w \in Waiting, NEW active,
         dog.attempt < Cooldown =>
           neglect <= dog.attempt /\ neglect <= Cooldown - 1 + dog.timer,
         RequestVideoReset(dog, cs, w, active)
  PROVE  Kept(cs, w, dog) /\ Retried'
<1>0. neglect \in Nat /\ dog.timer \in Nat /\ dog.attempt \in Nat /\ Cooldown \in Nat /\ Cooldown > 0
  BY Limits DEF Ages, WatchdogType
<1>1. CASE dog.attempt < Cooldown
  <2>1. client' = cs /\ web' = w /\ watchdog' = dog /\ Forgotten BY <1>1 DEF RequestVideoReset
  <2>2. neglect' = IF Overdue' THEN neglect ELSE 0 BY <2>1 DEF Forgotten
  <2>3. Kept(cs, w, dog) BY <2>1, <2>2, Limits DEF Kept
  <2>4. neglect' \in Nat /\ neglect' <= neglect BY <1>0, <2>2
  <2>5. neglect' <= watchdog'.attempt /\ neglect' <= Cooldown - 1 + watchdog'.timer
    <3>. DEFINE n == neglect'  a == watchdog'.attempt  t == watchdog'.timer
    <3>1. n \in Nat /\ a \in Nat /\ t \in Nat /\ n <= neglect /\ neglect <= a
          /\ neglect <= Cooldown - 1 + t
      BY <1>0, <1>1, <2>1, <2>4
    <3>. HIDE DEF n, a, t
    <3>2. n <= a /\ n <= Cooldown - 1 + t BY <1>0, <3>1
    <3> QED BY <3>2 DEF n, a, t
  <2> QED BY <2>2, <2>3, <2>5 DEF Retried
<1>2. CASE ~(dog.attempt < Cooldown)
  <2>1. /\ \/ client' = cs /\ web' = w
           \/ /\ client' = [c \in Clients |-> IF cs[c].ws = "in" THEN Requested(cs[c]) ELSE cs[c]]
              /\ web' = IF active THEN Requested(w) ELSE w
        /\ watchdog' = [dog EXCEPT !.attempt = 0] /\ neglect' = 0
    BY <1>2 DEF RequestVideoReset
  <2>2. /\ client' \in [Clients -> Client] /\ web' \in Waiting /\ web'.awaiting = w.awaiting
        /\ \A c \in Clients : /\ client'[c].ws = cs[c].ws /\ client'[c].awaiting = cs[c].awaiting
                              /\ client'[c].intact = cs[c].intact
    BY <2>1, Marks, WebMarks
  <2>3. /\ watchdog' \in WatchdogType /\ watchdog'.running = dog.running
        /\ watchdog'.attempt = 0 /\ watchdog'.timer = dog.timer
    BY <2>1, Limits DEF WatchdogType
  <2>4. Kept(cs, w, dog) BY <2>1, <2>2, <2>3, Limits DEF Kept
  <2>5. 0 <= Cooldown - 1 + watchdog'.timer BY <1>0, <2>3
  <2> QED BY <2>1, <2>3, <2>4, <2>5 DEF Retried
<1> QED BY <1>1, <1>2

-----------------------------------------------------------------------------
(* Frames.                                                                 *)

LEMMA FedKeeps ==
  ASSUME NEW p \in Peer, NEW isKey \in BOOLEAN, NEW whole \in BOOLEAN, isKey => whole,
         NEW outcome \in Outcomes, p.track = "open" /\ ~p.awaiting => p.intact
  PROVE  LET f == Fed(p, isKey, whole, outcome)
         IN  /\ f \in Peer /\ (Open(f) => Open(p))
             /\ f.track = "open" /\ ~f.awaiting => f.intact
             /\ NeedsKeyFrame(f) =>
                  \/ NeedsKeyFrame(p)
                  \/ outcome = "refused" /\ p.track = "open" /\ (isKey \/ ~p.awaiting)
BY DEF Fed, Peer, NoPeer, Open, NeedsKeyFrame, Outcomes

LEMMA SendFrameKeeps ==
  ASSUME NEW x \in Client, NEW isKey \in BOOLEAN, cachedConfig \in BOOLEAN, isKey => cachedConfig,
         NEW outcome \in Sends, x.ws = "in" /\ ~x.awaiting => x.intact
  PROVE  LET f == SendFrame(x, isKey, outcome)
         IN  /\ f \in Client
             /\ f.ws = "in" /\ ~f.awaiting => f.intact
<1>. DEFINE f == SendFrame(x, isKey, outcome)
<1>1. CASE x.ws # "in"
  <2>1. f = x BY <1>1 DEF SendFrame
  <2> QED BY <1>1, <2>1
<1>2. CASE x.ws = "in" /\ x.awaiting /\ ~isKey
  <2>1. f = [x EXCEPT !.intact = FALSE] BY <1>2 DEF SendFrame
  <2> QED BY <1>2, <2>1 DEF Client
<1>3. CASE x.ws = "in" /\ ~(x.awaiting /\ ~isKey) /\ outcome = "sent"
  <2>. DEFINE y == IF isKey THEN KeyFrameAccepted(x) ELSE x
              i == x.intact \/ (isKey /\ cachedConfig)
  <2>1. y \in Client /\ y.ws = "in" /\ y.intact = x.intact BY <1>3, Marks
  <2>2. f = [y EXCEPT !.intact = i] BY <1>3, <2>1 DEF SendFrame
  <2>3. i = TRUE BY <1>3 DEF Client
  <2>. HIDE DEF y, i, f
  <2>4. f \in Client /\ f.intact BY <2>1, <2>2, <2>3 DEF Client
  <2> QED BY <2>4 DEF f
<1>4. CASE x.ws = "in" /\ ~(x.awaiting /\ ~isKey) /\ outcome = "dropped"
  <2>1. f = [MarkAwaiting(x) EXCEPT !.intact = FALSE] BY <1>4 DEF SendFrame
  <2>2. MarkAwaiting(x) \in Client /\ MarkAwaiting(x).awaiting BY Marks
  <2>. DEFINE y == MarkAwaiting(x)
  <2>. HIDE DEF y, f
  <2>3. f \in Client /\ f.awaiting BY <2>1, <2>2 DEF Client, y
  <2> QED BY <2>3 DEF f
<1>5. CASE x.ws = "in" /\ ~(x.awaiting /\ ~isKey) /\ outcome = "gone"
  <2>1. f = NoClient BY <1>5 DEF SendFrame
  <2> QED BY <2>1, Limits DEF NoClient, Client
<1> QED BY <1>1, <1>2, <1>3, <1>4, <1>5 DEF Sends

-----------------------------------------------------------------------------
(* The steps.                                                              *)

\* The types that most steps leave alone.
LEMMA Unpacked ==
  ASSUME DInv
  PROVE  /\ peer \in [SessionIds -> Peer] /\ pending \in SessionIds \cup {NoSession}
         /\ cancelledOrder \in Seq(SessionIds) /\ Len(cancelledOrder) <= MaxCancelled
         /\ client \in [Clients -> Client] /\ web \in Waiting
         /\ watchdog \in WatchdogType /\ neglect \in Ages(Interval + Cooldown) /\ neglect \in Nat
         /\ cachedConfig \in BOOLEAN
         /\ watchdog.attempt < Cooldown =>
              neglect <= watchdog.attempt /\ neglect <= Cooldown - 1 + watchdog.timer
BY Limits DEF DInv, DeliveryTypeOK, WatchdogType, Retried, Ages

\* A publisher is opened, a config arrives, the session is over.
LEMMA QuietKeeps ==
  ASSUME DInv,
         PublisherRequested \/ PublisherOpened \/ PublisherFails \/ ConfigArrives \/ SessionEnds
  PROVE  DInv'
<1>1. UNCHANGED <<peer, pending, cancelledOrder, client, web, watchdog, neglect>>
  BY DEF PublisherRequested, PublisherOpened, PublisherFails, ConfigArrives, SessionEnds,
     publisherVars
<1>2. /\ phase' \in {"live", "ended", "clean"} /\ (phase' = "clean" <=> phase = "clean")
      /\ phase' = "live" => phase = "live"
      /\ publisher' \in {"none", "opening", "ready", "closed"}
      /\ publisher = "ready" => publisher' = "ready"
      /\ phase' = "clean" /\ publisher' = "ready" => publisher = "ready"
      /\ source' \in {"session", "config", "frames"} /\ cachedConfig' \in BOOLEAN
      /\ source' # "session" => cachedConfig'
  BY DEF DInv, DeliveryTypeOK, ConfigKept, PublisherRequested, PublisherOpened, PublisherFails,
     ConfigArrives, SessionEnds
<1>3. DeliveryTypeOK' BY <1>1, <1>2 DEF DInv, DeliveryTypeOK
<1>4. ConfigKept' BY <1>2 DEF ConfigKept
<1>5. PeersAreOwned' BY <1>1, <1>2 DEF DInv, PeersAreOwned
<1>6. Retried' BY <1>1 DEF DInv, Retried, Overdue, ActivePeer
<1>7. IntactWhenServed' BY <1>1 DEF DInv, IntactWhenServed
<1>8. PeersAreTracked' BY <1>1, <1>2 DEF DInv, PeersAreTracked
<1>9. NothingOutlivesSession' BY <1>1, <1>2 DEF DInv, NothingOutlivesSession
<1> QED BY <1>3, <1>4, <1>5, <1>6, <1>7, <1>8, <1>9 DEF DInv

\* What a step leaves that keeps the session, if the peers, the clients and the
\* recovery state it hands on are in order.
LEMMA Asked ==
  ASSUME DInv, NEW cs \in [Clients -> Client], NEW w \in Waiting,
         Kept(cs, w, watchdog), Retried',
         UNCHANGED <<phase, publisher>>, source' \in {"session", "config", "frames"},
         cachedConfig' \in BOOLEAN, ConfigKept',
         peer' \in [SessionIds -> Peer], pending' \in SessionIds \cup {NoSession},
         cancelledOrder' \in Seq(SessionIds), Len(cancelledOrder') <= MaxCancelled,
         \A s \in SessionIds :
           Open(peer'[s]) => Open(peer[s]) \/ (phase = "live" /\ publisher = "ready"),
         \A s \in SessionIds : peer'[s].track = "open" /\ ~peer'[s].awaiting => peer'[s].intact,
         \A c \in Clients : cs[c].ws = "in" /\ ~cs[c].awaiting => cs[c].intact,
         \A s \in SessionIds : phase = "live" /\ NeedsKeyFrame(peer'[s]) => w.awaiting
  PROVE  DInv'
<1>1. DeliveryTypeOK' BY DEF DInv, DeliveryTypeOK, Kept, WatchdogType
<1>2. PeersAreOwned' BY DEF DInv, PeersAreOwned
<1>3. IntactWhenServed' BY DEF IntactWhenServed, Kept
<1>4. PeersAreTracked' BY DEF PeersAreTracked, Kept
<1>5. NothingOutlivesSession' BY DEF DInv, NothingOutlivesSession, Kept
<1> QED BY <1>1, <1>2, <1>3, <1>4, <1>5 DEF DInv

LEMMA TicksKeep ==
  ASSUME DInv, WatchdogTicks
  PROVE  DInv'
<1>. DEFINE dog == [watchdog EXCEPT !.timer = 0]
<1>0. /\ watchdog \in WatchdogType /\ client \in [Clients -> Client] /\ web \in Waiting
      /\ neglect \in Ages(Interval + Cooldown) /\ neglect \in Nat
  BY Unpacked
<1>1. /\ UNCHANGED <<peer, pending, cancelledOrder, phase, publisher, source, cachedConfig>>
      /\ IF Watched /\ TickDue
         THEN RequestVideoReset(dog, client, web, ActivePeer)
         ELSE watchdog' = dog /\ UNCHANGED <<client, web, neglect>>
  BY DEF WatchdogTicks, publisherVars
<1>2. /\ dog \in WatchdogType /\ dog.running = watchdog.running /\ dog.timer = 0
      /\ dog.attempt = watchdog.attempt /\ dog.attempt \in Nat
  BY <1>0, Limits DEF WatchdogType, Ages
<1>. HIDE DEF dog
<1>3. Overdue => Watched /\ TickDue BY DEF Overdue, Watched, TickDue
<1>4. dog.attempt < Cooldown => neglect <= dog.attempt /\ neglect <= Cooldown - 1 + dog.timer
  <2>1. dog.attempt < Cooldown => neglect <= dog.attempt BY <1>2 DEF DInv, Retried
  <2> QED BY <1>0, <1>2, <2>1, Limits
<1>5. Kept(client, web, watchdog) /\ Retried'
  <2>1. CASE Watched /\ TickDue
    <3>1. Kept(client, web, dog) /\ Retried' BY <1>0, <1>1, <1>2, <1>4, <2>1, VideoResetKeeps
    <3> QED BY <1>2, <3>1 DEF Kept
  <2>2. CASE ~(Watched /\ TickDue)
    <3>1. watchdog' = dog /\ UNCHANGED <<client, web, neglect>> BY <1>1, <2>2
    <3>2. Kept(client, web, watchdog) BY <1>0, <1>2, <3>1 DEF Kept
    <3>3. neglect = 0 /\ ~Overdue BY <1>3, <2>2 DEF DInv, Retried
    <3>4. ~Overdue' BY <1>1, <3>1, <3>3 DEF Overdue, ActivePeer
    <3>5. neglect' = 0 /\ watchdog'.attempt \in Nat /\ watchdog'.timer = 0 BY <1>2, <3>1, <3>3
    <3>6. Retried' BY <3>4, <3>5, Limits DEF Retried
    <3> QED BY <3>2, <3>6
  <2> QED BY <2>1, <2>2
<1>6. ConfigKept' BY <1>1 DEF DInv, ConfigKept
<1>7. /\ peer' \in [SessionIds -> Peer] /\ pending' \in SessionIds \cup {NoSession}
      /\ source' \in {"session", "config", "frames"} /\ cachedConfig' \in BOOLEAN
      /\ cancelledOrder' \in Seq(SessionIds) /\ Len(cancelledOrder') <= MaxCancelled
  BY <1>1 DEF DInv, DeliveryTypeOK
<1>8. /\ \A s \in SessionIds : peer'[s].track = "open" /\ ~peer'[s].awaiting => peer'[s].intact
      /\ \A c \in Clients : client[c].ws = "in" /\ ~client[c].awaiting => client[c].intact
      /\ \A s \in SessionIds : phase = "live" /\ NeedsKeyFrame(peer'[s]) => web.awaiting
      /\ \A s \in SessionIds :
           Open(peer'[s]) => Open(peer[s]) \/ (phase = "live" /\ publisher = "ready")
  BY <1>1 DEF DInv, IntactWhenServed, PeersAreTracked
<1> QED BY <1>0, <1>1, <1>5, <1>6, <1>7, <1>8, Asked

LEMMA TimeKeeps ==
  ASSUME DInv, TimePasses
  PROVE  DInv'
<1>0. /\ watchdog \in WatchdogType /\ client \in [Clients -> Client] /\ web \in Waiting
      /\ neglect \in Ages(Interval + Cooldown) /\ neglect \in Nat
  BY Unpacked
<1>. DEFINE a == Older(watchdog.attempt, Cooldown)
            u == Older(watchdog.quiet, QuietLimit)
            t == IF watchdog.running THEN watchdog.timer + 1 ELSE watchdog.timer
<1>1. /\ UNCHANGED <<peer, pending, cancelledOrder, phase, publisher, source, cachedConfig>>
      /\ watchdog.running => watchdog.timer < Interval
      /\ watchdog' = [watchdog EXCEPT !.attempt = a, !.quiet = u, !.timer = t]
      /\ client' = [c \in Clients |-> Grow(client[c])]
      /\ web' = Grow(web)
      /\ neglect' = IF watchdog.running /\ Overdue THEN Older(neglect, Interval + Cooldown) ELSE 0
  BY DEF TimePasses, publisherVars
<1>2. /\ watchdog.attempt \in Ages(Cooldown) /\ watchdog.quiet \in Ages(QuietLimit)
      /\ watchdog.timer \in Ages(Interval) /\ watchdog.timer \in Nat
  BY <1>0, Limits DEF WatchdogType, Ages
<1>3. a \in Ages(Cooldown) /\ u \in Ages(QuietLimit) /\ t \in Ages(Interval)
  <2>1. a \in Ages(Cooldown) /\ u \in Ages(QuietLimit) BY <1>2, OlderAge, Limits
  <2>2. t \in Ages(Interval) BY <1>1, <1>2, Limits DEF Ages
  <2> QED BY <2>1, <2>2
<1>. HIDE DEF a, u, t
<1>4. /\ watchdog' \in WatchdogType /\ watchdog'.running = watchdog.running
      /\ watchdog'.attempt = a /\ watchdog'.timer = t
  BY <1>0, <1>1, <1>3 DEF WatchdogType
<1>5. ASSUME NEW c \in Clients
      PROVE  /\ client'[c] \in Client /\ client'[c].ws = client[c].ws
             /\ client'[c].awaiting = client[c].awaiting /\ client'[c].intact = client[c].intact
             /\ client[c].awaiting /\ client[c].since >= Retry => client'[c].since >= Retry
  <2>. DEFINE x == client[c]  s == Older(x.since, Retry)
  <2>1. x \in Client /\ x.since \in Ages(Retry) BY <1>0 DEF Client
  <2>2. s \in Ages(Retry) /\ x.since <= s /\ s \in Nat /\ x.since \in Nat
    BY <2>1, OlderAge, Limits
  <2>3. client'[c] = IF x.awaiting THEN [x EXCEPT !.since = s] ELSE x
    BY <1>1 DEF Grow
  <2>. HIDE DEF x, s
  <2>4. x.since >= Retry => s >= Retry BY <2>2, Limits
  <2> QED BY <2>1, <2>2, <2>3, <2>4 DEF Client, x
<1>6. /\ web' \in Waiting /\ web'.awaiting = web.awaiting
      /\ web.awaiting /\ web.since >= Retry => web'.since >= Retry
  <2>. DEFINE s == Older(web.since, Retry)
  <2>1. web.since \in Ages(Retry) BY <1>0 DEF Waiting
  <2>2. s \in Ages(Retry) /\ web.since <= s /\ s \in Nat /\ web.since \in Nat
    BY <2>1, OlderAge, Limits
  <2>3. web' = IF web.awaiting THEN [web EXCEPT !.since = s] ELSE web
    BY <1>1 DEF Grow
  <2>. HIDE DEF s
  <2>4. web.since >= Retry => s >= Retry BY <2>2, Limits
  <2> QED BY <1>0, <2>2, <2>3, <2>4 DEF Waiting
<1>7. client' \in [Clients -> Client] BY <1>1, <1>5
<1>8. Overdue => Overdue' BY <1>1, <1>5, <1>6 DEF Overdue, ActivePeer
<1>9. neglect' \in Ages(Interval + Cooldown) BY <1>0, <1>1, OlderAge, Limits
<1>10. DeliveryTypeOK' BY <1>1, <1>4, <1>6, <1>7, <1>9 DEF DInv, DeliveryTypeOK, WatchdogType
<1>11. Retried'
  <2>1. CASE ~(watchdog.running /\ Overdue)
    <3>1. neglect' = 0 /\ a \in Nat /\ t \in Nat BY <1>1, <1>3, <2>1, Limits DEF Ages
    <3> QED BY <1>4, <3>1, Limits DEF Retried
  <2>2. CASE watchdog.running /\ Overdue
    <3>1. neglect' <= neglect + 1 /\ neglect' \in Nat BY <1>0, <1>1, <2>2, OlderAge, Limits
    <3>2. t = watchdog.timer + 1 BY <2>2 DEF t
    <3>3. neglect <= Cooldown - 1 + watchdog.timer BY DEF DInv, Retried
    <3>4. neglect' <= Cooldown - 1 + t BY <1>0, <1>2, <3>1, <3>2, <3>3, Limits
    <3>5. a < Cooldown => a = watchdog.attempt + 1 /\ watchdog.attempt < Cooldown
      BY <1>2, OlderAge, Limits DEF a
    <3>6. watchdog.attempt < Cooldown => neglect <= watchdog.attempt BY DEF DInv, Retried
    <3>7. a < Cooldown => neglect' <= a
      <4>1. watchdog.attempt \in Nat BY <1>2, Limits DEF Ages
      <4> QED BY <1>0, <3>1, <3>5, <3>6, <4>1
    <3> QED BY <1>4, <1>8, <2>2, <3>4, <3>7 DEF Retried
  <2> QED BY <2>1, <2>2
<1>12. ConfigKept' /\ PeersAreOwned' BY <1>1 DEF DInv, ConfigKept, PeersAreOwned
<1>13. IntactWhenServed' /\ PeersAreTracked' /\ NothingOutlivesSession'
  BY <1>1, <1>4, <1>5, <1>6 DEF DInv, IntactWhenServed, PeersAreTracked, NothingOutlivesSession
<1> QED BY <1>10, <1>11, <1>12, <1>13 DEF DInv

\* A client or a peer went: the ghost forgets whom the watchdog does not watch.
LEMMA ForgottenKeeps ==
  ASSUME DInv, Forgotten, watchdog' \in WatchdogType, watchdog'.running = watchdog.running,
         watchdog'.attempt = watchdog.attempt, watchdog'.timer = watchdog.timer
  PROVE  Retried' /\ neglect' \in Ages(Interval + Cooldown)
<1>1. neglect' = IF Overdue' THEN neglect ELSE 0 BY DEF Forgotten
<1>2. /\ watchdog \in WatchdogType /\ neglect \in Ages(Interval + Cooldown) /\ neglect \in Nat
  BY Unpacked
<1>3. /\ watchdog.attempt < Cooldown => neglect <= watchdog.attempt
      /\ neglect <= Cooldown - 1 + watchdog.timer
  BY DEF DInv, Retried
<1>4. watchdog.attempt \in Nat /\ watchdog.timer \in Nat BY <1>2, Limits DEF WatchdogType, Ages
<1>. DEFINE n == neglect'
<1>5. n \in Nat /\ n <= neglect /\ n \in Ages(Interval + Cooldown) /\ (~Overdue' => n = 0)
  BY <1>1, <1>2, Limits
<1>. HIDE DEF n
<1>6. /\ watchdog.attempt < Cooldown => n <= watchdog.attempt
      /\ n <= Cooldown - 1 + watchdog.timer
  BY <1>2, <1>3, <1>4, <1>5, Limits
<1> QED BY <1>5, <1>6 DEF Retried, n

\* The recovery is asked on behalf of clients and peers that are in order.
LEMMA RequestedKeeps ==
  ASSUME DInv, NEW cs \in [Clients -> Client], NEW w \in Waiting, NEW active,
         RequestVideoReset(watchdog, cs, w, active)
  PROVE  Kept(cs, w, watchdog) /\ Retried'
BY Unpacked, VideoResetKeeps

-----------------------------------------------------------------------------
(* The steps of the websocket clients.                                     *)

LEMMA UpgradesKeep ==
  ASSUME DInv, NEW c \in Clients, ClientUpgrades(c)
  PROVE  DInv'
<1>1. /\ UNCHANGED <<peer, pending, cancelledOrder, phase, publisher, web, source, cachedConfig,
                     watchdog, neglect>>
      /\ client[c].ws = "out"
      /\ client' = [client EXCEPT ![c] = [NoClient EXCEPT !.ws = "upgrading"]]
  BY DEF ClientUpgrades, publisherVars
<1>2. client \in [Clients -> Client] BY Unpacked
<1>. DEFINE x == [NoClient EXCEPT !.ws = "upgrading"]
<1>3. x \in Client /\ x.ws = "upgrading" BY Limits DEF NoClient, Client
<1>. HIDE DEF x
<1>4. client' = [client EXCEPT ![c] = x] BY <1>1 DEF x
<1>5. /\ client' \in [Clients -> Client] /\ client'[c] = x
      /\ \A d \in Clients : d # c => client'[d] = client[d]
  BY <1>2, <1>3, <1>4
<1>6. Overdue <=> Overdue' BY <1>1, <1>3, <1>5 DEF Overdue, ActivePeer
<1>7. DeliveryTypeOK' BY <1>1, <1>5 DEF DInv, DeliveryTypeOK
<1>8. Retried' BY <1>1, <1>6 DEF DInv, Retried
<1>9. IntactWhenServed' BY <1>1, <1>3, <1>5 DEF DInv, IntactWhenServed
<1>10. ConfigKept' /\ PeersAreOwned' /\ PeersAreTracked' /\ NothingOutlivesSession'
  BY <1>1 DEF DInv, ConfigKept, PeersAreOwned, PeersAreTracked, NothingOutlivesSession
<1> QED BY <1>7, <1>8, <1>9, <1>10 DEF DInv

LEMMA ClosesKeep ==
  ASSUME DInv, NEW c \in Clients, ClientCloses(c)
  PROVE  DInv'
<1>1. /\ UNCHANGED <<peer, pending, cancelledOrder, phase, publisher, web, source, cachedConfig,
                     watchdog>>
      /\ client' = [client EXCEPT ![c] = NoClient] /\ Forgotten
  BY DEF ClientCloses, publisherVars
<1>2. client \in [Clients -> Client] /\ watchdog \in WatchdogType BY Unpacked
<1>3. NoClient \in Client /\ NoClient.ws = "out" BY Limits DEF NoClient, Client
<1>5. /\ client' \in [Clients -> Client] /\ client'[c] = NoClient
      /\ \A d \in Clients : d # c => client'[d] = client[d]
  BY <1>1, <1>2, <1>3
<1>6. Retried' /\ neglect' \in Ages(Interval + Cooldown) BY <1>1, <1>2, ForgottenKeeps
<1>7. DeliveryTypeOK' BY <1>1, <1>5, <1>6 DEF DInv, DeliveryTypeOK
<1>9. IntactWhenServed' BY <1>1, <1>3, <1>5 DEF DInv, IntactWhenServed
<1>10. ConfigKept' /\ PeersAreOwned' /\ PeersAreTracked' /\ NothingOutlivesSession'
  BY <1>1 DEF DInv, ConfigKept, PeersAreOwned, PeersAreTracked, NothingOutlivesSession
<1> QED BY <1>6, <1>7, <1>9, <1>10 DEF DInv

LEMMA OpensKeep ==
  ASSUME DInv, NEW c \in Clients, ClientOpens(c)
  PROVE  DInv'
<1>1. /\ UNCHANGED <<peer, pending, cancelledOrder, phase, publisher, source, cachedConfig>>
      /\ client[c].ws = "upgrading"
  BY DEF ClientOpens, publisherVars
<1>2. /\ client \in [Clients -> Client] /\ web \in Waiting /\ client[c] \in Client
      /\ peer' \in [SessionIds -> Peer] /\ pending' \in SessionIds \cup {NoSession}
      /\ source' \in {"session", "config", "frames"} /\ cachedConfig' \in BOOLEAN
      /\ cancelledOrder' \in Seq(SessionIds) /\ Len(cancelledOrder') <= MaxCancelled
  BY <1>1, Unpacked DEF DInv, DeliveryTypeOK
<1>3. ConfigKept' BY <1>1 DEF DInv, ConfigKept
<1>4. /\ \A s \in SessionIds : peer'[s].track = "open" /\ ~peer'[s].awaiting => peer'[s].intact
      /\ \A d \in Clients : client[d].ws = "in" /\ ~client[d].awaiting => client[d].intact
      /\ \A s \in SessionIds : phase = "live" /\ NeedsKeyFrame(peer'[s]) => web.awaiting
      /\ \A s \in SessionIds :
           Open(peer'[s]) => Open(peer[s]) \/ (phase = "live" /\ publisher = "ready")
  BY <1>1 DEF DInv, IntactWhenServed, PeersAreTracked
<1>5. CASE phase = "live"
  <2>. DEFINE x == MarkAwaiting([client[c] EXCEPT !.ws = "in"])
              cs == [client EXCEPT ![c] = x]
  <2>1. RequestVideoReset(watchdog, cs, web, ActivePeer) BY <1>1, <1>5 DEF ClientOpens
  <2>2. x \in Client /\ x.awaiting
    <3>1. [client[c] EXCEPT !.ws = "in"] \in Client BY <1>2 DEF Client
    <3> QED BY <3>1, Marks
  <2>. HIDE DEF x
  <2>3. /\ cs \in [Clients -> Client] /\ cs[c] = x /\ \A d \in Clients : d # c => cs[d] = client[d]
    BY <1>2, <2>2
  <2>. HIDE DEF cs
  <2>4. Kept(cs, web, watchdog) /\ Retried' BY <1>2, <2>1, <2>3, RequestedKeeps
  <2>5. \A d \in Clients : cs[d].ws = "in" /\ ~cs[d].awaiting => cs[d].intact
    BY <1>4, <2>2, <2>3
  <2> QED BY <1>1, <1>2, <1>3, <1>4, <2>3, <2>4, <2>5, Asked
<1>6. CASE phase # "live"
  <2>1. client' = [client EXCEPT ![c] = NoClient] /\ UNCHANGED <<web, watchdog, neglect>>
    BY <1>1, <1>6 DEF ClientOpens
  <2>2. NoClient \in Client /\ NoClient.ws = "out" BY Limits DEF NoClient, Client
  <2>3. /\ client' \in [Clients -> Client] /\ client'[c] = NoClient
        /\ \A d \in Clients : d # c => client'[d] = client[d]
    BY <1>2, <2>1, <2>2
  <2>4. Overdue <=> Overdue' BY <1>1, <2>1, <2>2, <2>3 DEF Overdue, ActivePeer
  <2>5. DeliveryTypeOK' BY <1>1, <2>1, <2>3 DEF DInv, DeliveryTypeOK
  <2>6. Retried' BY <2>1, <2>4 DEF DInv, Retried
  <2>7. IntactWhenServed' BY <1>1, <2>2, <2>3 DEF DInv, IntactWhenServed
  <2>8. PeersAreOwned' /\ PeersAreTracked' /\ NothingOutlivesSession'
    BY <1>1, <1>6, <2>1 DEF DInv, PeersAreOwned, PeersAreTracked, NothingOutlivesSession
  <2> QED BY <1>3, <2>5, <2>6, <2>7, <2>8 DEF DInv
<1> QED BY <1>5, <1>6

-----------------------------------------------------------------------------
(* The steps of the peers.                                                 *)

\* A peer may go on, or be closed, but only opens with an offer.
PeersGoOn ==
  /\ peer' \in [SessionIds -> Peer] /\ pending' \in SessionIds \cup {NoSession}
  /\ cancelledOrder' \in Seq(SessionIds) /\ Len(cancelledOrder') <= MaxCancelled
  /\ \A s \in SessionIds : /\ Open(peer'[s]) => Open(peer[s])
                           /\ peer'[s].track = "open" /\ ~peer'[s].awaiting => peer'[s].intact

LEMMA PeerWants ==
  ASSUME DInv, KeyFrameWanted, PeersGoOn, UNCHANGED <<phase, publisher, source, cachedConfig>>
  PROVE  DInv'
<1>1. client \in [Clients -> Client] /\ web \in Waiting BY Unpacked
<1>2. MarkAwaiting(web) \in Waiting /\ MarkAwaiting(web).awaiting BY <1>1, WebMarks
<1>3. Kept(client, MarkAwaiting(web), watchdog) /\ Retried'
  BY <1>1, <1>2, RequestedKeeps DEF KeyFrameWanted
<1>4. ConfigKept' /\ source' \in {"session", "config", "frames"} /\ cachedConfig' \in BOOLEAN
  BY DEF DInv, DeliveryTypeOK, ConfigKept
<1>5. /\ \A s \in SessionIds :
           Open(peer'[s]) => Open(peer[s]) \/ (phase = "live" /\ publisher = "ready")
      /\ \A s \in SessionIds : peer'[s].track = "open" /\ ~peer'[s].awaiting => peer'[s].intact
      /\ \A c \in Clients : client[c].ws = "in" /\ ~client[c].awaiting => client[c].intact
      /\ \A s \in SessionIds :
           phase = "live" /\ NeedsKeyFrame(peer'[s]) => MarkAwaiting(web).awaiting
  BY <1>2 DEF DInv, IntactWhenServed, PeersGoOn
<1>6. /\ peer' \in [SessionIds -> Peer] /\ pending' \in SessionIds \cup {NoSession}
      /\ cancelledOrder' \in Seq(SessionIds) /\ Len(cancelledOrder') <= MaxCancelled
  BY DEF PeersGoOn
<1> QED BY <1>1, <1>2, <1>3, <1>4, <1>5, <1>6, Asked

LEMMA PeerGoes ==
  ASSUME DInv, Forgotten, PeersGoOn,
         UNCHANGED <<phase, publisher, client, web, source, cachedConfig, watchdog>>,
         \A s \in SessionIds : NeedsKeyFrame(peer'[s]) => NeedsKeyFrame(peer[s])
  PROVE  DInv'
<1>1. Retried' /\ neglect' \in Ages(Interval + Cooldown) BY Unpacked, ForgottenKeeps
<1>2. DeliveryTypeOK' BY <1>1 DEF DInv, DeliveryTypeOK, PeersGoOn
<1>3. ConfigKept' BY DEF DInv, ConfigKept
<1>4. PeersAreOwned' /\ NothingOutlivesSession'
  BY DEF DInv, PeersGoOn, PeersAreOwned, NothingOutlivesSession
<1>5. IntactWhenServed' BY DEF DInv, PeersGoOn, IntactWhenServed
<1>6. PeersAreTracked' BY DEF DInv, PeersAreTracked
<1> QED BY <1>1, <1>2, <1>3, <1>4, <1>5, <1>6 DEF DInv

LEMMA OfferKeeps ==
  ASSUME DInv, NEW s \in SessionIds, Offer(s)
  PROVE  DInv'
<1>1. /\ phase = "live" /\ publisher = "ready"
      /\ HandleOffer(s) \/ UNCHANGED publisherVars
      /\ web' = MarkAwaiting(web)
      /\ UNCHANGED <<phase, publisher, client, source, cachedConfig, watchdog, neglect>>
  BY DEF Offer
<1>2. web \in Waiting /\ peer \in [SessionIds -> Peer] BY Unpacked
<1>3. web' \in Waiting /\ web'.awaiting /\ (web.awaiting => web' = web) BY <1>1, <1>2, WebMarks
<1>4. NewPeer \in Peer /\ NewPeer.track = "none" /\ NewPeer.link = "offered"
  BY DEF NewPeer, Peer
<1>5. /\ peer' \in [SessionIds -> Peer] /\ pending' \in SessionIds \cup {NoSession}
      /\ UNCHANGED cancelledOrder
      /\ \A t \in SessionIds : peer'[t] = peer[t] \/ (peer'[t] = NewPeer /\ ~Open(peer[t]))
  BY <1>1, <1>2, <1>4 DEF DInv, DeliveryTypeOK, HandleOffer, OfferAdmitted, publisherVars
<1>6. ActivePeer => ActivePeer' BY <1>5, <1>4 DEF ActivePeer, Open
<1>7. Overdue => Overdue' BY <1>1, <1>3, <1>6 DEF Overdue
<1>8. DeliveryTypeOK' BY <1>1, <1>3, <1>5 DEF DInv, DeliveryTypeOK
<1>9. Retried' BY <1>1, <1>7 DEF DInv, Retried
<1>10. IntactWhenServed' BY <1>1, <1>4, <1>5 DEF DInv, IntactWhenServed
<1>11. ConfigKept' /\ PeersAreOwned' /\ PeersAreTracked' /\ NothingOutlivesSession'
  BY <1>1, <1>3 DEF DInv, ConfigKept, PeersAreOwned, PeersAreTracked, NothingOutlivesSession
<1> QED BY <1>8, <1>9, <1>10, <1>11 DEF DInv

\* The peer s becomes p, or is closed.
LEMMA PeerBecomes ==
  ASSUME DInv, NEW s \in SessionIds, NEW p \in Peer, peer' = [peer EXCEPT ![s] = p],
         Open(p) => Open(peer[s]), p.track = "open" /\ ~p.awaiting => p.intact,
         pending' \in SessionIds \cup {NoSession},
         cancelledOrder' \in Seq(SessionIds), Len(cancelledOrder') <= MaxCancelled
  PROVE  /\ PeersGoOn
         /\ \A t \in SessionIds : t # s => peer'[t] = peer[t]
         /\ peer'[s] = p
<1>1. peer \in [SessionIds -> Peer] BY Unpacked
<1>2. /\ peer' \in [SessionIds -> Peer] /\ peer'[s] = p
      /\ \A t \in SessionIds : t # s => peer'[t] = peer[t]
  BY <1>1
<1> QED BY <1>2 DEF PeersGoOn, DInv, IntactWhenServed

LEMMA Nobody == NoPeer \in Peer /\ ~Open(NoPeer) /\ NoPeer.track = "none" /\ ~NeedsKeyFrame(NoPeer)
BY DEF NoPeer, Peer, Open, NeedsKeyFrame

LEMMA AnsweredKeeps ==
  ASSUME DInv, NEW s \in SessionIds, OfferAnswered(s)
  PROVE  DInv'
<1>1. /\ Open(peer[s]) /\ peer' = [peer EXCEPT ![s].link = "answered"] /\ pending' = NoSession
      /\ UNCHANGED <<cancelledOrder, phase, publisher, source, cachedConfig>> /\ KeyFrameWanted
  BY DEF OfferAnswered, Answered
<1>2. peer[s] \in Peer /\ peer \in [SessionIds -> Peer] BY Unpacked
<1>. DEFINE p == [peer[s] EXCEPT !.link = "answered"]
<1>3. /\ p \in Peer /\ p.track = peer[s].track /\ p.awaiting = peer[s].awaiting
      /\ p.intact = peer[s].intact
  BY <1>2 DEF Peer
<1>. HIDE DEF p
<1>4. peer' = [peer EXCEPT ![s] = p] BY <1>1, <1>2 DEF p
<1>5. p.track = "open" /\ ~p.awaiting => p.intact BY <1>3 DEF DInv, IntactWhenServed
<1>6. PeersGoOn
  <2>1. cancelledOrder' \in Seq(SessionIds) /\ Len(cancelledOrder') <= MaxCancelled BY <1>1, Unpacked
  <2> QED BY <1>1, <1>3, <1>4, <1>5, <2>1, PeerBecomes
<1> QED BY <1>1, <1>6, PeerWants

LEMMA ReadyKeeps ==
  ASSUME DInv, NEW s \in SessionIds, TrackReady(s)
  PROVE  DInv'
<1>1. /\ peer[s].track = "attached"
      /\ peer' = [peer EXCEPT ![s].track = "open", ![s].awaiting = TRUE]
      /\ UNCHANGED <<pending, cancelledOrder, phase, publisher, source, cachedConfig>> /\ KeyFrameWanted
  BY DEF TrackReady, TrackOpens
<1>2. peer[s] \in Peer /\ peer \in [SessionIds -> Peer] BY Unpacked
<1>. DEFINE p == [peer[s] EXCEPT !.track = "open", !.awaiting = TRUE]
<1>3. p \in Peer /\ p.link = peer[s].link /\ p.awaiting BY <1>2 DEF Peer
<1>. HIDE DEF p
<1>4. peer' = [peer EXCEPT ![s] = p] BY <1>1, <1>2 DEF p
<1>5. Open(p) => Open(peer[s]) BY <1>3 DEF Open
<1>6. PeersGoOn
  <2>1. pending' \in SessionIds \cup {NoSession} /\ cancelledOrder' \in Seq(SessionIds)
        /\ Len(cancelledOrder') <= MaxCancelled
    BY <1>1, Unpacked
  <2> QED BY <1>3, <1>4, <1>5, <2>1, PeerBecomes
<1> QED BY <1>1, <1>6, PeerWants

\* rememberCancelledSession keeps the newest MaxCancelled.
LEMMA RememberKeeps ==
  ASSUME DInv, NEW s \in SessionIds, Remember(s)
  PROVE  cancelledOrder' \in Seq(SessionIds) /\ Len(cancelledOrder') <= MaxCancelled
<1>1. cancelledOrder \in Seq(SessionIds) /\ Len(cancelledOrder) <= MaxCancelled BY Unpacked
<1>2. MaxCancelled \in Nat /\ MaxCancelled > 0 BY Limits
<1>3. CASE IsCancelled(s) BY <1>1, <1>3 DEF Remember
<1>4. CASE ~IsCancelled(s) /\ Len(cancelledOrder) < MaxCancelled
  <2>1. cancelledOrder' = Append(cancelledOrder, s) BY <1>4 DEF Remember
  <2> QED BY <1>1, <1>2, <1>4, <2>1
<1>5. CASE ~IsCancelled(s) /\ ~(Len(cancelledOrder) < MaxCancelled)
  <2>1. cancelledOrder' = Append(Tail(cancelledOrder), s) BY <1>5 DEF Remember
  <2>2. cancelledOrder # <<>> BY <1>1, <1>2, <1>5
  <2>3. Tail(cancelledOrder) \in Seq(SessionIds) /\ Len(Tail(cancelledOrder)) = Len(cancelledOrder) - 1
    BY <1>1, <2>2
  <2> QED BY <1>1, <1>2, <2>1, <2>3
<1> QED BY <1>3, <1>4, <1>5

LEMMA BrowserKeeps ==
  ASSUME DInv, NEW s \in SessionIds, BrowserCloses(s)
  PROVE  DInv'
<1>1. /\ peer' = [peer EXCEPT ![s] = NoPeer] /\ Remember(s)
      /\ UNCHANGED <<pending, phase, publisher, client, web, source, cachedConfig, watchdog>>
      /\ Forgotten
  BY DEF BrowserCloses, CloseSession, ClosePeer
<1>2. pending' \in SessionIds \cup {NoSession} BY <1>1, Unpacked
<1>3. cancelledOrder' \in Seq(SessionIds) /\ Len(cancelledOrder') <= MaxCancelled BY <1>1, RememberKeeps
<1>4. /\ PeersGoOn /\ \A t \in SessionIds : t # s => peer'[t] = peer[t]
      /\ peer'[s] = NoPeer
  BY <1>1, <1>2, <1>3, Nobody, PeerBecomes
<1>5. \A t \in SessionIds : NeedsKeyFrame(peer'[t]) => NeedsKeyFrame(peer[t]) BY <1>4, Nobody
<1> QED BY <1>1, <1>4, <1>5, PeerGoes

LEMMA ChangesKeep ==
  ASSUME DInv, NEW s \in SessionIds, PeerChanges(s)
  PROVE  DInv'
<1>1. /\ OfferFails(s) \/ TrackAttaches(s) \/ ConnectivityChanges(s) \/ PeerEnds(s)
      /\ UNCHANGED <<phase, publisher, client, web, source, cachedConfig, watchdog>>
      /\ Forgotten
  BY DEF PeerChanges
<1>2. /\ peer[s] \in Peer /\ peer \in [SessionIds -> Peer] /\ pending \in SessionIds \cup {NoSession}
      /\ cancelledOrder \in Seq(SessionIds) /\ Len(cancelledOrder) <= MaxCancelled
  BY Unpacked
<1>3. /\ pending' \in SessionIds \cup {NoSession} /\ UNCHANGED cancelledOrder
  BY <1>1, <1>2 DEF OfferFails, TrackAttaches, ConnectivityChanges, PeerEnds
<1>4. PICK p \in Peer : /\ peer' = [peer EXCEPT ![s] = p]
                        /\ Open(p) => Open(peer[s]) /\ p.awaiting = peer[s].awaiting
                        /\ p.track = "open" /\ ~p.awaiting => p.intact
  <2>1. CASE OfferFails(s) \/ PeerEnds(s)
    <3>1. peer' = [peer EXCEPT ![s] = NoPeer] BY <2>1 DEF OfferFails, PeerEnds, ClosePeer
    <3> QED BY <3>1, Nobody
  <2>2. CASE TrackAttaches(s)
    <3>. DEFINE p == [peer[s] EXCEPT !.track = "attached"]
    <3>1. p \in Peer /\ p.link = peer[s].link /\ p.track = "attached" /\ p.awaiting = peer[s].awaiting
      BY <1>2 DEF Peer
    <3>2. peer' = [peer EXCEPT ![s] = p] BY <1>2, <2>2 DEF TrackAttaches
    <3>. HIDE DEF p
    <3> QED BY <3>1, <3>2 DEF Open
  <2>3. CASE ConnectivityChanges(s)
    <3>. DEFINE l == IF peer[s].link = "connected" THEN "lost" ELSE "connected"
                p == [peer[s] EXCEPT !.link = l]
    <3>1. l \in {"lost", "connected"} OBVIOUS
    <3>2. peer' = [peer EXCEPT ![s] = p] BY <1>2, <2>3 DEF ConnectivityChanges
    <3>. HIDE DEF l
    <3>3. /\ p \in Peer /\ p.track = peer[s].track /\ p.awaiting = peer[s].awaiting
          /\ p.intact = peer[s].intact
      BY <1>2, <3>1 DEF Peer
    <3>. HIDE DEF p
    <3>4. Open(peer[s]) BY <2>3 DEF ConnectivityChanges, Open
    <3>5. p.track = "open" /\ ~p.awaiting => p.intact BY <3>3 DEF DInv, IntactWhenServed
    <3> QED BY <3>2, <3>3, <3>4, <3>5
  <2> QED BY <1>1, <2>1, <2>2, <2>3
<1>5. /\ PeersGoOn /\ \A t \in SessionIds : t # s => peer'[t] = peer[t]
      /\ peer'[s] = p
  BY <1>2, <1>3, <1>4, PeerBecomes
<1>6. NeedsKeyFrame(p) => NeedsKeyFrame(peer[s]) BY <1>4 DEF NeedsKeyFrame
<1>7. \A t \in SessionIds : NeedsKeyFrame(peer'[t]) => NeedsKeyFrame(peer[t]) BY <1>5, <1>6
<1> QED BY <1>1, <1>5, <1>7, PeerGoes

-----------------------------------------------------------------------------
(* The steps of the pump.                                                  *)

LEMMA SessionKeeps ==
  ASSUME DInv, SessionArrives
  PROVE  DInv'
<1>. DEFINE y[c \in Clients] == [client[c] EXCEPT !.intact = FALSE]
            cs == [c \in Clients |-> IF client[c].ws = "in"
                                     THEN MarkAwaiting([client[c] EXCEPT !.intact = FALSE])
                                     ELSE client[c]]
            w == MarkAwaiting(web)
<1>1. /\ phase = "live" /\ source' = "session" /\ cachedConfig' = FALSE /\ peer' = SourceReset
      /\ RequestVideoReset(watchdog, cs, w, ActivePeer)
      /\ UNCHANGED <<pending, cancelledOrder, phase, publisher>>
  BY DEF SessionArrives
<1>2. /\ client \in [Clients -> Client] /\ web \in Waiting /\ peer \in [SessionIds -> Peer]
      /\ pending \in SessionIds \cup {NoSession}
      /\ cancelledOrder \in Seq(SessionIds) /\ Len(cancelledOrder) <= MaxCancelled
  BY Unpacked
<1>3. w \in Waiting /\ w.awaiting BY <1>2, WebMarks
<1>4. ASSUME NEW c \in Clients
      PROVE  cs[c] \in Client /\ (cs[c].ws = "in" => cs[c].awaiting)
  <2>1. client[c] \in Client BY <1>2
  <2>2. [client[c] EXCEPT !.intact = FALSE] \in Client BY <2>1 DEF Client
  <2>3. CASE client[c].ws = "in"
    <3>1. cs[c] = MarkAwaiting([client[c] EXCEPT !.intact = FALSE]) BY <2>3
    <3> QED BY <2>2, <3>1, Marks
  <2>4. CASE client[c].ws # "in" BY <2>1, <2>4
  <2> QED BY <2>3, <2>4
<1>5. cs \in [Clients -> Client] BY <1>4
<1>. HIDE DEF cs, w
<1>6. Kept(cs, w, watchdog) /\ Retried' BY <1>1, <1>3, <1>5, RequestedKeeps
<1>7. ASSUME NEW s \in SessionIds
      PROVE  /\ peer'[s] \in Peer /\ peer'[s].link = peer[s].link
             /\ peer'[s].track = "open" /\ ~peer'[s].awaiting => peer'[s].intact
  <2>1. peer[s] \in Peer BY <1>2
  <2>2. peer'[s] = IF Open(peer[s]) THEN [peer[s] EXCEPT !.awaiting = TRUE, !.intact = FALSE]
                   ELSE peer[s]
    BY <1>1 DEF SourceReset
  <2> QED BY <2>1, <2>2 DEF Peer, DInv, IntactWhenServed
<1>8. peer' \in [SessionIds -> Peer] BY <1>1, <1>7 DEF SourceReset
<1>9. /\ source' \in {"session", "config", "frames"} /\ cachedConfig' \in BOOLEAN /\ ConfigKept'
      /\ pending' \in SessionIds \cup {NoSession}
      /\ cancelledOrder' \in Seq(SessionIds) /\ Len(cancelledOrder') <= MaxCancelled
  BY <1>1, <1>2 DEF ConfigKept
<1>10. /\ \A s \in SessionIds :
            Open(peer'[s]) => Open(peer[s]) \/ (phase = "live" /\ publisher = "ready")
       /\ \A s \in SessionIds : peer'[s].track = "open" /\ ~peer'[s].awaiting => peer'[s].intact
       /\ \A c \in Clients : cs[c].ws = "in" /\ ~cs[c].awaiting => cs[c].intact
       /\ \A s \in SessionIds : phase = "live" /\ NeedsKeyFrame(peer'[s]) => w.awaiting
  BY <1>3, <1>4, <1>7 DEF Open, cs
<1> QED BY <1>1, <1>3, <1>5, <1>6, <1>8, <1>9, <1>10, Asked

LEMMA FrameKeeps ==
  ASSUME DInv, NEW isKey \in BOOLEAN, FrameArrives(isKey)
  PROVE  DInv'
<1>1. PICK out \in [Sending(isKey) -> Outcomes],
           sends \in [{c \in Clients : client[c].ws = "in" /\ (isKey \/ ~client[c].awaiting)}
                        -> Sends] :
       LET after == [s \in SessionIds |->
                       Fed(peer[s], isKey, cachedConfig,
                           IF s \in DOMAIN out THEN out[s] ELSE "taken")]
           taken == {s \in DOMAIN out : out[s] = "taken"}
           cs == [c \in Clients |->
                    SendFrame(client[c], isKey, IF c \in DOMAIN sends THEN sends[c] ELSE "sent")]
           refused == \E s \in DOMAIN out : out[s] = "refused"
           dropped == \E c \in DOMAIN sends : sends[c] = "dropped"
           w == IF Served(isKey, taken, after) THEN KeyFrameAccepted(web)
                ELSE IF refused THEN MarkAwaiting(web) ELSE web
           fresh == [watchdog EXCEPT !.frames = TRUE, !.quiet = 0]
       IN  /\ peer' = after
           /\ IF refused \/ dropped
              THEN RequestVideoReset(fresh, cs, w, ActivePeer')
              ELSE client' = cs /\ web' = w /\ watchdog' = fresh /\ Forgotten
  BY DEF FrameArrives
<1>. DEFINE o(s) == IF s \in DOMAIN out THEN out[s] ELSE "taken"
            after == [s \in SessionIds |-> Fed(peer[s], isKey, cachedConfig, o(s))]
            taken == {s \in DOMAIN out : out[s] = "taken"}
            e(c) == IF c \in DOMAIN sends THEN sends[c] ELSE "sent"
            cs == [c \in Clients |-> SendFrame(client[c], isKey, e(c))]
            refused == \E s \in DOMAIN out : out[s] = "refused"
            dropped == \E c \in DOMAIN sends : sends[c] = "dropped"
            w == IF Served(isKey, taken, after) THEN KeyFrameAccepted(web)
                 ELSE IF refused THEN MarkAwaiting(web) ELSE web
            fresh == [watchdog EXCEPT !.frames = TRUE, !.quiet = 0]
<1>2. /\ peer' = after
      /\ IF refused \/ dropped
         THEN RequestVideoReset(fresh, cs, w, ActivePeer')
         ELSE client' = cs /\ web' = w /\ watchdog' = fresh /\ Forgotten
  BY <1>1
<1>3. /\ phase = "live" /\ source' = "frames" /\ (isKey => source # "session")
      /\ (~isKey => source = "frames")
      /\ UNCHANGED <<pending, cancelledOrder, phase, publisher, cachedConfig>>
  BY DEF FrameArrives
<1>4. /\ client \in [Clients -> Client] /\ web \in Waiting /\ peer \in [SessionIds -> Peer]
      /\ pending \in SessionIds \cup {NoSession} /\ watchdog \in WatchdogType
      /\ cancelledOrder \in Seq(SessionIds) /\ Len(cancelledOrder) <= MaxCancelled
      /\ cachedConfig \in BOOLEAN /\ neglect \in Ages(Interval + Cooldown)
      /\ watchdog.attempt < Cooldown =>
           neglect <= watchdog.attempt /\ neglect <= Cooldown - 1 + watchdog.timer
  BY Unpacked
<1>5. cachedConfig /\ ConfigKept' BY <1>3 DEF DInv, ConfigKept
<1>6. /\ fresh \in WatchdogType /\ fresh.running = watchdog.running
      /\ fresh.attempt = watchdog.attempt /\ fresh.timer = watchdog.timer
  BY <1>4, Limits DEF WatchdogType
<1>7. ASSUME NEW s \in SessionIds
      PROVE  /\ after[s] \in Peer /\ (Open(after[s]) => Open(peer[s]))
             /\ after[s].track = "open" /\ ~after[s].awaiting => after[s].intact
             /\ NeedsKeyFrame(after[s]) => NeedsKeyFrame(peer[s]) \/ refused
  <2>1. o(s) \in Outcomes BY DEF Outcomes
  <2>2. peer[s] \in Peer /\ (peer[s].track = "open" /\ ~peer[s].awaiting => peer[s].intact)
    BY <1>4 DEF DInv, IntactWhenServed
  <2>3. after[s] = Fed(peer[s], isKey, cachedConfig, o(s)) OBVIOUS
  <2>4. o(s) = "refused" => refused OBVIOUS
  <2>5. isKey => cachedConfig BY <1>5
  <2>. HIDE DEF after, o, refused
  <2>. DEFINE f == Fed(peer[s], isKey, cachedConfig, o(s))
  <2>6. /\ f \in Peer /\ (Open(f) => Open(peer[s]))
        /\ f.track = "open" /\ ~f.awaiting => f.intact
        /\ NeedsKeyFrame(f) =>
             \/ NeedsKeyFrame(peer[s])
             \/ o(s) = "refused" /\ peer[s].track = "open" /\ (isKey \/ ~peer[s].awaiting)
    BY ONLY <1>4, <2>1, <2>2, <2>5, isKey \in BOOLEAN, FedKeeps
  <2>. HIDE DEF f
  <2> QED BY <2>3, <2>4, <2>6 DEF f
<1>8. ASSUME NEW c \in Clients
      PROVE  cs[c] \in Client /\ (cs[c].ws = "in" /\ ~cs[c].awaiting => cs[c].intact)
  <2>1. e(c) \in Sends BY DEF Sends
  <2>2. client[c] \in Client /\ (client[c].ws = "in" /\ ~client[c].awaiting => client[c].intact)
    BY <1>4 DEF DInv, IntactWhenServed
  <2>3. cs[c] = SendFrame(client[c], isKey, e(c)) OBVIOUS
  <2>. HIDE DEF cs, e
  <2> QED BY <1>4, <1>5, <2>1, <2>2, <2>3, SendFrameKeeps
<1>9. cs \in [Clients -> Client] BY <1>8
<1>10. after \in [SessionIds -> Peer] BY <1>7
<1>11. w \in Waiting BY <1>4, WebMarks
<1>12. \A s \in SessionIds : NeedsKeyFrame(after[s]) => w.awaiting
  <2>1. SUFFICES ASSUME NEW s \in SessionIds, NeedsKeyFrame(after[s]) PROVE w.awaiting
    OBVIOUS
  <2>2. ~Served(isKey, taken, after) BY <2>1 DEF Served
  <2>3. CASE refused
    <3>1. w = MarkAwaiting(web) BY <2>2, <2>3
    <3> QED BY <1>4, <3>1, WebMarks
  <2>4. CASE ~refused
    <3>1. w = web BY <2>2, <2>4
    <3>2. NeedsKeyFrame(peer[s]) BY <1>7, <2>1, <2>4
    <3> QED BY <1>3, <3>1, <3>2 DEF DInv, PeersAreTracked
  <2> QED BY <2>3, <2>4
<1>. HIDE DEF after, cs, w, fresh, refused, dropped, taken, o, e
<1>13. Kept(cs, w, watchdog) /\ Retried'
  <2>1. CASE refused \/ dropped
    <3>1. RequestVideoReset(fresh, cs, w, ActivePeer') BY <1>2, <2>1
    <3>2. fresh.attempt < Cooldown =>
            neglect <= fresh.attempt /\ neglect <= Cooldown - 1 + fresh.timer
      BY <1>4, <1>6
    <3>3. Kept(cs, w, fresh) /\ Retried' BY <1>4, <1>6, <1>9, <1>11, <3>1, <3>2, VideoResetKeeps
    <3> QED BY <1>6, <3>3 DEF Kept
  <2>2. CASE ~(refused \/ dropped)
    <3>1. client' = cs /\ web' = w /\ watchdog' = fresh /\ Forgotten BY <1>2, <2>2
    <3>2. Retried' /\ neglect' \in Ages(Interval + Cooldown) BY <1>6, <3>1, ForgottenKeeps
    <3> QED BY <1>6, <1>9, <1>11, <3>1, <3>2 DEF Kept
  <2> QED BY <2>1, <2>2
<1>14. /\ source' \in {"session", "config", "frames"} /\ cachedConfig' \in BOOLEAN
       /\ peer' \in [SessionIds -> Peer] /\ pending' \in SessionIds \cup {NoSession}
       /\ cancelledOrder' \in Seq(SessionIds) /\ Len(cancelledOrder') <= MaxCancelled
  BY <1>2, <1>3, <1>4, <1>10
<1>15. /\ \A s \in SessionIds :
            Open(peer'[s]) => Open(peer[s]) \/ (phase = "live" /\ publisher = "ready")
       /\ \A s \in SessionIds : peer'[s].track = "open" /\ ~peer'[s].awaiting => peer'[s].intact
       /\ \A c \in Clients : cs[c].ws = "in" /\ ~cs[c].awaiting => cs[c].intact
       /\ \A s \in SessionIds : phase = "live" /\ NeedsKeyFrame(peer'[s]) => w.awaiting
  BY <1>2, <1>7, <1>8, <1>12
<1> QED BY <1>3, <1>5, <1>9, <1>11, <1>13, <1>14, <1>15, Asked

\* activateContext: the cleanups close the publisher only if it is there.
LEMMA CleanKeeps ==
  ASSUME DInv, CleanUp
  PROVE  DInv'
<1>1. /\ phase' = "clean" /\ watchdog' = [watchdog EXCEPT !.running = FALSE] /\ neglect' = 0
      /\ UNCHANGED <<client, web, source, cachedConfig>>
      /\ IF publisher = "ready"
         THEN publisher' = "closed" /\ ClosePublisher
         ELSE UNCHANGED <<publisher, publisherVars>>
  BY DEF CleanUp
<1>2. watchdog \in WatchdogType /\ peer \in [SessionIds -> Peer] BY Unpacked
<1>3. /\ watchdog' \in WatchdogType /\ ~watchdog'.running
      /\ watchdog'.timer \in Nat /\ watchdog'.attempt \in Nat
  <2>1. watchdog' \in WatchdogType /\ ~watchdog'.running BY <1>1, <1>2 DEF WatchdogType
  <2>. DEFINE d == watchdog'
  <2>. HIDE DEF d
  <2>2. d \in WatchdogType BY <2>1 DEF d
  <2>3. d.timer \in Ages(Interval) /\ d.attempt \in Ages(Cooldown) BY <2>2 DEF WatchdogType
  <2>4. d.timer \in Nat /\ d.attempt \in Nat BY <2>3, Limits DEF Ages
  <2> QED BY <2>1, <2>4 DEF d
<1>4. /\ peer' \in [SessionIds -> Peer] /\ pending' \in SessionIds \cup {NoSession}
      /\ cancelledOrder' \in Seq(SessionIds) /\ Len(cancelledOrder') <= MaxCancelled
      /\ publisher' \in {"none", "opening", "closed"}
      /\ \A s \in SessionIds : ~Open(peer'[s]) /\ (peer'[s] = peer[s] \/ peer'[s] = NoPeer)
  <2>1. CASE publisher = "ready"
    <3>1. /\ publisher' = "closed" /\ pending' = NoSession /\ cancelledOrder' = <<>>
          /\ peer' = [s \in SessionIds |-> NoPeer]
      BY <1>1, <2>1 DEF ClosePublisher
    <3>2. <<>> \in Seq(SessionIds) /\ Len(<<>>) = 0 OBVIOUS
    <3>3. Len(cancelledOrder') <= MaxCancelled /\ cancelledOrder' \in Seq(SessionIds) BY <3>1, <3>2, Limits
    <3> QED BY <3>1, <3>3, Nobody
  <2>2. CASE publisher # "ready"
    <3>1. UNCHANGED <<publisher, peer, pending, cancelledOrder>> BY <1>1, <2>2 DEF publisherVars
    <3> QED BY <2>2, <3>1 DEF DInv, DeliveryTypeOK, PeersAreOwned
  <2> QED BY <2>1, <2>2
<1>5. DeliveryTypeOK' BY <1>1, <1>3, <1>4, Limits DEF DInv, DeliveryTypeOK, WatchdogType
<1>6. ConfigKept' BY <1>1 DEF DInv, ConfigKept
<1>7. Retried' BY <1>1, <1>3, Limits DEF Retried
<1>8. IntactWhenServed' BY <1>1, <1>4, Nobody DEF DInv, IntactWhenServed
<1>9. PeersAreOwned' /\ PeersAreTracked' /\ NothingOutlivesSession'
  BY <1>1, <1>3, <1>4 DEF PeersAreOwned, PeersAreTracked, NothingOutlivesSession
<1> QED BY <1>5, <1>6, <1>7, <1>8, <1>9 DEF DInv

-----------------------------------------------------------------------------
(* The theorems.                                                           *)

LEMMA InitHolds == DeliveryInit => DInv
<1>. SUFFICES ASSUME DeliveryInit PROVE DInv OBVIOUS
<1>1. /\ peer = [s \in SessionIds |-> NoPeer] /\ pending = NoSession /\ cancelledOrder = <<>>
      /\ phase = "live" /\ publisher = "none" /\ client = [c \in Clients |-> NoClient]
      /\ web = [awaiting |-> FALSE, since |-> 0] /\ source = "session" /\ cachedConfig = FALSE
      /\ watchdog = [running |-> TRUE, attempt |-> Cooldown, frames |-> FALSE, quiet |-> 0,
                     timer |-> 0]
      /\ neglect = 0
  BY DEF DeliveryInit, PublisherInit
<1>2. NoClient \in Client /\ NoClient.ws = "out" BY Limits DEF NoClient, Client
<1>3. Cooldown \in Ages(Cooldown) BY Limits DEF Ages
<1>4. watchdog \in WatchdogType BY <1>1, <1>3, Limits DEF WatchdogType
<1>5. web \in Waiting /\ ~web.awaiting BY <1>1, Limits DEF Waiting
<1>6. cancelledOrder \in Seq(SessionIds) /\ Len(cancelledOrder) <= MaxCancelled
  <2>1. <<>> \in Seq(SessionIds) /\ Len(<<>>) = 0 OBVIOUS
  <2> QED BY <1>1, <2>1, Limits
<1>7. peer \in [SessionIds -> Peer] /\ client \in [Clients -> Client]
  BY <1>1, <1>2, Nobody
<1>8. DeliveryTypeOK BY <1>1, <1>4, <1>5, <1>6, <1>7, Limits DEF DeliveryTypeOK, WatchdogType
<1>9. Retried BY <1>1, Limits DEF Retried
<1>10. ConfigKept /\ PeersAreOwned /\ PeersAreTracked /\ NothingOutlivesSession
  BY <1>1, Nobody DEF ConfigKept, PeersAreOwned, PeersAreTracked, NothingOutlivesSession
<1>11. IntactWhenServed BY <1>1, <1>2, Nobody DEF IntactWhenServed
<1> QED BY <1>8, <1>9, <1>10, <1>11 DEF DInv

LEMMA NextKeeps == DInv /\ [DeliveryNext]_framesVars => DInv'
<1>. SUFFICES ASSUME DInv, [DeliveryNext]_framesVars PROVE DInv' OBVIOUS
<1>1. CASE WatchdogTicks BY <1>1, TicksKeep
<1>2. CASE TimePasses BY <1>2, TimeKeeps
<1>3. ASSUME NEW c \in Clients, ClientUpgrades(c) \/ ClientOpens(c) \/ ClientCloses(c)
      PROVE  DInv'
  BY <1>3, UpgradesKeep, OpensKeep, ClosesKeep
<1>4. CASE PublisherRequested \/ PublisherOpened \/ PublisherFails \/ ConfigArrives \/ SessionEnds
  BY <1>4, QuietKeeps
<1>5. ASSUME NEW s \in SessionIds,
             Offer(s) \/ OfferAnswered(s) \/ BrowserCloses(s) \/ TrackReady(s) \/ PeerChanges(s)
      PROVE  DInv'
  BY <1>5, OfferKeeps, AnsweredKeeps, BrowserKeeps, ReadyKeeps, ChangesKeep
<1>6. CASE SessionArrives BY <1>6, SessionKeeps
<1>7. ASSUME NEW isKey \in BOOLEAN, FrameArrives(isKey) PROVE DInv' BY <1>7, FrameKeeps
<1>8. CASE CleanUp BY <1>8, CleanKeeps
<1>9. CASE UNCHANGED framesVars
  BY <1>9 DEF framesVars, publisherVars, deliveryVars, DInv, DeliveryTypeOK, ConfigKept, PeersAreOwned,
     Retried, Overdue, ActivePeer, IntactWhenServed, PeersAreTracked, NothingOutlivesSession
<1> QED BY <1>1, <1>2, <1>3, <1>4, <1>5, <1>6, <1>7, <1>8, <1>9 DEF DeliveryNext

(* The delivery never leaves the states the inductive invariant describes. *)
THEOREM DeliveryInvariance == DeliverySpec => []DInv
BY InitHolds, NextKeeps, PTL DEF DeliverySpec

(* The state of the peers, the clients and the watchdog keeps its shape; no *)
(* more closed WebRTC sessions are remembered than MaxCancelled.            *)
THEOREM DeliveryTypeCorrect == DeliverySpec => []DeliveryTypeOK
<1>1. DInv => DeliveryTypeOK BY DEF DInv
<1> QED BY <1>1, DeliveryInvariance, PTL

(* Whoever is not waiting for a key frame has received one with its config  *)
(* and every frame since: no client or peer is handed frames it cannot      *)
(* decode, however drops, restarts of the encoder and late tracks meet.     *)
THEOREM Intact == DeliverySpec => []IntactWhenServed
<1>1. DInv => IntactWhenServed BY DEF DInv
<1> QED BY <1>1, DeliveryInvariance, PTL

(* An overdue client is never without an attempt to reset the encoder for   *)
(* as long as an interval of the watchdog and a cooldown together, whatever *)
(* the periods are.                                                         *)
THEOREM Retries == DeliverySpec => []AwaitingIsRetried
<1>1. DInv => AwaitingIsRetried
  <2>. SUFFICES ASSUME DInv PROVE AwaitingIsRetried OBVIOUS
  <2>1. neglect <= Cooldown - 1 + watchdog.timer BY DEF DInv, Retried
  <2>2. neglect \in Nat /\ watchdog \in WatchdogType BY Unpacked
  <2>3. watchdog.timer \in Ages(Interval) BY <2>2 DEF WatchdogType
  <2>. DEFINE t == watchdog.timer
  <2>. HIDE DEF t
  <2>4. t \in Nat /\ t <= Interval /\ neglect <= Cooldown - 1 + t
    BY <2>1, <2>3, Limits DEF Ages, t
  <2> QED BY <2>2, <2>4, Limits DEF AwaitingIsRetried
<1> QED BY <1>1, DeliveryInvariance, PTL

(* The recovery state all peers share is only cleared when none of them     *)
(* needs a key frame any more.                                              *)
THEOREM Tracked == DeliverySpec => []PeersAreTracked
<1>1. DInv => PeersAreTracked BY DEF DInv
<1> QED BY <1>1, DeliveryInvariance, PTL

(* After the cleanups of a session there is no publisher to use, no peer    *)
(* and no watchdog, even if the publisher was still being opened.           *)
THEOREM NothingSurvives == DeliverySpec => []NothingOutlivesSession
<1>1. DInv => NothingOutlivesSession BY DEF DInv
<1> QED BY <1>1, DeliveryInvariance, PTL
=============================================================================

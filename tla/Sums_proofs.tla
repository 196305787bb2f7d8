------------------------------ MODULE Sums_proofs ------------------------------
(***************************************************************************)
(* What the sums of Sums come to. It follows from the partial sums, of     *)
(* which there is exactly one function: shown with the least number for    *)
(* which it fails.                                                         *)
(***************************************************************************)
EXTENDS Sums, NaturalsInduction, WellFoundedInduction, TLAPS

\* A set of natural numbers that is not empty has a least element.
LEMMA Least ==
  ASSUME NEW T, T \subseteq Nat, T # {}
  PROVE  \E m \in T : \A n \in T : m <= n
<1>. DEFINE R == OpToRel(<, Nat)
<1>1. IsWellFoundedOn(R, Nat) BY NatLessThanWellFounded
<1>2. \A x, y \in Nat : <<y, x>> \in R <=> y < x BY DEF OpToRel
<1>. HIDE DEF R
<1>3. PICK m \in T : \A y \in T : ~(<<y, m>> \in R) BY <1>1, WFMin
<1>4. ASSUME NEW n \in T PROVE m <= n
  <2>1. m \in Nat /\ n \in Nat OBVIOUS
  <2>2. ~(<<n, m>> \in R) BY <1>3
  <2>3. ~(n < m) BY <1>2, <2>1, <2>2
  <2> QED BY <2>1, <2>3
<1> QED BY <1>4

\* f is the partial sums of the counts w, up to the first n of them.
Sums(f, w, n) ==
  f = [i \in 0 .. n |-> IF i = 0 THEN 0 ELSE f[i - 1] + w[i]]

LEMMA SumsExist ==
  ASSUME NEW w, w \in Seq(Nat)
  PROVE  \A n \in 0 .. Len(w) : \E f \in [0 .. n -> Nat] : Sums(f, w, n)
<1>. DEFINE T == {n \in 0 .. Len(w) : ~\E f \in [0 .. n -> Nat] : Sums(f, w, n)}
<1>0. Len(w) \in Nat OBVIOUS
<1>1. SUFFICES ASSUME T # {} PROVE FALSE OBVIOUS
<1>2. PICK m \in T : \A n \in T : m <= n
  <2>1. T \subseteq Nat BY <1>0
  <2>. HIDE DEF T
  <2> QED BY <1>1, <2>1, Least
<1>3. m \in 0 .. Len(w) /\ m \in Nat BY <1>0
<1>4. CASE m = 0
  <2>. DEFINE f == [i \in 0 .. 0 |-> 0]
  <2>1. f \in [0 .. 0 -> Nat] OBVIOUS
  <2>2. f = [i \in 0 .. 0 |-> IF i = 0 THEN 0 ELSE f[i - 1] + w[i]] OBVIOUS
  <2>3. Sums(f, w, m) BY <1>4, <2>2 DEF Sums
  <2> QED BY <1>4, <2>1, <2>3
<1>5. CASE m > 0
  <2>1. m - 1 \in 0 .. Len(w) /\ m - 1 < m BY <1>3, <1>0, <1>5
  <2>2. m - 1 \notin T
    <3>. HIDE DEF T
    <3>1. ~(m <= m - 1) BY <1>3
    <3> QED BY <1>2, <3>1
  <2>3. PICK g \in [0 .. m - 1 -> Nat] : Sums(g, w, m - 1) BY <2>1, <2>2
  <2>4. w[m] \in Nat BY <1>3, <1>0, <1>5
  <2>. DEFINE f == [i \in 0 .. m |-> IF i = m THEN g[m - 1] + w[m] ELSE g[i]]
  <2>5. \A i \in 0 .. m - 1 : i \in 0 .. m /\ i # m /\ f[i] = g[i] BY <1>3
  <2>6. f \in [0 .. m -> Nat]
    <3>1. \A i \in 0 .. m : i = m \/ i \in 0 .. m - 1 BY <1>3, <1>5
    <3>2. g[m - 1] \in Nat BY <1>3, <1>5
    <3> QED BY <1>3, <2>4, <2>5, <3>1, <3>2
  <2>7. ASSUME NEW i \in 0 .. m PROVE f[i] = IF i = 0 THEN 0 ELSE f[i - 1] + w[i]
    <3>1. CASE i = m
      <4>1. m - 1 \in 0 .. m - 1 BY <1>3, <1>5
      <4> QED BY <1>5, <2>5, <3>1, <4>1
    <3>2. CASE i # m
      <4>1. i \in 0 .. m - 1 /\ (i # 0 => i - 1 \in 0 .. m - 1) BY <1>3, <3>2
      <4>2. g[i] = IF i = 0 THEN 0 ELSE g[i - 1] + w[i] BY <2>3, <4>1 DEF Sums
      <4> QED BY <2>5, <4>1, <4>2
    <3> QED BY <3>1, <3>2
  <2>8. Sums(f, w, m)
    <3>1. DOMAIN f = 0 .. m OBVIOUS
    <3>. HIDE DEF f
    <3>2. f = [i \in 0 .. m |-> f[i]] BY <2>6
    <3> QED BY <2>7, <3>2 DEF Sums
  <2>. HIDE DEF f
  <2> QED BY <2>6, <2>8
<1> QED BY <1>3, <1>4, <1>5

LEMMA SumsAreUnique ==
  ASSUME NEW w, w \in Seq(Nat), NEW f, NEW g,
         NEW n \in 0 .. Len(w), Sums(f, w, n), Sums(g, w, n)
  PROVE  f = g
<1>. DEFINE T == {i \in 0 .. n : f[i] # g[i]}
<1>0. Len(w) \in Nat /\ n \in Nat OBVIOUS
<1>1. T = {}
  <2>1. SUFFICES ASSUME T # {} PROVE FALSE OBVIOUS
  <2>2. PICK m \in T : \A i \in T : m <= i
    <3>1. T \subseteq Nat BY <1>0
    <3>. HIDE DEF T
    <3> QED BY <2>1, <3>1, Least
  <2>3. m \in 0 .. n /\ m \in Nat BY <1>0
  <2>4. /\ f[m] = IF m = 0 THEN 0 ELSE f[m - 1] + w[m]
        /\ g[m] = IF m = 0 THEN 0 ELSE g[m - 1] + w[m]
    BY <2>3 DEF Sums
  <2>5. m # 0 /\ m - 1 \in 0 .. n /\ m - 1 < m BY <2>3, <2>4, <1>0
  <2>6. f[m - 1] = g[m - 1] BY <2>2, <2>3, <2>5
  <2> QED BY <2>4, <2>5, <2>6
<1>2. \A i \in 0 .. n : f[i] = g[i] BY <1>1
<1>3. f = [i \in 0 .. n |-> f[i]] /\ g = [i \in 0 .. n |-> g[i]] BY DEF Sums
<1> QED BY <1>2, <1>3

\* The sums of counts are the one function that Sums describes.
LEMMA SumsKnown ==
  ASSUME NEW w, w \in Seq(Nat)
  PROVE  /\ Sums(SumsOf(w), w, Len(w)) /\ SumsOf(w) \in [0 .. Len(w) -> Nat]
         /\ Total(w) \in Nat
<1>0. Len(w) \in Nat OBVIOUS
<1>. DEFINE n == Len(w)
            sums == CHOOSE f : f = [i \in 0 .. n |-> IF i = 0 THEN 0 ELSE f[i - 1] + w[i]]
<1>1. PICK f \in [0 .. n -> Nat] : Sums(f, w, n) BY <1>0, SumsExist
<1>2. sums = [i \in 0 .. n |-> IF i = 0 THEN 0 ELSE sums[i - 1] + w[i]] BY <1>1 DEF Sums
<1>3. SumsOf(w) = sums BY DEF SumsOf
<1>. HIDE DEF sums
<1>4. Sums(SumsOf(w), w, n) BY <1>2, <1>3 DEF Sums
<1>5. SumsOf(w) = f BY <1>0, <1>1, <1>4, SumsAreUnique
<1>6. SumsOf(w)[n] \in Nat BY <1>0, <1>1, <1>5
<1> QED BY <1>1, <1>4, <1>5, <1>6 DEF Total

LEMMA SumOfNone == Total(<<>>) = 0
<1>1. <<>> \in Seq(Nat) /\ Len(<<>>) = 0 OBVIOUS
<1>2. Sums(SumsOf(<<>>), <<>>, 0) BY <1>1, SumsKnown
<1>3. 0 \in 0 .. 0 OBVIOUS
<1>. DEFINE f == SumsOf(<<>>)
<1>. HIDE DEF f
<1>4. f = [i \in 0 .. 0 |-> IF i = 0 THEN 0 ELSE f[i - 1] + (<<>>)[i]] BY <1>2 DEF Sums, f
<1>5. f[0] = 0 BY <1>3, <1>4
<1> QED BY <1>1, <1>5 DEF Total, f

\* The first count adds to the sum of the rest.
LEMMA SumFromHead ==
  ASSUME NEW w, w \in Seq(Nat), w # <<>>
  PROVE  Total(w) = w[1] + Total(Tail(w))
<1>. DEFINE n == Len(w)
            s == SumsOf(w)
            v == Tail(w)
            f == [i \in 0 .. n - 1 |-> s[i + 1] - w[1]]
<1>1. /\ n \in Nat /\ n > 0 /\ v \in Seq(Nat) /\ Len(v) = n - 1 /\ w[1] \in Nat
      /\ \A i \in 1 .. n - 1 : v[i] = w[i + 1]
  OBVIOUS
<1>2. Sums(s, w, n) /\ s \in [0 .. n -> Nat] BY SumsKnown
<1>. HIDE DEF s, v, n
<1>3. ASSUME NEW i \in 0 .. n PROVE s[i] = IF i = 0 THEN 0 ELSE s[i - 1] + w[i]
  BY <1>2 DEF Sums
<1>4. s[0] = 0 /\ s[1] = w[1]
  <2>1. 0 \in 0 .. n /\ 1 \in 0 .. n BY <1>1
  <2>2. s[0] = 0 BY <1>3, <2>1
  <2>3. s[1] = s[1 - 1] + w[1] BY <1>3, <2>1
  <2> QED BY <1>1, <2>2, <2>3
<1>5. ASSUME NEW i \in 0 .. n - 1 PROVE f[i] = IF i = 0 THEN 0 ELSE f[i - 1] + v[i]
  <2>1. CASE i = 0 BY <1>1, <1>4, <2>1
  <2>2. CASE i # 0
    <3>1. i \in 1 .. n - 1 /\ i - 1 \in 0 .. n - 1 /\ i + 1 \in 0 .. n /\ i + 1 # 0 /\ i \in 0 .. n
          /\ (i + 1) - 1 = i /\ (i - 1) + 1 = i
      BY <1>1, <2>2
    <3>2. s[i + 1] = s[i] + w[i + 1] BY <1>3, <3>1
    <3>3. s[i] \in Nat /\ w[i + 1] \in Nat
      <4>1. i + 1 \in 1 .. n BY <1>1, <3>1
      <4> QED BY <1>2, <3>1, <4>1 DEF n
    <3>4. f[i] = s[i + 1] - w[1] /\ f[i - 1] = s[i] - w[1] BY <3>1
    <3>5. v[i] = w[i + 1] BY <1>1, <3>1
    <3>. HIDE DEF f
    <3>. DEFINE a == s[i]  b == w[i + 1]  c == w[1]
    <3>6. a \in Nat /\ b \in Nat /\ c \in Nat BY <1>1, <3>3
    <3>7. f[i] = (a + b) - c /\ f[i - 1] + v[i] = (a - c) + b BY <3>2, <3>4, <3>5
    <3>. HIDE DEF a, b, c
    <3>8. (a + b) - c = (a - c) + b BY <3>6
    <3> QED BY <2>2, <3>7, <3>8
  <2> QED BY <2>1, <2>2
<1>6. Sums(f, v, n - 1)
  <2>1. f = [i \in 0 .. n - 1 |-> f[i]] OBVIOUS
  <2>. HIDE DEF f
  <2> QED BY <1>5, <2>1 DEF Sums
<1>7. Sums(SumsOf(v), v, n - 1) BY <1>1, SumsKnown
<1>8. f = SumsOf(v)
  <2>1. n - 1 \in 0 .. Len(v) BY <1>1
  <2>. HIDE DEF f
  <2> QED BY <1>1, <1>6, <1>7, <2>1, SumsAreUnique
<1>9. Total(v) = f[n - 1] BY <1>1, <1>8 DEF Total
<1>10. f[n - 1] = s[n] - w[1]
  <2>1. n - 1 \in 0 .. n - 1 /\ (n - 1) + 1 = n BY <1>1
  <2> QED BY <2>1
<1>11. Total(w) = s[n] /\ s[n] \in Nat
  <2>1. n \in 0 .. n BY <1>1
  <2> QED BY <1>2, <2>1 DEF Total, s, n
<1>. HIDE DEF f
<1>12. Total(w) = w[1] + Total(v) BY <1>1, <1>9, <1>10, <1>11
<1> QED BY <1>12 DEF v

\* A count at the end adds to the sum of those before, whatever was there.
LEMMA SumToLast ==
  ASSUME NEW w, w \in Seq(Nat), NEW v, v \in Seq(Nat), Len(v) = Len(w) + 1,
         \A i \in 1 .. Len(w) : v[i] = w[i]
  PROVE  Total(v) = Total(w) + v[Len(v)]
<1>. DEFINE n == Len(w)
            s == SumsOf(w)
            t == SumsOf(v)
            f == [i \in 0 .. n |-> t[i]]
<1>1. n \in Nat /\ Len(v) = n + 1 /\ v[n + 1] \in Nat OBVIOUS
<1>2. Sums(s, w, n) /\ Sums(t, v, n + 1) /\ t \in [0 .. n + 1 -> Nat] BY <1>1, SumsKnown
<1>. HIDE DEF s, t, n
<1>3. ASSUME NEW i \in 0 .. n + 1 PROVE t[i] = IF i = 0 THEN 0 ELSE t[i - 1] + v[i]
  BY <1>2 DEF Sums
<1>4. ASSUME NEW i \in 0 .. n PROVE f[i] = IF i = 0 THEN 0 ELSE f[i - 1] + w[i]
  <2>1. i \in 0 .. n + 1 BY <1>1
  <2>2. t[i] = IF i = 0 THEN 0 ELSE t[i - 1] + v[i] BY <1>3, <2>1
  <2>3. i # 0 => i - 1 \in 0 .. n /\ i \in 1 .. n BY <1>1
  <2>4. i # 0 => v[i] = w[i] BY <2>3 DEF n
  <2> QED BY <2>2, <2>3, <2>4
<1>5. Sums(f, w, n)
  <2>1. f = [i \in 0 .. n |-> f[i]] OBVIOUS
  <2>. HIDE DEF f
  <2> QED BY <1>4, <2>1 DEF Sums
<1>6. f = s
  <2>1. n \in 0 .. Len(w) BY <1>1 DEF n
  <2>. HIDE DEF f
  <2> QED BY <1>2, <1>5, <2>1, SumsAreUnique
<1>7. Total(w) = t[n]
  <2>1. n \in 0 .. n BY <1>1
  <2>2. f[n] = t[n] BY <2>1
  <2>. HIDE DEF f
  <2>3. Total(w) = s[n] BY DEF Total, s, n
  <2> QED BY <1>6, <2>2, <2>3
<1>8. Total(v) = t[n + 1] BY <1>1 DEF Total, t
<1>9. t[n + 1] = t[n] + v[n + 1]
  <2>1. n + 1 \in 0 .. n + 1 /\ n + 1 # 0 /\ (n + 1) - 1 = n BY <1>1
  <2> QED BY <1>3, <2>1
<1> QED BY <1>1, <1>7, <1>8, <1>9
=============================================================================

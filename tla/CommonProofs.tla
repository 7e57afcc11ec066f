---------------------------- MODULE CommonProofs ----------------------------
(* What the proofs about the components share: induction over the natural    *)
(* numbers as a fact about sets, so that it can be used for any property by   *)
(* the set of the numbers that have it; and what the operators of Common      *)
(* return, the running sums of a list and the rows of a set in their order.   *)
EXTENDS Common, SequencesExt, FiniteSetTheorems, WellFoundedInduction, TLAPS

-----------------------------------------------------------------------------
(* Induction                                                                 *)

\* A set of natural numbers has a least one.
LEMMA LeastNatural ==
  ASSUME NEW T, T \subseteq Nat, T # {}
  PROVE  \E n \in T : \A m \in T : n <= m
<1>1. PICK R : R = {ss \in Nat \X Nat : ss[1] < ss[2]}
  OBVIOUS
<1>2. IsWellFoundedOn(R, Nat)
  BY <1>1, NatLessThanWellFounded DEF OpToRel
<1>3. PICK n \in T : \A m \in T : ~(<<m, n>> \in R)
  BY <1>2, WFMin
<1>4. \A m \in T : ~(m < n)
  BY <1>1, <1>3
<1>5. QED
  BY <1>4

\* What has 0, and the successor of each of its numbers up to a bound, has all.
LEMMA SetInduction ==
  ASSUME NEW S, NEW last \in Nat, 0 \in S, \A n \in 1 .. last : n - 1 \in S => n \in S
  PROVE  \A n \in 0 .. last : n \in S
<1>1. SUFFICES ASSUME NEW x \in 0 .. last, x \notin S
               PROVE  FALSE
  OBVIOUS
<1>2. PICK T : T = {n \in 0 .. last : n \notin S}
  OBVIOUS
<1>3. T \subseteq Nat /\ T # {}
  BY <1>1, <1>2
<1>4. PICK n \in T : \A m \in T : n <= m
  BY <1>3, LeastNatural
<1>5. n \in 1 .. last /\ n \notin S
  BY <1>2, <1>4
<1>6. n - 1 \in S
  BY <1>2, <1>4, <1>5
<1>7. QED
  BY <1>5, <1>6

\* A function between sets that reaches everyone once.
LEMMA SameNumber ==
  ASSUME NEW S, NEW T, IsFiniteSet(S), NEW f \in [S -> T],
         \A x, y \in S : f[x] = f[y] => x = y, \A z \in T : \E x \in S : f[x] = z
  PROVE  IsFiniteSet(T) /\ Cardinality(T) = Cardinality(S)
<1>1. f \in Bijection(S, T)
  BY DEF Bijection, Injection, IsInjective, Surjection
<1>2. ExistsBijection(S, T)
  BY <1>1 DEF ExistsBijection
<1>3. QED
  BY <1>2, FS_Bijection

-----------------------------------------------------------------------------
(* Folds                                                                     *)

FoldOf(V, base, last, step, at) ==
  at \in [0 .. last -> V] /\ at[0] = base /\ \A n \in 1 .. last : at[n] = step[<<n, at[n - 1]>>]
\* A fold along 1 .. last that stays within a set has its running values.
LEMMA FoldExists ==
  ASSUME NEW V, NEW base \in V, NEW last \in Nat, NEW step \in [(1 .. last) \X V -> V]
  PROVE  \E at : FoldOf(V, base, last, step, at)
<1> DEFINE Holds(m, at) == at[0] = base /\ \A n \in 1 .. m : at[n] = step[<<n, at[n - 1]>>]
<1>1. PICK S : S = {m \in 0 .. last : \E at \in [0 .. m -> V] : Holds(m, at)}
  OBVIOUS
<1>2. 0 \in S
  <2>1. PICK at : at = [n \in 0 .. 0 |-> base]
    OBVIOUS
  <2>2. at \in [0 .. 0 -> V] /\ Holds(0, at)
    BY <2>1
  <2>3. QED
    BY <1>1, <2>2
<1>3. ASSUME NEW m \in 1 .. last, m - 1 \in S
      PROVE  m \in S
  <2>1. PICK at \in [0 .. m - 1 -> V] : Holds(m - 1, at)
    BY <1>1, <1>3
  <2>2. PICK next : next = [n \in 0 .. m |-> IF n = m THEN step[<<m, at[m - 1]>>] ELSE at[n]]
    OBVIOUS
  <2>3. \A n \in 0 .. m - 1 : next[n] = at[n] /\ at[n] \in V
    BY <2>2
  <2>4. next[m] = step[<<m, at[m - 1]>>] /\ next[m] \in V
    BY <2>2, <2>3
  <2>5. next \in [0 .. m -> V]
    BY <2>2, <2>3, <2>4
  <2>6. Holds(m, next)
    <3>1. next[0] = base
      BY <2>1, <2>3
    <3>2. ASSUME NEW n \in 1 .. m
          PROVE  next[n] = step[<<n, next[n - 1]>>]
      <4>1. CASE n = m
        BY <2>3, <2>4, <4>1
      <4>2. CASE n # m
        <5>1. n \in 1 .. m - 1 /\ n \in 0 .. m - 1 /\ n - 1 \in 0 .. m - 1
          BY <4>2
        <5>2. QED
          BY <2>1, <2>3, <5>1
      <4>3. QED
        BY <4>1, <4>2
    <3>3. QED
      BY <3>1, <3>2
  <2>7. QED
    BY <1>1, <2>5, <2>6
<1>4. last \in S
  BY <1>2, <1>3, SetInduction
<1>5. QED
  BY <1>1, <1>4 DEF FoldOf

-----------------------------------------------------------------------------
(* Lists                                                                     *)

LEMMA AppendTyped ==
  ASSUME NEW D, NEW s \in Seq(D), NEW e \in D
  PROVE  /\ Append(s, e) \in Seq(D) /\ Len(Append(s, e)) = Len(s) + 1 /\ Append(s, e)[Len(s) + 1] = e
         /\ \A n \in 1 .. Len(s) : Append(s, e)[n] = s[n]
OBVIOUS
LEMMA ConcatTyped ==
  ASSUME NEW D, NEW s \in Seq(D), NEW t \in Seq(D)
  PROVE  /\ s \o t \in Seq(D) /\ Len(s \o t) = Len(s) + Len(t)
         /\ \A n \in 1 .. Len(s) : (s \o t)[n] = s[n]
         /\ \A n \in 1 .. Len(t) : (s \o t)[Len(s) + n] = t[n]
OBVIOUS
LEMMA PartTyped ==
  ASSUME NEW D, NEW s \in Seq(D), NEW a \in Nat \ {0}, NEW b \in Nat, a <= b + 1, b <= Len(s)
  PROVE  /\ SubSeq(s, a, b) \in Seq(D) /\ Len(SubSeq(s, a, b)) = b - a + 1
         /\ \A n \in 1 .. b - a + 1 : SubSeq(s, a, b)[n] = s[a + n - 1]
OBVIOUS
LEMMA ItemTyped ==
  ASSUME NEW D, NEW s \in Seq(D), NEW i \in 1 .. Len(s)
  PROVE  s[i] \in D
  OBVIOUS
LEMMA SameList ==
  ASSUME NEW D, NEW E, NEW s \in Seq(D), NEW t \in Seq(E), Len(s) = Len(t), \A n \in 1 .. Len(s) : s[n] = t[n]
  PROVE  s = t
  OBVIOUS
LEMMA WiderTyped ==
  ASSUME NEW D, NEW E, D \subseteq E, NEW s \in Seq(D)
  PROVE  s \in Seq(E)
OBVIOUS
LEMMA EmptyTyped == \A D : <<>> \in Seq(D) /\ Len(<<>>) = 0 /\ \A s \in Seq(D) : Len(s) = 0 <=> s = <<>>
OBVIOUS

\* FlattenSeq goes from list to list.
Flattens(seqs, last, f) == f = [i \in 1 .. last |-> IF i = 1 THEN seqs[i] ELSE f[i - 1] \o seqs[i]]
LEMMA FlattenIs ==
  ASSUME NEW D, NEW seqs \in Seq(Seq(D)), Len(seqs) # 0
  PROVE  \E f \in [1 .. Len(seqs) -> Seq(D)] :
           /\ FlattenSeq(seqs) = f[Len(seqs)] /\ f[1] = seqs[1]
           /\ \A i \in 2 .. Len(seqs) : f[i] = f[i - 1] \o seqs[i]
<1>1. PICK last \in Nat \ {0} : last = Len(seqs)
  OBVIOUS
<1>2. PICK V : V = Seq(D)
  OBVIOUS
<1>3. \A i \in 1 .. last : seqs[i] \in V
  BY <1>1, <1>2
<1>4. \A s, r \in V : s \o r \in V
  BY <1>2, ConcatTyped
<1>5. <<>> \in V /\ \A s \in V : <<>> \o s = s
  BY <1>2, EmptyTyped
<1>6. PICK step : step = [x \in (1 .. last) \X V |-> x[2] \o seqs[x[1]]]
  OBVIOUS
<1>7. \A i \in 1 .. last, s \in V : step[<<i, s>>] = s \o seqs[i] /\ s \o seqs[i] \in V
  BY <1>3, <1>4, <1>6
<1>8. step \in [(1 .. last) \X V -> V]
  BY <1>6, <1>7
<1>9. PICK at : FoldOf(V, <<>>, last, step, at)
  BY <1>5, <1>8, FoldExists
<1>10. ASSUME NEW i \in 1 .. last
       PROVE  at[i] = at[i - 1] \o seqs[i] /\ at[i] \in V
  <2>1. i - 1 \in 0 .. last /\ i \in 0 .. last
    OBVIOUS
  <2>2. at \in [0 .. last -> V] /\ at[i] = step[<<i, at[i - 1]>>]
    BY <1>9 DEF FoldOf
  <2>3. at[i - 1] \in V /\ at[i] \in V
    BY <2>1, <2>2
  <2>4. QED
    BY <1>7, <2>2, <2>3
<1>11. at[1] = seqs[1]
  <2>1. at[0] = <<>> /\ 1 \in 1 .. last /\ 1 - 1 = 0
    BY <1>9 DEF FoldOf
  <2>2. at[1] = at[0] \o seqs[1]
    BY <1>10, <2>1
  <2>3. QED
    BY <1>3, <1>5, <2>1, <2>2
<1>12. PICK g : g = [i \in 1 .. last |-> at[i]]
  OBVIOUS
<1>13. ASSUME NEW i \in 1 .. last
       PROVE  g[i] = IF i = 1 THEN seqs[i] ELSE g[i - 1] \o seqs[i]
  <2>1. CASE i = 1
    BY <1>11, <1>12, <2>1
  <2>2. CASE i # 1
    <3>1. i - 1 \in 1 .. last
      BY <2>2
    <3>2. QED
      BY <1>10, <1>12, <2>2, <3>1
  <2>3. QED
    BY <2>1, <2>2
<1>14. Flattens(seqs, last, g)
  BY <1>12, <1>13 DEF Flattens
<1>15. PICK f : f = CHOOSE h : Flattens(seqs, last, h)
  OBVIOUS
<1>16. Flattens(seqs, last, f)
  BY <1>14, <1>15
<1>17. FlattenSeq(seqs) = f[last]
  BY <1>1, <1>15 DEF FlattenSeq, Flattens
<1>18. f[1] = seqs[1] /\ \A i \in 2 .. last : f[i] = f[i - 1] \o seqs[i]
  <2>1. \A i \in 1 .. last : f[i] = IF i = 1 THEN seqs[i] ELSE f[i - 1] \o seqs[i]
    BY <1>16, Zenon DEF Flattens
  <2>2. 1 \in 1 .. last /\ \A i \in 2 .. last : i \in 1 .. last /\ i # 1
    OBVIOUS
  <2>3. QED
    BY <2>1, <2>2
<1>19. PICK S : S = {n \in 0 .. last : n # 0 => f[n] \in V}
  OBVIOUS
<1>20. 0 \in S
  BY <1>19
<1>21. ASSUME NEW n \in 1 .. last, n - 1 \in S
       PROVE  n \in S
  <2>1. CASE n = 1
    <3>1. f[n] \in V
      BY <1>3, <1>18, <2>1
    <3>2. QED
      BY <1>19, <3>1
  <2>2. CASE n # 1
    <3>1. n - 1 # 0 /\ n \in 2 .. last
      BY <2>2
    <3>2. f[n - 1] \in V
      BY <1>19, <1>21, <3>1
    <3>3. f[n] \in V
      BY <1>3, <1>4, <1>18, <3>1, <3>2
    <3>4. QED
      BY <1>19, <3>3
  <2>3. QED
    BY <2>1, <2>2
<1>22. \A n \in 0 .. last : n \in S
  BY <1>20, <1>21, SetInduction
<1>23. f \in [1 .. last -> V]
  <2>1. f = [i \in 1 .. last |-> f[i]]
    BY <1>16 DEF Flattens
  <2>2. \A i \in 1 .. last : f[i] \in V
    BY <1>19, <1>22
  <2>3. QED
    BY <2>1, <2>2
<1>24. QED
  BY <1>1, <1>2, <1>17, <1>18, <1>23

LEMMA FlattenTyped ==
  ASSUME NEW D, NEW seqs \in Seq(Seq(D))
  PROVE  FlattenSeq(seqs) \in Seq(D)
<1>1. CASE Len(seqs) = 0
  <2>1. seqs = <<>> /\ FlattenSeq(seqs) = seqs
    BY <1>1, EmptyTyped DEF FlattenSeq
  <2>2. QED
    BY <2>1, EmptyTyped
<1>2. CASE Len(seqs) # 0
  <2>1. PICK f \in [1 .. Len(seqs) -> Seq(D)] : FlattenSeq(seqs) = f[Len(seqs)]
    BY <1>2, FlattenIs
  <2>2. Len(seqs) \in 1 .. Len(seqs)
    BY <1>2
  <2>3. QED
    BY <2>1, <2>2
<1>3. QED
  BY <1>1, <1>2

LEMMA FlattenSingles ==
  ASSUME NEW D, NEW s \in Seq(D)
  PROVE  FlattenSeq([n \in DOMAIN s |-> <<s[n]>>]) = s
<1>1. PICK N \in Nat : N = Len(s) /\ DOMAIN s = 1 .. N
  OBVIOUS
<1>2. PICK seqs : seqs = [n \in DOMAIN s |-> <<s[n]>>]
  OBVIOUS
<1>3. \A n \in 1 .. N : s[n] \in D /\ seqs[n] = <<s[n]>> /\ <<s[n]>> \in Seq(D)
  BY <1>1, <1>2
<1>4. seqs \in Seq(Seq(D)) /\ Len(seqs) = N
  BY <1>1, <1>2, <1>3
<1>5. CASE N = 0
  <2>1. seqs = <<>> /\ s = <<>>
    BY <1>1, <1>4, <1>5, EmptyTyped
  <2>2. QED
    BY <1>2, <1>4, <1>5, <2>1 DEF FlattenSeq
<1>6. CASE N # 0
  <2>1. PICK f \in [1 .. N -> Seq(D)] :
          FlattenSeq(seqs) = f[N] /\ f[1] = seqs[1] /\ \A i \in 2 .. N : f[i] = f[i - 1] \o seqs[i]
    BY <1>4, <1>6, FlattenIs
  <2> DEFINE Same(n) == Len(f[n]) = n /\ \A i \in 1 .. n : f[n][i] = s[i]
  <2> HIDE DEF Same
  <2>2. PICK S : S = {n \in 0 .. N : n # 0 => Same(n)}
    OBVIOUS
  <2>3. 0 \in S
    BY <2>2
  <2>4. ASSUME NEW n \in 1 .. N, n - 1 \in S
        PROVE  n \in S
    <3>1. CASE n = 1
      <4>1. Len(f[n]) = 1 /\ f[n][1] = s[1]
        <5>1. f[n] = <<s[1]>>
          BY <1>3, <2>1, <3>1
        <5>2. QED
          BY <5>1
      <4>2. Same(n)
        BY <3>1, <4>1 DEF Same
      <4>3. QED
        BY <2>2, <4>2
    <3>2. CASE n # 1
      <4>1. n \in 2 .. N /\ n - 1 \in 1 .. N
        BY <3>2
      <4>2. PICK old \in Seq(D) : old = f[n - 1]
        BY <2>1, <4>1
      <4>3. Len(old) = n - 1 /\ \A i \in 1 .. n - 1 : old[i] = s[i]
        <5>1. Same(n - 1)
          BY <2>2, <2>4, <4>1
        <5>2. QED
          BY <4>2, <5>1 DEF Same
      <4>4. PICK one \in Seq(D) : one = <<s[n]>> /\ Len(one) = 1 /\ one[1] = s[n]
        BY <1>3
      <4>5. f[n] = old \o one
        BY <1>3, <2>1, <4>1, <4>2, <4>4
      <4>6. /\ Len(f[n]) = Len(old) + 1 /\ \A i \in 1 .. Len(old) : f[n][i] = old[i]
            /\ f[n][Len(old) + 1] = s[n]
        BY <4>4, <4>5, ConcatTyped
      <4>7. Len(f[n]) = n /\ f[n][n] = s[n] /\ \A i \in 1 .. n - 1 : f[n][i] = s[i]
        BY <4>3, <4>6
      <4>8. \A i \in 1 .. n : i \in 1 .. n - 1 \/ i = n
        OBVIOUS
      <4>9. Same(n)
        BY <4>7, <4>8 DEF Same
      <4>10. QED
        BY <2>2, <4>9
    <3>3. QED
      BY <3>1, <3>2
  <2>5. N \in S
    <3>1. \A n \in 0 .. N : n \in S
      BY <2>3, <2>4, SetInduction
    <3>2. QED
      BY <3>1
  <2>6. f[N] \in Seq(D) /\ Len(f[N]) = N /\ \A i \in 1 .. N : f[N][i] = s[i]
    BY <1>6, <2>1, <2>2, <2>5 DEF Same
  <2>7. f[N] = s
    BY <1>1, <2>6
  <2>8. QED
    BY <1>2, <2>1, <2>7
<1>7. QED
  BY <1>5, <1>6

\* Sifted takes the members at certain places, in their order.
Sifts(s, S, last, at) ==
  at = [n \in 0 .. last |-> IF n = 0 THEN <<>> ELSE IF s[n] \in S THEN Append(at[n - 1], s[n]) ELSE at[n - 1]]
TakenFrom(s, S, m, t, p) ==
  /\ p \in [1 .. Len(t) -> 1 .. m]
  /\ \A k \in 1 .. Len(t) : t[k] = s[p[k]] /\ t[k] \in S
  /\ \A i, k \in 1 .. Len(t) : i < k => p[i] < p[k]
  /\ \A n \in 1 .. m : s[n] \in S => \E k \in 1 .. Len(t) : p[k] = n
LEMMA SiftsExist ==
  ASSUME NEW D, NEW s \in Seq(D), NEW S, NEW last \in Nat, last = Len(s)
  PROVE  \E at : Sifts(s, S, last, at)
<1>1. PICK V : V = Seq(D)
  OBVIOUS
<1>2. \A n \in 1 .. last, t \in V : Append(t, s[n]) \in V
  BY <1>1
<1>3. PICK step : step = [x \in (1 .. last) \X V |-> IF s[x[1]] \in S THEN Append(x[2], s[x[1]]) ELSE x[2]]
  OBVIOUS
<1>4. \A n \in 1 .. last, t \in V :
        /\ step[<<n, t>>] = IF s[n] \in S THEN Append(t, s[n]) ELSE t
        /\ step[<<n, t>>] \in V
  BY <1>2, <1>3
<1>5. step \in [(1 .. last) \X V -> V]
  BY <1>3, <1>4
<1>6. <<>> \in V
  BY <1>1
<1>7. PICK at : FoldOf(V, <<>>, last, step, at)
  BY <1>5, <1>6, FoldExists
<1>8. at \in [0 .. last -> V] /\ at[0] = <<>> /\ \A n \in 1 .. last : at[n] = step[<<n, at[n - 1]>>]
  BY <1>7 DEF FoldOf
<1>9. ASSUME NEW n \in 0 .. last
      PROVE  at[n] = IF n = 0 THEN <<>> ELSE IF s[n] \in S THEN Append(at[n - 1], s[n]) ELSE at[n - 1]
  <2>1. CASE n = 0
    BY <1>8, <2>1
  <2>2. CASE n # 0
    <3>1. n \in 1 .. last /\ n - 1 \in 0 .. last
      BY <2>2
    <3>2. at[n - 1] \in V
      BY <1>8, <3>1
    <3>3. QED
      BY <1>4, <1>8, <2>2, <3>1, <3>2
  <2>3. QED
    BY <2>1, <2>2
<1>10. at = [n \in 0 .. last |-> at[n]]
  BY <1>8
<1>11. Sifts(s, S, last, at)
  BY <1>9, <1>10 DEF Sifts
<1>12. QED
  BY <1>11
LEMMA OneMoreTaken ==
  ASSUME NEW D, NEW s \in Seq(D), NEW S, NEW m \in Nat, m + 1 <= Len(s), NEW t \in Seq(D),
         NEW p, TakenFrom(s, S, m, t, p), NEW u,
         u = IF s[m + 1] \in S THEN Append(t, s[m + 1]) ELSE t
  PROVE  u \in Seq(D) /\ \E q : TakenFrom(s, S, m + 1, u, q)
<1>1. PICK N \in Nat : N = Len(t)
  OBVIOUS
<1>2. /\ p \in [1 .. N -> 1 .. m]
      /\ \A k \in 1 .. N : t[k] = s[p[k]] /\ t[k] \in S /\ p[k] \in 1 .. m
      /\ \A i, k \in 1 .. N : i < k => p[i] < p[k]
      /\ \A n \in 1 .. m : s[n] \in S => \E k \in 1 .. N : p[k] = n
  BY <1>1 DEF TakenFrom
<1>3. CASE s[m + 1] \notin S
  <2>1. u = t /\ p \in [1 .. N -> 1 .. m + 1]
    BY <1>2, <1>3
  <2>2. \A n \in 1 .. m + 1 : n \in 1 .. m \/ n = m + 1
    OBVIOUS
  <2>3. TakenFrom(s, S, m + 1, u, p)
    BY <1>1, <1>2, <1>3, <2>1, <2>2 DEF TakenFrom
  <2>4. QED
    BY <2>1, <2>3
<1>4. CASE s[m + 1] \in S
  <2>1. PICK e \in D : e = s[m + 1]
    OBVIOUS
  <2>2. u \in Seq(D) /\ Len(u) = N + 1 /\ u[N + 1] = e /\ \A k \in 1 .. N : u[k] = t[k]
    BY <1>1, <1>4, <2>1, AppendTyped
  <2>3. PICK q : q = [k \in 1 .. N + 1 |-> IF k = N + 1 THEN m + 1 ELSE p[k]]
    OBVIOUS
  <2>4. \A k \in 1 .. N + 1 : k \in 1 .. N \/ k = N + 1
    OBVIOUS
  <2>5. q[N + 1] = m + 1 /\ \A k \in 1 .. N : q[k] = p[k]
    BY <2>3
  <2>6. q \in [1 .. N + 1 -> 1 .. m + 1]
    BY <1>2, <2>3
  <2>7. \A k \in 1 .. N + 1 : u[k] = s[q[k]] /\ u[k] \in S
    BY <1>2, <1>4, <2>1, <2>2, <2>4, <2>5
  <2>8. \A i, k \in 1 .. N + 1 : i < k => q[i] < q[k]
    <3>1. SUFFICES ASSUME NEW i \in 1 .. N + 1, NEW k \in 1 .. N + 1, i < k
                   PROVE  q[i] < q[k]
      OBVIOUS
    <3>2. i \in 1 .. N /\ q[i] = p[i] /\ p[i] \in 1 .. m
      BY <1>2, <2>5, <3>1
    <3>3. CASE k = N + 1
      BY <2>5, <3>2, <3>3
    <3>4. CASE k # N + 1
      BY <1>2, <2>4, <2>5, <3>1, <3>2, <3>4
    <3>5. QED
      BY <3>3, <3>4
  <2>9. ASSUME NEW n \in 1 .. m + 1, s[n] \in S
        PROVE  \E k \in 1 .. N + 1 : q[k] = n
    <3>1. CASE n = m + 1
      BY <2>5, <3>1
    <3>2. CASE n # m + 1
      <4>1. PICK k \in 1 .. N : p[k] = n
        BY <1>2, <2>9, <3>2
      <4>2. QED
        BY <2>5, <4>1
    <3>3. QED
      BY <3>1, <3>2
  <2>10. TakenFrom(s, S, m + 1, u, q)
    BY <2>2, <2>6, <2>7, <2>8, <2>9 DEF TakenFrom
  <2>11. QED
    BY <2>2, <2>10
<1>5. QED
  BY <1>3, <1>4
LEMMA SiftedIs ==
  ASSUME NEW D, NEW s \in Seq(D), NEW S
  PROVE  Sifted(s, S) \in Seq(D) /\ \E p : TakenFrom(s, S, Len(s), Sifted(s, S), p)
<1>1. PICK last \in Nat : last = Len(s)
  OBVIOUS
<1>2. PICK at : at = CHOOSE f : Sifts(s, S, last, f)
  OBVIOUS
<1>3. Sifts(s, S, last, at)
  BY <1>1, <1>2, SiftsExist
<1>4. Sifted(s, S) = at[last]
  BY <1>1, <1>2 DEF Sifted, Sifts
<1>5. \A n \in 0 .. last : at[n] = IF n = 0 THEN <<>> ELSE IF s[n] \in S THEN Append(at[n - 1], s[n]) ELSE at[n - 1]
  BY <1>3, Zenon DEF Sifts
<1> DEFINE Good(n) == at[n] \in Seq(D) /\ \E p : TakenFrom(s, S, n, at[n], p)
<1> HIDE DEF Good
<1>6. PICK G : G = {n \in 0 .. last : Good(n)}
  OBVIOUS
<1>7. 0 \in G
  <2>1. at[0] = <<>>
    BY <1>5
  <2>2. TakenFrom(s, S, 0, <<>>, <<>>)
    BY DEF TakenFrom
  <2>3. Good(0)
    BY <2>1, <2>2, EmptyTyped DEF Good
  <2>4. QED
    BY <1>6, <2>3
<1>8. ASSUME NEW n \in 1 .. last, n - 1 \in G
      PROVE  n \in G
  <2>1. PICK m \in Nat : m = n - 1
    OBVIOUS
  <2>2. Good(m)
    BY <1>6, <1>8, <2>1
  <2>3. PICK t \in Seq(D) : t = at[m]
    BY <2>2 DEF Good
  <2>4. PICK p : TakenFrom(s, S, m, t, p)
    BY <2>2, <2>3 DEF Good
  <2>5. n = m + 1 /\ n \in 0 .. last /\ n # 0
    BY <2>1
  <2>6. at[n] = IF s[m + 1] \in S THEN Append(t, s[m + 1]) ELSE t
    BY <1>5, <2>1, <2>3, <2>5
  <2>7. m + 1 <= Len(s)
    BY <1>1, <2>5
  <2>8. PICK u : u = at[n]
    OBVIOUS
  <2>9. Good(n)
    <3>1. u = IF s[m + 1] \in S THEN Append(t, s[m + 1]) ELSE t
      BY <2>6, <2>8
    <3>2. u \in Seq(D) /\ \E q : TakenFrom(s, S, m + 1, u, q)
      BY <2>4, <2>7, <3>1, OneMoreTaken, Zenon
    <3>3. QED
      BY <2>5, <2>8, <3>2 DEF Good
  <2>10. QED
    BY <1>6, <2>5, <2>9
<1>9. last \in G
  <2>1. \A n \in 0 .. last : n \in G
    BY <1>7, <1>8, SetInduction
  <2>2. QED
    BY <2>1
<1>10. QED
  BY <1>1, <1>4, <1>6, <1>9 DEF Good

LEMMA SiftedSet ==
  ASSUME NEW D, NEW s \in Seq(D), NEW S
  PROVE  ToSet(Sifted(s, S)) = ToSet(s) \cap S
<1>1. PICK t \in Seq(D) : t = Sifted(s, S)
  BY SiftedIs
<1>2. PICK p : TakenFrom(s, S, Len(s), t, p)
  BY <1>1, SiftedIs
<1>3. DOMAIN t = 1 .. Len(t) /\ DOMAIN s = 1 .. Len(s)
  OBVIOUS
<1>4. ToSet(t) \subseteq ToSet(s) \cap S
  BY <1>2, <1>3 DEF ToSet, TakenFrom
<1>5. ToSet(s) \cap S \subseteq ToSet(t)
  BY <1>2, <1>3 DEF ToSet, TakenFrom
<1>6. QED
  BY <1>1, <1>4, <1>5

\* As many as there are places.
LEMMA SiftedLength ==
  ASSUME NEW D, NEW s \in Seq(D), NEW S
  PROVE  Len(Sifted(s, S)) = Cardinality({n \in DOMAIN s : s[n] \in S})
<1>1. PICK t \in Seq(D) : t = Sifted(s, S)
  BY SiftedIs
<1>2. PICK p : TakenFrom(s, S, Len(s), t, p)
  BY <1>1, SiftedIs
<1>3. PICK N \in Nat : N = Len(t)
  OBVIOUS
<1>4. PICK T : T = {n \in DOMAIN s : s[n] \in S}
  OBVIOUS
<1>5. \A k \in 1 .. N : p[k] \in 1 .. Len(s) /\ s[p[k]] \in S
  BY <1>2, <1>3 DEF TakenFrom
<1>6. p \in [1 .. N -> T]
  <2>1. p \in [1 .. N -> 1 .. Len(s)]
    BY <1>2, <1>3 DEF TakenFrom
  <2>2. DOMAIN s = 1 .. Len(s)
    OBVIOUS
  <2>3. QED
    BY <1>4, <1>5, <2>1, <2>2
<1>7. \A i, k \in 1 .. N : p[i] = p[k] => i = k
  <2>1. \A i, k \in 1 .. N : i < k => p[i] < p[k]
    BY <1>2, <1>3 DEF TakenFrom
  <2>2. QED
    BY <1>5, <2>1
<1>8. \A n \in T : \E k \in 1 .. N : p[k] = n
  BY <1>2, <1>3, <1>4 DEF TakenFrom
<1>9. IsFiniteSet(1 .. N)
  BY FS_Interval
<1>10. Cardinality(T) = Cardinality(1 .. N)
  BY <1>6, <1>7, <1>8, <1>9, SameNumber
<1>11. Cardinality(1 .. N) = N
  BY FS_Interval
<1>12. QED
  BY <1>1, <1>3, <1>4, <1>10, <1>11

-----------------------------------------------------------------------------
(* RunningSum and SumSeq                                                     *)

\* A sum over a list, as far as a place.
Sums(fs, last, at) == at = [n \in 0 .. last |-> IF n = 0 THEN 0 ELSE at[n - 1] + fs[n]]

LEMMA SumsExist ==
  ASSUME NEW fs, NEW last \in Nat
  PROVE  \E at : Sums(fs, last, at)
<1>1. PICK S : S = {n \in 0 .. last : \E at : Sums(fs, n, at)}
  OBVIOUS
<1>2. 0 \in S
  <2>1. PICK at : at = [n \in 0 .. 0 |-> 0]
    OBVIOUS
  <2>2. Sums(fs, 0, at)
    BY <2>1 DEF Sums
  <2>3. QED
    BY <1>1, <2>2
<1>3. ASSUME NEW m \in 1 .. last, m - 1 \in S
      PROVE  m \in S
  <2>1. PICK at : Sums(fs, m - 1, at)
    BY <1>1, <1>3
  <2>2. PICK next : next = [n \in 0 .. m |-> IF n = m THEN at[m - 1] + fs[m] ELSE at[n]]
    OBVIOUS
  <2>3. \A n \in 0 .. m - 1 : next[n] = at[n]
    BY <2>2
  <2>4. \A n \in 0 .. m - 1 : at[n] = IF n = 0 THEN 0 ELSE at[n - 1] + fs[n]
    BY <2>1 DEF Sums
  <2>5. ASSUME NEW n \in 0 .. m
        PROVE  next[n] = IF n = 0 THEN 0 ELSE next[n - 1] + fs[n]
    <3>1. CASE n = 0
      BY <2>3, <2>4, <3>1
    <3>2. CASE n = m
      BY <2>2, <2>3, <3>2
    <3>3. CASE n # 0 /\ n # m
      <4>1. n \in 0 .. m - 1 /\ n - 1 \in 0 .. m - 1
        BY <3>3
      <4>2. QED
        BY <2>3, <2>4, <3>3, <4>1
    <3>4. QED
      BY <3>1, <3>2, <3>3
  <2>6. next = [n \in 0 .. m |-> next[n]]
    BY <2>2
  <2>7. Sums(fs, m, next)
    BY <2>5, <2>6 DEF Sums
  <2>8. QED
    BY <1>1, <2>7
<1>4. last \in S
  BY <1>2, <1>3, SetInduction
<1>5. QED
  BY <1>1, <1>4

\* The files follow one another from 0 on.
LEMMA StartsFollow ==
  ASSUME NEW fs \in Seq(Nat)
  PROVE  /\ RunningSum(fs)[0] = 0 /\ \A n \in 1 .. Len(fs) : RunningSum(fs)[n] = RunningSum(fs)[n - 1] + fs[n]
         /\ \A n \in 0 .. Len(fs) : RunningSum(fs)[n] \in Nat
<1>1. PICK N : N = Len(fs)
  OBVIOUS
<1>2. N \in Nat
  BY <1>1
<1>3. PICK at : at = CHOOSE f : Sums(fs, N, f)
  OBVIOUS
<1>4. Sums(fs, N, at)
  BY <1>2, <1>3, SumsExist
<1>5. RunningSum(fs) = at
  BY <1>1, <1>3 DEF RunningSum, Sums
<1>6. at[0] = 0 /\ \A n \in 1 .. N : at[n] = at[n - 1] + fs[n]
  <2>1. \A n \in 0 .. N : at[n] = IF n = 0 THEN 0 ELSE at[n - 1] + fs[n]
    BY <1>4, Zenon DEF Sums
  <2>2. QED
    BY <1>2, <2>1
<1>7. PICK S : S = {n \in 0 .. N : at[n] \in Nat}
  OBVIOUS
<1>8. 0 \in S
  BY <1>2, <1>6, <1>7
<1>9. ASSUME NEW n \in 1 .. N, n - 1 \in S
      PROVE  n \in S
  BY <1>1, <1>6, <1>7, <1>9
<1>10. \A n \in 0 .. N : n \in S
  BY <1>2, <1>8, <1>9, SetInduction
<1>11. QED
  BY <1>1, <1>5, <1>6, <1>7, <1>10

\* Sums of lengths are numbers, negative ones too.
LEMMA SumsAreInts ==
  ASSUME NEW fs \in Seq(Int)
  PROVE  SumSeq(fs) \in Int /\ \A n \in 0 .. Len(fs) : RunningSum(fs)[n] \in Int
<1>1. PICK N : N = Len(fs)
  OBVIOUS
<1>2. N \in Nat
  BY <1>1
<1>3. PICK at : at = CHOOSE f : Sums(fs, N, f)
  OBVIOUS
<1>4. Sums(fs, N, at)
  BY <1>2, <1>3, SumsExist
<1>5. RunningSum(fs) = at
  BY <1>1, <1>3 DEF RunningSum, Sums
<1>6. at[0] = 0 /\ \A n \in 1 .. N : at[n] = at[n - 1] + fs[n]
  <2>1. \A n \in 0 .. N : at[n] = IF n = 0 THEN 0 ELSE at[n - 1] + fs[n]
    BY <1>4, Zenon DEF Sums
  <2>2. QED
    BY <1>2, <2>1
<1>7. PICK S : S = {n \in 0 .. N : at[n] \in Int}
  OBVIOUS
<1>8. 0 \in S
  BY <1>2, <1>6, <1>7
<1>9. ASSUME NEW n \in 1 .. N, n - 1 \in S
      PROVE  n \in S
  <2>1. fs[n] \in Int
    BY <1>1
  <2>2. QED
    BY <1>6, <1>7, <1>9, <2>1
<1>10. \A n \in 0 .. N : n \in S
  BY <1>2, <1>8, <1>9, SetInduction
<1>11. \A n \in 0 .. N : at[n] \in Int
  BY <1>7, <1>10
<1>12. N \in 0 .. N
  BY <1>2
<1>13. QED
  BY <1>1, <1>5, <1>11, <1>12 DEF SumSeq

-----------------------------------------------------------------------------
(* OrderedBy                                                                 *)

\* R orders the members of S, none before itself.
IsOrder(R, S) ==
  /\ \A x \in S : <<x, x>> \notin R
  /\ \A x, y \in S : x # y => <<x, y>> \in R \/ <<y, x>> \in R
  /\ \A x, y, z \in S : <<x, y>> \in R /\ <<y, z>> \in R => <<x, z>> \in R
Under(R, S, x) == {y \in S : <<y, x>> \in R}

\* What comes later in an order has more before it, and no two have as many.
LEMMA RankRises ==
  ASSUME NEW S, IsFiniteSet(S), NEW R, IsOrder(R, S), NEW x \in S
  PROVE  /\ Cardinality(Under(R, S, x)) \in 0 .. Cardinality(S) - 1
         /\ \A y \in S : <<x, y>> \in R => Cardinality(Under(R, S, x)) < Cardinality(Under(R, S, y))
<1>1. \A y \in S : /\ IsFiniteSet(Under(R, S, y)) /\ Cardinality(Under(R, S, y)) \in Nat
                   /\ Under(R, S, y) \subseteq S
  BY FS_Subset, FS_CardinalityType DEF Under
<1>2. Cardinality(S) \in Nat
  BY FS_CardinalityType
<1>3. Cardinality(Under(R, S, x)) <= Cardinality(S) /\ Cardinality(S) # Cardinality(Under(R, S, x))
  <2>1. Under(R, S, x) # S
    BY DEF Under, IsOrder
  <2>2. QED
    BY <1>1, <2>1, FS_Subset
<1>4. ASSUME NEW y \in S, <<x, y>> \in R
      PROVE  Cardinality(Under(R, S, x)) < Cardinality(Under(R, S, y))
  <2>1. Under(R, S, x) \subseteq Under(R, S, y)
    BY <1>4 DEF Under, IsOrder
  <2>2. x \in Under(R, S, y) /\ x \notin Under(R, S, x)
    BY <1>4 DEF Under, IsOrder
  <2>3. Cardinality(Under(R, S, x)) <= Cardinality(Under(R, S, y))
    BY <1>1, <2>1, FS_Subset
  <2>4. Cardinality(Under(R, S, x)) # Cardinality(Under(R, S, y))
    BY <1>1, <2>1, <2>2, FS_Subset
  <2>5. QED
    BY <1>1, <2>3, <2>4
<1>5. QED
  BY <1>1, <1>2, <1>3, <1>4

\* Every rank is taken.
LEMMA RanksAreTaken ==
  ASSUME NEW S, IsFiniteSet(S), NEW R, IsOrder(R, S), NEW n \in 1 .. Cardinality(S)
  PROVE  \E x \in S : Cardinality(Under(R, S, x)) = n - 1
<1> DEFINE ranks == 0 .. Cardinality(S) - 1
           f == [x \in S |-> Cardinality(Under(R, S, x))]
<1>1. Cardinality(S) \in Nat
  BY FS_CardinalityType
<1>2. IsFiniteSet(ranks) /\ Cardinality(ranks) = Cardinality(S)
  <2>1. IsFiniteSet(0 .. Cardinality(S) - 1)
    BY <1>1, FS_Interval
  <2>2. Cardinality(0 .. Cardinality(S) - 1) = Cardinality(S)
    BY <1>1, FS_Interval
  <2>3. QED
    BY <2>1, <2>2
<1>3. f \in [S -> ranks]
  BY RankRises
<1>4. \A x, y \in S : f[x] = f[y] => x = y
  <2>1. \A x, y \in S : <<x, y>> \in R => f[x] < f[y]
    BY RankRises
  <2>2. \A x \in S : f[x] \in Int
    BY <1>1, <1>3
  <2> HIDE DEF f
  <2>3. SUFFICES ASSUME NEW x \in S, NEW y \in S, f[x] = f[y], x # y
                 PROVE  FALSE
    OBVIOUS
  <2>4. <<x, y>> \in R \/ <<y, x>> \in R
    BY <2>3 DEF IsOrder
  <2>5. f[x] < f[y] \/ f[y] < f[x]
    BY <2>1, <2>4
  <2>6. QED
    BY <2>2, <2>3, <2>5
<1> HIDE DEF f, ranks
<1>5. f \in Injection(S, ranks)
  BY <1>3, <1>4 DEF Injection, IsInjective
<1>6. f \in Surjection(S, ranks)
  BY <1>2, <1>5, FS_Injection
<1>7. n - 1 \in ranks
  BY <1>1 DEF ranks
<1>8. QED
  BY <1>6, <1>7 DEF Surjection, f

\* A list in which each place has the right number before it is in order, and
\* has everyone once.
LEMMA RowsInOrder ==
  ASSUME NEW S, IsFiniteSet(S), NEW R, IsOrder(R, S), NEW s,
         s = [n \in 1 .. Cardinality(S) |-> s[n]],
         \A n \in 1 .. Cardinality(S) : s[n] \in S /\ Cardinality(Under(R, S, s[n])) = n - 1
  PROVE  /\ s \in Seq(S) /\ Len(s) = Cardinality(S) /\ ToSet(s) = S
         /\ \A i, j \in 1 .. Cardinality(S) : i # j => s[i] # s[j]
         /\ \A i, j \in 1 .. Cardinality(S) : i < j => <<s[i], s[j]>> \in R
<1>1. Cardinality(S) \in Nat
  BY FS_CardinalityType
<1>2. s \in Seq(S) /\ Len(s) = Cardinality(S) /\ DOMAIN s = 1 .. Cardinality(S)
  BY <1>1
<1>3. \A i, j \in 1 .. Cardinality(S) : i # j => s[i] # s[j]
  BY <1>1
<1>4. \A i, j \in 1 .. Cardinality(S) : i < j => <<s[i], s[j]>> \in R
  <2> SUFFICES ASSUME NEW i \in 1 .. Cardinality(S), NEW j \in 1 .. Cardinality(S), i < j,
                      <<s[i], s[j]>> \notin R
               PROVE  FALSE
    OBVIOUS
  <2>1. s[i] # s[j]
    BY <1>1, <1>3
  <2>2. <<s[j], s[i]>> \in R
    BY <2>1 DEF IsOrder
  <2>3. Cardinality(Under(R, S, s[j])) < Cardinality(Under(R, S, s[i]))
    BY <2>2, RankRises
  <2>4. QED
    BY <1>1, <2>3
<1>5. ToSet(s) = S
  <2>1. ASSUME NEW x \in S
        PROVE  x \in ToSet(s)
    <3>1. PICK n : n = Cardinality(Under(R, S, x)) + 1
      OBVIOUS
    <3>2. n \in 1 .. Cardinality(S)
      BY <1>1, <3>1, RankRises
    <3>3. Cardinality(Under(R, S, s[n])) = Cardinality(Under(R, S, x))
      <4>1. Cardinality(Under(R, S, x)) \in Nat
        BY <1>1, RankRises
      <4>2. QED
        BY <3>1, <3>2, <4>1
    <3>4. s[n] = x
      <4>1. Cardinality(Under(R, S, x)) \in Nat
        BY <1>1, RankRises
      <4>2. \A y \in S : <<x, y>> \in R => Cardinality(Under(R, S, x)) < Cardinality(Under(R, S, y))
        BY RankRises
      <4>3. \A y \in S : <<y, x>> \in R => Cardinality(Under(R, S, y)) < Cardinality(Under(R, S, x))
        BY RankRises
      <4>4. s[n] \in S
        BY <3>2
      <4>5. <<x, s[n]>> \notin R
        BY <3>3, <4>1, <4>2, <4>4
      <4>6. <<s[n], x>> \notin R
        BY <3>3, <4>1, <4>3, <4>4
      <4>7. QED
        BY <4>4, <4>5, <4>6 DEF IsOrder
    <3>5. QED
      BY <1>2, <3>2, <3>4 DEF ToSet
  <2>2. QED
    BY <1>2, <2>1 DEF ToSet
<1>6. QED
  BY <1>2, <1>3, <1>4, <1>5

\* Numbers in their order.
LEMMA NumbersInOrder ==
  ASSUME NEW S, IsFiniteSet(S), S \subseteq Int
  PROVE  /\ OrderedBy(S, <) \in Seq(S) /\ Len(OrderedBy(S, <)) = Cardinality(S) /\ ToSet(OrderedBy(S, <)) = S
         /\ \A i, j \in 1 .. Cardinality(S) : i < j => OrderedBy(S, <)[i] < OrderedBy(S, <)[j]
<1>1. PICK R : R = {xy \in S \X S : xy[1] < xy[2]}
  OBVIOUS
<1>2. \A x, y \in S : <<x, y>> \in R <=> x < y
  BY <1>1
<1>3. IsOrder(R, S)
  BY <1>2 DEF IsOrder
<1>4. PICK s : s = OrderedBy(S, <)
  OBVIOUS
<1> DEFINE rank == [x \in S |-> Cardinality({y \in S : y < x})]
           Nth(n) == CHOOSE x \in S : rank[x] = n - 1
<1>5. s = [n \in 1 .. Cardinality(S) |-> Nth(n)]
  BY <1>4 DEF OrderedBy
<1>6. \A n \in 1 .. Cardinality(S) : s[n] \in S /\ Cardinality(Under(R, S, s[n])) = n - 1
  <2> SUFFICES ASSUME NEW n \in 1 .. Cardinality(S)
               PROVE  s[n] \in S /\ Cardinality(Under(R, S, s[n])) = n - 1
    OBVIOUS
  <2>1. \A x \in S : Under(R, S, x) = {y \in S : y < x}
    BY <1>2 DEF Under
  <2>2. \A x \in S : rank[x] = Cardinality(Under(R, S, x))
    BY <2>1
  <2>3. s[n] = Nth(n)
    <3> HIDE DEF Nth
    <3>1. QED
      BY <1>5
  <2> HIDE DEF rank
  <2>4. \E x \in S : rank[x] = n - 1
    BY <1>3, <2>2, RanksAreTaken
  <2>5. s[n] \in S /\ rank[s[n]] = n - 1
    BY <2>3, <2>4, Zenon
  <2>6. QED
    BY <2>2, <2>5
<1> HIDE DEF Nth
<1>7. s = [n \in 1 .. Cardinality(S) |-> s[n]]
  BY <1>5
<1>8. /\ s \in Seq(S) /\ Len(s) = Cardinality(S) /\ ToSet(s) = S
      /\ \A i, j \in 1 .. Cardinality(S) : i < j => <<s[i], s[j]>> \in R
  BY <1>3, <1>6, <1>7, RowsInOrder
<1>9. \A i, j \in 1 .. Cardinality(S) : i < j => s[i] < s[j]
  <2>1. \A i \in 1 .. Cardinality(S) : s[i] \in S
    BY <1>6
  <2>2. QED
    BY <1>2, <1>8, <2>1
<1>10. QED
  BY <1>4, <1>8, <1>9

\* A set whose members are all the same has one of them at most.
LEMMA AloneIsFew ==
  ASSUME NEW S, \A s, t \in S : s = t
  PROVE  Cardinality(S) <= 1
<1>1. CASE S = {}
  BY <1>1, FS_EmptySet
<1>2. CASE S # {}
  <2>1. PICK w : w \in S
    BY <1>2
  <2>2. S = {w}
    BY <2>1
  <2>3. Cardinality({w}) = 1
    BY FS_Singleton
  <2>4. QED
    BY <2>2, <2>3
<1>3. QED
  BY <1>1, <1>2
=============================================================================

--------------------------- MODULE ScoreboardProofs ---------------------------
(***************************************************************************)
(* Proofs about Scoreboard: the names are in a strict total order, so that *)
(* std::sort has one result (SortedNamesAre), and with it a worker reads   *)
(* through names that hold every score of the listing's beginning.         *)
(***************************************************************************)
EXTENDS Scoreboard, GameRulesProofs, SequenceTheorems, WellFoundedInduction, TLAPS

(* What the names are sorted by: five numbers. *)
SortKey(f) == Digits(f.score) \o <<f.plid, f.tstamp>>

LEMMA DigitsThree ==
  ASSUME NEW n \in 1..999
  PROVE  Digits(n) \in Seq(Int) /\ Len(Digits(n)) = 3
<1>1. \E a, b, c \in Int : Digits(n) = <<a, b, c>>
  <2>1. CASE n < 10
    BY <2>1 DEF Digits, Underscore
  <2>2. CASE n >= 10 /\ n < 100
    BY <2>2 DEF Digits, Underscore
  <2>3. CASE n >= 100
    BY <2>3 DEF Digits, Underscore
  <2> QED BY <2>1, <2>2, <2>3
<1>2. PICK a \in Int, b \in Int, c \in Int : Digits(n) = <<a, b, c>>
  BY <1>1
<1> QED BY <1>2

LEMMA JoinedKey ==
  ASSUME NEW s \in Seq(Int), NEW t \in Seq(Int), Len(s) = 3, Len(t) = 2
  PROVE  /\ s \o t \in Seq(Int) /\ Len(s \o t) = 5
         /\ (s \o t)[1] = s[1] /\ (s \o t)[2] = s[2] /\ (s \o t)[3] = s[3]
         /\ (s \o t)[4] = t[1] /\ (s \o t)[5] = t[2]
<1>1. \A u, v \in Seq(Int) :
        /\ u \o v \in Seq(Int) /\ Len(u \o v) = Len(u) + Len(v)
        /\ \A i \in 1..(Len(u) + Len(v)) :
             (u \o v)[i] = IF i <= Len(u) THEN u[i] ELSE v[i - Len(u)]
  BY ConcatProperties
<1>2. /\ s \o t \in Seq(Int) /\ Len(s \o t) = 5
      /\ \A i \in 1..5 : (s \o t)[i] = IF i <= 3 THEN s[i] ELSE t[i - 3]
  <2>1. /\ s \o t \in Seq(Int) /\ Len(s \o t) = Len(s) + Len(t)
        /\ \A i \in 1..(Len(s) + Len(t)) :
             (s \o t)[i] = IF i <= Len(s) THEN s[i] ELSE t[i - Len(s)]
    BY <1>1, Zenon
  <2>2. Len(s) + Len(t) = 5
    OBVIOUS
  <2> DEFINE r == s \o t
  <2> HIDE DEF r
  <2>3. r \in Seq(Int) /\ Len(r) = 5 /\ \A i \in 1..5 : r[i] = IF i <= 3 THEN s[i] ELSE t[i - 3]
    BY <2>1, <2>2 DEF r
  <2> QED BY <2>3 DEF r
<1>3. 4 - 3 = 1 /\ 5 - 3 = 2
  OBVIOUS
<1> QED BY <1>2, <1>3

LEMMA FiveNumbers ==
  ASSUME NEW s \in Seq(Int), Len(s) = 5
  PROVE  \A i \in 1..5 : s[i] \in Int
<1>1. \A i \in 1..Len(s) : s[i] \in Int
  BY ElementOfSeq
<1> QED BY <1>1

LEMMA SortKeyIs ==
  ASSUME NEW f \in ScoreName
  PROVE  /\ SortKey(f) \in Seq(Int) /\ Len(SortKey(f)) = 5
         /\ SortKey(f)[1] = Digits(f.score)[1] /\ SortKey(f)[2] = Digits(f.score)[2]
         /\ SortKey(f)[3] = Digits(f.score)[3]
         /\ SortKey(f)[4] = f.plid /\ SortKey(f)[5] = f.tstamp
<1>1. f.score \in 1..999 /\ f.plid \in Nat /\ f.tstamp \in Nat
  BY PlayersAssumption DEF ScoreName
<1> DEFINE t == <<f.plid, f.tstamp>>
<1>2. t \in Seq(Int) /\ Len(t) = 2 /\ t[1] = f.plid /\ t[2] = f.tstamp
  BY <1>1
<1> HIDE DEF t
<1>3. Digits(f.score) \in Seq(Int) /\ Len(Digits(f.score)) = 3
  BY <1>1, DigitsThree
<1>4. SortKey(f) = Digits(f.score) \o t
  BY DEF SortKey, t
<1> QED BY <1>2, <1>3, <1>4, JoinedKey

(* The value of a score can be read from its digits. *)
LEMMA DigitsRead ==
  ASSUME NEW n \in 1..999
  PROVE  /\ Digits(n)[1] \in 0..9 /\ Digits(n)[2] \in 0..10 /\ Digits(n)[3] \in 0..10
         /\ n < 10 => Digits(n)[2] = 10 /\ Digits(n)[1] = n
         /\ n >= 10 /\ n < 100 =>
              /\ Digits(n)[2] # 10 /\ Digits(n)[3] = 10
              /\ n = 10 * Digits(n)[1] + Digits(n)[2]
         /\ n >= 100 =>
              /\ Digits(n)[2] \in 0..9 /\ Digits(n)[3] \in 0..9
              /\ n = 100 * Digits(n)[1] + 10 * Digits(n)[2] + Digits(n)[3]
<1>1. CASE n < 10
  BY <1>1 DEF Digits, Underscore
<1>2. CASE n >= 10 /\ n < 100
  BY <1>2 DEF Digits, Underscore
<1>3. CASE n >= 100
  BY <1>3 DEF Digits, Underscore
<1> QED BY <1>1, <1>2, <1>3

Points == 1..999

Long(n) == n >= 100

SameDigits(s, t) == s[1] = t[1] /\ s[2] = t[2] /\ s[3] = t[3]

LEMMA DigitsDiffer ==
  \A m, n \in Points : SameDigits(Digits(m), Digits(n)) => m = n
<1> TAKE m \in Points, n \in Points
<1> HAVE SameDigits(Digits(m), Digits(n))
<1> USE DEF Points
<1> DEFINE a == Digits(m)[1]
           b == Digits(m)[2]
           c == Digits(m)[3]
           d == Digits(n)[1]
           e == Digits(n)[2]
           h == Digits(n)[3]
<1>1. /\ a \in 0..9 /\ b \in 0..10 /\ c \in 0..10
      /\ m < 10 => b = 10 /\ a = m
      /\ m >= 10 /\ m < 100 => b # 10 /\ c = 10 /\ m = 10 * a + b
      /\ m >= 100 => /\ b \in 0..9 /\ c \in 0..9
                     /\ m = 100 * a + 10 * b + c
  BY DigitsRead
<1>2. /\ d \in 0..9 /\ e \in 0..10 /\ h \in 0..10
      /\ n < 10 => e = 10 /\ d = n
      /\ n >= 10 /\ n < 100 => e # 10 /\ h = 10 /\ n = 10 * d + e
      /\ n >= 100 => /\ e \in 0..9 /\ h \in 0..9
                     /\ n = 100 * d + 10 * e + h
  BY DigitsRead
<1>3. a = d /\ b = e /\ c = h
  BY DEF SameDigits
<1> HIDE DEF a, b, c, d, e, h
<1>4. CASE m < 10
  BY <1>1, <1>2, <1>3, <1>4
<1>5. CASE m >= 10 /\ m < 100
  BY <1>1, <1>2, <1>3, <1>5
<1>6. CASE m >= 100
  BY <1>1, <1>2, <1>3, <1>6
<1> QED BY <1>4, <1>5, <1>6

(* Comparing the digits one by one. *)
NoSmaller(s, t) ==
  \/ s[1] > t[1]
  \/ s[1] = t[1] /\ s[2] > t[2]
  \/ s[1] = t[1] /\ s[2] = t[2] /\ s[3] > t[3]
  \/ s[1] = t[1] /\ s[2] = t[2] /\ s[3] = t[3]

LEMMA DigitsOrder ==
  \A m, n \in Points :
    Long(m) /\ Long(n) /\ NoSmaller(Digits(m), Digits(n)) => m >= n
<1> TAKE m \in Points, n \in Points
<1> HAVE Long(m) /\ Long(n) /\ NoSmaller(Digits(m), Digits(n))
<1> USE DEF Points, Long
<1>1. /\ Digits(m)[1] \in 0..9 /\ Digits(m)[2] \in 0..9 /\ Digits(m)[3] \in 0..9
      /\ m = 100 * Digits(m)[1] + 10 * Digits(m)[2] + Digits(m)[3]
  BY DigitsRead
<1>2. /\ Digits(n)[1] \in 0..9 /\ Digits(n)[2] \in 0..9 /\ Digits(n)[3] \in 0..9
      /\ n = 100 * Digits(n)[1] + 10 * Digits(n)[2] + Digits(n)[3]
  BY DigitsRead
<1>3. \/ Digits(m)[1] > Digits(n)[1]
      \/ Digits(m)[1] = Digits(n)[1] /\ Digits(m)[2] > Digits(n)[2]
      \/ /\ Digits(m)[1] = Digits(n)[1] /\ Digits(m)[2] = Digits(n)[2]
         /\ Digits(m)[3] >= Digits(n)[3]
  BY <1>1, <1>2 DEF NoSmaller
<1> DEFINE a == Digits(m)[1]
           b == Digits(m)[2]
           c == Digits(m)[3]
           d == Digits(n)[1]
           e == Digits(n)[2]
           h == Digits(n)[3]
<1>4. /\ a \in 0..9 /\ b \in 0..9 /\ c \in 0..9 /\ m = 100 * a + 10 * b + c
      /\ d \in 0..9 /\ e \in 0..9 /\ h \in 0..9 /\ n = 100 * d + 10 * e + h
  BY <1>1, <1>2
<1>5. a > d \/ (a = d /\ b > e) \/ (a = d /\ b = e /\ c >= h)
  BY <1>3
<1> HIDE DEF a, b, c, d, e, h
<1> QED BY <1>4, <1>5

LEMMA LexIs ==
  ASSUME NEW s, NEW t, Len(s) = 5
  PROVE  Lexicographic(s, t) <=>
           \/ s[1] > t[1]
           \/ s[1] = t[1] /\ s[2] > t[2]
           \/ s[1] = t[1] /\ s[2] = t[2] /\ s[3] > t[3]
           \/ s[1] = t[1] /\ s[2] = t[2] /\ s[3] = t[3] /\ s[4] > t[4]
           \/ s[1] = t[1] /\ s[2] = t[2] /\ s[3] = t[3] /\ s[4] = t[4] /\ s[5] > t[5]
<1>1. 1..Len(s) = {1, 2, 3, 4, 5}
  OBVIOUS
<1>2. /\ 1..(1 - 1) = {} /\ 1..(2 - 1) = {1} /\ 1..(3 - 1) = {1, 2}
      /\ 1..(4 - 1) = {1, 2, 3} /\ 1..(5 - 1) = {1, 2, 3, 4}
  OBVIOUS
<1> QED BY <1>1, <1>2 DEF Lexicographic

(* The names are in a strict total order. *)
LEMMA NamesOrdered ==
  ASSUME NEW f \in ScoreName, NEW g \in ScoreName
  PROVE  /\ f = g \/ NamedAfter(f, g) \/ NamedAfter(g, f)
         /\ ~(NamedAfter(f, g) /\ NamedAfter(g, f))
         /\ \A h \in ScoreName : NamedAfter(f, g) /\ NamedAfter(g, h) => NamedAfter(f, h)
<1> DEFINE Sort(a, b) == Lexicographic(SortKey(a), SortKey(b))
<1>1. \A a, b : NamedAfter(a, b) <=> Sort(a, b)
  BY DEF NamedAfter, SortKey
<1>2. ASSUME NEW a \in ScoreName PROVE \A i \in 1..5 : SortKey(a)[i] \in Int
  <2> DEFINE s == SortKey(a)
  <2>1. s \in Seq(Int) /\ Len(s) = 5
    BY SortKeyIs, Zenon
  <2> HIDE DEF s
  <2>2. \A i \in 1..5 : s[i] \in Int
    BY <2>1, FiveNumbers, Zenon
  <2> QED BY <2>2 DEF s
<1>3. ASSUME NEW a \in ScoreName, NEW b \in ScoreName
      PROVE  Sort(a, b) <=>
               LET s == SortKey(a)  t == SortKey(b) IN
               \/ s[1] > t[1]
               \/ s[1] = t[1] /\ s[2] > t[2]
               \/ s[1] = t[1] /\ s[2] = t[2] /\ s[3] > t[3]
               \/ s[1] = t[1] /\ s[2] = t[2] /\ s[3] = t[3] /\ s[4] > t[4]
               \/ s[1] = t[1] /\ s[2] = t[2] /\ s[3] = t[3] /\ s[4] = t[4] /\ s[5] > t[5]
  <2>1. Len(SortKey(a)) = 5
    BY SortKeyIs
  <2> QED BY <2>1, LexIs
<1> HIDE DEF Sort
<1>4. f = g \/ Sort(f, g) \/ Sort(g, f)
  <2> SUFFICES ASSUME ~Sort(f, g), ~Sort(g, f) PROVE f = g
    OBVIOUS
  <2>1. \A i \in {1, 2, 3, 4, 5} : SortKey(f)[i] = SortKey(g)[i]
    BY <1>2, <1>3
  <2>2. f.score \in Points /\ g.score \in Points
    BY DEF ScoreName, Points
  <2>3. f.plid = g.plid /\ f.tstamp = g.tstamp
    <3>1. SortKey(f)[4] = f.plid /\ SortKey(f)[5] = f.tstamp
      BY SortKeyIs, Zenon
    <3>2. SortKey(g)[4] = g.plid /\ SortKey(g)[5] = g.tstamp
      BY SortKeyIs, Zenon
    <3> QED BY <2>1, <3>1, <3>2
  <2>4. SameDigits(Digits(f.score), Digits(g.score))
    <3>1. /\ SortKey(f)[1] = Digits(f.score)[1] /\ SortKey(f)[2] = Digits(f.score)[2]
          /\ SortKey(f)[3] = Digits(f.score)[3]
      BY SortKeyIs, Zenon
    <3>2. /\ SortKey(g)[1] = Digits(g.score)[1] /\ SortKey(g)[2] = Digits(g.score)[2]
          /\ SortKey(g)[3] = Digits(g.score)[3]
      BY SortKeyIs, Zenon
    <3> QED BY <2>1, <3>1, <3>2 DEF SameDigits
  <2>5. f.score = g.score
    BY <2>2, <2>4, DigitsDiffer, Zenon
  <2> QED BY <2>3, <2>5 DEF ScoreName
<1>5. ~(Sort(f, g) /\ Sort(g, f))
  BY <1>2, <1>3
<1>6. ASSUME NEW h \in ScoreName, Sort(f, g), Sort(g, h) PROVE Sort(f, h)
  BY <1>2, <1>3, <1>6
<1> QED BY <1>1, <1>4, <1>5, <1>6

(* Of two scores of three digits the later name has the larger one. *)
LEMMA LaterIsLarger ==
  ASSUME NEW f \in ScoreName, NEW g \in ScoreName, f.score >= 100, g.score >= 100,
         NamedAfter(f, g)
  PROVE  f.score >= g.score
<1>1. f.score \in Points /\ g.score \in Points /\ Long(f.score) /\ Long(g.score)
  BY DEF ScoreName, Points, Long
<1>2. Lexicographic(SortKey(f), SortKey(g)) /\ Len(SortKey(f)) = 5
  BY SortKeyIs DEF NamedAfter, SortKey
<1>3. /\ SortKey(f)[1] = Digits(f.score)[1] /\ SortKey(f)[2] = Digits(f.score)[2]
      /\ SortKey(f)[3] = Digits(f.score)[3]
  BY SortKeyIs, Zenon
<1>4. /\ SortKey(g)[1] = Digits(g.score)[1] /\ SortKey(g)[2] = Digits(g.score)[2]
      /\ SortKey(g)[3] = Digits(g.score)[3]
  BY SortKeyIs, Zenon
<1>5. \/ SortKey(f)[1] > SortKey(g)[1]
      \/ SortKey(f)[1] = SortKey(g)[1] /\ SortKey(f)[2] > SortKey(g)[2]
      \/ SortKey(f)[1] = SortKey(g)[1] /\ SortKey(f)[2] = SortKey(g)[2]
           /\ SortKey(f)[3] > SortKey(g)[3]
      \/ SortKey(f)[1] = SortKey(g)[1] /\ SortKey(f)[2] = SortKey(g)[2]
           /\ SortKey(f)[3] = SortKey(g)[3]
  BY <1>2, LexIs
<1>6. NoSmaller(Digits(f.score), Digits(g.score))
  BY <1>3, <1>4, <1>5, Zenon DEF NoSmaller
<1> QED BY <1>1, <1>6, DigitsOrder, Zenon

-----------------------------------------------------------------------------
(* A family of subsets of a finite set has one that contains no other:      *)
(* the smallest counterexample of the two lemmas below.                     *)
LEMMA SmallestSet ==
  ASSUME NEW S, IsFiniteSet(S), NEW F \in SUBSET SUBSET S, F # {}
  PROVE  \E m \in F : \A n \in F : n \subseteq m => n = m
<1>1. F \subseteq FiniteSubsetsOf(S)
  <2>1. \A U \in SUBSET S : IsFiniteSet(U)
    BY FS_Subset
  <2> QED BY <2>1 DEF FiniteSubsetsOf
<1>2. \E m \in F : \A n \in F : ~(<<n, m>> \in StrictSubsetOrdering(S))
  BY <1>1, FS_StrictSubsetOrderingWellFounded, WFMin
<1> QED BY <1>2 DEF StrictSubsetOrdering

IsLast(T, z) == z \in T /\ \A x \in T : x = z \/ NamedAfter(x, z)

Sorted(q) == \A i, j \in DOMAIN q : i < j => NamedAfter(q[i], q[j])

LEMMA LastExists ==
  ASSUME NEW T \in SUBSET ScoreName, IsFiniteSet(T), T # {}
  PROVE  \E z \in T : IsLast(T, z)
<1> DEFINE F == {U \in SUBSET T : U # {} /\ ~\E z \in U : IsLast(U, z)}
<1> SUFFICES ASSUME F # {} PROVE FALSE
  OBVIOUS
<1>1. PICK U \in F : \A V \in F : V \subseteq U => V = U
  <2>1. F \in SUBSET SUBSET T
    OBVIOUS
  <2> HIDE DEF F
  <2> QED BY <2>1, SmallestSet
<1>2. PICK x \in U : TRUE
  OBVIOUS
<1> DEFINE V == U \ {x}
<1>3. V \subseteq T /\ V # U /\ V \subseteq U
  BY <1>2
<1>4. V \notin F
  BY <1>1, <1>3
<1>5. U \subseteq ScoreName /\ ~\E z \in U : IsLast(U, z)
  OBVIOUS
<1>6. CASE V = {}
  BY <1>2, <1>5, <1>6 DEF IsLast
<1>7. CASE V # {}
  <2>1. PICK z \in V : IsLast(V, z)
    BY <1>3, <1>4, <1>7
  <2> HIDE DEF F
  <2>2. z \in ScoreName /\ x \in ScoreName /\ z # x /\ z \in U
    BY <1>2, <1>5
  <2>3. CASE NamedAfter(x, z)
    BY <2>1, <2>2, <2>3, <1>5 DEF IsLast
  <2>4. CASE NamedAfter(z, x)
    <3>1. \A y \in V : NamedAfter(y, x)
      <4> TAKE y \in V
      <4>1. y = z \/ NamedAfter(y, z)
        BY <2>1 DEF IsLast
      <4>2. y \in ScoreName
        BY <1>5
      <4> QED BY <4>1, <4>2, <2>2, <2>4, NamesOrdered
    <3> QED BY <3>1, <1>2, <1>5 DEF IsLast
  <2> QED BY <2>2, <2>3, <2>4, NamesOrdered
<1> QED BY <1>6, <1>7

LEMMA SortExists ==
  ASSUME NEW T \in SUBSET ScoreName, IsFiniteSet(T)
  PROVE  \E q \in SetToSeqs(T) : Sorted(q)
<1> DEFINE F == {U \in SUBSET T : ~\E q \in SetToSeqs(U) : Sorted(q)}
<1> SUFFICES ASSUME F # {} PROVE FALSE
  OBVIOUS
<1>1. PICK U \in F : \A V \in F : V \subseteq U => V = U
  <2>1. F \in SUBSET SUBSET T
    OBVIOUS
  <2> HIDE DEF F
  <2> QED BY <2>1, SmallestSet
<1>2. /\ U \subseteq T /\ U \subseteq ScoreName /\ IsFiniteSet(U)
      /\ ~\E q \in SetToSeqs(U) : Sorted(q)
  BY FS_Subset
<1>3. CASE U = {}
  <2> DEFINE q == [i \in 1..0 |-> i]
  <2>1. Cardinality(U) = 0
    BY <1>3, FS_EmptySet
  <2>2. q \in SetToSeqs(U) /\ Sorted(q)
    BY <2>1 DEF SetToSeqs, Sorted
  <2> QED BY <1>2, <2>2
<1>4. CASE U # {}
  <2>1. PICK z \in U : IsLast(U, z)
    BY <1>2, <1>4, LastExists
  <2> DEFINE V == U \ {z}
             n == Cardinality(V)
  <2>2. V \subseteq T /\ V \subseteq U /\ V # U
    BY <1>2
  <2>3. PICK q \in SetToSeqs(V) : Sorted(q)
    BY <1>1, <2>2
  <2>4. n \in Nat /\ Cardinality(U) = n + 1
    <3>1. IsFiniteSet(V) /\ n = Cardinality(U) - 1
      BY <1>2, FS_RemoveElement
    <3>2. n \in Nat /\ Cardinality(U) \in Nat
      BY <3>1, <1>2, FS_CardinalityType
    <3> HIDE DEF n
    <3> QED BY <3>1, <3>2
  <2>5. /\ q \in [1..n -> V] /\ \A i, j \in 1..n : i # j => q[i] # q[j]
        /\ \A i, j \in 1..n : i < j => NamedAfter(q[i], q[j])
    BY <2>3 DEF SetToSeqs, Sorted
  <2>6. z \notin V /\ \A x \in V : NamedAfter(x, z)
    BY <2>1 DEF IsLast
  <2> HIDE DEF F, V, n
  <2> DEFINE p == [i \in 1..(n + 1) |-> IF i = n + 1 THEN z ELSE q[i]]
  <2>7. p \in [1..(n + 1) -> U]
    BY <2>2, <2>4, <2>5
  <2>8. ASSUME NEW i \in 1..(n + 1), NEW j \in 1..(n + 1), i < j
        PROVE  NamedAfter(p[i], p[j]) /\ p[i] # p[j]
    <3>1. i \in 1..n /\ p[i] = q[i] /\ q[i] \in V
      BY <2>4, <2>5, <2>8
    <3>2. CASE j = n + 1
      BY <3>1, <3>2, <2>6
    <3>3. CASE j # n + 1
      <4>1. j \in 1..n /\ p[j] = q[j] /\ i # j
        BY <3>3, <2>4, <2>8
      <4> HIDE DEF p
      <4> QED BY <4>1, <3>1, <2>5, <2>8
    <3> QED BY <3>2, <3>3
  <2> HIDE DEF p
  <2>9. \A i, j \in 1..(n + 1) : i # j => p[i] # p[j]
    <3> TAKE i \in 1..(n + 1), j \in 1..(n + 1)
    <3> HAVE i # j
    <3>1. i < j \/ j < i
      BY <2>4
    <3> QED BY <3>1, <2>8
  <2>10. p \in SetToSeqs(U)
    BY <2>4, <2>7, <2>9 DEF SetToSeqs
  <2>11. Sorted(p)
    BY <2>7, <2>8 DEF Sorted
  <2> QED BY <2>10, <2>11, <1>2
<1> QED BY <1>3, <1>4

(* What a worker reads through: the listed names, each of them, sorted.     *)
LEMMA SortedNamesAre ==
  ASSUME NEW T \in SUBSET ScoreName, IsFiniteSet(T), T # {}
  PROVE  LET q == SortedNames(T) IN
         /\ q \in Seq(T) /\ q \in Seq(ScoreName) /\ Len(q) >= 1
         /\ \A i, j \in 1..Len(q) : i < j => NamedAfter(q[i], q[j])
         /\ \A x \in T : \E i \in 1..Len(q) : q[i] = x
<1> DEFINE q == SortedNames(T)
           n == Cardinality(T)
<1>1. q \in SetToSeqs(T) /\ Sorted(q)
  <2>1. \E p \in SetToSeqs(T) : \A i, j \in DOMAIN p : i < j => NamedAfter(p[i], p[j])
    BY SortExists DEF Sorted
  <2> QED BY <2>1 DEF SortedNames, Sorted
<1>2. n \in Nat /\ n # 0
  BY FS_CardinalityType, FS_EmptySet
<1>3. q \in [1..n -> T] /\ \A i, j \in 1..n : i # j => q[i] # q[j]
  BY <1>1 DEF SetToSeqs
<1>4. \A x \in T : \E i \in 1..n : q[i] = x
  <2> HIDE DEF q
  <2>1. q \in Injection(1..n, T)
    BY <1>3 DEF Injection, IsInjective
  <2>2. IsFiniteSet(1..n) /\ Cardinality(1..n) = n
    <3> HIDE DEF n
    <3> QED BY <1>2, FS_Interval
  <2>3. q \in Surjection(1..n, T)
    BY <2>1, <2>2, FS_Injection
  <2> QED BY <2>3 DEF Surjection
<1> HIDE DEF q, n
<1>5. q \in Seq(T) /\ Len(q) = n
  BY <1>2, <1>3
<1>6. q \in Seq(ScoreName)
  BY <1>2, <1>3
<1>7. \A i, j \in 1..Len(q) : i < j => NamedAfter(q[i], q[j])
  BY <1>1, <1>3, <1>5 DEF Sorted
<1>8. Len(q) >= 1
  BY <1>2, <1>5
<1> QED BY <1>4, <1>5, <1>6, <1>7, <1>8 DEF q

-----------------------------------------------------------------------------
(* The names a worker reads through: in order, and every score that was     *)
(* there when it began among them.                                         *)
ReadsThrough(paths, start) ==
  /\ paths \in Seq(ScoreName)
  /\ \A i, j \in 1..Len(paths) : i < j => NamedAfter(paths[i], paths[j])
  /\ \A name \in start : \E i \in 1..Len(paths) : paths[i] = name

(* The rows are those of the first names. *)
RowsOf(rows, paths) ==
  \A i \in 1..Len(rows) : rows[i] = paths[i] \/ rows[i] = Garbage

RequestOK(r) ==
  /\ r \in Request
  /\ IsFiniteSet(r.atStart)
  /\ r.pc # "reading" => r.rows = <<>>
  /\ r.pc = "reading" =>
       /\ ReadsThrough(r.paths, r.atStart)
       /\ RowsOf(r.rows, r.paths)
       /\ Len(r.rows) < Len(r.paths) /\ Len(r.rows) < MaxEntries

BoardOK(b) ==
  /\ b \in Board
  /\ b.status # "OK" => b.rows = <<>>
  /\ b.status = "OK" =>
       \E paths \in Seq(ScoreName) :
         /\ ReadsThrough(paths, b.atStart)
         /\ RowsOf(b.rows, paths)
         /\ Len(b.rows) <= Len(paths)
         /\ Len(b.rows) = Len(paths) \/ Len(b.rows) = MaxEntries

StoreOK ==
  /\ now \in 0..MaxTime /\ wins \in 0..MaxWins
  /\ Names \subseteq ScoreName /\ IsFiniteSet(Names)
  /\ \A n \in Names : files[n] \in BOOLEAN
  /\ writing \in ScoreName \cup {NoFile}

RequestsOK ==
  /\ req \in [Workers -> Request]
  /\ \A w \in Workers : RequestOK(req[w])

ScoreboardInv == StoreOK /\ RequestsOK /\ BoardOK(board)

LEMMA IdleOK == RequestOK(Idle)
<1>1. Idle.pc = "idle" /\ Idle.atStart = {} /\ Idle.paths = <<>> /\ Idle.rows = <<>>
  BY DEF Idle
<1>2. Idle \in Request
  BY DEF Idle, Request
<1> QED BY <1>1, <1>2, FS_EmptySet DEF RequestOK

LEMMA StartsWell == Init => ScoreboardInv
<1> SUFFICES ASSUME Init PROVE ScoreboardInv
  OBVIOUS
<1>1. Names = {}
  BY DEF Init, Names
<1>2. StoreOK
  BY <1>1, BoundsAssumption, FS_EmptySet DEF Init, StoreOK
<1>3. RequestsOK
  <2>1. Idle \in Request /\ req = [w \in Workers |-> Idle]
    BY IdleOK DEF RequestOK, Init
  <2> QED BY <2>1, IdleOK DEF RequestsOK
<1>4. BoardOK(board)
  BY DEF Init, BoardOK, Board
<1> QED BY <1>2, <1>3, <1>4 DEF ScoreboardInv

(* A request replaced by a good one. *)
LEMMA Replaced ==
  ASSUME RequestsOK, NEW w \in Workers, NEW r, RequestOK(r),
         req' = [req EXCEPT ![w] = r]
  PROVE  RequestsOK'
<1>1. r \in Request
  BY DEF RequestOK
<1>2. req' \in [Workers -> Request]
  BY <1>1 DEF RequestsOK
<1>3. \A v \in Workers : req'[v] = IF v = w THEN r ELSE req[v]
  BY DEF RequestsOK
<1>4. \A v \in Workers : RequestOK(req'[v])
  BY <1>3 DEF RequestsOK
<1> QED BY <1>2, <1>4 DEF RequestsOK, RequestOK

LEMMA Answered ==
  ASSUME RequestsOK, NEW w \in Workers, NEW status, NEW rows, Answer(w, status, rows),
         BoardOK([status |-> status, atStart |-> req[w].atStart, rows |-> rows])
  PROVE  RequestsOK' /\ BoardOK(board')
<1>1. req' = [req EXCEPT ![w] = Idle]
  BY DEF Answer
<1>2. RequestsOK'
  BY <1>1, IdleOK, Replaced
<1>3. BoardOK(board')
  BY DEF Answer
<1> QED BY <1>2, <1>3

LEMMA EmptyBoard ==
  ASSUME RequestsOK, NEW w \in Workers
  PROVE  BoardOK([status |-> "EMPTY", atStart |-> req[w].atStart, rows |-> <<>>])
<1>1. req[w].atStart \in SUBSET ScoreName
  BY DEF RequestsOK, Request
<1> QED BY <1>1 DEF BoardOK, Board

(* The names are those of scores, and the limits are kept. *)
LEMMA OpenScoreKeeps ==
  ASSUME ScoreboardInv, NEW p \in Players, NEW win \in Wins, openScore(p, win)
  PROVE  StoreOK'
<1> DEFINE s == Score(win[1], win[2])
           name == [score |-> s, plid |-> p, tstamp |-> now]
<1>1. s \in 1..999
  <2>1. win[1] \in 1..GuessesMax /\ win[2] \in 0..(PlayTimeMax - 1)
    BY WinsAssumption
  <2> QED BY <2>1, TrialsAssumption, ScoreFits
<1>2. now \in Nat
  BY DEF ScoreboardInv, StoreOK
<1> HIDE DEF s
<1>3. name \in ScoreName
  BY <1>1, <1>2 DEF ScoreName
<1>4. /\ files' = [n \in Names \cup {name} |-> IF n = name THEN FALSE ELSE files[n]]
      /\ writing' = name /\ wins < MaxWins /\ wins' = wins + 1 /\ now' = now
  BY DEF openScore, s
<1> HIDE DEF name
<1>5. Names' = Names \cup {name}
  BY <1>4 DEF Names
<1>6. Names' \subseteq ScoreName /\ IsFiniteSet(Names')
  BY <1>3, <1>5, FS_AddElement DEF ScoreboardInv, StoreOK
<1>7. \A n \in Names' : files'[n] \in BOOLEAN
  BY <1>4, <1>5 DEF ScoreboardInv, StoreOK
<1>8. wins' \in 0..MaxWins /\ now' \in 0..MaxTime
  BY <1>4, BoundsAssumption DEF ScoreboardInv, StoreOK
<1> QED BY <1>3, <1>4, <1>6, <1>7, <1>8 DEF StoreOK

LEMMA WriteScoreKeeps ==
  ASSUME ScoreboardInv, writeScore
  PROVE  StoreOK'
<1>1. Names' = Names
  BY DEF writeScore, Names
<1>2. \A n \in Names' : files'[n] \in BOOLEAN
  BY <1>1 DEF ScoreboardInv, StoreOK, writeScore, Names
<1> QED BY <1>1, <1>2 DEF ScoreboardInv, StoreOK, writeScore

LEMMA StartListingKeeps ==
  ASSUME ScoreboardInv, NEW w \in Workers, startListing(w)
  PROVE  RequestsOK'
<1> DEFINE r == [Idle EXCEPT !.pc = "listing", !.atStart = Names]
<1>1. r.pc = "listing" /\ r.atStart = Names /\ r \in Request /\ r.rows = <<>>
  <2>1. Idle \in Request /\ Idle.rows = <<>>
    BY IdleOK DEF RequestOK, Idle
  <2>2. Names \in SUBSET ScoreName
    BY DEF ScoreboardInv, StoreOK
  <2> QED BY <2>1, <2>2 DEF Request
<1>2. req' = [req EXCEPT ![w] = r]
  BY DEF startListing
<1> HIDE DEF r
<1>3. RequestOK(r)
  BY <1>1 DEF RequestOK, ScoreboardInv, StoreOK
<1> QED BY <1>2, <1>3, Replaced DEF ScoreboardInv

LEMMA EndListingKeeps ==
  ASSUME ScoreboardInv, NEW w \in Workers, endListing(w)
  PROVE  RequestsOK' /\ BoardOK(board')
<1> USE DEF ScoreboardInv
<1>1. PICK listed \in Listed(w) :
        \/ listed = {} /\ Answer(w, "EMPTY", <<>>)
        \/ /\ listed # {}
           /\ req' = [req EXCEPT ![w].pc = "reading", ![w].paths = SortedNames(listed)]
           /\ UNCHANGED board
  BY DEF endListing
<1>2. CASE listed = {} /\ Answer(w, "EMPTY", <<>>)
  BY <1>2, Answered, EmptyBoard
<1>3. CASE /\ listed # {}
           /\ req' = [req EXCEPT ![w].pc = "reading", ![w].paths = SortedNames(listed)]
           /\ UNCHANGED board
  <2> DEFINE q == SortedNames(listed)
             old == req[w]
             r == [old EXCEPT !.pc = "reading", !.paths = q]
  <2>1. /\ old \in Request /\ IsFiniteSet(old.atStart) /\ old.atStart \subseteq ScoreName
        /\ old.pc = "listing" /\ old.rows = <<>>
    BY DEF RequestsOK, RequestOK, Request, endListing
  <2>2. listed \subseteq ScoreName /\ IsFiniteSet(listed) /\ old.atStart \subseteq listed
    <3>1. PICK s \in SUBSET (Names \ old.atStart) : listed = old.atStart \cup s
      BY DEF Listed
    <3>2. IsFiniteSet(s) /\ s \subseteq ScoreName
      BY FS_Subset DEF StoreOK
    <3> QED BY <3>1, <3>2, <2>1, FS_Union
  <2>3. /\ q \in Seq(ScoreName) /\ Len(q) >= 1
        /\ \A i, j \in 1..Len(q) : i < j => NamedAfter(q[i], q[j])
        /\ \A x \in listed : \E i \in 1..Len(q) : q[i] = x
    BY <1>3, <2>2, SortedNamesAre
  <2> HIDE DEF q
  <2>4. /\ r \in Request /\ r.pc = "reading" /\ r.atStart = old.atStart
        /\ r.paths = q /\ r.rows = old.rows
    BY <2>1, <2>3 DEF Request
  <2>5. req' = [req EXCEPT ![w] = r]
    BY <1>3 DEF q
  <2> HIDE DEF old, r
  <2>7. RequestOK(r)
    BY <2>1, <2>2, <2>3, <2>4, MaxEntriesAssumption DEF RequestOK, ReadsThrough, RowsOf
  <2>8. RequestsOK'
    BY <2>5, <2>7, Replaced
  <2> QED BY <1>3, <2>8
<1> QED BY <1>1, <1>2, <1>3

(* The row read is the next one of the sorted names.                       *)
LEMMA AddRowKeeps ==
  ASSUME ScoreboardInv, NEW w \in Workers, req[w].pc = "reading",
         NEW row, row \in {req[w].paths[Len(req[w].rows) + 1], Garbage}, AddRow(w, row)
  PROVE  RequestsOK' /\ BoardOK(board')
<1> DEFINE old == req[w]
           rows == Append(old.rows, row)
           paths == old.paths
<1>1. old \in Request /\ RequestOK(old) /\ RequestsOK /\ old.pc = "reading"
  BY DEF ScoreboardInv, RequestsOK
<1>2. /\ paths \in Seq(ScoreName) /\ old.rows \in Seq(ScoreName \cup {Garbage})
      /\ Len(old.rows) < Len(paths) /\ Len(old.rows) < MaxEntries
      /\ RowsOf(old.rows, paths) /\ ReadsThrough(paths, old.atStart)
      /\ old.atStart \in SUBSET ScoreName
  BY <1>1 DEF RequestOK, Request
<1>3. /\ AddRow(w, row) /\ row \in {paths[Len(old.rows) + 1], Garbage}
      /\ \/ IsLastRow(old) /\ Answer(w, "OK", rows)
         \/ /\ ~IsLastRow(old)
            /\ req' = [req EXCEPT ![w].rows = rows]
            /\ UNCHANGED board
  BY DEF AddRow
<1> DEFINE b == [status |-> "OK", atStart |-> old.atStart, rows |-> rows]
           r == [old EXCEPT !.rows = rows]
<1>4. ~IsLastRow(old) => req' = [req EXCEPT ![w] = r]
  BY <1>3, <1>1 DEF ScoreboardInv, RequestsOK
<1>5. IsLastRow(old) <=> Len(old.rows) + 1 = Len(paths) \/ Len(old.rows) + 1 = MaxEntries
  BY DEF IsLastRow
<1>6. b.status = "OK" /\ b.atStart = old.atStart /\ b.rows = rows
  OBVIOUS
<1>7. /\ r.pc = old.pc /\ r.atStart = old.atStart /\ r.paths = paths /\ r.rows = rows
      /\ rows \in Seq(ScoreName \cup {Garbage}) => r \in Request /\ b \in Board
  BY <1>1, <1>2 DEF Request, Board
<1> DEFINE n == Len(old.rows)
<1>8. /\ rows \in Seq(ScoreName \cup {Garbage}) /\ Len(rows) = n + 1
      /\ \A i \in 1..(n + 1) : rows[i] = IF i = n + 1 THEN row ELSE old.rows[i]
  <2>1. row \in ScoreName \cup {Garbage}
    <3>1. n + 1 \in 1..Len(paths)
      BY <1>2
    <3> QED BY <3>1, <1>2, <1>3
  <2> DEFINE rs == old.rows
  <2>2. rs \in Seq(ScoreName \cup {Garbage}) /\ row \in ScoreName \cup {Garbage}
    BY <2>1, <1>2
  <2> HIDE DEF old
  <2>3. /\ Append(rs, row) \in Seq(ScoreName \cup {Garbage})
        /\ Len(Append(rs, row)) = Len(rs) + 1
        /\ \A i \in 1..Len(rs) : Append(rs, row)[i] = rs[i]
        /\ Append(rs, row)[Len(rs) + 1] = row
    <3> HIDE DEF rs
    <3> QED BY <2>2, AppendProperties
  <2>4. Len(rs) \in Nat
    BY <2>2
  <2> QED BY <2>3, <2>4
<1>9. n \in Nat /\ MaxEntries \in Nat /\ Len(paths) \in Nat /\ n < Len(paths) /\ n < MaxEntries
  BY <1>2, MaxEntriesAssumption
<1>10. row = paths[n + 1] \/ row = Garbage
  BY <1>3
<1>11. \A i \in 1..n : old.rows[i] = paths[i] \/ old.rows[i] = Garbage
  BY <1>2 DEF RowsOf
<1> HIDE DEF rows, n
<1>12. RowsOf(rows, paths)
  <2> SUFFICES ASSUME NEW i \in 1..(n + 1)
               PROVE  rows[i] = paths[i] \/ rows[i] = Garbage
    BY <1>8 DEF RowsOf
  <2>1. CASE i = n + 1
    BY <2>1, <1>8, <1>9, <1>10
  <2>2. CASE i # n + 1
    BY <2>2, <1>8, <1>9, <1>11
  <2> QED BY <2>1, <2>2
<1> HIDE DEF b, r, old, paths
<1>13. CASE IsLastRow(old) /\ Answer(w, "OK", rows)
  <2>1. n + 1 = Len(paths) \/ n + 1 = MaxEntries
    BY <1>13, <1>5 DEF n
  <2>2. BoardOK(b)
    BY <2>1, <1>2, <1>6, <1>7, <1>8, <1>9, <1>12 DEF BoardOK
  <2>3. b = [status |-> "OK", atStart |-> req[w].atStart, rows |-> rows]
    BY DEF b, old
  <2> QED BY <2>2, <2>3, <1>1, <1>13, Answered
<1>14. CASE /\ ~IsLastRow(old)
            /\ req' = [req EXCEPT ![w].rows = rows]
            /\ UNCHANGED board
  <2>1. n + 1 # Len(paths) /\ n + 1 # MaxEntries
    BY <1>14, <1>5 DEF n
  <2>2. n + 1 < Len(paths) /\ n + 1 < MaxEntries
    BY <2>1, <1>9
  <2>3. RequestOK(r)
    BY <2>2, <1>1, <1>2, <1>7, <1>8, <1>12 DEF RequestOK
  <2>4. RequestsOK'
    BY <2>3, <1>1, <1>4, <1>14, Replaced
  <2> QED BY <2>4, <1>14 DEF ScoreboardInv
<1> QED BY <1>3, <1>13, <1>14

LEMMA ReadEntryKeeps ==
  ASSUME ScoreboardInv, NEW w \in Workers, readEntry(w)
  PROVE  RequestsOK' /\ BoardOK(board')
<1> DEFINE name == req[w].paths[Len(req[w].rows) + 1]
<1>1. /\ req[w].pc = "reading"
      /\ AddRow(w, name) \/ AddRow(w, Garbage) \/ Answer(w, "EMPTY", <<>>)
  BY DEF readEntry
<1> HIDE DEF name
<1>2. CASE AddRow(w, name)
  BY <1>1, <1>2, AddRowKeeps DEF name
<1>3. CASE AddRow(w, Garbage)
  BY <1>1, <1>3, AddRowKeeps
<1>4. CASE Answer(w, "EMPTY", <<>>)
  BY <1>4, Answered, EmptyBoard DEF ScoreboardInv
<1> QED BY <1>1, <1>2, <1>3, <1>4

LEMMA UnreadableKeeps ==
  ASSUME ScoreboardInv, NEW w \in Workers, unreadableRequest(w)
  PROVE  RequestsOK' /\ BoardOK(board')
BY Answered, EmptyBoard DEF ScoreboardInv, unreadableRequest

LEMMA ScoreboardStep == ScoreboardInv /\ [Next]_vars => ScoreboardInv'
<1> SUFFICES ASSUME ScoreboardInv, [Next]_vars PROVE ScoreboardInv'
  OBVIOUS
<1>1. CASE Tick
  <2>1. StoreOK'
    BY <1>1, BoundsAssumption DEF Tick, ScoreboardInv, StoreOK, Names
  <2>2. RequestsOK' /\ BoardOK(board')
    BY <1>1 DEF Tick, ScoreboardInv, RequestsOK
  <2> QED BY <2>1, <2>2 DEF ScoreboardInv
<1>2. ASSUME NEW p \in Players, NEW win \in Wins, openScore(p, win) PROVE ScoreboardInv'
  <2>1. StoreOK'
    BY <1>2, OpenScoreKeeps
  <2>2. RequestsOK' /\ BoardOK(board')
    BY <1>2 DEF openScore, ScoreboardInv, RequestsOK
  <2> QED BY <2>1, <2>2 DEF ScoreboardInv
<1>3. CASE writeScore
  <2>1. StoreOK'
    BY <1>3, WriteScoreKeeps
  <2>2. RequestsOK' /\ BoardOK(board')
    BY <1>3 DEF writeScore, ScoreboardInv, RequestsOK
  <2> QED BY <2>1, <2>2 DEF ScoreboardInv
<1>4. ASSUME NEW w \in Workers,
             startListing(w) \/ unreadableRequest(w) \/ endListing(w) \/ readEntry(w)
      PROVE  ScoreboardInv'
  <2>1. now' = now /\ files' = files /\ writing' = writing /\ wins' = wins
    BY <1>4 DEF startListing, unreadableRequest, endListing, readEntry
  <2>2. StoreOK'
    BY <2>1 DEF ScoreboardInv, StoreOK, Names
  <2>3. CASE startListing(w)
    <3>1. board' = board
      BY <2>3 DEF startListing
    <3> QED BY <3>1, <2>2, <2>3, StartListingKeeps DEF ScoreboardInv
  <2>4. CASE unreadableRequest(w)
    BY <2>2, <2>4, UnreadableKeeps DEF ScoreboardInv
  <2>5. CASE endListing(w)
    BY <2>2, <2>5, EndListingKeeps DEF ScoreboardInv
  <2>6. CASE readEntry(w)
    BY <2>2, <2>6, ReadEntryKeeps DEF ScoreboardInv
  <2> QED BY <1>4, <2>3, <2>4, <2>5, <2>6
<1>5. CASE UNCHANGED vars
  BY <1>5 DEF vars, ScoreboardInv, StoreOK, RequestsOK, Names
<1> QED BY <1>1, <1>2, <1>3, <1>4, <1>5 DEF Next

LEMMA ScoreboardInvariant == Spec => []ScoreboardInv
<1> QED BY StartsWell, ScoreboardStep, PTL DEF Spec

(* The types, with every score of one to three digits: a name can be       *)
(* parsed and sorted.                                                      *)
THEOREM TypeCorrect == Spec => []TypeOK
<1>1. ScoreboardInv => TypeOK
  BY DEF ScoreboardInv, StoreOK, RequestsOK, BoardOK, TypeOK
<1> QED BY <1>1, ScoreboardInvariant, PTL

(* getScoreboard: a score that was there when the listing began is on a    *)
(* board without garbage, or the board is full of names that sort before   *)
(* it, for any number of players, workers, wins and rows.                  *)
THEOREM BoardIsComplete == Spec => []BoardComplete
<1>1. ScoreboardInv => BoardComplete
  <2> SUFFICES ASSUME ScoreboardInv, FullyRead, NEW name \in board.atStart, ~OnBoard(name)
               PROVE  /\ Len(board.rows) = MaxEntries
                      /\ \A i \in 1..MaxEntries : NamedAfter(board.rows[i], name)
    BY DEF BoardComplete
  <2> DEFINE rows == board.rows
  <2>1. PICK paths \in Seq(ScoreName) :
          /\ ReadsThrough(paths, board.atStart)
          /\ RowsOf(rows, paths)
          /\ Len(rows) <= Len(paths)
          /\ Len(rows) = Len(paths) \/ Len(rows) = MaxEntries
    BY DEF ScoreboardInv, BoardOK, FullyRead
  <2>2. PICK k \in 1..Len(paths) : paths[k] = name
    BY <2>1 DEF ReadsThrough
  <2>3. \A i \in 1..Len(rows) : rows[i] = paths[i]
    BY <2>1 DEF RowsOf, FullyRead
  <2>4. k \notin 1..Len(rows)
    BY <2>2, <2>3 DEF OnBoard
  <2>5. rows \in Seq(ScoreName \cup {Garbage}) /\ Len(rows) \in Nat /\ Len(paths) \in Nat
    BY DEF ScoreboardInv, BoardOK, Board
  <2> HIDE DEF rows
  <2>6. Len(rows) < k
    BY <2>4, <2>5
  <2>7. Len(rows) = MaxEntries
    BY <2>1, <2>5, <2>6
  <2>8. \A i \in 1..MaxEntries : NamedAfter(paths[i], paths[k])
    BY <2>1, <2>5, <2>6, <2>7 DEF ReadsThrough
  <2>9. \A i \in 1..MaxEntries : NamedAfter(rows[i], name)
    BY <2>2, <2>3, <2>7, <2>8
  <2> QED BY <2>7, <2>9 DEF rows
<1> QED BY <1>1, ScoreboardInvariant, PTL

(* getScoreboard: the scores of three digits are in descending order on    *)
(* every board, whatever was saved while it was built.                     *)
THEOREM LongOnesDescend == Spec => []LongScoresDescend
<1>1. ScoreboardInv => LongScoresDescend
  <2> SUFFICES ASSUME ScoreboardInv, NEW i \in 1..Len(board.rows), NEW j \in 1..Len(board.rows),
                      i < j /\ board.rows[i] # Garbage /\ board.rows[j] # Garbage
                        /\ board.rows[i].score >= 100 /\ board.rows[j].score >= 100
               PROVE  board.rows[i].score >= board.rows[j].score
    BY DEF LongScoresDescend
  <2>1. board.status = "OK"
    BY DEF ScoreboardInv, BoardOK
  <2> DEFINE rows == board.rows
  <2>2. PICK paths \in Seq(ScoreName) :
          /\ ReadsThrough(paths, board.atStart)
          /\ RowsOf(rows, paths)
          /\ Len(rows) <= Len(paths)
    BY <2>1 DEF ScoreboardInv, BoardOK
  <2>3. rows[i] = paths[i] /\ rows[j] = paths[j]
    BY <2>2 DEF RowsOf
  <2>4. rows \in Seq(ScoreName \cup {Garbage}) /\ Len(rows) \in Nat /\ Len(paths) \in Nat
    BY DEF ScoreboardInv, BoardOK, Board
  <2>5. i \in 1..Len(rows) /\ j \in 1..Len(rows) /\ i < j
    OBVIOUS
  <2> HIDE DEF rows
  <2>6. i \in 1..Len(paths) /\ j \in 1..Len(paths)
    BY <2>2, <2>4, <2>5
  <2>7. NamedAfter(paths[i], paths[j]) /\ paths[i] \in ScoreName /\ paths[j] \in ScoreName
    BY <2>2, <2>5, <2>6 DEF ReadsThrough
  <2> QED BY <2>3, <2>7, LaterIsLarger DEF rows
<1> QED BY <1>1, ScoreboardInvariant, PTL
=============================================================================

--------------------------- MODULE GameRulesProofs ---------------------------
(***************************************************************************)
(* What the formulas of the server compute, for any number of colours,     *)
(* positions, trials and seconds: the range of a score, and that the       *)
(* feedback of GameStore::calculateAttempt is the best pairing of the      *)
(* guess with the key.  The proof lays the pegs of the feedback on         *)
(* positions of the guess (LaidOut): of every colour they are as many as   *)
(* can be paired at all, so no arrangement of the key pairs more, and the  *)
(* positions paired with them extend to an arrangement of the whole key.   *)
(***************************************************************************)
EXTENDS GameRules, FiniteSetTheorems, TLAPS

(* The two parts of a score. *)
ForTrials(used) == CDiv((GuessesMax - used * used) * 100, GuessesMax)

ForTime(time) == CDiv((PlayTimeMax - time) * 211, PlayTimeMax)

LEMMA ScoreIs ==
  \A used, time : Score(used, time) = 701 + ForTrials(used) + ForTime(time)
BY DEF Score, ForTrials, ForTime

LEMMA TrialPoints ==
  ASSUME GuessesMax <= 8, NEW used \in 1..GuessesMax
  PROVE  /\ ForTrials(used) \in Int
         /\ 0 - 700 <= ForTrials(used) /\ ForTrials(used) <= 87
         /\ used < GuessesMax =>
              ForTrials(used + 1) \in Int /\ ForTrials(used + 1) < ForTrials(used)
<1>1. \/ GuessesMax = 1 \/ GuessesMax = 2 \/ GuessesMax = 3 \/ GuessesMax = 4
      \/ GuessesMax = 5 \/ GuessesMax = 6 \/ GuessesMax = 7 \/ GuessesMax = 8
  BY GuessesMaxAssumption
<1>2. \/ used = 1 \/ used = 2 \/ used = 3 \/ used = 4
      \/ used = 5 \/ used = 6 \/ used = 7 \/ used = 8
  BY <1>1
<1> QED BY <1>1, <1>2 DEF ForTrials, CDiv

LEMMA TimePoints ==
  ASSUME NEW time \in 0..(PlayTimeMax - 1)
  PROVE  ForTime(time) \in 0..211
BY PlayTimeMaxAssumption DEF ForTime, CDiv

LEMMA TimeCosts ==
  ASSUME NEW time \in 0..(PlayTimeMax - 1), time + 1 \in 0..(PlayTimeMax - 1)
  PROVE  ForTime(time + 1) <= ForTime(time)
BY PlayTimeMaxAssumption DEF ForTime, CDiv

(* saveGameScore: eight trials are the most for which the score of every   *)
(* won game has one to three digits; with eight both ends are reached.     *)
THEOREM ScoreFits ==
  ASSUME GuessesMax <= 8, NEW used \in 1..GuessesMax, NEW time \in 0..(PlayTimeMax - 1)
  PROVE  Score(used, time) \in 1..999
<1>1. Score(used, time) = 701 + ForTrials(used) + ForTime(time)
  BY ScoreIs
<1>2. /\ ForTrials(used) \in Int /\ 0 - 700 <= ForTrials(used) /\ ForTrials(used) <= 87
  BY TrialPoints
<1>3. ForTime(time) \in Int /\ 0 <= ForTime(time) /\ ForTime(time) <= 211
  BY TimePoints
<1> DEFINE a == ForTrials(used)
           b == ForTime(time)
<1> HIDE DEF a, b
<1>4. a \in Int /\ b \in Int /\ 0 - 700 <= a /\ a <= 87 /\ 0 <= b /\ b <= 211
  BY <1>2, <1>3 DEF a, b
<1>5. 1 <= 701 + a + b /\ 701 + a + b <= 999 /\ 701 + a + b \in Int
  BY <1>4
<1>6. 701 + a + b \in 1..999
  BY <1>5
<1> QED BY <1>1, <1>6 DEF a, b

(* A trial more always costs something, a second more never pays.          *)
LEMMA FewerTrialsScoreMore ==
  ASSUME GuessesMax <= 8, NEW used \in 1..GuessesMax, NEW time \in 0..(PlayTimeMax - 1)
  PROVE  /\ used < GuessesMax => Score(used + 1, time) < Score(used, time)
         /\ time + 1 < PlayTimeMax => Score(used, time + 1) <= Score(used, time)
<1>1. /\ Score(used, time) = 701 + ForTrials(used) + ForTime(time)
      /\ Score(used + 1, time) = 701 + ForTrials(used + 1) + ForTime(time)
      /\ Score(used, time + 1) = 701 + ForTrials(used) + ForTime(time + 1)
  BY ScoreIs
<1>2. ForTrials(used) \in Int /\ ForTime(time) \in Int
  BY TrialPoints, TimePoints
<1>3. used < GuessesMax => ForTrials(used + 1) \in Int /\ ForTrials(used + 1) < ForTrials(used)
  BY TrialPoints
<1>4. time + 1 < PlayTimeMax => ForTime(time + 1) \in Int /\ ForTime(time + 1) <= ForTime(time)
  BY TimePoints, TimeCosts, PlayTimeMaxAssumption
<1> QED BY <1>1, <1>2, <1>3, <1>4

-----------------------------------------------------------------------------
(* The pegs of a feedback on the positions of the codes. *)

LEMMA PositionsFinite == IsFiniteSet(Positions) /\ Cardinality(Positions) = KeyLen
  BY FS_Interval, KeyLenAssumption DEF Positions

(* The positions that are black, and the others with a colour. *)
Off(key, att) == Positions \ OnPosition(key, att)

OffOf(code, key, att, c) == {i \in Off(key, att) : code[i] = c}

LEMMA PlacesFinite ==
  ASSUME NEW key, NEW att
  PROVE  /\ IsFiniteSet(OnPosition(key, att)) /\ IsFiniteSet(Off(key, att))
         /\ Cardinality(OnPosition(key, att)) \in Nat
         /\ Cardinality(Off(key, att)) = KeyLen - Cardinality(OnPosition(key, att))
         /\ \A code, c :
              /\ IsFiniteSet(OffOf(code, key, att, c))
              /\ OffCount(code, key, att, c) = Cardinality(OffOf(code, key, att, c))
              /\ OffCount(code, key, att, c) \in Nat
<1>1. OnPosition(key, att) \in SUBSET Positions /\ Off(key, att) \in SUBSET Positions
  BY DEF OnPosition, Off
<1>2. IsFiniteSet(OnPosition(key, att)) /\ IsFiniteSet(Off(key, att))
  BY <1>1, PositionsFinite, FS_Subset
<1>3. Cardinality(Off(key, att)) = KeyLen - Cardinality(OnPosition(key, att))
  <2>1. Positions \cap OnPosition(key, att) = OnPosition(key, att)
    BY <1>1
  <2>2. Cardinality(Off(key, att))
          = Cardinality(Positions) - Cardinality(Positions \cap OnPosition(key, att))
    BY <1>2, PositionsFinite, FS_Difference DEF Off
  <2> QED BY <2>1, <2>2, PositionsFinite
<1>4. ASSUME NEW code, NEW c
      PROVE  /\ IsFiniteSet(OffOf(code, key, att, c))
             /\ OffCount(code, key, att, c) = Cardinality(OffOf(code, key, att, c))
  <2>1. OffOf(code, key, att, c) \in SUBSET Off(key, att)
    BY DEF OffOf
  <2>2. IsFiniteSet(OffOf(code, key, att, c))
    BY <1>2, <2>1, FS_Subset
  <2> QED BY <2>2 DEF OffCount, OffOf, Off
<1> QED BY <1>2, <1>3, <1>4, FS_CardinalityType

(* The white pegs can be laid on positions of either code that are not     *)
(* black and have the colour of the peg, each on its own.                  *)
LEMMA PegsPlaced ==
  ASSUME NEW key, NEW att, NEW code, code = key \/ code = att
  PROVE  \E f \in [WhitePegs(key, att) -> Off(key, att)] :
           /\ IsInjective(f)
           /\ \A peg \in WhitePegs(key, att) : code[f[peg]] = peg[1]
<1> DEFINE Pegs == WhitePegs(key, att)
           Of(c) == OffOf(code, key, att, c)
           Rank(c) == CHOOSE b \in [1..Cardinality(Of(c)) -> Of(c)] : IsInjective(b)
           f == [peg \in Pegs |-> Rank(peg[1])[peg[2]]]
<1>1. ASSUME NEW c
      PROVE  /\ OffCount(code, key, att, c) = Cardinality(Of(c))
             /\ Cardinality(Of(c)) \in Nat
             /\ Rank(c) \in [1..Cardinality(Of(c)) -> Of(c)] /\ IsInjective(Rank(c))
  <2>1. IsFiniteSet(Of(c)) /\ OffCount(code, key, att, c) = Cardinality(Of(c))
    BY PlacesFinite
  <2>2. \E b \in [1..Cardinality(Of(c)) -> Of(c)] : IsInjective(b)
    BY <2>1, FS_CardinalityType DEF ExistsBijection, Bijection, Injection
  <2> QED BY <2>1, <2>2, FS_CardinalityType
<1>2. ASSUME NEW peg \in Pegs
      PROVE  /\ peg \in Colors \X Positions
             /\ peg[2] \in 1..Cardinality(Of(peg[1]))
             /\ f[peg] \in Of(peg[1])
  <2>1. peg \in Colors \X Positions /\ peg[2] <= OffCount(code, key, att, peg[1])
    BY DEF WhitePegs
  <2>2. peg[2] \in Nat /\ peg[2] >= 1
    BY <2>1, KeyLenAssumption DEF Positions
  <2>3. peg[2] \in 1..Cardinality(Of(peg[1]))
    <3> HIDE DEF Of
    <3> QED BY <1>1, <2>1, <2>2
  <2>4. Rank(peg[1])[peg[2]] \in Of(peg[1])
    <3> HIDE DEF Of, Rank
    <3> QED BY <1>1, <2>3
  <2> QED BY <2>1, <2>3, <2>4
<1>3. \A peg \in Pegs : f[peg] \in Off(key, att) /\ code[f[peg]] = peg[1]
  BY <1>2 DEF OffOf
<1>4. ASSUME NEW p \in Pegs, NEW q \in Pegs, f[p] = f[q]
      PROVE  p = q
  <2>1. p[1] = q[1]
    <3>1. code[f[p]] = p[1] /\ code[f[q]] = q[1]
      BY <1>3
    <3> HIDE DEF f
    <3> QED BY <1>4, <3>1
  <2>2. f[p] = Rank(p[1])[p[2]] /\ f[q] = Rank(q[1])[q[2]]
    OBVIOUS
  <2>3. p[2] = q[2]
    <3>1. Rank(p[1])[p[2]] = Rank(p[1])[q[2]]
      BY <1>4, <2>1, <2>2
    <3>2. p[2] \in 1..Cardinality(Of(p[1])) /\ q[2] \in 1..Cardinality(Of(p[1]))
      BY <1>2, <2>1
    <3> HIDE DEF Rank, Of
    <3> QED BY <1>1, <3>1, <3>2 DEF IsInjective
  <2>4. p \in Colors \X Positions /\ q \in Colors \X Positions
    BY <1>2
  <2> HIDE DEF f, Rank, Of, Pegs
  <2> QED BY <2>1, <2>3, <2>4
<1>5. f \in [Pegs -> Off(key, att)] /\ DOMAIN f = Pegs
  BY <1>3
<1> HIDE DEF f
<1>6. IsInjective(f)
  BY <1>4, <1>5 DEF IsInjective
<1> QED BY <1>3, <1>5, <1>6

(* The feedback counts are natural numbers. *)
LEMMA FeedbackType ==
  ASSUME NEW key, NEW att
  PROVE  IsFiniteSet(WhitePegs(key, att)) /\ Whites(key, att) \in Nat /\ Blacks(key, att) \in Nat
<1>1. IsFiniteSet(Colors \X Positions)
  BY PositionsFinite, FS_Product, ColorsAssumption
<1>2. WhitePegs(key, att) \in SUBSET (Colors \X Positions)
  BY DEF WhitePegs
<1> QED BY <1>1, <1>2, PlacesFinite, FS_Subset, FS_CardinalityType DEF Whites, Blacks

(* No more pegs are shown than the code has positions. *)
LEMMA PegsFit ==
  ASSUME NEW key, NEW att
  PROVE  Blacks(key, att) + Whites(key, att) <= KeyLen
<1>1. PICK f \in [WhitePegs(key, att) -> Off(key, att)] : IsInjective(f)
  BY PegsPlaced
<1>2. Whites(key, att) <= Cardinality(Off(key, att))
  BY <1>1, PlacesFinite, FS_Injection DEF Whites, Injection
<1> QED BY <1>2, PlacesFinite, FeedbackType, KeyLenAssumption DEF Blacks

-----------------------------------------------------------------------------
(* Pairings. *)

(* A finite set fits into one with as many elements. *)
LEMMA FitsInto ==
  ASSUME NEW A, NEW B, IsFiniteSet(A), IsFiniteSet(B), Cardinality(A) <= Cardinality(B)
  PROVE  \E f \in [A -> B] : IsInjective(f)
<1> DEFINE a == Cardinality(A)
           b == Cardinality(B)
<1>1. a \in Nat /\ b \in Nat /\ a <= b
  BY FS_CardinalityType
<1>2. PICK count \in [1..a -> A] : IsInjective(count) /\ \A x \in A : \E n \in 1..a : count[n] = x
  BY FS_CardinalityType DEF ExistsBijection, Bijection, Injection, Surjection
<1>3. PICK place \in [1..b -> B] : IsInjective(place)
  BY FS_CardinalityType DEF ExistsBijection, Bijection, Injection
<1> DEFINE Number(x) == CHOOSE n \in 1..a : count[n] = x
<1>4. \A x \in A : Number(x) \in 1..a /\ count[Number(x)] = x
  BY <1>2
<1> HIDE DEF a, b, Number
<1>5. \A x \in A : Number(x) \in 1..b
  BY <1>1, <1>4
<1> DEFINE f == [x \in A |-> place[Number(x)]]
<1>6. f \in [A -> B]
  BY <1>3, <1>5
<1>7. ASSUME NEW x \in A, NEW y \in A, f[x] = f[y] PROVE x = y
  <2>1. place[Number(x)] = place[Number(y)]
    BY <1>7
  <2>2. Number(x) = Number(y)
    BY <1>3, <1>5, <2>1 DEF IsInjective
  <2> QED BY <1>4, <2>2
<1>8. IsInjective(f)
  <2>1. DOMAIN f = A
    OBVIOUS
  <2> HIDE DEF f
  <2> QED BY <1>7, <2>1 DEF IsInjective
<1> QED BY <1>6, <1>8

(* A pairing of some of the elements of a finite set extends to all.       *)
LEMMA ExtendsToAll ==
  ASSUME NEW S, IsFiniteSet(S), NEW D \in SUBSET S,
         NEW g \in [D -> S], IsInjective(g)
  PROVE  \E p \in Bijection(S, S) : \A x \in D : p[x] = g[x]
<1> DEFINE R == {g[x] : x \in D}
<1>1. R \in SUBSET S
  OBVIOUS
<1>2. IsFiniteSet(D) /\ IsFiniteSet(R) /\ IsFiniteSet(S \ D) /\ IsFiniteSet(S \ R)
  BY <1>1, FS_Subset
<1>3. g \in Bijection(D, R)
  BY DEF Bijection, Injection, Surjection, IsInjective
<1>4. Cardinality(R) = Cardinality(D)
  BY <1>2, <1>3, FS_Bijection DEF ExistsBijection
<1>5. Cardinality(S \ D) = Cardinality(S) - Cardinality(D)
  <2>1. S \cap D = D
    OBVIOUS
  <2> QED BY <1>2, <2>1, FS_Difference
<1>6. Cardinality(S \ R) = Cardinality(S) - Cardinality(R)
  <2>1. S \cap R = R
    BY <1>1
  <2> HIDE DEF R
  <2> QED BY <1>2, <2>1, FS_Difference
<1> HIDE DEF R
<1>7. PICK h : h \in Bijection(S \ D, S \ R)
  BY <1>2, <1>4, <1>5, <1>6, FS_SameCardinalityBij DEF ExistsBijection
<1>8. /\ g \in [D -> R] /\ \A x, y \in D : g[x] = g[y] => x = y
      /\ \A z \in R : \E x \in D : g[x] = z
  BY <1>3 DEF Bijection, Injection, Surjection, IsInjective
<1>9. /\ h \in [S \ D -> S \ R] /\ \A x, y \in S \ D : h[x] = h[y] => x = y
      /\ \A z \in S \ R : \E x \in S \ D : h[x] = z
  BY <1>7 DEF Bijection, Injection, Surjection, IsInjective
<1> DEFINE p == [x \in S |-> IF x \in D THEN g[x] ELSE h[x]]
<1>10. /\ \A x \in D : p[x] = g[x] /\ p[x] \in R
       /\ \A x \in S \ D : p[x] = h[x] /\ p[x] \in S \ R
  BY <1>8, <1>9
<1>11. p \in [S -> S]
  BY <1>1, <1>8, <1>9
<1> HIDE DEF p
<1>12. \A x, y \in S : p[x] = p[y] => x = y
  BY <1>8, <1>9, <1>10
<1>13. \A z \in S : \E x \in S : p[x] = z
  BY <1>1, <1>8, <1>9, <1>10
<1>14. p \in Bijection(S, S)
  BY <1>11, <1>12, <1>13 DEF Bijection, Injection, Surjection, IsInjective
<1> QED BY <1>10, <1>14

(* The positions in S with a peg of the colour c. *)
OfColour(code, S, c) == {i \in S : code[i] = c}

LEMMA DisjointSum ==
  ASSUME NEW A, NEW B, IsFiniteSet(A), IsFiniteSet(B), A \cap B = {}
  PROVE  IsFiniteSet(A \cup B) /\ Cardinality(A \cup B) = Cardinality(A) + Cardinality(B)
<1>1. Cardinality(A \cap B) = 0
  BY FS_EmptySet
<1>2. Cardinality(A) \in Nat /\ Cardinality(B) \in Nat
  BY FS_CardinalityType
<1>3. /\ IsFiniteSet(A \cup B)
      /\ Cardinality(A \cup B) = Cardinality(A) + Cardinality(B) - Cardinality(A \cap B)
  BY FS_Union
<1> QED BY <1>1, <1>2, <1>3

(* How often a colour occurs: on the black positions and on the others. *)
LEMMA ColourCount ==
  ASSUME NEW key, NEW att, NEW code, code = key \/ code = att, NEW c
  PROVE  /\ IsFiniteSet(OfColour(code, Positions, c))
         /\ Cardinality(OfColour(code, Positions, c))
              = Cardinality(OfColour(att, OnPosition(key, att), c)) + OffCount(code, key, att, c)
         /\ Cardinality(OfColour(att, OnPosition(key, att), c)) \in Nat
<1> DEFINE A == OfColour(att, OnPosition(key, att), c)
           B == OffOf(code, key, att, c)
<1>1. A \cap B = {} /\ A \cup B = OfColour(code, Positions, c)
  BY DEF OfColour, OffOf, Off, OnPosition
<1>2. IsFiniteSet(A) /\ IsFiniteSet(B)
  <2>1. A \in SUBSET OnPosition(key, att)
    BY DEF OfColour
  <2> QED BY <2>1, PlacesFinite, FS_Subset
<1>3. OffCount(code, key, att, c) = Cardinality(B)
  BY PlacesFinite
<1>4. IsFiniteSet(A \cup B) /\ Cardinality(A \cup B) = Cardinality(A) + Cardinality(B)
  <2> HIDE DEF A, B
  <2> QED BY <1>1, <1>2, DisjointSum
<1> QED BY <1>1, <1>2, <1>3, <1>4, FS_CardinalityType

(* The pegs of the feedback, laid on positions of the guess: as many as    *)
(* there are pegs, each paired with a position of the key of its own, and  *)
(* of every colour as many as can be paired at all.                        *)
LEMMA LaidOut ==
  ASSUME NEW key \in Code, NEW att \in Code
  PROVE  \E D \in SUBSET Positions :
           /\ Cardinality(D) = Blacks(key, att) + Whites(key, att)
           /\ \E g \in [D -> Positions] :
                IsInjective(g) /\ \A i \in D : key[g[i]] = att[i]
           /\ \A c \in Colors : \E code \in {key, att} :
                Cardinality(OfColour(att, D, c)) = Cardinality(OfColour(code, Positions, c))
<1> DEFINE Pegs == WhitePegs(key, att)
           On == OnPosition(key, att)
<1>1. PICK fa \in [Pegs -> Off(key, att)] :
        IsInjective(fa) /\ \A peg \in Pegs : att[fa[peg]] = peg[1]
  BY PegsPlaced
<1>2. PICK fk \in [Pegs -> Off(key, att)] :
        IsInjective(fk) /\ \A peg \in Pegs : key[fk[peg]] = peg[1]
  BY PegsPlaced
<1> DEFINE W == {fa[peg] : peg \in Pegs}
           D == On \cup W
<1>3. /\ W \in SUBSET Off(key, att) /\ On \in SUBSET Positions
      /\ Off(key, att) \in SUBSET Positions /\ On \cap Off(key, att) = {}
  BY <1>1 DEF OnPosition, Off
<1>4. /\ \A p, q \in Pegs : fa[p] = fa[q] => p = q
      /\ \A p, q \in Pegs : fk[p] = fk[q] => p = q
  BY <1>1, <1>2 DEF IsInjective
<1>5. Cardinality(D) = Blacks(key, att) + Whites(key, att)
  <2>1. fa \in Bijection(Pegs, W)
    BY <1>1 DEF Bijection, Injection, Surjection, IsInjective
  <2>2. IsFiniteSet(W) /\ Cardinality(W) = Whites(key, att)
    BY <2>1, FeedbackType, FS_Bijection DEF ExistsBijection, Whites
  <2>3. On \cap W = {}
    BY <1>3
  <2> HIDE DEF W
  <2> QED BY <2>2, <2>3, PlacesFinite, DisjointSum DEF Blacks
<1>6. \E g \in [D -> Positions] : IsInjective(g) /\ \A i \in D : key[g[i]] = att[i]
  <2> DEFINE PegOn(i) == CHOOSE peg \in Pegs : fa[peg] = i
             g == [i \in D |-> IF i \in On THEN i ELSE fk[PegOn(i)]]
  <2>1. \A i \in W : PegOn(i) \in Pegs /\ fa[PegOn(i)] = i
    OBVIOUS
  <2> HIDE DEF PegOn
  <2>2. /\ \A i \in D \cap On : g[i] = i /\ key[i] = att[i]
        /\ \A i \in D \ On : i \in W /\ g[i] = fk[PegOn(i)]
    BY DEF OnPosition
  <2>3. \A i \in D \ On : g[i] \in Off(key, att) /\ key[g[i]] = att[i]
    BY <1>1, <1>2, <2>1, <2>2
  <2>4. g \in [D -> Positions] /\ DOMAIN g = D
    BY <1>2, <1>3, <2>1
  <2> HIDE DEF W, D, On, g
  <2>5. \A i \in D : key[g[i]] = att[i]
    BY <2>2, <2>3
  <2>6. ASSUME NEW i \in D, NEW j \in D, g[i] = g[j] PROVE i = j
    <3>1. CASE i \in On /\ j \in On
      BY <2>2, <2>6, <3>1
    <3>2. CASE i \notin On /\ j \notin On
      <4>1. PegOn(i) = PegOn(j)
        BY <1>4, <2>1, <2>2, <2>6, <3>2
      <4> QED BY <2>1, <2>2, <3>2, <4>1
    <3>3. CASE (i \in On) # (j \in On)
      BY <1>3, <2>2, <2>3, <2>6, <3>3
    <3> QED BY <3>1, <3>2, <3>3
  <2>7. IsInjective(g)
    BY <2>4, <2>6 DEF IsInjective
  <2> QED BY <2>4, <2>5, <2>7
<1>7. ASSUME NEW c \in Colors
      PROVE  \E code \in {key, att} :
               Cardinality(OfColour(att, D, c)) = Cardinality(OfColour(code, Positions, c))
  <2> DEFINE k == OffCount(key, key, att, c)
             a == OffCount(att, key, att, c)
             Wc == OfColour(att, W, c)
             Onc == OfColour(att, On, c)
  <2>1. k \in Nat /\ a \in Nat /\ k <= KeyLen /\ a <= KeyLen
    <3>1. OffOf(key, key, att, c) \in SUBSET Positions /\ OffOf(att, key, att, c) \in SUBSET Positions
      BY DEF OffOf, Off
    <3> QED BY <3>1, PlacesFinite, PositionsFinite, FS_Subset
  <2>2. PICK code \in {key, att}, least \in {k, a} :
          least <= k /\ least <= a /\ least = OffCount(code, key, att, c)
    <3> HIDE DEF k, a
    <3>1. CASE k <= a
      BY <2>1, <3>1 DEF k
    <3>2. CASE a <= k
      BY <2>1, <3>2 DEF a
    <3> QED BY <2>1, <3>1, <3>2
  <2>3. \A n \in 1..least : <<c, n>> \in Pegs
    BY <2>1, <2>2, KeyLenAssumption DEF WhitePegs, Positions
  <2>4. \A peg \in Pegs : peg[1] = c => peg[2] \in 1..least /\ peg = <<c, peg[2]>>
    BY <2>1, <2>2, KeyLenAssumption DEF WhitePegs, Positions
  <2> DEFINE f == [n \in 1..least |-> fa[<<c, n>>]]
  <2>5. f \in Bijection(1..least, Wc)
    <3>1. \A n \in 1..least : f[n] = fa[<<c, n>>] /\ f[n] \in W /\ att[f[n]] = c
      BY <1>1, <2>3
    <3>2. f \in [1..least -> Wc]
      BY <3>1 DEF OfColour
    <3>3. ASSUME NEW m \in 1..least, NEW n \in 1..least, f[m] = f[n] PROVE m = n
      <4>1. <<c, m>> = <<c, n>>
        BY <1>4, <2>3, <3>1, <3>3
      <4> QED BY <4>1
    <3>4. ASSUME NEW i \in Wc PROVE \E n \in 1..least : f[n] = i
      <4>1. PICK peg \in Pegs : fa[peg] = i
        BY <3>4 DEF OfColour
      <4>2. peg[1] = c
        BY <1>1, <3>4, <4>1 DEF OfColour
      <4> QED BY <2>4, <3>1, <4>1, <4>2
    <3> HIDE DEF f
    <3> QED BY <3>2, <3>3, <3>4 DEF Bijection, Injection, Surjection, IsInjective
  <2>6. IsFiniteSet(Wc) /\ Cardinality(Wc) = least
    <3>1. least \in Nat
      BY <2>1, <2>2
    <3>2. IsFiniteSet(1..least) /\ Cardinality(1..least) = least
      BY <3>1, FS_Interval
    <3> HIDE DEF f, Wc
    <3> QED BY <2>5, <3>2, FS_Bijection DEF ExistsBijection
  <2>7. Onc \cap Wc = {} /\ Onc \cup Wc = OfColour(att, D, c) /\ IsFiniteSet(Onc)
    <3>1. Onc \in SUBSET On
      BY DEF OfColour
    <3> QED BY <1>3, <3>1, PlacesFinite, FS_Subset DEF OfColour
  <2>8. Cardinality(OfColour(att, D, c)) = Cardinality(Onc) + least
    <3> HIDE DEF Onc, Wc, D
    <3> QED BY <2>6, <2>7, DisjointSum
  <2>9. Cardinality(OfColour(code, Positions, c)) = Cardinality(Onc) + least
    BY <2>2, ColourCount
  <2> QED BY <2>8, <2>9
<1>8. D \in SUBSET Positions
  BY <1>3
<1> HIDE DEF D
<1> QED BY <1>5, <1>6, <1>7, <1>8

(* The pegs of the guess that an arrangement of the key pairs with equal   *)
(* pegs.                                                                   *)
Paired(key, att, p) == {i \in Positions : key[p[i]] = att[i]}

(* No arrangement of the key pairs more pegs than the feedback shows.      *)
LEMMA NoBetterPairing ==
  ASSUME NEW key \in Code, NEW att \in Code, NEW p \in Bijection(Positions, Positions)
  PROVE  /\ IsFiniteSet(Paired(key, att, p))
         /\ Cardinality(Paired(key, att, p)) \in Nat
         /\ Cardinality(Paired(key, att, p)) <= Blacks(key, att) + Whites(key, att)
<1> DEFINE M == Paired(key, att, p)
<1>1. /\ p \in [Positions -> Positions]
      /\ \A i, j \in Positions : p[i] = p[j] => i = j
  BY DEF Bijection, Injection, IsInjective
<1>2. M \in SUBSET Positions /\ IsFiniteSet(M)
  <2>1. M \in SUBSET Positions
    BY DEF Paired
  <2> QED BY <2>1, PositionsFinite, FS_Subset
<1>3. PICK D \in SUBSET Positions :
        /\ Cardinality(D) = Blacks(key, att) + Whites(key, att)
        /\ \A c \in Colors : \E code \in {key, att} :
             Cardinality(OfColour(att, D, c)) = Cardinality(OfColour(code, Positions, c))
  BY LaidOut
<1>4. IsFiniteSet(D)
  BY PositionsFinite, FS_Subset
<1>5. ASSUME NEW c \in Colors
      PROVE  \E f \in [OfColour(att, M, c) -> OfColour(att, D, c)] : IsInjective(f)
  <2> DEFINE Mc == OfColour(att, M, c)
             Dc == OfColour(att, D, c)
  <2>1. IsFiniteSet(Mc) /\ IsFiniteSet(Dc)
    <3>1. Mc \in SUBSET M /\ Dc \in SUBSET D
      BY DEF OfColour
    <3> QED BY <1>2, <1>4, <3>1, FS_Subset
  <2>2. Cardinality(Mc) <= Cardinality(OfColour(att, Positions, c))
    <3>1. Mc \in SUBSET OfColour(att, Positions, c)
      BY <1>2 DEF OfColour
    <3>2. IsFiniteSet(OfColour(att, Positions, c))
      BY ColourCount
    <3> HIDE DEF Mc
    <3> QED BY <3>1, <3>2, FS_Subset
  <2>3. Cardinality(Mc) <= Cardinality(OfColour(key, Positions, c))
    <3> DEFINE q == [i \in Mc |-> p[i]]
    <3>1. q \in [Mc -> OfColour(key, Positions, c)] /\ DOMAIN q = Mc
      BY <1>1 DEF OfColour, Paired
    <3>2. \A i, j \in Mc : q[i] = q[j] => i = j
      BY <1>1, <1>2 DEF OfColour
    <3>3. IsFiniteSet(OfColour(key, Positions, c))
      BY ColourCount
    <3> HIDE DEF q, Mc
    <3>4. q \in Injection(Mc, OfColour(key, Positions, c))
      BY <3>1, <3>2 DEF Injection, IsInjective
    <3> QED BY <3>3, <3>4, FS_Injection
  <2>4. Cardinality(Mc) <= Cardinality(Dc)
    BY <1>3, <2>2, <2>3
  <2> HIDE DEF Mc, Dc
  <2>5. \E f \in [Mc -> Dc] : IsInjective(f)
    BY <2>1, <2>4, FitsInto
  <2> QED BY <2>5 DEF Mc, Dc
<1> DEFINE To(c) == CHOOSE f \in [OfColour(att, M, c) -> OfColour(att, D, c)] : IsInjective(f)
           h == [i \in M |-> To(att[i])[i]]
<1>6. \A c \in Colors :
        To(c) \in [OfColour(att, M, c) -> OfColour(att, D, c)] /\ IsInjective(To(c))
  BY <1>5
<1> HIDE DEF To
<1>7. \A i \in M : att[i] \in Colors /\ i \in OfColour(att, M, att[i])
  BY <1>2 DEF OfColour, Code
<1>8. \A i \in M : h[i] \in OfColour(att, D, att[i])
  BY <1>6, <1>7
<1>9. \A i \in M : h[i] = To(att[i])[i]
  OBVIOUS
<1>10. h \in [M -> D] /\ DOMAIN h = M
  BY <1>8 DEF OfColour
<1>11. \A i \in M : att[h[i]] = att[i]
  BY <1>8 DEF OfColour
<1> HIDE DEF h, M
<1>12. ASSUME NEW i \in M, NEW j \in M, h[i] = h[j] PROVE i = j
  <2>1. att[i] = att[j]
    BY <1>11, <1>12
  <2>2. To(att[i])[i] = To(att[i])[j]
    BY <1>9, <1>12, <2>1
  <2> QED BY <1>6, <1>7, <2>1, <2>2 DEF IsInjective
<1>13. h \in Injection(M, D)
  BY <1>10, <1>12 DEF Injection, IsInjective
<1>14. Cardinality(M) <= Cardinality(D)
  BY <1>4, <1>13, FS_Injection
<1> QED BY <1>2, <1>3, <1>14, FS_CardinalityType DEF M

(* And one arrangement of the key pairs as many.                           *)
LEMMA PairingReached ==
  ASSUME NEW key \in Code, NEW att \in Code
  PROVE  \E p \in Bijection(Positions, Positions) :
           Cardinality(Paired(key, att, p)) = Blacks(key, att) + Whites(key, att)
<1>1. PICK D \in SUBSET Positions :
        /\ Cardinality(D) = Blacks(key, att) + Whites(key, att)
        /\ \E g \in [D -> Positions] :
             IsInjective(g) /\ \A i \in D : key[g[i]] = att[i]
  BY LaidOut
<1>2. PICK g \in [D -> Positions] : IsInjective(g) /\ \A i \in D : key[g[i]] = att[i]
  BY <1>1
<1>3. PICK p \in Bijection(Positions, Positions) : \A i \in D : p[i] = g[i]
  BY <1>2, PositionsFinite, ExtendsToAll
<1>4. D \in SUBSET Paired(key, att, p)
  BY <1>2, <1>3 DEF Paired
<1>5. Cardinality(D) <= Cardinality(Paired(key, att, p))
  BY <1>4, NoBetterPairing, FS_Subset
<1>6. Blacks(key, att) + Whites(key, att) \in Nat
  BY FeedbackType
<1> QED BY <1>1, <1>5, <1>6, NoBetterPairing

(* calculateAttempt: the feedback is the best pairing, for any number of   *)
(* colours and positions.                                                  *)
THEOREM FeedbackIsBest ==
  ASSUME NEW key \in Code, NEW att \in Code
  PROVE  Blacks(key, att) + Whites(key, att)
           = CHOOSE m \in 0..KeyLen :
               /\ \E p \in Bijection(Positions, Positions) :
                    m = Cardinality({i \in Positions : key[p[i]] = att[i]})
               /\ \A p \in Bijection(Positions, Positions) :
                    m >= Cardinality({i \in Positions : key[p[i]] = att[i]})
<1> DEFINE n == Blacks(key, att) + Whites(key, att)
           Best(m) ==
             /\ \E p \in Bijection(Positions, Positions) : m = Cardinality(Paired(key, att, p))
             /\ \A p \in Bijection(Positions, Positions) : m >= Cardinality(Paired(key, att, p))
<1>1. n \in 0..KeyLen
  BY PegsFit, FeedbackType, KeyLenAssumption
<1>2. Best(n)
  BY PairingReached, NoBetterPairing, FeedbackType
<1>3. ASSUME NEW m \in 0..KeyLen, Best(m) PROVE m = n
  <2>1. m >= n /\ n >= m
    <3> HIDE DEF n
    <3> QED BY <1>2, <1>3
  <2> QED BY <1>1, <2>1
<1>4. n = CHOOSE m \in 0..KeyLen : Best(m)
  <2> HIDE DEF n, Best
  <2> QED BY <1>1, <1>2, <1>3
<1> QED BY <1>4 DEF Paired
=============================================================================

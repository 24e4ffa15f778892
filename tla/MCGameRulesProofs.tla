-------------------------- MODULE MCGameRulesProofs --------------------------
(***************************************************************************)
(* The properties that MCGameRules checks with the game's own constants,   *)
(* for any number of colours, positions and seconds, and for the scores    *)
(* for at most eight trials.  MCGameRules numbers the colours from 1.      *)
(***************************************************************************)
EXTENDS MCGameRules, GameRulesProofs

Walked ==
  /\ key \in Code /\ att \in Code
  /\ used \in 1..GuessesMax /\ time \in 0..(PlayTimeMax - 1)

LEMMA WalkBegins == 1 \in Colors /\ Init => Walked
BY GuessesMaxAssumption, PlayTimeMaxAssumption
DEF Init, Walked, CanonicalKeys, Solid, Code

LEMMA WalkStep ==
  ASSUME Walked, [Next]_vars
  PROVE  Walked'
<1>1. CASE ChangePeg
  <2>1. PICK i \in Positions, c \in Colors : att' = [att EXCEPT ![i] = c]
    BY <1>1 DEF ChangePeg
  <2>3. att' \in Code
    BY <2>1 DEF Walked, Code
  <2> QED BY <1>1, <2>3 DEF ChangePeg, Walked
<1>2. CASE AddTrial
  BY <1>2, GuessesMaxAssumption DEF AddTrial, Walked
<1>3. CASE AddSecond
  BY <1>3, PlayTimeMaxAssumption DEF AddSecond, Walked
<1>4. CASE UNCHANGED vars
  BY <1>4 DEF vars, Walked
<1> QED BY <1>1, <1>2, <1>3, <1>4 DEF Next

LEMMA Walk == ASSUME 1 \in Colors PROVE Spec => []Walked
<1>1. Init => Walked
  BY WalkBegins
<1>2. Walked /\ [Next]_vars => Walked'
  BY WalkStep
<1> QED BY <1>1, <1>2, PTL DEF Spec

(* calculateAttempt: the blacks and the whites together are the most pegs  *)
(* of the guess that any arrangement of the key pairs with equal pegs.     *)
THEOREM FeedbackBest == ASSUME 1 \in Colors PROVE Spec => []FeedbackIsBestPairing
<1>1. Walked => FeedbackIsBestPairing
  <2> SUFFICES ASSUME Walked PROVE FeedbackIsBestPairing
    OBVIOUS
  <2>1. key \in Code /\ att \in Code
    BY DEF Walked
  <2> QED BY <2>1, FeedbackIsBest DEF FeedbackIsBestPairing, BestPairing
<1> QED BY <1>1, Walk, PTL

(* saveGameScore: with at most eight trials the name of a score file has a *)
(* score of one to three digits.                                           *)
THEOREM ScoresFit ==
  ASSUME 1 \in Colors, GuessesMax <= 8
  PROVE  Spec => []ScoreInRange
<1>1. Walked => ScoreInRange
  BY ScoreFits DEF Walked, ScoreInRange
<1> QED BY <1>1, Walk, PTL

(* saveGameScore: a trial more always costs something, a second more never *)
(* pays.                                                                   *)
THEOREM FasterIsBetter ==
  ASSUME 1 \in Colors, GuessesMax <= 8
  PROVE  Spec => ScoreRewardsFewerTrials
<1>1. Walked /\ Walked' /\ [Next]_vars =>
        [/\ Score(used', time') <= Score(used, time)
         /\ used' > used => Score(used', time') < Score(used, time)]_<<used, time>>
  <2> SUFFICES ASSUME Walked, Walked', [Next]_vars, ~UNCHANGED <<used, time>>
               PROVE  /\ Score(used', time') <= Score(used, time)
                      /\ used' > used => Score(used', time') < Score(used, time)
    OBVIOUS
  <2>1. used \in 1..GuessesMax /\ time \in 0..(PlayTimeMax - 1)
    BY DEF Walked
  <2>2. /\ used < GuessesMax => Score(used + 1, time) < Score(used, time)
        /\ time + 1 < PlayTimeMax => Score(used, time + 1) <= Score(used, time)
    BY <2>1, FewerTrialsScoreMore
  <2>3. Score(used, time) \in Int /\ Score(used', time') \in Int
    <3>1. ASSUME NEW u \in 1..GuessesMax, NEW t \in 0..(PlayTimeMax - 1)
          PROVE  Score(u, t) \in Int
      <4>1. Score(u, t) \in 1..999
        BY ScoreFits
      <4> QED BY <4>1
    <3> QED BY <3>1 DEF Walked
  <2>4. CASE AddTrial
    <3>1. used' = used + 1 /\ time' = time /\ used < GuessesMax
      BY <2>4 DEF AddTrial
    <3>2. Score(used', time') < Score(used, time)
      BY <2>2, <3>1
    <3> QED BY <2>3, <3>2
  <2>5. CASE AddSecond
    <3>1. used' = used /\ time' = time + 1 /\ time + 1 < PlayTimeMax
      BY <2>1, <2>5, PlayTimeMaxAssumption DEF AddSecond
    <3>2. Score(used', time') <= Score(used, time)
      BY <2>2, <3>1
    <3> QED BY <2>1, <3>1, <3>2
  <2> QED BY <2>4, <2>5 DEF Next, ChangePeg, vars
<1> QED BY <1>1, Walk, PTL DEF Spec, ScoreRewardsFewerTrials
=============================================================================

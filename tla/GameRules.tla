------------------------------ MODULE GameRules ------------------------------
(***************************************************************************)
(* The pure part of the game server: the feedback for a guess              *)
(* (GameStore::calculateAttempt) and the score of a won game (the formula  *)
(* in GameStore::saveGameScore).  A code is a function from positions to   *)
(* colours; the constants stand for VALID_COLORS, SECRET_KEY_LEN,          *)
(* GUESSES_MAX and PLAY_TIME_MAX of common/constants.hpp.                  *)
(***************************************************************************)
EXTENDS Integers, FiniteSets

CONSTANTS Colors, KeyLen, GuessesMax, PlayTimeMax

ASSUME ColorsAssumption == IsFiniteSet(Colors) /\ Colors # {}
ASSUME KeyLenAssumption == KeyLen \in Nat \ {0}
ASSUME GuessesMaxAssumption == GuessesMax \in Nat \ {0}
ASSUME PlayTimeMaxAssumption == PlayTimeMax \in Nat \ {0}

Positions == 1..KeyLen

Code == [Positions -> Colors]

(* The positions whose guess has the right colour. *)
OnPosition(key, att) == {i \in Positions : key[i] = att[i]}

(* key_count / attempt_count: how often colour c occurs off position. *)
OffCount(code, key, att, c) ==
  Cardinality({i \in Positions \ OnPosition(key, att) : code[i] = c})

Blacks(key, att) == Cardinality(OnPosition(key, att))

(* One white peg for every <<colour, n>> such that the colour occurs at    *)
(* least n times off position in both codes: the sum, over the colours, of *)
(* the smaller of the two counts.                                          *)
WhitePegs(key, att) ==
  {peg \in Colors \X Positions :
      /\ peg[2] <= OffCount(key, key, att, peg[1])
      /\ peg[2] <= OffCount(att, key, att, peg[1])}

\* Seeded fault: every off-position peg of a colour the key also has off position.
WhitesByGuess(key, att) ==
  Cardinality({peg \in Colors \X Positions :
                  /\ OffCount(key, key, att, peg[1]) > 0
                  /\ peg[2] <= OffCount(att, key, att, peg[1])})

Whites(key, att) == Cardinality(WhitePegs(key, att))

(* C++ integer division truncates towards zero. *)
CDiv(a, b) == IF a >= 0 THEN a \div b ELSE -((-a) \div b)

\* Seeded fault: the difference is squared, not the number of trials.
ScoreSquaresDifference(used, time) ==
  701 + CDiv((GuessesMax - used) * (GuessesMax - used) * 100, GuessesMax)
      + CDiv((PlayTimeMax - time) * 211, PlayTimeMax)

\* Seeded fault: divided before it is weighted.
ScoreDividesFirst(used, time) ==
  701 + CDiv(GuessesMax - used * used, GuessesMax) * 100
      + CDiv((PlayTimeMax - time) * 211, PlayTimeMax)

Score(used, time) ==
  701 + CDiv((GuessesMax - used * used) * 100, GuessesMax)
      + CDiv((PlayTimeMax - time) * 211, PlayTimeMax)
=============================================================================

----------------------------- MODULE MCGameRules -----------------------------
(***************************************************************************)
(* Checks GameRules with the game's own constants: six colours, four       *)
(* positions, eight trials, 600 seconds.  The state is one guess against   *)
(* one key, or one score computation.  A behaviour walks through every     *)
(* guess by changing one peg at a time, and through every score by adding  *)
(* a trial or a second.                                                    *)
(***************************************************************************)
EXTENDS GameRules, Functions

VARIABLES key, att, used, time

vars == <<key, att, used, time>>

(* Keys up to a renaming of the colours: a colour appears for the first    *)
(* time only after the smaller ones have.  The feedback compares colours   *)
(* with each other only, so every key is a renaming of one of these.       *)
CanonicalKeys ==
  {k \in Code : \A i \in Positions :
      k[i] = 1 \/ \E j \in 1..(i - 1) : k[j] >= k[i] - 1}

Solid == [i \in Positions |-> 1]

Init == key \in CanonicalKeys /\ att = Solid /\ used = 1 /\ time = 0

ChangePeg ==
  /\ used = 1 /\ time = 0
  /\ \E i \in Positions, c \in Colors : att' = [att EXCEPT ![i] = c]
  /\ UNCHANGED <<key, used, time>>

AddTrial ==
  /\ key = Solid /\ att = Solid /\ used < GuessesMax
  /\ used' = used + 1
  /\ UNCHANGED <<key, att, time>>

AddSecond ==
  /\ key = Solid /\ att = Solid /\ time < PlayTimeMax - 1
  /\ time' = time + 1
  /\ UNCHANGED <<key, att, used>>

Next == ChangePeg \/ AddTrial \/ AddSecond

Spec == Init /\ [][Next]_vars

-----------------------------------------------------------------------------
(* The most pegs of the guess that can be paired with equal pegs of the    *)
(* key, trying every way to rearrange the key.                             *)
BestPairing ==
  CHOOSE m \in 0..KeyLen :
    /\ \E p \in Bijection(Positions, Positions) :
          m = Cardinality({i \in Positions : key[p[i]] = att[i]})
    /\ \A p \in Bijection(Positions, Positions) :
          m >= Cardinality({i \in Positions : key[p[i]] = att[i]})

(* calculateAttempt: the blacks and the whites together are the best       *)
(* pairing of the two codes, so no peg is counted twice and none that      *)
(* "belongs to the secret key" is forgotten, with repeated colours too.    *)
FeedbackIsBestPairing == Blacks(key, att) + Whites(key, att) = BestPairing

(* saveGameScore: the score of every game that can be won is between 1 and *)
(* 999; the name of the score file depends on it having at most 3 digits.  *)
ScoreInRange == Score(used, time) \in 1..999

(* A slower win, or a win with more trials, never scores more, and one     *)
(* trial more always costs something: truncation never undoes the order.   *)
ScoreRewardsFewerTrials ==
  [][/\ Score(used', time') <= Score(used, time)
     /\ used' > used => Score(used', time') < Score(used, time)]_<<used, time>>
=============================================================================

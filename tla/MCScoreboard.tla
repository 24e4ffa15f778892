----------------------------- MODULE MCScoreboard -----------------------------
(* Checks Scoreboard with the limits of the game, and a board of two rows. *)
EXTENDS Scoreboard

(* Scores 823, 829 and 95: the last is a late win with the eighth trial.   *)
MCWins == {<<1, 500>>, <<3, 200>>, <<8, 332>>}
=============================================================================

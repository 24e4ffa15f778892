---------------------------- MODULE MCPlayerSession ----------------------------
(* PlayerSession with one player; the colours are interchangeable. *)
EXTENDS PlayerSession, TLC

(* The last reply, the scores and the contents of older games decide       *)
(* nothing that follows and appear in no property of the pass run.         *)
LastEnding ==
  LET files == archive[Player] IN
  IF files = <<>> THEN <<>>
  ELSE <<Len(files), files[Len(files)].ending, files[Len(files)].game.key>>

View == <<now, active, LastEnding, strReq, session>>

Symmetry == Permutations(Colors)
=============================================================================

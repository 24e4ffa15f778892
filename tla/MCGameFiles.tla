----------------------------- MODULE MCGameFiles -----------------------------
(* Checks GameFiles; the configurations give the constants their values. *)
EXTENDS GameFiles, TLC

WrongGuesses == Permutations(Guesses \ {Secret})

(* What is looked at of a file of several lines without a header: of the   *)
(* first line only its kind (Age), and once the file is no longer the      *)
(* player's game, nor open, only the last line (FooterMatchesName).        *)
PutAway(f) == f # game /\ \A t \in Threads : thread[t].file # f

Seen(f) ==
  LET lines == disk[f] IN
  IF HasHeader(f) \/ Len(lines) < 2 THEN lines
  ELSE IF PutAway(f) THEN <<lines[Len(lines)]>>
  ELSE [lines EXCEPT ![1] = [kind |-> lines[1].kind]]

(* No property looks at what was acknowledged once closings have met, and  *)
(* no step ever does.                                                      *)
Checked ==
  <<now, [f \in DOMAIN disk |-> Seen(f)], game, archive, scores, started, thread, crashes,
    raced, IF raced THEN {} ELSE acks, IF raced THEN {} ELSE replaced>>
=============================================================================

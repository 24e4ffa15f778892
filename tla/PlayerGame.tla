------------------------------ MODULE PlayerGame ------------------------------
(***************************************************************************)
(* What the game server promises a player, without files, timestamps or    *)
(* replies: a player has at most one secret to guess; the secret stays the *)
(* same and the accepted guesses are kept, one more at a time and never    *)
(* the same twice, until the game ends; and how a game is recorded to have *)
(* ended agrees with the guesses made in it.                               *)
(***************************************************************************)
EXTENDS Integers, Sequences

CONSTANTS Players, Codes, MaxGuesses, NoSecret

VARIABLES
  secret,    \* the code to guess, NoSecret when the player has no game
  guesses,   \* the guesses accepted in the running game, in order
  results    \* the games recorded as ended: <<how, number of guesses>>

vars == <<secret, guesses, results>>

Init ==
  /\ secret = [p \in Players |-> NoSecret]
  /\ guesses = [p \in Players |-> <<>>]
  /\ results = [p \in Players |-> <<>>]

Record(p, how, n) == results' = [results EXCEPT ![p] = Append(@, <<how, n>>)]

Over(p) ==
  /\ secret' = [secret EXCEPT ![p] = NoSecret]
  /\ guesses' = [guesses EXCEPT ![p] = <<>>]

(* A new game.  An earlier one is recorded as timed out, or is replaced    *)
(* without a record: the server does that within the game's first second.  *)
Begin(p) ==
  /\ secret' \in {[secret EXCEPT ![p] = c] : c \in Codes}
  /\ guesses' = [guesses EXCEPT ![p] = <<>>]
  /\ \/ secret[p] # NoSecret /\ Record(p, "T", Len(guesses[p]))
     \/ UNCHANGED results

Guess(p) ==
  /\ secret[p] # NoSecret
  /\ \E c \in Codes :
       LET n == Len(guesses[p]) + 1 IN
       /\ \A i \in 1..Len(guesses[p]) : guesses[p][i] # c
       /\ \/ c = secret[p] /\ Over(p) /\ Record(p, "W", n)
          \/ c # secret[p] /\ n = MaxGuesses /\ Over(p) /\ Record(p, "L", n)
          \/ /\ c # secret[p] /\ n < MaxGuesses
             /\ guesses' = [guesses EXCEPT ![p] = Append(@, c)]
             /\ UNCHANGED <<secret, results>>

End(p) ==
  /\ secret[p] # NoSecret
  /\ Over(p)
  /\ \E how \in {"Q", "T"} : Record(p, how, Len(guesses[p]))

Next == \E p \in Players : Begin(p) \/ Guess(p) \/ End(p)

Spec == Init /\ [][Next]_vars
=============================================================================

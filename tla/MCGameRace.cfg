SPECIFICATION Spec
CONSTANTS
  Udp = udp
  Workers = {worker}
  Guesses = {secret, wrong1, wrong2}
  Secret = secret
  NoGuess = NoGuess
  Garbage = {"refused"}
  GuessesMax = 2
  PlayTime = 2
  MaxTime = 2
  MaxGames = 2
  MaxCrashes = 0
  AfterRace = TRUE
INVARIANTS
  AttemptRegistered
CHECK_DEADLOCK FALSE

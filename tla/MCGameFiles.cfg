SPECIFICATION Spec
CONSTANTS
  Udp = udp
  Workers = {worker}
  Guesses = {secret, wrong1, wrong2}
  Secret = secret
  NoGuess = NoGuess
  Garbage = {"refused", "over", "new", "running"}
  GuessesMax = 2
  PlayTime = 2
  MaxTime = 2
  MaxGames = 2
  MaxCrashes = 1
  AfterRace = FALSE
INVARIANTS
  TypeOK
  ScoreHasWin
  AckedSurvivesCrash
  FooterMatchesName
  FirstEndingFits
  OneLooseEndPerCrash
PROPERTY PlayedAsPromised
SYMMETRY WrongGuesses
VIEW Checked
CHECK_DEADLOCK FALSE

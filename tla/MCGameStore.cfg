SPECIFICATION Spec
CONSTANTS
  NoGame = NoGame
  NoKey = NoKey
  NoRequest = NoRequest
  Colors = {red, green, blue}
  Players = {player1}
  Workers = {worker1}
  KeyLen = 1
  GuessesMax = 2
  PlayTimeMax = 2
  TimeArgs = {0, 2, 65538}
  TrialArgs = {1, 2}
  MaxTime = 2
  MaxGames = 2
SYMMETRY Symmetry
VIEW View
INVARIANTS
  TypeOK
  ActiveGamesOpen
  FinishedGamesConsistent
  KeyRevealedOnlyWhenOver
  ScoresMatchWins
  GamesDoNotOverlap
PROPERTIES
  ResendIdempotent
  OngoingKeptAfterFirstSecond
  FinOnlyWithoutGameAtAccept
  ImplementsPlayerGame
CHECK_DEADLOCK FALSE

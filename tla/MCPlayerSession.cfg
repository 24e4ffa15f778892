SPECIFICATION SessionSpec
CONSTANTS
  NoGame = NoGame
  NoKey = NoKey
  NoRequest = NoRequest
  Colors = {red, green, blue}
  Players = {player1}
  Player = player1
  Workers = {worker1}
  KeyLen = 1
  GuessesMax = 3
  PlayTimeMax = 2
  TimeArgs = {2}
  TrialArgs = {1, 2, 3}
  MaxTime = 3
  MaxGames = 2
  MayBeLate = FALSE
SYMMETRY Symmetry
VIEW View
INVARIANTS
  SessionTypeOK
  SavedAttemptsAreServers
  AtMostOneBehind
PROPERTY
  EndedAsAnnounced
CHECK_DEADLOCK FALSE

SPECIFICATION SessionSpec
CONSTANTS
  NoGame = NoGame
  NoKey = NoKey
  NoRequest = NoRequest
  Colors = {red, green, blue}
  Players = {player1}
  Player = player1
  Workers = {worker1}
  KeyLen = 1
  GuessesMax = 3
  PlayTimeMax = 2
  TimeArgs = {2}
  TrialArgs = {1, 2, 3}
  MaxTime = 2
  MaxGames = 2
  MayBeLate = TRUE
SYMMETRY Symmetry
PROPERTY
  SavedWhenConfirmed
CHECK_DEADLOCK FALSE

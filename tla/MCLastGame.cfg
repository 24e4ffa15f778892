SPECIFICATION Spec
CONSTANTS
  NoGame = NoGame
  NoKey = NoKey
  NoRequest = NoRequest
  Colors = {red, green, blue}
  Players = {player1}
  Workers = {worker1}
  KeyLen = 1
  GuessesMax = 2
  PlayTimeMax = 2
  TimeArgs = {2}
  TrialArgs = {1, 2}
  MaxTime = 4
  MaxGames = 2
SYMMETRY Symmetry
PROPERTY
  FinShowsLastFinished
CHECK_DEADLOCK FALSE

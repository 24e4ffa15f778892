SPECIFICATION Spec
CONSTANTS
  Colors = {1}
  KeyLen = 4
  GuessesMax = 8
  PlayTimeMax = 600
  Players = {1, 2}
  Workers = {w1}
  Wins <- MCWins
  MaxEntries = 2
  MaxTime = 1
  MaxWins = 3
  NoFile = NoFile
  Garbage = Garbage
INVARIANTS
  TypeOK
  BoardComplete
  LongScoresDescend
CHECK_DEADLOCK FALSE

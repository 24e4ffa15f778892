SPECIFICATION Spec
CONSTANTS
  Colors = {1, 2, 3, 4, 5, 6}
  KeyLen = 4
  GuessesMax = 8
  PlayTimeMax = 600
INVARIANTS
  FeedbackIsBestPairing
  ScoreInRange
PROPERTY
  ScoreRewardsFewerTrials
CHECK_DEADLOCK FALSE

CONSTANTS
  p1 = p1
  p2 = p2
  p3 = p3
  w1 = w1
  w2 = w2
  w3 = w3
  w4 = w4
  w5 = w5
  NoWord = NoWord
  NoRoom = NoRoom
  NoPlayer = NoPlayer
  RoundTimeSec = 60
  RoundsCount = 1
  PlayerIds <- ThreePlayers
  JoinOrder <- ThreeInOrder
  MaxPlayers = 3
  Words <- FiveWords
  WordLength <- AllOfTwoLetters
  WordChoicesCount = 2
  HintsCount = 2
  RemainingTimes <- Midway
  MaxInFlight = 3
SPECIFICATION Spec
SYMMETRY WordSymmetry
CONSTRAINT Explored
CHECK_DEADLOCK FALSE
INVARIANTS
  CopiesOK
  NoWordTwice
  HintsNeverRevealTheWord
  LeaderNeverGuesses
  OverOnlyAfterTheLastRound
  LeadGoesRound
  AtRestTheRightTimerIsPending
  HintBudget
  AnnouncedIsRecorded
  RoundOverOnceAllGuessedUnlessLost
PROPERTIES
  RefinesGame

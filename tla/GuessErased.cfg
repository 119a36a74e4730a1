CONSTANTS
  p1 = p1
  p2 = p2
  p3 = p3
  w1 = w1
  w2 = w2
  w3 = w3
  w4 = w4
  w5 = w5
  NoWord = NoWord
  NoRoom = NoRoom
  NoPlayer = NoPlayer
  RoundTimeSec = 60
  RoundsCount = 1
  PlayerIds <- ThreePlayers
  JoinOrder <- ThreeInOrder
  MaxPlayers = 3
  Words <- FourWords
  WordLength <- AllOfThreeLetters
  WordChoicesCount = 1
  HintsCount = 0
  RemainingTimes <- Midway
  MaxInFlight = 2
SPECIFICATION Spec
SYMMETRY WordSymmetry
ACTION_CONSTRAINT InReplyOrder
CHECK_DEADLOCK FALSE
INVARIANTS
  CorrectGuessIsCredited

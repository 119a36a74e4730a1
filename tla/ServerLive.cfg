CONSTANTS
  p1 = p1
  p2 = p2
  p3 = p3
  s1 = s1
  s2 = s2
  s3 = s3
  s4 = s4
  s5 = s5
  t1 = t1
  t2 = t2
  t3 = t3
  t4 = t4
  t5 = t5
  w1 = w1
  w2 = w2
  w3 = w3
  w4 = w4
  NoWord = NoWord
  NoRoom = NoRoom
  NoPlayer = NoPlayer
  NoSocket = NoSocket
  NoSession = NoSession
  NoName = NoName
  RoundTimeSec = 60
  RoundsCount = 1
  WordChoicesCount = 1
  HintsCount = 0
  MaxPlayers = 2
  MaxInFlight = 1
  MaxRestarts = 0
  PlayerIds <- Two
  Names <- Two
  NameOf <- Itself
  JoinOrder <- TwoInOrder
  Sockets <- ThreeSockets
  SessionIds <- ThreeSessions
  Words <- ThreeWords
  WordLength <- TwoLetters
  RemainingTimes <- Midway
SPECIFICATION FairSeatedSpec
CHECK_DEADLOCK FALSE
PROPERTIES
  GameEndsWhoeverLeaves
  AbandonedRoomIsDeleted

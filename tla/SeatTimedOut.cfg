CONSTANTS
  a1 = a1
  a2 = a2
  b1 = b1
  b2 = b2
  c1 = c1
  s1 = s1
  s2 = s2
  s3 = s3
  s4 = s4
  t1 = t1
  t2 = t2
  t3 = t3
  t4 = t4
  w1 = w1
  w2 = w2
  w3 = w3
  NoWord = NoWord
  NoRoom = NoRoom
  NoPlayer = NoPlayer
  NoSocket = NoSocket
  NoSession = NoSession
  NoName = NoName
  RoundTimeSec = 60
  RoundsCount = 1
  WordChoicesCount = 1
  HintsCount = 0
  Words <- ThreeWords
  WordLength <- OneLetter
  Names <- Two
  MaxPlayers = 2
  PlayerIds <- Two
  NameOf <- Itself
  Sockets <- ThreeSockets
  SessionIds <- ThreeSessions
  MaxInFlight = 2
SPECIFICATION LifeSpec
SYMMETRY PlayerSymmetry
ACTION_CONSTRAINT InReplyOrder
CHECK_DEADLOCK FALSE
INVARIANTS
  SeatedPlayersAreKept

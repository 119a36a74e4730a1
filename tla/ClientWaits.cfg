CONSTANTS
  a = a
  b = b
  c = c
  d = d
  PlayerIds <- Guests
  RatePerMinute = 7
  Capacity = 2
  MaxRequests = 4
  Clock <- Readings
  MaxReconnectAttempts = 3
  Letters <- ThreeLetters
  MinLength = 3
  PrefixLength = 1
  MaxLength = 3
SPECIFICATION Spec
CHECK_DEADLOCK FALSE
PROPERTIES
  LossIsResolved

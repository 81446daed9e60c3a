SPECIFICATION FairSpec
CONSTANTS
  c1 = c1
  c2 = c2
  a = a
  b = b
  t1 = t1
  t2 = t2
  Conns <- TwoConns
  Names <- TwoNames
  User <- UserOf
  Token <- TokenOf
  Public <- PublicConns
  Silent <- OneSilent
  Targets <- AppTargets
  QueueSize = 2
  MaxMsgs = 2
  MaxFails = 1
  MaxPushes = 1
  MaxCloses = 1
CONSTRAINT OneTalks
CHECK_DEADLOCK FALSE
INVARIANTS
  TypeOK
  OnlyToTarget
  EventsInOrder
  AtMostOneLateRead
PROPERTIES
  PeerGoneIsHandled
  ExpiredIsRemoved

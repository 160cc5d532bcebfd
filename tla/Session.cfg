CONSTANTS
  a = a  b = b  c1 = c1  c2 = c2  c3 = c3  m1 = m1  m2 = m2
  NoUser = NoUser  NoMessage = NoMessage
  Users <- Pair
  MsgIds <- TwoIds
  Conns <- ThreeConns
  Logins <- RecipientReturns
  Frames <- FromA
  Faults <- FirstRead
  Ticking = TRUE
  FirstContacts <- MutualOrOneWay
  QueueBufferSize = 1
  MaxGen = 3
  MaxOfflineMessagesPerUser = 1
  replayMax = 3
  replayMaxPerUser = 3
  MaxSends = 2
  Adds <- AddBack
SPECIFICATION Spec
INVARIANT TypeOK SessionOfNewest OpenChannelsAreMapped PresenceOnlyMutual AtMostOnce QueuedIsKept
ACTION_CONSTRAINT OneSortOfTraffic
SYMMETRY IdSymmetry
CHECK_DEADLOCK FALSE

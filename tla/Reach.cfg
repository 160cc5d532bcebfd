CONSTANTS
  a = a  b = b  c1 = c1  c2 = c2  c3 = c3  m1 = m1  m2 = m2
  NoUser = NoUser  NoMessage = NoMessage
  Users <- Pair
  MsgIds <- OneId
  Conns <- ThreeConns
  Logins <- RecipientReturns
  Frames <- FromA
  Faults <- FirstBreaks
  Ticking = FALSE
  FirstContacts <- Mutual
  QueueBufferSize = 1
  MaxGen = 3
  MaxOfflineMessagesPerUser = 1
  replayMax = 3
  replayMaxPerUser = 3
  MaxSends = 2
  Adds <- NoAdds
SPECIFICATION FairSpec
PROPERTY DeliveredArrives ImplementsMailbox
CHECK_DEADLOCK FALSE

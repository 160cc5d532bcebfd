CONSTANTS
  a = a  b = b  c = c
  m1 = m1  m2 = m2  m3 = m3  t1 = t1  t2 = t2  k1 = k1  q1 = q1  q2 = q2
  NoUser = NoUser  NoMsg = NoMsg
  Users <- Pair
  MsgIds <- Msgs
  Threads <- MCThreads
  Requests <- MembershipRequests
  KPIds <- OnePackage
  RequestIds <- TwoIds
  JoinRequests <- Applications
  MaxGroupMembers = 2
  GroupQueueMaxMessages = 2
  MaxEpoch = 0
  MaxSeq = 0
  MaxTransfers = 2
  MaxLog = 1
SPECIFICATION JoinSpec
INVARIANT TypeOK OneOwnerUnlessOverlap OwnershipConfirmed JoinTypeOK OnePendingRequest DeciderOwnedGroup
PROPERTY DecisionsAreFinal LeaverBooked OnlyKickAbandons
SYMMETRY JoinSymmetry

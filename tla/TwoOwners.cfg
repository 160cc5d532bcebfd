CONSTANTS
  a = a  b = b  c = c
  m1 = m1  m2 = m2  m3 = m3  t1 = t1  t2 = t2
  NoUser = NoUser  NoMsg = NoMsg
  Users <- MCUsers
  MsgIds <- Msgs
  Threads <- MCThreads
  Requests <- HandoverRequests
  MaxGroupMembers = 3
  GroupQueueMaxMessages = 2
  MaxEpoch = 0
  MaxSeq = 0
  MaxTransfers = 2
  MaxLog = 2
SPECIFICATION Spec
INVARIANT AtMostOneOwner
SYMMETRY OwnerSymmetry

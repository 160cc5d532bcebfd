CONSTANTS
  a = a  b = b  c = c
  m1 = m1  m2 = m2  m3 = m3  t1 = t1  t2 = t2
  NoUser = NoUser  NoMsg = NoMsg
  Users <- Pair
  MsgIds <- Msgs
  Threads <- MCThreads
  Requests <- QueueRequests
  MaxGroupMembers = 2
  GroupQueueMaxMessages = 2
  MaxEpoch = 0
  MaxSeq = 2
  MaxTransfers = 0
  MaxLog = 1
SPECIFICATION Spec
INVARIANT RowsBelowFloorGone

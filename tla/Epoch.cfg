CONSTANTS
  a = a  b = b  c = c
  m1 = m1  m2 = m2  m3 = m3  t1 = t1  t2 = t2
  NoUser = NoUser  NoMsg = NoMsg
  Users <- Pair
  MsgIds <- OneMsg
  Threads <- MCThreads
  Requests <- EpochRequests
  MaxGroupMembers = 2
  GroupQueueMaxMessages = 2
  MaxEpoch = 2
  MaxSeq = 1
  MaxTransfers = 1
  MaxLog = 3
SPECIFICATION Spec
INVARIANT CommitsAscend MessageEpochReached
PROPERTY ImplementsChain
SYMMETRY QueueSymmetry

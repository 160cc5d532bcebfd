CONSTANTS
  t1 = t1  t2 = t2  k1 = k1  k2 = k2  n1 = n1  n2 = n2  n3 = n3  NoKey = NoKey
  Threads <- TwoThreads
  Keys <- TwoKeys
  Nonces <- MCNonces
  SignedRequests <- SomeRequests
  Window = 2
  ChallengeTTL = 2
  nonceMaxPerUser = 2
  MaxClock = 4
  MaxChallenges = 2
SPECIFICATION MCSpec
INVARIANT TypeOK OneTokenPerChallenge NoncesBounded
PROPERTY RepeatedOnlyIfForgotten FirstKeyStays OneWorker SignalStops WorkerComesBack
CHECK_DEADLOCK FALSE

------------------------------- MODULE MCAccess -------------------------------
(***************************************************************************)
(* A small instance of Access for TLC.  Logins and signed requests share   *)
(* nothing but the users table, the clock and the worker, so a behaviour   *)
(* has traffic of one sort: the sum of the two state spaces is checked and *)
(* not their product.                                                      *)
(***************************************************************************)
EXTENDS Access, TLC

CONSTANTS t1, t2, k1, k2, n1, n2, n3

TwoThreads == {t1, t2}
TwoKeys    == {k1, k2}
MCNonces   == {n1, n2, n3}

\* Two requests with the same nonce, one of them from a clock that is ahead,
\* and two with other nonces: one more than a worker remembers.
SomeRequests ==
  {[key |-> k1, nonce |-> n1, timestamp |-> 0],
   [key |-> k1, nonce |-> n1, timestamp |-> 2],
   [key |-> k1, nonce |-> n2, timestamp |-> 1],
   [key |-> k1, nonce |-> n3, timestamp |-> 1]}

VARIABLE traffic

Sorts == {"login", "signed"}
Traffic(sort) ==
  IF sort = "login" THEN {"idle", "register", "challenge", "consume", "store"}
  ELSE {"idle", "register", "nonce"}

MCInit == Init /\ traffic \in Sorts
MCNext ==
  /\ Next
  /\ \A t \in Threads : job'[t].op \in Traffic(traffic)
  /\ UNCHANGED traffic
MCSpec == MCInit /\ [][MCNext]_<<vars, traffic>> /\ ProcessFairness
=============================================================================

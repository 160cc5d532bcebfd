------------------------------ MODULE AccessProofs -----------------------------
(***************************************************************************)
(* Proofs about Access and its Watcher, for any keys, requests, windows    *)
(* and limits: one token per challenge, a bounded nonce cache that refuses *)
(* what it remembers, the first key of an id, one worker at a time.        *)
(***************************************************************************)
EXTENDS Access, FiniteSetTheorems, TLAPS

-----------------------------------------------------------------------------
(* Invariants *)

\* Goroutine t has consumed challenge c and is about to store a token for it.
Storing(t, c) == job[t].op = "store" /\ job[t].signed = c

\* A challenge is not issued yet, stored, held by one goroutine that consumed
\* it, or used up: in each of these it mints at most the one token.
ChallengeInv ==
  /\ login_challenge.challenge <= issued
  /\ \A c \in Challenges :
       /\ minted[c] <= 1
       /\ c > issued \/ login_challenge.challenge = c =>
            minted[c] = 0 /\ \A t \in Threads : ~Storing(t, c)
       /\ \A t \in Threads : Storing(t, c) => minted[c] = 0
       /\ \A t, s \in Threads : Storing(t, c) /\ Storing(s, c) => t = s

\* The nonces are finitely many, and an accepted request has its nonce among
\* them, no older than the acceptance, until the window is over.
RememberInv ==
  \A r \in SignedRequests : accepted[r] # Never =>
    /\ accepted[r] <= clock
    /\ \/ \E e \in nonceSeen : e.nonce = r.nonce /\ e.at >= accepted[r]
       \/ clock > accepted[r] + Window

NonceInv == IsFiniteSet(nonceSeen) /\ NoncesBounded /\ RememberInv

\* Between two workers, and at the end, none is there.
WatchInv == wpc \in {"start", "sleep", "returned"} => worker = "none"

-----------------------------------------------------------------------------
(* Types *)

\* What a job holds, by what it does.
LEMMA JobTyping ==
  ASSUME NEW j \in Job
  PROVE  /\ j.op = "register" => j.key \in Keys
         /\ j.op \in {"consume", "store"} =>
              /\ j \in [op : {"consume", "store"}, key : Keys, signed : Challenges,
                        public_key : Keys]
              /\ j.signed \in Challenges
         /\ j.op = "nonce" => j.request \in SignedRequests
<1>1. Idle.op = "idle"
  BY DEF Idle
<1>2. CASE j = Idle
  BY <1>1, <1>2
<1>3. CASE j # Idle
  BY <1>3 DEF Job
<1> QED
  BY <1>2, <1>3

\* The jobs after one goroutine goes on.
LEMMA JobUpdate ==
  ASSUME job \in [Threads -> Job], NEW t \in Threads, NEW j \in Job,
         job' = [job EXCEPT ![t] = j]
  PROVE  /\ job' \in [Threads -> Job] /\ job'[t] = j
         /\ \A s \in Threads \ {t} : job'[s] = job[s]
OBVIOUS

\* The idle job, and those that the handlers start.
LEMMA JobKinds ==
  /\ Idle \in Job /\ Idle.op = "idle"
  /\ \A k \in Keys : [op |-> "register", key |-> k] \in Job
  /\ [op |-> "challenge"] \in Job
  /\ \A k, p \in Keys, c \in Challenges :
       /\ [op |-> "consume", key |-> k, signed |-> c, public_key |-> p] \in Job
       /\ [op |-> "store", key |-> k, signed |-> c, public_key |-> p] \in Job
  /\ \A r \in SignedRequests : [op |-> "nonce", request |-> r] \in Job
BY DEF Job, Idle

\* What consuming a challenge does to its goroutine.
LEMMA ConsumeMove ==
  ASSUME TypeOK, NEW t \in Threads, ConsumeLoginChallenge(t)
  PROVE  /\ job' \in [Threads -> Job]
         /\ \A s \in Threads \ {t} : job'[s] = job[s]
         /\ job[t].signed \in Challenges
         /\ \/ job'[t] = Idle
            \/ /\ job'[t].op = "store" /\ job'[t].signed = job[t].signed
               /\ job[t].signed = login_challenge.challenge
<1>1. job \in [Threads -> Job] /\ job[t] \in Job /\ job[t].op = "consume"
  BY DEF TypeOK, ConsumeLoginChallenge, Handles
<1> DEFINE j == job[t]
<1>2. j \in [op : {"consume", "store"}, key : Keys, signed : Challenges, public_key : Keys]
  BY <1>1, JobTyping
<1> DEFINE k == [j EXCEPT !.op = "store"]
<1>3. k \in [op : {"consume", "store"}, key : Keys, signed : Challenges, public_key : Keys]
  BY <1>2
<1>4. k \in Job /\ k.op = "store" /\ k.signed = j.signed
  BY <1>2, <1>3 DEF Job
<1>5. job' = [job EXCEPT ![t] = IF VerifySignature(j) THEN k ELSE Idle]
  BY DEF ConsumeLoginChallenge
<1>6. Idle \in Job
  BY JobKinds
<1> HIDE DEF k
<1>7. CASE VerifySignature(j)
  <2>1. job' = [job EXCEPT ![t] = k]
    BY <1>5, <1>7
  <2>2. j.signed = login_challenge.challenge
    BY <1>7 DEF VerifySignature
  <2> QED
    BY <1>1, <1>2, <1>4, <2>1, <2>2, JobUpdate
<1>8. CASE ~VerifySignature(j)
  <2>1. job' = [job EXCEPT ![t] = Idle]
    BY <1>5, <1>8
  <2> QED
    BY <1>1, <1>2, <1>6, <2>1, JobUpdate
<1> QED
  BY <1>7, <1>8

\* The jobs stay jobs.
LEMMA JobsTyping ==
  ASSUME TypeOK, NEW t \in Threads, Request(t)
  PROVE  job' \in [Threads -> Job]
<1>1. job \in [Threads -> Job] /\ Idle \in Job
  BY JobKinds DEF TypeOK
<1>2. Ends(t) => job' \in [Threads -> Job]
  BY <1>1 DEF Ends
<1>3. ASSUME NEW j \in Job, Serving(t, j) PROVE job' \in [Threads -> Job]
  BY <1>1, <1>3 DEF Serving
<1>4. ASSUME NEW k \in Keys, HandleRegister(t, k) PROVE job' \in [Threads -> Job]
  BY <1>3, <1>4, JobKinds DEF HandleRegister
<1>5. ASSUME HandleLoginChallenge(t) PROVE job' \in [Threads -> Job]
  BY <1>3, <1>5, JobKinds DEF HandleLoginChallenge
<1>6. ASSUME NEW k \in Keys, NEW c \in Challenges, HandleLogin(t, k, c)
      PROVE  job' \in [Threads -> Job]
  <2>1. public_key \in Keys
    BY <1>6 DEF HandleLogin, TypeOK
  <2> QED
    BY <1>3, <1>6, <2>1, JobKinds DEF HandleLogin
<1>7. ASSUME NEW r \in SignedRequests, verifySignedRequest(t, r) PROVE job' \in [Threads -> Job]
  BY <1>3, <1>7, JobKinds DEF verifySignedRequest
<1>8. ASSUME ConsumeLoginChallenge(t) PROVE job' \in [Threads -> Job]
  BY <1>8, ConsumeMove
<1>9. RegisterUser(t) \/ StoreLoginChallenge(t) \/ StoreToken(t) \/ CheckNonce(t) \/ reject(t)
        => Ends(t)
  BY DEF RegisterUser, StoreLoginChallenge, StoreToken, CheckNonce, reject
<1> QED
  BY <1>2, <1>4, <1>5, <1>6, <1>7, <1>8, <1>9 DEF Request

\* What CheckNonce leaves in the cache and in the history: all but one of the
\* nonces that the sweeps left, and this one if it was not refused.
NonceStep(r, swept, S) ==
  LET kept == Without(swept \ S)
  IN  \/ /\ \E e \in S : e.nonce = r.nonce /\ clock - e.at < Window
         /\ nonceSeen' = S /\ accepted' = kept
      \/ /\ \A e \in S : ~(e.nonce = r.nonce /\ clock - e.at < Window)
         /\ nonceSeen' = remember(S, r.nonce)
         /\ accepted' = [kept EXCEPT ![r] = clock]

\* CheckNonce is such a step.
LEMMA CheckNonceStep ==
  ASSUME TypeOK, NEW t \in Threads, CheckNonce(t)
  PROVE  \E r \in SignedRequests, crowded \in BOOLEAN : \E S \in roomFor(Swept(crowded)) :
           NonceStep(r, Swept(crowded), S)
<1>1. job[t] \in Job /\ job[t].op = "nonce"
  BY DEF TypeOK, CheckNonce, Handles
<1>2. PICK r \in SignedRequests : r = job[t].request
  BY <1>1, JobTyping
<1>3. PICK crowded \in BOOLEAN : \E S \in roomFor(Swept(crowded)) :
        IF \E e \in S : e.nonce = r.nonce /\ clock - e.at < Window
        THEN nonceSeen' = S /\ accepted' = Without(Swept(crowded) \ S)
        ELSE /\ nonceSeen' = remember(S, r.nonce)
             /\ accepted' = [Without(Swept(crowded) \ S) EXCEPT ![r] = clock]
  BY <1>2 DEF CheckNonce
<1>4. \E S \in roomFor(Swept(crowded)) : NonceStep(r, Swept(crowded), S)
  BY <1>3 DEF NonceStep
<1> QED
  BY <1>4

\* The sweeps and the room that is made only drop nonces.
LEMMA SweptSubset ==
  ASSUME NEW crowded \in BOOLEAN, NEW S \in roomFor(Swept(crowded))
  PROVE  S \subseteq Swept(crowded) /\ Swept(crowded) \subseteq nonceSeen
BY DEF roomFor, Swept, fresh

\* Every step keeps the types.
LEMMA NextTypeOK == TypeOK /\ [Next]_vars => TypeOK'
<1> SUFFICES ASSUME TypeOK, [Next]_vars PROVE TypeOK'
  OBVIOUS
<1>1. MaxClock \in Nat /\ MaxChallenges \in Nat /\ ChallengeTTL \in Nat /\ Never = MaxClock + 1
  BY AccessLimits DEF Never
<1>2. ASSUME NEW t \in Threads, Request(t) PROVE TypeOK'
  <2>1. job' \in [Threads -> Job]
    BY <1>2, JobsTyping
  <2>2. ProcessTypeOK' /\ clock' = clock
    <3>1. processVars' = processVars /\ clock' = clock
      BY <1>2 DEF Request, HandleRegister, RegisterUser, HandleLoginChallenge,
         StoreLoginChallenge, HandleLogin, ConsumeLoginChallenge, StoreToken,
         verifySignedRequest, CheckNonce, reject
    <3> QED
      BY <3>1 DEF TypeOK, ProcessTypeOK, processVars
  <2>3. CASE \/ \E k \in Keys : HandleRegister(t, k)
             \/ HandleLoginChallenge(t)
             \/ \E k \in Keys, c \in Challenges : HandleLogin(t, k, c)
             \/ \E r \in SignedRequests : verifySignedRequest(t, r)
             \/ reject(t)
    <3>1. UNCHANGED <<tables, memory>>
      BY <2>3 DEF HandleRegister, HandleLoginChallenge, HandleLogin, verifySignedRequest, reject
    <3> QED
      BY <2>1, <2>2, <3>1 DEF TypeOK, tables, memory
  <2>4. CASE RegisterUser(t)
    <3>1. job[t].key \in Keys
      BY <2>4, JobTyping DEF RegisterUser, Handles, TypeOK
    <3> QED
      BY <2>1, <2>2, <2>4, <3>1 DEF RegisterUser, TypeOK, memory
  <2>5. CASE StoreLoginChallenge(t)
    <3>1. /\ issued + 1 \in Challenges /\ issued + 1 \in 0..MaxChallenges
          /\ clock + ChallengeTTL \in Nat
      BY <1>1, <2>5 DEF StoreLoginChallenge, TypeOK, Challenges
    <3> QED
      BY <2>1, <2>2, <2>5, <3>1 DEF StoreLoginChallenge, TypeOK, memory
  <2>6. CASE ConsumeLoginChallenge(t)
    <3>1. NoRow \in [challenge : Challenges \cup {NoChallenge}, expires_at : Nat]
      BY DEF NoRow
    <3> QED
      BY <2>1, <2>2, <2>6, <3>1 DEF ConsumeLoginChallenge, TypeOK, memory
  <2>7. CASE StoreToken(t)
    <3>1. job[t].signed \in Challenges
      BY <2>7, JobTyping DEF StoreToken, Handles, TypeOK
    <3>2. job[t].signed \in 0..MaxChallenges
      BY <1>1, <3>1 DEF Challenges
    <3>3. minted' \in [Challenges -> Nat]
      BY <2>7, <3>1 DEF StoreToken, TypeOK
    <3> QED
      BY <2>1, <2>2, <2>7, <3>2, <3>3 DEF StoreToken, TypeOK, memory
  <2>8. CASE CheckNonce(t)
    <3>1. UNCHANGED tables
      BY <2>8 DEF CheckNonce
    <3>8. PICK r \in SignedRequests, crowded \in BOOLEAN :
            \E S \in roomFor(Swept(crowded)) : NonceStep(r, Swept(crowded), S)
      BY <2>8, CheckNonceStep
    <3>2. PICK S \in roomFor(Swept(crowded)) : NonceStep(r, Swept(crowded), S)
      BY <3>8
    <3>3. S \subseteq [nonce : Nonces, at : 0..MaxClock]
      BY <3>2, SweptSubset DEF TypeOK
    <3>4. r.nonce \in Nonces /\ clock \in 0..MaxClock /\ clock \in 0..Never /\ Never \in 0..Never
      BY <1>1, SignedAssumption DEF SignedRequest, TypeOK
    <3>5. nonceSeen' \subseteq [nonce : Nonces, at : 0..MaxClock]
      BY <3>2, <3>3, <3>4 DEF NonceStep, remember
    <3>6. Without(Swept(crowded) \ S) \in [SignedRequests -> 0..Never]
      BY <3>4 DEF Without, TypeOK
    <3>7. accepted' \in [SignedRequests -> 0..Never]
      BY <3>2, <3>4, <3>6 DEF NonceStep
    <3> QED
      BY <2>1, <2>2, <3>1, <3>5, <3>7 DEF TypeOK, tables
  <2> QED
    BY <1>2, <2>3, <2>4, <2>5, <2>6, <2>7, <2>8 DEF Request
<1>3. ASSUME tick PROVE TypeOK'
  <2>1. clock' \in 0..MaxClock
    BY <1>1, <1>3 DEF tick, TypeOK
  <2> QED
    BY <1>3, <2>1 DEF tick, TypeOK, ProcessTypeOK, processVars, tables, memory
<1>4. ASSUME Process PROVE TypeOK'
  <2>1. ProcessTypeOK'
    BY <1>4 DEF Process, ProcessNext, signalWatcher, watcherLoop, startWorker, startFails, wake,
       takeSignal, workerEnded, workerStopped, killWorker, workerKilled, runServer, signalWorker,
       workerExits, Terminated, TypeOK, ProcessTypeOK, WatcherStates, WorkerStates
  <2>2. /\ job' \in [Threads -> Job]
        /\ nonceSeen' \subseteq [nonce : Nonces, at : 0..MaxClock]
        /\ accepted' \in [SignedRequests -> 0..Never]
    <3>1. Idle \in Job /\ Never \in 0..Never
      BY <1>1, JobKinds
    <3> QED
      BY <1>4, <3>1 DEF Process, TypeOK, memory
  <2> QED
    BY <1>4, <2>1, <2>2 DEF Process, TypeOK, tables
<1>5. ASSUME UNCHANGED vars PROVE TypeOK'
  BY <1>5 DEF vars, accessVars, processVars, tables, memory, TypeOK, ProcessTypeOK
<1> QED
  BY <1>2, <1>3, <1>4, <1>5 DEF Next

\* The first state is well typed.
LEMMA InitTypeOK == Init => TypeOK
<1> SUFFICES ASSUME Init PROVE TypeOK
  OBVIOUS
<1>1. /\ 0 \in 0..MaxClock /\ 0 \in 0..MaxChallenges /\ Never \in 0..Never
      /\ NoChallenge \in 0..MaxChallenges
  BY AccessLimits DEF Never, NoChallenge
<1>2. NoRow \in [challenge : Challenges \cup {NoChallenge}, expires_at : Nat] /\ Idle \in Job
  BY JobKinds DEF NoRow
<1> QED
  BY <1>1, <1>2 DEF Init, ProcessInit, AccessInit, TypeOK, ProcessTypeOK, WatcherStates,
     WorkerStates

\* Every reachable state of the server's access control is well typed.
THEOREM AccessTypeCorrect == Spec => []TypeOK
BY InitTypeOK, NextTypeOK, PTL DEF Spec

-----------------------------------------------------------------------------
(* Login *)

\* No goroutine begins to store a token, and the challenges stay as they are.
Unissued ==
  /\ login_challenge' = login_challenge /\ issued' = issued /\ minted' = minted
  /\ \A t \in Threads, c \in Challenges : Storing(t, c)' => Storing(t, c)

\* Most steps do not touch the challenges.
LEMMA ChallengeSteps ==
  ASSUME TypeOK, [Next]_vars
  PROVE  \/ \E t \in Threads :
              StoreLoginChallenge(t) \/ ConsumeLoginChallenge(t) \/ StoreToken(t)
         \/ Unissued
<1>1. job \in [Threads -> Job] /\ Idle \in Job /\ Idle.op = "idle"
  BY JobKinds DEF TypeOK
<1>2. ASSUME NEW t \in Threads, NEW j \in Job, j.op # "store", job' = [job EXCEPT ![t] = j],
             UNCHANGED <<login_challenge, issued, minted>>
      PROVE  Unissued
  <2>1. job'[t] = j /\ \A s \in Threads \ {t} : job'[s] = job[s]
    BY <1>1, <1>2, JobUpdate
  <2> QED
    BY <1>2, <2>1 DEF Unissued, Storing
<1>3. ASSUME NEW t \in Threads, RegisterUser(t) \/ CheckNonce(t) \/ reject(t) PROVE Unissued
  BY <1>1, <1>2, <1>3 DEF RegisterUser, CheckNonce, reject, Ends, tables
<1>4. ASSUME NEW t \in Threads, NEW k \in Keys, HandleRegister(t, k) PROVE Unissued
  <2>1. [op |-> "register", key |-> k] \in Job /\ [op |-> "register", key |-> k].op # "store"
    BY JobKinds
  <2> QED
    BY <1>2, <1>4, <2>1 DEF HandleRegister, Serving, tables
<1>5. ASSUME NEW t \in Threads, HandleLoginChallenge(t) PROVE Unissued
  <2>1. [op |-> "challenge"] \in Job /\ [op |-> "challenge"].op # "store"
    BY JobKinds
  <2> QED
    BY <1>2, <1>5, <2>1 DEF HandleLoginChallenge, Serving, tables
<1>6. ASSUME NEW t \in Threads, NEW k \in Keys, NEW c \in Challenges, HandleLogin(t, k, c)
      PROVE  Unissued
  <2> DEFINE j == [op |-> "consume", key |-> k, signed |-> c, public_key |-> public_key]
  <2>1. public_key \in Keys
    BY <1>6 DEF HandleLogin, TypeOK
  <2>2. j \in Job /\ j.op # "store"
    BY <2>1, JobKinds
  <2>3. job' = [job EXCEPT ![t] = j] /\ UNCHANGED <<login_challenge, issued, minted>>
    BY <1>6 DEF HandleLogin, Serving, tables
  <2> HIDE DEF j
  <2> QED
    BY <1>2, <2>2, <2>3
<1>7. ASSUME NEW t \in Threads, NEW r \in SignedRequests, verifySignedRequest(t, r)
      PROVE  Unissued
  <2>1. [op |-> "nonce", request |-> r] \in Job /\ [op |-> "nonce", request |-> r].op # "store"
    BY JobKinds
  <2> QED
    BY <1>2, <1>7, <2>1 DEF verifySignedRequest, Serving, tables
<1>8. ASSUME Process PROVE Unissued
  BY <1>1, <1>8 DEF Process, Unissued, Storing, tables
<1>9. ASSUME tick \/ UNCHANGED vars PROVE Unissued
  BY <1>9 DEF tick, Unissued, Storing, tables, vars, accessVars
<1> QED
  BY <1>3, <1>4, <1>5, <1>6, <1>7, <1>8, <1>9 DEF Next, Request

\* A challenge is used up by the goroutine that consumes it.
LEMMA NextChallengeInv == TypeOK /\ ChallengeInv /\ [Next]_vars => ChallengeInv'
<1> SUFFICES ASSUME TypeOK, ChallengeInv, [Next]_vars PROVE ChallengeInv'
  OBVIOUS
<1>1. /\ job \in [Threads -> Job] /\ Idle \in Job /\ Idle.op = "idle"
      /\ issued \in Nat /\ minted \in [Challenges -> Nat]
      /\ login_challenge.challenge \in Nat
      /\ \A c \in Challenges : c \in Nat /\ c # NoChallenge
  BY JobKinds, AccessLimits DEF TypeOK, Challenges, NoChallenge
<1>2. CASE Unissued
  BY <1>2 DEF Unissued, ChallengeInv
<1>3. ASSUME NEW t \in Threads, Ends(t)
      PROVE  /\ \A c \in Challenges : ~Storing(t, c)'
             /\ \A s \in Threads \ {t}, c \in Challenges : Storing(s, c)' <=> Storing(s, c)
  <2>1. job'[t] = Idle /\ \A s \in Threads \ {t} : job'[s] = job[s]
    BY <1>1, <1>3, JobUpdate DEF Ends
  <2> QED
    BY <1>1, <2>1 DEF Storing
<1>4. ASSUME NEW t \in Threads, StoreLoginChallenge(t) PROVE ChallengeInv'
  <2>1. /\ issued' = issued + 1 /\ login_challenge'.challenge = issued + 1 /\ minted' = minted
        /\ Ends(t)
    BY <1>4 DEF StoreLoginChallenge
  <2>2. \A s \in Threads, c \in Challenges : Storing(s, c)' => Storing(s, c)
    BY <1>3, <2>1
  <2>3. \A c \in Challenges : c > issued' \/ c = login_challenge'.challenge => c > issued
    BY <1>1, <2>1
  <2>4. login_challenge'.challenge <= issued'
    BY <1>1, <2>1
  <2> QED
    BY <2>1, <2>2, <2>3, <2>4 DEF ChallengeInv
<1>5. ASSUME NEW t \in Threads, ConsumeLoginChallenge(t) PROVE ChallengeInv'
  <2>1. /\ issued' = issued /\ minted' = minted /\ login_challenge'.challenge = NoChallenge
    BY <1>5 DEF ConsumeLoginChallenge, NoRow
  <2>2. /\ \A s \in Threads \ {t}, c \in Challenges : Storing(s, c)' <=> Storing(s, c)
        /\ \A c \in Challenges : Storing(t, c)' => c = login_challenge.challenge
    BY <1>1, <1>5, ConsumeMove DEF Storing
  <2>3. login_challenge'.challenge <= issued'
    BY <1>1, <2>1 DEF NoChallenge
  <2>4. ASSUME NEW c \in Challenges
        PROVE  /\ minted'[c] <= 1
               /\ c > issued' \/ login_challenge'.challenge = c =>
                    minted'[c] = 0 /\ \A s \in Threads : ~Storing(s, c)'
               /\ \A s \in Threads : Storing(s, c)' => minted'[c] = 0
               /\ \A s, r \in Threads : Storing(s, c)' /\ Storing(r, c)' => s = r
    <3>1. CASE c = login_challenge.challenge
      <4>1. minted[c] = 0 /\ ~(c > issued) /\ \A s \in Threads : ~Storing(s, c)
        BY <1>1, <3>1 DEF ChallengeInv
      <4> QED
        BY <1>1, <2>1, <2>2, <4>1
    <3>2. CASE c # login_challenge.challenge
      <4>1. \A s \in Threads : Storing(s, c)' => Storing(s, c)
        BY <2>2, <3>2
      <4> QED
        BY <1>1, <2>1, <4>1 DEF ChallengeInv
    <3> QED
      BY <3>1, <3>2
  <2> QED
    BY <2>3, <2>4 DEF ChallengeInv
<1>6. ASSUME NEW t \in Threads, StoreToken(t) PROVE ChallengeInv'
  <2>1. PICK b \in Challenges : b = job[t].signed
    BY <1>1, <1>6, JobTyping DEF StoreToken, Handles
  <2>2. /\ Storing(t, b) /\ issued' = issued /\ login_challenge' = login_challenge
        /\ minted' = [minted EXCEPT ![b] = minted[b] + 1] /\ Ends(t)
    BY <1>6, <2>1 DEF StoreToken, Handles, Storing
  <2>3. ASSUME NEW c \in Challenges
        PROVE  /\ minted'[c] <= 1
               /\ c > issued' \/ login_challenge'.challenge = c =>
                    minted'[c] = 0 /\ \A s \in Threads : ~Storing(s, c)'
               /\ \A s \in Threads : Storing(s, c)' => minted'[c] = 0
               /\ \A s, r \in Threads : Storing(s, c)' /\ Storing(r, c)' => s = r
    <3>1. CASE c = b
      <4>1. minted[c] = 0 /\ ~(c > issued \/ login_challenge.challenge = c)
        BY <2>2, <3>1 DEF ChallengeInv
      <4>2. minted'[c] = 1
        BY <1>1, <2>2, <3>1, <4>1
      <4>3. \A s \in Threads : ~Storing(s, c)'
        BY <1>3, <2>2, <3>1 DEF ChallengeInv
      <4> QED
        BY <2>2, <4>1, <4>2, <4>3
    <3>2. CASE c # b
      <4>1. minted'[c] = minted[c] /\ \A s \in Threads : Storing(s, c)' => Storing(s, c)
        BY <1>1, <1>3, <2>2, <3>2
      <4> QED
        BY <2>2, <4>1 DEF ChallengeInv
    <3> QED
      BY <3>1, <3>2
  <2> QED
    BY <2>2, <2>3 DEF ChallengeInv
<1> QED
  BY <1>2, <1>4, <1>5, <1>6, ChallengeSteps

\* At the start no challenge is issued.
LEMMA InitChallengeInv == Init => ChallengeInv
BY AccessLimits DEF Init, AccessInit, ChallengeInv, Storing, Idle, NoRow, NoChallenge, Challenges

\* One challenge can never mint two tokens, whatever logins run at the same
\* time or are repeated, and whatever restarts cut off.
THEOREM TokensOncePerChallenge == Spec => []OneTokenPerChallenge
<1>1. ChallengeInv => OneTokenPerChallenge
  BY DEF ChallengeInv, OneTokenPerChallenge
<1> QED
  BY InitTypeOK, NextTypeOK, InitChallengeInv, NextChallengeInv, <1>1, PTL DEF Spec

-----------------------------------------------------------------------------
(* Registration *)

\* The key that registered an id first stays, whoever registers it again.
THEOREM FirstKeyWins == Spec => FirstKeyStays
<1>1. [Next]_vars => [public_key # NoKey => public_key' = public_key]_vars
  BY DEF Next, Request, HandleRegister, RegisterUser, HandleLoginChallenge,
     StoreLoginChallenge, HandleLogin, ConsumeLoginChallenge, StoreToken, verifySignedRequest,
     CheckNonce, reject, tick, Process, tables
<1> QED
  BY <1>1, PTL DEF Spec, FirstKeyStays

-----------------------------------------------------------------------------
(* The watcher *)

\* The watcher starts a worker only when none is there.
LEMMA NextWatchInv == WatchInv /\ [Next]_vars => WatchInv'
<1> SUFFICES ASSUME WatchInv, [Next]_vars PROVE WatchInv'
  OBVIOUS
<1>1. ProcessNext \/ UNCHANGED processVars
  BY DEF Next, Request, HandleRegister, RegisterUser, HandleLoginChallenge,
     StoreLoginChallenge, HandleLogin, ConsumeLoginChallenge, StoreToken, verifySignedRequest,
     CheckNonce, reject, tick, Process, vars
<1>2. CASE ProcessNext
  BY <1>2 DEF ProcessNext, signalWatcher, watcherLoop, startWorker, startFails, wake,
     takeSignal, workerEnded, workerStopped, killWorker, workerKilled, runServer, signalWorker,
     workerExits, Alive, WatchInv
<1>3. CASE UNCHANGED processVars
  BY <1>3 DEF processVars, WatchInv
<1> QED
  BY <1>1, <1>2, <1>3

\* Two workers never run at a time, and the watcher leaves none behind.
THEOREM WorkersOneAtATime == Spec => OneWorker
<1>1. Init => WatchInv
  BY DEF Init, ProcessInit, WatchInv
<1>2. WatchInv /\ WatchInv' /\ [Next]_vars =>
        [(startWorker => worker = "none") /\ (wpc' = "returned" => ~(Alive)')]_processVars
  BY DEF WatchInv, startWorker, Alive
<1> QED
  BY <1>1, <1>2, NextWatchInv, PTL DEF Spec, OneWorker

-----------------------------------------------------------------------------
(* Nonces *)

\* The sweeps keep every nonce that is fresh, and leave a full cache only of
\* fresh ones.
LEMMA SweptKeepsFresh ==
  ASSUME NEW crowded \in BOOLEAN
  PROVE  /\ fresh(nonceSeen) \subseteq Swept(crowded)
         /\ Cardinality(Swept(crowded)) >= nonceMaxPerUser =>
              Swept(crowded) \subseteq fresh(nonceSeen)
<1>1. PICK S : S = IF crowded THEN fresh(nonceSeen) ELSE nonceSeen
  OBVIOUS
<1>2. fresh(nonceSeen) \subseteq S /\ S \subseteq nonceSeen
  BY <1>1 DEF fresh
<1>3. fresh(nonceSeen) \subseteq fresh(S) /\ fresh(S) \subseteq fresh(nonceSeen)
  BY <1>2 DEF fresh
<1>4. Swept(crowded) = IF Cardinality(S) >= nonceMaxPerUser THEN fresh(S) ELSE S
  BY <1>1 DEF Swept
<1> QED
  BY <1>2, <1>3, <1>4

\* With room made there is room for one more nonce.
LEMMA RoomForOne ==
  ASSUME NonceInv, NEW crowded \in BOOLEAN, NEW S \in roomFor(Swept(crowded))
  PROVE  /\ IsFiniteSet(Swept(crowded))
         /\ IsFiniteSet(S) /\ Cardinality(S) < nonceMaxPerUser
<1>1. IsFiniteSet(nonceSeen) /\ Cardinality(nonceSeen) <= nonceMaxPerUser /\ nonceMaxPerUser \in Nat
  BY AccessLimits DEF NonceInv, NoncesBounded
<1>2. PICK W : W = Swept(crowded)
  OBVIOUS
<1>3. W \subseteq nonceSeen
  BY <1>2, SweptSubset
<1>4. IsFiniteSet(W) /\ Cardinality(W) <= Cardinality(nonceSeen)
  BY <1>1, <1>3, FS_Subset
<1>5. Cardinality(W) \in Nat /\ Cardinality(nonceSeen) \in Nat
  BY <1>1, <1>4, FS_CardinalityType
<1>6. CASE Cardinality(W) >= nonceMaxPerUser
  <2>1. PICK e \in W : S = W \ {e}
    BY <1>2, <1>6 DEF roomFor
  <2>2. IsFiniteSet(S) /\ Cardinality(S) = Cardinality(W) - 1
    BY <1>4, <2>1, FS_RemoveElement
  <2> QED
    BY <1>1, <1>2, <1>4, <1>5, <2>2
<1>7. CASE ~(Cardinality(W) >= nonceMaxPerUser)
  <2>1. S = W
    BY <1>2, <1>7 DEF roomFor
  <2> QED
    BY <1>1, <1>2, <1>4, <1>5, <1>7, <2>1
<1> QED
  BY <1>6, <1>7

\* Remembering a nonce adds one entry at most, and replaces that nonce's.
LEMMA RememberOne ==
  ASSUME NEW S, IsFiniteSet(S), NEW n
  PROVE  IsFiniteSet(remember(S, n)) /\ Cardinality(remember(S, n)) <= Cardinality(S) + 1
<1>1. PICK T \in SUBSET S : T = {e \in S : e.nonce # n}
  OBVIOUS
<1>2. PICK x : x = [nonce |-> n, at |-> clock]
  OBVIOUS
<1>3. IsFiniteSet(T) /\ Cardinality(T) <= Cardinality(S)
  BY <1>1, FS_Subset
<1>4. remember(S, n) = T \cup {x}
  BY <1>1, <1>2 DEF remember
<1>5. /\ IsFiniteSet(T \cup {x})
      /\ Cardinality(T \cup {x}) = IF x \in T THEN Cardinality(T) ELSE Cardinality(T) + 1
  BY <1>3, FS_AddElement
<1>6. Cardinality(T) \in Nat /\ Cardinality(S) \in Nat
  BY <1>3, FS_CardinalityType
<1> QED
  BY <1>3, <1>4, <1>5, <1>6

\* After CheckNonce the cache is within its limit, each nonce once.
LEMMA CheckNonceBounds ==
  ASSUME NonceInv, NEW r \in SignedRequests, NEW crowded \in BOOLEAN,
         NEW S \in roomFor(Swept(crowded)), NonceStep(r, Swept(crowded), S)
  PROVE  IsFiniteSet(nonceSeen)' /\ NoncesBounded'
<1>1. IsFiniteSet(S) /\ Cardinality(S) < nonceMaxPerUser
  BY RoomForOne
<1>2. S \subseteq nonceSeen
  BY SweptSubset
<1>3. \A d, e \in S : d.nonce = e.nonce => d = e
  BY <1>2 DEF NonceInv, NoncesBounded
<1>4. Cardinality(S) \in Nat /\ nonceMaxPerUser \in Nat
  BY <1>1, FS_CardinalityType, AccessLimits
<1>5. CASE nonceSeen' = S
  BY <1>1, <1>3, <1>4, <1>5 DEF NoncesBounded
<1>6. CASE nonceSeen' = remember(S, r.nonce)
  <2>1. IsFiniteSet(remember(S, r.nonce)) /\ Cardinality(remember(S, r.nonce)) <= Cardinality(S) + 1
    BY <1>1, RememberOne
  <2>2. Cardinality(remember(S, r.nonce)) \in Nat
    BY <2>1, FS_CardinalityType
  <2>3. \A d, e \in remember(S, r.nonce) : d.nonce = e.nonce => d = e
    BY <1>3 DEF remember
  <2> QED
    BY <1>1, <1>4, <1>6, <2>1, <2>2, <2>3 DEF NoncesBounded
<1> QED
  BY <1>5, <1>6 DEF NonceStep

\* What CheckNonce forgets has left the window, or was dropped to make room,
\* and with that from the history.
LEMMA CheckNonceRemembers ==
  ASSUME TypeOK, NonceInv, clock' = clock, NEW r \in SignedRequests, NEW crowded \in BOOLEAN,
         NEW S \in roomFor(Swept(crowded)), NonceStep(r, Swept(crowded), S)
  PROVE  RememberInv'
<1>1. /\ clock \in Nat /\ Window \in Nat /\ accepted \in [SignedRequests -> Nat]
      /\ \A e \in nonceSeen : e.at \in Nat
  BY AccessLimits DEF TypeOK, Never
<1>2. PICK W : W = Swept(crowded)
  OBVIOUS
<1>3. S \subseteq W /\ W \subseteq nonceSeen
  BY <1>2, SweptSubset
<1>4. \A e \in nonceSeen : e \notin W => clock > e.at + Window
  BY <1>1, <1>2, SweptKeepsFresh DEF fresh
<1>5. PICK kept : kept = Without(W \ S)
  OBVIOUS
<1>6. kept \in [SignedRequests -> Nat] /\ \A q \in SignedRequests : kept[q] # Never =>
        kept[q] = accepted[q] /\ \A e \in W \ S : e.nonce # q.nonce
  BY <1>1, <1>5, AccessLimits DEF Without, Never
<1>7. ASSUME NEW q \in SignedRequests, kept[q] # Never
      PROVE  /\ kept[q] <= clock
             /\ \/ \E e \in S : e.nonce = q.nonce /\ e.at >= kept[q]
                \/ clock > kept[q] + Window
  <2>1. accepted[q] <= clock /\ kept[q] = accepted[q]
    BY <1>6, <1>7 DEF NonceInv, RememberInv
  <2>2. CASE clock > accepted[q] + Window
    BY <2>1, <2>2
  <2>3. CASE ~(clock > accepted[q] + Window)
    <3>1. PICK e \in nonceSeen : e.nonce = q.nonce /\ e.at >= accepted[q]
      BY <1>6, <1>7, <2>3 DEF NonceInv, RememberInv
    <3>2. e \in W
      BY <1>1, <1>4, <2>3, <3>1
    <3>3. e \in S
      BY <1>6, <1>7, <3>1, <3>2
    <3> QED
      BY <2>1, <3>1, <3>3
  <2> QED
    BY <2>2, <2>3
<1>8. CASE nonceSeen' = S /\ accepted' = kept
  BY <1>7, <1>8 DEF RememberInv, Never
<1>9. CASE nonceSeen' = remember(S, r.nonce) /\ accepted' = [kept EXCEPT ![r] = clock]
  <2>1. PICK x : x = [nonce |-> r.nonce, at |-> clock]
    OBVIOUS
  <2>2. x \in nonceSeen' /\ x.nonce = r.nonce /\ x.at = clock
    BY <1>9, <2>1 DEF remember
  <2>3. \A e \in S : e.nonce # r.nonce => e \in nonceSeen'
    BY <1>9 DEF remember
  <2>4. ASSUME NEW q \in SignedRequests, accepted'[q] # Never
        PROVE  /\ accepted'[q] <= clock
               /\ \/ \E e \in nonceSeen' : e.nonce = q.nonce /\ e.at >= accepted'[q]
                  \/ clock > accepted'[q] + Window
    <3>1. CASE q = r
      BY <1>1, <1>6, <1>9, <2>2, <3>1
    <3>2. CASE q # r
      <4>1. accepted'[q] = kept[q] /\ kept[q] # Never
        BY <1>6, <1>9, <2>4, <3>2
      <4>2. kept[q] <= clock
        BY <1>7, <4>1
      <4>3. CASE q.nonce = r.nonce
        BY <1>1, <1>6, <2>2, <4>1, <4>2, <4>3
      <4>4. CASE q.nonce # r.nonce
        BY <1>7, <2>3, <4>1, <4>4
      <4> QED
        BY <4>3, <4>4
    <3> QED
      BY <3>1, <3>2
  <2> QED
    BY <2>4 DEF RememberInv, Never
<1> QED
  BY <1>2, <1>5, <1>8, <1>9 DEF NonceStep

\* Every other step leaves the cache as it is, or ends the worker and with it
\* the cache and the history.
MemoryKept ==
  \/ UNCHANGED memory /\ clock' \in {clock, clock + 1}
  \/ nonceSeen' = {} /\ accepted' = [r \in SignedRequests |-> Never] /\ clock' = clock

\* A step is one of CheckNonce or such a step.
LEMMA MemorySteps ==
  ASSUME [Next]_vars
  PROVE  MemoryKept \/ (clock' = clock /\ \E t \in Threads : CheckNonce(t))
<1>1. ASSUME NEW t \in Threads, Request(t), ~CheckNonce(t) PROVE UNCHANGED <<clock, memory>>
  BY <1>1 DEF Request, HandleRegister, RegisterUser, HandleLoginChallenge,
     StoreLoginChallenge, HandleLogin, ConsumeLoginChallenge, StoreToken, verifySignedRequest,
     reject
<1>2. ASSUME NEW t \in Threads, CheckNonce(t) PROVE clock' = clock
  BY <1>2 DEF CheckNonce
<1>3. ASSUME tick PROVE MemoryKept
  BY <1>3 DEF tick, MemoryKept
<1>4. ASSUME Process PROVE MemoryKept
  BY <1>4 DEF Process, MemoryKept, memory
<1>5. ASSUME UNCHANGED vars PROVE UNCHANGED <<clock, memory>>
  BY <1>5 DEF vars, accessVars
<1> QED
  BY <1>1, <1>2, <1>3, <1>4, <1>5 DEF Next, MemoryKept

\* Every step keeps the nonces within bounds and the accepted ones in memory.
LEMMA NextNonceInv == TypeOK /\ NonceInv /\ [Next]_vars => NonceInv'
<1> SUFFICES ASSUME TypeOK, NonceInv, [Next]_vars PROVE NonceInv'
  OBVIOUS
<1>1. ASSUME NEW t \in Threads, CheckNonce(t), clock' = clock PROVE NonceInv'
  <2>1. PICK r \in SignedRequests, crowded \in BOOLEAN :
          \E S \in roomFor(Swept(crowded)) : NonceStep(r, Swept(crowded), S)
    BY <1>1, CheckNonceStep
  <2>2. PICK S \in roomFor(Swept(crowded)) : NonceStep(r, Swept(crowded), S)
    BY <2>1
  <2> QED
    BY <1>1, <2>2, CheckNonceBounds, CheckNonceRemembers DEF NonceInv
<1>2. ASSUME MemoryKept PROVE NonceInv'
  <2>1. CASE UNCHANGED memory /\ clock' \in {clock, clock + 1}
    <3>1. clock \in Nat /\ Window \in Nat /\ accepted \in [SignedRequests -> Nat]
      BY AccessLimits DEF TypeOK, Never
    <3>2. RememberInv'
      BY <2>1, <3>1 DEF memory, NonceInv, RememberInv, Never
    <3> QED
      BY <2>1, <3>2 DEF memory, NonceInv, NoncesBounded
  <2>2. CASE nonceSeen' = {} /\ accepted' = [r \in SignedRequests |-> Never] /\ clock' = clock
    BY <2>2, FS_EmptySet, AccessLimits DEF NonceInv, NoncesBounded, RememberInv, Never
  <2> QED
    BY <1>2, <2>1, <2>2 DEF MemoryKept
<1> QED
  BY <1>1, <1>2, MemorySteps

\* At the start the cache is empty.
LEMMA InitNonceInv == Init => NonceInv
BY FS_EmptySet, AccessLimits
   DEF Init, AccessInit, NonceInv, NoncesBounded, RememberInv, Never

\* A user has at most nonceMaxPerUser nonces in memory, each once.
THEOREM NonceCacheBounded == Spec => []NoncesBounded
<1>1. NonceInv => NoncesBounded
  BY DEF NonceInv
<1> QED
  BY InitTypeOK, NextTypeOK, InitNonceInv, NextNonceInv, <1>1, PTL DEF Spec

\* A worker that accepted request r accepts it again only when it had to
\* forget the nonce, or when the window had closed: this is one such step.
Forgiven(r) ==
  accepted[r] # Never /\ accepted'[r] \notin {accepted[r], Never} =>
    \/ Cardinality(fresh(nonceSeen)) >= nonceMaxPerUser
    \/ r.timestamp >= accepted[r]
    \/ clock > r.timestamp + Window

\* CheckNonce accepts no request again for any other reason.
LEMMA CheckNonceForgives ==
  ASSUME TypeOK, NonceInv, NEW r \in SignedRequests, NEW crowded \in BOOLEAN,
         NEW S \in roomFor(Swept(crowded)), NonceStep(r, Swept(crowded), S),
         NEW q \in SignedRequests
  PROVE  Forgiven(q)
<1> SUFFICES ASSUME accepted[q] # Never, accepted'[q] \notin {accepted[q], Never},
                    ~(q.timestamp >= accepted[q]), ~(clock > q.timestamp + Window)
             PROVE  Cardinality(fresh(nonceSeen)) >= nonceMaxPerUser
  BY DEF Forgiven
<1>1. /\ clock \in Nat /\ Window \in Nat /\ accepted \in [SignedRequests -> Nat]
      /\ q.timestamp \in Nat /\ \A e \in nonceSeen : e.at \in Nat
  BY AccessLimits, SignedAssumption DEF TypeOK, Never, SignedRequest
<1>2. PICK W : W = Swept(crowded)
  OBVIOUS
<1>3. PICK kept : kept = Without(W \ S)
  OBVIOUS
<1>4. DOMAIN kept = SignedRequests /\ kept = [x \in SignedRequests |-> kept[x]]
        /\ kept[q] \in {accepted[q], Never}
  BY <1>3 DEF Without
<1>5. /\ q = r
      /\ \A e \in S : ~(e.nonce = r.nonce /\ clock - e.at < Window)
  BY <1>2, <1>3, <1>4 DEF NonceStep
<1>6. clock < accepted[q] + Window
  BY <1>1
<1>7. PICK e \in nonceSeen : e.nonce = q.nonce /\ e.at >= accepted[q]
  BY <1>1, <1>6 DEF NonceInv, RememberInv
<1>8. clock - e.at < Window
  BY <1>1, <1>6, <1>7
<1>9. e \in W /\ e \notin S
  BY <1>1, <1>2, <1>5, <1>7, <1>8, SweptKeepsFresh DEF fresh
<1>10. Cardinality(W) >= nonceMaxPerUser
  BY <1>2, <1>9 DEF roomFor
<1>11. W \subseteq fresh(nonceSeen)
  BY <1>2, <1>10, SweptKeepsFresh
<1>12. IsFiniteSet(nonceSeen) /\ fresh(nonceSeen) \subseteq nonceSeen
  BY DEF NonceInv, fresh
<1>13. IsFiniteSet(fresh(nonceSeen))
  BY <1>12, FS_Subset
<1>14. IsFiniteSet(W) /\ Cardinality(W) <= Cardinality(fresh(nonceSeen))
  BY <1>11, <1>13, FS_Subset
<1>15. Cardinality(W) \in Nat /\ Cardinality(fresh(nonceSeen)) \in Nat /\ nonceMaxPerUser \in Nat
  BY <1>13, <1>14, FS_CardinalityType, AccessLimits
<1> QED
  BY <1>10, <1>14, <1>15

\* A signed request is accepted again only if its nonce was dropped to make
\* room, its timestamp was ahead of the clock, or it left the window.
THEOREM RepeatsOnlyForgotten == Spec => RepeatedOnlyIfForgotten
<1>1. TypeOK /\ NonceInv /\ [Next]_vars => [\A r \in SignedRequests : Forgiven(r)]_vars
  <2> SUFFICES ASSUME TypeOK, NonceInv, [Next]_vars, NEW q \in SignedRequests
               PROVE  Forgiven(q)
    OBVIOUS
  <2>1. ASSUME NEW t \in Threads, CheckNonce(t) PROVE Forgiven(q)
    <3>1. PICK r \in SignedRequests, crowded \in BOOLEAN :
            \E S \in roomFor(Swept(crowded)) : NonceStep(r, Swept(crowded), S)
      BY <2>1, CheckNonceStep
    <3>2. PICK S \in roomFor(Swept(crowded)) : NonceStep(r, Swept(crowded), S)
      BY <3>1
    <3> QED
      BY <3>2, CheckNonceForgives
  <2>2. ASSUME MemoryKept PROVE Forgiven(q)
    BY <2>2 DEF MemoryKept, memory, Forgiven
  <2> QED
    BY <2>1, <2>2, MemorySteps
<1>2. [\A r \in SignedRequests : Forgiven(r)]_vars =>
        [\A r \in SignedRequests :
           accepted[r] # Never /\ accepted'[r] \notin {accepted[r], Never} =>
             \/ Cardinality(fresh(nonceSeen)) >= nonceMaxPerUser
             \/ r.timestamp >= accepted[r]
             \/ clock > r.timestamp + Window]_vars
  BY DEF Forgiven
<1> QED
  BY InitTypeOK, NextTypeOK, InitNonceInv, NextNonceInv, <1>1, <1>2, PTL
  DEF Spec, RepeatedOnlyIfForgotten
=============================================================================

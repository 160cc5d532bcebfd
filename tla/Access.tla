-------------------------------- MODULE Access --------------------------------
(***************************************************************************)
(* Who gets in: registration, login by challenge, and signed requests with *)
(* their timestamps and nonces (handler/http_register.go, http_login.go,   *)
(* signed.go, auth/signed_request.go and the tables of store/store.go they *)
(* use), for one user id, in a worker process that the watcher restarts.   *)
(*                                                                         *)
(* A request is a series of store calls and calls of CheckNonce, each      *)
(* atomic; requests interleave between them, and time passes.  What the    *)
(* tables hold survives the worker; its goroutines and the nonces do not.  *)
(*                                                                         *)
(* A user id is a short hash of the public key, so two keys can have the   *)
(* same id.  A signature is known by its key and by what was signed.       *)
(***************************************************************************)
EXTENDS Watcher, Naturals, FiniteSets

CONSTANTS
  Threads,           \* request goroutines that run at the same time
  Keys, NoKey,       \* public keys with the same user id
  Nonces,
  SignedRequests,    \* the signed requests, see SignedRequest: all may be sent again
  Window,            \* SignedRequestWindow
  ChallengeTTL,
  nonceMaxPerUser,   \* nonces it holds for one user
  MaxClock,          \* bound: how long a run lasts
  MaxChallenges      \* bound: login challenges issued in a run

SignedRequest == [key : Keys, nonce : Nonces, timestamp : 0..MaxClock]

ASSUME NoKeyAssumption == NoKey \notin Keys
ASSUME SignedAssumption == SignedRequests \subseteq SignedRequest
ASSUME AccessLimits ==
  /\ {Window, ChallengeTTL, nonceMaxPerUser} \subseteq Nat \ {0}
  /\ {MaxClock, MaxChallenges} \subseteq Nat

VARIABLES
  clock,
  public_key,       \* users.public_key of the id, NoKey when not registered
  login_challenge,  \* login_challenges: the challenge and when it expires
  issued,           \* challenges issued so far, which are random and thus new
  auth_token,       \* auth_tokens: the challenge the stored token was minted for
  minted,           \* minted[c] is how many tokens were answered for challenge c
  job,              \* job[t] is the request goroutine t serves, see Job
  nonceSeen,        \* the user's entry in the nonce map
  accepted          \* history: when this worker last accepted a request, for as
                    \* long as it does not drop the nonce to make room

tables    == <<public_key, login_challenge, issued, auth_token, minted>>
memory    == <<nonceSeen, accepted>>
accessVars == <<clock, tables, job, memory>>
vars      == <<processVars, accessVars>>

Challenges == 1..MaxChallenges
NoChallenge == 0
Never == MaxClock + 1

Idle == [op |-> "idle"]
Job ==
  {Idle}
    \cup [op : {"register"}, key : Keys]
    \cup [op : {"challenge"}]
    \cup [op : {"consume", "store"}, key : Keys, signed : Challenges,
          public_key : Keys]
    \cup [op : {"nonce"}, request : SignedRequests]

TypeOK ==
  /\ ProcessTypeOK
  /\ clock \in 0..MaxClock
  /\ public_key \in Keys \cup {NoKey}
  /\ login_challenge \in [challenge : Challenges \cup {NoChallenge}, expires_at : Nat]
  /\ issued \in 0..MaxChallenges
  /\ auth_token \in 0..MaxChallenges
  /\ minted \in [Challenges -> Nat]
  /\ job \in [Threads -> Job]
  /\ nonceSeen \subseteq [nonce : Nonces, at : 0..MaxClock]
  /\ accepted \in [SignedRequests -> 0..Never]

NoRow == [challenge |-> NoChallenge, expires_at |-> 0]

AccessInit ==
  /\ clock = 0
  /\ public_key = NoKey
  /\ login_challenge = NoRow
  /\ issued = 0
  /\ auth_token = NoChallenge
  /\ minted = [c \in Challenges |-> 0]
  /\ job = [t \in Threads |-> Idle]
  /\ nonceSeen = {}
  /\ accepted = [r \in SignedRequests |-> Never]

Init == ProcessInit /\ AccessInit

\* A goroutine starts, or goes on with, a request.
Serving(t, j) ==
  /\ worker = "serve"
  /\ job[t] = Idle
  /\ job' = [job EXCEPT ![t] = j]

Handles(t, op) == Running /\ job[t].op = op

Ends(t) == job' = [job EXCEPT ![t] = Idle]

\* The request is refused, or the database fails.
reject(t) ==
  /\ Running
  /\ job[t] # Idle
  /\ Ends(t)
  /\ UNCHANGED <<processVars, clock, tables, memory>>

-----------------------------------------------------------------------------
(* Registration *)

\* UserExists, for a key whose hash is the user id.
HandleRegister(t, k) ==
  /\ public_key = NoKey
  /\ Serving(t, [op |-> "register", key |-> k])
  /\ UNCHANGED <<processVars, clock, tables, memory>>

\* Mutant: INSERT OR REPLACE.
RegisterUserReplaces(t) ==
  /\ Handles(t, "register")
  /\ public_key' = job[t].key
  /\ Ends(t)
  /\ UNCHANGED <<processVars, clock, login_challenge, issued, auth_token, minted, memory>>

\* user_id is the primary key: the insert fails when there is a row by now.
RegisterUser(t) ==
  /\ Handles(t, "register")
  /\ public_key = NoKey
  /\ public_key' = job[t].key
  /\ Ends(t)
  /\ UNCHANGED <<processVars, clock, login_challenge, issued, auth_token, minted, memory>>

-----------------------------------------------------------------------------
(* Login *)

HandleLoginChallenge(t) ==
  /\ public_key # NoKey
  /\ Serving(t, [op |-> "challenge"])
  /\ UNCHANGED <<processVars, clock, tables, memory>>

\* INSERT OR REPLACE: a new challenge takes the place of the old one.
StoreLoginChallenge(t) ==
  /\ Handles(t, "challenge")
  /\ issued < MaxChallenges
  /\ issued' = issued + 1
  /\ login_challenge' = [challenge |-> issued + 1, expires_at |-> clock + ChallengeTTL]
  /\ Ends(t)
  /\ UNCHANGED <<processVars, clock, public_key, auth_token, minted, memory>>

\* GetUserInfo.  The client, who holds key k, has signed challenge c.
HandleLogin(t, k, c) ==
  /\ c <= issued
  /\ public_key # NoKey
  /\ Serving(t, [op |-> "consume", key |-> k, signed |-> c, public_key |-> public_key])
  /\ UNCHANGED <<processVars, clock, tables, memory>>

\* VerifySignature: with the key read before, over the challenge stored.
VerifySignature(j) == j.key = j.public_key /\ j.signed = login_challenge.challenge

\* Mutant: the challenge is read, to be deleted after the login.
PeekLoginChallenge(t) ==
  /\ Handles(t, "consume")
  /\ login_challenge # NoRow
  /\ login_challenge.expires_at > clock
  /\ job' = [job EXCEPT ![t] = IF VerifySignature(job[t]) THEN [@ EXCEPT !.op = "store"]
                               ELSE Idle]
  /\ UNCHANGED <<processVars, clock, tables, memory>>

\* DELETE ... RETURNING of an unexpired row.  The signature is verified over
\* what was returned; a failure leaves the challenge consumed.
ConsumeLoginChallenge(t) ==
  /\ Handles(t, "consume")
  /\ login_challenge # NoRow
  /\ login_challenge.expires_at > clock
  /\ login_challenge' = NoRow
  /\ job' = [job EXCEPT ![t] = IF VerifySignature(job[t]) THEN [@ EXCEPT !.op = "store"]
                               ELSE Idle]
  /\ UNCHANGED <<processVars, clock, public_key, issued, auth_token, minted, memory>>

\* INSERT OR REPLACE of a random token.
StoreToken(t) ==
  /\ Handles(t, "store")
  /\ auth_token' = job[t].signed
  /\ minted' = [minted EXCEPT ![job[t].signed] = @ + 1]
  /\ Ends(t)
  /\ UNCHANGED <<processVars, clock, public_key, login_challenge, issued, memory>>

-----------------------------------------------------------------------------
(* Signed requests *)

\* Within the window, before or after.
InWindow(ts, now) == ts <= now + Window /\ now <= ts + Window

\* GetPublicKey and VerifySignedRequest.
verifySignedRequest(t, r) ==
  /\ public_key = r.key
  /\ InWindow(r.timestamp, clock)
  /\ Serving(t, [op |-> "nonce", request |-> r])
  /\ UNCHANGED <<processVars, clock, tables, memory>>

\* Mutant: entries are swept at half the window.
freshHalf(S) == {e \in S : 2 * (clock - e.at) < Window}

fresh(S) == {e \in S : clock - e.at <= Window}

\* The user's nonces after the sweeps: with those of all users when nonceMax
\* or more users are known (crowded), which depends on users not modelled
\* here; and when the user has too many.
Swept(crowded) ==
  LET S == IF crowded THEN fresh(nonceSeen) ELSE nonceSeen
  IN  IF Cardinality(S) >= nonceMaxPerUser THEN fresh(S) ELSE S

\* Mutant: the user's map is swept and grows on.
roomFreeNothing(S) == {S}

\* If it still is full, any one entry makes room, this very nonce included.
roomFor(S) ==
  IF Cardinality(S) >= nonceMaxPerUser THEN {S \ {e} : e \in S} ELSE {S}

\* Mutant: the entry says until when the nonce is kept.
rememberUntil(S, n) ==
  {e \in S : e.nonce # n} \cup {[nonce |-> n, at |-> clock + Window]}

remember(S, n) == {e \in S : e.nonce # n} \cup {[nonce |-> n, at |-> clock]}

\* The history of what is still remembered when the nonces of E are dropped.
Without(E) ==
  [r \in SignedRequests |-> IF \E e \in E : e.nonce = r.nonce THEN Never ELSE accepted[r]]

\* A nonce younger than the window is a duplicate: the request is refused.
\* Otherwise it is remembered from now on, and the request accepted.
CheckNonce(t) ==
  /\ Handles(t, "nonce")
  /\ LET r == job[t].request
     IN \E crowded \in BOOLEAN : \E S \in roomFor(Swept(crowded)) :
          LET kept == Without(Swept(crowded) \ S)
          IN  IF \E e \in S : e.nonce = r.nonce /\ clock - e.at < Window
              THEN nonceSeen' = S /\ accepted' = kept
              ELSE /\ nonceSeen' = remember(S, r.nonce)
                   /\ accepted' = [kept EXCEPT ![r] = clock]
  /\ Ends(t)
  /\ UNCHANGED <<processVars, clock, tables>>

-----------------------------------------------------------------------------
Request(t) ==
  \/ \E k \in Keys : HandleRegister(t, k)
  \/ RegisterUser(t)
  \/ HandleLoginChallenge(t)
  \/ StoreLoginChallenge(t)
  \/ \E k \in Keys, c \in Challenges : HandleLogin(t, k, c)
  \/ ConsumeLoginChallenge(t)
  \/ StoreToken(t)
  \/ \E r \in SignedRequests : verifySignedRequest(t, r)
  \/ CheckNonce(t)
  \/ reject(t)

tick ==
  /\ clock < MaxClock
  /\ clock' = clock + 1
  /\ UNCHANGED <<processVars, tables, job, memory>>

\* A step of the processes; when the worker ends, so do its goroutines, and
\* what it kept in memory is gone.
Process ==
  /\ ProcessNext
  /\ IF Running /\ ~(Running)'
     THEN /\ job' = [t \in Threads |-> Idle]
          /\ nonceSeen' = {}
          /\ accepted' = [r \in SignedRequests |-> Never]
     ELSE UNCHANGED <<job, memory>>
  /\ UNCHANGED <<clock, tables>>

Next == Process \/ tick \/ \E t \in Threads : Request(t)

Spec == Init /\ [][Next]_vars /\ ProcessFairness

-----------------------------------------------------------------------------
\* An id keeps the key that registered it first, also when two keys with that
\* id register at the same time (HandleRegister, RegisterUser).
FirstKeyStays == [][public_key # NoKey => public_key' = public_key]_vars

\* http_login.go: "one challenge can never mint two tokens", whatever logins
\* run at the same time or are repeated, and whatever the worker's restarts
\* cut off (HandleLogin, ConsumeLoginChallenge).
OneTokenPerChallenge == \A c \in Challenges : minted[c] <= 1

\* A worker accepts a signed request again only if its nonce was dropped to
\* make room, before or in this very call, if its timestamp is not before the
\* first acceptance (the client's clock is ahead: the nonce, kept from the
\* time it was seen, ages before the timestamp does), or if the check of the
\* nonce comes after the timestamp has left the window (VerifySignedRequest,
\* CheckNonce).
RepeatedOnlyIfForgotten ==
  [][\A r \in SignedRequests :
       accepted[r] # Never /\ accepted'[r] \notin {accepted[r], Never} =>
         \/ Cardinality(fresh(nonceSeen)) >= nonceMaxPerUser
         \/ r.timestamp >= accepted[r]
         \/ clock > r.timestamp + Window]_vars

\* A user has at most nonceMaxPerUser nonces in memory, each once (CheckNonce).
NoncesBounded ==
  /\ Cardinality(nonceSeen) <= nonceMaxPerUser
  /\ \A d, e \in nonceSeen : d.nonce = e.nonce => d = e
=============================================================================

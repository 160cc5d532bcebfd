------------------------------ MODULE MailProofs ------------------------------
(***************************************************************************)
(* Proofs about direct messages in WSHandler, for any users, connections   *)
(* and frames: what was queued is kept, and, as long as the replay cache   *)
(* does not have to forget, a message is in one place at a time and the    *)
(* server implements the abstract Mailbox.                                 *)
(***************************************************************************)
EXTENDS SessionProofs

-----------------------------------------------------------------------------
(* What is queued offline is kept *)

\* An acknowledged message is in the offline queue or was handed over:
\* PushOfflineMsg acknowledges what it has appended, and only a fetch, which
\* hands everything over, empties a queue.
THEOREM QueuedStays == Spec => []QueuedIsKept
<1>1. Init => QueuedIsKept
  BY DEF Init, QueuedIsKept
<1>2. TypeInv /\ QueuedIsKept /\ [Next]_vars => QueuedIsKept'
  <2> SUFFICES ASSUME TypeInv, QueuedIsKept, [Next]_vars, NEW m \in Frames,
                      "queued" \in acks'[m]
               PROVE  InQueue(offline'[m.to], m) # {} \/ arrived'[m] > 0
    BY DEF QueuedIsKept, Handed, InQueue
  <2>1. TypeOK /\ LoopInv
    BY DEF TypeInv
  <2>2. /\ m.to \in Users /\ offline \in [Users -> Seq(Message)]
        /\ arrived[m] \in Nat /\ acks \in [Frames -> SUBSET Answers]
    BY <2>1, FramesAssumption DEF TypeOK, Message
  <2>3. "queued" \in acks[m] => (\E i \in DOMAIN offline[m.to] : offline[m.to][i] = m) \/ arrived[m] > 0
    BY DEF QueuedIsKept, Handed, InQueue
  <2>4. ASSUME "queued" \in acks[m], offline' = offline, arrived' = arrived
        PROVE  InQueue(offline'[m.to], m) # {} \/ arrived'[m] > 0
    BY <2>3, <2>4 DEF InQueue
  <2>11. ASSUME NEW n, NEW answer, Ack(n, answer), n # m \/ answer # "queued"
         PROVE  "queued" \in acks[m]
    BY <2>2, <2>11 DEF Ack
  <2>5. ASSUME NEW c \in Conns, storeOffline(c)
        PROVE  InQueue(offline'[m.to], m) # {} \/ arrived'[m] > 0
    <3> DEFINE n == conn[c].msg
    <3>1. n \in Frames /\ n \in Message /\ n.to \in Users
      BY <2>1, <2>5, FramesAssumption DEF storeOffline, LoopInv, Message
    <3>2. arrived' = arrived
      BY <2>5 DEF storeOffline, clientVars
    <3>3. CASE PushOfflineMsg(n.to, n) /\ Answered(c, "queued")
      <4>1. offline' = [offline EXCEPT ![n.to] = Append(offline[n.to], n)]
        BY <3>3 DEF PushOfflineMsg
      <4>2. offline[n.to] \in Seq(Message)
        BY <2>2, <3>1
      <4>3. CASE n = m
        <5>1. offline'[m.to] = Append(offline[m.to], m)
          BY <2>2, <4>1, <4>3
        <5>2. Len(offline[m.to]) + 1 \in DOMAIN offline'[m.to]
              /\ offline'[m.to][Len(offline[m.to]) + 1] = m
          BY <3>1, <4>2, <4>3, <5>1
        <5> QED
          BY <5>2 DEF InQueue
      <4>4. CASE n # m
        <5>1. "queued" \in acks[m]
          BY <2>2, <3>3, <4>4 DEF Answered, Ack
        <5>2. ASSUME NEW i \in DOMAIN offline[m.to], offline[m.to][i] = m
              PROVE  i \in DOMAIN offline'[m.to] /\ offline'[m.to][i] = m
          <6>1. CASE n.to = m.to
            <7>1. offline'[m.to] = Append(offline[m.to], n)
              BY <2>2, <4>1, <6>1
            <7> QED
              BY <3>1, <4>2, <5>2, <6>1, <7>1
          <6>2. CASE n.to # m.to
            BY <2>2, <4>1, <5>2, <6>2
          <6> QED
            BY <6>1, <6>2
        <5> QED
          BY <2>3, <3>2, <5>1, <5>2 DEF InQueue
      <4> QED
        BY <4>3, <4>4
    <3>4. CASE offline' = offline /\ (Answered(c, "full") \/ Answered(c, "failed"))
      <4>1. "queued" \in acks[m]
        BY <2>11, <3>4 DEF Answered
      <4> QED
        BY <2>4, <3>2, <3>4, <4>1
    <3> QED
      BY <2>5, <3>3, <3>4 DEF storeOffline
  <2>6. ASSUME NEW u \in Users, FetchAndClearOfflineMsgs(u)
        PROVE  InQueue(offline'[m.to], m) # {} \/ arrived'[m] > 0
    <3> DEFINE S == {i \in DOMAIN offline[u] : offline[u][i] = m}
    <3>1. /\ "queued" \in acks[m]
          /\ arrived'[m] = arrived[m] + Cardinality(S)
          /\ offline' = [offline EXCEPT ![u] = <<>>]
      BY <2>6 DEF FetchAndClearOfflineMsgs
    <3>2. IsFiniteSet(S) /\ Cardinality(S) \in Nat
      BY <2>1, CopiesTyping
    <3>3. CASE u = m.to /\ S # {}
      <4>1. Cardinality(S) # 0
        BY <3>2, <3>3, FS_EmptySet
      <4> QED
        BY <2>2, <3>1, <3>2, <4>1
    <3>4. CASE ~(u = m.to /\ S # {})
      <4>1. CASE arrived[m] > 0
        BY <2>2, <3>1, <3>2, <4>1
      <4>2. CASE \E i \in DOMAIN offline[m.to] : offline[m.to][i] = m
        <5>1. u # m.to
          BY <3>4, <4>2
        <5>2. offline'[m.to] = offline[m.to]
          BY <2>2, <3>1, <5>1
        <5> QED
          BY <4>2, <5>2 DEF InQueue
      <4> QED
        BY <2>3, <3>1, <4>1, <4>2
    <3> QED
      BY <3>3, <3>4
  <2>7. ASSUME NEW c \in Conns, writeMessage(c)
        PROVE  InQueue(offline'[m.to], m) # {} \/ arrived'[m] > 0
    <3>1. /\ "queued" \in acks[m] /\ offline' = offline
          /\ arrived' = arrived \/ \E env : clientReceives(c, env)
      BY <2>7 DEF writeMessage
    <3>2. arrived'[m] \in Nat /\ arrived'[m] >= arrived[m]
      BY <2>1, <2>2, <3>1 DEF clientReceives, TypeOK
    <3> QED
      BY <2>2, <2>3, <3>1, <3>2 DEF InQueue
  <2>8. ASSUME NEW c \in Conns,
               \/ \E n \in Frames : handleSendMessage(c, n)
               \/ enqueue(c)
        PROVE  "queued" \in acks[m] /\ offline' = offline /\ arrived' = arrived
    <3>1. "queued" \in acks[m]
      BY <2>8, <2>11 DEF handleSendMessage, enqueue, Answered
    <3> QED
      BY <2>8, <3>1 DEF handleSendMessage, enqueue, clientVars
  <2>9. ASSUME NEW c \in Conns,
               \/ \E u \in Users : handleConnect(c, u)
               \/ lookupWatchers(c) \/ cleanup(c) \/ checkOnline(c)
               \/ \E w \in Users : announce(c, w)
               \/ writerEnds(c) \/ readFails(c) \/ socketFails(c)
        PROVE  "queued" \in acks[m] /\ offline' = offline /\ arrived' = arrived
    BY <2>9 DEF handleConnect, lookupWatchers, cleanup, checkOnline, announce, writerEnds,
       readFails, socketFails, clientVars
  <2>10. ASSUME \/ \E u, w \in Users : HandleAddContact(u, w) \/ notifyContact(u, w)
                \/ \E s \in Users, id \in MsgIds : replayAges(s, id)
                \/ Ticker
                \/ UNCHANGED vars
         PROVE  "queued" \in acks[m] /\ offline' = offline /\ arrived' = arrived
    BY <2>10 DEF HandleAddContact, notifyContact, replayAges, Ticker, tick,
       pushPresenceSnapshot, skipPresenceSnapshot, vars, clientVars
  <2> QED
    BY <2>4, <2>5, <2>6, <2>7, <2>8, <2>9, <2>10 DEF Next, Frame, Handler, Writer, Requests
<1> QED
  BY InitTypeInv, NextTypeInv, <1>1, <1>2, PTL DEF Spec

-----------------------------------------------------------------------------
(* The places of a message *)

\* A message is in the hands of a handler, in the offline queue of its
\* recipient or in a channel; each of them, once.
Sending == {"route", "enqueue", "store"}
At(c, m) == conn[c].pc \in Sending /\ conn[c].msg = m
Single(S) == \A x, y \in S : x = y

InHand(m) == {c \in Conns : At(c, m)} # {}
InStore(m) == InQueue(offline[m.to], m) # {}
InFlight(m) == Buffered(m) # {}

HandOnce(m) == Single({c \in Conns : At(c, m)})
StoreOnce(m) == Single(InQueue(offline[m.to], m))
FlightOnce(m) == Single(Buffered(m)) /\ \A g \in Gens : Single(InChannel(g, m))

Promised(m) == acks[m] \cap {"delivered", "queued"} # {}

\* A step leaves a message where it is, puts it there or takes it away.
HandStays(m) == (InHand(m)' <=> InHand(m)) /\ (HandOnce(m) => HandOnce(m)')
HandTakes(m) == InHand(m)' /\ (~InHand(m) => HandOnce(m)')
HandLeaves(m) == InHand(m) /\ (HandOnce(m) => ~InHand(m)')
StoreStays(m) == (InStore(m)' <=> InStore(m)) /\ (StoreOnce(m) => StoreOnce(m)')
StoreTakes(m) == InStore(m)' /\ (~InStore(m) => StoreOnce(m)')
StoreLeaves(m) == InStore(m) /\ ~InStore(m)'
FlightStays(m) == (InFlight(m)' <=> InFlight(m)) /\ (FlightOnce(m) => FlightOnce(m)')
FlightTakes(m) == InFlight(m)' /\ (~InFlight(m) => FlightOnce(m)')
FlightLeaves(m) == InFlight(m) /\ (FlightOnce(m) => ~InFlight(m)')

\* What an append does to the places of an element.
LEMMA AppendQueue ==
  ASSUME NEW S, NEW q \in Seq(S), NEW x \in S, NEW e
  PROVE  /\ x # e => InQueue(Append(q, x), e) = InQueue(q, e)
         /\ x = e => /\ InQueue(Append(q, x), e) # {}
                     /\ InQueue(q, e) = {} => Single(InQueue(Append(q, x), e))
<1> DEFINE n == Len(q) + 1
           r == Append(q, x)
<1>1. /\ Len(q) \in Nat /\ DOMAIN q = 1..Len(q) /\ DOMAIN r = 1..n
      /\ r[n] = x
      /\ \A i \in 1..Len(q) : r[i] = q[i]
  OBVIOUS
<1> HIDE DEF r
<1>2. DOMAIN r = DOMAIN q \cup {n}
  BY <1>1
<1>3. CASE x # e
  BY <1>1, <1>2, <1>3 DEF InQueue, r
<1>4. CASE x = e
  <2>1. n \in InQueue(r, e)
    BY <1>1, <1>2, <1>4 DEF InQueue
  <2>2. ASSUME InQueue(q, e) = {}, NEW i \in InQueue(r, e) PROVE i = n
    BY <1>1, <1>2, <2>2 DEF InQueue
  <2> QED
    BY <1>4, <2>1, <2>2 DEF Single, r
<1> QED
  BY <1>3, <1>4

\* What a receive does to the places of an element.
LEMMA TailQueue ==
  ASSUME NEW S, NEW q \in Seq(S), q # <<>>, NEW e
  PROVE  /\ Single(InQueue(q, e)) => Single(InQueue(Tail(q), e))
         /\ Head(q) # e => (InQueue(Tail(q), e) = {} <=> InQueue(q, e) = {})
         /\ Head(q) = e => /\ InQueue(q, e) # {}
                           /\ Single(InQueue(q, e)) => InQueue(Tail(q), e) = {}
<1> DEFINE n == Len(q)
           r == Tail(q)
<1>1. /\ n \in Nat /\ n >= 1 /\ DOMAIN q = 1..n /\ DOMAIN r = 1..(n - 1)
      /\ \A i \in 1..(n - 1) : r[i] = q[i + 1]
      /\ q[1] = Head(q)
  OBVIOUS
<1> HIDE DEF r, n
<1>2. ASSUME NEW i \in InQueue(r, e)
      PROVE  i \in Nat /\ i + 1 \in InQueue(q, e) /\ i + 1 # 1
  BY <1>1, <1>2 DEF InQueue
<1>3. ASSUME NEW j \in InQueue(q, e), j # 1
      PROVE  j - 1 \in InQueue(r, e)
  <2>1. j \in Nat /\ j - 1 \in 1..(n - 1) /\ (j - 1) + 1 = j /\ q[j] = e
    BY <1>1, <1>3 DEF InQueue
  <2>2. r[j - 1] = q[(j - 1) + 1]
    BY <1>1, <2>1
  <2> QED
    BY <1>1, <2>1, <2>2 DEF InQueue
<1>4. 1 \in InQueue(q, e) <=> Head(q) = e
  BY <1>1 DEF InQueue
<1>5. Single(InQueue(q, e)) => Single(InQueue(r, e))
  <2> SUFFICES ASSUME Single(InQueue(q, e)), NEW i \in InQueue(r, e), NEW j \in InQueue(r, e)
               PROVE  i = j
    BY DEF Single
  <2>1. i + 1 = j + 1 /\ i \in Nat /\ j \in Nat
    BY <1>2 DEF Single
  <2> QED
    BY <2>1
<1>6. Head(q) # e => (InQueue(r, e) = {} <=> InQueue(q, e) = {})
  BY <1>2, <1>3, <1>4
<1>7. ASSUME Head(q) = e, Single(InQueue(q, e)), NEW i \in InQueue(r, e) PROVE FALSE
  BY <1>2, <1>4, <1>7 DEF Single
<1> QED
  BY <1>4, <1>5, <1>6, <1>7 DEF r

\* The envelope of a direct message.
Env(m) == [type |-> "new_message", msg |-> m]

\* It tells its message, and is no other envelope.
LEMMA EnvTyping ==
  /\ \A m \in Message : Env(m) \in Envelope
  /\ \A m, n : Env(m) = Env(n) => m = n
  /\ \A env \in Envelope : env.type = "new_message" => env.msg \in Message /\ env = Env(env.msg)
  /\ \A m : Env(m).type = "new_message" /\ Env(m).msg = m
<1>1. \A m \in Message : Env(m) \in Envelope
  BY DEF Env, Envelope
<1>2. \A m : Env(m).type = "new_message" /\ Env(m).msg = m
  BY DEF Env
<1>3. ASSUME NEW env \in Envelope, env.type = "new_message"
      PROVE  env.msg \in Message /\ env = Env(env.msg)
  <2>1. env \in [type : {"new_message"}, msg : Message]
    BY <1>3 DEF Envelope
  <2> QED
    BY <2>1 DEF Env
<1>4. ASSUME NEW m, NEW n, Env(m) = Env(n) PROVE m = n
  BY <1>2, <1>4
<1> QED
  BY <1>1, <1>2, <1>3, <1>4

\* What becomes of a message in the channels is told by the one channel that
\* changes.
LEMMA OneChannel ==
  ASSUME NEW g \in Gens, NEW m,
         \A h \in Gens \ {g} : ch'[h].queue = ch[h].queue
  PROVE  LET old == InQueue(ch[g].queue, Env(m))
             new == InQueue(ch'[g].queue, Env(m))
         IN  /\ (new = {} <=> old = {}) /\ (Single(old) => Single(new)) => FlightStays(m)
             /\ new # {} /\ (old = {} => Single(new)) => FlightTakes(m)
             /\ old # {} /\ (Single(old) => new = {}) => FlightLeaves(m)
<1> DEFINE old == InQueue(ch[g].queue, Env(m))
           new == InQueue(ch'[g].queue, Env(m))
<1>1. InChannel(g, m) = old /\ InChannel(g, m)' = new
  BY DEF InChannel, Env, InQueue
<1>2. \A h \in Gens \ {g} : InChannel(h, m)' = InChannel(h, m)
  BY DEF InChannel, InQueue
<1>3. /\ \A h \in Gens : h \in Buffered(m) <=> InChannel(h, m) # {}
      /\ \A h \in Gens : h \in Buffered(m)' <=> InChannel(h, m)' # {}
      /\ Buffered(m) \subseteq Gens /\ Buffered(m)' \subseteq Gens
  BY DEF Buffered
<1> HIDE DEF old, new
<1>4. ASSUME (new = {} <=> old = {}) /\ (Single(old) => Single(new)) PROVE FlightStays(m)
  <2>1. Buffered(m)' = Buffered(m)
    BY <1>1, <1>2, <1>3, <1>4
  <2>2. ASSUME FlightOnce(m), NEW h \in Gens PROVE Single(InChannel(h, m)')
    BY <1>1, <1>2, <1>4, <2>2 DEF FlightOnce
  <2> QED
    BY <2>1, <2>2 DEF FlightStays, FlightOnce, InFlight, Single
<1>5. ASSUME new # {} /\ (old = {} => Single(new)) PROVE FlightTakes(m)
  <2>1. InFlight(m)'
    BY <1>1, <1>3, <1>5 DEF InFlight
  <2>2. ASSUME ~InFlight(m) PROVE FlightOnce(m)'
    <3>1. \A h \in Gens : InChannel(h, m) = {}
      BY <1>3, <2>2 DEF InFlight
    <3>2. Buffered(m)' \subseteq {g} /\ \A h \in Gens : Single(InChannel(h, m)')
      BY <1>1, <1>2, <1>3, <1>5, <3>1 DEF Single
    <3> QED
      BY <3>2 DEF FlightOnce, Single
  <2> QED
    BY <2>1, <2>2 DEF FlightTakes
<1>6. ASSUME old # {} /\ (Single(old) => new = {}) PROVE FlightLeaves(m)
  <2>1. InFlight(m) /\ g \in Buffered(m)
    BY <1>1, <1>3, <1>6 DEF InFlight
  <2>2. ASSUME FlightOnce(m) PROVE ~InFlight(m)'
    <3>1. \A h \in Gens \ {g} : InChannel(h, m) = {}
      BY <1>3, <2>1, <2>2 DEF FlightOnce, Single
    <3> QED
      BY <1>1, <1>2, <1>3, <1>6, <2>2, <3>1 DEF FlightOnce, InFlight
  <2> QED
    BY <2>1, <2>2 DEF FlightLeaves
<1> QED
  BY <1>4, <1>5, <1>6 DEF old, new

\* Channels whose queues do not change hold what they held.
LEMMA SameQueues ==
  ASSUME NEW m, \A h \in Gens : ch'[h].queue = ch[h].queue
  PROVE  FlightStays(m)
<1>1. \A h \in Gens : InChannel(h, m)' = InChannel(h, m)
  BY DEF InChannel, InQueue
<1>2. Buffered(m)' = Buffered(m)
  BY <1>1 DEF Buffered
<1> QED
  BY <1>1, <1>2 DEF FlightStays, FlightOnce, InFlight, Single

\* EnqueueMessage puts its own message into the channel, and no other.
LEMMA EnqueueFlight ==
  ASSUME SessionTypeOK, NEW u \in Users, NEW env \in Envelope, EnqueueMessage(u, env),
         NEW m \in Message
  PROVE  /\ env # Env(m) => FlightStays(m)
         /\ ~Enqueues(u) => FlightStays(m)
         /\ env = Env(m) /\ Enqueues(u) => FlightTakes(m)
<1>1. CASE ~Enqueues(u)
  BY <1>1, EnqueueQueues, SameQueues
<1>2. CASE Enqueues(u)
  <2> DEFINE g == users[u]
  <2>1. /\ g \in Gens
        /\ ch'[g].queue = Append(ch[g].queue, env)
        /\ \A h \in Gens \ {g} : ch'[h].queue = ch[h].queue
    BY <1>2, EnqueueQueues
  <2>2. ch[g].queue \in Seq(Envelope)
    BY <2>1 DEF SessionTypeOK, Channel
  <2> HIDE DEF g
  <2>3. CASE env # Env(m)
    <3>1. InQueue(ch'[g].queue, Env(m)) = InQueue(ch[g].queue, Env(m))
      BY <2>1, <2>2, <2>3, AppendQueue
    <3> QED
      BY <2>1, <2>3, <3>1, OneChannel
  <2>4. CASE env = Env(m)
    <3>1. /\ InQueue(ch'[g].queue, Env(m)) # {}
          /\ InQueue(ch[g].queue, Env(m)) = {} => Single(InQueue(ch'[g].queue, Env(m)))
      BY <2>1, <2>2, <2>4, AppendQueue
    <3>2. FlightTakes(m)
      BY <2>1, <3>1, OneChannel
    <3> QED
      BY <1>2, <2>4, <3>2
  <2> QED
    BY <2>3, <2>4
<1> QED
  BY <1>1, <1>2

\* A receive takes its own message out of the channel, and no other.
LEMMA ReceiveFlight ==
  ASSUME SessionTypeOK, NEW g \in Gens, ch[g].queue # <<>>, Receive(g), NEW m \in Message
  PROVE  /\ Head(ch[g].queue) # Env(m) => FlightStays(m)
         /\ Head(ch[g].queue) = Env(m) => FlightLeaves(m)
<1>1. /\ ch'[g].queue = Tail(ch[g].queue)
      /\ \A h \in Gens \ {g} : ch'[h].queue = ch[h].queue
  BY ReceiveQueues
<1>2. ch[g].queue \in Seq(Envelope)
  BY DEF SessionTypeOK, Channel
<1> DEFINE q == ch[g].queue
           old == InQueue(q, Env(m))
           new == InQueue(Tail(q), Env(m))
<1>3. q \in Seq(Envelope) /\ q # <<>>
  BY <1>2
<1> HIDE DEF q
<1>4. /\ Single(old) => Single(new)
      /\ Head(q) # Env(m) => (new = {} <=> old = {})
      /\ Head(q) = Env(m) => old # {} /\ (Single(old) => new = {})
  BY <1>3, TailQueue
<1> QED
  BY <1>1, <1>4, OneChannel DEF q

\* What becomes of a message in the hands of the handlers is told by the one
\* read loop that goes on.
LEMMA HandMove ==
  ASSUME NEW c \in Conns, NEW p, NEW u, NEW g, NEW b, NEW W, NEW x,
         Becomes(c, p, u, g, b, W, x), NEW m
  PROVE  /\ (p \in Sending /\ x = m <=> At(c, m)) => HandStays(m)
         /\ p \in Sending /\ x = m => HandTakes(m)
         /\ At(c, m) /\ ~(p \in Sending /\ x = m) => HandLeaves(m)
<1>1. /\ At(c, m)' <=> p \in Sending /\ x = m
      /\ \A d \in Conns \ {c} : At(d, m)' <=> At(d, m)
  BY DEF Becomes, At
<1> QED
  BY <1>1 DEF HandStays, HandTakes, HandLeaves, InHand, HandOnce, Single

\* PushOfflineMsg puts its own message into the offline queue, and no other.
LEMMA PushStore ==
  ASSUME TypeOK, NEW n \in Message, PushOfflineMsg(n.to, n), NEW m \in Message
  PROVE  /\ m # n => StoreStays(m)
         /\ m = n => StoreTakes(m)
<1>1. n.to \in Users /\ m.to \in Users /\ offline \in [Users -> Seq(Message)]
  BY DEF TypeOK, Message
<1>2. offline' = [offline EXCEPT ![n.to] = Append(offline[n.to], n)]
  BY DEF PushOfflineMsg
<1> DEFINE q == offline[m.to]
<1>3. q \in Seq(Message)
  BY <1>1
<1>4. m.to = n.to => offline'[m.to] = Append(q, n)
  BY <1>1, <1>2
<1>5. m.to # n.to => offline'[m.to] = q
  BY <1>1, <1>2
<1>6. InQueue(offline[m.to], m)' = InQueue(offline'[m.to], m)
  BY DEF InQueue
<1> HIDE DEF q
<1>9. /\ n # m => InQueue(Append(q, n), m) = InQueue(q, m)
      /\ n = m => /\ InQueue(Append(q, n), m) # {}
                  /\ InQueue(q, m) = {} => Single(InQueue(Append(q, n), m))
  BY <1>3, AppendQueue
<1>7. CASE m # n
  <2>1. InQueue(offline'[m.to], m) = InQueue(q, m)
    BY <1>4, <1>5, <1>7, <1>9
  <2> QED
    BY <1>6, <1>7, <2>1 DEF StoreStays, InStore, StoreOnce, q, Single
<1>8. CASE m = n
  <2>1. /\ InQueue(offline'[m.to], m) # {}
        /\ InQueue(q, m) = {} => Single(InQueue(offline'[m.to], m))
    BY <1>4, <1>8, <1>9
  <2> QED
    BY <1>6, <1>8, <2>1 DEF StoreTakes, InStore, StoreOnce, q, Single
<1> QED
  BY <1>7, <1>8

\* What a step may do to a message: nothing, a handler takes it, refuses it or
\* finds a place for it, a writer sends it, or its recipient fetches it.
Rest(m) == arrived'[m] = arrived[m] /\ (m \in lost' <=> m \in lost)
Answerless(m) == Promised(m)' <=> Promised(m)

Quiet(m) ==
  HandStays(m) /\ StoreStays(m) /\ FlightStays(m) /\ Rest(m) /\ Answerless(m)
Taken(m) ==
  /\ m.msg_id \notin replay[m.from] /\ m.msg_id \in replay'[m.from]
  /\ HandTakes(m) /\ StoreStays(m) /\ FlightStays(m) /\ Rest(m) /\ Answerless(m)
Refused(m) ==
  HandLeaves(m) /\ StoreStays(m) /\ FlightStays(m) /\ Rest(m) /\ Answerless(m)
Placed(m) ==
  /\ HandLeaves(m)
  /\ (StoreTakes(m) /\ FlightStays(m)) \/ (StoreStays(m) /\ FlightTakes(m))
  /\ Rest(m) /\ Promised(m)'
Sent(m) ==
  /\ HandStays(m) /\ StoreStays(m) /\ FlightLeaves(m) /\ Answerless(m)
  /\ \/ arrived'[m] = arrived[m] + 1 /\ (m \in lost' <=> m \in lost)
     \/ arrived'[m] = arrived[m] /\ m \in lost'
Fetched(m) ==
  /\ HandStays(m) /\ StoreLeaves(m) /\ FlightStays(m) /\ Answerless(m)
  /\ StoreOnce(m) => arrived'[m] = arrived[m] + 1
  /\ m \in lost' <=> m \in lost

Moved(m) == Taken(m) \/ Refused(m) \/ Placed(m) \/ Sent(m)

\* One message moves, or some are fetched, and the others stay.
Moves ==
  \/ \E n \in Frames : Moved(n) /\ \A m \in Frames \ {n} : Quiet(m)
  \/ \A m \in Frames : Quiet(m) \/ Fetched(m)

\* Every sender and every id fits the replay cache, so that it never has to
\* forget one.
Fits ==
  /\ IsFiniteSet(Users) /\ Cardinality(Users) < replayMax
  /\ IsFiniteSet(MsgIds) /\ Cardinality(MsgIds) < replayMaxPerUser

\* A message is in one place, and everywhere the replay cache knows it.
PlaceInv(m) ==
  /\ HandOnce(m) /\ StoreOnce(m) /\ FlightOnce(m) /\ arrived[m] <= 1
  /\ InHand(m) => ~InStore(m) /\ ~InFlight(m) /\ arrived[m] = 0 /\ m \notin lost
  /\ InStore(m) => ~InFlight(m) /\ arrived[m] = 0 /\ m \notin lost
  /\ InFlight(m) => arrived[m] = 0 /\ m \notin lost
  /\ arrived[m] > 0 => m \notin lost
  /\ InHand(m) \/ InStore(m) \/ InFlight(m) \/ arrived[m] > 0 \/ m \in lost =>
       m.msg_id \in replay[m.from]

\* The rows of a user are addressed to that user, and a channel that is not
\* made yet is empty.
RowsOwned == \A u \in Users : \A i \in DOMAIN offline[u] : offline[u][i].to = u
FreshEmpty == \A g \in Gens : g > sequence => ch[g].queue = <<>>

\* The inductive invariant about direct messages.
MailInv == Fits /\ RowsOwned /\ FreshEmpty /\ \A m \in Frames : PlaceInv(m)

\* Whatever happens to it, a message stays in one place.
LEMMA PlaceKept ==
  ASSUME NEW m \in Frames, PlaceInv(m), arrived[m] \in Nat,
         replay[m.from] \subseteq replay'[m.from],
         Quiet(m) \/ Moved(m) \/ Fetched(m)
  PROVE  PlaceInv(m)'
<1>1. /\ ~InHand(m)' => HandOnce(m)'
      /\ ~InStore(m)' => StoreOnce(m)'
      /\ ~InFlight(m)' => FlightOnce(m)'
  <2>1. (~InHand(m)' => HandOnce(m)') /\ (~InStore(m)' => StoreOnce(m)')
    BY DEF InHand, HandOnce, InStore, StoreOnce, Single
  <2>2. ASSUME ~InFlight(m)' PROVE FlightOnce(m)'
    <3>1. Buffered(m)' = {} /\ \A g \in Gens : InChannel(g, m)' = {}
      BY <2>2 DEF InFlight, Buffered
    <3> QED
      BY <3>1 DEF FlightOnce, Single
  <2> QED
    BY <2>1, <2>2
<1>2. CASE Quiet(m)
  BY <1>2 DEF PlaceInv, Quiet, HandStays, StoreStays, FlightStays, Rest
<1>3. CASE Taken(m)
  BY <1>3 DEF PlaceInv, Taken, HandTakes, StoreStays, FlightStays, Rest
<1>4. CASE Refused(m)
  BY <1>1, <1>4 DEF PlaceInv, Refused, HandLeaves, StoreStays, FlightStays, Rest
<1>5. CASE Placed(m)
  BY <1>1, <1>5 DEF PlaceInv, Placed, HandLeaves, StoreStays, StoreTakes, FlightStays,
     FlightTakes, Rest
<1>6. CASE Sent(m)
  BY <1>1, <1>6 DEF PlaceInv, Sent, HandStays, StoreStays, FlightLeaves
<1>7. CASE Fetched(m)
  BY <1>1, <1>7 DEF PlaceInv, Fetched, HandStays, StoreLeaves, FlightStays
<1> QED
  BY <1>2, <1>3, <1>4, <1>5, <1>6, <1>7 DEF Moved

\* A cache that has room forgets nothing: isReplay answers whether the id was
\* ever asked about, and remembers it.
LEMMA Unforgetful ==
  ASSUME TypeOK, Fits, NEW s \in Users, NEW id \in MsgIds, NEW dup \in BOOLEAN,
         isReplay(s, id, dup)
  PROVE  /\ dup <=> id \in replay[s]
         /\ \A w \in Users : replay[w] \subseteq replay'[w]
         /\ id \in replay'[s]
<1>1. replay \in [Users -> SUBSET MsgIds] /\ replayMax \in Nat /\ replayMaxPerUser \in Nat
  BY LimitsAssumption DEF TypeOK
<1>2. SweptCache = replay
  <2>1. {w \in Users : replay[w] # {}} \in SUBSET Users
    OBVIOUS
  <2>2. /\ Cardinality({w \in Users : replay[w] # {}}) <= Cardinality(Users)
        /\ Cardinality({w \in Users : replay[w] # {}}) \in Nat /\ Cardinality(Users) \in Nat
    BY <2>1, FS_Subset, FS_CardinalityType DEF Fits
  <2>3. ~(Cardinality({w \in Users : replay[w] # {}}) >= replayMax)
    BY <1>1, <2>2 DEF Fits
  <2> QED
    BY <2>3 DEF SweptCache
<1>3. Remembered(s) = {replay[s]}
  <2>1. replay[s] \in SUBSET MsgIds
    BY <1>1
  <2>2. /\ Cardinality(replay[s]) <= Cardinality(MsgIds)
        /\ Cardinality(replay[s]) \in Nat /\ Cardinality(MsgIds) \in Nat
    BY <2>1, FS_Subset, FS_CardinalityType DEF Fits
  <2>3. ~(Cardinality(replay[s]) >= replayMaxPerUser)
    BY <1>1, <2>2 DEF Fits
  <2> QED
    BY <1>2, <2>3 DEF Remembered
<1>4. /\ dup <=> id \in replay[s]
      /\ replay' = [replay EXCEPT ![s] = replay[s] \cup {id}]
  BY <1>2, <1>3 DEF isReplay
<1> QED
  BY <1>1, <1>4

\* A handler that answers lets go of its message.
LEMMA AnsweredMove ==
  ASSUME TypeOK, NEW c \in Conns, NEW answer, Answered(c, answer)
  PROVE  Turns(c, "read", conn[c].closing, conn[c].watchers, NoMessage)
BY LoopUpdates, FramesAssumption DEF TypeOK, Turns, Answered, LoopStates

\* What a step leaves alone.
LEMMA Untouched ==
  ASSUME NEW m
  PROVE  /\ conn' = conn => HandStays(m)
         /\ offline' = offline => StoreStays(m)
         /\ ch' = ch => FlightStays(m)
         /\ (\A g \in Gens : ch'[g].queue = ch[g].queue) => FlightStays(m)
         /\ arrived' = arrived /\ lost' = lost => Rest(m)
         /\ acks' = acks => Answerless(m)
<1>1. conn' = conn => HandStays(m)
  BY DEF HandStays, InHand, HandOnce, At
<1>2. offline' = offline => StoreStays(m)
  BY DEF StoreStays, InStore, StoreOnce, InQueue
<1>3. (\A g \in Gens : ch'[g].queue = ch[g].queue) => FlightStays(m)
  BY SameQueues
<1> QED
  BY <1>1, <1>2, <1>3 DEF Rest, Answerless, Promised

\* An answer that promises nothing changes no promise, and none but its own
\* message's.
LEMMA AckPromises ==
  ASSUME TypeOK, NEW n \in Frames, NEW answer, Ack(n, answer), NEW m \in Frames
  PROVE  /\ m # n \/ answer \notin {"delivered", "queued"} => Answerless(m)
         /\ m = n /\ answer \in {"delivered", "queued"} => Promised(m)'
<1>1. acks' = [acks EXCEPT ![n] = acks[n] \cup {answer}] /\ acks \in [Frames -> SUBSET Answers]
  BY DEF Ack, TypeOK
<1>2. m # n => acks'[m] = acks[m]
  BY <1>1
<1>3. m = n => acks'[m] = acks[m] \cup {answer}
  BY <1>1
<1>4. Promised(m)' <=> acks'[m] \cap {"delivered", "queued"} # {}
  BY DEF Promised
<1> QED
  BY <1>2, <1>3, <1>4 DEF Answerless, Promised

\* A read loop outside of handleSendMessage holds no message.
LEMMA IdleHands ==
  ASSUME NEW c \in Conns, NEW p, NEW u, NEW g, NEW b, NEW W, NEW x,
         Becomes(c, p, u, g, b, W, x), conn[c].pc \notin Sending, p \notin Sending, NEW m
  PROVE  HandStays(m)
BY HandMove DEF At

\* The steps of connections that are not about a message.
LEMMA ConnectionQuiet ==
  ASSUME TypeInv, SessionInv, MailInv, NEW c \in Conns,
         \/ \E u \in Users : handleConnect(c, u)
         \/ lookupWatchers(c) \/ cleanup(c) \/ readFails(c)
         \/ \E w \in Users : announce(c, w)
         \/ writerEnds(c) \/ socketFails(c),
         NEW m \in Frames
  PROVE  Quiet(m)
<1>1. TypeOK /\ SessionTypeOK /\ m \in Message
  BY TypeParts, FramesAssumption DEF TypeInv
<1>2. StoreStays(m) /\ Rest(m) /\ Answerless(m)
  <2>1. offline' = offline /\ arrived' = arrived /\ lost' = lost /\ acks' = acks
    BY DEF handleConnect, lookupWatchers, cleanup, readFails, announce, writerEnds,
       socketFails, clientVars
  <2> QED
    BY <2>1, Untouched
<1>3. ASSUME NEW u \in Users, handleConnect(c, u) PROVE HandStays(m) /\ FlightStays(m)
  <2>1. HandStays(m)
    <3>1. conn[c].pc = "read"
      BY <1>3 DEF handleConnect
    <3> QED
      BY <1>1, <1>3, <3>1, ConnectMove, IdleHands DEF Sending
  <2>2. /\ sequence + 1 \in Gens
        /\ ch'[sequence + 1].queue = <<>>
        /\ \A h \in Gens \ {sequence + 1} : ch'[h].queue = ch[h].queue
    BY <1>1, <1>3, OpenCloseQueues DEF handleConnect
  <2>3. ch[sequence + 1].queue = <<>>
    BY <1>1, <2>2, GenTyping DEF MailInv, FreshEmpty, SessionTypeOK
  <2> QED
    BY <2>1, <2>2, <2>3, Untouched
<1>4. ASSUME lookupWatchers(c) PROVE HandStays(m) /\ FlightStays(m)
  <2>1. conn[c].pc = "lookup" /\ ch' = ch
    BY <1>4 DEF lookupWatchers, sessionVars
  <2>2. PICK p \in LoopStates, W \in SUBSET Users : Tells(c, p, W)
    BY <1>1, <1>4, PresenceMoves
  <2> QED
    BY <2>1, <2>2, IdleHands, Untouched DEF Tells, Turns, Sending
<1>5. ASSUME NEW w \in Users, announce(c, w) PROVE HandStays(m) /\ FlightStays(m)
  <2> DEFINE env == [type |-> "presence", user_id |-> conn[c].user,
                     online |-> ~conn[c].closing]
  <2>1. conn[c].pc = "announce" /\ EnqueueMessage(w, env)
    BY <1>5 DEF announce
  <2>2. PICK p \in LoopStates, W \in SUBSET conn[c].watchers : Tells(c, p, W)
    BY <1>1, <1>5, PresenceMoves
  <2>3. HandStays(m)
    BY <2>1, <2>2, IdleHands DEF Tells, Turns, Sending
  <2>4. conn[c].user \in Users /\ conn[c].closing \in BOOLEAN
    BY <1>1, <2>1, BoundTyping DEF TypeInv, LoopInv, TypeOK, Loop
  <2>5. env \in Envelope /\ env # Env(m)
    <3>1. env.type = "presence"
      OBVIOUS
    <3> QED
      BY <2>4, <3>1, EnvTyping DEF Envelope
  <2> HIDE DEF env
  <2>6. FlightStays(m)
    BY <1>1, <2>1, <2>5, EnqueueFlight
  <2> QED
    BY <2>3, <2>6
<1>6. ASSUME readFails(c) PROVE HandStays(m) /\ FlightStays(m)
  <2>1. conn[c].pc = "read" /\ ch' = ch
    BY <1>6 DEF readFails, sessionVars
  <2>3. PICK p \in {"gone", "cleanup"} :
          \E W : Turns(c, p, conn[c].closing, W, conn[c].msg)
    BY <1>1, <1>6, EndMoves
  <2>2. PICK W : Turns(c, p, conn[c].closing, W, conn[c].msg)
    BY <2>3
  <2> QED
    BY <2>1, <2>2, IdleHands, Untouched DEF Turns, Sending
<1>7. ASSUME cleanup(c) PROVE HandStays(m) /\ FlightStays(m)
  <2>1. conn[c].pc = "cleanup" /\ SetOffline(conn[c].user, conn[c].gen)
    BY <1>7 DEF cleanup
  <2>2. conn[c].user \in Users /\ conn[c].gen \in Gens
    BY <2>1, BoundTyping DEF TypeInv, LoopInv
  <2>3. FlightStays(m)
    BY <1>1, <2>1, <2>2, OpenCloseQueues, Untouched
  <2>5. PICK p \in {"gone", "lookup"} : \E b, W : Turns(c, p, b, W, conn[c].msg)
    BY <1>1, <1>7, EndMoves
  <2>4. PICK b, W : Turns(c, p, b, W, conn[c].msg)
    BY <2>5
  <2> QED
    BY <2>1, <2>3, <2>4, IdleHands DEF Turns, Sending
<1>8. ASSUME writerEnds(c) \/ socketFails(c) PROVE HandStays(m) /\ FlightStays(m)
  BY <1>8, Untouched DEF writerEnds, socketFails, sessionVars
<1> QED
  BY <1>2, <1>3, <1>4, <1>5, <1>6, <1>7, <1>8 DEF Quiet

\* The steps of requests and of the ticker that are not about a message.
LEMMA RequestQuiet ==
  ASSUME TypeInv,
         \/ \E u, w \in Users : HandleAddContact(u, w) \/ notifyContact(u, w)
         \/ \E s \in Users, id \in MsgIds : replayAges(s, id)
         \/ Ticker
         \/ UNCHANGED vars,
         NEW m \in Frames
  PROVE  Quiet(m)
<1>1. TypeOK /\ SessionTypeOK /\ m \in Message
  BY TypeParts, FramesAssumption DEF TypeInv
<1>2. HandStays(m) /\ StoreStays(m) /\ Rest(m) /\ Answerless(m)
  <2>1. /\ conn' = conn /\ offline' = offline /\ arrived' = arrived /\ lost' = lost
        /\ acks' = acks
    BY DEF HandleAddContact, notifyContact, replayAges, Ticker, tick, pushPresenceSnapshot,
       skipPresenceSnapshot, clientVars, vars
  <2> QED
    BY <2>1, Untouched
<1>3. ASSUME ch' = ch PROVE FlightStays(m)
  BY <1>3, Untouched
<1>4. ASSUME NEW u \in Users, NEW env \in Envelope, env.type # "new_message",
             EnqueueMessage(u, env)
      PROVE  FlightStays(m)
  <2>1. env # Env(m)
    BY <1>4, EnvTyping
  <2> QED
    BY <1>1, <1>4, <2>1, EnqueueFlight
<1>5. ASSUME NEW u \in Users, NEW w \in Users, notifyContact(u, w) PROVE FlightStays(m)
  <2> DEFINE env == [type |-> "contact_notify", from |-> u]
  <2>1. env \in Envelope /\ env.type # "new_message" /\ EnqueueMessage(w, env)
    BY <1>5 DEF notifyContact, Envelope
  <2> HIDE DEF env
  <2> QED
    BY <1>4, <2>1
<1>6. ASSUME NEW u \in Users, pushPresenceSnapshot(u) PROVE FlightStays(m)
  <2>1. Snapshot(u) \in Envelope /\ Snapshot(u).type # "new_message"
    BY DEF Snapshot, Envelope, GetContacts
  <2>2. ch' = ch \/ EnqueueMessage(u, Snapshot(u))
    BY <1>6 DEF pushPresenceSnapshot, sessionVars
  <2> QED
    BY <1>3, <1>4, <2>1, <2>2
<1>7. FlightStays(m)
  BY <1>3, <1>5, <1>6 DEF HandleAddContact, replayAges, Ticker, tick, skipPresenceSnapshot,
     vars, sessionVars
<1> QED
  BY <1>2, <1>7 DEF Quiet

\* The message a handler works on.
LEMMA HeldMessage ==
  ASSUME TypeInv, NEW c \in Conns, conn[c].pc \in Sending
  PROVE  /\ conn[c].msg \in Frames /\ conn[c].msg \in Message
         /\ conn[c].msg.to \in Users /\ At(c, conn[c].msg)
         /\ conn[c].msg # NoMessage
BY FramesAssumption, NoMessageAssumption DEF TypeInv, LoopInv, Sending, At, Message

\* handleSendMessage takes a message that the replay cache does not know.
LEMMA SendStep ==
  ASSUME TypeInv, Fits, NEW c \in Conns, NEW n \in Frames, handleSendMessage(c, n)
  PROVE  /\ \A w \in Users : replay[w] \subseteq replay'[w]
         /\ Moves
<1>1. TypeOK /\ SessionTypeOK /\ n \in Message /\ n.from \in Users /\ n.msg_id \in MsgIds
  BY TypeParts, FramesAssumption DEF TypeInv, Message
<1>2. \A w \in Users : replay[w] \subseteq replay'[w]
  BY <1>1, Unforgetful DEF handleSendMessage
<1>3. ASSUME NEW m \in Frames PROVE StoreStays(m) /\ FlightStays(m) /\ Rest(m)
  BY Untouched DEF handleSendMessage, sessionVars, clientVars
<1>4. CASE Ack(n, "duplicate") /\ UNCHANGED conn
  <2>1. ASSUME NEW m \in Frames PROVE Quiet(m)
    BY <1>1, <1>3, <1>4, AckPromises, Untouched DEF Quiet
  <2> QED
    BY <1>2, <2>1 DEF Moves
<1>5. CASE /\ isReplay(n.from, n.msg_id, FALSE)
           /\ conn' = [conn EXCEPT ![c].pc = "route", ![c].msg = n]
           /\ UNCHANGED acks
  <2>1. n.msg_id \notin replay[n.from] /\ n.msg_id \in replay'[n.from]
    BY <1>1, <1>5, Unforgetful
  <2>2. Turns(c, "route", conn[c].closing, conn[c].watchers, n)
    BY <1>1, <1>5, LoopUpdates DEF TypeOK, Turns, LoopStates
  <2>3. conn[c].pc = "read"
    BY DEF handleSendMessage
  <2>4. ASSUME NEW m \in Frames \ {n} PROVE Quiet(m)
    BY <1>3, <1>5, <2>2, <2>3, HandMove, Untouched DEF Quiet, Turns, At, Sending
  <2>5. Taken(n)
    BY <1>3, <1>5, <2>1, <2>2, HandMove, Untouched DEF Taken, Turns, Sending
  <2> QED
    BY <1>2, <2>4, <2>5 DEF Moves, Moved
<1> QED
  BY <1>2, <1>4, <1>5 DEF handleSendMessage

\* A handler finds a place for its message, refuses it or keeps it.
LEMMA HandlerStep ==
  ASSUME TypeInv, NEW c \in Conns, checkOnline(c) \/ enqueue(c) \/ storeOffline(c)
  PROVE  Moves
<1>1. TypeOK /\ SessionTypeOK /\ conn[c].pc \in Sending
  BY TypeParts DEF TypeInv, checkOnline, enqueue, storeOffline, Sending
<1>0. PICK n \in Frames : n = conn[c].msg
  BY <1>1, HeldMessage
<1>2. n \in Frames /\ n \in Message /\ n.to \in Users /\ At(c, n) /\ n # NoMessage
  BY <1>0, <1>1, HeldMessage
<1>3. \A m \in Frames : m \in Message /\ m # NoMessage
  BY FramesAssumption, NoMessageAssumption
<1>4. arrived' = arrived /\ lost' = lost
  BY DEF checkOnline, enqueue, storeOffline, clientVars
<1>5. ASSUME NEW p \in Sending, NEW m \in Frames,
             Turns(c, p, conn[c].closing, conn[c].watchers, n)
      PROVE  HandStays(m)
  BY <1>0, <1>1, <1>5, HandMove DEF Turns, At
<1>6. ASSUME NEW answer, Answered(c, answer)
      PROVE  HandLeaves(n) /\ \A m \in Frames \ {n} : HandStays(m)
  <2>1. Turns(c, "read", conn[c].closing, conn[c].watchers, NoMessage)
    BY <1>1, <1>6, AnsweredMove
  <2>2. \A m \in Frames \ {n} : ~At(c, m)
    BY <1>0 DEF At
  <2>3. HandLeaves(n)
    BY <1>2, <2>1, HandMove DEF Turns
  <2>4. ASSUME NEW m \in Frames \ {n} PROVE HandStays(m)
    BY <1>3, <2>1, <2>2, HandMove DEF Turns
  <2> QED
    BY <2>3, <2>4
<1>7. ASSUME checkOnline(c) PROVE Moves
  <2>1. ASSUME NEW m \in Frames PROVE Quiet(m)
    <3>1. HandStays(m)
      BY <1>0, <1>1, <1>5, <1>7, SendMoves DEF Sending
    <3> QED
      BY <1>4, <1>7, <3>1, Untouched DEF Quiet, checkOnline, sessionVars
  <2> QED
    BY <2>1 DEF Moves
<1>8. ASSUME enqueue(c) PROVE Moves
  <2>1. EnqueueMessage(n.to, Env(n)) /\ offline' = offline
    BY <1>0, <1>8 DEF enqueue, Env
  <2>2. Env(n) \in Envelope /\ \A m \in Frames \ {n} : Env(n) # Env(m)
    BY <1>2, EnvTyping
  <2>3. CASE Enqueues(n.to)
    <3>1. Answered(c, "delivered") /\ Ack(n, "delivered")
      BY <1>0, <1>8, <2>3 DEF enqueue, Answered
    <3>2. ASSUME NEW m \in Frames \ {n} PROVE Quiet(m)
      <4>1. FlightStays(m)
        BY <1>1, <1>2, <1>3, <2>1, <2>2, EnqueueFlight
      <4>2. Answerless(m)
        BY <1>1, <1>2, <3>1, AckPromises
      <4> QED
        BY <1>4, <1>6, <2>1, <3>1, <4>1, <4>2, Untouched DEF Quiet
    <3>3. Placed(n)
      <4>1. FlightTakes(n)
        BY <1>1, <1>2, <2>1, <2>2, <2>3, EnqueueFlight
      <4>2. Promised(n)'
        BY <1>1, <1>2, <3>1, AckPromises
      <4> QED
        BY <1>4, <1>6, <2>1, <3>1, <4>1, <4>2, Untouched DEF Placed
    <3> QED
      BY <1>2, <3>2, <3>3 DEF Moves, Moved
  <2>4. CASE ~Enqueues(n.to)
    <3>1. conn' = [conn EXCEPT ![c].pc = "store"] /\ acks' = acks
      BY <1>0, <1>8, <2>4 DEF enqueue
    <3>2. Turns(c, "store", conn[c].closing, conn[c].watchers, n)
      BY <1>0, <1>1, <3>1, LoopUpdates DEF TypeOK, Turns, LoopStates
    <3>3. ASSUME NEW m \in Frames PROVE Quiet(m)
      <4>1. FlightStays(m)
        BY <1>1, <1>2, <1>3, <2>1, <2>2, <2>4, EnqueueFlight
      <4>2. HandStays(m)
        BY <1>5, <3>2 DEF Sending
      <4> QED
        BY <1>4, <2>1, <3>1, <4>1, <4>2, Untouched DEF Quiet
    <3> QED
      BY <3>3 DEF Moves
  <2> QED
    BY <2>3, <2>4
<1>9. ASSUME storeOffline(c) PROVE Moves
  <2>1. \A m \in Frames : FlightStays(m) /\ Rest(m)
    BY <1>4, <1>9, Untouched DEF storeOffline, sessionVars
  <2>2. CASE PushOfflineMsg(n.to, n) /\ Answered(c, "queued")
    <3>1. Ack(n, "queued")
      BY <1>0, <2>2 DEF Answered
    <3>2. ASSUME NEW m \in Frames \ {n} PROVE Quiet(m)
      <4>1. StoreStays(m)
        BY <1>1, <1>2, <1>3, <2>2, PushStore
      <4>2. Answerless(m)
        BY <1>1, <1>2, <3>1, AckPromises
      <4> QED
        BY <1>6, <2>1, <2>2, <4>1, <4>2 DEF Quiet
    <3>3. Placed(n)
      <4>1. StoreTakes(n)
        BY <1>1, <1>2, <2>2, PushStore
      <4>2. Promised(n)'
        BY <1>1, <1>2, <3>1, AckPromises
      <4> QED
        BY <1>2, <1>6, <2>1, <2>2, <4>1, <4>2 DEF Placed
    <3> QED
      BY <1>2, <3>2, <3>3 DEF Moves, Moved
  <2>3. ASSUME NEW answer \in {"full", "failed"}, Answered(c, answer), offline' = offline
        PROVE  Moves
    <3>1. Ack(n, answer)
      BY <1>0, <2>3 DEF Answered
    <3>2. ASSUME NEW m \in Frames PROVE Answerless(m)
      BY <1>1, <1>2, <2>3, <3>1, AckPromises
    <3>3. ASSUME NEW m \in Frames \ {n} PROVE Quiet(m)
      BY <1>6, <2>1, <2>3, <3>2, Untouched DEF Quiet
    <3>4. Refused(n)
      BY <1>2, <1>6, <2>1, <2>3, <3>2, Untouched DEF Refused
    <3> QED
      BY <1>2, <3>3, <3>4 DEF Moves, Moved
  <2> QED
    BY <1>0, <1>9, <2>2, <2>3 DEF storeOffline
<1> QED
  BY <1>7, <1>8, <1>9

\* A writer sends the first message of its channel, or something else.
LEMMA WriteStep ==
  ASSUME TypeInv, NEW c \in Conns, writeMessage(c)
  PROVE  Moves
<1>1. TypeOK /\ SessionTypeOK
  BY TypeParts DEF TypeInv
<1>2. PICK g \in Gens : g = conn[c].gen
  BY BoundTyping DEF writeMessage
<1>3. ch[g].queue # <<>> /\ Receive(g) /\ ch[g].queue \in Seq(Envelope)
  BY <1>1, <1>2 DEF writeMessage, SessionTypeOK, Channel
<1>4. PICK env \in Envelope : env = Head(ch[g].queue)
  BY <1>3
<1>5. ASSUME NEW m \in Frames PROVE HandStays(m) /\ StoreStays(m) /\ Answerless(m)
  BY Untouched DEF writeMessage
<1>6. \A m \in Frames : m \in Message
  BY FramesAssumption
<1>7. \/ clientReceives(c, env) /\ lost' = lost
      \/ /\ lost' = IF env.type = "new_message" THEN lost \cup {env.msg} ELSE lost
         /\ arrived' = arrived
  BY <1>2, <1>4 DEF writeMessage
<1>8. ASSUME NEW m \in Frames, env # Env(m) PROVE Quiet(m)
  <2>1. FlightStays(m)
    BY <1>1, <1>3, <1>4, <1>6, <1>8, ReceiveFlight
  <2>2. env.type = "new_message" => env.msg # m
    BY <1>8, EnvTyping
  <2>3. arrived'[m] = arrived[m]
    BY <1>1, <1>7, <2>2 DEF clientReceives, TypeOK
  <2>4. m \in lost' <=> m \in lost
    BY <1>7, <2>2
  <2> QED
    BY <1>5, <2>1, <2>3, <2>4 DEF Quiet, Rest
<1>9. ASSUME NEW n \in Frames, env = Env(n) PROVE Sent(n)
  <2>1. FlightLeaves(n)
    BY <1>1, <1>3, <1>4, <1>6, <1>9, ReceiveFlight
  <2>2. env.type = "new_message" /\ env.msg = n
    BY <1>9, EnvTyping
  <2>3. CASE clientReceives(c, env) /\ lost' = lost
    <3>1. arrived' = [arrived EXCEPT ![n] = arrived[n] + 1]
      BY <2>2, <2>3 DEF clientReceives
    <3>2. arrived'[n] = arrived[n] + 1
      BY <1>1, <3>1 DEF TypeOK
    <3> QED
      BY <1>5, <2>1, <2>3, <3>2 DEF Sent
  <2>4. CASE /\ lost' = IF env.type = "new_message" THEN lost \cup {env.msg} ELSE lost
             /\ arrived' = arrived
    BY <1>5, <2>1, <2>2, <2>4 DEF Sent
  <2> QED
    BY <1>7, <2>3, <2>4
<1>10. CASE \E n \in Frames : env = Env(n)
  <2>1. PICK n \in Frames : env = Env(n)
    BY <1>10
  <2>2. ASSUME NEW m \in Frames \ {n} PROVE Quiet(m)
    BY <1>8, <2>1, EnvTyping
  <2> QED
    BY <1>9, <2>1, <2>2 DEF Moves, Moved
<1>11. CASE \A n \in Frames : env # Env(n)
  BY <1>8, <1>11 DEF Moves
<1> QED
  BY <1>10, <1>11

\* A set whose elements are equal has none or one.
LEMMA SingleCardinality ==
  ASSUME NEW S, Single(S)
  PROVE  /\ S = {} => Cardinality(S) = 0
         /\ S # {} => Cardinality(S) = 1
<1>1. CASE S = {}
  BY <1>1, FS_EmptySet
<1>2. CASE S # {}
  <2>1. PICK x : S = {x}
    BY <1>2 DEF Single
  <2> QED
    BY <1>2, <2>1, FS_Singleton
<1> QED
  BY <1>1, <1>2

\* A fetch hands over what the queue held for the user, and nothing else.
LEMMA FetchStep ==
  ASSUME TypeInv, RowsOwned, NEW u \in Users, FetchAndClearOfflineMsgs(u)
  PROVE  Moves
<1>1. TypeOK /\ offline \in [Users -> Seq(Message)]
  BY DEF TypeInv, TypeOK
<1>2. offline' = [offline EXCEPT ![u] = <<>>]
  BY DEF FetchAndClearOfflineMsgs
<1>3. ASSUME NEW m \in Frames
      PROVE  HandStays(m) /\ FlightStays(m) /\ Answerless(m) /\ (m \in lost' <=> m \in lost)
  BY Untouched DEF FetchAndClearOfflineMsgs, sessionVars
<1>4. ASSUME NEW m \in Frames PROVE Quiet(m) \/ Fetched(m)
  <2> DEFINE S == InQueue(offline[u], m)
  <2>1. arrived'[m] = arrived[m] + Cardinality(S) /\ arrived[m] \in Nat
    BY <1>1 DEF FetchAndClearOfflineMsgs, InQueue, TypeOK
  <2>2. m.to \in Users
    BY FramesAssumption DEF Message
  <2>3. CASE S = {}
    <3>1. arrived'[m] = arrived[m]
      BY <2>1, <2>3, FS_EmptySet
    <3>2. StoreStays(m)
      <4>1. CASE m.to = u
        <5>1. offline'[m.to] = <<>>
          BY <1>1, <1>2, <2>2, <4>1
        <5>2. InQueue(offline[m.to], m) = {} /\ InQueue(offline[m.to], m)' = {}
          BY <2>3, <4>1, <5>1 DEF InQueue
        <5> QED
          BY <5>2 DEF StoreStays, InStore, StoreOnce, Single
      <4>2. CASE m.to # u
        <5>1. offline'[m.to] = offline[m.to]
          BY <1>1, <1>2, <2>2, <4>2
        <5>2. InQueue(offline[m.to], m)' = InQueue(offline[m.to], m)
          BY <5>1 DEF InQueue
        <5> QED
          BY <5>2 DEF StoreStays, InStore, StoreOnce, Single
      <4> QED
        BY <4>1, <4>2
    <3> QED
      BY <1>3, <3>1, <3>2 DEF Quiet, Rest
  <2>4. CASE S # {}
    <3>1. m.to = u
      BY <2>4 DEF InQueue, RowsOwned
    <3>2. offline'[m.to] = <<>>
      BY <1>1, <1>2, <2>2, <3>1
    <3>3. InQueue(offline[m.to], m) = S /\ InQueue(offline[m.to], m)' = {}
      BY <3>1, <3>2 DEF InQueue
    <3>4. StoreLeaves(m)
      BY <2>4, <3>3 DEF StoreLeaves, InStore
    <3>5. ASSUME StoreOnce(m) PROVE arrived'[m] = arrived[m] + 1
      <4>1. Single(S)
        BY <3>3, <3>5 DEF StoreOnce
      <4>2. Cardinality(S) = 1
        BY <2>4, <4>1, SingleCardinality
      <4> QED
        BY <2>1, <4>2
    <3> QED
      BY <1>3, <3>4, <3>5 DEF Fetched
  <2> QED
    BY <2>3, <2>4
<1> QED
  BY <1>4 DEF Moves

\* Every step moves one message, fetches some or is about something else, and
\* the replay cache never forgets.
LEMMA MailStep ==
  ASSUME TypeInv, SessionInv, MailInv, [Next]_vars
  PROVE  Moves /\ \A w \in Users : replay[w] \subseteq replay'[w]
<1>1. Fits /\ RowsOwned
  BY DEF MailInv
<1>2. ASSUME NEW c \in Conns,
             \/ \E u \in Users : handleConnect(c, u)
             \/ lookupWatchers(c) \/ cleanup(c) \/ readFails(c)
             \/ \E w \in Users : announce(c, w)
             \/ writerEnds(c) \/ socketFails(c)
      PROVE  Moves /\ replay' = replay
  <2>1. replay' = replay
    BY <1>2 DEF handleConnect, lookupWatchers, cleanup, readFails, announce, writerEnds,
       socketFails
  <2> QED
    BY <1>2, <2>1, ConnectionQuiet DEF Moves
<1>3. ASSUME \/ \E u, w \in Users : HandleAddContact(u, w) \/ notifyContact(u, w)
             \/ \E s \in Users, id \in MsgIds : replayAges(s, id)
             \/ Ticker
             \/ UNCHANGED vars
      PROVE  Moves /\ replay' = replay
  <2>1. replay' = replay
    BY <1>3 DEF HandleAddContact, notifyContact, replayAges, Ticker, tick,
       pushPresenceSnapshot, skipPresenceSnapshot, vars
  <2> QED
    BY <1>3, <2>1, RequestQuiet DEF Moves
<1>4. ASSUME NEW c \in Conns, checkOnline(c) \/ enqueue(c) \/ storeOffline(c)
      PROVE  Moves /\ replay' = replay
  BY <1>4, HandlerStep DEF checkOnline, enqueue, storeOffline
<1>5. ASSUME NEW c \in Conns, writeMessage(c) PROVE Moves /\ replay' = replay
  <2>1. replay' = replay
    BY <1>5 DEF writeMessage
  <2> QED
    BY <1>5, <2>1, WriteStep
<1>6. ASSUME NEW u \in Users, FetchAndClearOfflineMsgs(u) PROVE Moves /\ replay' = replay
  <2>1. replay' = replay
    BY <1>6 DEF FetchAndClearOfflineMsgs
  <2> QED
    BY <1>1, <1>6, <2>1, FetchStep
<1>7. ASSUME NEW c \in Conns, NEW n \in Frames, handleSendMessage(c, n)
      PROVE  Moves /\ \A w \in Users : replay[w] \subseteq replay'[w]
  BY <1>1, <1>7, SendStep
<1> QED
  BY <1>2, <1>3, <1>4, <1>5, <1>6, <1>7 DEF Next, Frame, Handler, Writer, Requests

\* The offline rows of a user stay addressed to the user.
LEMMA NextRowsOwned == TypeInv /\ RowsOwned /\ [Next]_vars => RowsOwned'
<1> SUFFICES ASSUME TypeInv, RowsOwned, [Next]_vars PROVE RowsOwned'
  OBVIOUS
<1>1. TypeOK /\ offline \in [Users -> Seq(Message)]
  BY DEF TypeInv, TypeOK
<1>2. CASE offline' = offline
  BY <1>2 DEF RowsOwned
<1>3. ASSUME NEW c \in Conns, storeOffline(c) PROVE RowsOwned'
  <2>1. PICK n \in Frames : n = conn[c].msg
    BY <1>3, HeldMessage DEF storeOffline, Sending
  <2>2. n \in Message /\ n.to \in Users
    BY FramesAssumption DEF Message
  <2>3. CASE offline' = [offline EXCEPT ![n.to] = Append(offline[n.to], n)]
    <3>1. ASSUME NEW u \in Users, NEW i \in DOMAIN offline'[u] PROVE offline'[u][i].to = u
      <4>1. CASE u # n.to
        BY <1>1, <2>3, <3>1, <4>1 DEF RowsOwned
      <4>2. CASE u = n.to
        <5>1. offline[u] \in Seq(Message) /\ offline'[u] = Append(offline[u], n)
          BY <1>1, <2>3, <4>2
        <5>2. offline'[u][i] = n \/ (i \in DOMAIN offline[u] /\ offline'[u][i] = offline[u][i])
          BY <2>2, <3>1, <5>1
        <5> QED
          BY <4>2, <5>2 DEF RowsOwned
      <4> QED
        BY <4>1, <4>2
    <3> QED
      BY <3>1 DEF RowsOwned
  <2> QED
    BY <1>2, <1>3, <2>1, <2>3 DEF storeOffline, PushOfflineMsg
<1>4. ASSUME NEW u \in Users, FetchAndClearOfflineMsgs(u) PROVE RowsOwned'
  <2>1. offline' = [offline EXCEPT ![u] = <<>>]
    BY <1>4 DEF FetchAndClearOfflineMsgs
  <2>2. \A w \in Users : offline'[w] = offline[w] \/ offline'[w] = <<>>
    BY <1>1, <2>1
  <2> QED
    BY <2>2 DEF RowsOwned
<1>5. ASSUME NEW c \in Conns,
             \/ Frame(c) \/ Writer(c) \/ readFails(c) \/ socketFails(c)
             \/ lookupWatchers(c) \/ cleanup(c) \/ checkOnline(c) \/ enqueue(c)
             \/ \E w \in Users : announce(c, w)
      PROVE  offline' = offline
  BY <1>5 DEF Frame, handleConnect, handleSendMessage, Writer, writeMessage, writerEnds,
     readFails, socketFails, lookupWatchers, cleanup, checkOnline, enqueue, announce
<1>6. ASSUME \/ \E u, w \in Users : HandleAddContact(u, w) \/ notifyContact(u, w)
             \/ \E s \in Users, id \in MsgIds : replayAges(s, id)
             \/ Ticker
             \/ UNCHANGED vars
      PROVE  offline' = offline
  BY <1>6 DEF HandleAddContact, notifyContact, replayAges, Ticker, tick,
     pushPresenceSnapshot, skipPresenceSnapshot, vars
<1> QED
  BY <1>2, <1>3, <1>4, <1>5, <1>6 DEF Next, Handler, Requests

\* A channel holds something only once it was made.
LEMMA NextFreshEmpty ==
  TypeInv /\ SessionInv /\ FreshEmpty /\ [Next]_vars => FreshEmpty'
<1> SUFFICES ASSUME TypeInv, SessionInv, FreshEmpty, [Next]_vars PROVE FreshEmpty'
  OBVIOUS
<1>1. TypeOK /\ SessionTypeOK /\ GenInv
  BY TypeParts DEF TypeInv, SessionInv
<1>2. ASSUME sequence' = sequence, \A g \in Gens : ch'[g].queue = ch[g].queue
      PROVE  FreshEmpty'
  BY <1>2 DEF FreshEmpty
<1>3. ASSUME sequence' = sequence, NEW h \in Gens, h <= sequence,
             \A g \in Gens \ {h} : ch'[g].queue = ch[g].queue
      PROVE  FreshEmpty'
  <2>1. ASSUME NEW g \in Gens, g > sequence PROVE g # h
    BY <1>1, <1>3, <2>1, GenTyping DEF SessionTypeOK
  <2> QED
    BY <1>3, <2>1 DEF FreshEmpty
<1>4. ASSUME NEW u \in Users, NEW env \in Envelope, EnqueueMessage(u, env) PROVE FreshEmpty'
  <2>1. users[u] <= sequence /\ sequence' = sequence
    BY <1>1, <1>4 DEF GenInv, EnqueueMessage
  <2> QED
    BY <1>1, <1>2, <1>3, <1>4, <2>1, EnqueueQueues
<1>5. ASSUME NEW c \in Conns, NEW u \in Users, handleConnect(c, u) PROVE FreshEmpty'
  <2>1. /\ sequence' = sequence + 1
        /\ \A h \in Gens \ {sequence + 1} : ch'[h].queue = ch[h].queue
    BY <1>1, <1>5, OpenCloseQueues DEF handleConnect, SetOnline
  <2>2. ASSUME NEW g \in Gens, g > sequence' PROVE g > sequence /\ g # sequence + 1
    BY <1>1, <2>1, <2>2, GenTyping DEF SessionTypeOK
  <2> QED
    BY <2>1, <2>2 DEF FreshEmpty
<1>6. ASSUME NEW c \in Conns, cleanup(c) PROVE FreshEmpty'
  <2>1. SetOffline(conn[c].user, conn[c].gen)
    BY <1>6 DEF cleanup
  <2>2. conn[c].user \in Users /\ conn[c].gen \in Gens
    BY <1>6, BoundTyping DEF TypeInv, LoopInv, cleanup
  <2> QED
    BY <1>1, <1>2, <2>1, <2>2, OpenCloseQueues DEF SetOffline
<1>7. ASSUME NEW c \in Conns, NEW w \in Users, announce(c, w) PROVE FreshEmpty'
  <2> DEFINE env == [type |-> "presence", user_id |-> conn[c].user,
                     online |-> ~conn[c].closing]
  <2>1. conn[c].user \in Users /\ conn[c].closing \in BOOLEAN
    BY <1>1, <1>7, BoundTyping DEF TypeInv, LoopInv, TypeOK, Loop, announce
  <2>2. env \in Envelope /\ EnqueueMessage(w, env)
    BY <1>7, <2>1 DEF announce, Envelope
  <2> HIDE DEF env
  <2> QED
    BY <1>4, <2>2
<1>8. ASSUME NEW c \in Conns, enqueue(c) PROVE FreshEmpty'
  <2>1. conn[c].msg \in Message /\ conn[c].msg.to \in Users
    BY <1>8, HeldMessage DEF enqueue, Sending
  <2>2. Env(conn[c].msg) \in Envelope /\ EnqueueMessage(conn[c].msg.to, Env(conn[c].msg))
    BY <1>8, <2>1, EnvTyping DEF enqueue, Env
  <2> QED
    BY <1>4, <2>1, <2>2
<1>9. ASSUME NEW c \in Conns, writeMessage(c) PROVE FreshEmpty'
  <2>1. PICK g \in Gens : g = conn[c].gen
    BY <1>9, BoundTyping DEF writeMessage
  <2>2. Receive(g) /\ g <= sequence /\ sequence' = sequence
    BY <1>1, <1>9, <2>1 DEF writeMessage, GenInv, Receive
  <2> QED
    BY <1>1, <1>3, <2>2, ReceiveQueues
<1>10. ASSUME NEW u \in Users, NEW w \in Users, notifyContact(u, w) PROVE FreshEmpty'
  <2> DEFINE env == [type |-> "contact_notify", from |-> u]
  <2>1. env \in Envelope /\ EnqueueMessage(w, env)
    BY <1>10 DEF notifyContact, Envelope
  <2> HIDE DEF env
  <2> QED
    BY <1>4, <2>1
<1>11. ASSUME NEW u \in Users, pushPresenceSnapshot(u) PROVE FreshEmpty'
  <2>1. Snapshot(u) \in Envelope
    BY DEF Snapshot, Envelope, GetContacts
  <2>2. UNCHANGED sessionVars \/ EnqueueMessage(u, Snapshot(u))
    BY <1>11 DEF pushPresenceSnapshot
  <2> QED
    BY <1>2, <1>4, <2>1, <2>2 DEF sessionVars
<1>12. ASSUME NEW c \in Conns,
              \/ \E m \in Frames : handleSendMessage(c, m)
              \/ lookupWatchers(c) \/ checkOnline(c) \/ storeOffline(c)
              \/ writerEnds(c) \/ readFails(c) \/ socketFails(c)
       PROVE  UNCHANGED sessionVars
  BY <1>12 DEF handleSendMessage, lookupWatchers, checkOnline, storeOffline, writerEnds,
     readFails, socketFails
<1>13. ASSUME \/ \E u, w \in Users : HandleAddContact(u, w)
              \/ \E u \in Users : FetchAndClearOfflineMsgs(u) \/ skipPresenceSnapshot(u)
              \/ \E s \in Users, id \in MsgIds : replayAges(s, id)
              \/ tick
              \/ UNCHANGED vars
       PROVE  UNCHANGED sessionVars
  BY <1>13 DEF HandleAddContact, FetchAndClearOfflineMsgs, skipPresenceSnapshot, replayAges,
     tick, vars
<1>14. UNCHANGED sessionVars => FreshEmpty'
  BY <1>2 DEF sessionVars
<1> QED
  BY <1>5, <1>6, <1>7, <1>8, <1>9, <1>10, <1>11, <1>12, <1>13, <1>14
     DEF Next, Frame, Handler, Writer, Requests, Ticker

\* Every step keeps the invariant about direct messages.
LEMMA NextMailInv == TypeInv /\ SessionInv /\ MailInv /\ [Next]_vars => MailInv'
<1> SUFFICES ASSUME TypeInv, SessionInv, MailInv, [Next]_vars PROVE MailInv'
  OBVIOUS
<1>1. Moves /\ \A w \in Users : replay[w] \subseteq replay'[w]
  BY MailStep
<1>2. ASSUME NEW m \in Frames PROVE PlaceInv(m)'
  <2>1. PlaceInv(m) /\ arrived[m] \in Nat /\ m.from \in Users
    BY FramesAssumption DEF MailInv, TypeInv, TypeOK, Message
  <2>2. Quiet(m) \/ Moved(m) \/ Fetched(m)
    BY <1>1 DEF Moves
  <2> QED
    BY <1>1, <2>1, <2>2, PlaceKept
<1>3. RowsOwned' /\ FreshEmpty'
  BY NextRowsOwned, NextFreshEmpty DEF MailInv
<1>4. Fits'
  BY DEF MailInv, Fits
<1> QED
  BY <1>2, <1>3, <1>4 DEF MailInv

\* At the start nothing was sent.
LEMMA InitMailInv == Init /\ Fits => MailInv
<1> SUFFICES ASSUME Init, Fits PROVE MailInv
  OBVIOUS
<1>1. ASSUME NEW m \in Frames PROVE PlaceInv(m)
  <2>1. ~InHand(m)
    BY DEF Init, InHand, At, Sending
  <2>2. InQueue(offline[m.to], m) = {}
    BY FramesAssumption DEF Init, InQueue, Message
  <2>3. \A g \in Gens : InChannel(g, m) = {}
    BY DEF Init, SessionInit, InChannel, InQueue
  <2>4. arrived[m] = 0 /\ m \notin lost
    BY DEF Init
  <2>5. HandOnce(m) /\ StoreOnce(m) /\ FlightOnce(m) /\ ~InStore(m) /\ ~InFlight(m)
    BY <2>1, <2>2, <2>3 DEF InHand, HandOnce, StoreOnce, FlightOnce, InStore, InFlight,
       Buffered, Single
  <2> QED
    BY <2>1, <2>4, <2>5 DEF PlaceInv
<1>2. RowsOwned /\ FreshEmpty
  BY DEF Init, SessionInit, RowsOwned, FreshEmpty
<1> QED
  BY <1>1, <1>2 DEF MailInv

\* As long as the replay cache has room for every sender and every id, a
\* message is never in two places and never twice in one, whatever retries,
\* reconnects and full channels happen.
THEOREM MessagesOnce == Spec /\ Fits => []AtMostOnce
<1>1. TypeInv /\ MailInv => AtMostOnce
  <2> SUFFICES ASSUME TypeInv, MailInv, NEW m \in Frames
               PROVE  /\ Cardinality(InQueue(offline[m.to], m)) + Cardinality(Buffered(m))
                           + arrived[m] <= 1
                      /\ \A g \in Buffered(m) : Cardinality(InChannel(g, m)) = 1
    BY DEF AtMostOnce, Handed
  <2>1. PlaceInv(m) /\ arrived[m] \in Nat
    BY DEF MailInv, TypeInv, TypeOK
  <2>2. /\ InStore(m) => Cardinality(InQueue(offline[m.to], m)) = 1
        /\ ~InStore(m) => Cardinality(InQueue(offline[m.to], m)) = 0
    BY <2>1, SingleCardinality DEF PlaceInv, StoreOnce, InStore
  <2>3. /\ InFlight(m) => Cardinality(Buffered(m)) = 1
        /\ ~InFlight(m) => Cardinality(Buffered(m)) = 0
    BY <2>1, SingleCardinality DEF PlaceInv, FlightOnce, InFlight
  <2>4. ASSUME NEW g \in Buffered(m) PROVE Cardinality(InChannel(g, m)) = 1
    BY <2>1, <2>4, SingleCardinality DEF PlaceInv, FlightOnce, Buffered
  <2>5. Cardinality(InQueue(offline[m.to], m)) + Cardinality(Buffered(m)) + arrived[m] <= 1
    BY <2>1, <2>2, <2>3 DEF PlaceInv
  <2> QED
    BY <2>4, <2>5
<1> QED
  BY InitTypeInv, NextTypeInv, InitSessionInv, NextSessionInv, InitMailInv, NextMailInv,
     <1>1, PTL DEF Spec

-----------------------------------------------------------------------------
(* The mailbox *)

\* How the stage of a message follows from where it is.
StageIs(m, s) ==
  \/ arrived[m] > 0 /\ s = "handed"
  \/ arrived[m] = 0 /\ m \in lost /\ s = "lost"
  \/ arrived[m] = 0 /\ m \notin lost /\ (InFlight(m) \/ InStore(m)) /\ s = "held"
  \/ arrived[m] = 0 /\ m \notin lost /\ ~InFlight(m) /\ ~InStore(m) /\ s = "new"

\* It is that in every state, and after every step.
LEMMA Stages ==
  ASSUME NEW m \in Frames
  PROVE  /\ arrived[m] \in Nat => StageIs(m, Stage(m))
         /\ arrived'[m] \in Nat => \E s : s = Stage(m)' /\ StageIs(m, s)'
<1>1. arrived[m] \in Nat => StageIs(m, Stage(m))
  BY DEF StageIs, Stage, Handed, InFlight, InStore
<1>2. arrived'[m] \in Nat => \E s : s = Stage(m)' /\ StageIs(m, s)'
  BY DEF StageIs, Stage, Handed, InFlight, InStore
<1> QED
  BY <1>1, <1>2

\* What the mailbox sees of a message that does not move, and of one that does.
LEMMA StageMoves ==
  ASSUME NEW m \in Frames, PlaceInv(m), arrived[m] \in Nat, arrived'[m] \in Nat
  PROVE  /\ Quiet(m) \/ Taken(m) \/ Refused(m) => Stage(m)' = Stage(m) /\ Answerless(m)
         /\ Placed(m) => Stage(m) = "new" /\ Stage(m)' = "held" /\ Promised(m)'
         /\ Sent(m) => /\ Stage(m) = "held" /\ Stage(m)' \in {"handed", "lost"}
                       /\ Answerless(m)
         /\ Fetched(m) => /\ Stage(m) = "held" /\ Stage(m)' = "handed"
                          /\ Answerless(m)
<1>1. StageIs(m, Stage(m))
  BY Stages
<1>2. PICK s : s = Stage(m)' /\ StageIs(m, s)'
  BY Stages
<1>3. PICK r : r = Stage(m) /\ StageIs(m, r)
  BY <1>1
<1>4. ASSUME Quiet(m) PROVE s = r /\ Answerless(m)
  BY <1>2, <1>3, <1>4 DEF StageIs, Quiet, StoreStays, FlightStays, Rest
<1>5. ASSUME Taken(m) PROVE s = r /\ Answerless(m)
  BY <1>2, <1>3, <1>5 DEF StageIs, Taken, StoreStays, FlightStays, Rest
<1>6. ASSUME Refused(m) PROVE s = r /\ Answerless(m)
  BY <1>2, <1>3, <1>6 DEF StageIs, Refused, StoreStays, FlightStays, Rest
<1>7. ASSUME Placed(m) PROVE r = "new" /\ s = "held" /\ Promised(m)'
  BY <1>2, <1>3, <1>7 DEF StageIs, PlaceInv, Placed, HandLeaves, StoreTakes, FlightTakes, Rest
<1>8. ASSUME Sent(m) PROVE r = "held" /\ s \in {"handed", "lost"} /\ Answerless(m)
  BY <1>2, <1>3, <1>8 DEF StageIs, PlaceInv, Sent, FlightLeaves
<1>9. ASSUME Fetched(m) PROVE r = "held" /\ s = "handed" /\ Answerless(m)
  BY <1>2, <1>3, <1>9 DEF StageIs, PlaceInv, Fetched, StoreLeaves
<1> QED
  BY <1>2, <1>3, <1>4, <1>5, <1>6, <1>7, <1>8, <1>9

\* As long as the replay cache has room, the server implements the mailbox:
\* every message is accepted once, with its answer, is held until it is handed
\* over once or lost to a failing write, and never comes back.
THEOREM MailboxRefinement == Spec /\ Fits => ImplementsMailbox
<1>1. Init => Box!Init
  <2> SUFFICES ASSUME Init PROVE Box!Init
    OBVIOUS
  <2>1. ASSUME NEW m \in Frames PROVE Stage(m) = "new" /\ ~Promised(m)
    <3>1. InQueue(offline[m.to], m) = {}
      BY FramesAssumption DEF Init, InQueue, Message
    <3>2. \A g \in Gens : InChannel(g, m) = {}
      BY DEF Init, SessionInit, InChannel, InQueue
    <3>3. arrived[m] = 0 /\ m \notin lost /\ acks[m] = {}
      BY DEF Init
    <3>4. StageIs(m, Stage(m)) /\ ~InFlight(m) /\ ~InStore(m)
      BY <3>1, <3>2, <3>3, Stages DEF InFlight, InStore, Buffered
    <3> QED
      BY <3>3, <3>4 DEF StageIs, Promised
  <2> QED
    BY <2>1 DEF Box!Init, Promised
<1>2. TypeInv /\ TypeInv' /\ SessionInv /\ MailInv /\ [Next]_vars => [Box!Next]_(Box!boxVars)
  <2> SUFFICES ASSUME TypeInv, TypeInv', SessionInv, MailInv, [Next]_vars
               PROVE  [Box!Next]_(Box!boxVars)
    OBVIOUS
  <2> DEFINE stg == [m \in Frames |-> Stage(m)]
             prm == {m \in Frames : Promised(m)}
  <2>1. ASSUME NEW m \in Frames
        PROVE  PlaceInv(m) /\ arrived[m] \in Nat /\ arrived'[m] \in Nat
    BY DEF MailInv, TypeInv, TypeOK
  <2>2. Moves
    BY MailStep
  <2>3. /\ Box!Next <=> \/ \E m \in Frames :
                             \/ /\ stg[m] = "new"
                                /\ stg' = [stg EXCEPT ![m] = "held"]
                                /\ prm' = prm \cup {m}
                             \/ /\ stg[m] = "held"
                                /\ stg' = [stg EXCEPT ![m] = "lost"]
                                /\ prm' = prm
                        \/ \E batch \in SUBSET Frames :
                             /\ batch # {}
                             /\ \A m \in batch : stg[m] = "held"
                             /\ stg' = [m \in Frames |-> IF m \in batch THEN "handed"
                                                         ELSE stg[m]]
                             /\ prm' = prm
        /\ UNCHANGED Box!boxVars <=> stg' = stg /\ prm' = prm
    BY DEF Box!Next, Box!Accept, Box!Lose, Box!Hand, Box!boxVars, Promised
  <2>4. /\ stg' = [m \in Frames |-> Stage(m)'] /\ \A m \in Frames : stg[m] = Stage(m)
        /\ \A m \in Frames : m \in prm' <=> Promised(m)'
        /\ \A m \in Frames : m \in prm <=> Promised(m)
        /\ prm \subseteq Frames /\ prm' \subseteq Frames
        /\ stg = [m \in Frames |-> stg[m]]
    OBVIOUS
  <2> HIDE DEF stg, prm
  <2>5. ASSUME NEW n \in Frames, Moved(n), \A m \in Frames \ {n} : Quiet(m)
        PROVE  [Box!Next]_(Box!boxVars)
    <3>1. ASSUME NEW m \in Frames \ {n} PROVE Stage(m)' = Stage(m) /\ Answerless(m)
      BY <2>1, <2>5, StageMoves
    <3>2. CASE Taken(n) \/ Refused(n)
      <4>1. Stage(n)' = Stage(n) /\ Answerless(n)
        BY <2>1, <3>2, StageMoves
      <4>2. stg' = stg
        BY <2>4, <3>1, <4>1
      <4>3. prm' = prm
        BY <2>4, <3>1, <4>1 DEF Answerless
      <4> QED
        BY <2>3, <4>2, <4>3
    <3>3. CASE Placed(n)
      <4>1. Stage(n) = "new" /\ Stage(n)' = "held" /\ Promised(n)'
        BY <2>1, <3>3, StageMoves
      <4>2. stg' = [stg EXCEPT ![n] = "held"] /\ stg[n] = "new"
        BY <2>4, <3>1, <4>1
      <4>3. prm' = prm \cup {n}
        BY <2>4, <3>1, <4>1 DEF Answerless
      <4> QED
        BY <2>3, <4>2, <4>3
    <3>4. CASE Sent(n)
      <4>1. Stage(n) = "held" /\ Stage(n)' \in {"handed", "lost"} /\ Answerless(n)
        BY <2>1, <3>4, StageMoves
      <4>2. prm' = prm
        BY <2>4, <3>1, <4>1 DEF Answerless
      <4>3. CASE Stage(n)' = "lost"
        <5>1. stg' = [stg EXCEPT ![n] = "lost"] /\ stg[n] = "held"
          BY <2>4, <3>1, <4>1, <4>3
        <5> QED
          BY <2>3, <4>2, <5>1
      <4>4. CASE Stage(n)' = "handed"
        <5>1. /\ stg' = [m \in Frames |-> IF m \in {n} THEN "handed" ELSE stg[m]]
              /\ \A m \in {n} : stg[m] = "held"
          BY <2>4, <3>1, <4>1, <4>4
        <5>2. {n} \in SUBSET Frames /\ {n} # {}
          OBVIOUS
        <5> QED
          BY <2>3, <4>2, <5>1, <5>2
      <4> QED
        BY <4>1, <4>3, <4>4
    <3> QED
      BY <2>5, <3>2, <3>3, <3>4 DEF Moved
  <2>6. ASSUME \A m \in Frames : Quiet(m) \/ Fetched(m)
        PROVE  [Box!Next]_(Box!boxVars)
    <3> DEFINE batch == {m \in Frames : Fetched(m)}
    <3>1. ASSUME NEW m \in Frames
          PROVE  /\ m \in batch => Stage(m) = "held" /\ Stage(m)' = "handed"
                 /\ m \notin batch => Stage(m)' = Stage(m)
                 /\ Answerless(m)
      BY <2>1, <2>6, StageMoves
    <3>2. batch \in SUBSET Frames
      OBVIOUS
    <3> HIDE DEF batch
    <3>3. prm' = prm
      BY <2>4, <3>1 DEF Answerless
    <3>4. CASE batch = {}
      <4>1. stg' = stg
        BY <2>4, <3>1, <3>4
      <4> QED
        BY <2>3, <3>3, <4>1
    <3>5. CASE batch # {}
      <4>1. /\ stg' = [m \in Frames |-> IF m \in batch THEN "handed" ELSE stg[m]]
            /\ \A m \in batch : stg[m] = "held"
        BY <2>4, <3>1, <3>2
      <4> QED
        BY <2>3, <3>2, <3>3, <3>5, <4>1
    <3> QED
      BY <3>4, <3>5
  <2> QED
    BY <2>2, <2>5, <2>6 DEF Moves
<1> QED
  BY InitTypeInv, NextTypeInv, InitSessionInv, NextSessionInv, InitMailInv, NextMailInv,
     <1>1, <1>2, PTL DEF Spec, ImplementsMailbox, Box!Spec
=============================================================================

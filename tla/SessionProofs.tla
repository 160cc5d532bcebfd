---------------------------- MODULE SessionProofs -----------------------------
(***************************************************************************)
(* Proofs about WSHandler, for any users, connections, frames and limits:  *)
(* types, sessions and generations, and who learns about whom.             *)
(***************************************************************************)
EXTENDS WSHandler, FiniteSetTheorems, TLAPS

-----------------------------------------------------------------------------
(* Types *)

\* A read loop is bound as soon as it has a generation, and only then has a
\* writer; inside a handler it has what the handler works on.
LoopInv ==
  \A c \in Conns :
    /\ conn[c].user = NoUser <=> conn[c].gen = NoGen
    /\ conn[c].user = NoUser => conn[c].pc \in {"read", "gone"} /\ writer[c] = "none"
    /\ conn[c].closing => conn[c].pc \in {"lookup", "announce", "gone"}
    /\ conn[c].pc \in {"route", "enqueue", "store"} => conn[c].msg \in Frames

\* The generations are numbers, and none of them is NoGen.
LEMMA GenTyping ==
  /\ MaxGen \in Nat
  /\ \A g \in Gens : g \in Nat /\ g # NoGen
  /\ \A n \in 0..MaxGen : n < MaxGen => n + 1 \in Gens
BY MaxGenAssumption DEF Gens, NoGen

\* Channels stay channels.
LEMMA ChannelTyping ==
  ASSUME NEW k \in Channel
  PROVE  /\ [k EXCEPT !.open = FALSE] \in Channel
         /\ \A env \in Envelope : [k EXCEPT !.queue = Append(k.queue, env)] \in Channel
         /\ k.queue # <<>> => /\ [k EXCEPT !.queue = Tail(k.queue)] \in Channel
                              /\ Head(k.queue) \in Envelope
<1>1. k.queue \in Seq(Envelope) /\ k.open \in BOOLEAN
  BY DEF Channel
<1>2. \A env \in Envelope : Append(k.queue, env) \in Seq(Envelope)
  BY <1>1
<1>3. k.queue # <<>> => Tail(k.queue) \in Seq(Envelope) /\ Head(k.queue) \in Envelope
  BY <1>1
<1>4. \A q \in Seq(Envelope) : [k EXCEPT !.queue = q] \in Channel
  BY DEF Channel
<1>5. [k EXCEPT !.open = FALSE] \in Channel
  BY DEF Channel
<1> QED
  BY <1>2, <1>3, <1>4, <1>5

\* A reconnect keeps the session manager well typed.
LEMMA SetOnlineTyping ==
  ASSUME SessionTypeOK, NEW u \in Users, SetOnline(u)
  PROVE  SessionTypeOK'
<1>1. sequence + 1 \in Gens /\ sequence + 1 \in 0..MaxGen
  BY GenTyping DEF SessionTypeOK, SetOnline
<1>2. [open |-> TRUE, queue |-> <<>>] \in Channel
  BY DEF Channel
<1>3. ch' \in [Gens -> Channel]
  <2>1. \A g \in Gens : ch[g] \in Channel /\ [ch[g] EXCEPT !.open = FALSE] \in Channel
    BY ChannelTyping DEF SessionTypeOK
  <2> QED
    BY <1>2, <2>1 DEF SetOnline
<1> QED
  BY <1>1, <1>3 DEF SetOnline, SessionTypeOK

\* So does the end of a session.
LEMMA SetOfflineTyping ==
  ASSUME SessionTypeOK, NEW u \in Users, NEW g \in Gens \cup {NoGen}, SetOffline(u, g)
  PROVE  SessionTypeOK'
<1>1. CASE Holds(u, g)
  <2>1. users[u] \in Gens
    BY <1>1 DEF Holds, IsOnline, SessionTypeOK
  <2>2. ch' = [ch EXCEPT ![users[u]] = [ch[users[u]] EXCEPT !.open = FALSE]]
    BY <1>1 DEF SetOffline
  <2>3. ch' \in [Gens -> Channel]
    BY <2>1, <2>2, ChannelTyping DEF SessionTypeOK
  <2> QED
    BY <1>1, <2>3 DEF SetOffline, SessionTypeOK
<1>2. CASE ~Holds(u, g)
  BY <1>2 DEF SetOffline, SessionTypeOK
<1> QED
  BY <1>1, <1>2

\* So does an envelope that is queued or dropped.
LEMMA EnqueueTyping ==
  ASSUME SessionTypeOK, NEW u \in Users, NEW env \in Envelope, EnqueueMessage(u, env)
  PROVE  SessionTypeOK'
<1>1. CASE Enqueues(u)
  <2>1. users[u] \in Gens
    BY <1>1 DEF Enqueues, IsOnline, SessionTypeOK
  <2>2. ch' = [ch EXCEPT ![users[u]] =
                 [ch[users[u]] EXCEPT !.queue = Append(ch[users[u]].queue, env)]]
    BY <1>1 DEF EnqueueMessage
  <2>3. ch' \in [Gens -> Channel]
    BY <2>1, <2>2, ChannelTyping DEF SessionTypeOK
  <2> QED
    BY <2>3 DEF EnqueueMessage, SessionTypeOK
<1>2. CASE ~Enqueues(u)
  BY <1>2 DEF EnqueueMessage, SessionTypeOK
<1> QED
  BY <1>1, <1>2

\* So does a receive, and what is received is an envelope.
LEMMA ReceiveTyping ==
  ASSUME SessionTypeOK, NEW g \in Gens, ch[g].queue # <<>>, Receive(g)
  PROVE  SessionTypeOK' /\ Head(ch[g].queue) \in Envelope
<1>1. ch' = [ch EXCEPT ![g] = [ch[g] EXCEPT !.queue = Tail(ch[g].queue)]]
  BY DEF Receive
<1>2. ch[g] \in Channel
  BY DEF SessionTypeOK
<1> QED
  BY <1>1, <1>2, ChannelTyping DEF Receive, SessionTypeOK

LoopStates == {"read", "lookup", "announce", "route", "enqueue", "store", "cleanup", "gone"}

\* Connection c becomes the read loop with these fields, and the others stay
\* as they are.
Becomes(c, p, u, g, b, W, m) ==
  /\ conn' \in [Conns -> Loop]
  /\ \A d \in Conns \ {c} : conn'[d] = conn[d]
  /\ conn'[c].pc = p /\ conn'[c].user = u /\ conn'[c].gen = g
  /\ conn'[c].closing = b /\ conn'[c].watchers = W /\ conn'[c].msg = m

\* The read loops after an assignment to some of the fields of one.
LEMMA LoopUpdates ==
  ASSUME conn \in [Conns -> Loop], NEW c \in Conns
  PROVE  LET l == conn[c]
         IN  /\ \A p \in LoopStates, u \in Users, g \in Gens :
                  conn' = [conn EXCEPT ![c].user = u, ![c].gen = g, ![c].pc = p] =>
                    Becomes(c, p, u, g, l.closing, l.watchers, l.msg)
             /\ \A p \in LoopStates, W \in SUBSET Users :
                  conn' = [conn EXCEPT ![c].pc = p, ![c].watchers = W] =>
                    Becomes(c, p, l.user, l.gen, l.closing, W, l.msg)
             /\ \A W \in SUBSET Users :
                  conn' = [conn EXCEPT ![c].watchers = W] =>
                    Becomes(c, l.pc, l.user, l.gen, l.closing, W, l.msg)
             /\ \A p \in LoopStates :
                  conn' = [conn EXCEPT ![c].pc = p] =>
                    Becomes(c, p, l.user, l.gen, l.closing, l.watchers, l.msg)
             /\ \A p \in LoopStates, b \in BOOLEAN :
                  conn' = [conn EXCEPT ![c].pc = p, ![c].closing = b] =>
                    Becomes(c, p, l.user, l.gen, b, l.watchers, l.msg)
             /\ \A p \in LoopStates, m \in Message \cup {NoMessage} :
                  conn' = [conn EXCEPT ![c].pc = p, ![c].msg = m] =>
                    Becomes(c, p, l.user, l.gen, l.closing, l.watchers, m)
<1> DEFINE l == conn[c]
<1>1. l \in Loop
  OBVIOUS
<1>2. ASSUME NEW p \in LoopStates, NEW u \in Users, NEW g \in Gens,
             conn' = [conn EXCEPT ![c].user = u, ![c].gen = g, ![c].pc = p]
      PROVE  Becomes(c, p, u, g, l.closing, l.watchers, l.msg)
  <2> DEFINE x == [l EXCEPT !.user = u, !.gen = g, !.pc = p]
  <2>1. x \in Loop
    BY <1>1 DEF Loop, LoopStates
  <2>2. conn' = [conn EXCEPT ![c] = x]
    BY <1>2
  <2>3. /\ conn' \in [Conns -> Loop]
        /\ \A d \in Conns \ {c} : conn'[d] = conn[d]
        /\ conn'[c] = x
    BY <2>1, <2>2
  <2> QED
    BY <1>1, <2>3 DEF Becomes, Loop
<1>3. ASSUME NEW p \in LoopStates, NEW W \in SUBSET Users,
             conn' = [conn EXCEPT ![c].pc = p, ![c].watchers = W]
      PROVE  Becomes(c, p, l.user, l.gen, l.closing, W, l.msg)
  <2> DEFINE x == [l EXCEPT !.pc = p, !.watchers = W]
  <2>1. x \in Loop
    BY <1>1 DEF Loop, LoopStates
  <2>2. conn' = [conn EXCEPT ![c] = x]
    BY <1>3
  <2>3. /\ conn' \in [Conns -> Loop]
        /\ \A d \in Conns \ {c} : conn'[d] = conn[d]
        /\ conn'[c] = x
    BY <2>1, <2>2
  <2> QED
    BY <1>1, <2>3 DEF Becomes, Loop
<1>4. ASSUME NEW W \in SUBSET Users,
             conn' = [conn EXCEPT ![c].watchers = W]
      PROVE  Becomes(c, l.pc, l.user, l.gen, l.closing, W, l.msg)
  <2> DEFINE x == [l EXCEPT !.watchers = W]
  <2>1. x \in Loop
    BY <1>1 DEF Loop, LoopStates
  <2>2. conn' = [conn EXCEPT ![c] = x]
    BY <1>4
  <2>3. /\ conn' \in [Conns -> Loop]
        /\ \A d \in Conns \ {c} : conn'[d] = conn[d]
        /\ conn'[c] = x
    BY <2>1, <2>2
  <2> QED
    BY <1>1, <2>3 DEF Becomes, Loop
<1>5. ASSUME NEW p \in LoopStates,
             conn' = [conn EXCEPT ![c].pc = p]
      PROVE  Becomes(c, p, l.user, l.gen, l.closing, l.watchers, l.msg)
  <2> DEFINE x == [l EXCEPT !.pc = p]
  <2>1. x \in Loop
    BY <1>1 DEF Loop, LoopStates
  <2>2. conn' = [conn EXCEPT ![c] = x]
    BY <1>5
  <2>3. /\ conn' \in [Conns -> Loop]
        /\ \A d \in Conns \ {c} : conn'[d] = conn[d]
        /\ conn'[c] = x
    BY <2>1, <2>2
  <2> QED
    BY <1>1, <2>3 DEF Becomes, Loop
<1>6. ASSUME NEW p \in LoopStates, NEW b \in BOOLEAN,
             conn' = [conn EXCEPT ![c].pc = p, ![c].closing = b]
      PROVE  Becomes(c, p, l.user, l.gen, b, l.watchers, l.msg)
  <2> DEFINE x == [l EXCEPT !.pc = p, !.closing = b]
  <2>1. x \in Loop
    BY <1>1 DEF Loop, LoopStates
  <2>2. conn' = [conn EXCEPT ![c] = x]
    BY <1>6
  <2>3. /\ conn' \in [Conns -> Loop]
        /\ \A d \in Conns \ {c} : conn'[d] = conn[d]
        /\ conn'[c] = x
    BY <2>1, <2>2
  <2> QED
    BY <1>1, <2>3 DEF Becomes, Loop
<1>7. ASSUME NEW p \in LoopStates, NEW m \in Message \cup {NoMessage},
             conn' = [conn EXCEPT ![c].pc = p, ![c].msg = m]
      PROVE  Becomes(c, p, l.user, l.gen, l.closing, l.watchers, m)
  <2> DEFINE x == [l EXCEPT !.pc = p, !.msg = m]
  <2>1. x \in Loop
    BY <1>1 DEF Loop, LoopStates
  <2>2. conn' = [conn EXCEPT ![c] = x]
    BY <1>7
  <2>3. /\ conn' \in [Conns -> Loop]
        /\ \A d \in Conns \ {c} : conn'[d] = conn[d]
        /\ conn'[c] = x
    BY <2>1, <2>2
  <2> QED
    BY <1>1, <2>3 DEF Becomes, Loop
<1> QED
  BY <1>2, <1>3, <1>4, <1>5, <1>6, <1>7

\* Connection c, bound as before or not, goes on as this.
Turns(c, p, b, W, m) == Becomes(c, p, conn[c].user, conn[c].gen, b, W, m)

\* The read loop is inside broadcastPresence, with watchers W to tell, or it
\* returned to connect or to the cleanup.
Tells(c, p, W) ==
  /\ Turns(c, p, conn[c].closing, W, conn[c].msg)
  /\ p \in {"read", "gone", "announce"}
  /\ p = "read" => ~conn[c].closing
  /\ p = "gone" => conn[c].closing

\* What connect does to its read loop.
LEMMA ConnectMove ==
  ASSUME TypeOK, NEW c \in Conns, NEW u \in Users, handleConnect(c, u)
  PROVE  /\ sequence + 1 \in Gens
         /\ Becomes(c, "lookup", u, sequence + 1, conn[c].closing, conn[c].watchers, conn[c].msg)
<1>1. sequence + 1 \in Gens
  BY GenTyping DEF handleConnect, SetOnline, TypeOK, SessionTypeOK
<1>2. conn' = [conn EXCEPT ![c].user = u, ![c].gen = sequence + 1, ![c].pc = "lookup"]
  BY DEF handleConnect
<1> QED
  BY <1>1, <1>2, LoopUpdates DEF TypeOK, LoopStates

\* The end of a read loop, and the return from broadcastPresence.
LEMMA AnnouncedMove ==
  ASSUME TypeOK, NEW c \in Conns
  PROVE  /\ Gone(c) => Turns(c, "gone", conn[c].closing, {}, conn[c].msg)
         /\ Announced(c) => \E p \in LoopStates : Tells(c, p, {})
<1>1. ASSUME NEW p \in LoopStates, conn' = [conn EXCEPT ![c].pc = p, ![c].watchers = {}]
      PROVE  Turns(c, p, conn[c].closing, {}, conn[c].msg)
  BY <1>1, LoopUpdates DEF TypeOK, Turns
<1>2. Gone(c) => Turns(c, "gone", conn[c].closing, {}, conn[c].msg)
  BY <1>1 DEF Gone, LoopStates
<1>3. ASSUME Announced(c) PROVE \E p \in LoopStates : Tells(c, p, {})
  <2>1. CASE conn[c].closing
    BY <1>2, <1>3, <2>1 DEF Announced, Tells, LoopStates
  <2>2. CASE ~conn[c].closing
    BY <1>1, <1>3, <2>2 DEF Announced, Tells, LoopStates
  <2> QED
    BY <2>1, <2>2
<1> QED
  BY <1>2, <1>3

\* What broadcastPresence does to its read loop: whom it has yet to tell are
\* mutual contacts, found when it looked, and only become fewer after that.
LEMMA PresenceMoves ==
  ASSUME TypeOK, NEW c \in Conns
  PROVE  /\ lookupWatchers(c) =>
              \E p \in LoopStates, W \in SUBSET Users :
                Tells(c, p, W) /\ W \subseteq MutualContactIDs(conn[c].user)
         /\ \A w \in Users : announce(c, w) =>
              \E p \in LoopStates, W \in SUBSET conn[c].watchers : Tells(c, p, W)
<1>1. ASSUME lookupWatchers(c)
      PROVE  \E p \in LoopStates, W \in SUBSET Users :
               Tells(c, p, W) /\ W \subseteq MutualContactIDs(conn[c].user)
  <2> DEFINE W == filterMutualContacts(conn[c].user, ContactsOf(conn[c].user))
  <2>1. W \in SUBSET Users /\ W \subseteq MutualContactIDs(conn[c].user)
    BY DEF filterMutualContacts, MutualContactIDs
  <2>2. CASE Announced(c)
    BY <2>2, AnnouncedMove
  <2>3. CASE conn' = [conn EXCEPT ![c].pc = "announce", ![c].watchers = W]
    <3> HIDE DEF W
    <3>1. Turns(c, "announce", conn[c].closing, W, conn[c].msg)
      BY <2>1, <2>3, LoopUpdates DEF TypeOK, Turns, LoopStates
    <3>2. Tells(c, "announce", W)
      BY <3>1 DEF Tells
    <3> QED
      BY <2>1, <3>2 DEF LoopStates
  <2> QED
    BY <1>1, <2>2, <2>3 DEF lookupWatchers
<1>2. ASSUME NEW w \in Users, announce(c, w)
      PROVE  \E p \in LoopStates, W \in SUBSET conn[c].watchers : Tells(c, p, W)
  <2>1. CASE Announced(c)
    BY <2>1, AnnouncedMove
  <2>2. CASE conn' = [conn EXCEPT ![c].watchers = @ \ {w}]
    <3> DEFINE W == conn[c].watchers \ {w}
    <3>1. W \in SUBSET Users /\ W \in SUBSET conn[c].watchers
      BY DEF TypeOK, Loop
    <3>2. conn' = [conn EXCEPT ![c].watchers = W]
      BY <2>2
    <3> HIDE DEF W
    <3>3. Turns(c, conn[c].pc, conn[c].closing, W, conn[c].msg)
      BY <3>1, <3>2, LoopUpdates DEF TypeOK, Turns
    <3>4. Tells(c, "announce", W)
      BY <1>2, <3>3 DEF Tells, announce
    <3> QED
      BY <3>1, <3>4 DEF LoopStates
  <2> QED
    BY <1>2, <2>1, <2>2 DEF announce
<1> QED
  BY <1>1, <1>2

\* What the end of the connection does to its read loop.
LEMMA EndMoves ==
  ASSUME TypeOK, NEW c \in Conns
  PROVE  /\ readFails(c) =>
              IF conn[c].user = NoUser
              THEN Turns(c, "gone", conn[c].closing, {}, conn[c].msg)
              ELSE Turns(c, "cleanup", conn[c].closing, conn[c].watchers, conn[c].msg)
         /\ cleanup(c) =>
              IF Holds(conn[c].user, conn[c].gen)
              THEN Turns(c, "lookup", TRUE, conn[c].watchers, conn[c].msg)
              ELSE Turns(c, "gone", conn[c].closing, {}, conn[c].msg)
<1>1. conn' = [conn EXCEPT ![c].pc = "cleanup"] =>
        Turns(c, "cleanup", conn[c].closing, conn[c].watchers, conn[c].msg)
  BY LoopUpdates DEF TypeOK, Turns, LoopStates
<1>2. conn' = [conn EXCEPT ![c].pc = "lookup", ![c].closing = TRUE] =>
        Turns(c, "lookup", TRUE, conn[c].watchers, conn[c].msg)
  BY LoopUpdates DEF TypeOK, Turns, LoopStates
<1> QED
  BY <1>1, <1>2, AnnouncedMove DEF readFails, cleanup

\* What handleSendMessage does to its read loop.
LEMMA SendMoves ==
  ASSUME TypeOK, NEW c \in Conns
  PROVE  /\ \A m \in Frames : handleSendMessage(c, m) =>
              conn' = conn \/ Turns(c, "route", conn[c].closing, conn[c].watchers, m)
         /\ checkOnline(c) =>
              \E p \in {"enqueue", "store"} :
                Turns(c, p, conn[c].closing, conn[c].watchers, conn[c].msg)
         /\ enqueue(c) =>
              \/ Turns(c, "store", conn[c].closing, conn[c].watchers, conn[c].msg)
              \/ Turns(c, "read", conn[c].closing, conn[c].watchers, NoMessage)
         /\ storeOffline(c) =>
              Turns(c, "read", conn[c].closing, conn[c].watchers, NoMessage)
<1>1. \A p \in LoopStates :
        conn' = [conn EXCEPT ![c].pc = p] =>
          Turns(c, p, conn[c].closing, conn[c].watchers, conn[c].msg)
  BY LoopUpdates DEF TypeOK, Turns
<1>2. \A p \in LoopStates, m \in Frames \cup {NoMessage} :
        conn' = [conn EXCEPT ![c].pc = p, ![c].msg = m] =>
          Turns(c, p, conn[c].closing, conn[c].watchers, m)
  BY LoopUpdates, FramesAssumption DEF TypeOK, Turns
<1>3. \A answer : Answered(c, answer) =>
        Turns(c, "read", conn[c].closing, conn[c].watchers, NoMessage)
  BY <1>2 DEF Answered, LoopStates
<1>4. \A m \in Frames : handleSendMessage(c, m) =>
        conn' = conn \/ Turns(c, "route", conn[c].closing, conn[c].watchers, m)
  BY <1>2 DEF handleSendMessage, LoopStates
<1>5. checkOnline(c) =>
        \E p \in {"enqueue", "store"} :
          Turns(c, p, conn[c].closing, conn[c].watchers, conn[c].msg)
  BY <1>1 DEF checkOnline, LoopStates
<1> QED
  BY <1>1, <1>3, <1>4, <1>5 DEF enqueue, storeOffline, LoopStates

\* The replay cache stays a cache, and keeps at most what it held and the id
\* it is asked about.
LEMMA ReplayTyping ==
  ASSUME TypeOK, NEW s \in Users, NEW id \in MsgIds, NEW dup \in BOOLEAN,
         isReplay(s, id, dup)
  PROVE  replay' \in [Users -> SUBSET MsgIds] /\ aged' \subseteq Users \X MsgIds
<1>1. SweptCache \in [Users -> SUBSET MsgIds]
  BY DEF SweptCache, TypeOK
<1>2. PICK kept \in Remembered(s) :
        /\ replay' = [SweptCache EXCEPT ![s] = kept \cup {id}]
        /\ aged' \subseteq aged
  BY DEF isReplay
<1>3. kept \subseteq SweptCache[s]
  BY <1>2 DEF Remembered
<1> QED
  BY <1>1, <1>2, <1>3 DEF TypeOK

\* The queue of a user holds finitely many copies of a message.
LEMMA CopiesTyping ==
  ASSUME TypeOK, NEW u \in Users, NEW m
  PROVE  /\ IsFiniteSet({i \in DOMAIN offline[u] : offline[u][i] = m})
         /\ Cardinality({i \in DOMAIN offline[u] : offline[u][i] = m}) \in Nat
<1>1. IsFiniteSet(DOMAIN offline[u])
  <2>1. offline[u] \in Seq(Message)
    BY DEF TypeOK
  <2>2. DOMAIN offline[u] = 1..Len(offline[u]) /\ Len(offline[u]) \in Nat
    BY <2>1
  <2>3. \A n \in Nat : IsFiniteSet(1..n)
    BY FS_Interval
  <2> QED
    BY <2>2, <2>3
<1>2. IsFiniteSet({i \in DOMAIN offline[u] : offline[u][i] = m})
  BY <1>1, FS_Subset
<1> QED
  BY <1>2, FS_CardinalityType

\* What the end of a read loop and the return from broadcastPresence leave
\* behind at the client.
LEMMA AnnouncedTyping ==
  ASSUME TypeOK, NEW c \in Conns, Gone(c) \/ Announced(c) \/ UNCHANGED <<socket, view>>
  PROVE  /\ socket' \in [Conns -> {"up", "mute", "down"}]
         /\ view' \in [Conns -> SUBSET Users]
         /\ \A d \in Conns : view'[d] \subseteq view[d]
BY DEF TypeOK, Gone, Announced

\* The variables other than the read loops and the session manager's.
RestTypeOK ==
  /\ writer \in [Conns -> {"none", "running", "stopped"}]
  /\ socket \in [Conns -> {"up", "mute", "down"}]
  /\ contacts \subseteq Users \X Users
  /\ adds \subseteq Adds
  /\ notices \subseteq Users \X Users
  /\ offline \in [Users -> Seq(Message)]
  /\ replay \in [Users -> SUBSET MsgIds]
  /\ aged \subseteq Users \X MsgIds
  /\ ticker \in [online : SUBSET Users, todo : SUBSET Users]
  /\ sends \in 0..MaxSends
  /\ view \in [Conns -> SUBSET Users]
  /\ arrived \in [Frames -> Nat]
  /\ lost \subseteq Message
  /\ acks \in [Frames -> SUBSET Answers]

\* TypeOK, split into the manager, the read loops and the rest.
LEMMA TypeParts == TypeOK <=> SessionTypeOK /\ conn \in [Conns -> Loop] /\ RestTypeOK
BY DEF TypeOK, RestTypeOK

\* The handlers of a connection keep the other variables well typed.
LEMMA HandlerRestTyping ==
  ASSUME TypeOK, LoopInv, NEW c \in Conns, Handler(c) \/ readFails(c) \/ Frame(c)
  PROVE  RestTypeOK'
<1>1. RestTypeOK
  BY TypeParts
<1>2. CASE lookupWatchers(c) \/ cleanup(c) \/ readFails(c) \/ \E w \in Users : announce(c, w)
  <2>1. Gone(c) \/ Announced(c) \/ UNCHANGED <<socket, view>>
    BY <1>2 DEF lookupWatchers, cleanup, readFails, announce
  <2> QED
    BY <1>1, <1>2, <2>1, AnnouncedTyping
       DEF lookupWatchers, cleanup, readFails, announce, RestTypeOK, contactVars
<1>3. ASSUME NEW u \in Users, handleConnect(c, u) PROVE RestTypeOK'
  BY <1>1, <1>3 DEF handleConnect, RestTypeOK, contactVars, clientVars
<1>4. ASSUME NEW m \in Message, NEW answer \in Answers, Ack(m, answer)
      PROVE  acks' \in [Frames -> SUBSET Answers]
  BY <1>1, <1>4 DEF Ack, RestTypeOK
<1>5. ASSUME NEW m \in Frames, handleSendMessage(c, m) PROVE RestTypeOK'
  <2>1. m \in Message /\ m.from \in Users /\ m.msg_id \in MsgIds
    BY FramesAssumption DEF Message
  <2>2. sends' \in 0..MaxSends
    BY <1>1, <1>5, LimitsAssumption DEF handleSendMessage, RestTypeOK
  <2>3. replay' \in [Users -> SUBSET MsgIds] /\ aged' \subseteq Users \X MsgIds
    BY <1>5, <2>1, ReplayTyping DEF handleSendMessage
  <2>4. acks' \in [Frames -> SUBSET Answers]
    BY <1>1, <1>4, <1>5, <2>1 DEF handleSendMessage, Answers, RestTypeOK
  <2> QED
    BY <1>1, <1>5, <2>2, <2>3, <2>4
       DEF handleSendMessage, RestTypeOK, contactVars, clientVars
<1>6. conn[c].pc \in {"route", "enqueue", "store"} =>
        conn[c].msg \in Message /\ conn[c].msg.to \in Users
  BY FramesAssumption DEF LoopInv, Message
<1>7. CASE checkOnline(c)
  BY <1>1, <1>7 DEF checkOnline, RestTypeOK, contactVars, clientVars
<1>8. CASE enqueue(c)
  <2>1. acks' \in [Frames -> SUBSET Answers]
    BY <1>1, <1>4, <1>6, <1>8 DEF enqueue, Answered, Answers, RestTypeOK
  <2> QED
    BY <1>1, <1>8, <2>1 DEF enqueue, RestTypeOK, contactVars, clientVars
<1>9. CASE storeOffline(c)
  <2>1. acks' \in [Frames -> SUBSET Answers]
    BY <1>4, <1>6, <1>9 DEF storeOffline, Answered, Answers
  <2>2. offline' \in [Users -> Seq(Message)]
    <3>1. offline \in [Users -> Seq(Message)]
      BY <1>1 DEF RestTypeOK
    <3>2. conn[c].msg \in Message /\ conn[c].msg.to \in Users
      BY <1>6, <1>9 DEF storeOffline
    <3>3. Append(offline[conn[c].msg.to], conn[c].msg) \in Seq(Message)
      BY <3>1, <3>2
    <3> QED
      BY <1>9, <3>1, <3>2, <3>3 DEF storeOffline, PushOfflineMsg
  <2> QED
    BY <1>1, <1>9, <2>1, <2>2 DEF storeOffline, RestTypeOK, contactVars, clientVars
<1> QED
  BY <1>2, <1>3, <1>5, <1>7, <1>8, <1>9 DEF Handler, Frame

\* A running writer reads the channel of its connection's session, and the
\* others leave the session manager alone.
LEMMA WriterTyping ==
  ASSUME TypeOK, LoopInv, NEW c \in Conns, Writer(c)
  PROVE  SessionTypeOK' /\ RestTypeOK' /\ conn' = conn /\ writer[c] # "none"
<1>1. SessionTypeOK /\ RestTypeOK
  BY TypeParts
<1>2. CASE writerEnds(c)
  BY <1>1, <1>2 DEF writerEnds, RestTypeOK, SessionTypeOK, sessionVars, contactVars, clientVars
<1>3. CASE writeMessage(c)
  <2> DEFINE g == conn[c].gen
             env == Head(ch[g].queue)
  <2>1. g \in Gens
    <3>1. conn[c].gen \in Gens \cup {NoGen} /\ conn[c].gen # NoGen
      BY <1>3 DEF writeMessage, TypeOK, Loop, LoopInv
    <3> QED
      BY <3>1
  <2>2. SessionTypeOK' /\ env \in Envelope
    BY <1>1, <1>3, <2>1, ReceiveTyping DEF writeMessage
  <2>3. env.type = "new_message" => env.msg \in Message
    BY <2>2 DEF Envelope
  <2>4. lost' \subseteq Message
    BY <1>1, <1>3, <2>3 DEF writeMessage, RestTypeOK
  <2>5. view' \in [Conns -> SUBSET Users]
    <3>1. view \in [Conns -> SUBSET Users]
      BY <1>1 DEF RestTypeOK
    <3>2. /\ env.type = "presence" => env.user_id \in Users
          /\ env.type = "presence_snapshot" => env.up \in SUBSET Users
      BY <2>2 DEF Envelope
    <3>3. UNCHANGED view \/ clientReceives(c, env)
      BY <1>3 DEF writeMessage
    <3> HIDE DEF env
    <3> QED
      BY <3>1, <3>2, <3>3 DEF clientReceives
  <2>6. arrived' \in [Frames -> Nat]
    <3>1. UNCHANGED arrived \/ clientReceives(c, env)
      BY <1>3 DEF writeMessage
    <3> HIDE DEF env
    <3> QED
      BY <1>1, <3>1 DEF clientReceives, RestTypeOK
  <2>7. writer' \in [Conns -> {"none", "running", "stopped"}]
    BY <1>1, <1>3 DEF writeMessage, RestTypeOK
  <2> QED
    BY <1>1, <1>3, <2>2, <2>4, <2>5, <2>6, <2>7 DEF writeMessage, RestTypeOK, contactVars
<1> QED
  BY <1>2, <1>3 DEF Writer

\* The network, the HTTP requests, the ageing of the replay cache and the
\* ticker keep everything well typed.
LEMMA OthersTyping ==
  ASSUME TypeOK,
         \/ \E c \in Conns : socketFails(c)
         \/ Requests
         \/ \E s \in Users, id \in MsgIds : replayAges(s, id)
         \/ Ticker
  PROVE  SessionTypeOK' /\ RestTypeOK' /\ conn' = conn /\ writer' = writer
<1>1. SessionTypeOK /\ RestTypeOK
  BY TypeParts
<1>2. ASSUME NEW c \in Conns, socketFails(c)
      PROVE  SessionTypeOK' /\ RestTypeOK' /\ conn' = conn /\ writer' = writer
  BY <1>1, <1>2 DEF socketFails, RestTypeOK, SessionTypeOK, sessionVars, contactVars, clientVars
<1>3. ASSUME NEW u \in Users, NEW w \in Users, HandleAddContact(u, w)
      PROVE  SessionTypeOK' /\ RestTypeOK' /\ conn' = conn /\ writer' = writer
  BY <1>1, <1>3 DEF HandleAddContact, RestTypeOK, SessionTypeOK, sessionVars, clientVars
<1>4. ASSUME NEW u \in Users, NEW w \in Users, notifyContact(u, w)
      PROVE  SessionTypeOK' /\ RestTypeOK' /\ conn' = conn /\ writer' = writer
  <2>1. [type |-> "contact_notify", from |-> u] \in Envelope
    BY DEF Envelope
  <2>2. SessionTypeOK'
    BY <1>1, <1>4, <2>1, EnqueueTyping DEF notifyContact
  <2> QED
    BY <1>1, <1>4, <2>2 DEF notifyContact, RestTypeOK, clientVars
<1>5. ASSUME NEW u \in Users, FetchAndClearOfflineMsgs(u)
      PROVE  SessionTypeOK' /\ RestTypeOK' /\ conn' = conn /\ writer' = writer
  <2>1. arrived' \in [Frames -> Nat]
    <3>1. \A m \in Frames :
            Cardinality({i \in DOMAIN offline[u] : offline[u][i] = m}) \in Nat
      BY CopiesTyping
    <3>2. arrived \in [Frames -> Nat]
      BY <1>1 DEF RestTypeOK
    <3> QED
      BY <1>5, <3>1, <3>2 DEF FetchAndClearOfflineMsgs
  <2> QED
    BY <1>1, <1>5, <2>1
       DEF FetchAndClearOfflineMsgs, RestTypeOK, SessionTypeOK, sessionVars, contactVars
<1>6. ASSUME NEW s \in Users, NEW id \in MsgIds, replayAges(s, id)
      PROVE  SessionTypeOK' /\ RestTypeOK' /\ conn' = conn /\ writer' = writer
  BY <1>1, <1>6 DEF replayAges, RestTypeOK, SessionTypeOK, sessionVars, contactVars, clientVars
<1>7. CASE tick
  BY <1>1, <1>7 DEF tick, OnlineSet, RestTypeOK, SessionTypeOK, sessionVars, contactVars, clientVars
<1>8. ASSUME NEW u \in Users, Served(u)
      PROVE  ticker' \in [online : SUBSET Users, todo : SUBSET Users]
  BY <1>1, <1>8 DEF Served, RestTypeOK
<1>9. ASSUME NEW u \in Users, pushPresenceSnapshot(u) \/ skipPresenceSnapshot(u)
      PROVE  SessionTypeOK' /\ RestTypeOK' /\ conn' = conn /\ writer' = writer
  <2>1. Snapshot(u) \in Envelope
    BY DEF Snapshot, GetContacts, Envelope
  <2>2. SessionTypeOK'
    BY <1>1, <1>9, <2>1, EnqueueTyping
       DEF pushPresenceSnapshot, skipPresenceSnapshot, SessionTypeOK, sessionVars
  <2> QED
    BY <1>1, <1>8, <1>9, <2>2
       DEF pushPresenceSnapshot, skipPresenceSnapshot, RestTypeOK, contactVars, clientVars
<1> QED
  BY <1>2, <1>3, <1>4, <1>5, <1>6, <1>7, <1>9 DEF Requests, Ticker

\* The handlers of a connection keep the session manager well typed.
LEMMA HandlerSessionTyping ==
  ASSUME TypeOK, LoopInv, NEW c \in Conns, Handler(c) \/ readFails(c) \/ Frame(c)
  PROVE  SessionTypeOK'
<1>1. SessionTypeOK
  BY TypeParts
<1>2. CASE lookupWatchers(c) \/ readFails(c) \/ checkOnline(c) \/ storeOffline(c)
             \/ \E m \in Frames : handleSendMessage(c, m)
  BY <1>1, <1>2 DEF lookupWatchers, readFails, checkOnline, storeOffline, handleSendMessage,
     SessionTypeOK, sessionVars
<1>3. ASSUME NEW u \in Users, handleConnect(c, u) PROVE SessionTypeOK'
  BY <1>1, <1>3, SetOnlineTyping DEF handleConnect
<1>4. conn[c].user \in Users \cup {NoUser} /\ conn[c].gen \in Gens \cup {NoGen}
  BY DEF TypeOK, Loop
<1>5. conn[c].pc \notin {"read", "gone"} => conn[c].user \in Users
  BY <1>4 DEF LoopInv
<1>6. ASSUME NEW w \in Users, announce(c, w) PROVE SessionTypeOK'
  <2>1. conn[c].user \in Users /\ conn[c].closing \in BOOLEAN
    BY <1>5, <1>6 DEF announce, TypeOK, Loop
  <2>2. [type |-> "presence", user_id |-> conn[c].user, online |-> ~conn[c].closing] \in Envelope
    BY <2>1 DEF Envelope
  <2> QED
    BY <1>1, <1>6, <2>2, EnqueueTyping DEF announce
<1>7. CASE cleanup(c)
  BY <1>1, <1>4, <1>5, <1>7, SetOfflineTyping DEF cleanup
<1>8. CASE enqueue(c)
  <2>1. conn[c].msg \in Message /\ conn[c].msg.to \in Users
    BY <1>8, FramesAssumption DEF enqueue, LoopInv, Message
  <2>2. [type |-> "new_message", msg |-> conn[c].msg] \in Envelope
    BY <2>1 DEF Envelope
  <2> QED
    BY <1>1, <1>8, <2>1, <2>2, EnqueueTyping DEF enqueue
<1> QED
  BY <1>2, <1>3, <1>6, <1>7, <1>8 DEF Handler, Frame

\* A read loop that goes on as LoopInv asks keeps it.
LEMMA LoopKept ==
  ASSUME LoopInv, NEW c \in Conns, NEW p, NEW u, NEW g, NEW b, NEW W, NEW m,
         Becomes(c, p, u, g, b, W, m),
         u = NoUser <=> g = NoGen,
         u = NoUser => p \in {"read", "gone"} /\ writer'[c] = "none",
         b => p \in {"lookup", "announce", "gone"},
         p \in {"route", "enqueue", "store"} => m \in Frames,
         \A d \in Conns \ {c} : writer'[d] = writer[d]
  PROVE  LoopInv'
BY DEF LoopInv, Becomes

\* The handlers keep the read loops well typed and consistent.
LEMMA HandlerLoops ==
  ASSUME TypeOK, LoopInv, NEW c \in Conns, Handler(c) \/ readFails(c) \/ Frame(c)
  PROVE  conn' \in [Conns -> Loop] /\ LoopInv'
<1>1. ASSUME NEW p, NEW b, NEW W, NEW m, Turns(c, p, b, W, m), writer' = writer,
             conn[c].user = NoUser => p = "gone",
             b => p \in {"lookup", "announce", "gone"},
             p \in {"route", "enqueue", "store"} => m \in Frames
      PROVE  conn' \in [Conns -> Loop] /\ LoopInv'
  <2>1. Becomes(c, p, conn[c].user, conn[c].gen, b, W, m)
    BY <1>1 DEF Turns
  <2>2. /\ conn[c].user = NoUser <=> conn[c].gen = NoGen
        /\ conn[c].user = NoUser => p \in {"read", "gone"} /\ writer'[c] = "none"
    BY <1>1 DEF LoopInv
  <2> QED
    BY <1>1, <2>1, <2>2, LoopKept DEF Becomes
<1>2. ASSUME NEW u \in Users, handleConnect(c, u)
      PROVE  conn' \in [Conns -> Loop] /\ LoopInv'
  <2>1. /\ sequence + 1 \in Gens
        /\ Becomes(c, "lookup", u, sequence + 1, conn[c].closing, conn[c].watchers, conn[c].msg)
    BY <1>2, ConnectMove
  <2>2. u # NoUser /\ sequence + 1 # NoGen
    BY <2>1, NoUserAssumption, GenTyping
  <2>3. \A d \in Conns \ {c} : writer'[d] = writer[d]
    BY <1>2 DEF handleConnect, TypeOK
  <2> QED
    BY <2>1, <2>2, <2>3, LoopKept DEF Becomes
<1>3. conn[c].pc \notin {"read", "gone"} => conn[c].user # NoUser
  BY DEF LoopInv
<1>4. ASSUME NEW p, NEW W, Tells(c, p, W), conn[c].pc \in {"lookup", "announce"}, writer' = writer
      PROVE  conn' \in [Conns -> Loop] /\ LoopInv'
  BY <1>1, <1>3, <1>4 DEF Tells
<1>5. CASE lookupWatchers(c)
  BY <1>4, <1>5, PresenceMoves DEF lookupWatchers
<1>6. ASSUME NEW w \in Users, announce(c, w) PROVE conn' \in [Conns -> Loop] /\ LoopInv'
  BY <1>4, <1>6, PresenceMoves DEF announce
<1>7. CASE cleanup(c)
  <2>1. conn[c].pc = "cleanup" /\ writer' = writer /\ ~conn[c].closing
    BY <1>7 DEF cleanup, LoopInv
  <2> QED
    BY <1>1, <1>3, <1>7, <2>1, EndMoves
<1>8. CASE readFails(c)
  <2>1. conn[c].pc = "read" /\ writer' = writer /\ ~conn[c].closing
    BY <1>8 DEF readFails, LoopInv
  <2>2. CASE conn[c].user = NoUser
    <3>1. Turns(c, "gone", conn[c].closing, {}, conn[c].msg)
      BY <1>8, <2>2, EndMoves
    <3> QED
      BY <1>1, <2>1, <3>1
  <2>3. CASE conn[c].user # NoUser
    <3>1. Turns(c, "cleanup", conn[c].closing, conn[c].watchers, conn[c].msg)
      BY <1>8, <2>3, EndMoves
    <3> QED
      BY <1>1, <2>1, <2>3, <3>1
  <2> QED
    BY <2>2, <2>3
<1>9. ASSUME NEW m \in Frames, handleSendMessage(c, m)
      PROVE  conn' \in [Conns -> Loop] /\ LoopInv'
  <2>1. conn[c].user # NoUser /\ writer' = writer /\ ~conn[c].closing
    BY <1>9 DEF handleSendMessage, LoopInv, Unbound
  <2>2. CASE conn' = conn
    BY <2>1, <2>2 DEF LoopInv, TypeOK
  <2>3. CASE Turns(c, "route", conn[c].closing, conn[c].watchers, m)
    BY <1>1, <2>1, <2>3
  <2> QED
    BY <1>9, <2>2, <2>3, SendMoves
<1>10. CASE checkOnline(c) \/ enqueue(c) \/ storeOffline(c)
  <2>1. /\ conn[c].user # NoUser /\ writer' = writer /\ ~conn[c].closing
        /\ conn[c].msg \in Frames
    BY <1>10 DEF checkOnline, enqueue, storeOffline, LoopInv
  <2> QED
    BY <1>1, <1>10, <2>1, SendMoves
<1> QED
  BY <1>2, <1>5, <1>6, <1>7, <1>8, <1>9, <1>10 DEF Handler, Frame

\* The inductive invariant about types.
TypeInv == TypeOK /\ LoopInv

\* Every step keeps it.
LEMMA NextTypeInv == TypeInv /\ [Next]_vars => TypeInv'
<1> SUFFICES ASSUME TypeInv, [Next]_vars PROVE TypeInv'
  OBVIOUS
<1> USE DEF TypeInv
<1>1. ASSUME SessionTypeOK', RestTypeOK', conn' \in [Conns -> Loop] PROVE TypeOK'
  BY <1>1 DEF TypeOK, RestTypeOK
<1>2. conn \in [Conns -> Loop]
  BY TypeParts
<1>3. ASSUME NEW c \in Conns, Handler(c) \/ readFails(c) \/ Frame(c) PROVE TypeInv'
  BY <1>1, <1>3, HandlerSessionTyping, HandlerRestTyping, HandlerLoops
<1>4. ASSUME NEW c \in Conns, Writer(c) PROVE TypeInv'
  <2>1. SessionTypeOK' /\ RestTypeOK' /\ conn' = conn /\ writer[c] # "none"
    BY <1>4, WriterTyping
  <2>2. \A d \in Conns \ {c} : writer'[d] = writer[d]
    BY <1>4 DEF Writer, writeMessage, writerEnds, TypeOK
  <2>3. LoopInv'
    BY <2>1, <2>2 DEF LoopInv
  <2> QED
    BY <1>1, <1>2, <2>1, <2>3
<1>5. ASSUME \/ \E c \in Conns : socketFails(c)
             \/ Requests
             \/ \E s \in Users, id \in MsgIds : replayAges(s, id)
             \/ Ticker
      PROVE  TypeInv'
  <2>1. SessionTypeOK' /\ RestTypeOK' /\ conn' = conn /\ writer' = writer
    BY <1>5, OthersTyping
  <2>2. LoopInv'
    BY <2>1 DEF LoopInv
  <2> QED
    BY <1>1, <1>2, <2>1, <2>2
<1>6. CASE UNCHANGED vars
  BY <1>6 DEF vars, sessionVars, contactVars, clientVars, TypeOK, SessionTypeOK, LoopInv
<1> QED
  BY <1>3, <1>4, <1>5, <1>6 DEF Next

\* It holds at the start.
LEMMA InitTypeInv == Init => TypeInv
<1> SUFFICES ASSUME Init PROVE TypeInv
  OBVIOUS
<1>1. SessionTypeOK
  BY MaxGenAssumption DEF Init, SessionInit, SessionTypeOK, Channel
<1>2. conn \in [Conns -> Loop]
  BY DEF Init, Loop
<1>3. RestTypeOK
  BY FirstContactsAssumption, AddsAssumption, LimitsAssumption DEF Init, RestTypeOK
<1>4. LoopInv
  BY DEF Init, LoopInv
<1> QED
  BY <1>1, <1>2, <1>3, <1>4, TypeParts DEF TypeInv

\* The WebSocket handlers keep their state well typed: no handler reaches for
\* the user, the generation or the message of a read loop that has none.
THEOREM WSTypeCorrect == Spec => []TypeOK
<1>1. TypeInv => TypeOK
  BY DEF TypeInv
<1> QED
  BY InitTypeInv, NextTypeInv, <1>1, PTL DEF Spec

-----------------------------------------------------------------------------
(* Sessions *)

\* No session begins or ends.
Steady ==
  /\ users' = users /\ sequence' = sequence
  /\ \A g \in Gens : ch'[g].open = ch[g].open
  /\ \A c \in Conns : /\ conn'[c].user = conn[c].user /\ conn'[c].gen = conn[c].gen
                      /\ Attached(c)' <=> Attached(c)

\* A connection that goes on as before, or ends after its session did or
\* without one, changes no session.
LEMMA TurnSteady ==
  ASSUME TypeInv, NEW c \in Conns, NEW p, NEW b, NEW W, NEW m, Turns(c, p, b, W, m),
         b = conn[c].closing, conn[c].pc # "gone",
         p = "gone" => conn[c].closing \/ conn[c].user = NoUser
  PROVE  \A d \in Conns : /\ conn'[d].user = conn[d].user /\ conn'[d].gen = conn[d].gen
                          /\ Attached(d)' <=> Attached(d)
BY DEF Turns, Becomes, Attached, Unbound

\* EnqueueMessage and the writers open and close nothing.
LEMMA QueueSteady ==
  ASSUME SessionTypeOK
  PROVE  /\ \A u \in Users : \A env : EnqueueMessage(u, env) =>
              /\ users' = users /\ sequence' = sequence
              /\ \A g \in Gens : ch'[g].open = ch[g].open
         /\ \A g \in Gens : Receive(g) =>
              /\ users' = users /\ sequence' = sequence
              /\ \A h \in Gens : ch'[h].open = ch[h].open
<1>1. \A g \in Gens : ch[g] \in Channel
  BY DEF SessionTypeOK
<1>2. ASSUME NEW g \in Gens, NEW q, ch' = [ch EXCEPT ![g] = [ch[g] EXCEPT !.queue = q]]
      PROVE  \A h \in Gens : ch'[h].open = ch[h].open
  BY <1>1, <1>2 DEF SessionTypeOK, Channel
<1>3. ASSUME NEW u \in Users, NEW env, EnqueueMessage(u, env)
      PROVE  \A g \in Gens : ch'[g].open = ch[g].open
  <2>1. CASE Enqueues(u)
    <3>1. users[u] \in Gens
      BY <2>1 DEF Enqueues, IsOnline, SessionTypeOK
    <3>2. ch' = [ch EXCEPT ![users[u]] =
                   [ch[users[u]] EXCEPT !.queue = Append(ch[users[u]].queue, env)]]
      BY <1>3, <2>1 DEF EnqueueMessage
    <3> QED
      BY <1>2, <3>1, <3>2
  <2>2. CASE ~Enqueues(u)
    BY <1>3, <2>2 DEF EnqueueMessage
  <2> QED
    BY <2>1, <2>2
<1>4. ASSUME NEW g \in Gens, Receive(g) PROVE \A h \in Gens : ch'[h].open = ch[h].open
  <2>1. ch' = [ch EXCEPT ![g] = [ch[g] EXCEPT !.queue = Tail(ch[g].queue)]]
    BY <1>4 DEF Receive
  <2> QED
    BY <1>2, <2>1
<1> QED
  BY <1>3, <1>4 DEF EnqueueMessage, Receive

\* The session that a bound read loop has, or had.
LEMMA BoundTyping ==
  ASSUME TypeInv, NEW c \in Conns
  PROVE  /\ conn[c].user # NoUser => conn[c].user \in Users /\ conn[c].gen \in Gens
         /\ conn[c].user = NoUser => conn[c].gen = NoGen
         /\ writer[c] = "running" => conn[c].user # NoUser
<1>1. conn[c].user \in Users \cup {NoUser} /\ conn[c].gen \in Gens \cup {NoGen}
  BY DEF TypeInv, TypeOK, Loop
<1> QED
  BY <1>1 DEF TypeInv, LoopInv

\* Sessions change only in connect and in the cleanup.
LEMMA SessionSteps ==
  ASSUME TypeInv, [Next]_vars
  PROVE  \/ \E c \in Conns, u \in Users : handleConnect(c, u)
         \/ \E c \in Conns : cleanup(c)
         \/ Steady
<1>1. SessionTypeOK /\ TypeOK /\ LoopInv
  BY TypeParts DEF TypeInv
<1>2. ASSUME conn' = conn PROVE \A d \in Conns : /\ conn'[d].user = conn[d].user
                                                 /\ conn'[d].gen = conn[d].gen
                                                 /\ Attached(d)' <=> Attached(d)
  BY <1>2 DEF Attached, Unbound
<1>3. ASSUME UNCHANGED sessionVars
      PROVE  /\ users' = users /\ sequence' = sequence
             /\ \A g \in Gens : ch'[g].open = ch[g].open
  BY <1>3 DEF sessionVars
<1>4. ASSUME NEW c \in Conns, lookupWatchers(c) PROVE Steady
  <2>1. UNCHANGED sessionVars /\ conn[c].pc # "gone"
    BY <1>4 DEF lookupWatchers
  <2> QED
    BY <1>1, <1>3, <1>4, <2>1, PresenceMoves, TurnSteady DEF Tells, Steady
<1>5. ASSUME NEW c \in Conns, NEW w \in Users, announce(c, w) PROVE Steady
  <2>1. /\ users' = users /\ sequence' = sequence
        /\ \A g \in Gens : ch'[g].open = ch[g].open
        /\ conn[c].pc # "gone"
    BY <1>1, <1>5, QueueSteady DEF announce
  <2> QED
    BY <1>1, <1>5, <2>1, PresenceMoves, TurnSteady DEF Tells, Steady
<1>6. ASSUME NEW c \in Conns, readFails(c) PROVE Steady
  <2>1. UNCHANGED sessionVars /\ conn[c].pc # "gone"
    BY <1>6 DEF readFails
  <2>2. CASE conn[c].user = NoUser
    BY <1>1, <1>3, <1>6, <2>1, <2>2, EndMoves, TurnSteady DEF Steady
  <2>3. CASE conn[c].user # NoUser
    <3>1. Turns(c, "cleanup", conn[c].closing, conn[c].watchers, conn[c].msg)
      BY <1>1, <1>6, <2>3, EndMoves
    <3> QED
      BY <1>1, <1>3, <2>1, <3>1, TurnSteady DEF Steady
  <2> QED
    BY <2>2, <2>3
<1>7. ASSUME NEW c \in Conns, checkOnline(c) \/ storeOffline(c) \/ enqueue(c) PROVE Steady
  <2>1. /\ users' = users /\ sequence' = sequence
        /\ \A g \in Gens : ch'[g].open = ch[g].open
        /\ conn[c].pc # "gone"
    <3>1. conn[c].pc = "enqueue" => conn[c].msg.to \in Users
      BY <1>1, FramesAssumption DEF LoopInv, Message
    <3> QED
      BY <1>1, <1>3, <1>7, <3>1, QueueSteady DEF checkOnline, storeOffline, enqueue
  <2>2. \E p \in {"enqueue", "store", "read"}, m \in {conn[c].msg, NoMessage} :
          Turns(c, p, conn[c].closing, conn[c].watchers, m)
    BY <1>1, <1>7, SendMoves
  <2> QED
    BY <2>1, <2>2, TurnSteady DEF Steady
<1>8. ASSUME NEW c \in Conns, NEW m \in Frames, handleSendMessage(c, m) PROVE Steady
  <2>1. UNCHANGED sessionVars /\ conn[c].pc # "gone"
    BY <1>8 DEF handleSendMessage
  <2> QED
    BY <1>1, <1>2, <1>3, <1>8, <2>1, SendMoves, TurnSteady DEF Steady
<1>9. ASSUME NEW c \in Conns, Writer(c) PROVE Steady
  <2>1. writer[c] = "running" => conn[c].gen \in Gens
    BY BoundTyping
  <2>2. /\ users' = users /\ sequence' = sequence
        /\ \A g \in Gens : ch'[g].open = ch[g].open
        /\ conn' = conn
    BY <1>1, <1>3, <1>9, <2>1, QueueSteady DEF Writer, writeMessage, writerEnds
  <2> QED
    BY <1>2, <2>2 DEF Steady
<1>10. ASSUME \/ \E c \in Conns : socketFails(c)
              \/ Requests
              \/ \E s \in Users, id \in MsgIds : replayAges(s, id)
              \/ Ticker
       PROVE  Steady
  <2>1. /\ users' = users /\ sequence' = sequence
        /\ \A g \in Gens : ch'[g].open = ch[g].open
    BY <1>1, <1>3, <1>10, QueueSteady
       DEF socketFails, Requests, replayAges, Ticker, HandleAddContact, notifyContact,
           FetchAndClearOfflineMsgs, tick, pushPresenceSnapshot, skipPresenceSnapshot
  <2>2. conn' = conn
    BY <1>1, <1>10, OthersTyping
  <2> QED
    BY <1>2, <2>1, <2>2 DEF Steady
<1>11. CASE UNCHANGED vars
  BY <1>2, <1>3, <1>11 DEF vars, Steady
<1> QED
  BY <1>4, <1>5, <1>6, <1>7, <1>8, <1>9, <1>10, <1>11 DEF Next, Frame, Handler

\* No generation is ahead of the counter, and no two connections share one.
GenInv ==
  /\ \A u \in Users : users[u] <= sequence
  /\ \A c \in Conns : conn[c].gen <= sequence
  /\ \A c, d \in Conns : conn[c].gen = conn[d].gen /\ conn[c].gen # NoGen => c = d

\* The inductive invariant about sessions.
SessionInv == GenInv /\ SessionOfNewest /\ OpenChannelsAreMapped

\* Two users never share a session.
LEMMA OwnSession ==
  ASSUME TypeInv, SessionInv, NEW u \in Users, NEW w \in Users, users[u] # NoGen,
         users[u] = users[w]
  PROVE  u = w
<1>1. PICK c \in Conns : conn[c].user = u /\ conn[c].gen = users[u]
  BY DEF SessionInv, SessionOfNewest, IsOnline, IsNewest
<1>2. PICK d \in Conns : conn[d].user = w /\ conn[d].gen = users[w]
  BY DEF SessionInv, SessionOfNewest, IsOnline, IsNewest
<1> QED
  BY <1>1, <1>2 DEF SessionInv, GenInv

\* What a step that changes no session keeps.
LEMMA SteadySessions ==
  ASSUME TypeInv, SessionInv, Steady
  PROVE  SessionInv'
<1>1. GenInv'
  BY DEF SessionInv, GenInv, Steady
<1>2. \A c \in Conns, u \in Users : IsNewest(c, u)' <=> IsNewest(c, u)
  BY DEF IsNewest, Steady
<1>3. SessionOfNewest'
  <2>1. \A u \in Users : IsOnline(u)' <=> IsOnline(u)
    BY DEF IsOnline, Steady
  <2>2. \A c \in Conns : (Attached(c)' <=> Attached(c)) /\ conn'[c].gen = conn[c].gen
    BY DEF Steady
  <2>3. users' = users
    BY DEF Steady
  <2> QED
    BY <1>2, <2>1, <2>2, <2>3 DEF SessionInv, SessionOfNewest
<1>4. OpenChannelsAreMapped'
  BY DEF SessionInv, OpenChannelsAreMapped, Steady
<1> QED
  BY <1>1, <1>3, <1>4 DEF SessionInv

\* A connect makes its connection the newest, with a session of its own, and
\* closes the channel it replaces.
LEMMA ConnectSessions ==
  ASSUME TypeInv, SessionInv, NEW c \in Conns, NEW u \in Users, handleConnect(c, u)
  PROVE  SessionInv'
<1> DEFINE g == sequence + 1
<1>1. /\ g \in Gens
      /\ Becomes(c, "lookup", u, g, conn[c].closing, conn[c].watchers, conn[c].msg)
      /\ SetOnline(u) /\ conn[c].user = NoUser /\ conn[c].pc = "read" /\ ~conn[c].closing
  BY ConnectMove DEF TypeInv, handleConnect, LoopInv, Unbound
<1>2. /\ sequence \in Nat /\ g \in Nat /\ sequence < g /\ g # NoGen
      /\ users \in [Users -> Gens \cup {NoGen}] /\ \A w \in Users : users[w] \in Nat
      /\ \A d \in Conns : conn[d].gen \in Nat
  <2>1. sequence \in Nat /\ users \in [Users -> Gens \cup {NoGen}]
    BY GenTyping DEF TypeInv, TypeOK, SessionTypeOK
  <2>2. \A d \in Conns : conn[d].gen \in Gens \cup {NoGen}
    BY DEF TypeInv, TypeOK, Loop
  <2> QED
    BY <1>1, <2>1, <2>2, GenTyping DEF NoGen
<1>3. sequence' = g /\ users' = [users EXCEPT ![u] = g]
  BY <1>1 DEF SetOnline
<1>4. /\ conn'[c].user = u /\ conn'[c].gen = g /\ Attached(c)'
      /\ \A d \in Conns \ {c} : conn'[d] = conn[d] /\ (Attached(d)' <=> Attached(d))
  BY <1>1, NoUserAssumption DEF Becomes, Attached, Unbound
<1>5. ASSUME NEW h \in Gens
       PROVE  ch'[h].open <=> h = g \/ (h # users[u] /\ ch[h].open)
  <2>1. ch[h] \in Channel
    BY DEF TypeInv, TypeOK, SessionTypeOK
  <2>2. [ch[h] EXCEPT !.open = FALSE].open = FALSE
    BY <2>1 DEF Channel
  <2>3. ch'[h] = CASE h = g        -> [open |-> TRUE, queue |-> <<>>]
                   [] h = users[u] -> [ch[h] EXCEPT !.open = FALSE]
                   [] OTHER        -> ch[h]
    BY <1>1 DEF SetOnline
  <2>4. users[u] # g
    BY <1>2 DEF SessionInv, GenInv
  <2> HIDE DEF g
  <2> QED
    BY <2>2, <2>3, <2>4
<1> HIDE DEF g
<1>6. GenInv'
  BY <1>2, <1>3, <1>4 DEF SessionInv, GenInv
<1>7. /\ IsNewest(c, u)'
      /\ \A d \in Conns \ {c} : ~IsNewest(d, u)'
      /\ \A d \in Conns, w \in Users \ {u} : IsNewest(d, w)' <=> IsNewest(d, w)
  <2>1. \A d \in Conns \ {c} : conn'[d].gen < g
    BY <1>2, <1>4 DEF SessionInv, GenInv
  <2>2. \A w \in Users : conn[c].user # w
    BY <1>1, NoUserAssumption
  <2>3. \A d \in Conns \ {c} : ~IsNewest(d, u)'
    BY <1>2, <1>4, <2>1 DEF IsNewest
  <2>4. IsNewest(c, u)'
    BY <1>2, <1>4, <2>1 DEF IsNewest
  <2>5. \A d \in Conns, w \in Users \ {u} : IsNewest(d, w)' <=> IsNewest(d, w)
    BY <1>4, <2>2 DEF IsNewest
  <2> QED
    BY <2>3, <2>4, <2>5
<1>8. SessionOfNewest'
  <2>1. users'[u] = g
    BY <1>2, <1>3
  <2>2. \A w \in Users \ {u} : users'[w] = users[w]
    BY <1>2, <1>3
  <2>3. ASSUME NEW w \in Users \ {u}
        PROVE  /\ \A d \in Conns : IsNewest(d, w)' /\ Attached(d)' => users'[w] = conn'[d].gen
               /\ IsOnline(w)' => \E d \in Conns :
                    IsNewest(d, w)' /\ Attached(d)' /\ conn'[d].gen = users'[w]
    <3>1. ~IsNewest(c, w)
      BY <1>1, NoUserAssumption DEF IsNewest
    <3> QED
      BY <1>4, <1>7, <2>2, <3>1 DEF SessionInv, SessionOfNewest, IsOnline
  <2> QED
    BY <1>4, <1>7, <2>1, <2>3 DEF SessionOfNewest, IsOnline
<1>9. OpenChannelsAreMapped'
  <2>1. \A h \in Gens : ch'[h].open <=> h = g \/ (h # users[u] /\ ch[h].open)
    BY <1>5
  <2>2. \A h \in Gens, w \in Users \ {u} : users[w] = h => h # users[u]
    BY OwnSession, GenTyping
  <2>3. ASSUME NEW h \in Gens
        PROVE  (\E w \in Users : users'[w] = h) <=>
                 h = g \/ (h # users[u] /\ \E w \in Users : users[w] = h)
    <3>1. users'[u] = g /\ \A w \in Users \ {u} : users'[w] = users[w]
      BY <1>2, <1>3
    <3> QED
      BY <2>2, <3>1
  <2> QED
    BY <2>1, <2>3 DEF SessionInv, OpenChannelsAreMapped
<1> QED
  BY <1>6, <1>8, <1>9 DEF SessionInv

\* A cleanup takes down the session of its own connection, or finds that it
\* was replaced and leaves the newer one alone.
LEMMA CleanupSessions ==
  ASSUME TypeInv, SessionInv, NEW c \in Conns, cleanup(c)
  PROVE  SessionInv'
<1> DEFINE u == conn[c].user
<1>1. /\ conn[c].pc = "cleanup" /\ SetOffline(u, conn[c].gen)
      /\ u \in Users /\ conn[c].gen \in Gens
  BY BoundTyping DEF cleanup, TypeInv, LoopInv
<1>2. /\ users \in [Users -> Gens \cup {NoGen}]
      /\ ch \in [Gens -> Channel]
  BY DEF TypeInv, TypeOK, SessionTypeOK
<1>3. /\ \A d \in Conns : conn'[d].user = conn[d].user /\ conn'[d].gen = conn[d].gen
      /\ ~Attached(c)'
      /\ \A d \in Conns \ {c} : Attached(d)' <=> Attached(d)
  BY EndMoves DEF TypeInv, Turns, Becomes, Attached, Unbound
<1>4. \A d \in Conns, w \in Users : IsNewest(d, w)' <=> IsNewest(d, w)
  BY <1>3 DEF IsNewest
<1>5. sequence' = sequence
  BY <1>1 DEF SetOffline
<1>6. CASE Holds(u, conn[c].gen)
  <2>1. users' = [users EXCEPT ![u] = NoGen] /\ users[u] = conn[c].gen
    BY <1>1, <1>6 DEF SetOffline, Holds
  <2>2. IsNewest(c, u)
    BY <1>1, <1>6, <2>1 DEF SessionInv, SessionOfNewest, GenInv, Holds, IsOnline
  <2>3. GenInv'
    <3>1. NoGen <= sequence
      BY GenTyping DEF TypeInv, TypeOK, SessionTypeOK, NoGen
    <3> QED
      BY <1>1, <1>2, <1>3, <1>5, <2>1, <3>1 DEF SessionInv, GenInv
  <2>4. SessionOfNewest'
    <3>1. \A d \in Conns \ {c} : ~IsNewest(d, u)
      <4>1. ASSUME NEW d \in Conns \ {c}, IsNewest(d, u) PROVE FALSE
        <5>1. conn[d].gen = conn[c].gen
          <6>1. conn[d].gen \in Nat /\ conn[c].gen \in Nat
            BY BoundTyping, GenTyping, <1>1, <4>1 DEF IsNewest, NoGen
          <6> QED
            BY <2>2, <4>1, <6>1 DEF IsNewest
        <5> QED
          BY <1>1, <4>1, <5>1, GenTyping DEF SessionInv, GenInv
      <4> QED
        BY <4>1
    <3>2. users'[u] = NoGen
      BY <1>1, <1>2, <2>1
    <3>3. \A w \in Users \ {u} : users'[w] = users[w] /\ ~IsNewest(c, w)
      BY <1>1, <1>2, <2>1 DEF IsNewest
    <3> QED
      BY <1>3, <1>4, <3>1, <3>2, <3>3 DEF SessionInv, SessionOfNewest, IsOnline
  <2>5. OpenChannelsAreMapped'
    <3>1. ch' = [ch EXCEPT ![users[u]] = [ch[users[u]] EXCEPT !.open = FALSE]]
      BY <1>1, <1>6 DEF SetOffline
    <3>2. \A h \in Gens : ch'[h].open <=> h # users[u] /\ ch[h].open
      BY <1>1, <1>2, <2>1, <3>1 DEF Channel
    <3>3. \A h \in Gens, w \in Users \ {u} : users[w] = h => h # users[u]
      BY <1>1, OwnSession, GenTyping
    <3>4. \A h \in Gens, w \in Users : users'[w] = h <=> w # u /\ users[w] = h
      BY <1>1, <1>2, <2>1, GenTyping
    <3> QED
      BY <1>1, <3>2, <3>3, <3>4 DEF SessionInv, OpenChannelsAreMapped
  <2> QED
    BY <2>3, <2>4, <2>5 DEF SessionInv
<1>7. CASE ~Holds(u, conn[c].gen)
  <2>1. users' = users /\ ch' = ch
    BY <1>1, <1>7 DEF SetOffline
  <2>2. users[u] # conn[c].gen
    BY <1>1, <1>7, GenTyping DEF Holds, IsOnline
  <2>3. GenInv'
    BY <1>3, <1>5, <2>1 DEF SessionInv, GenInv
  <2>4. \A d \in Conns, w \in Users : IsNewest(d, w) /\ conn[d].gen = users[w] => d # c
    BY <2>2 DEF IsNewest
  <2>5. SessionOfNewest'
    BY <1>3, <1>4, <2>1, <2>4 DEF SessionInv, SessionOfNewest, IsOnline
  <2>6. OpenChannelsAreMapped'
    BY <2>1 DEF SessionInv, OpenChannelsAreMapped
  <2> QED
    BY <2>3, <2>5, <2>6 DEF SessionInv
<1> QED
  BY <1>6, <1>7

\* SessionInv is inductive.
LEMMA NextSessionInv == TypeInv /\ SessionInv /\ [Next]_vars => SessionInv'
BY SessionSteps, SteadySessions, ConnectSessions, CleanupSessions

\* At the start there are no sessions.
LEMMA InitSessionInv == Init => SessionInv
<1> SUFFICES ASSUME Init PROVE SessionInv
  OBVIOUS
<1>1. sequence = 0 /\ \A u \in Users : users[u] = NoGen
  BY DEF Init, SessionInit
<1>2. \A c \in Conns : conn[c].user = NoUser /\ conn[c].gen = NoGen
  BY DEF Init
<1>3. GenInv
  BY <1>1, <1>2 DEF GenInv, NoGen
<1>4. SessionOfNewest
  BY <1>1, <1>2 DEF SessionOfNewest, IsOnline, Attached, Unbound
<1>5. OpenChannelsAreMapped
  BY GenTyping DEF Init, SessionInit, OpenChannelsAreMapped
<1> QED
  BY <1>3, <1>4, <1>5 DEF SessionInv

\* A user's session is the newest attached connection's, and nobody else's,
\* for any number of reconnects and of cleanups that come late.
THEOREM NewestHoldsSession == Spec => []SessionOfNewest
<1>1. TypeInv /\ SessionInv => SessionOfNewest
  BY DEF SessionInv
<1> QED
  BY InitTypeInv, NextTypeInv, InitSessionInv, NextSessionInv, <1>1, PTL DEF Spec

\* Exactly the channels in the map are open, so that EnqueueMessage never
\* sends on a closed one and every replaced or ended session lets its writer
\* go.
THEOREM OpenAreMapped == Spec => []OpenChannelsAreMapped
<1>1. TypeInv /\ SessionInv => OpenChannelsAreMapped
  BY DEF SessionInv
<1> QED
  BY InitTypeInv, NextTypeInv, InitSessionInv, NextSessionInv, <1>1, PTL DEF Spec

-----------------------------------------------------------------------------
(* Channels *)

\* A message that is queued for a user goes to the end of the channel of the
\* user's session, or nowhere.
LEMMA EnqueueQueues ==
  ASSUME SessionTypeOK, NEW u \in Users, NEW env \in Envelope, EnqueueMessage(u, env)
  PROVE  /\ Enqueues(u) => /\ users[u] \in Gens
                           /\ ch'[users[u]].queue = Append(ch[users[u]].queue, env)
                           /\ \A g \in Gens \ {users[u]} : ch'[g].queue = ch[g].queue
         /\ ~Enqueues(u) => ch' = ch
<1>1. CASE Enqueues(u)
  <2>1. users[u] \in Gens
    BY <1>1 DEF Enqueues, IsOnline, SessionTypeOK
  <2>2. ch' = [ch EXCEPT ![users[u]] =
                 [ch[users[u]] EXCEPT !.queue = Append(ch[users[u]].queue, env)]]
    BY <1>1 DEF EnqueueMessage
  <2>3. ch[users[u]] \in Channel
    BY <2>1 DEF SessionTypeOK
  <2> QED
    BY <1>1, <2>1, <2>2, <2>3 DEF SessionTypeOK, Channel
<1>2. CASE ~Enqueues(u)
  BY <1>2 DEF EnqueueMessage
<1> QED
  BY <1>1, <1>2

\* A receive takes the first envelope of a channel.
LEMMA ReceiveQueues ==
  ASSUME SessionTypeOK, NEW g \in Gens, Receive(g)
  PROVE  /\ ch'[g].queue = Tail(ch[g].queue)
         /\ \A h \in Gens \ {g} : ch'[h].queue = ch[h].queue
<1>1. ch' = [ch EXCEPT ![g] = [ch[g] EXCEPT !.queue = Tail(ch[g].queue)]]
  BY DEF Receive
<1>2. ch[g] \in Channel
  BY DEF SessionTypeOK
<1> QED
  BY <1>1, <1>2 DEF SessionTypeOK, Channel

\* A session that begins has an empty channel; that and the end of a session
\* leave what the other channels hold alone.
LEMMA OpenCloseQueues ==
  ASSUME SessionTypeOK, SessionInv, NEW u \in Users
  PROVE  /\ SetOnline(u) =>
              /\ sequence + 1 \in Gens
              /\ ch'[sequence + 1].queue = <<>>
              /\ \A h \in Gens \ {sequence + 1} : ch'[h].queue = ch[h].queue
         /\ \A g \in Gens \cup {NoGen} : SetOffline(u, g) =>
              \A h \in Gens : ch'[h].queue = ch[h].queue
<1>1. \A g \in Gens : ch[g] \in Channel /\ [ch[g] EXCEPT !.open = FALSE].queue = ch[g].queue
  BY DEF SessionTypeOK, Channel
<1>2. ASSUME SetOnline(u)
      PROVE  /\ sequence + 1 \in Gens
             /\ ch'[sequence + 1].queue = <<>>
             /\ \A h \in Gens \ {sequence + 1} : ch'[h].queue = ch[h].queue
  <2>1. sequence + 1 \in Gens
    BY <1>2, GenTyping DEF SetOnline, SessionTypeOK
  <2> DEFINE g == sequence + 1
  <2>2. users[u] # g
    BY GenTyping DEF SessionInv, GenInv, SessionTypeOK
  <2>3. ASSUME NEW h \in Gens
        PROVE  ch'[h] = CASE h = g        -> [open |-> TRUE, queue |-> <<>>]
                          [] h = users[u] -> [ch[h] EXCEPT !.open = FALSE]
                          [] OTHER        -> ch[h]
    BY <1>2, <2>3 DEF SetOnline
  <2> HIDE DEF g
  <2>4. ch'[g] = [open |-> TRUE, queue |-> <<>>]
    BY <2>1, <2>2, <2>3 DEF g
  <2>5. ASSUME NEW h \in Gens \ {g} PROVE ch'[h].queue = ch[h].queue
    <3>1. ch'[h] = ch[h] \/ ch'[h] = [ch[h] EXCEPT !.open = FALSE]
      BY <2>3
    <3>2. ch[h] \in Channel
      BY <1>1
    <3> QED
      BY <3>1, <3>2 DEF Channel
  <2> QED
    BY <2>1, <2>4, <2>5 DEF g
<1>3. ASSUME NEW g \in Gens \cup {NoGen}, SetOffline(u, g)
      PROVE  \A h \in Gens : ch'[h].queue = ch[h].queue
  <2>1. CASE Holds(u, g)
    <3>1. users[u] \in Gens
      BY <2>1 DEF Holds, IsOnline, SessionTypeOK
    <3>2. ch' = [ch EXCEPT ![users[u]] = [ch[users[u]] EXCEPT !.open = FALSE]]
      BY <1>3, <2>1 DEF SetOffline
    <3> QED
      BY <1>1, <3>1, <3>2 DEF SessionTypeOK
  <2>2. CASE ~Holds(u, g)
    BY <1>3, <2>2 DEF SetOffline
  <2> QED
    BY <2>1, <2>2
<1> QED
  BY <1>2, <1>3

\* The session in the map belongs to a connection of that user, and to no
\* connection of another.
LEMMA SessionConnection ==
  ASSUME TypeInv, SessionInv, NEW u \in Users, users[u] # NoGen, NEW c \in Conns,
         conn[c].gen = users[u]
  PROVE  conn[c].user = u
<1>1. PICK d \in Conns : conn[d].user = u /\ conn[d].gen = users[u]
  BY DEF SessionInv, SessionOfNewest, IsOnline, IsNewest
<1> QED
  BY <1>1 DEF SessionInv, GenInv

-----------------------------------------------------------------------------
(* Presence *)

\* An envelope for u tells of mutual contacts only.
Proper(u, env) ==
  /\ env.type = "presence" => IsMutualContact(u, env.user_id)
  /\ env.type = "presence_snapshot" => env.up \subseteq MutualContactIDs(u)

\* The inductive form of PresenceOnlyMutual.  A writer drains its channel also
\* after its session was replaced, and an announcement goes on while sessions
\* and contacts change: so it is about the channel of every connection, in the
\* map or not, and about the watchers that each broadcastPresence has yet to
\* tell.
ChannelsProper ==
  \A c \in Conns : conn[c].user # NoUser =>
    \A i \in DOMAIN ch[conn[c].gen].queue : Proper(conn[c].user, ch[conn[c].gen].queue[i])
WatchersProper == \A c \in Conns : conn[c].watchers \subseteq MutualContactIDs(conn[c].user)
ViewsProper == \A c \in Conns : view[c] \subseteq MutualContactIDs(conn[c].user)
PresenceInv == ChannelsProper /\ WatchersProper /\ ViewsProper

\* Contacts are added and never removed, so what is proper stays proper.
LEMMA ContactsGrow ==
  ASSUME [Next]_vars
  PROVE  /\ contacts \subseteq contacts'
         /\ \A u, env : Proper(u, env) => Proper(u, env)'
         /\ \A u : MutualContactIDs(u) \subseteq MutualContactIDs(u)'
<1>1. contacts \subseteq contacts'
  BY DEF Next, vars, contactVars, Frame, Handler, Writer, Requests, Ticker, handleConnect,
     handleSendMessage, lookupWatchers, announce, cleanup, checkOnline, enqueue, storeOffline,
     writeMessage, writerEnds, readFails, socketFails, HandleAddContact, notifyContact,
     FetchAndClearOfflineMsgs, replayAges, tick, pushPresenceSnapshot, skipPresenceSnapshot
<1>2. \A u : MutualContactIDs(u) \subseteq MutualContactIDs(u)'
  BY <1>1 DEF MutualContactIDs, IsMutualContact
<1>3. \A u, env : Proper(u, env) => Proper(u, env)'
  BY <1>1, <1>2 DEF Proper, IsMutualContact
<1> QED
  BY <1>1, <1>2, <1>3

\* Nobody is a contact of no user.
LEMMA NobodysContacts == TypeInv => MutualContactIDs(NoUser) = {}
BY NoUserAssumption DEF TypeInv, TypeOK, MutualContactIDs, IsMutualContact

\* The channel of connection c, whose user is u, stays as it is, loses its
\* first envelope or gets a proper one.
ProperMove(c) ==
  LET u == conn[c].user
      q == ch[conn[c].gen].queue
      r == ch'[conn[c].gen].queue
  IN  \/ r = q
      \/ q # <<>> /\ r = Tail(q)
      \/ \E env \in Envelope : Proper(u, env) /\ r = Append(q, env)

\* What is queued for its user keeps a channel proper.
LEMMA EnqueueProper ==
  ASSUME TypeInv, SessionInv, NEW w \in Users, NEW env \in Envelope, Proper(w, env),
         EnqueueMessage(w, env), NEW c \in Conns, conn[c].user # NoUser
  PROVE  ProperMove(c)
<1>1. SessionTypeOK /\ conn[c].gen \in Gens
  BY BoundTyping DEF TypeInv, TypeOK
<1>2. CASE ~Enqueues(w)
  BY <1>1, <1>2, EnqueueQueues DEF ProperMove
<1>3. CASE Enqueues(w) /\ conn[c].gen # users[w]
  BY <1>1, <1>3, EnqueueQueues DEF ProperMove
<1>4. CASE Enqueues(w) /\ conn[c].gen = users[w]
  <2>1. conn[c].user = w
    BY <1>4, SessionConnection DEF Enqueues, IsOnline
  <2>2. ch'[conn[c].gen].queue = Append(ch[conn[c].gen].queue, env)
    BY <1>1, <1>4, EnqueueQueues
  <2> QED
    BY <2>1, <2>2 DEF ProperMove
<1> QED
  BY <1>2, <1>3, <1>4

\* Every step moves the channel of a connection properly; a connection that
\* is bound by the step starts with an empty one.
LEMMA ChannelMoves ==
  ASSUME TypeInv, SessionInv, PresenceInv, [Next]_vars, NEW c \in Conns
  PROVE  \/ \E u \in Users : handleConnect(c, u)
         \/ conn[c].user # NoUser => ProperMove(c)
<1>1. SessionTypeOK /\ TypeOK /\ LoopInv
  BY TypeParts DEF TypeInv
<1> SUFFICES ASSUME conn[c].user # NoUser, ~\E u \in Users : handleConnect(c, u)
             PROVE  ProperMove(c)
  OBVIOUS
<1>2. conn[c].gen \in Gens
  BY BoundTyping
<1>3. ASSUME ch'[conn[c].gen].queue = ch[conn[c].gen].queue PROVE ProperMove(c)
  BY <1>3 DEF ProperMove
<1>4. ASSUME UNCHANGED sessionVars PROVE ProperMove(c)
  BY <1>3, <1>4 DEF sessionVars
<1>5. ASSUME NEW d \in Conns, NEW u \in Users, handleConnect(d, u) PROVE ProperMove(c)
  <2>1. SetOnline(u) /\ sequence \in Nat
    <3>1. sequence \in Nat
      BY <1>1, GenTyping DEF SessionTypeOK
    <3> QED
      BY <1>5, <3>1 DEF handleConnect
  <2>2. conn[c].gen # sequence + 1
    BY <1>2, <2>1, GenTyping DEF SessionInv, GenInv
  <2> QED
    BY <1>1, <1>2, <1>3, <2>1, <2>2, OpenCloseQueues
<1>6. ASSUME NEW d \in Conns, cleanup(d) PROVE ProperMove(c)
  <2>1. /\ SetOffline(conn[d].user, conn[d].gen)
        /\ conn[d].user \in Users /\ conn[d].gen \in Gens
    BY <1>1, <1>6, BoundTyping DEF cleanup, LoopInv
  <2> QED
    BY <1>1, <1>2, <1>3, <2>1, OpenCloseQueues
<1>7. ASSUME NEW d \in Conns, NEW w \in Users, announce(d, w) PROVE ProperMove(c)
  <2> DEFINE env == [type |-> "presence", user_id |-> conn[d].user,
                     online |-> ~conn[d].closing]
  <2>1. conn[d].user \in Users /\ conn[d].closing \in BOOLEAN
    BY <1>1, <1>7, BoundTyping DEF announce, LoopInv, TypeOK, Loop
  <2>2. env \in Envelope
    BY <2>1 DEF Envelope
  <2>3. Proper(w, env)
    BY <1>7 DEF announce, PresenceInv, WatchersProper, MutualContactIDs, IsMutualContact, Proper
  <2> QED
    BY <1>7, <2>2, <2>3, EnqueueProper DEF announce
<1>8. ASSUME NEW d \in Conns, enqueue(d) PROVE ProperMove(c)
  <2> DEFINE env == [type |-> "new_message", msg |-> conn[d].msg]
  <2>1. conn[d].msg \in Message /\ conn[d].msg.to \in Users
    BY <1>1, <1>8, FramesAssumption DEF enqueue, LoopInv, Message
  <2>2. env \in Envelope /\ Proper(conn[d].msg.to, env)
    BY <2>1 DEF Envelope, Proper
  <2> QED
    BY <1>8, <2>1, <2>2, EnqueueProper DEF enqueue
<1>9. ASSUME NEW d \in Conns, writeMessage(d) PROVE ProperMove(c)
  <2>1. /\ conn[d].gen \in Gens /\ Receive(conn[d].gen)
        /\ ch[conn[d].gen].queue # <<>>
    BY <1>9, BoundTyping DEF writeMessage
  <2>2. CASE conn[c].gen = conn[d].gen
    BY <1>1, <2>1, <2>2, ReceiveQueues DEF ProperMove
  <2>3. CASE conn[c].gen # conn[d].gen
    BY <1>1, <1>2, <1>3, <2>1, <2>3, ReceiveQueues
  <2> QED
    BY <2>2, <2>3
<1>10. ASSUME NEW u \in Users, NEW w \in Users, notifyContact(u, w) PROVE ProperMove(c)
  <2> DEFINE env == [type |-> "contact_notify", from |-> u]
  <2>1. env \in Envelope /\ Proper(w, env)
    BY DEF Envelope, Proper
  <2> QED
    BY <1>10, <2>1, EnqueueProper DEF notifyContact
<1>11. ASSUME NEW u \in Users, pushPresenceSnapshot(u) PROVE ProperMove(c)
  <2>1. Snapshot(u) \in Envelope /\ Proper(u, Snapshot(u))
    BY DEF Snapshot, GetContacts, Envelope, Proper
  <2> QED
    BY <1>4, <1>11, <2>1, EnqueueProper DEF pushPresenceSnapshot
<1>12. ASSUME \/ \E d \in Conns : \/ lookupWatchers(d) \/ checkOnline(d) \/ storeOffline(d)
                                  \/ writerEnds(d) \/ readFails(d) \/ socketFails(d)
                                  \/ \E m \in Frames : handleSendMessage(d, m)
              \/ \E u, w \in Users : HandleAddContact(u, w)
              \/ \E u \in Users : FetchAndClearOfflineMsgs(u) \/ skipPresenceSnapshot(u)
              \/ \E s \in Users, id \in MsgIds : replayAges(s, id)
              \/ tick
              \/ UNCHANGED vars
       PROVE  ProperMove(c)
  <2>1. UNCHANGED sessionVars
    BY <1>12 DEF lookupWatchers, checkOnline, storeOffline, writerEnds, readFails, socketFails,
       handleSendMessage, HandleAddContact, FetchAndClearOfflineMsgs, skipPresenceSnapshot,
       replayAges, tick, vars
  <2> QED
    BY <1>4, <2>1
<1> QED
  BY <1>5, <1>6, <1>7, <1>8, <1>9, <1>10, <1>11, <1>12
     DEF Next, Frame, Handler, Writer, Requests, Ticker

\* The channels stay proper.
LEMMA NextChannelsProper ==
  ASSUME TypeInv, SessionInv, PresenceInv, [Next]_vars
  PROVE  ChannelsProper'
<1> SUFFICES ASSUME NEW c \in Conns, conn'[c].user # NoUser,
                    NEW i \in DOMAIN ch'[conn'[c].gen].queue
             PROVE  \E u, env : /\ u = conn'[c].user
                                /\ env = ch'[conn'[c].gen].queue[i]
                                /\ Proper(u, env)'
  BY DEF ChannelsProper
<1>1. SessionTypeOK /\ TypeOK
  BY TypeParts DEF TypeInv
<1>2. CASE \E u \in Users : handleConnect(c, u)
  <2>1. PICK u \in Users : handleConnect(c, u)
    BY <1>2
  <2>2. conn'[c].gen = sequence + 1
    BY <1>1, <2>1, ConnectMove DEF Becomes
  <2>3. ch'[sequence + 1].queue = <<>>
    BY <1>1, <2>1, OpenCloseQueues DEF handleConnect
  <2> QED
    BY <2>2, <2>3
<1>3. CASE ~\E u \in Users : handleConnect(c, u)
  <2>1. conn'[c].user = conn[c].user /\ conn'[c].gen = conn[c].gen
    <3>1. ASSUME NEW d \in Conns, NEW u \in Users, handleConnect(d, u)
          PROVE  conn'[c] = conn[c]
      BY <1>1, <1>3, <3>1, ConnectMove DEF Becomes
    <3>2. ASSUME NEW d \in Conns, cleanup(d)
          PROVE  conn'[c].user = conn[c].user /\ conn'[c].gen = conn[c].gen
      BY <1>1, <3>2, EndMoves DEF Turns, Becomes
    <3> QED
      BY <3>1, <3>2, SessionSteps DEF Steady
  <2> DEFINE g == conn[c].gen
             q == ch[g].queue
             r == ch'[g].queue
  <2>2. ProperMove(c) /\ g \in Gens /\ i \in DOMAIN r
    BY <1>3, <2>1, ChannelMoves, BoundTyping
  <2>3. q \in Seq(Envelope) /\ \A j \in DOMAIN q : Proper(conn[c].user, q[j])
    <3>1. ch[g] \in Channel
      BY <1>1, <2>2 DEF SessionTypeOK
    <3> QED
      BY <2>1, <3>1 DEF Channel, PresenceInv, ChannelsProper
  <2>4. r = q \/ (q # <<>> /\ r = Tail(q))
          \/ \E env \in Envelope : Proper(conn[c].user, env) /\ r = Append(q, env)
    BY <2>2 DEF ProperMove
  <2> HIDE DEF q, r
  <2>5. Proper(conn[c].user, r[i])
    <3>1. CASE r = q
      BY <2>2, <2>3, <3>1
    <3>2. CASE q # <<>> /\ r = Tail(q)
      <4>1. i + 1 \in DOMAIN q /\ r[i] = q[i + 1]
        BY <2>2, <2>3, <3>2
      <4> QED
        BY <2>3, <4>1
    <3>3. ASSUME NEW env \in Envelope, Proper(conn[c].user, env), r = Append(q, env)
          PROVE  Proper(conn[c].user, r[i])
      <4>1. (i \in DOMAIN q /\ r[i] = q[i]) \/ r[i] = env
        BY <2>2, <2>3, <3>3
      <4> QED
        BY <2>3, <3>3, <4>1
    <3> QED
      BY <2>4, <3>1, <3>2, <3>3
  <2> QED
    BY <2>1, <2>5, ContactsGrow DEF r
<1> QED
  BY <1>2, <1>3

\* The watchers of an announcement under way stay mutual contacts.
LEMMA NextWatchersProper ==
  ASSUME TypeInv, SessionInv, PresenceInv, [Next]_vars
  PROVE  WatchersProper'
<1>1. TypeOK /\ LoopInv
  BY DEF TypeInv
<1> SUFFICES ASSUME NEW c \in Conns
             PROVE  \E u : u = conn'[c].user /\ conn'[c].watchers \subseteq MutualContactIDs(u)'
  BY DEF WatchersProper
<1>2. ASSUME conn'[c].user = conn[c].user,
             conn'[c].watchers \subseteq MutualContactIDs(conn[c].user)
      PROVE  \E u : u = conn'[c].user /\ conn'[c].watchers \subseteq MutualContactIDs(u)'
  BY <1>2, ContactsGrow
<1>3. conn[c].watchers \subseteq MutualContactIDs(conn[c].user)
  BY DEF PresenceInv, WatchersProper
<1>4. ASSUME NEW u \in Users, handleConnect(c, u)
      PROVE  conn'[c].watchers = {}
  BY <1>1, <1>3, <1>4, ConnectMove, NobodysContacts DEF handleConnect, Unbound, Becomes
<1>5. ASSUME NEW d \in Conns, d # c, NEW p, NEW u, NEW g, NEW b, NEW W, NEW m,
             Becomes(d, p, u, g, b, W, m)
      PROVE  conn'[c] = conn[c]
  BY <1>5 DEF Becomes
<1>6. ASSUME NEW d \in Conns, Handler(d) \/ readFails(d) \/ Frame(d), d # c
      PROVE  conn'[c] = conn[c]
  <2>1. conn' = conn \/ \E p, u, g, b, W, m : Becomes(d, p, u, g, b, W, m)
    <3>1. ASSUME NEW u \in Users, handleConnect(d, u)
          PROVE  \E p, x, g, b, W, m : Becomes(d, p, x, g, b, W, m)
      BY <1>1, <3>1, ConnectMove
    <3>2. ASSUME lookupWatchers(d) \/ cleanup(d) \/ readFails(d)
                   \/ \E w \in Users : announce(d, w)
          PROVE  \E p, b, W, m : Turns(d, p, b, W, m)
      BY <1>1, <3>2, PresenceMoves, EndMoves DEF Tells
    <3>3. ASSUME checkOnline(d) \/ enqueue(d) \/ storeOffline(d)
                   \/ \E m \in Frames : handleSendMessage(d, m)
          PROVE  conn' = conn \/ \E p, b, W, m : Turns(d, p, b, W, m)
      BY <1>1, <3>3, SendMoves
    <3> QED
      BY <1>6, <3>1, <3>2, <3>3 DEF Handler, Frame, Turns
  <2> QED
    BY <1>5, <1>6, <2>1
<1>7. ASSUME lookupWatchers(c) \/ cleanup(c) \/ readFails(c) \/ \E w \in Users : announce(c, w)
      PROVE  /\ conn'[c].user = conn[c].user
             /\ conn'[c].watchers \subseteq MutualContactIDs(conn[c].user)
  BY <1>1, <1>3, <1>7, PresenceMoves, EndMoves DEF Tells, Turns, Becomes
<1>8. ASSUME checkOnline(c) \/ enqueue(c) \/ storeOffline(c)
               \/ \E m \in Frames : handleSendMessage(c, m)
      PROVE  /\ conn'[c].user = conn[c].user
             /\ conn'[c].watchers \subseteq MutualContactIDs(conn[c].user)
  BY <1>1, <1>3, <1>8, SendMoves DEF Turns, Becomes
<1>9. ASSUME conn' = conn
      PROVE  /\ conn'[c].user = conn[c].user
             /\ conn'[c].watchers \subseteq MutualContactIDs(conn[c].user)
  BY <1>3, <1>9
<1>10. ASSUME NEW d \in Conns, Handler(d) \/ readFails(d) \/ Frame(d)
       PROVE  \E u : u = conn'[c].user /\ conn'[c].watchers \subseteq MutualContactIDs(u)'
  BY <1>2, <1>3, <1>4, <1>6, <1>7, <1>8, <1>10 DEF Handler, Frame
<1>11. ASSUME ~\E d \in Conns : Handler(d) \/ readFails(d) \/ Frame(d)
       PROVE  conn' = conn
  BY <1>1, <1>11, OthersTyping, WriterTyping DEF Next, vars
<1> QED
  BY <1>2, <1>9, <1>10, <1>11

\* What a client is told keeps its view to mutual contacts.
LEMMA NextViewsProper ==
  ASSUME TypeInv, SessionInv, PresenceInv, [Next]_vars
  PROVE  ViewsProper'
<1>1. TypeOK /\ LoopInv /\ SessionTypeOK
  BY TypeParts DEF TypeInv
<1> SUFFICES ASSUME NEW c \in Conns
             PROVE  \E u : u = conn'[c].user /\ view'[c] \subseteq MutualContactIDs(u)'
  BY DEF ViewsProper
<1>2. ASSUME conn'[c].user = conn[c].user, view'[c] \subseteq MutualContactIDs(conn[c].user)
      PROVE  \E u : u = conn'[c].user /\ view'[c] \subseteq MutualContactIDs(u)'
  BY <1>2, ContactsGrow
<1>3. view[c] \subseteq MutualContactIDs(conn[c].user)
  BY DEF PresenceInv, ViewsProper
<1>4. conn'[c].user = conn[c].user \/ (conn[c].user = NoUser /\ \E u \in Users : handleConnect(c, u))
  <2>1. ASSUME NEW d \in Conns, NEW u \in Users, handleConnect(d, u), d # c
        PROVE  conn'[c].user = conn[c].user
    BY <1>1, <2>1, ConnectMove DEF Becomes
  <2>2. ASSUME NEW d \in Conns, cleanup(d)
        PROVE  conn'[c].user = conn[c].user
    BY <1>1, <2>2, EndMoves DEF Turns, Becomes
  <2> QED
    BY <2>1, <2>2, SessionSteps DEF Steady, handleConnect, Unbound
<1>5. ASSUME view'[c] \subseteq view[c]
      PROVE  \E u : u = conn'[c].user /\ view'[c] \subseteq MutualContactIDs(u)'
  <2>1. CASE conn'[c].user = conn[c].user
    BY <1>2, <1>3, <1>5, <2>1
  <2>2. CASE conn[c].user = NoUser
    BY <1>3, <1>5, <2>2, NobodysContacts
  <2> QED
    BY <1>4, <2>1, <2>2
<1>6. ASSUME NEW d \in Conns, writeMessage(d)
      PROVE  \E u : u = conn'[c].user /\ view'[c] \subseteq MutualContactIDs(u)'
  <2> DEFINE env == Head(ch[conn[d].gen].queue)
  <2>1. conn' = conn /\ conn[d].gen \in Gens /\ conn[d].user # NoUser
    BY <1>6, BoundTyping DEF writeMessage
  <2>2. Proper(conn[d].user, env)
    <3>1. ch[conn[d].gen].queue \in Seq(Envelope) /\ ch[conn[d].gen].queue # <<>>
      BY <1>1, <1>6, <2>1 DEF SessionTypeOK, Channel, writeMessage
    <3>2. 1 \in DOMAIN ch[conn[d].gen].queue /\ env = ch[conn[d].gen].queue[1]
      BY <3>1
    <3> QED
      BY <2>1, <3>2 DEF PresenceInv, ChannelsProper
  <2>3. view' = view \/ clientReceives(d, env)
    BY <1>6 DEF writeMessage
  <2>4. /\ env.type = "presence" => env.user_id \in Users
        /\ view \in [Conns -> SUBSET Users]
    <3>1. env \in Envelope
      BY <1>1, <1>6, <2>1, ReceiveTyping DEF writeMessage
    <3> QED
      BY <1>1, <3>1 DEF Envelope, TypeOK
  <2> HIDE DEF env
  <2>5. view'[c] \subseteq MutualContactIDs(conn[c].user)
    <3>1. CASE view'[c] = view[c]
      BY <1>3, <3>1
    <3>2. CASE d = c /\ clientReceives(d, env)
      <4>1. env.type = "presence" => env.user_id \in MutualContactIDs(conn[c].user)
        BY <2>2, <2>4, <3>2 DEF Proper, MutualContactIDs
      <4>2. env.type = "presence_snapshot" => env.up \subseteq MutualContactIDs(conn[c].user)
        BY <2>2, <3>2 DEF Proper
      <4> QED
        BY <1>3, <2>4, <3>2, <4>1, <4>2 DEF clientReceives
    <3>3. d # c => view'[c] = view[c]
      BY <2>3, <2>4 DEF clientReceives
    <3> QED
      BY <2>3, <3>1, <3>2, <3>3
  <2> QED
    BY <1>2, <2>1, <2>5
<1>7. ASSUME NEW d \in Conns, lookupWatchers(d) \/ cleanup(d) \/ readFails(d)
                                \/ \E w \in Users : announce(d, w)
      PROVE  view'[c] \subseteq view[c]
  <2>1. Gone(d) \/ Announced(d) \/ UNCHANGED <<socket, view>>
    BY <1>7 DEF lookupWatchers, cleanup, readFails, announce
  <2> QED
    BY <1>1, <2>1, AnnouncedTyping
<1>8. ASSUME NEW d \in Conns,
             \/ \E u \in Users : handleConnect(d, u)
             \/ \E m \in Frames : handleSendMessage(d, m)
             \/ checkOnline(d) \/ enqueue(d) \/ storeOffline(d)
             \/ writerEnds(d) \/ socketFails(d)
      PROVE  view'[c] \subseteq view[c]
  BY <1>8 DEF handleConnect, handleSendMessage, checkOnline, enqueue, storeOffline,
     writerEnds, socketFails, clientVars
<1>9. ASSUME Requests \/ Ticker \/ UNCHANGED vars
               \/ \E s \in Users, id \in MsgIds : replayAges(s, id)
      PROVE  view'[c] \subseteq view[c]
  BY <1>9 DEF Requests, Ticker, HandleAddContact, notifyContact, FetchAndClearOfflineMsgs,
     replayAges, tick, pushPresenceSnapshot, skipPresenceSnapshot, vars, clientVars
<1> QED
  BY <1>5, <1>6, <1>7, <1>8, <1>9 DEF Next, Frame, Handler, Writer

\* The presence of a user reaches only mutual contacts, whatever connects,
\* leaves and is added in between: in the channels of all sessions, in the
\* announcements under way and in what the clients see.
THEOREM PresenceToMutualContacts == Spec => []PresenceOnlyMutual
<1>1. Init => PresenceInv
  <2> SUFFICES ASSUME Init PROVE PresenceInv
    OBVIOUS
  <2> QED
    BY DEF Init, PresenceInv, ChannelsProper, WatchersProper, ViewsProper
<1>2. TypeInv /\ SessionInv /\ PresenceInv /\ [Next]_vars => PresenceInv'
  BY NextChannelsProper, NextWatchersProper, NextViewsProper DEF PresenceInv
<1>3. TypeInv /\ SessionInv /\ PresenceInv => PresenceOnlyMutual
  <2> SUFFICES ASSUME TypeInv, SessionInv, PresenceInv PROVE PresenceOnlyMutual
    OBVIOUS
  <2>1. ASSUME NEW u \in Users, IsOnline(u), NEW i \in DOMAIN ch[users[u]].queue
        PROVE  Proper(u, ch[users[u]].queue[i])
    <3>1. PICK c \in Conns : conn[c].user = u /\ conn[c].gen = users[u]
      BY <2>1 DEF SessionInv, SessionOfNewest, IsNewest
    <3> QED
      BY <2>1, <3>1, NoUserAssumption DEF PresenceInv, ChannelsProper
  <2>2. \A c \in Conns : view[c] \subseteq MutualContactIDs(conn[c].user)
    BY DEF PresenceInv, ViewsProper
  <2> QED
    BY <2>1, <2>2 DEF PresenceOnlyMutual, Proper
<1> QED
  BY InitTypeInv, NextTypeInv, InitSessionInv, NextSessionInv, <1>1, <1>2, <1>3, PTL DEF Spec
=============================================================================

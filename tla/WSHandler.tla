------------------------------ MODULE WSHandler -------------------------------
(***************************************************************************)
(* The WebSocket side of the server (handler/ws.go) over the session       *)
(* manager: connections, direct messages with their offline fallback, and  *)
(* presence; with the HTTP requests that touch the same state (add_contact *)
(* and get_offline_msg).                                                   *)
(*                                                                         *)
(* A connection runs two goroutines.  Its read loop handles one frame at a *)
(* time, and a handler is a series of store calls and session calls, each  *)
(* atomic; the deferred cleanup of the loop runs the same way.  Its writer *)
(* drains the channel that connect got from SetOnline.  The presence       *)
(* ticker is one more goroutine.  All of them interleave between calls.    *)
(*                                                                         *)
(* A connect frame is taken once its token is verified, a send_message     *)
(* frame once it is decoded and its signature verified: what is rejected   *)
(* before that changes nothing.  Any store call may fail.                  *)
(***************************************************************************)
EXTENDS Session, FiniteSets

CONSTANTS
  Conns,                     \* the sockets that are upgraded in a run
  Logins,                    \* which socket presents a valid token of which user
  Frames,                    \* the messages clients send
  Faults,                    \* bound: Faults[c], which of reads and writes may fail on c
  Ticking,                   \* whether the presence ticker fires in a run
  NoUser, NoMessage,
  FirstContacts,             \* what the contacts table may hold at the start, as pairs
  MaxOfflineMessagesPerUser,
  replayMax,                 \* senders the replay cache holds before it is swept
  replayMaxPerUser,          \* message ids it holds for one sender
  MaxSends,                  \* bound: send_message frames in a run
  Adds                       \* bound: the add_contact requests of a run, as pairs

ASSUME NoUserAssumption == NoUser \notin Users
ASSUME LoginsAssumption == Logins \subseteq Conns \X Users
ASSUME FramesAssumption == Frames \subseteq Message
ASSUME FaultsAssumption == Faults \in [Conns -> SUBSET {"read", "write"}]
ASSUME TickingAssumption == Ticking \in BOOLEAN
ASSUME NoMessageAssumption == NoMessage \notin Message
ASSUME FirstContactsAssumption == FirstContacts \subseteq SUBSET (Users \X Users)
ASSUME AddsAssumption == Adds \subseteq Users \X Users
ASSUME LimitsAssumption ==
  /\ {MaxOfflineMessagesPerUser, replayMax, replayMaxPerUser} \subseteq Nat \ {0}
  /\ MaxSends \in Nat

VARIABLES
  conn,      \* conn[c] is the read loop of connection c, see Loop
  writer,    \* writer[c] is its writer goroutine
  socket,    \* socket[c]: "up"; "mute", when a write timed out; or "down"
  contacts,  \* the contacts table, pairs of user_id and contact_id
  adds,      \* the add_contact requests still to come
  notices,   \* add_contact requests that have yet to notify the contact
  offline,   \* offline[u] is the offline queue of u, oldest first
  replay,    \* replay[u] is the set of msg_ids remembered for sender u
  aged,      \* the entries of replay older than replayWindow
  ticker,    \* the snapshot tick under way: the online set it took, and whom it has yet to serve
  sends,     \* send_message frames so far
  view,      \* what the client of connection c believes to be online
  arrived,   \* how often a message was handed to its recipient
  lost,      \* messages whose write failed
  acks       \* the answers senders got, by message

contactVars == <<contacts, adds, notices>>
clientVars == <<view, arrived, lost>>
vars == <<sessionVars, conn, writer, socket, contactVars, offline, replay,
          aged, ticker, sends, clientVars, acks>>

\* pc is "read" between frames; "lookup" and "announce" inside
\* broadcastPresence; "route", "enqueue" and "store" inside
\* handleSendMessage; "cleanup" at the deferred function; "gone" after it.
\* closing says that broadcastPresence was called from the cleanup.
Loop ==
  [pc : {"read", "lookup", "announce", "route", "enqueue", "store", "cleanup", "gone"},
   user : Users \cup {NoUser}, gen : Gens \cup {NoGen}, closing : BOOLEAN,
   watchers : SUBSET Users, msg : Message \cup {NoMessage}]

Answers == {"delivered", "queued", "full", "failed", "duplicate"}

TypeOK ==
  /\ SessionTypeOK
  /\ conn \in [Conns -> Loop]
  /\ writer \in [Conns -> {"none", "running", "stopped"}]
  /\ socket \in [Conns -> {"up", "mute", "down"}]
  /\ contacts \subseteq Users \X Users
  /\ adds \subseteq Adds
  /\ notices \subseteq Users \X Users
  /\ offline \in [Users -> Seq(Message)]
  /\ replay \in [Users -> SUBSET MsgIds]
  /\ aged \subseteq Users \X MsgIds
  /\ ticker \in [online : SUBSET Users, todo : SUBSET Users]
  /\ sends \in 0..MaxSends
  /\ view \in [Conns -> SUBSET Users]
  /\ arrived \in [Frames -> Nat]
  /\ lost \subseteq Message
  /\ acks \in [Frames -> SUBSET Answers]

Init ==
  /\ SessionInit
  /\ conn = [c \in Conns |-> [pc |-> "read", user |-> NoUser, gen |-> NoGen,
                              closing |-> FALSE, watchers |-> {}, msg |-> NoMessage]]
  /\ writer = [c \in Conns |-> "none"]
  /\ socket = [c \in Conns |-> "up"]
  /\ contacts \in FirstContacts
  /\ adds = Adds
  /\ notices = {}
  /\ offline = [u \in Users |-> <<>>]
  /\ replay = [u \in Users |-> {}]
  /\ aged = {}
  /\ ticker = [online |-> {}, todo |-> {}]
  /\ sends = 0
  /\ view = [c \in Conns |-> {}]
  /\ arrived = [m \in Frames |-> 0]
  /\ lost = {}
  /\ acks = [m \in Frames |-> {}]

-----------------------------------------------------------------------------
(* Contacts (store/store.go, handler/http_add_contact.go). *)

GetContacts(u) == {w \in Users : <<u, w>> \in contacts}
ContactsOf(u) == {w \in Users : <<w, u>> \in contacts}
IsMutualContact(u, w) == <<u, w>> \in contacts /\ <<w, u>> \in contacts
MutualContactIDs(u) == {w \in Users : IsMutualContact(u, w)}

\* Mutant: everyone who added the user learns about them.
filterNothing(u, candidates) == candidates

filterMutualContacts(u, candidates) == candidates \cap MutualContactIDs(u)

\* The insert ignores a row that is there; the contact is notified again.
HandleAddContact(u, w) ==
  /\ <<u, w>> \in adds
  /\ u # w
  /\ adds' = adds \ {<<u, w>>}
  /\ contacts' = contacts \cup {<<u, w>>}
  /\ notices' = notices \cup {<<u, w>>}
  /\ UNCHANGED <<sessionVars, conn, writer, socket, offline, replay, aged, ticker,
                 sends, clientVars, acks>>

\* The contact_notify that ends an add_contact request.
notifyContact(u, w) ==
  /\ <<u, w>> \in notices
  /\ notices' = notices \ {<<u, w>>}
  /\ EnqueueMessage(w, [type |-> "contact_notify", from |-> u])
  /\ UNCHANGED <<conn, writer, socket, contacts, adds, offline, replay, aged, ticker,
                 sends, clientVars, acks>>

-----------------------------------------------------------------------------
(* Connections. *)

\* A connection binds to one user, once.
Unbound(c) == conn[c].user = NoUser

handleConnect(c, u) ==
  /\ conn[c].pc = "read"
  /\ Unbound(c)
  /\ <<c, u>> \in Logins
  /\ SetOnline(u)
  /\ conn' = [conn EXCEPT ![c].user = u, ![c].gen = sequence + 1, ![c].pc = "lookup"]
  /\ writer' = [writer EXCEPT ![c] = "running"]
  /\ UNCHANGED <<socket, contactVars, offline, replay, aged, ticker, sends,
                 clientVars, acks>>

\* The deferred cleanup ends with conn.Close; the client's view ends with it.
Gone(c) ==
  /\ conn' = [conn EXCEPT ![c].pc = "gone", ![c].watchers = {}]
  /\ socket' = [socket EXCEPT ![c] = "down"]
  /\ view' = [view EXCEPT ![c] = {}]

\* broadcastPresence returns to connect or to the cleanup.
Announced(c) ==
  IF conn[c].closing THEN Gone(c)
  ELSE /\ conn' = [conn EXCEPT ![c].pc = "read", ![c].watchers = {}]
       /\ UNCHANGED <<socket, view>>

\* The first half of broadcastPresence: whom to tell.  If a query fails, or
\* nobody is to be told, it returns.  ContactsOf and filterMutualContacts are
\* one step, since contacts are only added.
lookupWatchers(c) ==
  /\ conn[c].pc = "lookup"
  /\ LET watchers == filterMutualContacts(conn[c].user, ContactsOf(conn[c].user))
     IN  \/ Announced(c)
         \/ /\ watchers # {}
            /\ conn' = [conn EXCEPT ![c].pc = "announce", ![c].watchers = watchers]
            /\ UNCHANGED <<socket, view>>
  /\ UNCHANGED <<sessionVars, writer, contactVars, offline, replay, aged, ticker,
                 sends, arrived, lost, acks>>

\* One turn of its loop over the watchers.
announce(c, w) ==
  /\ conn[c].pc = "announce"
  /\ w \in conn[c].watchers
  /\ EnqueueMessage(w, [type |-> "presence", user_id |-> conn[c].user,
                        online |-> ~conn[c].closing])
  /\ IF conn[c].watchers = {w} THEN Announced(c)
     ELSE /\ conn' = [conn EXCEPT ![c].watchers = @ \ {w}]
          /\ UNCHANGED <<socket, view>>
  /\ UNCHANGED <<writer, contactVars, offline, replay, aged, ticker, sends,
                 arrived, lost, acks>>

\* ReadMessage fails: the peer is gone, or was idle for the read timeout.
readFails(c) ==
  /\ conn[c].pc = "read"
  /\ socket[c] = "down" \/ "read" \in Faults[c]
  /\ IF conn[c].user = NoUser THEN Gone(c)
     ELSE /\ conn' = [conn EXCEPT ![c].pc = "cleanup"]
          /\ UNCHANGED <<socket, view>>
  /\ UNCHANGED <<sessionVars, writer, contactVars, offline, replay, aged, ticker,
                 sends, arrived, lost, acks>>

\* Only the connection that really took the user offline says so.
cleanup(c) ==
  /\ conn[c].pc = "cleanup"
  /\ SetOffline(conn[c].user, conn[c].gen)
  /\ IF Holds(conn[c].user, conn[c].gen)
     THEN /\ conn' = [conn EXCEPT ![c].pc = "lookup", ![c].closing = TRUE]
          /\ UNCHANGED <<socket, view>>
     ELSE Gone(c)
  /\ UNCHANGED <<writer, contactVars, offline, replay, aged, ticker, sends,
                 arrived, lost, acks>>

\* The network: a write may time out while reads still work, and the peer
\* may go away (CloseAll has the same effect).
socketFails(c) ==
  /\ "write" \in Faults[c]
  /\ socket[c] = "up"
  /\ conn[c].pc # "gone"
  /\ socket' \in {[socket EXCEPT ![c] = "mute"], [socket EXCEPT ![c] = "down"]}
  /\ UNCHANGED <<sessionVars, conn, writer, contactVars, offline, replay, aged,
                 ticker, sends, clientVars, acks>>

-----------------------------------------------------------------------------
(* The writer goroutine of a connection, and the client behind it. *)

\* What the client of c does with an envelope: a presence update changes one
\* entry of its view, a snapshot every entry it lists.
clientReceives(c, env) ==
  /\ view' = [view EXCEPT ![c] =
                CASE env.type = "presence" ->
                       IF env.online THEN @ \cup {env.user_id} ELSE @ \ {env.user_id}
                  [] env.type = "presence_snapshot" -> (@ \ env.contacts) \cup env.up
                  [] OTHER -> @]
  /\ arrived' = IF env.type = "new_message"
                THEN [arrived EXCEPT ![env.msg] = @ + 1] ELSE arrived

\* A write to a peer that is gone may fail or vanish; after a timeout every
\* write fails.  The goroutine ends with the first error.
writeMessage(c) ==
  /\ writer[c] = "running"
  /\ LET g == conn[c].gen
         env == Head(ch[g].queue)
     IN  /\ ch[g].queue # <<>>
         /\ Receive(g)
         /\ \/ /\ socket[c] = "up"
               /\ clientReceives(c, env)
               /\ UNCHANGED <<writer, lost>>
            \/ /\ socket[c] # "up"
               /\ writer' \in {[writer EXCEPT ![c] = "stopped"]}
                    \cup (IF socket[c] = "down" THEN {writer} ELSE {})
               /\ lost' = IF env.type = "new_message" THEN lost \cup {env.msg} ELSE lost
               /\ UNCHANGED <<view, arrived>>
  /\ UNCHANGED <<conn, socket, contactVars, offline, replay, aged, ticker, sends, acks>>

\* The writer ends when its channel is closed and drained, or a ping fails.
writerEnds(c) ==
  /\ writer[c] = "running"
  /\ \/ ~ch[conn[c].gen].open /\ ch[conn[c].gen].queue = <<>>
     \/ socket[c] # "up"
  /\ writer' = [writer EXCEPT ![c] = "stopped"]
  /\ UNCHANGED <<sessionVars, conn, socket, contactVars, offline, replay, aged,
                 ticker, sends, clientVars, acks>>

-----------------------------------------------------------------------------
(* Direct messages. *)

\* What isReplay leaves in the cache when s asks about an id: at replayMax
\* senders every expired entry goes; a sender at replayMaxPerUser loses its
\* expired entries and, if that is not enough, one entry at random.
SweptCache ==
  IF Cardinality({s \in Users : replay[s] # {}}) >= replayMax
  THEN [s \in Users |-> {id \in replay[s] : <<s, id>> \notin aged}]
  ELSE replay

Remembered(s) ==
  LET mine  == SweptCache[s]
      young == IF Cardinality(mine) >= replayMaxPerUser
               THEN {id \in mine : <<s, id>> \notin aged} ELSE mine
  IN  IF Cardinality(young) >= replayMaxPerUser
      THEN {young \ {id} : id \in young} ELSE {young}

\* dup is the result.  An id that is not remembered is entered.
isReplay(s, id, dup) ==
  \E kept \in Remembered(s) :
    /\ dup <=> id \in kept
    /\ replay' = [SweptCache EXCEPT ![s] = kept \cup {id}]
    /\ aged' = {e \in aged : e[2] \in replay'[e[1]] /\ (e = <<s, id>> => dup)}

\* replayWindow passes for an entry.
replayAges(s, id) ==
  /\ id \in replay[s] /\ <<s, id>> \notin aged
  /\ aged' = aged \cup {<<s, id>>}
  /\ UNCHANGED <<sessionVars, conn, writer, socket, contactVars, offline, replay,
                 ticker, sends, clientVars, acks>>

Ack(m, answer) == acks' = [acks EXCEPT ![m] = @ \cup {answer}]

\* The mutual check and the replay check.  Contacts are never removed, so a
\* pair that is mutual stays so.
handleSendMessage(c, m) ==
  /\ conn[c].pc = "read"
  /\ ~Unbound(c) /\ m.from = conn[c].user
  /\ m.to # m.from
  /\ IsMutualContact(m.from, m.to)
  /\ sends < MaxSends
  /\ sends' = sends + 1
  /\ \/ /\ isReplay(m.from, m.msg_id, TRUE)
        /\ Ack(m, "duplicate")
        /\ UNCHANGED conn
     \/ /\ isReplay(m.from, m.msg_id, FALSE)
        /\ conn' = [conn EXCEPT ![c].pc = "route", ![c].msg = m]
        /\ UNCHANGED acks
  /\ UNCHANGED <<sessionVars, writer, socket, contactVars, offline, ticker, clientVars>>

\* The handler is done with its message.
Answered(c, answer) ==
  /\ conn' = [conn EXCEPT ![c].pc = "read", ![c].msg = NoMessage]
  /\ Ack(conn[c].msg, answer)

checkOnline(c) ==
  /\ conn[c].pc = "route"
  /\ conn' = [conn EXCEPT ![c].pc = IF IsOnline(conn[c].msg.to) THEN "enqueue" ELSE "store"]
  /\ UNCHANGED <<sessionVars, writer, socket, contactVars, offline, replay, aged,
                 ticker, sends, clientVars, acks>>

\* Mutant: the handler goes on to the offline queue whatever was enqueued.
enqueueAndStore(c) ==
  /\ conn[c].pc = "enqueue"
  /\ EnqueueMessage(conn[c].msg.to, [type |-> "new_message", msg |-> conn[c].msg])
  /\ conn' = [conn EXCEPT ![c].pc = "store"]
  /\ UNCHANGED <<writer, socket, contactVars, offline, replay, aged, ticker, sends,
                 clientVars, acks>>

\* Mutant: a message that does not fit is reported delivered all the same.
enqueueOrDrop(c) ==
  /\ conn[c].pc = "enqueue"
  /\ EnqueueMessage(conn[c].msg.to, [type |-> "new_message", msg |-> conn[c].msg])
  /\ Answered(c, "delivered")
  /\ UNCHANGED <<writer, socket, contactVars, offline, replay, aged, ticker, sends,
                 clientVars>>

\* A full channel, or a user who left since the check, means the offline queue.
enqueue(c) ==
  /\ conn[c].pc = "enqueue"
  /\ EnqueueMessage(conn[c].msg.to, [type |-> "new_message", msg |-> conn[c].msg])
  /\ IF Enqueues(conn[c].msg.to) THEN Answered(c, "delivered")
     ELSE conn' = [conn EXCEPT ![c].pc = "store"] /\ UNCHANGED acks
  /\ UNCHANGED <<writer, socket, contactVars, offline, replay, aged, ticker, sends,
                 clientVars>>

\* Mutant: a full queue drops its oldest message to take the new one.
PushOfflineMsgRing(u, m) ==
  offline' = [offline EXCEPT ![u] =
                Append(IF Len(@) >= MaxOfflineMessagesPerUser THEN Tail(@) ELSE @, m)]

\* Mutant: the envelope is stored in place of the message.
PushOfflineEnvelope(u, m) ==
  offline' = [offline EXCEPT ![u] = Append(@, [type |-> "new_message", msg |-> m])]

\* A transaction: counts the rows of u and adds one.
PushOfflineMsg(u, m) ==
  /\ Len(offline[u]) < MaxOfflineMessagesPerUser
  /\ offline' = [offline EXCEPT ![u] = Append(@, m)]

storeOffline(c) ==
  /\ conn[c].pc = "store"
  /\ LET m == conn[c].msg
     IN  \/ PushOfflineMsg(m.to, m) /\ Answered(c, "queued")
         \/ /\ Len(offline[m.to]) >= MaxOfflineMessagesPerUser
            /\ Answered(c, "full") /\ UNCHANGED offline
         \/ Answered(c, "failed") /\ UNCHANGED offline
  /\ UNCHANGED <<sessionVars, writer, socket, contactVars, replay, aged, ticker,
                 sends, clientVars>>

\* get_offline_msg: one transaction reads the queue and clears it.
FetchAndClearOfflineMsgs(u) ==
  /\ offline[u] # <<>>
  /\ offline' = [offline EXCEPT ![u] = <<>>]
  /\ arrived' = [m \in Frames |->
                   arrived[m] + Cardinality({i \in DOMAIN offline[u] : offline[u][i] = m})]
  /\ UNCHANGED <<sessionVars, conn, writer, socket, contactVars, replay, aged, ticker,
                 sends, view, lost, acks>>

-----------------------------------------------------------------------------
(* The presence ticker. *)

\* A tick starts with a copy of the online set; the next one waits for it.
tick ==
  /\ Ticking
  /\ ticker.todo = {}
  /\ OnlineSet # {}
  /\ ticker' = [online |-> OnlineSet, todo |-> OnlineSet]
  /\ UNCHANGED <<sessionVars, conn, writer, socket, contactVars, offline, replay,
                 aged, sends, clientVars, acks>>

\* Mutant: the snapshot lists the contacts that are online and no others.
SnapshotOnlineOnly(u) ==
  LET up == {w \in GetContacts(u) : w \in ticker.online /\ w \in MutualContactIDs(u)}
  IN  [type |-> "presence_snapshot", contacts |-> up, up |-> up]

\* Mutant: the snapshot shows every contact that is online.
SnapshotFollowed(u) ==
  [type |-> "presence_snapshot", contacts |-> GetContacts(u),
   up |-> GetContacts(u) \cap ticker.online]

\* All contacts of the user, those that are not mutual as offline.
Snapshot(u) ==
  [type |-> "presence_snapshot", contacts |-> GetContacts(u),
   up |-> {w \in GetContacts(u) : w \in ticker.online /\ w \in MutualContactIDs(u)}]

\* The copy is forgotten when everyone is served.
Served(u) ==
  ticker' = [online |-> IF ticker.todo = {u} THEN {} ELSE ticker.online,
             todo |-> ticker.todo \ {u}]

\* The two queries of the contacts are one step: contacts are only added, so
\* what the first of them found still holds at the second.
pushPresenceSnapshot(u) ==
  /\ u \in ticker.todo
  /\ Served(u)
  /\ IF GetContacts(u) = {} THEN UNCHANGED sessionVars ELSE EnqueueMessage(u, Snapshot(u))
  /\ UNCHANGED <<conn, writer, socket, contactVars, offline, replay, aged, sends,
                 clientVars, acks>>

\* A query failed: the user is passed over.
skipPresenceSnapshot(u) ==
  /\ u \in ticker.todo
  /\ Served(u)
  /\ UNCHANGED <<sessionVars, conn, writer, socket, contactVars, offline, replay,
                 aged, sends, clientVars, acks>>
-----------------------------------------------------------------------------
\* The steps a read loop takes by itself once it has a frame, or the read failed.
Handler(c) ==
  \/ lookupWatchers(c)
  \/ \E w \in Users : announce(c, w)
  \/ cleanup(c)
  \/ checkOnline(c)
  \/ enqueue(c)
  \/ storeOffline(c)

Writer(c) == writeMessage(c) \/ writerEnds(c)

Frame(c) ==
  \/ \E u \in Users : handleConnect(c, u)
  \/ \E m \in Frames : handleSendMessage(c, m)

Requests ==
  \/ \E u, w \in Users : HandleAddContact(u, w) \/ notifyContact(u, w)
  \/ \E u \in Users : FetchAndClearOfflineMsgs(u)

Ticker == tick \/ \E u \in Users : pushPresenceSnapshot(u) \/ skipPresenceSnapshot(u)

Next ==
  \/ \E c \in Conns : Frame(c) \/ Handler(c) \/ Writer(c) \/ readFails(c) \/ socketFails(c)
  \/ Requests
  \/ \E s \in Users, id \in MsgIds : replayAges(s, id)
  \/ Ticker

Spec == Init /\ [][Next]_vars

\* The writer goroutines and the ticker keep running, and the queries of the
\* ticker do not fail for ever for the same user.  Nothing is assumed of the
\* clients, nor of the handlers.
Fairness ==
  /\ \A c \in Conns : WF_vars(Writer(c))
  /\ WF_vars(Ticker)
  /\ \A u \in Users : SF_vars(pushPresenceSnapshot(u))

FairSpec == Spec /\ Fairness

-----------------------------------------------------------------------------
(* Sessions. *)

\* The connection's read loop has a user and has not run SetOffline.
Attached(c) == ~Unbound(c) /\ ~conn[c].closing /\ conn[c].pc # "gone"

\* The last connection that connected as u.
IsNewest(c, u) ==
  /\ conn[c].user = u
  /\ \A d \in Conns : conn[d].user = u => conn[d].gen <= conn[c].gen

\* A user's session is that of the newest connection, for as long as that
\* connection is attached: the cleanup of an older one never takes it away,
\* and no session is left behind by a connection that ended
\* (session.go, SetOnline and SetOffline; ws.go, the deferred cleanup).
SessionOfNewest ==
  \A u \in Users :
    /\ \A c \in Conns : IsNewest(c, u) /\ Attached(c) => users[u] = conn[c].gen
    /\ IsOnline(u) => \E c \in Conns : IsNewest(c, u) /\ Attached(c) /\ conn[c].gen = users[u]

\* Exactly the channels in the map are open: EnqueueMessage never sends on a
\* closed channel, and every other channel is closed so that its writer
\* goroutine ends (session.go, SetOnline, SetOffline, EnqueueMessage).
OpenChannelsAreMapped ==
  \A g \in Gens : ch[g].open <=> \E u \in Users : users[u] = g

-----------------------------------------------------------------------------
(* Direct messages. *)

InQueue(q, m) == {i \in DOMAIN q : q[i] = m}
InChannel(g, m) == InQueue(ch[g].queue, [type |-> "new_message", msg |-> m])

\* Where a message may be: handed over, in the offline queue, in a channel.
Handed(m) == arrived[m]
Buffered(m) == {g \in Gens : InChannel(g, m) # {}}

\* A message is never in two places, and never twice in one: the fall back
\* to the offline queue and a retry of the sender do not duplicate it.
\* Holds while the sender's ids fit the replay cache (ws.go,
\* handleSendMessage and isReplay).
AtMostOnce ==
  \A m \in Frames :
    /\ Cardinality(InQueue(offline[m.to], m)) + Cardinality(Buffered(m)) + Handed(m) <= 1
    /\ \A g \in Buffered(m) : Cardinality(InChannel(g, m)) = 1

\* A message acknowledged as queued offline is there until its recipient
\* fetches it (ws.go, handleSendMessage; store.go, PushOfflineMsg and
\* FetchAndClearOfflineMsgs).
QueuedIsKept ==
  \A m \in Frames :
    "queued" \in acks[m] => InQueue(offline[m.to], m) # {} \/ Handed(m) > 0

\* The server's state as the sender and the recipient of a message see it.
Stage(m) ==
  CASE Handed(m) > 0 -> "handed"
    [] Handed(m) = 0 /\ m \in lost -> "lost"
    [] Handed(m) = 0 /\ m \notin lost ->
         IF Buffered(m) # {} \/ InQueue(offline[m.to], m) # {} THEN "held" ELSE "new"

Box == INSTANCE Mailbox WITH
  Messages <- Frames,
  stage <- [m \in Frames |-> Stage(m)],
  promised <- {m \in Frames : acks[m] \cap {"delivered", "queued"} # {}}

\* The handlers, channels, writers and the offline table together implement
\* the abstract mailbox: whatever path a message takes (enqueue, the fall back
\* when a channel is full or its user left, a reconnect, get_offline_msg), it
\* is accepted once, with its answer, and leaves the server only towards the
\* recipient or by a failing write (ws.go, handleSendMessage and the writer
\* goroutine; store.go, PushOfflineMsg and FetchAndClearOfflineMsgs).
ImplementsMailbox == Box!Spec

\* A message buffered in a channel whose writer has ended.
Stranded(m) == \E c \in Conns : writer[c] = "stopped" /\ conn[c].gen \in Buffered(m)

\* A message acknowledged as delivered reaches the recipient's client unless
\* a write to the recipient's socket fails, and a reconnect of the recipient
\* does not lose it (ws.go, handleSendMessage and the writer goroutine).
DeliveredArrives ==
  \A m \in Frames :
    "delivered" \in acks[m] ~> (Handed(m) > 0 \/ m \in lost \/ Stranded(m))

\* What the answer DUPLICATE_MSG_ID says, "msg_id already processed": such a
\* message has been delivered or queued (ws.go, handleSendMessage).
DuplicateWasProcessed ==
  \A m \in Frames :
    "duplicate" \in acks[m] =>
      \/ acks[m] \cap {"delivered", "queued"} # {}
      \/ \E c \in Conns : conn[c].msg = m

-----------------------------------------------------------------------------
(* Presence. *)

\* The presence of a user is told only to mutual contacts, before, while and
\* after a contact is added back: every update and every snapshot in a
\* channel, and every client's view (ws.go, filterMutualContacts and
\* pushPresenceSnapshots).  The code decides here between two rules that its
\* comments state: ws.go:392 wants what this says; store.go:311, ws.go:384
\* and store_test.go:277 say that adding the user is enough.
PresenceOnlyMutual ==
  /\ \A u \in Users : IsOnline(u) =>
       \A i \in DOMAIN ch[users[u]].queue :
         LET env == ch[users[u]].queue[i]
         IN  /\ env.type = "presence" => IsMutualContact(u, env.user_id)
             /\ env.type = "presence_snapshot" => env.up \subseteq MutualContactIDs(u)
  /\ \A c \in Conns : view[c] # {} => view[c] \subseteq MutualContactIDs(conn[c].user)

\* The view of c is right about every contact of its user.
ViewRight(c) ==
  \A w \in GetContacts(conn[c].user) :
    w \in view[c] <=> IsOnline(w) /\ IsMutualContact(conn[c].user, w)

\* The connection holds its user's session and can be written to.
Reachable(c) ==
  /\ Attached(c) /\ users[conn[c].user] = conn[c].gen
  /\ socket[c] = "up" /\ writer[c] = "running"

\* Once sessions stop changing, every client that can be reached comes to
\* see its contacts as they are and keeps seeing them so, whatever updates
\* were dropped or overtook each other: the snapshots heal it (ws.go,
\* StartPresenceTicker).
PresenceHeals == <>[](\A c \in Conns : Reachable(c) => ViewRight(c))
=============================================================================

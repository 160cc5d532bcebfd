------------------------------- MODULE Session --------------------------------
(***************************************************************************)
(* session.Manager (session/session.go): which users are online, and the   *)
(* buffered channel through which each of them is reached.                 *)
(*                                                                         *)
(* Every method takes the manager's lock for its whole body, so each is    *)
(* one atomic step.  SetOnline makes one channel and one generation at a   *)
(* time, so a channel is named by its generation.                          *)
(***************************************************************************)
EXTENDS Naturals, Sequences

CONSTANTS
  Users,
  MsgIds,
  QueueBufferSize,  \* capacity of a channel
  MaxGen            \* bound: how many sessions a run may open

ASSUME QueueBufferSizeAssumption == QueueBufferSize \in Nat \ {0}
ASSUME MaxGenAssumption == MaxGen \in Nat

\* A direct message; msg_id is chosen by its sender.
Message == [from : Users, to : Users, msg_id : MsgIds]

\* What is queued for a user (types.WSEnvelope).  The map of a snapshot is
\* its domain and the contacts it maps to true.
Envelope ==
  [type : {"new_message"}, msg : Message]
    \cup [type : {"presence"}, user_id : Users, online : BOOLEAN]
    \cup [type : {"presence_snapshot"}, contacts : SUBSET Users, up : SUBSET Users]
    \cup [type : {"contact_notify"}, from : Users]

Gens == 1..MaxGen
NoGen == 0

VARIABLES
  users,     \* users[u] is the generation of u's entry in the map, or NoGen
  sequence,  \* the last generation handed out
  ch         \* ch[g] is the channel made with generation g

sessionVars == <<users, sequence, ch>>

Channel == [open : BOOLEAN, queue : Seq(Envelope)]

SessionTypeOK ==
  /\ users \in [Users -> Gens \cup {NoGen}]
  /\ sequence \in 0..MaxGen
  /\ ch \in [Gens -> Channel]

\* A channel that is not made yet is not open either.
SessionInit ==
  /\ users = [u \in Users |-> NoGen]
  /\ sequence = 0
  /\ ch = [g \in Gens |-> [open |-> FALSE, queue |-> <<>>]]

IsOnline(u) == users[u] # NoGen
OnlineSet == {u \in Users : IsOnline(u)}

\* Mutant: the channel of the session that is replaced stays open.
SetOnlineKeepsOld(u) ==
  /\ sequence < MaxGen
  /\ sequence' = sequence + 1
  /\ users' = [users EXCEPT ![u] = sequence + 1]
  /\ ch' = [ch EXCEPT ![sequence + 1] = [open |-> TRUE, queue |-> <<>>]]

\* A reconnect closes the old channel and replaces it.  What the old one
\* still buffers stays readable to its writer, as in any closed Go channel.
SetOnline(u) ==
  /\ sequence < MaxGen
  /\ sequence' = sequence + 1
  /\ users' = [users EXCEPT ![u] = sequence + 1]
  /\ ch' = [g \in Gens |->
              CASE g = sequence + 1 -> [open |-> TRUE, queue |-> <<>>]
                [] g = users[u]     -> [ch[g] EXCEPT !.open = FALSE]
                [] OTHER            -> ch[g]]

\* Mutant: any connection of the user takes the current session down.
HoldsAny(u, generation) == IsOnline(u)

\* The generation check of SetOffline, and its result.
Holds(u, generation) == IsOnline(u) /\ users[u] = generation

\* Closes and forgets the session, but only the caller's own.
SetOffline(u, generation) ==
  /\ IF Holds(u, generation)
     THEN /\ ch' = [ch EXCEPT ![users[u]].open = FALSE]
          /\ users' = [users EXCEPT ![u] = NoGen]
     ELSE UNCHANGED <<users, ch>>
  /\ UNCHANGED sequence

\* The result of EnqueueMessage: the user is online and the channel has room.
Enqueues(u) == IsOnline(u) /\ Len(ch[users[u]].queue) < QueueBufferSize

\* Non-blocking: a message that does not fit is dropped.
EnqueueMessage(u, env) ==
  /\ IF Enqueues(u)
     THEN ch' = [ch EXCEPT ![users[u]].queue = Append(@, env)]
     ELSE UNCHANGED ch
  /\ UNCHANGED <<users, sequence>>

\* The receive of the writer goroutine.
Receive(g) ==
  /\ ch' = [ch EXCEPT ![g].queue = Tail(@)]
  /\ UNCHANGED <<users, sequence>>
=============================================================================

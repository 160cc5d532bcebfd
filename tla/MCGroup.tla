------------------------------- MODULE MCGroup --------------------------------
(***************************************************************************)
(* Request mixes for model checking GroupServer: each run sends the        *)
(* requests of one question, from every user that can send them.           *)
(***************************************************************************)
EXTENDS GroupServer, TLC

CONSTANTS a, b, c, m1, m2, m3, t1, t2

MCUsers   == {a, b, c}
Pair      == {a, b}
OneMsg    == {m1}
Msgs      == {m1, m2}
MoreMsgs  == {m1, m2, m3}
MCThreads == {t1, t2}

\* Goroutines are alike, and every mix below treats message ids alike; those
\* of ownership treat users alike too.
QueueSymmetry == Permutations(Threads) \cup Permutations(MsgIds)
OwnerSymmetry == QueueSymmetry \cup Permutations(Users)

Blank(op, u) ==
  [op |-> op, user |-> u, other |-> NoUser, kind |-> "commit", epoch |-> 0,
   parent_epoch |-> 0, msg_id |-> NoMsg, last_seq |-> 0]

By(op, S) == {Blank(op, u) : u \in S}

Against(op, S, T) ==
  {r \in {[Blank(op, u) EXCEPT !.other = v] : u \in S, v \in T} : r.user # r.other}

Admissions(S, T, E) ==
  {[r EXCEPT !.epoch = e] : r \in Against("welcome", S, T), e \in E}

\* A commit whose epoch is its parent's or 0 is refused whatever the group
\* row says, so these are left out.
Commits(S, K, E) ==
  {r \in {[Blank("commit", u) EXCEPT !.kind = k, !.epoch = e, !.parent_epoch = p] :
            u \in S, k \in K, e \in E \ {0}, p \in E} : r.parent_epoch # r.epoch}

Posts(op, S, M, E) ==
  {[Blank(op, u) EXCEPT !.msg_id = m, !.epoch = e] : u \in S, m \in M, e \in E}

Reads(op, S, N) == {[Blank(op, u) EXCEPT !.last_seq = n] : u \in S, n \in N}

\* Who owns the group when owners hand over and leave.
HandoverRequests ==
  By("create", Users)
  \cup Admissions(Users, Users, {0})
  \cup Against("transfer", Users, Users)
  \cup By("accept", Users) \cup By("decline", Users)
  \cup Against("leave", Users, Users)

\* A handover, and then a kick.
EvictionRequests ==
  By("create", Users)
  \cup Admissions(Users, Users, {0})
  \cup Against("transfer", Users, Users)
  \cup By("accept", Users)
  \cup Against("kick", Users, Users)

\* The queue: messages, acks, retention, readers, and members who are admitted,
\* leave or are kicked on the way.
QueueRequests ==
  By("create", {a})
  \cup Admissions({a}, {b}, {0})
  \cup Posts("message", {a}, MsgIds, {0})
  \cup Reads("ack", Users, 1..MaxSeq)
  \cup Reads("list", {b}, {0})
  \cup By("leave", Users)
  \cup Against("kick", {a}, {b})
  \cup By("clear", {a})

\* Epochs: a and b race for an epoch once b owns the group, a also with a
\* commit labelled 'welcome'; b is admitted on the way and sends messages, and
\* the group is dissolved.
EpochRequests ==
  By("create", {a})
  \cup Commits({a}, {"commit"}, Epochs)
  \cup {r \in Commits({a}, {"welcome"}, Epochs) \cup Commits({b}, {"commit"}, Epochs) :
          r.epoch = r.parent_epoch + 1}
  \cup Admissions({a}, {b}, Epochs \ {0})
  \cup Posts("group_message", {b}, MsgIds, Epochs)
  \cup Against("transfer", {a}, {b}) \cup By("accept", {b})
  \cup By("dissolve", {a})
=============================================================================

----------------------------- MODULE QueueProofs ------------------------------
(***************************************************************************)
(* The message queue of a group: its rows are a gapless run that reaches   *)
(* down to the floor, acks stay within it, a listing hides no gap, and     *)
(* nothing is deleted without raising the floor.                           *)
(***************************************************************************)
EXTENDS GroupProofs

-----------------------------------------------------------------------------
(* How the queue changes *)

\* A row is added right above the highest one.
Appended ==
  /\ \E x \in GroupMessage :
       messages' = messages \cup {x} /\ x.seq = MaxGroupMessageSeq + 1
  /\ min_seq' = min_seq

\* The rows up to some seq are dropped, and the floor is raised to it.
CutTo(c) ==
  /\ messages' = {m \in messages : m.seq > c}
  /\ c <= min_seq'
  /\ min_seq <= min_seq'

\* A transaction of the store leaves the queue alone, appends or cuts.
LEMMA QueueSteps ==
  ASSUME StoreTypeOK, StoreNext
  PROVE  UNCHANGED <<messages, min_seq>> \/ Appended \/ \E c \in 0..MaxSeq : CutTo(c)
<1>1. ASSUME NEW id \in MsgIds, NEW e \in Epochs, AppendGroupMessage(id, e)
      PROVE  Appended
  <2> DEFINE x == [seq |-> MaxGroupMessageSeq + 1, msg_id |-> id, epoch |-> e]
  <2>1. messages' = messages \cup {x} /\ min_seq' = min_seq /\ x.seq = MaxGroupMessageSeq + 1
    BY <1>1 DEF AppendGroupMessage, groupRow
  <2>2. messages' \subseteq GroupMessage
    BY <1>1, AppendMessageTyping DEF StoreTypeOK
  <2> QED
    BY <2>1, <2>2 DEF Appended
<1>2. CASE ReclaimGroupMessages
  <2> DEFINE unacked == {m \in messages : m.seq > SafeSeq}
             cutoff == CapCutoff(unacked)
             F == {min_seq, SafeSeq, cutoff}
             c == IF SafeSeq > cutoff THEN SafeSeq ELSE cutoff
  <2>1. MaxSeq \in Nat
    BY BoundsAssumption
  <2>2. SafeSeq \in 0..MaxSeq /\ cutoff \in 0..MaxSeq
    BY ReclaimBounds
  <2>3. messages' = {m \in unacked : m.seq > cutoff} /\ min_seq' = Max(F)
    BY <1>2 DEF ReclaimGroupMessages
  <2> HIDE DEF cutoff
  <2>4. F \in SUBSET (0..MaxSeq) /\ F # {}
    BY <2>2 DEF StoreTypeOK
  <2>5. Max(F) \in F /\ \A y \in F : Max(F) >= y
    BY <2>1, <2>4, MaxOfNats
  <2>6. c <= min_seq' /\ min_seq <= min_seq' /\ c \in 0..MaxSeq
    BY <2>1, <2>2, <2>3, <2>5 DEF StoreTypeOK
  <2>7. messages' = {m \in messages : m.seq > c}
    <3>1. \A m \in messages : m.seq \in Nat
      BY <2>1 DEF StoreTypeOK, GroupMessage, Seqs
    <3>2. \A m \in messages : m.seq > c <=> m.seq > SafeSeq /\ m.seq > cutoff
      BY <2>1, <2>2, <3>1
    <3> QED
      BY <2>3, <3>2
  <2> QED
    BY <2>6, <2>7 DEF CutTo
<1>3. ASSUME NEW u \in Users, NEW v \in Users \cup {NoUser}, LeaveGroup(u, v)
      PROVE  UNCHANGED <<messages, min_seq>>
  BY <1>3 DEF LeaveGroup, LeaveNotMember, LeaveLastOwner, LeaveOwner, LeaveMember, storeVars,
              groupRow
<1>4. ASSUME NEW u \in Users, NEW accept \in BOOLEAN, DecideOwnerTransfer(u, accept)
      PROVE  UNCHANGED <<messages, min_seq>>
  BY <1>4 DEF DecideOwnerTransfer, AcceptOwnerTransfer, DeclineOwnerTransfer, groupRow
<1> QED
  BY <1>1, <1>2, <1>3, <1>4
     DEF StoreNext, KickFreeNext, CreateGroup, RemoveGroupMember, CreateOwnerTransfer,
         AppendWelcome, UpsertGroupCursor, DissolveGroup, ClearPendingRemovals,
         AppendGroupCommit, groupRow

-----------------------------------------------------------------------------
(* No gaps *)

\* Nothing is missing between the floor and a queued row.
NoGapAboveFloor ==
  \A m \in messages : \A s \in Seqs :
    min_seq < s /\ s <= m.seq => \E k \in messages : k.seq = s

\* The inductive invariant of the queue.
QueueInv == QueueGapless /\ NoGapAboveFloor

\* Appending and cutting keep the queue a gapless run down to the floor.
LEMMA QueueStepKeepsRun ==
  ASSUME StoreTypeOK, StoreTypeOK', QueueInv,
         UNCHANGED <<messages, min_seq>> \/ Appended \/ \E c \in 0..MaxSeq : CutTo(c)
  PROVE  QueueInv'
<1>1. MaxSeq \in Nat /\ min_seq \in Nat /\ min_seq' \in Nat
  BY BoundsAssumption DEF StoreTypeOK
<1>2. /\ \A m \in messages : m.seq \in Nat \ {0}
      /\ \A m \in messages' : m.seq \in Nat \ {0}
  BY <1>1 DEF StoreTypeOK, GroupMessage, Seqs
<1>3. CASE UNCHANGED <<messages, min_seq>>
  BY <1>3 DEF QueueInv, QueueGapless, NoGapAboveFloor
<1>4. CASE Appended
  <2> DEFINE top == MaxGroupMessageSeq
  <2>1. PICK x \in GroupMessage : messages' = messages \cup {x} /\ x.seq = top + 1
    BY <1>4 DEF Appended
  <2>2. /\ top \in Nat
        /\ \A m \in messages : m.seq <= top
        /\ top > 0 => \E m \in messages : m.seq = top
    BY <1>1, MaxGroupMessageSeqIsMax DEF StoreTypeOK
  <2> HIDE DEF top
  <2>3. \A m, n \in messages' : m.seq = n.seq => m = n
    BY <1>2, <2>1, <2>2 DEF QueueInv, QueueGapless
  <2>4. ASSUME NEW m \in messages', NEW n \in messages', NEW s \in m.seq..n.seq
        PROVE  \E k \in messages' : k.seq = s
    <3>1. CASE s = top + 1
      BY <2>1, <3>1
    <3>2. CASE s # top + 1
      <4>1. m \in messages /\ s <= top /\ m.seq <= top
        BY <1>2, <2>1, <2>2, <3>2
      <4>2. PICK h \in messages : h.seq = top
        BY <1>2, <2>2, <4>1
      <4>3. s \in m.seq..h.seq
        BY <1>2, <2>2, <4>1, <4>2
      <4> QED
        BY <2>1, <4>1, <4>2, <4>3 DEF QueueInv, QueueGapless
    <3> QED
      BY <3>1, <3>2
  <2>5. ASSUME NEW m \in messages', NEW s \in Seqs, min_seq' < s, s <= m.seq
        PROVE  \E k \in messages' : k.seq = s
    <3>1. CASE s = top + 1
      BY <2>1, <3>1
    <3>2. CASE s # top + 1
      <4>1. s \in Nat \ {0} /\ s <= top
        BY <1>1, <1>2, <2>1, <2>2, <2>5, <3>2 DEF Seqs
      <4>2. PICK h \in messages : h.seq = top
        BY <2>2, <4>1
      <4>3. min_seq < s /\ s <= h.seq
        BY <1>4, <2>5, <4>1, <4>2 DEF Appended
      <4> QED
        BY <2>1, <4>2, <4>3 DEF QueueInv, NoGapAboveFloor
    <3> QED
      BY <3>1, <3>2
  <2> QED
    BY <2>3, <2>4, <2>5 DEF QueueInv, QueueGapless, NoGapAboveFloor
<1>5. ASSUME NEW c \in 0..MaxSeq, CutTo(c) PROVE QueueInv'
  <2>1. /\ messages' = {m \in messages : m.seq > c}
        /\ c \in Nat /\ c <= min_seq' /\ min_seq <= min_seq'
    BY <1>1, <1>5 DEF CutTo
  <2>2. ASSUME NEW m \in messages', NEW n \in messages', NEW s \in m.seq..n.seq
        PROVE  \E k \in messages' : k.seq = s
    <3>1. PICK k \in messages : k.seq = s
      BY <2>1 DEF QueueInv, QueueGapless
    <3> QED
      BY <1>2, <2>1, <3>1
  <2>3. ASSUME NEW m \in messages', NEW s \in Seqs, min_seq' < s, s <= m.seq
        PROVE  \E k \in messages' : k.seq = s
    <3>1. min_seq < s /\ s > c
      BY <1>1, <2>1, <2>3 DEF Seqs
    <3>2. PICK k \in messages : k.seq = s
      BY <2>1, <2>3, <3>1 DEF QueueInv, NoGapAboveFloor
    <3> QED
      BY <2>1, <3>1, <3>2
  <2>4. \A m, n \in messages' : m.seq = n.seq => m = n
    BY <2>1 DEF QueueInv, QueueGapless
  <2> QED
    BY <2>2, <2>3, <2>4 DEF QueueInv, QueueGapless, NoGapAboveFloor
<1> QED
  BY <1>3, <1>4, <1>5

\* Every step of the server keeps the queue a gapless run.
LEMMA NextQueueInv == TypeOK /\ QueueInv /\ [Next]_vars => QueueInv'
<1> SUFFICES ASSUME TypeOK, QueueInv, [Next]_vars PROVE QueueInv'
  OBVIOUS
<1>1. StoreTypeOK /\ StoreTypeOK'
  BY NextTypeOK DEF TypeOK
<1>2. CASE UNCHANGED storeVars
  BY <1>2 DEF storeVars, groupRow, QueueInv, QueueGapless, NoGapAboveFloor
<1>3. CASE StoreNext
  BY <1>1, <1>3, QueueSteps, QueueStepKeepsRun
<1> QED
  BY <1>2, <1>3, ServerStepIsStoreStep

\* The queue is empty at first.
LEMMA InitQueueInv == Init => QueueInv
BY DEF Init, StoreInit, QueueInv, QueueGapless, NoGapAboveFloor

\* Whatever is sent, acked and reclaimed, in whatever order, the queue is a
\* gapless run of seq numbers, each used by one row: AppendGroupMessage counts
\* from MAX(seq), and both deletions of ReclaimGroupMessages take a prefix.
THEOREM GaplessQueue == Spec => []QueueGapless
<1>1. QueueInv => QueueGapless
  BY DEF QueueInv
<1> QED
  BY <1>1, InitQueueInv, NextQueueInv, TypeCorrect, PTL DEF Spec

-----------------------------------------------------------------------------
(* Acks *)

\* Seq n is not beyond both the floor and the highest queued row.
InReach(n) == n <= min_seq \/ \E m \in messages : n <= m.seq

\* Goroutine t has compared an ack with the queue and is about to store it.
Acking(t) == req[t] # NoRequest /\ req[t].op = "ack" /\ pc[t] = 3

\* AckWithinQueue, with the handler's position spelled out.
AckInv ==
  /\ \A u \in Users : InReach(cursor[u])
  /\ \A t \in Threads : Acking(t) => InReach(req[t].last_seq)

\* The three steps of an ack after the group row is loaded.
LEMMA AckSteps ==
  ASSUME TypeOK, NEW t \in Threads, req[t] # NoRequest, req[t].op = "ack"
  PROVE  \/ pc[t] = 1 /\ Steps(req[t].op)[pc[t]] = "member"
         \/ pc[t] = 2 /\ Steps(req[t].op)[pc[t]] = "max_seq"
         \/ pc[t] = 3 /\ Steps(req[t].op)[pc[t]] = "act"
<1>1. Steps(req[t].op) = <<"member", "max_seq", "act">>
  BY DEF Steps, Direct
<1>2. pc[t] \in 1..MaxSteps /\ pc[t] <= Len(Steps(req[t].op))
  BY DEF TypeOK
<1> QED
  BY <1>1, <1>2 DEF MaxSteps

\* What is in reach stays in reach: rows leave the queue below the floor only.
LEMMA InReachStays ==
  ASSUME TypeOK, [Next]_vars
  PROVE  \A n \in 0..MaxSeq : InReach(n) => InReach(n)'
<1> SUFFICES ASSUME NEW n \in 0..MaxSeq, InReach(n) PROVE InReach(n)'
  OBVIOUS
<1>1. MaxSeq \in Nat /\ min_seq \in Nat /\ min_seq' \in Nat
  BY NextTypeOK, BoundsAssumption DEF TypeOK, StoreTypeOK
<1>2. \A m \in messages : m.seq \in Nat
  BY <1>1 DEF TypeOK, StoreTypeOK, GroupMessage, Seqs
<1>3. CASE UNCHANGED <<messages, min_seq>>
  BY <1>3 DEF InReach
<1>4. CASE Appended
  BY <1>4 DEF Appended, InReach
<1>5. ASSUME NEW c \in 0..MaxSeq, CutTo(c) PROVE InReach(n)'
  <2>1. CASE n <= min_seq
    BY <1>1, <1>5, <2>1 DEF CutTo, InReach
  <2>2. ASSUME NEW m \in messages, n <= m.seq PROVE InReach(n)'
    <3>1. CASE m.seq > c
      BY <1>5, <2>2, <3>1 DEF CutTo, InReach
    <3>2. CASE ~(m.seq > c)
      <4>1. n <= min_seq'
        BY <1>1, <1>2, <1>5, <2>2, <3>2 DEF CutTo
      <4> QED
        BY <4>1 DEF InReach
    <3> QED
      BY <3>1, <3>2
  <2> QED
    BY <2>1, <2>2 DEF InReach
<1> QED
  BY <1>3, <1>4, <1>5, QueueSteps, ServerStepIsStoreStep DEF TypeOK, storeVars, groupRow

\* A transaction keeps a cursor, resets it with its member's row, or stores
\* the ack that its handler has compared with the queue.
LEMMA ActCursors ==
  ASSUME TypeOK, NEW t \in Threads, Act(t), NEW u \in Users
  PROVE  \/ cursor'[u] \in {cursor[u], 0}
         \/ Acking(t) /\ cursor'[u] = req[t].last_seq
<1>1. cursor \in [Users -> 0..MaxSeq]
  BY DEF TypeOK, StoreTypeOK
<1>2. CASE ackMessages(t)
  <2>1. /\ req[t] # NoRequest /\ req[t].op = "ack"
        /\ Steps(req[t].op)[pc[t]] = "act"
        /\ UpsertGroupCursor(req[t].user, req[t].last_seq)
    BY <1>2 DEF ackMessages, Acts, At
  <2>2. Acking(t)
    BY <2>1, AckSteps DEF Acking
  <2> QED
    BY <1>1, <2>1, <2>2 DEF UpsertGroupCursor
<1>3. CASE leaveGroup(t)
  BY <1>1, <1>3 DEF leaveGroup, LeaveGroup, LeaveNotMember, LeaveLastOwner, LeaveOwner,
                    LeaveMember, DeleteMember, storeVars
<1>4. CASE kickMember(t)
  BY <1>1, <1>4 DEF kickMember, RemoveGroupMember, DeleteMember
<1>5. CASE decideOwnerTransfer(t)
  BY <1>5 DEF decideOwnerTransfer, DecideOwnerTransfer, AcceptOwnerTransfer, DeclineOwnerTransfer
<1> QED
  BY <1>2, <1>3, <1>4, <1>5
     DEF Act, createGroup, dissolveGroup, clearPendingRemovals, startOwnerTransfer, createCommit,
         createWelcome, sendMessage, handleGroupMessage, listMessages, CreateGroup,
         DissolveGroup, ClearPendingRemovals, CreateOwnerTransfer, AppendGroupCommit,
         AppendWelcome, AppendGroupMessage, storeVars

\* Only maxSeqCheck brings a goroutine to the write of an ack.
LEMMA LoadKeepsAcks ==
  ASSUME TypeOK, AckInv, NEW t \in Threads, Load(t)
  PROVE  AckInv'
<1>1. UNCHANGED <<messages, min_seq, cursor, req>> /\ Advance(t)
  BY DEF Load, groupCheck, memberCheck, ownerCheck, hasGroupRole, epochCheck,
         targetCheck, maxSeqCheck, loadActiveGroupMember, Advance, storeVars, groupRow
<1>2. ASSUME NEW u \in Threads, Acking(u)' PROVE InReach(req[u].last_seq)'
  <2>1. CASE u = t
    <3>1. req[t] # NoRequest /\ req[t].op = "ack" /\ pc'[t] = 3
      BY <1>1, <1>2, <2>1 DEF Acking
    <3>2. pc'[t] = pc[t] + 1
      BY <1>1 DEF Advance, TypeOK
    <3>3. Steps(req[t].op)[pc[t]] = "max_seq"
      BY <3>1, <3>2, AckSteps
    <3>4. maxSeqCheck(t)
      BY <3>3 DEF Load, groupCheck, memberCheck, ownerCheck, hasGroupRole, epochCheck,
                  targetCheck, At
    <3>5. req[t].last_seq <= MaxGroupMessageSeq /\ req[t].last_seq \in 0..MaxSeq
      BY <3>1, <3>4, RequestTyping DEF maxSeqCheck
    <3>6. MaxSeq \in Nat /\ min_seq \in Nat
      BY BoundsAssumption DEF TypeOK, StoreTypeOK
    <3>7. /\ MaxGroupMessageSeq \in 0..MaxSeq
          /\ MaxGroupMessageSeq > 0 => \E m \in messages : m.seq = MaxGroupMessageSeq
      BY MaxGroupMessageSeqIsMax DEF TypeOK, StoreTypeOK
    <3>8. InReach(req[t].last_seq)
      BY <3>5, <3>6, <3>7 DEF InReach
    <3> QED
      BY <1>1, <2>1, <3>8 DEF InReach
  <2>2. CASE u # t
    BY <1>1, <1>2, <2>2 DEF Acking, AckInv, InReach, Advance, TypeOK
  <2> QED
    BY <2>1, <2>2
<1> QED
  BY <1>1, <1>2 DEF AckInv, InReach

\* AckInv is inductive.
LEMMA NextAckInv == TypeOK /\ AckInv /\ [Next]_vars => AckInv'
<1> SUFFICES ASSUME TypeOK, AckInv, [Next]_vars PROVE AckInv'
  OBVIOUS
<1>1. \A n \in 0..MaxSeq : InReach(n) => InReach(n)'
  BY InReachStays
<1>2. ASSUME NEW u \in Threads, Acking(u), req'[u] = req[u] PROVE InReach(req[u].last_seq)'
  <2>1. InReach(req[u].last_seq) /\ req[u].last_seq \in 0..MaxSeq
    BY <1>2, RequestTyping DEF AckInv, Acking
  <2> QED
    BY <1>1, <1>2, <2>1 DEF InReach
<1>3. ASSUME NEW v \in Users, cursor'[v] = cursor[v] PROVE InReach(cursor[v])'
  <2>1. InReach(cursor[v]) /\ cursor[v] \in 0..MaxSeq
    BY DEF AckInv, TypeOK, StoreTypeOK
  <2> QED
    BY <1>1, <1>3, <2>1 DEF InReach
<1>4. ASSUME NEW t \in Threads, NEW r \in Requests, serve(t, r) PROVE AckInv'
  <2>1. UNCHANGED <<cursor, pc>> /\ req[t] = NoRequest /\ pc[t] = 1
    BY <1>4 DEF serve, storeVars, TypeOK
  <2>2. ASSUME NEW u \in Threads, Acking(u)' PROVE Acking(u) /\ req'[u] = req[u]
    BY <1>4, <2>1, <2>2 DEF serve, Acking, TypeOK
  <2> QED
    BY <1>2, <1>3, <2>1, <2>2 DEF AckInv
<1>5. ASSUME NEW t \in Threads, Load(t) PROVE AckInv'
  BY <1>5, LoadKeepsAcks
<1>6. ASSUME NEW t \in Threads, Finish(t), NEW u \in Threads, Acking(u)'
      PROVE  InReach(req[u].last_seq)'
  <2>1. Acking(u) /\ req'[u] = req[u]
    BY <1>6 DEF Finish, Acking, TypeOK
  <2> QED
    BY <1>2, <2>1
<1>7. ASSUME NEW t \in Threads, Act(t) PROVE AckInv'
  <2>1. Finish(t)
    BY <1>7 DEF Act, createGroup, dissolveGroup, leaveGroup, kickMember, clearPendingRemovals,
       startOwnerTransfer, decideOwnerTransfer, createCommit, createWelcome, sendMessage,
       handleGroupMessage, listMessages, ackMessages, Acts
  <2>2. ASSUME NEW v \in Users PROVE InReach(cursor[v])'
    <3>1. CASE cursor'[v] = cursor[v]
      BY <1>3, <3>1
    <3>2. CASE cursor'[v] = 0
      <4>1. min_seq' \in Nat
        BY NextTypeOK, BoundsAssumption DEF TypeOK, StoreTypeOK
      <4> QED
        BY <3>2, <4>1 DEF InReach
    <3>3. CASE Acking(t) /\ cursor'[v] = req[t].last_seq
      <4>1. InReach(req[t].last_seq) /\ req[t].last_seq \in 0..MaxSeq
        BY <3>3, RequestTyping DEF AckInv, Acking
      <4> QED
        BY <1>1, <3>3, <4>1 DEF InReach
    <3> QED
      BY <1>7, <3>1, <3>2, <3>3, ActCursors
  <2> QED
    BY <1>6, <2>1, <2>2 DEF AckInv
<1>8. ASSUME NEW t \in Threads, Reject(t) PROVE AckInv'
  <2>1. Finish(t) /\ cursor' = cursor
    BY <1>8 DEF Reject, storeVars
  <2> QED
    BY <1>3, <1>6, <2>1 DEF AckInv
<1>9. CASE Worker \/ UNCHANGED vars
  <2>1. UNCHANGED <<cursor, req, pc>>
    BY <1>9 DEF Worker, ListActiveGroupIDsPage, cleanGroupQueuePage, ReclaimGroupMessages,
                vars, storeVars, reqVars
  <2> QED
    BY <1>2, <1>3, <2>1 DEF AckInv, Acking
<1> QED
  BY <1>4, <1>5, <1>7, <1>8, <1>9 DEF Next

\* An ack, stored or about to be, is never beyond both the queue and its
\* floor: the queue may be reclaimed between MaxGroupMessageSeq and
\* UpsertGroupCursor, but only below a floor that rises with it.
THEOREM AcksWithinQueue == Spec => []AckWithinQueue
<1>1. Init => AckInv
  BY BoundsAssumption DEF Init, StoreInit, AckInv, InReach, Acking
<1>2. TypeOK /\ AckInv => AckWithinQueue
  <2> SUFFICES ASSUME TypeOK, AckInv PROVE AckWithinQueue
    OBVIOUS
  <2>1. ASSUME NEW t \in Threads, req[t].op = "ack", At(t, "act") PROVE InReach(req[t].last_seq)
    BY <2>1, AckSteps DEF At, Acking, AckInv
  <2> QED
    BY <2>1 DEF AckWithinQueue, AckInv, InReach
<1> QED
  BY <1>1, <1>2, NextAckInv, TypeCorrect, PTL DEF Spec

-----------------------------------------------------------------------------
(* Listings *)

\* The inductive invariant: the floor a handler has read is never above the
\* group's.
FloorInv == GapCoveredByFloor /\ \A t \in Threads : seen[t].min_seq <= min_seq

\* The floor never goes down.
LEMMA FloorRises ==
  ASSUME TypeOK, [Next]_vars
  PROVE  min_seq \in Nat /\ min_seq' \in Nat /\ min_seq <= min_seq'
<1>1. min_seq \in Nat /\ min_seq' \in Nat
  BY NextTypeOK, BoundsAssumption DEF TypeOK, StoreTypeOK
<1>2. UNCHANGED <<messages, min_seq>> \/ Appended \/ \E c \in 0..MaxSeq : CutTo(c)
  BY QueueSteps, ServerStepIsStoreStep DEF TypeOK, storeVars, groupRow
<1> QED
  BY <1>1, <1>2 DEF Appended, CutTo

\* A handler remembers a floor it has just read, one it read before, or 0.
LEMMA SeenFloors ==
  ASSUME TypeOK, [Next]_vars, NEW t \in Threads
  PROVE  seen'[t].min_seq \in {seen[t].min_seq, min_seq, 0}
<1>1. seen \in [Threads -> [epoch : Epochs, min_seq : 0..MaxSeq]]
  BY DEF TypeOK
<1>2. ASSUME NEW u \in Threads, loadActiveGroup(u)
      PROVE  seen'[t].min_seq \in {seen[t].min_seq, min_seq}
  BY <1>1, <1>2 DEF loadActiveGroup
<1>3. ASSUME NEW u \in Threads, Finish(u)
      PROVE  seen'[t].min_seq \in {seen[t].min_seq, 0}
  BY <1>1, <1>3 DEF Finish
<1>4. ASSUME NEW u \in Threads, NEW r \in Requests, serve(u, r)
      PROVE  loadActiveGroup(u) \/ UNCHANGED seen
  BY <1>4 DEF serve
<1>5. ASSUME NEW u \in Threads, Load(u)
      PROVE  loadActiveGroup(u) \/ UNCHANGED seen
  BY <1>5 DEF Load, groupCheck, memberCheck, ownerCheck, hasGroupRole, epochCheck,
              targetCheck, maxSeqCheck, loadActiveGroupMember
<1>6. ASSUME NEW u \in Threads, Act(u) \/ Reject(u)
      PROVE  Finish(u)
  BY <1>6 DEF Act, createGroup, dissolveGroup, leaveGroup, kickMember, clearPendingRemovals,
     startOwnerTransfer, decideOwnerTransfer, createCommit, createWelcome, sendMessage,
     handleGroupMessage, listMessages, ackMessages, Acts, Reject
<1>7. ASSUME Worker \/ UNCHANGED vars
      PROVE  UNCHANGED seen
  BY <1>7 DEF Worker, ListActiveGroupIDsPage, cleanGroupQueuePage, vars, reqVars
<1> QED
  BY <1>2, <1>3, <1>4, <1>5, <1>6, <1>7 DEF Next

\* A listing has no gap in front of its rows but one that the floor covers:
\* above the floor nothing is missing, and what it reads from is not above it.
LEMMA ListingHonest ==
  ASSUME TypeOK, QueueInv, FloorInv, NEW t \in Threads, listMessages(t)
  PROVE  GapCoveredByFloor'
<1> DEFINE last == req[t].last_seq
           base == seen[t].min_seq
           since == Max({last, base})
           rows == ListGroupMessages(since)
           S == {m.seq : m \in rows}
<1>1. MaxSeq \in Nat /\ min_seq \in Nat
  BY BoundsAssumption DEF TypeOK, StoreTypeOK
<1>2. last \in 0..MaxSeq /\ base \in 0..MaxSeq /\ base <= min_seq
  BY RequestTyping DEF TypeOK, FloorInv, listMessages, Acts, At
<1>3. since \in {last, base} /\ since >= last /\ since >= base
  BY <1>1, <1>2, MaxOfNats
<1>4. /\ listing'.since = last
      /\ listing'.first = IF rows = {} THEN 0 ELSE Min(S)
      /\ min_seq' = min_seq
  BY DEF listMessages, storeVars, groupRow
<1>5. \A m \in messages : m.seq \in Seqs
  BY DEF TypeOK, StoreTypeOK, GroupMessage
<1> HIDE DEF last, base, since
<1>6. rows = {m \in messages : m.seq > since}
  BY DEF ListGroupMessages
<1>7. CASE rows = {}
  BY <1>2, <1>4, <1>7 DEF GapCoveredByFloor
<1>8. CASE rows # {}
  <2>1. S \in SUBSET Nat /\ S # {}
    BY <1>1, <1>5, <1>6, <1>8 DEF Seqs
  <2>2. Min(S) \in S /\ \A y \in S : Min(S) <= y
    BY <2>1, MinOfNats
  <2>3. PICK m \in rows : m.seq = Min(S)
    BY <2>2
  <2>4. \A k \in rows : m.seq <= k.seq
    BY <2>2, <2>3
  <2>5. m \in messages /\ m.seq \in Nat \ {0} /\ m.seq > since
    BY <1>1, <1>5, <1>6, <2>3 DEF Seqs
  <2>6. m.seq <= last + 1 \/ m.seq <= min_seq + 1
    <3> SUFFICES ASSUME m.seq > last + 1, m.seq > min_seq + 1 PROVE FALSE
      BY <1>1, <1>2, <2>5
    <3>1. m.seq - 1 \in Seqs /\ min_seq < m.seq - 1 /\ m.seq - 1 <= m.seq
      BY <1>1, <1>5, <2>5 DEF Seqs
    <3>2. PICK k \in messages : k.seq = m.seq - 1
      BY <2>5, <3>1 DEF QueueInv, NoGapAboveFloor
    <3>3. k.seq > since
      BY <1>1, <1>2, <1>3, <2>5, <3>2
    <3>4. m.seq <= k.seq
      BY <1>6, <2>4, <3>2, <3>3
    <3> QED
      BY <2>5, <3>2, <3>4
  <2> QED
    BY <1>4, <1>8, <2>3, <2>6 DEF GapCoveredByFloor
<1> QED
  BY <1>7, <1>8

\* FloorInv is inductive over the gapless queue.
LEMMA NextFloorInv == TypeOK /\ QueueInv /\ FloorInv /\ [Next]_vars => FloorInv'
<1> SUFFICES ASSUME TypeOK, QueueInv, FloorInv, [Next]_vars PROVE FloorInv'
  OBVIOUS
<1>1. min_seq \in Nat /\ min_seq' \in Nat /\ min_seq <= min_seq'
  BY FloorRises
<1>2. ASSUME NEW t \in Threads PROVE seen'[t].min_seq <= min_seq'
  <2>1. seen'[t].min_seq \in {seen[t].min_seq, min_seq, 0}
    BY SeenFloors
  <2>2. seen[t].min_seq \in Nat /\ seen[t].min_seq <= min_seq
    BY BoundsAssumption DEF FloorInv, TypeOK
  <2> QED
    BY <1>1, <2>1, <2>2
<1>3. ASSUME NEW t \in Threads, listMessages(t) PROVE GapCoveredByFloor'
  BY <1>3, ListingHonest
<1>4. ASSUME UNCHANGED listing PROVE GapCoveredByFloor'
  <2>1. listing.first \in Nat
    BY BoundsAssumption DEF TypeOK
  <2> QED
    BY <1>1, <1>4, <2>1 DEF FloorInv, GapCoveredByFloor
<1>5. (\E t \in Threads : listMessages(t)) \/ UNCHANGED listing
  <2>1. ASSUME NEW t \in Threads, Load(t) PROVE UNCHANGED listing
    BY <2>1, LoadTyping
  <2>2. ASSUME NEW t \in Threads, Act(t), ~listMessages(t) PROVE UNCHANGED listing
    BY <2>2 DEF Act, createGroup, dissolveGroup, leaveGroup, kickMember, clearPendingRemovals,
       startOwnerTransfer, decideOwnerTransfer, createCommit, createWelcome, sendMessage,
       handleGroupMessage, ackMessages
  <2> QED
    BY <2>1, <2>2 DEF Next, serve, Reject, Worker, ListActiveGroupIDsPage, cleanGroupQueuePage,
                      vars
<1>6. GapCoveredByFloor'
  BY <1>3, <1>4, <1>5
<1> QED
  BY <1>2, <1>6 DEF FloorInv

\* A listing may carry a floor that was overtaken by a reclaim before its
\* rows were read, but the gap in front of its rows is then below the group's
\* min_seq, which the client's next listing carries.
THEOREM ListingGapsCovered == Spec => []GapCoveredByFloor
<1>1. Init => FloorInv
  BY BoundsAssumption DEF Init, StoreInit, FloorInv, GapCoveredByFloor
<1>2. FloorInv => GapCoveredByFloor
  BY DEF FloorInv
<1> QED
  BY <1>1, <1>2, InitQueueInv, NextQueueInv, NextFloorInv, TypeCorrect, PTL DEF Spec

-----------------------------------------------------------------------------
(* Deletions *)

\* A transaction of the store keeps every message or raises min_seq above it.
LEMMA StoreStepCoversDeletions ==
  ASSUME StoreTypeOK, StoreNext
  PROVE  \A m \in messages : m \in messages' \/ m.seq <= min_seq'
<1>1. CASE ReclaimGroupMessages
  BY <1>1, ReclaimEffect
<1>2. CASE messages \subseteq messages'
  BY <1>2
<1>3. ASSUME NEW id \in MsgIds, NEW e \in Epochs, AppendGroupMessage(id, e)
      PROVE  messages \subseteq messages'
  BY <1>3 DEF AppendGroupMessage
<1>4. ASSUME NEW u \in Users, NEW v \in Users \cup {NoUser}, LeaveGroup(u, v)
      PROVE  messages' = messages
  BY <1>4 DEF LeaveGroup, LeaveNotMember, LeaveLastOwner, LeaveOwner, LeaveMember, storeVars
<1>5. ASSUME NEW u \in Users, NEW accept \in BOOLEAN, DecideOwnerTransfer(u, accept)
      PROVE  messages' = messages
  BY <1>5 DEF DecideOwnerTransfer, AcceptOwnerTransfer, DeclineOwnerTransfer
<1> QED
  BY <1>1, <1>2, <1>3, <1>4, <1>5
     DEF StoreNext, KickFreeNext, CreateGroup, RemoveGroupMember, CreateOwnerTransfer, AppendWelcome,
         UpsertGroupCursor, DissolveGroup, ClearPendingRemovals, AppendGroupCommit

\* Whatever message disappears from the queue, of any length and whatever
\* its cap, the floor covers it in the same step: ReclaimGroupMessages raises
\* groups.min_seq together with both of its deletions.
THEOREM DeletionsCovered == Spec => FloorCoversDeletions
<1>1. TypeOK /\ [Next]_vars
        => [\A m \in messages : m \in messages' \/ m.seq <= min_seq']_vars
  <2> SUFFICES ASSUME TypeOK, [Next]_vars
               PROVE  (\A m \in messages : m \in messages' \/ m.seq <= min_seq') \/ vars' = vars
    OBVIOUS
  <2>1. StoreNext \/ UNCHANGED storeVars
    BY ServerStepIsStoreStep
  <2>2. CASE StoreNext
    BY <2>2, StoreStepCoversDeletions DEF TypeOK
  <2>3. CASE UNCHANGED storeVars
    BY <2>3 DEF storeVars
  <2> QED
    BY <2>1, <2>2, <2>3
<1> QED
  BY <1>1, TypeCorrect, PTL DEF Spec, FloorCoversDeletions
=============================================================================

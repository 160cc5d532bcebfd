----------------------------- MODULE GroupProofs ------------------------------
(***************************************************************************)
(* Proofs about GroupServer, for any set of users, of goroutines and of    *)
(* requests, and any caps and bounds: types, ownership, departures and     *)
(* abandoned groups.                                                       *)
(***************************************************************************)
EXTENDS GroupServer, WellFoundedInduction, TLAPS

-----------------------------------------------------------------------------
(* Extremal elements of sets of naturals *)

\* A nonempty set of naturals has a least element, the one Min chooses.
LEMMA MinOfNats ==
  ASSUME NEW S \in SUBSET Nat, S # {}
  PROVE  /\ Min(S) \in S
         /\ \A y \in S : Min(S) <= y
<1> DEFINE Less == {ss \in Nat \X Nat : ss[1] < ss[2]}
<1>1. IsWellFoundedOn(Less, Nat)
  BY NatLessThanWellFounded, Zenon DEF OpToRel
<1> HIDE DEF Less
<1>2. PICK x \in S : \A y \in S : ~(<<y, x>> \in Less)
  BY <1>1, WFMin, Zenon
<1>3. \A y \in S : x <= y
  <2> SUFFICES ASSUME NEW y \in S PROVE x <= y
    OBVIOUS
  <2>1. <<y, x>> \notin Less /\ x \in Nat /\ y \in Nat
    BY <1>2
  <2> QED
    BY <2>1 DEF Less
<1> QED
  BY <1>3 DEF Min

\* A nonempty bounded set of naturals has a greatest element, the one Max
\* chooses.
LEMMA MaxOfNats ==
  ASSUME NEW n \in Nat, NEW S \in SUBSET (0..n), S # {}
  PROVE  /\ Max(S) \in S
         /\ \A y \in S : Max(S) >= y
<1> DEFINE T == {n - y : y \in S}
<1>1. T \in SUBSET Nat /\ T # {}
  <2>1. PICK z \in S : TRUE
    OBVIOUS
  <2>2. n - z \in T
    OBVIOUS
  <2>3. \A y \in S : n - y \in Nat
    OBVIOUS
  <2> QED
    BY <2>2, <2>3
<1>2. PICK d \in T : \A y \in T : d <= y
  BY <1>1, MinOfNats
<1>3. PICK x \in S : d = n - x
  BY <1>2
<1>4. \A y \in S : x >= y
  BY <1>2, <1>3
<1> QED
  BY <1>4 DEF Max

-----------------------------------------------------------------------------
(* Typing of the store's transactions *)

\* Creating, dissolving and clearing keep the tables well typed.
LEMMA RowTyping ==
  ASSUME StoreTypeOK, NEW u \in Users,
         CreateGroup(u) \/ DissolveGroup \/ ClearPendingRemovals \/ UNCHANGED storeVars
  PROVE  StoreTypeOK'
BY DEF StoreTypeOK, CreateGroup, DissolveGroup, ClearPendingRemovals, storeVars,
       groupRow, memberTab, Roles

\* Removing a member keeps the tables well typed.
LEMMA RemoveTyping ==
  ASSUME StoreTypeOK, NEW u \in Users, RemoveGroupMember(u)
  PROVE  StoreTypeOK'
<1>1. 0 \in Epochs /\ 0 \in 0..MaxSeq
  BY BoundsAssumption DEF Epochs
<1> QED
  BY <1>1 DEF StoreTypeOK, RemoveGroupMember, DeleteMember, groupRow

\* A new transfer row is well typed.
LEMMA NewTransferTyping ==
  ASSUME NEW u \in Users, NEW v \in Users
  PROVE  NewTransfer(u, v) \in OwnerTransfer
BY DEF NewTransfer, OwnerTransfer, TransferStates

\* Leaving keeps the tables well typed.
LEMMA LeaveTyping ==
  ASSUME StoreTypeOK, NEW u \in Users, NEW v, LeaveGroup(u, v)
  PROVE  StoreTypeOK'
<1>1. 0 \in Epochs /\ 0 \in 0..MaxSeq
  BY BoundsAssumption DEF Epochs
<1>2. CASE LeaveNotMember(u)
  BY <1>2, RowTyping DEF LeaveNotMember
<1>3. CASE LeaveLastOwner(u)
  BY <1>1, <1>3 DEF StoreTypeOK, LeaveLastOwner, DeleteMember
<1>4. CASE LeaveOwner(u, v)
  <2>1. v \in Users
    BY <1>4 DEF LeaveOwner, Members
  <2>2. transfers' \in Seq(OwnerTransfer)
    BY <1>4, <2>1, NewTransferTyping DEF LeaveOwner, StoreTypeOK
  <2> QED
    BY <1>1, <1>4, <2>2 DEF StoreTypeOK, LeaveOwner, DeleteMember, groupRow
<1>5. CASE LeaveMember(u)
  BY <1>1, <1>5 DEF StoreTypeOK, LeaveMember, DeleteMember, groupRow
<1> QED
  BY <1>2, <1>3, <1>4, <1>5 DEF LeaveGroup

\* Starting a hand-over keeps the tables well typed.
LEMMA CreateTransferTyping ==
  ASSUME StoreTypeOK, NEW u \in Users, NEW v \in Users, CreateOwnerTransfer(u, v)
  PROVE  StoreTypeOK'
<1>1. transfers' \in Seq(OwnerTransfer)
  BY NewTransferTyping DEF CreateOwnerTransfer, StoreTypeOK
<1> QED
  BY <1>1 DEF StoreTypeOK, CreateOwnerTransfer, groupRow, memberTab

\* Deciding one row of group_owner_transfers keeps the others and the
\* columns that name the parties.
LEMMA DecidedRows ==
  ASSUME transfers \in Seq(OwnerTransfer), NEW i \in DOMAIN transfers,
         NEW s \in TransferStates,
         transfers' = [transfers EXCEPT ![i].state = s]
  PROVE  /\ transfers' \in Seq(OwnerTransfer)
         /\ DOMAIN transfers' = DOMAIN transfers
         /\ transfers'[i].state = s
         /\ transfers'[i].prev_owner = transfers[i].prev_owner
         /\ transfers'[i].designee = transfers[i].designee
         /\ transfers'[i].rightful = transfers[i].rightful
         /\ \A j \in DOMAIN transfers : j # i => transfers'[j] = transfers[j]
<1>1. transfers[i] \in OwnerTransfer
  OBVIOUS
<1>2. [transfers[i] EXCEPT !.state = s] \in OwnerTransfer
  BY <1>1 DEF OwnerTransfer
<1>3. transfers' = [transfers EXCEPT ![i] = [transfers[i] EXCEPT !.state = s]]
  OBVIOUS
<1> QED
  BY <1>1, <1>2, <1>3 DEF OwnerTransfer

\* Deciding a hand-over keeps the tables well typed.
LEMMA DecideTyping ==
  ASSUME StoreTypeOK, NEW u \in Users, NEW accept \in BOOLEAN,
         DecideOwnerTransfer(u, accept)
  PROVE  StoreTypeOK'
<1>1. PICK i \in DOMAIN transfers :
        AcceptOwnerTransfer(i, u) \/ DeclineOwnerTransfer(i, u)
  BY DEF DecideOwnerTransfer
<1>2. transfers[i].prev_owner \in Users
  <2>1. transfers[i] \in OwnerTransfer
    BY DEF StoreTypeOK
  <2> QED
    BY <2>1 DEF OwnerTransfer
<1>3. transfers' \in Seq(OwnerTransfer)
  BY <1>1, DecidedRows DEF StoreTypeOK, AcceptOwnerTransfer, DeclineOwnerTransfer, TransferStates
<1>4. CASE AcceptOwnerTransfer(i, u)
  BY <1>2, <1>3, <1>4 DEF StoreTypeOK, AcceptOwnerTransfer, groupRow, Roles
<1>5. CASE DeclineOwnerTransfer(i, u)
  BY <1>3, <1>5 DEF StoreTypeOK, DeclineOwnerTransfer, memberTab
<1> QED
  BY <1>1, <1>4, <1>5

\* Commits and Welcomes keep the tables well typed.
LEMMA LogTyping ==
  ASSUME StoreTypeOK, NEW u \in Users, NEW k \in {"commit", "welcome"},
         NEW e \in Epochs, NEW p,
         AppendGroupCommit(k, e, p) \/ AppendWelcome(u, e)
  PROVE  StoreTypeOK'
<1>1. LogEntry(k, e, NoUser) \in GroupMLSLogEntry /\ LogEntry("welcome", e, u) \in GroupMLSLogEntry
  BY DEF LogEntry, GroupMLSLogEntry
<1>2. mls_log' \in Seq(GroupMLSLogEntry)
  <2>1. mls_log \in Seq(GroupMLSLogEntry)
    BY DEF StoreTypeOK
  <2>2. \/ mls_log' = Append(mls_log, LogEntry(k, e, NoUser))
        \/ mls_log' = Append(mls_log, LogEntry("welcome", e, u))
    BY DEF AppendGroupCommit, AppendWelcome
  <2> QED
    BY <1>1, <2>1, <2>2
<1>3. CASE AppendGroupCommit(k, e, p)
  BY <1>2, <1>3 DEF StoreTypeOK, AppendGroupCommit, memberTab
<1>4. CASE AppendWelcome(u, e)
  BY <1>2, <1>4 DEF StoreTypeOK, AppendWelcome, groupRow, memberTab, Roles
<1> QED
  BY <1>3, <1>4

\* MAX(seq) is 0 for an empty queue and the seq of a row otherwise, which
\* no other row exceeds.
LEMMA MaxGroupMessageSeqIsMax ==
  ASSUME messages \subseteq GroupMessage
  PROVE  /\ MaxGroupMessageSeq \in 0..MaxSeq
         /\ \A m \in messages : m.seq <= MaxGroupMessageSeq
         /\ MaxGroupMessageSeq > 0 => \E m \in messages : m.seq = MaxGroupMessageSeq
<1> DEFINE S == {m.seq : m \in messages}
<1>1. MaxSeq \in Nat
  BY BoundsAssumption
<1>2. S \in SUBSET (0..MaxSeq)
  BY <1>1 DEF GroupMessage, Seqs
<1>3. CASE messages = {}
  BY <1>1, <1>3 DEF MaxGroupMessageSeq
<1>4. CASE messages # {}
  <2>1. S # {}
    BY <1>4
  <2>2. Max(S) \in S /\ \A y \in S : Max(S) >= y
    BY <1>1, <1>2, <2>1, MaxOfNats
  <2>3. MaxGroupMessageSeq = Max(S)
    BY <1>4 DEF MaxGroupMessageSeq
  <2>4. PICK m \in messages : m.seq = Max(S)
    BY <2>2
  <2>5. \A k \in messages : k.seq \in S
    OBVIOUS
  <2> HIDE DEF S
  <2> QED
    BY <1>1, <1>2, <2>2, <2>3, <2>4, <2>5
<1> QED
  BY <1>3, <1>4

\* Appending a message keeps the tables well typed.
LEMMA AppendMessageTyping ==
  ASSUME StoreTypeOK, NEW id \in MsgIds, NEW e \in Epochs, AppendGroupMessage(id, e)
  PROVE  StoreTypeOK'
<1>1. MaxGroupMessageSeq + 1 \in Seqs
  BY MaxGroupMessageSeqIsMax, BoundsAssumption DEF StoreTypeOK, AppendGroupMessage, Seqs
<1>2. messages' \subseteq GroupMessage
  BY <1>1 DEF StoreTypeOK, AppendGroupMessage, GroupMessage
<1> QED
  BY <1>2 DEF StoreTypeOK, AppendGroupMessage, groupRow, memberTab

\* An ack keeps the tables well typed.
LEMMA AckTyping ==
  ASSUME StoreTypeOK, NEW u \in Users, NEW n \in 0..MaxSeq, UpsertGroupCursor(u, n)
  PROVE  StoreTypeOK'
BY DEF StoreTypeOK, UpsertGroupCursor, groupRow, memberTab

\* What a retention pass computes is within the queue's range.
LEMMA ReclaimBounds ==
  ASSUME StoreTypeOK, NEW rows \in SUBSET messages
  PROVE  /\ SafeSeq \in 0..MaxSeq
         /\ CapCutoff(rows) \in 0..MaxSeq
<1>1. MaxSeq \in Nat
  BY BoundsAssumption
<1>2. SafeSeq \in 0..MaxSeq
  <2>1. CASE Members = {}
    BY <1>1, <2>1 DEF SafeSeq
  <2>2. CASE Members # {}
    <3> DEFINE C == {cursor[u] : u \in Members}
    <3>1. C \in SUBSET (0..MaxSeq) /\ C # {}
      BY <2>2 DEF StoreTypeOK, Members
    <3>2. SafeSeq = Min(C)
      BY <2>2 DEF SafeSeq
    <3> HIDE DEF C
    <3>3. C \in SUBSET Nat
      BY <3>1
    <3>4. Min(C) \in C
      BY <3>1, <3>3, MinOfNats
    <3> QED
      BY <3>1, <3>2, <3>4
  <2> QED
    BY <2>1, <2>2
<1>3. CapCutoff(rows) \in 0..MaxSeq
  <2> DEFINE S == {0} \cup {s \in {m.seq : m \in rows} :
                    Cardinality({m \in rows : m.seq > s}) >= GroupQueueMaxMessages}
  <2>1. \A m \in rows : m.seq \in 0..MaxSeq
    BY <1>1 DEF StoreTypeOK, GroupMessage, Seqs
  <2>2. S \in SUBSET (0..MaxSeq) /\ S # {}
    BY <1>1, <2>1
  <2>3. CapCutoff(rows) = Max(S)
    BY DEF CapCutoff
  <2> HIDE DEF S
  <2> QED
    BY <1>1, <2>2, <2>3, MaxOfNats
<1> QED
  BY <1>2, <1>3

\* A retention pass keeps the tables well typed; the rows it deletes are at
\* or below the new floor, which has not gone down.
LEMMA ReclaimEffect ==
  ASSUME StoreTypeOK, ReclaimGroupMessages
  PROVE  /\ StoreTypeOK'
         /\ messages' \subseteq messages
         /\ min_seq <= min_seq'
         /\ \A m \in messages : m \in messages' \/ m.seq <= min_seq'
<1> DEFINE unacked == {m \in messages : m.seq > SafeSeq}
           cutoff == CapCutoff(unacked)
           F == {min_seq, SafeSeq, cutoff}
<1>1. MaxSeq \in Nat
  BY BoundsAssumption
<1>2. SafeSeq \in 0..MaxSeq /\ cutoff \in 0..MaxSeq
  BY ReclaimBounds
<1>3. /\ messages' = {m \in unacked : m.seq > cutoff}
      /\ min_seq' = Max(F)
  BY DEF ReclaimGroupMessages
<1> HIDE DEF cutoff
<1>4. F \in SUBSET (0..MaxSeq) /\ F # {}
  BY <1>2 DEF StoreTypeOK
<1>5. /\ min_seq' \in 0..MaxSeq
      /\ min_seq <= min_seq' /\ SafeSeq <= min_seq' /\ cutoff <= min_seq'
  <2>1. Max(F) \in F /\ \A y \in F : Max(F) >= y
    BY <1>1, <1>4, MaxOfNats
  <2> QED
    BY <1>2, <1>3, <2>1 DEF StoreTypeOK
<1>6. \A m \in messages : m.seq \in Nat
  BY <1>1 DEF StoreTypeOK, GroupMessage, Seqs
<1>7. \A m \in messages : m \in messages' \/ m.seq <= min_seq'
  BY <1>1, <1>2, <1>3, <1>5, <1>6
<1>8. StoreTypeOK'
  BY <1>3, <1>5 DEF StoreTypeOK, ReclaimGroupMessages, memberTab
<1> QED
  BY <1>3, <1>5, <1>7, <1>8

-----------------------------------------------------------------------------
(* Typing of the requests *)

\* Every handler ends with its transaction and does nothing after it.
LEMMA StepsEndInAct ==
  ASSUME NEW op \in Ops
  PROVE  /\ Len(Steps(op)) \in 1..MaxSteps
         /\ \A i \in 1..MaxSteps :
              i <= Len(Steps(op)) /\ Steps(op)[i] # "act" => i + 1 <= Len(Steps(op))
<1> USE DEF MaxSteps
<1>1. CASE op \in Direct \cup {"leave"}
  <2>1. Steps(op) = <<"act">>
    BY <1>1 DEF Steps, Direct
  <2> QED
    BY <2>1
<1>2. CASE op = "dissolve"
  <2>1. Steps(op) = <<"owner", "act">>
    BY <1>2 DEF Steps, Direct
  <2> QED
    BY <2>1
<1>3. CASE op = "transfer"
  <2>1. Steps(op) = <<"member", "owner", "act">>
    BY <1>3 DEF Steps, Direct
  <2> QED
    BY <2>1
<1>4. CASE op = "clear"
  <2>1. Steps(op) = <<"group", "owner", "act">>
    BY <1>4 DEF Steps, Direct
  <2> QED
    BY <2>1
<1>5. CASE op = "kick"
  <2>1. Steps(op) = <<"group", "owner", "group", "target", "act">>
    BY <1>5 DEF Steps, Direct
  <2> QED
    BY <2>1
<1>6. CASE op \in {"commit", "welcome"}
  <2>1. Steps(op) = <<"committer", "act">>
    BY <1>6 DEF Steps, Direct
  <2> QED
    BY <2>1
<1>7. CASE op \in {"message", "group_message"}
  <2>1. Steps(op) = <<"sender", "act">>
    BY <1>7 DEF Steps, Direct
  <2> QED
    BY <2>1
<1>8. CASE op = "list"
  <2>1. Steps(op) = <<"member", "act">>
    BY <1>8 DEF Steps, Direct
  <2> QED
    BY <2>1
<1>9. CASE op = "ack"
  <2>1. Steps(op) = <<"member", "max_seq", "act">>
    BY <1>9 DEF Steps, Direct
  <2> QED
    BY <2>1
<1> QED
  BY <1>1, <1>2, <1>3, <1>4, <1>5, <1>6, <1>7, <1>8, <1>9 DEF Ops, Direct

\* A request in service is one that clients send, with the fields it needs.
LEMMA RequestTyping ==
  ASSUME TypeOK, NEW t \in Threads, req[t] # NoRequest
  PROVE  /\ req[t] \in Requests
         /\ req[t].op \in Ops
         /\ req[t].user \in Users
         /\ req[t].op \in {"kick", "transfer", "welcome"} => req[t].other \in Users
         /\ req[t].op \in {"message", "group_message"} => req[t].msg_id \in MsgIds
         /\ req[t].kind \in {"commit", "welcome"}
         /\ req[t].epoch \in Epochs
         /\ req[t].last_seq \in 0..MaxSeq
<1>1. req[t] \in Requests
  BY DEF TypeOK
<1>2. req[t] \in Request /\ WellFormed(req[t])
  BY <1>1, RequestsAssumption
<1> QED
  BY <1>1, <1>2 DEF Request, WellFormed

\* The part of TypeOK that is about the goroutines.
ReqTypeOK ==
  /\ req \in [Threads -> Requests \cup {NoRequest}]
  /\ pc \in [Threads -> 1..MaxSteps]
  /\ \A t \in Threads :
       IF req[t] = NoRequest THEN pc[t] = 1 ELSE pc[t] <= Len(Steps(req[t].op))
  /\ seen \in [Threads -> [epoch : Epochs, min_seq : 0..MaxSeq]]

\* Starting a request keeps the goroutines well typed.
LEMMA ServeTyping ==
  ASSUME TypeOK, NEW t \in Threads, NEW r \in Requests, serve(t, r)
  PROVE  ReqTypeOK'
<1>1. r.op \in Ops /\ r # NoRequest
  BY RequestsAssumption DEF Request, Ops, NoRequest
<1>2. pc[t] = 1 /\ 1 <= Len(Steps(r.op))
  BY <1>1, StepsEndInAct DEF serve, TypeOK
<1>3. seen' \in [Threads -> [epoch : Epochs, min_seq : 0..MaxSeq]]
  <2>1. [epoch |-> current_epoch, min_seq |-> min_seq] \in [epoch : Epochs, min_seq : 0..MaxSeq]
    BY DEF TypeOK, StoreTypeOK
  <2>2. UNCHANGED seen \/ loadActiveGroup(t)
    BY DEF serve
  <2> QED
    BY <2>1, <2>2 DEF TypeOK, loadActiveGroup
<1>4. \A u \in Threads :
        IF req'[u] = NoRequest THEN pc'[u] = 1 ELSE pc'[u] <= Len(Steps(req'[u].op))
  <2> SUFFICES ASSUME NEW u \in Threads
               PROVE  IF req'[u] = NoRequest THEN pc'[u] = 1
                      ELSE pc'[u] <= Len(Steps(req'[u].op))
    OBVIOUS
  <2>1. CASE u = t
    BY <1>1, <1>2, <2>1 DEF serve, TypeOK
  <2>2. CASE u # t
    BY <2>2 DEF serve, TypeOK
  <2> QED
    BY <2>1, <2>2
<1> QED
  BY <1>3, <1>4 DEF ReqTypeOK, serve, TypeOK

\* Ending a request keeps the goroutines well typed.
LEMMA FinishTyping ==
  ASSUME TypeOK, NEW t \in Threads, Finish(t)
  PROVE  ReqTypeOK'
<1>1. [epoch |-> 0, min_seq |-> 0] \in [epoch : Epochs, min_seq : 0..MaxSeq]
  BY BoundsAssumption DEF Epochs
<1>2. 1 \in 1..MaxSteps
  BY DEF MaxSteps
<1>3. seen' \in [Threads -> [epoch : Epochs, min_seq : 0..MaxSeq]]
  BY <1>1 DEF Finish, TypeOK
<1> QED
  BY <1>2, <1>3 DEF ReqTypeOK, Finish, TypeOK

\* A read between two store calls keeps the goroutines well typed: a handler
\* whose call is not its transaction has a call left.
LEMMA LoadTyping ==
  ASSUME TypeOK, NEW t \in Threads, Load(t)
  PROVE  /\ ReqTypeOK'
         /\ UNCHANGED <<storeVars, req, listing, sweeping>>
<1>1. Advance(t) /\ req[t] # NoRequest /\ Steps(req[t].op)[pc[t]] # "act"
  BY DEF Load, groupCheck, memberCheck, ownerCheck, hasGroupRole, epochCheck,
         targetCheck, maxSeqCheck, loadActiveGroupMember, At
<1>2. seen' \in [Threads -> [epoch : Epochs, min_seq : 0..MaxSeq]]
  BY DEF Load, groupCheck, memberCheck, ownerCheck, hasGroupRole, epochCheck,
         targetCheck, maxSeqCheck, loadActiveGroupMember, loadActiveGroup,
         TypeOK, StoreTypeOK
<1>3. req[t].op \in Ops
  BY <1>1, RequestTyping
<1>4. pc[t] + 1 \in 1..MaxSteps /\ pc[t] + 1 <= Len(Steps(req[t].op))
  <2> DEFINE n == Len(Steps(req[t].op))
  <2>1. pc[t] \in 1..MaxSteps /\ pc[t] <= n
    BY <1>1 DEF TypeOK
  <2>2. pc[t] + 1 <= n /\ n \in 1..MaxSteps
    BY <1>1, <1>3, <2>1, StepsEndInAct
  <2> HIDE DEF n
  <2>3. pc[t] + 1 \in 1..MaxSteps /\ pc[t] + 1 <= n
    BY <2>1, <2>2 DEF MaxSteps
  <2> QED
    BY <2>3 DEF n
<1> QED
  BY <1>1, <1>2, <1>4 DEF ReqTypeOK, Advance, TypeOK

\* A transaction keeps the tables well typed and ends its request.
LEMMA ActTyping ==
  ASSUME TypeOK, NEW t \in Threads, Act(t)
  PROVE  StoreTypeOK' /\ ReqTypeOK' /\ UNCHANGED sweeping
<1>1. /\ \E op \in Ops : Acts(t, op)
      /\ StoreTypeOK
  BY DEF Act, createGroup, dissolveGroup, leaveGroup, kickMember, clearPendingRemovals,
         startOwnerTransfer, decideOwnerTransfer, createCommit, createWelcome, sendMessage,
         handleGroupMessage, listMessages, ackMessages, Ops, TypeOK
<1>2. ReqTypeOK' /\ UNCHANGED sweeping
  BY <1>1, FinishTyping DEF Acts
<1>3. req[t] # NoRequest
  BY <1>1 DEF Acts, At
<1> SUFFICES StoreTypeOK'
  BY <1>2
<1> USE <1>1, <1>3, RequestTyping
<1>4. CASE createGroup(t) \/ dissolveGroup(t) \/ clearPendingRemovals(t) \/ listMessages(t)
  BY <1>4, RowTyping DEF createGroup, dissolveGroup, clearPendingRemovals, listMessages
<1>5. CASE leaveGroup(t)
  BY <1>5, LeaveTyping DEF leaveGroup
<1>6. CASE kickMember(t)
  BY <1>6, RemoveTyping DEF kickMember, Acts
<1>7. CASE startOwnerTransfer(t)
  BY <1>7, CreateTransferTyping DEF startOwnerTransfer, Acts
<1>8. CASE decideOwnerTransfer(t)
  BY <1>8, DecideTyping DEF decideOwnerTransfer
<1>9. CASE createCommit(t)
  BY <1>9, LogTyping DEF createCommit
<1>10. CASE createWelcome(t)
  BY <1>10, LogTyping DEF createWelcome, Acts
<1>11. CASE sendMessage(t) \/ handleGroupMessage(t)
  BY <1>11, AppendMessageTyping DEF sendMessage, handleGroupMessage, Acts
<1>12. CASE ackMessages(t)
  BY <1>12, AckTyping DEF ackMessages
<1> QED
  BY <1>4, <1>5, <1>6, <1>7, <1>8, <1>9, <1>10, <1>11, <1>12 DEF Act

\* What a listing answers is within the queue's range.
LEMMA ListingTyping ==
  ASSUME TypeOK, NEW t \in Threads, listMessages(t)
  PROVE  listing' \in [since : 0..MaxSeq, floor : 0..MaxSeq, first : 0..MaxSeq]
<1> DEFINE since == Max({req[t].last_seq, seen[t].min_seq})
           rows  == ListGroupMessages(since)
           first == IF rows = {} THEN 0 ELSE Min({m.seq : m \in rows})
<1>1. MaxSeq \in Nat
  BY BoundsAssumption
<1>2. req[t].last_seq \in 0..MaxSeq /\ seen[t].min_seq \in 0..MaxSeq
  BY RequestTyping DEF TypeOK, listMessages, Acts, At
<1>3. \A m \in rows : m.seq \in 0..MaxSeq
  BY <1>1 DEF TypeOK, StoreTypeOK, GroupMessage, Seqs, ListGroupMessages
<1>4. listing' = [since |-> req[t].last_seq, floor |-> seen[t].min_seq, first |-> first]
  BY DEF listMessages
<1> HIDE DEF rows
<1>5. first \in 0..MaxSeq
  <2>1. CASE rows = {}
    BY <1>1, <2>1
  <2>2. CASE rows # {}
    <3>1. {m.seq : m \in rows} \in SUBSET Nat /\ {m.seq : m \in rows} # {}
      BY <1>1, <1>3, <2>2
    <3>2. Min({m.seq : m \in rows}) \in {m.seq : m \in rows}
      BY <3>1, MinOfNats
    <3> QED
      BY <1>3, <2>2, <3>2
  <2> QED
    BY <2>1, <2>2
<1> QED
  BY <1>2, <1>4, <1>5

-----------------------------------------------------------------------------
(* Type correctness *)

\* An empty database and no request: everything is well typed.
LEMMA InitTypeOK == Init => TypeOK
<1> SUFFICES ASSUME Init PROVE TypeOK
  OBVIOUS
<1>1. 0 \in Epochs /\ 0 \in 0..MaxSeq /\ 1 \in 1..MaxSteps
  BY BoundsAssumption DEF Epochs, MaxSteps
<1>2. StoreTypeOK
  BY <1>1 DEF Init, StoreInit, StoreTypeOK
<1> QED
  BY <1>1, <1>2 DEF Init, TypeOK

\* Every step of a request, and of the cleanup worker, keeps the types.
LEMMA NextTypeOK == TypeOK /\ [Next]_vars => TypeOK'
<1> SUFFICES ASSUME TypeOK, [Next]_vars PROVE TypeOK'
  OBVIOUS
<1> USE DEF ReqTypeOK
<1>1. ASSUME NEW t \in Threads, NEW r \in Requests, serve(t, r) PROVE TypeOK'
  <2>1. ReqTypeOK'
    BY <1>1, ServeTyping
  <2>2. StoreTypeOK'
    BY <1>1 DEF serve, storeVars, groupRow, memberTab, TypeOK, StoreTypeOK
  <2> QED
    BY <1>1, <2>1, <2>2 DEF serve, TypeOK
<1>2. ASSUME NEW t \in Threads, Load(t) PROVE TypeOK'
  <2>1. StoreTypeOK'
    BY <1>2, LoadTyping DEF storeVars, groupRow, memberTab, TypeOK, StoreTypeOK
  <2> QED
    BY <1>2, <2>1, LoadTyping DEF TypeOK
<1>3. ASSUME NEW t \in Threads, Act(t) PROVE TypeOK'
  <2>1. listing' \in [since : 0..MaxSeq, floor : 0..MaxSeq, first : 0..MaxSeq]
    BY <1>3, ListingTyping DEF Act, createGroup, dissolveGroup, leaveGroup, kickMember,
       clearPendingRemovals, startOwnerTransfer, decideOwnerTransfer, createCommit,
       createWelcome, sendMessage, handleGroupMessage, ackMessages, TypeOK
  <2> QED
    BY <1>3, <2>1, ActTyping DEF TypeOK
<1>4. ASSUME NEW t \in Threads, Reject(t) PROVE TypeOK'
  <2>1. ReqTypeOK'
    BY <1>4, FinishTyping DEF Reject
  <2>2. StoreTypeOK'
    BY <1>4 DEF Reject, storeVars, groupRow, memberTab, TypeOK, StoreTypeOK
  <2> QED
    BY <1>4, <2>1, <2>2 DEF Reject, TypeOK
<1>5. CASE ListActiveGroupIDsPage
  BY <1>5 DEF ListActiveGroupIDsPage, storeVars, groupRow, memberTab, reqVars, TypeOK, StoreTypeOK
<1>6. CASE cleanGroupQueuePage
  <2>1. StoreTypeOK'
    BY <1>6, ReclaimEffect DEF cleanGroupQueuePage, TypeOK
  <2> QED
    BY <1>6, <2>1 DEF cleanGroupQueuePage, reqVars, TypeOK
<1>7. CASE UNCHANGED vars
  BY <1>7 DEF vars, storeVars, groupRow, memberTab, reqVars, TypeOK, StoreTypeOK
<1> QED
  BY <1>1, <1>2, <1>3, <1>4, <1>5, <1>6, <1>7 DEF Next, Worker

\* Type correctness of the group API: whatever clients send and however the
\* goroutines interleave, the tables and the requests in service keep their
\* types, and no handler runs past its transaction.
THEOREM TypeCorrect == Spec => []TypeOK
<1> QED
  BY InitTypeOK, NextTypeOK, PTL DEF Spec

-----------------------------------------------------------------------------
(* Ownership *)

\* Every way but one that the tables can change, with well typed arguments.
\* The other is RemoveGroupMember, which only a kick calls.
KickFreeNext ==
  \/ \E u \in Users :
       \/ CreateGroup(u)
       \/ \E v \in Users \cup {NoUser} : LeaveGroup(u, v)
       \/ \E v \in Users : CreateOwnerTransfer(u, v)
       \/ \E accept \in BOOLEAN : DecideOwnerTransfer(u, accept)
       \/ \E e \in Epochs : AppendWelcome(u, e)
       \/ \E n \in 0..MaxSeq : UpsertGroupCursor(u, n)
  \/ DissolveGroup
  \/ ClearPendingRemovals
  \/ \E k \in {"commit", "welcome"}, e \in Epochs, p \in Epochs : AppendGroupCommit(k, e, p)
  \/ \E id \in MsgIds, e \in Epochs : AppendGroupMessage(id, e)
  \/ ReclaimGroupMessages

KickNext == \E t \in Threads, u \in Users : kickMember(t) /\ RemoveGroupMember(u)

StoreNext == KickFreeNext \/ \E u \in Users : RemoveGroupMember(u)

\* Every step of the server is one store transaction or leaves the tables
\* alone, and only kickMember removes a member without further ado.
LEMMA ServerStep ==
  TypeOK /\ [Next]_vars => KickFreeNext \/ KickNext \/ UNCHANGED storeVars
<1> SUFFICES ASSUME TypeOK, [Next]_vars
             PROVE  KickFreeNext \/ KickNext \/ UNCHANGED storeVars
  OBVIOUS
<1>1. ASSUME NEW t \in Threads, NEW r \in Requests, serve(t, r) PROVE UNCHANGED storeVars
  BY <1>1 DEF serve
<1>2. ASSUME NEW t \in Threads, Load(t) PROVE UNCHANGED storeVars
  BY <1>2, LoadTyping
<1>3. ASSUME NEW t \in Threads, Act(t)
      PROVE  KickFreeNext \/ KickNext \/ UNCHANGED storeVars
  <2>1. req[t] # NoRequest
    BY <1>3 DEF Act, createGroup, dissolveGroup, leaveGroup, kickMember, clearPendingRemovals,
       startOwnerTransfer, decideOwnerTransfer, createCommit, createWelcome, sendMessage,
       handleGroupMessage, listMessages, ackMessages, Acts, At
  <2>2. /\ req[t].user \in Users
        /\ req[t].op \in {"kick", "transfer", "welcome"} => req[t].other \in Users
        /\ req[t].op \in {"message", "group_message"} => req[t].msg_id \in MsgIds
        /\ req[t].kind \in {"commit", "welcome"}
        /\ req[t].epoch \in Epochs
        /\ req[t].last_seq \in 0..MaxSeq
    BY <2>1, RequestTyping
  <2>3. req[t].other \in Users \cup {NoUser} /\ req[t].parent_epoch \in Epochs
    <3>1. req[t] \in Request
      BY <2>1, RequestTyping, RequestsAssumption
    <3> QED
      BY <3>1 DEF Request
  <2> QED
    BY <1>3, <2>2, <2>3 DEF Act, createGroup, dissolveGroup, leaveGroup, kickMember,
       clearPendingRemovals, startOwnerTransfer, decideOwnerTransfer, createCommit,
       createWelcome, sendMessage, handleGroupMessage, listMessages, ackMessages, Acts,
       KickFreeNext, KickNext
<1>4. ASSUME NEW t \in Threads, Reject(t) PROVE UNCHANGED storeVars
  BY <1>4 DEF Reject
<1>5. CASE Worker
  BY <1>5 DEF Worker, ListActiveGroupIDsPage, cleanGroupQueuePage, KickFreeNext
<1>6. CASE UNCHANGED vars
  BY <1>6 DEF vars
<1> QED
  BY <1>1, <1>2, <1>3, <1>4, <1>5, <1>6 DEF Next

\* Every step of the server is one store transaction or leaves the tables
\* alone.
LEMMA ServerStepIsStoreStep ==
  TypeOK /\ [Next]_vars => StoreNext \/ UNCHANGED storeVars
BY ServerStep DEF StoreNext, KickNext

\* Before the group exists nobody is in it and no hand-over was started.
NothingYet ==
  gstate = "none" => transfers = << >> /\ \A u \in Users : role[u] = "none"

\* The inductive invariant about ownership.
OwnershipInv == NothingYet /\ OneOwnerUnlessOverlap /\ OwnershipConfirmed

\* Transactions that keep the owners, the transfers, the creator and the
\* group's existence keep the invariant.
LEMMA OwnershipFrame ==
  ASSUME StoreTypeOK, OwnershipInv,
         transfers' = transfers, creator' = creator,
         Owners' \subseteq Owners,
         gstate' = "none" => gstate = "none" /\ role' = role
  PROVE  OwnershipInv'
<1>1. NothingYet'
  BY DEF OwnershipInv, NothingYet
<1>2. OneOwnerUnlessOverlap'
  BY DEF OwnershipInv, OneOwnerUnlessOverlap, Pending
<1>3. OwnershipConfirmed'
  BY DEF OwnershipInv, OwnershipConfirmed
<1> QED
  BY <1>1, <1>2, <1>3 DEF OwnershipInv

\* A new pending row keeps the invariant when the owners do not grow, and
\* are inside prev's singleton if the row is rightful.
LEMMA OwnershipNewTransfer ==
  ASSUME StoreTypeOK, OwnershipInv, NEW u \in Users, NEW v \in Users,
         transfers' = Append(transfers, NewTransfer(u, v)),
         creator' = creator, gstate' = gstate, gstate # "none",
         Owners' \subseteq Owners
  PROVE  OwnershipInv'
<1> DEFINE n == Len(transfers) + 1
           row == NewTransfer(u, v)
<1>1. /\ n \in DOMAIN transfers' /\ transfers'[n] = row
      /\ DOMAIN transfers' = DOMAIN transfers \cup {n}
      /\ \A i \in DOMAIN transfers : i # n /\ transfers'[i] = transfers[i]
  BY NewTransferTyping DEF StoreTypeOK
<1>2. row.prev_owner = u /\ row.state = "pending"
      /\ (row.rightful => Owners = {u} /\ Pending = {})
  BY DEF NewTransfer
<1> HIDE DEF n, row
<1>3. OneOwnerUnlessOverlap'
  <2> SUFFICES ASSUME \A i \in DOMAIN transfers' : transfers'[i].rightful
               PROVE  /\ \A x, y \in Owners' : x = y
                      /\ \A i, j \in Pending' : i = j
                      /\ \A i \in Pending' : Owners' \subseteq {transfers'[i].prev_owner}
    BY DEF OneOwnerUnlessOverlap
  <2>1. Owners = {u} /\ Pending = {}
    BY <1>1, <1>2
  <2>2. Pending' = {n}
    BY <1>1, <1>2, <2>1 DEF Pending
  <2> QED
    BY <1>1, <1>2, <2>1, <2>2
<1>4. OwnershipConfirmed'
  <2> SUFFICES ASSUME NEW x \in Owners'
               PROVE  x = creator' \/ \E i \in DOMAIN transfers' :
                        transfers'[i].designee = x /\ transfers'[i].state = "accepted"
    BY DEF OwnershipConfirmed
  <2>1. x = creator \/ \E i \in DOMAIN transfers :
          transfers[i].designee = x /\ transfers[i].state = "accepted"
    BY DEF OwnershipInv, OwnershipConfirmed
  <2> QED
    BY <1>1, <2>1
<1> QED
  BY <1>3, <1>4 DEF OwnershipInv, NothingYet

\* Deciding a hand-over keeps the invariant: an accept makes the designee the
\* owner and demotes the one who designated it.
LEMMA OwnershipDecide ==
  ASSUME StoreTypeOK, OwnershipInv, NEW u \in Users, NEW accept \in BOOLEAN,
         DecideOwnerTransfer(u, accept)
  PROVE  OwnershipInv'
<1>1. PICK i \in DOMAIN transfers :
        AcceptOwnerTransfer(i, u) \/ DeclineOwnerTransfer(i, u)
  BY DEF DecideOwnerTransfer
<1>2. i \in Pending /\ transfers[i].designee = u /\ transfers # << >>
  BY <1>1 DEF AcceptOwnerTransfer, DeclineOwnerTransfer, IsLatestPending
<1>3. PICK s \in {"accepted", "declined"} :
        /\ transfers' = [transfers EXCEPT ![i].state = s]
        /\ AcceptOwnerTransfer(i, u) => s = "accepted"
  BY <1>1 DEF AcceptOwnerTransfer, DeclineOwnerTransfer
<1>4. /\ DOMAIN transfers' = DOMAIN transfers
      /\ transfers'[i].state = s
      /\ transfers'[i].designee = u
      /\ \A j \in DOMAIN transfers : transfers'[j].rightful = transfers[j].rightful
      /\ \A j \in DOMAIN transfers : transfers'[j].prev_owner = transfers[j].prev_owner
      /\ \A j \in DOMAIN transfers : j # i => transfers'[j] = transfers[j]
  BY <1>2, <1>3, DecidedRows DEF StoreTypeOK, TransferStates
<1>5. Pending' = Pending \ {i}
  BY <1>2, <1>3, <1>4 DEF Pending
<1>6. creator' = creator /\ gstate' # "none"
  <2>1. gstate # "none"
    BY <1>2 DEF OwnershipInv, NothingYet
  <2> QED
    BY <1>1, <2>1 DEF AcceptOwnerTransfer, DeclineOwnerTransfer, groupRow
<1>7. CASE AcceptOwnerTransfer(i, u)
  <2> DEFINE prev == transfers[i].prev_owner
  <2>1. role' = [(IF role[prev] = "owner" THEN [role EXCEPT ![prev] = "member"] ELSE role)
                   EXCEPT ![u] = "owner"]
    BY <1>7 DEF AcceptOwnerTransfer
  <2>2. Owners' = (Owners \ {prev}) \cup {u}
    BY <2>1 DEF Owners, StoreTypeOK
  <2>3. OneOwnerUnlessOverlap'
    <3> SUFFICES ASSUME \A j \in DOMAIN transfers' : transfers'[j].rightful
                 PROVE  /\ \A x, y \in Owners' : x = y
                        /\ \A j, k \in Pending' : j = k
                        /\ \A j \in Pending' : Owners' \subseteq {transfers'[j].prev_owner}
      BY DEF OneOwnerUnlessOverlap
    <3>1. \A j \in DOMAIN transfers : transfers[j].rightful
      BY <1>4
    <3>2. Owners \subseteq {prev} /\ Pending = {i}
      BY <1>2, <3>1 DEF OwnershipInv, OneOwnerUnlessOverlap
    <3> QED
      BY <1>5, <2>2, <3>2
  <2>4. OwnershipConfirmed'
    <3> SUFFICES ASSUME NEW x \in Owners'
                 PROVE  x = creator' \/ \E j \in DOMAIN transfers' :
                          transfers'[j].designee = x /\ transfers'[j].state = "accepted"
      BY DEF OwnershipConfirmed
    <3>1. CASE x = u
      BY <1>3, <1>4, <1>7, <3>1
    <3>2. CASE x # u
      <4>1. x = creator \/ \E j \in DOMAIN transfers :
              transfers[j].designee = x /\ transfers[j].state = "accepted"
        BY <2>2, <3>2 DEF OwnershipInv, OwnershipConfirmed
      <4> QED
        BY <1>2, <1>4, <1>6, <3>2, <4>1
    <3> QED
      BY <3>1, <3>2
  <2> QED
    BY <1>6, <2>3, <2>4 DEF OwnershipInv, NothingYet
<1>8. CASE DeclineOwnerTransfer(i, u)
  <2>1. Owners' = Owners
    BY <1>8 DEF DeclineOwnerTransfer, memberTab, Owners
  <2>2. OneOwnerUnlessOverlap'
    BY <1>4, <1>5, <2>1 DEF OwnershipInv, OneOwnerUnlessOverlap, Pending
  <2>3. OwnershipConfirmed'
    <3> SUFFICES ASSUME NEW x \in Owners'
                 PROVE  x = creator' \/ \E j \in DOMAIN transfers' :
                          transfers'[j].designee = x /\ transfers'[j].state = "accepted"
      BY DEF OwnershipConfirmed
    <3>1. x = creator \/ \E j \in DOMAIN transfers :
            j # i /\ transfers[j].designee = x /\ transfers[j].state = "accepted"
      BY <1>2, <2>1 DEF OwnershipInv, OwnershipConfirmed, Pending
    <3> QED
      BY <1>4, <1>6, <3>1
  <2> QED
    BY <1>6, <2>2, <2>3 DEF OwnershipInv, NothingYet
<1> QED
  BY <1>1, <1>7, <1>8

\* Leaving keeps the invariant.
LEMMA OwnershipLeave ==
  ASSUME StoreTypeOK, OwnershipInv, NEW u \in Users, NEW v, LeaveGroup(u, v)
  PROVE  OwnershipInv'
<1>1. CASE LeaveNotMember(u)
  BY <1>1, OwnershipFrame DEF LeaveNotMember, storeVars, groupRow, memberTab, Owners
<1>2. ASSUME DeleteMember(u) PROVE Owners' \subseteq Owners
  BY <1>2 DEF DeleteMember, Owners, StoreTypeOK
<1>3. CASE LeaveLastOwner(u)
  BY <1>2, <1>3, OwnershipFrame DEF LeaveLastOwner
<1>4. role[u] # "none" => gstate # "none"
  BY DEF OwnershipInv, NothingYet
<1>5. CASE LeaveOwner(u, v)
  BY <1>2, <1>4, <1>5, OwnershipNewTransfer DEF LeaveOwner, groupRow, Members
<1>6. CASE LeaveMember(u)
  BY <1>2, <1>4, <1>6, OwnershipFrame DEF LeaveMember, groupRow
<1> QED
  BY <1>1, <1>3, <1>5, <1>6 DEF LeaveGroup

\* Every transaction keeps the invariant.
LEMMA OwnershipStep ==
  ASSUME StoreTypeOK, OwnershipInv, StoreNext
  PROVE  OwnershipInv'
<1>1. ASSUME NEW u \in Users, CreateGroup(u) PROVE OwnershipInv'
  <2>1. Owners' = {u} /\ transfers' = << >> /\ creator' = u /\ gstate' = "active"
    BY <1>1 DEF CreateGroup, Owners, StoreTypeOK, OwnershipInv, NothingYet
  <2> QED
    BY <2>1 DEF OwnershipInv, NothingYet, OneOwnerUnlessOverlap, OwnershipConfirmed, Pending
<1>2. ASSUME NEW u \in Users, RemoveGroupMember(u) PROVE OwnershipInv'
  <2>1. Owners' \subseteq Owners
    BY <1>2 DEF RemoveGroupMember, DeleteMember, Owners, StoreTypeOK
  <2>2. gstate = "none" => role' = role
    BY <1>2 DEF RemoveGroupMember, DeleteMember, StoreTypeOK, OwnershipInv, NothingYet
  <2> QED
    BY <1>2, <2>1, <2>2, OwnershipFrame DEF RemoveGroupMember, groupRow
<1>3. ASSUME NEW u \in Users, NEW v \in Users, CreateOwnerTransfer(u, v) PROVE OwnershipInv'
  <2>1. gstate # "none"
    BY <1>3 DEF CreateOwnerTransfer, OwnershipInv, NothingYet
  <2> QED
    BY <1>3, <2>1, OwnershipNewTransfer DEF CreateOwnerTransfer, groupRow, memberTab, Owners
<1>4. ASSUME NEW u \in Users, NEW e \in Epochs, AppendWelcome(u, e) PROVE OwnershipInv'
  <2>1. Owners' \subseteq Owners
    BY <1>4 DEF AppendWelcome, memberTab, Owners, StoreTypeOK
  <2> QED
    BY <1>4, <2>1, OwnershipFrame DEF AppendWelcome, groupRow
<1>5. ASSUME NEW u \in Users, NEW n \in 0..MaxSeq, UpsertGroupCursor(u, n) PROVE OwnershipInv'
  BY <1>5, OwnershipFrame DEF UpsertGroupCursor, groupRow, memberTab, Owners
<1>6. CASE DissolveGroup \/ ClearPendingRemovals
  BY <1>6, OwnershipFrame DEF DissolveGroup, ClearPendingRemovals, groupRow, memberTab, Owners
<1>7. ASSUME NEW k \in {"commit", "welcome"}, NEW e \in Epochs, NEW p \in Epochs,
             AppendGroupCommit(k, e, p)
      PROVE  OwnershipInv'
  BY <1>7, OwnershipFrame DEF AppendGroupCommit, memberTab, Owners
<1>8. ASSUME NEW id \in MsgIds, NEW e \in Epochs, AppendGroupMessage(id, e) PROVE OwnershipInv'
  BY <1>8, OwnershipFrame DEF AppendGroupMessage, groupRow, memberTab, Owners
<1>9. CASE ReclaimGroupMessages
  BY <1>9, OwnershipFrame DEF ReclaimGroupMessages, memberTab, Owners
<1> QED
  BY <1>1, <1>2, <1>3, <1>4, <1>5, <1>6, <1>7, <1>8, <1>9, OwnershipLeave, OwnershipDecide
     DEF StoreNext, KickFreeNext

\* Before the group exists nobody owns it and no transfer is recorded.
LEMMA InitOwnershipInv == Init => OwnershipInv
BY DEF Init, StoreInit, OwnershipInv, NothingYet, OneOwnerUnlessOverlap, OwnershipConfirmed,
       Owners, Pending

\* Every step of the server keeps the invariant, as each is one transaction
\* of the store or none.
LEMMA NextOwnershipInv == TypeOK /\ OwnershipInv /\ [Next]_vars => OwnershipInv'
<1> SUFFICES ASSUME TypeOK, OwnershipInv, [Next]_vars PROVE OwnershipInv'
  OBVIOUS
<1>1. StoreTypeOK
  BY DEF TypeOK
<1>2. CASE UNCHANGED storeVars
  BY <1>1, <1>2, OwnershipFrame DEF storeVars, groupRow, memberTab, Owners
<1> QED
  BY <1>1, <1>2, ServerStepIsStoreStep, OwnershipStep

\* The group never has two owners while each hand-over was started by its
\* only owner with no other one pending, for any number of users, requests
\* and interleavings: the demotion in DecideOwnerTransfer is enough then.
THEOREM OneOwner == Spec => []OneOwnerUnlessOverlap
<1>1. OwnershipInv => OneOwnerUnlessOverlap
  BY DEF OwnershipInv
<1> QED
  BY <1>1, InitTypeOK, NextTypeOK, InitOwnershipInv, NextOwnershipInv, PTL DEF Spec

\* Nobody becomes owner without accepting: LeaveGroup and CreateOwnerTransfer
\* only ask, DecideOwnerTransfer promotes the designee who answers.
THEOREM OwnersAgreed == Spec => []OwnershipConfirmed
<1>1. OwnershipInv => OwnershipConfirmed
  BY DEF OwnershipInv
<1> QED
  BY <1>1, InitTypeOK, NextTypeOK, InitOwnershipInv, NextOwnershipInv, PTL DEF Spec

-----------------------------------------------------------------------------
(* Departures *)

\* A transaction other than a kick's either keeps every member or books the
\* one it drops, or dissolves the group.
LEMMA KickFreeStepBooks ==
  ASSUME StoreTypeOK, KickFreeNext
  PROVE  \A u \in Members \ Members' : u \in pending_removals' \/ gstate' = "dissolved"
<1>1. ASSUME NEW u \in Users, NEW v \in Users \cup {NoUser}, LeaveGroup(u, v)
      PROVE  \A w \in Members \ Members' : w \in pending_removals' \/ gstate' = "dissolved"
  <2>1. CASE LeaveNotMember(u)
    BY <2>1 DEF LeaveNotMember, storeVars, memberTab, Members
  <2>2. CASE LeaveLastOwner(u)
    BY <2>2 DEF LeaveLastOwner
  <2>3. ASSUME DeleteMember(u), pending_removals' = pending_removals \cup {u}
        PROVE  \A w \in Members \ Members' : w \in pending_removals'
    BY <2>3 DEF DeleteMember, Members, StoreTypeOK
  <2> QED
    BY <1>1, <2>1, <2>2, <2>3 DEF LeaveGroup, LeaveOwner, LeaveMember
<1>2. ASSUME NEW u \in Users, NEW accept \in BOOLEAN, DecideOwnerTransfer(u, accept)
      PROVE  Members \subseteq Members'
  <2>1. PICK i \in DOMAIN transfers :
          AcceptOwnerTransfer(i, u) \/ DeclineOwnerTransfer(i, u)
    BY <1>2 DEF DecideOwnerTransfer
  <2>2. CASE AcceptOwnerTransfer(i, u)
    BY <2>2 DEF AcceptOwnerTransfer, Members, StoreTypeOK
  <2>3. CASE DeclineOwnerTransfer(i, u)
    BY <2>3 DEF DeclineOwnerTransfer, memberTab, Members
  <2> QED
    BY <2>1, <2>2, <2>3
<1>3. ASSUME NEW u \in Users, CreateGroup(u) \/ \E e \in Epochs : AppendWelcome(u, e)
      PROVE  Members \subseteq Members'
  BY <1>3 DEF CreateGroup, AppendWelcome, memberTab, Members, StoreTypeOK
<1>4. CASE role' = role
  BY <1>4 DEF Members
<1> QED
  BY <1>1, <1>2, <1>3, <1>4
     DEF KickFreeNext, CreateOwnerTransfer, UpsertGroupCursor, DissolveGroup,
         ClearPendingRemovals, AppendGroupCommit, AppendGroupMessage, ReclaimGroupMessages,
         memberTab

\* Nobody leaves the roster of a group that goes on without a booked MLS
\* removal, except by a kick: LeaveGroup deletes the row and inserts the
\* booking in one transaction.
THEOREM LeaversBooked == Spec => LeaverBooked
<1> DEFINE Booked == \A u \in Members \ Members' :
                       \/ u \in pending_removals'
                       \/ gstate' = "dissolved"
                       \/ \E t \in Threads : kickMember(t)
<1>1. TypeOK /\ [Next]_vars => [Booked]_vars
  <2> SUFFICES ASSUME TypeOK, [Next]_vars PROVE Booked
    OBVIOUS
  <2>1. CASE KickFreeNext
    BY <2>1, KickFreeStepBooks DEF TypeOK
  <2>2. CASE KickNext
    BY <2>2 DEF KickNext
  <2>3. CASE UNCHANGED storeVars
    BY <2>3 DEF storeVars, memberTab, Members
  <2> QED
    BY <2>1, <2>2, <2>3, ServerStep
<1> QED
  BY <1>1, TypeCorrect, PTL DEF Spec, LeaverBooked

-----------------------------------------------------------------------------
(* Abandoned groups *)

\* A transaction other than a kick's does not abandon a group.
LEMMA KickFreeStepKeepsCandidate ==
  ASSUME StoreTypeOK, KickFreeNext, ~Abandoned
  PROVE  ~Abandoned'
<1>1. ASSUME gstate' = gstate, role' = role, transfers' = transfers
      PROVE  ~Abandoned'
  BY <1>1 DEF Abandoned, Owners, Pending
<1>2. ASSUME NEW u \in Users, NEW v \in Users,
             transfers' = Append(transfers, NewTransfer(u, v))
      PROVE  ~Abandoned'
  <2>1. transfers \in Seq(OwnerTransfer) /\ NewTransfer(u, v) \in OwnerTransfer
    BY NewTransferTyping DEF StoreTypeOK
  <2>2. /\ Len(transfers) + 1 \in DOMAIN transfers'
        /\ transfers'[Len(transfers) + 1].state = "pending"
    BY <1>2, <2>1 DEF NewTransfer
  <2> QED
    BY <2>2 DEF Abandoned, Pending
<1>3. ASSUME NEW u \in Users, NEW v \in Users \cup {NoUser}, LeaveGroup(u, v)
      PROVE  ~Abandoned'
  <2>1. CASE LeaveNotMember(u)
    BY <1>1, <2>1 DEF LeaveNotMember, storeVars, groupRow, memberTab
  <2>2. CASE LeaveLastOwner(u)
    BY <2>2 DEF LeaveLastOwner, Abandoned
  <2>3. CASE LeaveOwner(u, v)
    BY <1>2, <2>3 DEF LeaveOwner, Members
  <2>4. CASE LeaveMember(u)
    <3>1. Owners' = Owners
      BY <2>4 DEF LeaveMember, DeleteMember, Owners, StoreTypeOK
    <3> QED
      BY <2>4, <3>1 DEF LeaveMember, Abandoned, Pending, groupRow
  <2> QED
    BY <1>3, <2>1, <2>2, <2>3, <2>4 DEF LeaveGroup
<1>4. ASSUME NEW u \in Users, NEW accept \in BOOLEAN, DecideOwnerTransfer(u, accept)
      PROVE  ~Abandoned'
  <2>1. PICK i \in DOMAIN transfers :
          AcceptOwnerTransfer(i, u) \/ DeclineOwnerTransfer(i, u)
    BY <1>4 DEF DecideOwnerTransfer
  <2>2. CASE AcceptOwnerTransfer(i, u)
    <3>1. role'[u] = "owner"
      BY <2>2 DEF AcceptOwnerTransfer, StoreTypeOK
    <3> QED
      BY <3>1 DEF Abandoned, Owners
  <2>3. CASE DeclineOwnerTransfer(i, u)
    <3>1. Owners' = Owners
      BY <2>3 DEF DeclineOwnerTransfer, memberTab, Owners
    <3> QED
      BY <2>3, <3>1 DEF DeclineOwnerTransfer, Abandoned
  <2> QED
    BY <2>1, <2>2, <2>3
<1>5. ASSUME NEW u \in Users, CreateGroup(u) PROVE ~Abandoned'
  BY <1>5 DEF CreateGroup, Abandoned, Owners, StoreTypeOK
<1>6. ASSUME NEW u \in Users, NEW e \in Epochs, AppendWelcome(u, e) PROVE ~Abandoned'
  <2>1. Owners' = Owners
    BY <1>6 DEF AppendWelcome, memberTab, Owners, Members, StoreTypeOK
  <2> QED
    BY <1>6, <2>1 DEF AppendWelcome, Abandoned, Pending, groupRow
<1>7. ASSUME NEW u \in Users, NEW v \in Users, CreateOwnerTransfer(u, v) PROVE ~Abandoned'
  BY <1>2, <1>7 DEF CreateOwnerTransfer
<1>8. CASE DissolveGroup
  BY <1>8 DEF DissolveGroup, Abandoned
<1> QED
  BY <1>1, <1>3, <1>4, <1>5, <1>6, <1>7, <1>8
     DEF KickFreeNext, UpsertGroupCursor, ClearPendingRemovals, AppendGroupCommit,
         AppendGroupMessage, ReclaimGroupMessages, memberTab, groupRow

\* Only a kick can leave an active group that nobody owns and nobody is asked
\* to own: leaving names a successor or dissolves, declining dissolves when
\* no owner is left, and accepting makes one.
THEOREM KicksAbandon == Spec => OnlyKickAbandons
<1> DEFINE Kicked == ~Abandoned /\ Abandoned' => \E t \in Threads : kickMember(t)
<1>1. TypeOK /\ [Next]_vars => [Kicked]_vars
  <2> SUFFICES ASSUME TypeOK, [Next]_vars, ~Abandoned, Abandoned'
               PROVE  \E t \in Threads : kickMember(t)
    OBVIOUS
  <2>1. ~KickFreeNext
    BY KickFreeStepKeepsCandidate DEF TypeOK
  <2>2. ~UNCHANGED storeVars
    BY DEF storeVars, groupRow, memberTab, Abandoned, Owners, Pending
  <2> QED
    BY <2>1, <2>2, ServerStep DEF KickNext
<1> QED
  BY <1>1, TypeCorrect, PTL DEF Spec, OnlyKickAbandons
=============================================================================

------------------------------ MODULE JoinProofs ------------------------------
(***************************************************************************)
(* Proofs about GroupJoin, for any users, goroutines, requests and ids:    *)
(* joining leaves the rest of the group API alone, and what the runs check *)
(* about key packages, applications and decisions.                         *)
(***************************************************************************)
EXTENDS GroupJoin, GroupProofs

-----------------------------------------------------------------------------
(* Joining and the rest of the group API *)

\* No step of a join handler touches the tables or the goroutines of the
\* other requests.
LEMMA JoinStepLeavesServer ==
  ASSUME NEW t \in Threads, JoinStep(t)
  PROVE  UNCHANGED vars
BY DEF JoinStep, serveJoin, rejectJoin, CreateKeyPackage, transferCheck, GroupHasOwner,
       IsGroupMember, GetKeyPackage, CreateJoinRequest, decideCheck, OwnsJoinRequestBacklog,
       DecideJoinRequest, Goto, FinishJoin

\* A step of the composition is a step of the group API or leaves it alone.
LEMMA JoinNextIsServerStep == [JoinNext]_allVars => [Next]_vars
BY JoinStepLeavesServer DEF JoinNext, GroupStep, allVars

\* The group API behaves with join requests around as it does without: what
\* is proved of Spec holds of the composition.
THEOREM JoinKeepsServer == JoinSpec => Spec
<1>1. JoinInit => Init
  BY DEF JoinInit
<1> QED
  BY <1>1, JoinNextIsServerStep, PTL DEF JoinSpec, Spec

-----------------------------------------------------------------------------
(* Who has owned the group *)

\* What DeciderOwnedGroup asks of a decider: u created the group or accepted
\* a hand-over of it.
OwnedOnce(u) ==
  \/ u = creator
  \/ \E i \in DOMAIN transfers :
       transfers[i].designee = u /\ transfers[i].state = "accepted"

\* Goroutine t has passed the owner check of a transfer and is about to start it.
Giving(t) == req[t] # NoRequest /\ req[t].op = "transfer" /\ pc[t] = 3

\* Whoever gave the group away, or is about to after its role was checked,
\* has owned it.  Nobody is made an admin.
GiversOwned ==
  /\ Len(transfers) <= MaxTransfers
  /\ \A u \in Users : role[u] # "admin"
  /\ \A i \in DOMAIN transfers : OwnedOnce(transfers[i].prev_owner)
  /\ \A t \in Threads : Giving(t) => OwnedOnce(req[t].user)

\* A transaction leaves the transfers alone, appends one, or decides a
\* pending one; the creator changes only as the group is created.
LEMMA TransferSteps ==
  ASSUME StoreTypeOK, StoreNext \/ UNCHANGED storeVars
  PROVE  /\ gstate # "none" => creator' = creator /\ gstate' # "none"
         /\ creator' = creator \/ gstate' # "none"
         /\ \A u \in Users : role[u] # "admin" => role'[u] # "admin"
         /\ \/ transfers' = transfers
            \/ \E u, v \in Users :
                 /\ transfers' = Append(transfers, NewTransfer(u, v))
                 /\ Len(transfers) < MaxTransfers
                 /\ creator' = creator
            \/ /\ creator' = creator
               /\ \E i \in Pending, s \in {"accepted", "declined"} :
                    transfers' = [transfers EXCEPT ![i].state = s]
<1> DEFINE Kept == creator' = creator /\ transfers' = transfers
           Tame == \A u \in Users : role[u] # "admin" => role'[u] # "admin"
           Lasts == gstate' = gstate \/ gstate' \in {"active", "dissolved"}
<1>1. ASSUME NEW u \in Users, DeleteMember(u) PROVE Tame
  BY <1>1 DEF DeleteMember, StoreTypeOK
<1>2. ASSUME NEW u \in Users, CreateGroup(u)
      PROVE gstate = "none" /\ gstate' = "active" /\ transfers' = transfers /\ Tame
  BY <1>2 DEF CreateGroup, StoreTypeOK
<1>3. ASSUME NEW u \in Users, RemoveGroupMember(u) PROVE Kept /\ Tame /\ Lasts
  BY <1>1, <1>3 DEF RemoveGroupMember, groupRow
<1>4. ASSUME NEW u \in Users, NEW v \in Users \cup {NoUser}, LeaveGroup(u, v)
      PROVE  /\ Tame /\ Lasts /\ creator' = creator
             /\ \/ transfers' = transfers
                \/ /\ v \in Users /\ role[u] = "owner" /\ Len(transfers) < MaxTransfers
                   /\ transfers' = Append(transfers, NewTransfer(u, v))
  BY <1>1, <1>4 DEF LeaveGroup, LeaveNotMember, LeaveLastOwner, LeaveOwner, LeaveMember,
     storeVars, groupRow, memberTab, Members
<1>5. ASSUME NEW u \in Users, NEW v \in Users, CreateOwnerTransfer(u, v)
      PROVE  /\ Tame /\ Lasts /\ creator' = creator /\ Len(transfers) < MaxTransfers
             /\ transfers' = Append(transfers, NewTransfer(u, v))
  BY <1>5 DEF CreateOwnerTransfer, groupRow, memberTab
<1>6. ASSUME NEW u \in Users, NEW accept \in BOOLEAN, DecideOwnerTransfer(u, accept)
      PROVE  /\ Tame /\ Lasts /\ creator' = creator
             /\ \E i \in Pending, s \in {"accepted", "declined"} :
                  transfers' = [transfers EXCEPT ![i].state = s]
  <2>1. PICK i \in DOMAIN transfers :
          AcceptOwnerTransfer(i, u) \/ DeclineOwnerTransfer(i, u)
    BY <1>6 DEF DecideOwnerTransfer
  <2>2. CASE AcceptOwnerTransfer(i, u)
    <3> DEFINE prev == transfers[i].prev_owner
    <3>1. role' = [(IF role[prev] = "owner" THEN [role EXCEPT ![prev] = "member"] ELSE role)
                     EXCEPT ![u] = "owner"]
      BY <2>2 DEF AcceptOwnerTransfer
    <3>2. Tame
      BY <3>1 DEF StoreTypeOK
    <3> QED
      BY <2>2, <3>2 DEF AcceptOwnerTransfer, IsLatestPending, groupRow
  <2>3. CASE DeclineOwnerTransfer(i, u)
    BY <2>3 DEF DeclineOwnerTransfer, IsLatestPending, groupRow, memberTab
  <2> QED
    BY <2>1, <2>2, <2>3
<1>7. ASSUME NEW u \in Users, NEW e \in Epochs, AppendWelcome(u, e) PROVE Kept /\ Tame /\ Lasts
  BY <1>7 DEF AppendWelcome, groupRow, memberTab, StoreTypeOK
<1>8. ASSUME NEW u \in Users, NEW n \in 0..MaxSeq, UpsertGroupCursor(u, n) PROVE Kept /\ Tame /\ Lasts
  BY <1>8 DEF UpsertGroupCursor, groupRow, memberTab
<1>9. CASE DissolveGroup \/ ClearPendingRemovals \/ ReclaimGroupMessages \/ UNCHANGED storeVars
  BY <1>9 DEF DissolveGroup, ClearPendingRemovals, ReclaimGroupMessages, storeVars, groupRow,
     memberTab
<1>10. ASSUME NEW k \in {"commit", "welcome"}, NEW e \in Epochs, NEW p \in Epochs,
              AppendGroupCommit(k, e, p)
       PROVE  Kept /\ Tame /\ Lasts
  BY <1>10 DEF AppendGroupCommit, memberTab
<1>11. ASSUME NEW id \in MsgIds, NEW e \in Epochs, AppendGroupMessage(id, e) PROVE Kept /\ Tame /\ Lasts
  BY <1>11 DEF AppendGroupMessage, groupRow, memberTab
<1> QED
  BY <1>2, <1>3, <1>4, <1>5, <1>6, <1>7, <1>8, <1>9, <1>10, <1>11 DEF StoreNext, KickFreeNext

\* Having owned the group is for good: a decided transfer stays decided, and
\* before the group exists nobody has owned it.
LEMMA OwnedOnceStays ==
  ASSUME StoreTypeOK, NothingYet, creator \in Users => gstate # "none",
         StoreNext \/ UNCHANGED storeVars,
         NEW u \in Users, OwnedOnce(u)
  PROVE  OwnedOnce(u)'
<1>1. gstate # "none" /\ creator' = creator
  BY TransferSteps DEF OwnedOnce, NothingYet
<1>2. CASE u = creator
  BY <1>1, <1>2 DEF OwnedOnce
<1>3. ASSUME NEW i \in DOMAIN transfers,
             transfers[i].designee = u, transfers[i].state = "accepted"
      PROVE  OwnedOnce(u)'
  <2>1. CASE transfers' = transfers
    BY <1>3, <2>1 DEF OwnedOnce
  <2>2. ASSUME NEW x \in Users, NEW y \in Users,
               transfers' = Append(transfers, NewTransfer(x, y))
        PROVE  OwnedOnce(u)'
    <3>1. i \in DOMAIN transfers' /\ transfers'[i] = transfers[i]
      BY <1>3, <2>2, NewTransferTyping DEF StoreTypeOK
    <3> QED
      BY <1>3, <3>1 DEF OwnedOnce
  <2>3. ASSUME NEW j \in Pending, NEW s \in {"accepted", "declined"},
               transfers' = [transfers EXCEPT ![j].state = s]
        PROVE  OwnedOnce(u)'
    <3>1. j # i /\ j \in DOMAIN transfers
      BY <1>3 DEF Pending
    <3>2. i \in DOMAIN transfers' /\ transfers'[i] = transfers[i]
      BY <1>3, <2>3, <3>1, DecidedRows DEF StoreTypeOK, TransferStates
    <3> QED
      BY <1>3, <3>2 DEF OwnedOnce
  <2> QED
    BY <2>1, <2>2, <2>3, TransferSteps
<1> QED
  BY <1>2, <1>3 DEF OwnedOnce

\* The three steps of startOwnerTransfer after the group row is loaded.
LEMMA GiverSteps ==
  ASSUME TypeOK, NEW t \in Threads, req[t] # NoRequest, req[t].op = "transfer"
  PROVE  \/ pc[t] = 1 /\ Steps(req[t].op)[pc[t]] = "member"
         \/ pc[t] = 2 /\ Steps(req[t].op)[pc[t]] = "owner"
         \/ pc[t] = 3 /\ Steps(req[t].op)[pc[t]] = "act"
<1>1. Steps(req[t].op) = <<"member", "owner", "act">>
  BY DEF Steps, Direct
<1>2. pc[t] \in 1..MaxSteps /\ pc[t] <= Len(Steps(req[t].op))
  BY DEF TypeOK
<1> QED
  BY <1>1, <1>2 DEF MaxSteps

\* A transfer is started by an owner who leaves, or by a handler whose caller
\* was checked.
LEMMA WhoGives ==
  ASSUME TypeOK, [Next]_vars, NEW u \in Users, NEW v \in Users,
         transfers' = Append(transfers, NewTransfer(u, v))
  PROVE  \/ role[u] = "owner"
         \/ \E t \in Threads : Giving(t) /\ req[t].user = u
<1>1. /\ transfers' # transfers
      /\ DOMAIN transfers' # DOMAIN transfers
      /\ transfers'[Len(transfers) + 1].prev_owner = u
  <2>1. transfers \in Seq(OwnerTransfer) /\ NewTransfer(u, v) \in OwnerTransfer
    BY NewTransferTyping DEF TypeOK, StoreTypeOK
  <2>2. Len(transfers') = Len(transfers) + 1 /\ transfers' \in Seq(OwnerTransfer)
    BY <2>1
  <2>3. transfers'[Len(transfers) + 1] = NewTransfer(u, v)
    BY <2>1
  <2> QED
    BY <2>1, <2>2, <2>3 DEF NewTransfer
<1>2. PICK t \in Threads : Act(t)
  <2>1. ASSUME NEW t \in Threads, NEW r \in Requests, serve(t, r) PROVE FALSE
    BY <1>1, <2>1 DEF serve, storeVars
  <2>2. ASSUME NEW t \in Threads, Load(t) PROVE FALSE
    BY <1>1, <2>2, LoadTyping DEF storeVars
  <2>3. ASSUME NEW t \in Threads, Reject(t) PROVE FALSE
    BY <1>1, <2>3 DEF Reject, storeVars
  <2>4. CASE Worker \/ UNCHANGED vars
    BY <1>1, <2>4 DEF Worker, ListActiveGroupIDsPage, cleanGroupQueuePage,
       ReclaimGroupMessages, vars, storeVars
  <2> QED
    BY <2>1, <2>2, <2>3, <2>4 DEF Next
<1>3. CASE startOwnerTransfer(t)
  <2>1. /\ req[t] # NoRequest /\ req[t].op = "transfer"
        /\ Steps(req[t].op)[pc[t]] = "act"
        /\ CreateOwnerTransfer(req[t].user, req[t].other)
    BY <1>3 DEF startOwnerTransfer, Acts, At
  <2>2. Giving(t)
    BY <2>1, GiverSteps DEF Giving
  <2>3. req[t].user \in Users /\ req[t].other \in Users
    BY <2>1, RequestTyping
  <2>4. transfers' = Append(transfers, NewTransfer(req[t].user, req[t].other))
    BY <2>1 DEF CreateOwnerTransfer
  <2>5. transfers'[Len(transfers) + 1] = NewTransfer(req[t].user, req[t].other)
    BY <2>3, <2>4, NewTransferTyping DEF TypeOK, StoreTypeOK
  <2> QED
    BY <1>1, <2>2, <2>5 DEF NewTransfer
<1>4. CASE leaveGroup(t)
  <2>1. PICK w : LeaveOwner(req[t].user, w) /\ req[t] # NoRequest
    BY <1>1, <1>4 DEF leaveGroup, LeaveGroup, LeaveNotMember, LeaveLastOwner, LeaveMember,
       storeVars, Acts, At
  <2>2. req[t].user \in Users /\ w \in Users
    BY <2>1, RequestTyping DEF LeaveOwner, Members
  <2>3. transfers'[Len(transfers) + 1] = NewTransfer(req[t].user, w)
    BY <2>1, <2>2, NewTransferTyping DEF LeaveOwner, TypeOK, StoreTypeOK
  <2> QED
    BY <1>1, <2>1, <2>3 DEF NewTransfer, LeaveOwner
<1>5. CASE decideOwnerTransfer(t)
  <2>1. PICK i \in DOMAIN transfers, s \in TransferStates :
          transfers' = [transfers EXCEPT ![i].state = s]
    BY <1>5 DEF decideOwnerTransfer, DecideOwnerTransfer, AcceptOwnerTransfer,
       DeclineOwnerTransfer, TransferStates
  <2> QED
    BY <1>1, <2>1, DecidedRows DEF TypeOK, StoreTypeOK
<1> QED
  BY <1>1, <1>2, <1>3, <1>4, <1>5
     DEF Act, createGroup, dissolveGroup, kickMember, clearPendingRemovals, createCommit,
         createWelcome, sendMessage, handleGroupMessage, listMessages, ackMessages,
         CreateGroup, DissolveGroup, RemoveGroupMember, ClearPendingRemovals,
         AppendGroupCommit, AppendWelcome, AppendGroupMessage, UpsertGroupCursor, storeVars

\* Without a group there is no creator, and nobody has owned it.
CreatorKnown == creator \in Users => gstate # "none"

\* The inductive invariant about who has owned the group.
HistoryInv == OwnershipInv /\ CreatorKnown /\ GiversOwned

\* An owner has owned the group.
LEMMA OwnersOwned ==
  ASSUME HistoryInv, NEW u \in Users, role[u] = "owner"
  PROVE  OwnedOnce(u)
BY DEF HistoryInv, OwnershipInv, OwnershipConfirmed, Owners, OwnedOnce

\* Under a step of the server, having owned the group is for good.
LEMMA OwnedOnceKept ==
  ASSUME TypeOK, HistoryInv, [Next]_vars, NEW u \in Users, OwnedOnce(u)
  PROVE  OwnedOnce(u)'
BY OwnedOnceStays, ServerStepIsStoreStep
   DEF TypeOK, HistoryInv, OwnershipInv, CreatorKnown

\* The rows of group_owner_transfers keep naming givers who owned the group.
LEMMA RowsOwned ==
  ASSUME TypeOK, HistoryInv, [Next]_vars, NEW i \in DOMAIN transfers'
  PROVE  \E u \in Users : u = transfers'[i].prev_owner /\ OwnedOnce(u)'
<1>1. transfers \in Seq(OwnerTransfer)
  BY DEF TypeOK, StoreTypeOK
<1>2. ASSUME NEW j \in DOMAIN transfers
      PROVE  transfers[j].prev_owner \in Users /\ OwnedOnce(transfers[j].prev_owner)
  <2>1. transfers[j] \in OwnerTransfer
    BY <1>1
  <2> QED
    BY <2>1 DEF HistoryInv, GiversOwned, OwnerTransfer
<1>3. ASSUME NEW u \in Users, u = transfers'[i].prev_owner, OwnedOnce(u)
      PROVE  \E x \in Users : x = transfers'[i].prev_owner /\ OwnedOnce(x)'
  BY <1>3, OwnedOnceKept
<1>4. CASE transfers' = transfers
  BY <1>2, <1>3, <1>4
<1>5. ASSUME NEW x \in Users, NEW y \in Users,
             transfers' = Append(transfers, NewTransfer(x, y))
      PROVE  \E u \in Users : u = transfers'[i].prev_owner /\ OwnedOnce(u)
  <2>1. \/ i \in DOMAIN transfers /\ transfers'[i] = transfers[i]
        \/ transfers'[i] = NewTransfer(x, y)
    BY <1>1, <1>5, NewTransferTyping
  <2>2. OwnedOnce(x)
    BY <1>5, WhoGives, OwnersOwned DEF HistoryInv, GiversOwned
  <2> QED
    BY <1>2, <2>1, <2>2 DEF NewTransfer
<1>6. ASSUME NEW j \in Pending, NEW s \in {"accepted", "declined"},
             transfers' = [transfers EXCEPT ![j].state = s]
      PROVE  \E u \in Users : u = transfers'[i].prev_owner /\ OwnedOnce(u)
  <2>1. i \in DOMAIN transfers /\ transfers'[i].prev_owner = transfers[i].prev_owner
    BY <1>1, <1>6, DecidedRows DEF Pending, TransferStates
  <2> QED
    BY <1>2, <2>1
<1> QED
  BY <1>3, <1>4, <1>5, <1>6, TransferSteps, ServerStepIsStoreStep DEF TypeOK

\* A handler that comes to start a transfer has just seen its caller own the
\* group; one that is there already keeps a caller who owned it.
LEMMA GiversKept ==
  ASSUME TypeOK, HistoryInv, [Next]_vars, NEW t \in Threads, Giving(t)'
  PROVE  \E u \in Users : u = req'[t].user /\ OwnedOnce(u)'
<1>1. ASSUME req'[t] = req[t], Giving(t)
      PROVE  \E u \in Users : u = req'[t].user /\ OwnedOnce(u)'
  <2>1. req[t].user \in Users /\ OwnedOnce(req[t].user)
    BY <1>1, RequestTyping DEF Giving, HistoryInv, GiversOwned
  <2> QED
    BY <1>1, <2>1, OwnedOnceKept
<1>2. ASSUME NEW u \in Threads, Finish(u)
      PROVE  req'[t] = req[t] /\ Giving(t)
  BY <1>2 DEF Finish, Giving, TypeOK
<1>3. ASSUME NEW u \in Threads, NEW r \in Requests, serve(u, r)
      PROVE  req'[t] = req[t] /\ Giving(t)
  BY <1>3 DEF serve, Giving, TypeOK
<1>4. ASSUME NEW u \in Threads, Load(u)
      PROVE  \E x \in Users : x = req'[t].user /\ OwnedOnce(x)'
  <2>1. Advance(u) /\ UNCHANGED req
    BY <1>4 DEF Load, groupCheck, memberCheck, ownerCheck, hasGroupRole, epochCheck,
       targetCheck, maxSeqCheck, loadActiveGroupMember, Advance
  <2>2. CASE u = t
    <3>1. req[t] # NoRequest /\ req[t].op = "transfer" /\ pc'[t] = 3
      BY <2>1 DEF Giving
    <3>2. pc'[t] = pc[t] + 1
      BY <2>1, <2>2 DEF Advance, TypeOK
    <3>3. Steps(req[t].op)[pc[t]] = "owner"
      BY <3>1, <3>2, GiverSteps
    <3>4. ownerCheck(t)
      BY <1>4, <2>2, <3>3 DEF Load, groupCheck, memberCheck, hasGroupRole, epochCheck,
         targetCheck, maxSeqCheck, At
    <3>5. req[t].user \in Users /\ role[req[t].user] = "owner"
      BY <3>1, <3>4, RequestTyping DEF ownerCheck
    <3> QED
      BY <2>1, <3>5, OwnersOwned, OwnedOnceKept
  <2>3. CASE u # t
    BY <1>1, <2>1, <2>3 DEF Giving, Advance, TypeOK
  <2> QED
    BY <2>2, <2>3
<1>5. ASSUME NEW u \in Threads, Act(u) \/ Reject(u) PROVE Finish(u)
  BY <1>5 DEF Reject, Act, createGroup, dissolveGroup, leaveGroup, kickMember,
     clearPendingRemovals, startOwnerTransfer, decideOwnerTransfer, createCommit,
     createWelcome, sendMessage, handleGroupMessage, listMessages, ackMessages, Acts
<1>6. CASE Worker \/ UNCHANGED vars
  BY <1>1, <1>6 DEF Worker, ListActiveGroupIDsPage, cleanGroupQueuePage, reqVars, vars, Giving
<1> QED
  BY <1>1, <1>2, <1>3, <1>4, <1>5, <1>6 DEF Next

\* HistoryInv is inductive.
LEMMA NextHistoryInv == TypeOK /\ HistoryInv /\ [Next]_vars => HistoryInv'
<1> SUFFICES ASSUME TypeOK, HistoryInv, [Next]_vars PROVE HistoryInv'
  OBVIOUS
<1>1. OwnershipInv'
  BY NextOwnershipInv DEF HistoryInv
<1>2. CreatorKnown'
  BY TransferSteps, ServerStepIsStoreStep DEF TypeOK, HistoryInv, CreatorKnown
<1>3. Len(transfers') <= MaxTransfers
  <2>1. MaxTransfers \in Nat /\ Len(transfers) <= MaxTransfers
    BY BoundsAssumption DEF HistoryInv, GiversOwned
  <2> QED
    BY <2>1, TransferSteps, ServerStepIsStoreStep, NewTransferTyping, DecidedRows
       DEF TypeOK, StoreTypeOK, Pending, TransferStates
<1>4. \A u \in Users : role'[u] # "admin"
  BY TransferSteps, ServerStepIsStoreStep DEF TypeOK, HistoryInv, GiversOwned
<1>5. GiversOwned'
  BY <1>3, <1>4, RowsOwned, GiversKept DEF GiversOwned
<1> QED
  BY <1>1, <1>2, <1>5 DEF HistoryInv

\* Before the group exists nobody has owned it.
LEMMA InitHistoryInv == Init => HistoryInv
<1> SUFFICES ASSUME Init PROVE HistoryInv
  OBVIOUS
<1>1. OwnershipInv
  BY InitOwnershipInv
<1>2. CreatorKnown
  BY NoUserAssumption DEF Init, StoreInit, CreatorKnown
<1>3. GiversOwned
  BY BoundsAssumption DEF Init, StoreInit, GiversOwned, Giving
<1> QED
  BY <1>1, <1>2, <1>3 DEF HistoryInv

-----------------------------------------------------------------------------
(* Types *)

\* The store calls of each sort of join request.
CallsOf(op) ==
  CASE op = "key_package" -> {"insert_kp"}
    [] op = "join"        -> {"pending", "owned", "outsider", "kp", "insert"}
    [] op = "decide"      -> {"role", "backlog", "update"}

\* A goroutine is at a call of the request it serves.
Positioned ==
  \A t \in Threads : IF jreq[t] = NoRequest THEN jpc[t] = "idle"
                     ELSE jpc[t] \in CallsOf(jreq[t].op)

\* The inductive invariant about types.
JoinTypeInv == JoinTypeOK /\ Positioned

\* What the request at a call carries.
LEMMA JoinRequestTyping ==
  ASSUME JoinTypeInv, NEW t \in Threads
  PROVE  /\ jreq[t] # NoRequest => jreq[t] \in JoinRequests /\ jreq[t].user \in Users
         /\ jpc[t] = "idle" <=> jreq[t] = NoRequest
         /\ jpc[t] = "insert_kp" => jreq[t].kp_id \in KPIds
         /\ jpc[t] \in {"pending", "owned", "outsider", "kp", "insert"} =>
              /\ jreq[t].op = "join"
              /\ jreq[t].kp_id \in KPIds /\ jreq[t].request_id \in RequestIds
         /\ jpc[t] \in {"role", "backlog", "update"} =>
              /\ jreq[t].op = "decide"
              /\ jreq[t].request_id \in RequestIds /\ jreq[t].decision \in {"allow", "deny"}
<1>1. jreq[t] \in JoinRequests \cup {NoRequest} /\ jpc[t] \in Calls \cup {"idle"}
  BY DEF JoinTypeInv, JoinTypeOK
<1>2. IF jreq[t] = NoRequest THEN jpc[t] = "idle" ELSE jpc[t] \in CallsOf(jreq[t].op)
  BY DEF JoinTypeInv, Positioned
<1>3. CASE jreq[t] = NoRequest
  BY <1>2, <1>3
<1>4. CASE jreq[t] # NoRequest
  <2>1. jreq[t] \in JoinRequest
    BY <1>1, <1>4, JoinRequestsAssumption
  <2>2. /\ jreq[t].user \in Users
        /\ jreq[t].op \in {"key_package", "join", "decide"}
        /\ jreq[t].op = "key_package" => jreq[t].kp_id \in KPIds
        /\ jreq[t].op = "join" => jreq[t].kp_id \in KPIds /\ jreq[t].request_id \in RequestIds
        /\ jreq[t].op = "decide" => /\ jreq[t].request_id \in RequestIds
                                    /\ jreq[t].decision \in {"allow", "deny"}
    BY <2>1 DEF JoinRequest
  <2> QED
    BY <1>1, <1>2, <1>4, <2>2 DEF CallsOf
<1> QED
  BY <1>3, <1>4

\* A goroutine that moves to a call of its request, or is done with it, keeps
\* the goroutines well typed.
LEMMA MoveTyping ==
  ASSUME JoinTypeInv, NEW t \in Threads
  PROVE  /\ FinishJoin(t) => /\ jreq' \in [Threads -> JoinRequests \cup {NoRequest}]
                             /\ jpc' \in [Threads -> Calls \cup {"idle"}]
                             /\ Positioned'
         /\ \A op \in {"join", "decide"} : \A from, to \in CallsOf(op) :
              Goto(t, from, to) => JoinTypeInv'
<1>1. ASSUME FinishJoin(t)
      PROVE  /\ jreq' \in [Threads -> JoinRequests \cup {NoRequest}]
             /\ jpc' \in [Threads -> Calls \cup {"idle"}]
             /\ Positioned'
  BY <1>1 DEF FinishJoin, JoinTypeInv, JoinTypeOK, Positioned
<1>2. ASSUME NEW op \in {"join", "decide"}, NEW from \in CallsOf(op), NEW to \in CallsOf(op),
             Goto(t, from, to)
      PROVE  JoinTypeInv'
  <2>1. from \in Calls /\ to \in Calls /\ jpc[t] = from
    BY <1>2 DEF Calls, CallsOf, Goto
  <2>2. jreq[t] # NoRequest /\ jreq[t].op = op
    BY <1>2, <2>1, JoinRequestTyping DEF CallsOf, Calls
  <2>3. Positioned'
    BY <1>2, <2>2 DEF Goto, JoinTypeInv, JoinTypeOK, Positioned
  <2> QED
    BY <1>2, <2>1, <2>3 DEF Goto, JoinTypeInv, JoinTypeOK, joinTabs
<1> QED
  BY <1>1, <1>2

\* A row of group_join_requests that is inserted or decided is well typed.
LEMMA JoinRowTyping ==
  ASSUME TypeOK, HistoryInv, JoinTypeInv
  PROVE  /\ \A u \in Users :
              [applicant |-> u, status |-> "pending", decided_by |-> NoUser,
               after |-> Len(transfers)] \in JoinRow
         /\ \A row \in JoinRow, u \in Users : \A d :
              [row EXCEPT !.status = status(d), !.decided_by = u] \in JoinRow
<1>1. Len(transfers) \in 0..MaxTransfers
  BY BoundsAssumption DEF TypeOK, StoreTypeOK, HistoryInv, GiversOwned
<1> QED
  BY <1>1 DEF JoinRow, status

\* Every step keeps the join tables and the goroutines well typed.
LEMMA NextJoinTypeInv ==
  TypeOK /\ HistoryInv /\ JoinTypeInv /\ [JoinNext]_allVars => JoinTypeInv'
<1> SUFFICES ASSUME TypeOK, HistoryInv, JoinTypeInv, [JoinNext]_allVars PROVE JoinTypeInv'
  OBVIOUS
<1>1. CASE GroupStep \/ UNCHANGED allVars
  BY <1>1 DEF GroupStep, allVars, joinVars, joinTabs, JoinTypeInv, JoinTypeOK, Positioned
<1>2. ASSUME NEW t \in Threads, JoinStep(t) PROVE JoinTypeInv'
  <2>1. ASSUME NEW r \in JoinRequests, serveJoin(t, r) PROVE JoinTypeInv'
    <3>1. r # NoRequest /\ r.op \in {"key_package", "join", "decide"}
      BY JoinRequestsAssumption DEF JoinRequest, NoRequest
    <3>2. First(r.op) \in Calls /\ First(r.op) \in CallsOf(r.op)
      BY <3>1 DEF First, Calls, CallsOf
    <3>3. Positioned'
      BY <2>1, <3>1, <3>2 DEF serveJoin, JoinTypeInv, JoinTypeOK, Positioned
    <3> QED
      BY <2>1, <3>2, <3>3 DEF serveJoin, JoinTypeInv, JoinTypeOK, joinTabs
  <2>2. CASE rejectJoin(t)
    BY <2>2, MoveTyping DEF rejectJoin, JoinTypeInv, JoinTypeOK, joinTabs
  <2>3. CASE CreateKeyPackage(t)
    <3>1. jreq[t].kp_id \in KPIds /\ jreq[t].user \in Users
      BY <2>3, JoinRequestTyping DEF CreateKeyPackage
    <3> QED
      BY <2>3, <3>1, MoveTyping DEF CreateKeyPackage, JoinTypeInv, JoinTypeOK
  <2>4. CASE transferCheck(t) \/ GroupHasOwner(t) \/ IsGroupMember(t) \/ GetKeyPackage(t)
              \/ decideCheck(t) \/ OwnsJoinRequestBacklog(t)
    <3>1. CASE transferCheck(t) \/ GroupHasOwner(t) \/ IsGroupMember(t) \/ GetKeyPackage(t)
      <4>1. \E from, to \in CallsOf("join") : Goto(t, from, to)
        BY <3>1 DEF transferCheck, GroupHasOwner, IsGroupMember, GetKeyPackage, CallsOf
      <4> QED
        BY <4>1, MoveTyping
    <3>2. CASE decideCheck(t) \/ OwnsJoinRequestBacklog(t)
      <4>1. \E from, to \in CallsOf("decide") : Goto(t, from, to)
        BY <3>2 DEF decideCheck, OwnsJoinRequestBacklog, CallsOf
      <4> QED
        BY <4>1, MoveTyping
    <3> QED
      BY <2>4, <3>1, <3>2
  <2>5. CASE CreateJoinRequest(t)
    <3>1. jreq[t].request_id \in RequestIds /\ jreq[t].user \in Users
      BY <2>5, JoinRequestTyping DEF CreateJoinRequest
    <3> QED
      BY <2>5, <3>1, MoveTyping, JoinRowTyping DEF CreateJoinRequest, JoinTypeInv, JoinTypeOK
  <2>6. CASE DecideJoinRequest(t)
    <3> DEFINE q == jreq[t].request_id
    <3>1. q \in RequestIds /\ jreq[t].user \in Users
      BY <2>6, JoinRequestTyping DEF DecideJoinRequest
    <3>2. join_requests' = [join_requests EXCEPT ![q] =
            [join_requests[q] EXCEPT !.status = status(jreq[t].decision),
                                     !.decided_by = jreq[t].user]]
      BY <2>6 DEF DecideJoinRequest
    <3>3. join_requests' \in [RequestIds -> JoinRow]
      BY <3>1, <3>2, JoinRowTyping DEF JoinTypeInv, JoinTypeOK
    <3> QED
      BY <2>6, <3>3, MoveTyping DEF DecideJoinRequest, JoinTypeInv, JoinTypeOK
  <2> QED
    BY <1>2, <2>1, <2>2, <2>3, <2>4, <2>5, <2>6 DEF JoinStep
<1> QED
  BY <1>1, <1>2 DEF JoinNext

\* The tables start empty and no join request is served.
LEMMA InitJoinTypeInv == JoinInit => JoinTypeInv
<1> SUFFICES ASSUME JoinInit PROVE JoinTypeInv
  OBVIOUS
<1>1. NoRow \in JoinRow
  BY BoundsAssumption DEF NoRow, JoinRow
<1> QED
  BY <1>1 DEF JoinInit, JoinTypeInv, JoinTypeOK, Positioned

\* What every state of the composition satisfies.
JoinBaseInv == TypeOK /\ HistoryInv /\ JoinTypeInv

\* JoinBaseInv is inductive.
LEMMA JoinBase ==
  /\ JoinInit => JoinBaseInv
  /\ JoinBaseInv /\ [JoinNext]_allVars => JoinBaseInv'
<1>1. JoinInit => JoinBaseInv
  BY InitTypeOK, InitHistoryInv, InitJoinTypeInv DEF JoinInit, JoinBaseInv
<1>2. JoinBaseInv /\ [JoinNext]_allVars => JoinBaseInv'
  BY NextTypeOK, NextHistoryInv, NextJoinTypeInv, JoinNextIsServerStep DEF JoinBaseInv
<1> QED
  BY <1>1, <1>2

\* The handlers of key packages and join requests keep their tables well
\* typed: a request at a store call carries the fields the call reads.
THEOREM JoinTypeCorrect == JoinSpec => []JoinTypeOK
<1>1. JoinBaseInv => JoinTypeOK
  BY DEF JoinBaseInv, JoinTypeInv
<1> QED
  BY JoinBase, <1>1, PTL DEF JoinSpec

-----------------------------------------------------------------------------
(* Applications and decisions *)

\* Row q is inserted for applicant u, who has no pending row.
Inserted(q, u) ==
  /\ join_requests[q].status = "none"
  /\ \A p \in RequestIds :
       ~(join_requests[p].applicant = u /\ join_requests[p].status = "pending")
  /\ join_requests' = [join_requests EXCEPT ![q] =
       [applicant |-> u, status |-> "pending", decided_by |-> NoUser,
        after |-> Len(transfers)]]

\* Goroutine t decides the pending row q.
Decided(q, t, s) ==
  /\ jpc[t] = "update"
  /\ join_requests[q].status = "pending"
  /\ join_requests' = [join_requests EXCEPT ![q] =
       [join_requests[q] EXCEPT !.status = s, !.decided_by = jreq[t].user]]

\* A step leaves the rows of group_join_requests alone, inserts one where
\* there was none, or decides a pending one.
LEMMA JoinRowSteps ==
  ASSUME JoinBaseInv, [JoinNext]_allVars
  PROVE  \/ join_requests' = join_requests
         \/ \E q \in RequestIds, u \in Users : Inserted(q, u)
         \/ \E q \in RequestIds, t \in Threads, s \in {"approved", "denied"} : Decided(q, t, s)
<1>1. CASE GroupStep \/ UNCHANGED allVars
  BY <1>1 DEF GroupStep, allVars, joinVars, joinTabs
<1>2. ASSUME NEW t \in Threads, CreateJoinRequest(t)
      PROVE  \E q \in RequestIds, u \in Users : Inserted(q, u)
  <2>1. jreq[t].request_id \in RequestIds /\ jreq[t].user \in Users
    BY <1>2, JoinRequestTyping DEF CreateJoinRequest, JoinBaseInv
  <2> QED
    BY <1>2, <2>1 DEF CreateJoinRequest, Inserted
<1>3. ASSUME NEW t \in Threads, DecideJoinRequest(t)
      PROVE  \E q \in RequestIds, s \in {"approved", "denied"} : Decided(q, t, s)
  <2>1. jreq[t].request_id \in RequestIds
    BY <1>3, JoinRequestTyping DEF DecideJoinRequest, JoinBaseInv
  <2>2. status(jreq[t].decision) \in {"approved", "denied"}
    BY DEF status
  <2>3. Decided(jreq[t].request_id, t, status(jreq[t].decision))
    BY <1>3 DEF DecideJoinRequest, Decided
  <2> QED
    BY <2>1, <2>2, <2>3
<1>4. ASSUME NEW t \in Threads, JoinStep(t)
      PROVE  join_requests' = join_requests \/ CreateJoinRequest(t) \/ DecideJoinRequest(t)
  BY <1>4 DEF JoinStep, serveJoin, rejectJoin, CreateKeyPackage, transferCheck, GroupHasOwner,
     IsGroupMember, GetKeyPackage, decideCheck, OwnsJoinRequestBacklog, Goto, joinTabs
<1> QED
  BY <1>1, <1>2, <1>3, <1>4 DEF JoinNext

\* Two requests of one applicant are never pending together: the transaction
\* of CreateJoinRequest sees every row that was inserted before it.
THEOREM OnePendingRequestHolds == JoinSpec => []OnePendingRequest
<1>1. JoinInit => OnePendingRequest
  BY DEF JoinInit, OnePendingRequest, NoRow
<1>2. JoinBaseInv /\ OnePendingRequest /\ [JoinNext]_allVars => OnePendingRequest'
  <2> SUFFICES ASSUME JoinBaseInv, OnePendingRequest, [JoinNext]_allVars
               PROVE  OnePendingRequest'
    OBVIOUS
  <2>1. join_requests \in [RequestIds -> JoinRow]
    BY DEF JoinBaseInv, JoinTypeInv, JoinTypeOK
  <2>2. CASE join_requests' = join_requests
    BY <2>2 DEF OnePendingRequest
  <2>3. ASSUME NEW q \in RequestIds, NEW u \in Users, Inserted(q, u)
        PROVE  OnePendingRequest'
    BY <2>1, <2>3 DEF OnePendingRequest, Inserted
  <2>4. ASSUME NEW q \in RequestIds, NEW t \in Threads, NEW s \in {"approved", "denied"},
               Decided(q, t, s)
        PROVE  OnePendingRequest'
    <3>1. join_requests'[q].status # "pending"
      BY <2>1, <2>4 DEF JoinRow, Decided
    <3>2. \A p \in RequestIds \ {q} : join_requests'[p] = join_requests[p]
      BY <2>1, <2>4 DEF Decided
    <3> QED
      BY <3>1, <3>2 DEF OnePendingRequest
  <2> QED
    BY <2>2, <2>3, <2>4, JoinRowSteps
<1> QED
  BY JoinBase, <1>1, <1>2, PTL DEF JoinSpec

\* A decided request is never decided again, whatever the deciders checked
\* before: DecideJoinRequest looks at the status in its transaction.
THEOREM DecisionsAreFinalHolds == JoinSpec => DecisionsAreFinal
<1>1. JoinBaseInv /\ [JoinNext]_allVars =>
        [\A q \in RequestIds :
           join_requests[q].status \in {"approved", "denied"} =>
             join_requests'[q] = join_requests[q]]_allVars
  <2> SUFFICES ASSUME JoinBaseInv, [JoinNext]_allVars, NEW q \in RequestIds,
                      join_requests[q].status \in {"approved", "denied"}
               PROVE  join_requests'[q] = join_requests[q]
    OBVIOUS
  <2>1. join_requests \in [RequestIds -> JoinRow]
    BY DEF JoinBaseInv, JoinTypeInv, JoinTypeOK
  <2> QED
    BY <2>1, JoinRowSteps DEF Inserted, Decided
<1> QED
  BY JoinBase, <1>1, PTL DEF JoinSpec, DecisionsAreFinal

\* A decider on its way to the update, after the role check or the backlog
\* check, has owned the group, and so has every decider on record.
DeciderInv ==
  /\ \A t \in Threads : jpc[t] = "update" => OwnedOnce(jreq[t].user)
  /\ \A q \in RequestIds :
       join_requests[q].decided_by # NoUser => OwnedOnce(join_requests[q].decided_by)

\* A goroutine that comes to the update has just seen its caller own the
\* group now or give it up before.
LEMMA UpdatersOwned ==
  ASSUME JoinBaseInv, DeciderInv, [JoinNext]_allVars, NEW t \in Threads, jpc'[t] = "update"
  PROVE  \E u \in Users : u = jreq'[t].user /\ OwnedOnce(u)
<1> USE DEF JoinBaseInv
<1>1. ASSUME jpc[t] = "update", jreq'[t] = jreq[t]
      PROVE  \E u \in Users : u = jreq'[t].user /\ OwnedOnce(u)
  BY <1>1, JoinRequestTyping DEF DeciderInv
<1>2. CASE GroupStep \/ UNCHANGED allVars
  BY <1>1, <1>2 DEF GroupStep, allVars, joinVars
<1>3. ASSUME NEW s \in Threads, JoinStep(s), s # t
      PROVE  jpc[t] = "update" /\ jreq'[t] = jreq[t]
  BY <1>3 DEF JoinStep, serveJoin, rejectJoin, CreateKeyPackage, transferCheck, GroupHasOwner,
     IsGroupMember, GetKeyPackage, CreateJoinRequest, decideCheck, OwnsJoinRequestBacklog,
     DecideJoinRequest, Goto, FinishJoin, JoinTypeInv, JoinTypeOK
<1>4. CASE decideCheck(t)
  <2>1. jreq[t].user \in Users /\ jreq'[t] = jreq[t]
    BY <1>4, JoinRequestTyping DEF decideCheck, Goto
  <2>2. role[jreq[t].user] \in {"owner", "admin"}
    BY <1>4 DEF decideCheck, Goto, JoinTypeInv, JoinTypeOK
  <2>3. role[jreq[t].user] = "owner"
    BY <2>1, <2>2 DEF HistoryInv, GiversOwned
  <2> QED
    BY <2>1, <2>3, OwnersOwned
<1>5. CASE OwnsJoinRequestBacklog(t)
  <2>1. jreq[t].user \in Users /\ jreq'[t] = jreq[t]
    BY <1>5, JoinRequestTyping DEF OwnsJoinRequestBacklog, Goto
  <2>2. \E i \in DOMAIN transfers : transfers[i].prev_owner = jreq[t].user
    BY <1>5 DEF OwnsJoinRequestBacklog
  <2> QED
    BY <2>1, <2>2 DEF HistoryInv, GiversOwned
<1>6. ASSUME JoinStep(t), ~decideCheck(t), ~OwnsJoinRequestBacklog(t) PROVE FALSE
  <2>1. ASSUME NEW r \in JoinRequests, serveJoin(t, r) PROVE FALSE
    <3>1. r.op \in {"key_package", "join", "decide"}
      BY JoinRequestsAssumption DEF JoinRequest
    <3>2. First(r.op) # "update"
      BY <3>1 DEF First
    <3> QED
      BY <2>1, <3>2 DEF serveJoin, JoinTypeInv, JoinTypeOK
  <2> QED
    BY <1>6, <2>1 DEF JoinStep, rejectJoin, CreateKeyPackage, transferCheck, GroupHasOwner,
       IsGroupMember, GetKeyPackage, CreateJoinRequest, DecideJoinRequest, Goto, FinishJoin,
       JoinTypeInv, JoinTypeOK
<1> QED
  BY <1>1, <1>2, <1>3, <1>4, <1>5, <1>6 DEF JoinNext

\* The deciders on record, old and new, have owned the group.
LEMMA RecordedOwned ==
  ASSUME JoinBaseInv, DeciderInv, [JoinNext]_allVars, NEW q \in RequestIds,
         join_requests'[q].decided_by # NoUser
  PROVE  \E u \in Users : u = join_requests'[q].decided_by /\ OwnedOnce(u)
<1>1. join_requests \in [RequestIds -> JoinRow]
  BY DEF JoinBaseInv, JoinTypeInv, JoinTypeOK
<1>2. ASSUME join_requests'[q] = join_requests[q]
      PROVE  \E u \in Users : u = join_requests'[q].decided_by /\ OwnedOnce(u)
  BY <1>1, <1>2 DEF DeciderInv, JoinRow
<1>3. ASSUME NEW p \in RequestIds, NEW u \in Users, Inserted(p, u)
      PROVE  join_requests'[q] = join_requests[q]
  BY <1>1, <1>3 DEF Inserted
<1>4. ASSUME NEW p \in RequestIds, NEW t \in Threads, NEW s \in {"approved", "denied"},
             Decided(p, t, s)
      PROVE  \E u \in Users : u = join_requests'[q].decided_by /\ OwnedOnce(u)
  <2>1. jreq[t].user \in Users /\ OwnedOnce(jreq[t].user)
    BY <1>4, JoinRequestTyping DEF DeciderInv, JoinBaseInv, Decided
  <2>2. CASE p = q
    <3>1. join_requests'[q] =
            [join_requests[q] EXCEPT !.status = s, !.decided_by = jreq[t].user]
      BY <1>1, <1>4, <2>2 DEF Decided
    <3>2. join_requests'[q].decided_by = jreq[t].user
      BY <1>1, <3>1 DEF JoinRow
    <3> QED
      BY <2>1, <3>2
  <2>3. CASE p # q
    BY <1>1, <1>2, <1>4, <2>3 DEF Decided
  <2> QED
    BY <2>2, <2>3
<1> QED
  BY <1>2, <1>3, <1>4, JoinRowSteps

\* Only somebody who created the group or accepted to own it ever decides on
\* an applicant: the role that decideJoinRequest read may be out of date when
\* the decision is written, but it was an owner's, and the backlog exception
\* is for people whose transfers started from an owner's role.
THEOREM DeciderOwnedGroupHolds == JoinSpec => []DeciderOwnedGroup
<1>1. JoinInit => DeciderInv
  BY DEF JoinInit, DeciderInv, NoRow
<1>2. JoinBaseInv /\ DeciderInv /\ [JoinNext]_allVars => DeciderInv'
  <2> SUFFICES ASSUME JoinBaseInv, DeciderInv, [JoinNext]_allVars PROVE DeciderInv'
    OBVIOUS
  <2>1. ASSUME NEW u \in Users, OwnedOnce(u) PROVE OwnedOnce(u)'
    BY <2>1, OwnedOnceKept, JoinNextIsServerStep DEF JoinBaseInv
  <2>2. ASSUME NEW t \in Threads, jpc'[t] = "update"
        PROVE  \E u \in Users : u = jreq'[t].user /\ OwnedOnce(u)'
    BY <2>1, <2>2, UpdatersOwned
  <2>3. ASSUME NEW q \in RequestIds, join_requests'[q].decided_by # NoUser
        PROVE  \E u \in Users : u = join_requests'[q].decided_by /\ OwnedOnce(u)'
    BY <2>1, <2>3, RecordedOwned
  <2> QED
    BY <2>2, <2>3 DEF DeciderInv
<1>3. DeciderInv => DeciderOwnedGroup
  BY DEF DeciderInv, DeciderOwnedGroup, OwnedOnce
<1> QED
  BY JoinBase, <1>1, <1>2, <1>3, PTL DEF JoinSpec
=============================================================================

----------------------------- MODULE GroupServer ------------------------------
(***************************************************************************)
(* The group API (handler/http_groups.go, the group_message frame of       *)
(* handler/ws.go, the queue cleanup of handler/group_cleanup.go) over the  *)
(* tables of one group.                                                    *)
(*                                                                         *)
(* Every request runs in a goroutine of its own and is a series of store   *)
(* calls: reads that check the group row, a membership row or the queue,   *)
(* then one transaction that does the work.  Each call is atomic, the      *)
(* requests interleave between calls, and what a read saw may be stale     *)
(* when the transaction runs.                                              *)
(*                                                                         *)
(* A request is in Requests once it is decoded and its signature verified  *)
(* (the decode, size and hash checks change nothing).                      *)
(***************************************************************************)
EXTENDS GroupStore

CONSTANTS
  Threads,     \* request goroutines that run at the same time
  Requests,    \* the requests clients send
  NoMsg        \* "no message id", for requests that carry none

Ops == {"create", "dissolve", "leave", "kick", "clear", "transfer", "accept",
        "decline", "commit", "welcome", "message", "group_message", "list", "ack"}

\* other is the target of a kick or a welcome, the designee of a transfer or
\* the successor of a leave; last_seq is also the since_seq of a listing.
Request ==
  [op : Ops, user : Users, other : Users \cup {NoUser},
   kind : {"commit", "welcome"}, epoch : Epochs, parent_epoch : Epochs,
   msg_id : MsgIds \cup {NoMsg}, last_seq : 0..MaxSeq]

\* What the handlers insist on before their first store call: a message has
\* an id, three requests name another user (a leave may go without a
\* successor), and nobody kicks themselves.
WellFormed(r) ==
  /\ r.op \in {"kick", "transfer", "welcome"} => r.other # NoUser
  /\ r.op = "kick" => r.other # r.user
  /\ r.op \in {"message", "group_message"} => r.msg_id # NoMsg

ASSUME NoMsgAssumption == NoMsg \notin MsgIds
ASSUME RequestsAssumption ==
  /\ Requests \subseteq Request
  /\ \A r \in Requests : WellFormed(r)

NoRequest == [op |-> "none"]

VARIABLES
  req,       \* req[t] is the request goroutine t serves, or NoRequest
  pc,        \* pc[t] is the index of its next store call in Steps
  seen,      \* seen[t] is what its last read of the group row returned
  listing,   \* the last answer of listMessages
  sweeping   \* the cleanup worker listed this group in its current page

reqVars == <<req, pc, seen>>
vars    == <<storeVars, reqVars, listing, sweeping>>

\* The handlers that go straight to their transaction; all the others begin
\* with loadActiveGroup.
Direct == {"create", "accept", "decline"}

\* The store calls of a handler after that, in order; "act" is the
\* transaction.
Steps(op) ==
  CASE op \in Direct \cup {"leave"}          -> <<"act">>
    [] op = "dissolve"                       -> <<"owner", "act">>
    [] op = "transfer"                       -> <<"member", "owner", "act">>
    [] op = "clear"                          -> <<"group", "owner", "act">>
    [] op = "kick"                           -> <<"group", "owner", "group", "target", "act">>
    [] op \in {"commit", "welcome"}          -> <<"committer", "act">>
    [] op \in {"message", "group_message"}   -> <<"sender", "act">>
    [] op = "list"                           -> <<"member", "act">>
    [] op = "ack"                            -> <<"member", "max_seq", "act">>

MaxSteps == 5

TypeOK ==
  /\ StoreTypeOK
  /\ req \in [Threads -> Requests \cup {NoRequest}]
  /\ pc \in [Threads -> 1..MaxSteps]
  /\ \A t \in Threads :
       IF req[t] = NoRequest THEN pc[t] = 1 ELSE pc[t] <= Len(Steps(req[t].op))
  /\ seen \in [Threads -> [epoch : Epochs, min_seq : 0..MaxSeq]]
  /\ listing \in [since : 0..MaxSeq, floor : 0..MaxSeq, first : 0..MaxSeq]
  /\ sweeping \in BOOLEAN

Init ==
  /\ StoreInit
  /\ req = [t \in Threads |-> NoRequest]
  /\ pc = [t \in Threads |-> 1]
  /\ seen = [t \in Threads |-> [epoch |-> 0, min_seq |-> 0]]
  /\ listing = [since |-> 0, floor |-> 0, first |-> 0]
  /\ sweeping = FALSE

At(t, step) ==
  /\ req[t] # NoRequest
  /\ Steps(req[t].op)[pc[t]] = step

-----------------------------------------------------------------------------
(* The life of a request *)

\* GetGroup: missing and dissolved groups are refused.
loadActiveGroup(t) ==
  /\ gstate = "active"
  /\ seen' = [seen EXCEPT ![t] = [epoch |-> current_epoch, min_seq |-> min_seq]]

\* A goroutine starts on a request.  It shares nothing before its first store
\* call, so that call, when it only loads the group, is part of the step.
serve(t, r) ==
  /\ req[t] = NoRequest
  /\ req' = [req EXCEPT ![t] = r]
  /\ IF r.op \in Direct THEN UNCHANGED seen ELSE loadActiveGroup(t)
  /\ UNCHANGED <<storeVars, pc, listing, sweeping>>

Advance(t) ==
  /\ pc' = [pc EXCEPT ![t] = @ + 1]
  /\ UNCHANGED <<storeVars, req, listing, sweeping>>

Finish(t) ==
  /\ req' = [req EXCEPT ![t] = NoRequest]
  /\ pc' = [pc EXCEPT ![t] = 1]
  /\ seen' = [seen EXCEPT ![t] = [epoch |-> 0, min_seq |-> 0]]

\* The request ends and changes nothing: a check failed, the target of a kick
\* is gone (answered as a success), the transaction rolled back, the database
\* was unavailable, or the process died and the client lost its answer.
Reject(t) ==
  /\ req[t] # NoRequest
  /\ Finish(t)
  /\ UNCHANGED <<storeVars, listing, sweeping>>

\* kick and clear load the group again, to check the caller and the target.
groupCheck(t) ==
  /\ At(t, "group")
  /\ loadActiveGroup(t)
  /\ Advance(t)

\* GetGroupMember for the caller, which must have a membership row.
loadActiveGroupMember(t) ==
  /\ role[req[t].user] # "none"
  /\ UNCHANGED seen
  /\ Advance(t)

memberCheck(t) == At(t, "member") /\ loadActiveGroupMember(t)

\* kick, clear, transfer and dissolve are for owners.  A kick also spares
\* the group's creator.
ownerCheck(t) ==
  /\ At(t, "owner")
  /\ role[req[t].user] = "owner"
  /\ req[t].op = "kick" => req[t].other # creator
  /\ loadActiveGroupMember(t)

\* commits and welcomes are for owners and admins.
hasGroupRole(t) ==
  /\ At(t, "committer")
  /\ role[req[t].user] \in {"owner", "admin"}
  /\ loadActiveGroupMember(t)

\* Mutant: the group's epoch is not compared.
epochCheckJoinOnly(t) ==
  /\ At(t, "sender")
  /\ joined_epoch[req[t].user] <= req[t].epoch
  /\ loadActiveGroupMember(t)

\* A message is sealed for the epoch the group row showed, and not before
\* its sender joined.
epochCheck(t) ==
  /\ At(t, "sender")
  /\ joined_epoch[req[t].user] <= req[t].epoch
  /\ req[t].epoch = seen[t].epoch
  /\ loadActiveGroupMember(t)

\* The target of a kick must still be a member.
targetCheck(t) ==
  /\ At(t, "target")
  /\ role[req[t].other] # "none"
  /\ UNCHANGED seen
  /\ Advance(t)

\* Mutant: one seq beyond the queue may be acked.
maxSeqCheckOffByOne(t) ==
  /\ At(t, "max_seq")
  /\ req[t].last_seq <= MaxGroupMessageSeq + 1
  /\ UNCHANGED seen
  /\ Advance(t)

\* An ack may not run past the queue.
maxSeqCheck(t) ==
  /\ At(t, "max_seq")
  /\ req[t].last_seq <= MaxGroupMessageSeq
  /\ UNCHANGED seen
  /\ Advance(t)

-----------------------------------------------------------------------------
(* The handlers' transactions *)

Acts(t, op) ==
  /\ At(t, "act")
  /\ req[t].op = op
  /\ Finish(t)
  /\ UNCHANGED sweeping

createGroup(t) ==
  /\ Acts(t, "create")
  /\ CreateGroup(req[t].user)
  /\ UNCHANGED listing

dissolveGroup(t) ==
  /\ Acts(t, "dissolve")
  /\ DissolveGroup
  /\ UNCHANGED listing

leaveGroup(t) ==
  /\ Acts(t, "leave")
  /\ LeaveGroup(req[t].user, req[t].other)
  /\ UNCHANGED listing

kickMember(t) ==
  /\ Acts(t, "kick")
  /\ RemoveGroupMember(req[t].other)
  /\ UNCHANGED listing

clearPendingRemovals(t) ==
  /\ Acts(t, "clear")
  /\ ClearPendingRemovals
  /\ UNCHANGED listing

startOwnerTransfer(t) ==
  /\ Acts(t, "transfer")
  /\ CreateOwnerTransfer(req[t].user, req[t].other)
  /\ UNCHANGED listing

\* Neither the group's state nor the caller's membership is loaded first.
decideOwnerTransfer(t) ==
  /\ \/ Acts(t, "accept") /\ DecideOwnerTransfer(req[t].user, TRUE)
     \/ Acts(t, "decline") /\ DecideOwnerTransfer(req[t].user, FALSE)
  /\ UNCHANGED listing

createCommit(t) ==
  /\ Acts(t, "commit")
  /\ AppendGroupCommit(req[t].kind, req[t].epoch, req[t].parent_epoch)
  /\ UNCHANGED listing

createWelcome(t) ==
  /\ Acts(t, "welcome")
  /\ AppendWelcome(req[t].other, req[t].epoch)
  /\ UNCHANGED listing

sendMessage(t) ==
  /\ Acts(t, "message")
  /\ AppendGroupMessage(req[t].msg_id, req[t].epoch)
  /\ UNCHANGED listing

\* The WebSocket variant: the same checks and the same transaction.
handleGroupMessage(t) ==
  /\ Acts(t, "group_message")
  /\ AppendGroupMessage(req[t].msg_id, req[t].epoch)
  /\ UNCHANGED listing

\* since_seq is clamped up to the floor read with the group row; the answer
\* carries that floor.  The page limit cuts the rows' tail, so the first row
\* does not depend on it.
listMessages(t) ==
  /\ Acts(t, "list")
  /\ LET since == Max({req[t].last_seq, seen[t].min_seq})
         rows  == ListGroupMessages(since)
     IN listing' = [since |-> req[t].last_seq, floor |-> seen[t].min_seq,
                    first |-> IF rows = {} THEN 0 ELSE Min({m.seq : m \in rows})]
  /\ UNCHANGED storeVars

ackMessages(t) ==
  /\ Acts(t, "ack")
  /\ UpsertGroupCursor(req[t].user, req[t].last_seq)
  /\ UNCHANGED listing

-----------------------------------------------------------------------------
(* The queue cleanup worker *)

\* The worker reads a page of active groups, then reclaims them one by one.
ListActiveGroupIDsPage ==
  /\ ~sweeping
  /\ gstate = "active"
  /\ sweeping' = TRUE
  /\ UNCHANGED <<storeVars, reqVars, listing>>

cleanGroupQueuePage ==
  /\ sweeping
  /\ ReclaimGroupMessages
  /\ sweeping' = FALSE
  /\ UNCHANGED <<reqVars, listing>>

-----------------------------------------------------------------------------
Load(t) ==
  \/ groupCheck(t)
  \/ memberCheck(t)
  \/ ownerCheck(t)
  \/ hasGroupRole(t)
  \/ epochCheck(t)
  \/ targetCheck(t)
  \/ maxSeqCheck(t)

Act(t) ==
  \/ createGroup(t)
  \/ dissolveGroup(t)
  \/ leaveGroup(t)
  \/ kickMember(t)
  \/ clearPendingRemovals(t)
  \/ startOwnerTransfer(t)
  \/ decideOwnerTransfer(t)
  \/ createCommit(t)
  \/ createWelcome(t)
  \/ sendMessage(t)
  \/ handleGroupMessage(t)
  \/ listMessages(t)
  \/ ackMessages(t)

Worker ==
  \/ ListActiveGroupIDsPage
  \/ cleanGroupQueuePage

Next ==
  \/ \E t \in Threads :
       \/ \E r \in Requests : serve(t, r)
       \/ Load(t)
       \/ Act(t)
       \/ Reject(t)
  \/ Worker

Spec == Init /\ [][Next]_vars

-----------------------------------------------------------------------------
(* Ownership *)

\* Nobody owns the group without having agreed to: every owner is the
\* creator or the designee of a transfer that it accepted
\* (DecideOwnerTransfer; LeaveGroup promotes nobody).
OwnershipConfirmed ==
  \A u \in Owners :
    \/ u = creator
    \/ \E i \in DOMAIN transfers :
         transfers[i].designee = u /\ transfers[i].state = "accepted"

\* While every transfer row was inserted by the only owner with no other
\* transfer pending, the group never has two owners, and a pending transfer
\* is one the present owner, if there is one, can be demoted by.  The two
\* ways out are LeaveGroup's row next to a pending one, and a
\* CreateOwnerTransfer that runs after its caller was demoted.
OneOwnerUnlessOverlap ==
  (\A i \in DOMAIN transfers : transfers[i].rightful) =>
    /\ \A u, v \in Owners : u = v
    /\ \A i, j \in Pending : i = j
    /\ \A i \in Pending : Owners \subseteq {transfers[i].prev_owner}

\* An active group nobody owns and nobody is asked to own.
Abandoned == gstate = "active" /\ Owners = {} /\ Pending = {}

\* Leaving, accepting and declining never abandon a group: an owner who
\* leaves puts a successor in charge of the decision, and a decline without
\* an owner dissolves.  Only a kick's RemoveGroupMember can do it.
OnlyKickAbandons ==
  [][~Abandoned /\ Abandoned' => \E t \in Threads : kickMember(t)]_vars

\* Whoever disappears from the roster of a group that goes on is booked for
\* removal from the MLS tree in the same step, except by a kick, whose caller
\* has pushed the Remove commit before.
LeaverBooked ==
  [][\A u \in Members \ Members' :
       \/ u \in pending_removals'
       \/ gstate' = "dissolved"
       \/ \E t \in Threads : kickMember(t)]_vars

\* store/group.go: "so there are never two owners".
AtMostOneOwner == \A u, v \in Owners : u = v

\* handler/http_groups.go, kickMember: "The owner cannot be kicked (the group
\* would lose its only admin)".
OwnerNeverKicked ==
  [][\A t \in Threads : kickMember(t) => role[req[t].other] # "owner"]_vars

-----------------------------------------------------------------------------
(* MLS log *)

\* No fork: along the log the commits' epochs strictly increase and none is
\* ahead of current_epoch, whatever committers raced for the same parent.
CommitsAscend ==
  \A i \in DOMAIN mls_log :
    mls_log[i].kind # "welcome" =>
      /\ mls_log[i].epoch <= current_epoch
      /\ \A j \in 1..(i - 1) :
           mls_log[j].kind # "welcome" => mls_log[j].epoch < mls_log[i].epoch

\* A message is never sealed for an epoch the group has not reached: its
\* epoch is 0 or one the log records, even when the epoch the sender's
\* handler read is stale by the time AppendGroupMessage runs.
MessageEpochReached ==
  \A m \in messages :
    /\ m.epoch <= current_epoch
    /\ m.epoch = 0 \/ \E i \in DOMAIN mls_log : mls_log[i].epoch = m.epoch

\* The epochs of the rows that count as commits.
CommitEpochs ==
  {mls_log[i].epoch : i \in {j \in DOMAIN mls_log : mls_log[j].kind # "welcome"}}

Chain == INSTANCE EpochChain WITH
  Epoch <- Epochs, head <- current_epoch, commits <- CommitEpochs

\* The group row and the log together implement the abstract chain: whatever
\* requests race, current_epoch and the recorded commits change together, by
\* one commit at a time and only ahead of the head; a Welcome, a leave or a
\* dissolve never moves the epoch, and no commit disappears
\* (AppendGroupCommit, AppendWelcome).
ImplementsChain == Chain!Spec

-----------------------------------------------------------------------------
(* Message queue *)

\* Appends and both deletion rules leave a gapless run of seq numbers, each
\* used once (AppendGroupMessage, ReclaimGroupMessages).
QueueGapless ==
  /\ \A m, n \in messages : m.seq = n.seq => m = n
  /\ \A m, n \in messages : \A s \in m.seq..n.seq : \E k \in messages : k.seq = s

\* No ack, stored or about to be stored by a handler that passed its check,
\* is beyond both the queue and its floor, also when the queue is reclaimed
\* between the check (MaxGroupMessageSeq) and the write (UpsertGroupCursor):
\* an ack cannot run ahead of what was sent, seqs used anew after the queue
\* was emptied apart (RowsBelowFloorGone).
AckWithinQueue ==
  LET reached(n) == n <= min_seq \/ \E m \in messages : n <= m.seq
  IN /\ \A u \in Users : reached(cursor[u])
     /\ \A t \in Threads :
          req[t].op = "ack" /\ At(t, "act") => reached(req[t].last_seq)

\* Whatever row disappears, min_seq covers it in the same step, so a client
\* that compares its position with min_seq notices the loss.
FloorCoversDeletions ==
  [][\A m \in messages : m \in messages' \/ m.seq <= min_seq']_vars

\* An answer of listMessages may carry a floor that is out of date by the
\* time its rows are read, but a gap in front of its rows is covered by the
\* group's min_seq from then on: the client's next listing reports it.
GapCoveredByFloor ==
  \/ listing.first <= listing.since + 1
  \/ listing.first <= min_seq + 1

\* handler/http_groups.go, listMessages: "Rows below the bound are gone".
RowsBelowFloorGone == \A m \in messages : m.seq > min_seq
=============================================================================

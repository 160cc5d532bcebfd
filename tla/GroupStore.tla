------------------------------ MODULE GroupStore ------------------------------
(***************************************************************************)
(* The tables of one group (store/group.go) and the transactions on them.  *)
(*                                                                         *)
(* The store has a single SQLite connection (store.go:41), so every        *)
(* transaction, and every single statement, is one atomic step.  Tables of *)
(* different groups are independent: all statements carry a group_id.      *)
(*                                                                         *)
(* A transaction that returns an error rolls back and changes nothing.     *)
(* Each action below is the successful outcome: its first conjuncts are    *)
(* the conditions the code checks before it commits.                       *)
(***************************************************************************)
EXTENDS Integers, Sequences, FiniteSets, FiniteSetsExt

CONSTANTS
  Users,                   \* user ids that may ever belong to the group
  NoUser,                  \* "no user": the creator of a group not created yet
  MsgIds,                  \* client chosen message ids
  MaxGroupMembers,         \* member cap, 1000 in group.go:39
  GroupQueueMaxMessages,   \* queue retention cap, 10000 in group.go:35
  MaxEpoch,                \* bound: epochs a client names
  MaxSeq,                  \* bound: seq of a queued message
  MaxTransfers,            \* bound: rows of group_owner_transfers
  MaxLog                   \* bound: rows of group_mls_log

ASSUME NoUserAssumption == NoUser \notin Users
ASSUME CapsAssumption ==
  /\ MaxGroupMembers \in Nat \ {0}
  /\ GroupQueueMaxMessages \in Nat
ASSUME BoundsAssumption ==
  /\ MaxEpoch \in Nat
  /\ MaxSeq \in Nat
  /\ MaxTransfers \in Nat
  /\ MaxLog \in Nat

VARIABLES
  gstate,            \* groups.state; "none" before the row exists
  creator,           \* groups.creator
  current_epoch,     \* groups.current_epoch
  min_seq,           \* groups.min_seq
  role,              \* group_members.role; "none" for a user without a row
  joined_epoch,      \* group_members.joined_epoch; 0 for a user without a row
  cursor,            \* group_cursor.last_seq; an absent row reads as 0
  pending_removals,  \* group_pending_removals
  transfers,         \* group_owner_transfers, in id order
  mls_log,           \* group_mls_log, in seq order (no row is ever deleted)
  messages           \* group_messages

groupRow  == <<gstate, creator, current_epoch, min_seq>>
memberTab == <<role, joined_epoch>>
storeVars == <<groupRow, memberTab, cursor, pending_removals, transfers,
               mls_log, messages>>

Epochs         == 0..MaxEpoch
Seqs           == 1..MaxSeq
Roles          == {"owner", "admin", "member"}
TransferStates == {"pending", "accepted", "declined"}

\* One row of group_owner_transfers.  rightful is a history field, not a
\* column: the row was inserted while prev_owner was an owner, the only one,
\* and while no other transfer was pending.
OwnerTransfer ==
  [prev_owner : Users, designee : Users, state : TransferStates, rightful : BOOLEAN]

\* One row of group_mls_log.  "commit" stands for every kind but 'welcome';
\* the blob, its hash and its sender play no part here.
GroupMLSLogEntry ==
  [kind : {"commit", "welcome"}, epoch : Epochs, target : Users \cup {NoUser}]

\* One row of group_messages; the ciphertext and its sender are left out.
GroupMessage == [seq : Seqs, msg_id : MsgIds, epoch : Epochs]

Members == {u \in Users : role[u] # "none"}
Owners  == {u \in Users : role[u] = "owner"}
Pending == {i \in DOMAIN transfers : transfers[i].state = "pending"}

StoreTypeOK ==
  /\ gstate \in {"none", "active", "dissolved"}
  /\ creator \in Users \cup {NoUser}
  /\ current_epoch \in Epochs
  /\ min_seq \in 0..MaxSeq
  /\ role \in [Users -> Roles \cup {"none"}]
  /\ joined_epoch \in [Users -> Epochs]
  /\ cursor \in [Users -> 0..MaxSeq]
  /\ pending_removals \subseteq Users
  /\ transfers \in Seq(OwnerTransfer)
  /\ mls_log \in Seq(GroupMLSLogEntry)
  /\ messages \subseteq GroupMessage

StoreInit ==
  /\ gstate = "none"
  /\ creator = NoUser
  /\ current_epoch = 0
  /\ min_seq = 0
  /\ role = [u \in Users |-> "none"]
  /\ joined_epoch = [u \in Users |-> 0]
  /\ cursor = [u \in Users |-> 0]
  /\ pending_removals = {}
  /\ transfers = << >>
  /\ mls_log = << >>
  /\ messages = {}

-----------------------------------------------------------------------------
(* Group and membership rows *)

\* A fresh group: the row and its creator's owner membership.
CreateGroup(u) ==
  /\ gstate = "none"
  /\ gstate' = "active"
  /\ creator' = u
  /\ role' = [role EXCEPT ![u] = "owner"]
  /\ joined_epoch' = [joined_epoch EXCEPT ![u] = current_epoch]
  /\ UNCHANGED <<current_epoch, min_seq, cursor, pending_removals, transfers,
                 mls_log, messages>>

DissolveGroup ==
  /\ gstate' = "dissolved"
  /\ UNCHANGED <<creator, current_epoch, min_seq, memberTab, cursor,
                 pending_removals, transfers, mls_log, messages>>

\* The membership row and the ack cursor of u disappear together.
DeleteMember(u) ==
  /\ role' = [role EXCEPT ![u] = "none"]
  /\ joined_epoch' = [joined_epoch EXCEPT ![u] = 0]
  /\ cursor' = [cursor EXCEPT ![u] = 0]

RemoveGroupMember(u) ==
  /\ DeleteMember(u)
  /\ UNCHANGED <<groupRow, pending_removals, transfers, mls_log, messages>>

ClearPendingRemovals ==
  /\ pending_removals' = {}
  /\ UNCHANGED <<groupRow, memberTab, cursor, transfers, mls_log, messages>>

-----------------------------------------------------------------------------
(* Ownership *)

NewTransfer(prev, designee) ==
  [prev_owner |-> prev, designee |-> designee, state |-> "pending",
   rightful |-> Owners = {prev} /\ Pending = {}]

\* A user without a membership row "has left" already: nothing changes.
LeaveNotMember(u) ==
  /\ gstate # "none"
  /\ role[u] = "none"
  /\ UNCHANGED storeVars

\* The owner leaves an otherwise empty group: it is dissolved, and no MLS
\* removal is booked.
LeaveLastOwner(u) ==
  /\ role[u] = "owner"
  /\ Members \ {u} = {}
  /\ gstate' = "dissolved"
  /\ DeleteMember(u)
  /\ UNCHANGED <<creator, current_epoch, min_seq, pending_removals, transfers,
                 mls_log, messages>>

\* The owner leaves others behind: a named successor who is a member gets a
\* pending transfer, whatever other transfer is pending.
LeaveOwner(u, successor) ==
  /\ role[u] = "owner"
  /\ successor \in Members \ {u}
  /\ Len(transfers) < MaxTransfers
  /\ transfers' = Append(transfers, NewTransfer(u, successor))
  /\ DeleteMember(u)
  /\ pending_removals' = pending_removals \cup {u}
  /\ UNCHANGED <<groupRow, mls_log, messages>>

\* Mutant: the MLS removal is not booked.
LeaveMemberUnbooked(u) ==
  /\ role[u] \in {"member", "admin"}
  /\ DeleteMember(u)
  /\ UNCHANGED <<groupRow, pending_removals, transfers, mls_log, messages>>

LeaveMember(u) ==
  /\ role[u] \in {"member", "admin"}
  /\ DeleteMember(u)
  /\ pending_removals' = pending_removals \cup {u}
  /\ UNCHANGED <<groupRow, transfers, mls_log, messages>>

LeaveGroup(u, successor) ==
  \/ LeaveNotMember(u)
  \/ LeaveLastOwner(u)
  \/ LeaveOwner(u, successor)
  \/ LeaveMember(u)

\* Mutant: the designee becomes owner before confirming.
CreateTransferPromotes(prev, designee) ==
  /\ prev # designee
  /\ Pending = {}
  /\ role[designee] # "none"
  /\ Len(transfers) < MaxTransfers
  /\ transfers' = Append(transfers, NewTransfer(prev, designee))
  /\ role' = [role EXCEPT ![prev] = "member", ![designee] = "owner"]
  /\ UNCHANGED <<groupRow, joined_epoch, cursor, pending_removals, mls_log, messages>>

\* At most one plain transfer at a time, to another member.  prev is whoever
\* the handler says: the transaction does not look at its role.
CreateOwnerTransfer(prev, designee) ==
  /\ prev # designee
  /\ Pending = {}
  /\ role[designee] # "none"
  /\ Len(transfers) < MaxTransfers
  /\ transfers' = Append(transfers, NewTransfer(prev, designee))
  /\ UNCHANGED <<groupRow, memberTab, cursor, pending_removals, mls_log, messages>>

\* created_at DESC, id DESC: with a clock that does not run backwards, the
\* pending row with the highest id.
IsLatestPending(i) ==
  /\ i \in Pending
  /\ \A j \in Pending : j <= i

\* Mutant: the previous owner is not demoted.
AcceptWithoutDemotion(i, designee) ==
  /\ IsLatestPending(i)
  /\ transfers[i].designee = designee
  /\ role[designee] # "none"
  /\ role' = [role EXCEPT ![designee] = "owner"]
  /\ transfers' = [transfers EXCEPT ![i].state = "accepted"]
  /\ UNCHANGED <<groupRow, joined_epoch, cursor, pending_removals, mls_log, messages>>

\* The designee of the latest pending transfer accepts: demote the previous
\* owner if it still is one, then promote the designee.
AcceptOwnerTransfer(i, designee) ==
  /\ IsLatestPending(i)
  /\ transfers[i].designee = designee
  /\ role[designee] # "none"
  /\ LET prev == transfers[i].prev_owner
         demoted == IF role[prev] = "owner" THEN [role EXCEPT ![prev] = "member"] ELSE role
     IN role' = [demoted EXCEPT ![designee] = "owner"]
  /\ transfers' = [transfers EXCEPT ![i].state = "accepted"]
  /\ UNCHANGED <<groupRow, joined_epoch, cursor, pending_removals, mls_log, messages>>

\* Mutant: the transfer's new state is written to the group row.
DeclineMarksGroup(i, designee) ==
  /\ IsLatestPending(i)
  /\ transfers[i].designee = designee
  /\ gstate' = "declined"
  /\ transfers' = [transfers EXCEPT ![i].state = "declined"]
  /\ UNCHANGED <<creator, current_epoch, min_seq, memberTab, cursor,
                 pending_removals, mls_log, messages>>

\* Mutant: an ownerless group survives the decline.
DeclineKeepsGroup(i, designee) ==
  /\ IsLatestPending(i)
  /\ transfers[i].designee = designee
  /\ transfers' = [transfers EXCEPT ![i].state = "declined"]
  /\ UNCHANGED <<groupRow, memberTab, cursor, pending_removals, mls_log, messages>>

\* The designee declines: without an owner nobody could commit any more, so
\* the group is dissolved.  Declining does not need membership.
DeclineOwnerTransfer(i, designee) ==
  /\ IsLatestPending(i)
  /\ transfers[i].designee = designee
  /\ gstate' = IF Owners = {} THEN "dissolved" ELSE gstate
  /\ transfers' = [transfers EXCEPT ![i].state = "declined"]
  /\ UNCHANGED <<creator, current_epoch, min_seq, memberTab, cursor,
                 pending_removals, mls_log, messages>>

DecideOwnerTransfer(designee, accept) ==
  \E i \in DOMAIN transfers :
    IF accept THEN AcceptOwnerTransfer(i, designee) ELSE DeclineOwnerTransfer(i, designee)

-----------------------------------------------------------------------------
(* MLS log *)

LogEntry(kind, epoch, target) == [kind |-> kind, epoch |-> epoch, target |-> target]

\* Fork guard: a non-welcome row for the epoch already exists.
CommitExists(epoch) ==
  \E i \in DOMAIN mls_log : mls_log[i].epoch = epoch /\ mls_log[i].kind # "welcome"

\* Mutant: only the fork guard and the parent are checked.
CommitAnyEpoch(kind, epoch, parent_epoch) ==
  /\ gstate # "none"
  /\ ~CommitExists(epoch)
  /\ parent_epoch = current_epoch
  /\ Len(mls_log) < MaxLog
  /\ mls_log' = Append(mls_log, LogEntry(kind, epoch, NoUser))
  /\ current_epoch' = epoch
  /\ UNCHANGED <<gstate, creator, min_seq, memberTab, cursor, pending_removals,
                 transfers, messages>>

\* Compare and set on current_epoch.  The kind is the client's.
AppendGroupCommit(kind, epoch, parent_epoch) ==
  /\ gstate # "none"
  /\ ~CommitExists(epoch)
  /\ parent_epoch = current_epoch
  /\ epoch > current_epoch
  /\ Len(mls_log) < MaxLog
  /\ mls_log' = Append(mls_log, LogEntry(kind, epoch, NoUser))
  /\ current_epoch' = epoch
  /\ UNCHANGED <<gstate, creator, min_seq, memberTab, cursor, pending_removals,
                 transfers, messages>>

\* The Welcome is logged and its target becomes a member at that epoch; a
\* target that already is a member keeps its row.
AppendWelcome(target, epoch) ==
  /\ gstate # "none"
  /\ target \in Members \/ Cardinality(Members) < MaxGroupMembers
  /\ Len(mls_log) < MaxLog
  /\ mls_log' = Append(mls_log, LogEntry("welcome", epoch, target))
  /\ IF target \in Members
       THEN UNCHANGED memberTab
       ELSE /\ role' = [role EXCEPT ![target] = "member"]
            /\ joined_epoch' = [joined_epoch EXCEPT ![target] = epoch]
  /\ UNCHANGED <<groupRow, cursor, pending_removals, transfers, messages>>

-----------------------------------------------------------------------------
(* Message queue *)

MaxGroupMessageSeq ==
  IF messages = {} THEN 0 ELSE Max({m.seq : m \in messages})

\* Mutant: seq is COUNT(*)+1.
AppendAtCount(msg_id, epoch) ==
  /\ gstate # "none"
  /\ \A m \in messages : m.msg_id # msg_id
  /\ Cardinality(messages) < MaxSeq
  /\ messages' = messages \cup
       {[seq |-> Cardinality(messages) + 1, msg_id |-> msg_id, epoch |-> epoch]}
  /\ UNCHANGED <<groupRow, memberTab, cursor, pending_removals, transfers, mls_log>>

\* seq is MAX(seq)+1 over the rows still queued, 1 for an empty queue; a
\* msg_id is a duplicate only while its row is queued.
AppendGroupMessage(msg_id, epoch) ==
  /\ gstate # "none"
  /\ \A m \in messages : m.msg_id # msg_id
  /\ MaxGroupMessageSeq < MaxSeq
  /\ messages' = messages \cup
       {[seq |-> MaxGroupMessageSeq + 1, msg_id |-> msg_id, epoch |-> epoch]}
  /\ UNCHANGED <<groupRow, memberTab, cursor, pending_removals, transfers, mls_log>>

\* The rows a client sees that asks for seq > since.
ListGroupMessages(since) == {m \in messages : m.seq > since}

\* The cursor only moves up.  Membership is not looked at.
UpsertGroupCursor(u, last_seq) ==
  /\ cursor' = [cursor EXCEPT ![u] = IF last_seq > @ THEN last_seq ELSE @]
  /\ UNCHANGED <<groupRow, memberTab, pending_removals, transfers, mls_log, messages>>

\* The seq every current member has acked; an empty roster gives 0.
SafeSeq == IF Members = {} THEN 0 ELSE Min({cursor[u] : u \in Members})

\* The seq of the newest row with GroupQueueMaxMessages rows above it, the
\* last one to drop of a queue over the cap; 0 when the cap holds.
CapCutoff(rows) ==
  Max({0} \cup {s \in {m.seq : m \in rows} :
                  Cardinality({m \in rows : m.seq > s}) >= GroupQueueMaxMessages})

\* Mutant: min_seq follows the acks and not the cap.
ReclaimFloorIgnoresCap ==
  /\ gstate # "none"
  /\ LET unacked == {m \in messages : m.seq > SafeSeq}
     IN messages' = {m \in unacked : m.seq > CapCutoff(unacked)}
  /\ min_seq' = Max({min_seq, SafeSeq})
  /\ UNCHANGED <<gstate, creator, current_epoch, memberTab, cursor,
                 pending_removals, transfers, mls_log>>

\* One retention pass: drop what everyone acked, then the oldest rows over
\* the cap, and raise min_seq with the deletions.
ReclaimGroupMessages ==
  /\ gstate # "none"
  /\ LET unacked == {m \in messages : m.seq > SafeSeq}
         cutoff  == CapCutoff(unacked)
     IN /\ messages' = {m \in unacked : m.seq > cutoff}
        /\ min_seq' = Max({min_seq, SafeSeq, cutoff})
  /\ UNCHANGED <<gstate, creator, current_epoch, memberTab, cursor,
                 pending_removals, transfers, mls_log>>

=============================================================================

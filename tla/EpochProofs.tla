----------------------------- MODULE EpochProofs ------------------------------
(***************************************************************************)
(* The MLS log never forks, and no message is sealed for an epoch that the *)
(* group has not reached.                                                  *)
(***************************************************************************)
EXTENDS GroupProofs

-----------------------------------------------------------------------------
(* The log *)

\* One of the two appends, of a row for epoch e.
LogAppend(e) ==
  \/ \E k \in {"commit", "welcome"}, p \in Epochs : AppendGroupCommit(k, e, p)
  \/ \E u \in Users : AppendWelcome(u, e)

\* A store transaction leaves log and epoch alone, or is one of the two
\* appends.
LEMMA LogSteps ==
  ASSUME StoreTypeOK, StoreNext
  PROVE  \/ UNCHANGED <<mls_log, current_epoch>>
         \/ \E e \in Epochs : LogAppend(e)
<1>1. ASSUME NEW u \in Users, NEW v \in Users \cup {NoUser}, LeaveGroup(u, v)
      PROVE  UNCHANGED <<mls_log, current_epoch>>
  BY <1>1 DEF LeaveGroup, LeaveNotMember, LeaveLastOwner, LeaveOwner, LeaveMember, storeVars,
              groupRow
<1>2. ASSUME NEW u \in Users, NEW accept \in BOOLEAN, DecideOwnerTransfer(u, accept)
      PROVE  UNCHANGED <<mls_log, current_epoch>>
  BY <1>2 DEF DecideOwnerTransfer, AcceptOwnerTransfer, DeclineOwnerTransfer, groupRow
<1> QED
  BY <1>1, <1>2
     DEF StoreNext, KickFreeNext, CreateGroup, RemoveGroupMember, CreateOwnerTransfer,
         UpsertGroupCursor, DissolveGroup, ClearPendingRemovals, AppendGroupMessage,
         ReclaimGroupMessages, groupRow, LogAppend

\* Both appends add one row with the given kind and epoch at the end; a
\* commit also moves current_epoch up to its epoch.
LEMMA LogAppends ==
  ASSUME StoreTypeOK, NEW e \in Epochs, LogAppend(e)
  PROVE  /\ DOMAIN mls_log = 1..Len(mls_log) /\ Len(mls_log) \in Nat
         /\ DOMAIN mls_log' = 1..(Len(mls_log) + 1)
         /\ \A i \in DOMAIN mls_log : mls_log'[i] = mls_log[i]
         /\ mls_log'[Len(mls_log) + 1].epoch = e
         /\ \/ current_epoch < e /\ current_epoch' = e
            \/ /\ mls_log'[Len(mls_log) + 1].kind = "welcome"
               /\ current_epoch' = current_epoch
<1>1. mls_log \in Seq(GroupMLSLogEntry)
  BY DEF StoreTypeOK
<1> DEFINE Appended(x) ==
             /\ mls_log' = Append(mls_log, x)
             /\ x.epoch = e
             /\ \/ current_epoch < e /\ current_epoch' = e
                \/ x.kind = "welcome" /\ current_epoch' = current_epoch
<1>2. PICK x \in GroupMLSLogEntry : Appended(x)
  <2>1. ASSUME NEW k \in {"commit", "welcome"}, NEW p \in Epochs, AppendGroupCommit(k, e, p)
        PROVE  \E x \in GroupMLSLogEntry : Appended(x)
    <3>1. LogEntry(k, e, NoUser) \in GroupMLSLogEntry /\ LogEntry(k, e, NoUser).epoch = e
      BY DEF LogEntry, GroupMLSLogEntry
    <3>2. current_epoch < e
      BY <2>1 DEF AppendGroupCommit, StoreTypeOK, Epochs
    <3> QED
      BY <2>1, <3>1, <3>2 DEF AppendGroupCommit
  <2>2. ASSUME NEW u \in Users, AppendWelcome(u, e)
        PROVE  \E x \in GroupMLSLogEntry : Appended(x)
    <3>1. /\ LogEntry("welcome", e, u) \in GroupMLSLogEntry
          /\ LogEntry("welcome", e, u).epoch = e
          /\ LogEntry("welcome", e, u).kind = "welcome"
      BY DEF LogEntry, GroupMLSLogEntry
    <3> QED
      BY <2>2, <3>1 DEF AppendWelcome, groupRow
  <2> QED
    BY <2>1, <2>2 DEF LogAppend
<1>3. /\ DOMAIN mls_log = 1..Len(mls_log) /\ Len(mls_log) \in Nat
      /\ DOMAIN mls_log' = 1..(Len(mls_log) + 1)
      /\ \A i \in DOMAIN mls_log : mls_log'[i] = mls_log[i]
      /\ mls_log'[Len(mls_log) + 1] = x
  BY <1>1, <1>2
<1> QED
  BY <1>2, <1>3

-----------------------------------------------------------------------------
(* No fork *)

\* An append keeps the commits in ascending order: a commit's epoch is above
\* current_epoch, which no earlier commit exceeds.
LEMMA AppendKeepsAscent ==
  ASSUME StoreTypeOK, CommitsAscend, NEW e \in Epochs, LogAppend(e)
  PROVE  CommitsAscend'
<1> DEFINE n == Len(mls_log)
<1>1. /\ DOMAIN mls_log = 1..n /\ n \in Nat
      /\ DOMAIN mls_log' = 1..(n + 1)
      /\ \A i \in DOMAIN mls_log : mls_log'[i] = mls_log[i]
      /\ mls_log'[n + 1].epoch = e
      /\ \/ current_epoch < e /\ current_epoch' = e
         \/ mls_log'[n + 1].kind = "welcome" /\ current_epoch' = current_epoch
  BY LogAppends
<1> HIDE DEF n
<1>2. /\ current_epoch \in Nat /\ e \in Nat
      /\ \A i \in 1..n : mls_log[i].epoch \in Nat
  <2>1. \A i \in 1..n : mls_log[i] \in GroupMLSLogEntry
    BY <1>1 DEF StoreTypeOK
  <2> QED
    BY <2>1, BoundsAssumption DEF StoreTypeOK, GroupMLSLogEntry, Epochs
<1> SUFFICES ASSUME NEW i \in 1..(n + 1), mls_log'[i].kind # "welcome"
             PROVE  /\ mls_log'[i].epoch <= current_epoch'
                    /\ \A j \in 1..(i - 1) :
                         mls_log'[j].kind # "welcome" => mls_log'[j].epoch < mls_log'[i].epoch
  BY <1>1 DEF CommitsAscend
<1>3. \A j \in 1..(i - 1) : j \in 1..n /\ mls_log'[j] = mls_log[j]
  BY <1>1
<1>4. CASE i \in 1..n
  <2>1. mls_log'[i] = mls_log[i] /\ mls_log[i].epoch <= current_epoch
    BY <1>1, <1>4 DEF CommitsAscend
  <2>2. \A j \in 1..(i - 1) :
          mls_log[j].kind # "welcome" => mls_log[j].epoch < mls_log[i].epoch
    BY <1>1, <1>4, <2>1 DEF CommitsAscend
  <2> QED
    BY <1>1, <1>2, <1>3, <1>4, <2>1, <2>2
<1>5. CASE i = n + 1
  <2>1. current_epoch < e /\ current_epoch' = e
    BY <1>1, <1>5
  <2>2. \A j \in 1..n : mls_log[j].kind # "welcome" => mls_log[j].epoch <= current_epoch
    BY <1>1 DEF CommitsAscend
  <2> QED
    BY <1>1, <1>2, <1>3, <1>5, <2>1, <2>2
<1> QED
  BY <1>1, <1>4, <1>5

\* The commits of a group never fork, for any number of racing committers:
\* AppendGroupCommit is a compare and set on current_epoch.
THEOREM NoFork == Spec => []CommitsAscend
<1>1. Init => CommitsAscend
  BY DEF Init, StoreInit, CommitsAscend
<1>2. TypeOK /\ CommitsAscend /\ [Next]_vars => CommitsAscend'
  <2> SUFFICES ASSUME TypeOK, CommitsAscend, [Next]_vars PROVE CommitsAscend'
    OBVIOUS
  <2>1. CASE UNCHANGED <<mls_log, current_epoch>>
    BY <2>1 DEF CommitsAscend
  <2>2. CASE StoreNext
    BY <2>1, <2>2, LogSteps, AppendKeepsAscent DEF TypeOK
  <2>3. CASE UNCHANGED storeVars
    BY <2>1, <2>3 DEF storeVars, groupRow
  <2> QED
    BY <2>2, <2>3, ServerStepIsStoreStep
<1> QED
  BY <1>1, <1>2, TypeCorrect, PTL DEF Spec

-----------------------------------------------------------------------------
(* The abstract chain *)

\* An append is a commit of the abstract chain, or changes nothing there.
LEMMA AppendIsCommit ==
  ASSUME StoreTypeOK, NEW e \in Epochs, LogAppend(e)
  PROVE  Chain!Commit(e) \/ UNCHANGED <<current_epoch, CommitEpochs>>
<1> DEFINE n == Len(mls_log)
<1>1. /\ DOMAIN mls_log = 1..n /\ n \in Nat
      /\ DOMAIN mls_log' = 1..(n + 1)
      /\ \A i \in DOMAIN mls_log : mls_log'[i] = mls_log[i]
      /\ mls_log'[n + 1].epoch = e
      /\ \/ current_epoch < e /\ current_epoch' = e
         \/ mls_log'[n + 1].kind = "welcome" /\ current_epoch' = current_epoch
  BY LogAppends
<1> HIDE DEF n
<1>2. \A i \in 1..(n + 1) : i \in 1..n \/ i = n + 1
  BY <1>1
<1>3. 1..n \subseteq 1..(n + 1) /\ n + 1 \in 1..(n + 1)
  BY <1>1
<1>4. CASE mls_log'[n + 1].kind = "welcome"
  <2>1. \A x : x \in CommitEpochs' <=> x \in CommitEpochs
    BY <1>1, <1>2, <1>3, <1>4 DEF CommitEpochs
  <2>2. CommitEpochs' = CommitEpochs
    BY <2>1
  <2> QED
    BY <1>1, <2>2 DEF Chain!Commit, StoreTypeOK, Epochs
<1>5. CASE mls_log'[n + 1].kind # "welcome"
  <2>1. \A x : x \in CommitEpochs' <=> x \in CommitEpochs \/ x = e
    BY <1>1, <1>2, <1>3, <1>5 DEF CommitEpochs
  <2>2. CommitEpochs' = CommitEpochs \cup {e}
    BY <2>1
  <2>3. current_epoch < e /\ current_epoch' = e
    BY <1>1, <1>5
  <2> QED
    BY <2>2, <2>3 DEF Chain!Commit, StoreTypeOK, Epochs
<1> QED
  BY <1>4, <1>5

\* The group server implements the abstract chain: every step of every
\* request moves current_epoch and the recorded commits forward together, by
\* one commit, or leaves both alone.
THEOREM ChainRefinement == Spec => ImplementsChain
<1>1. Init => Chain!Init
  BY DEF Init, StoreInit, Chain!Init, CommitEpochs
<1>2. TypeOK /\ [Next]_vars => [Chain!Next]_(Chain!chainVars)
  <2> SUFFICES ASSUME TypeOK, [Next]_vars PROVE [Chain!Next]_(Chain!chainVars)
    OBVIOUS
  <2>1. CASE UNCHANGED <<mls_log, current_epoch>>
    <3>1. CommitEpochs' = CommitEpochs
      BY <2>1 DEF CommitEpochs
    <3> QED
      BY <2>1, <3>1 DEF Chain!chainVars
  <2>2. ASSUME NEW e \in Epochs, LogAppend(e) PROVE [Chain!Next]_(Chain!chainVars)
    BY <2>2, AppendIsCommit DEF TypeOK, Chain!Next, Chain!chainVars
  <2>3. CASE StoreNext
    BY <2>1, <2>2, <2>3, LogSteps DEF TypeOK
  <2>4. CASE UNCHANGED storeVars
    BY <2>1, <2>4 DEF storeVars, groupRow
  <2> QED
    BY <2>3, <2>4, ServerStepIsStoreStep
<1> QED
  BY <1>1, <1>2, TypeCorrect, PTL DEF Spec, ImplementsChain, Chain!Spec

-----------------------------------------------------------------------------
(* Messages and epochs *)

\* Epoch e is not ahead of the group, and it is the first one or the log has
\* a row for it.
Reached(e) ==
  /\ e <= current_epoch
  /\ e = 0 \/ \E i \in DOMAIN mls_log : mls_log[i].epoch = e

\* Goroutine t has passed the epoch check of a message and is about to append.
Sending(t) ==
  /\ req[t] # NoRequest
  /\ req[t].op \in {"message", "group_message"}
  /\ pc[t] = 2

\* The inductive invariant: what a handler remembers of the group row, and
\* what it is about to write, stays reached while the group moves on.
EpochInv ==
  /\ Reached(current_epoch)
  /\ MessageEpochReached
  /\ \A t \in Threads : Reached(seen[t].epoch)
  /\ \A t \in Threads : Sending(t) => Reached(req[t].epoch)

\* An epoch once reached stays reached, and the present epoch always is.
LEMMA ReachedStays ==
  ASSUME TypeOK, [Next]_vars, Reached(current_epoch)
  PROVE  /\ \A x \in Epochs : Reached(x) => Reached(x)'
         /\ Reached(current_epoch)'
<1>1. CASE UNCHANGED <<mls_log, current_epoch>>
  BY <1>1 DEF Reached
<1>2. ASSUME NEW e \in Epochs, LogAppend(e)
      PROVE  /\ \A x \in Epochs : Reached(x) => Reached(x)'
             /\ Reached(current_epoch)'
  <2> DEFINE n == Len(mls_log)
  <2>1. /\ DOMAIN mls_log = 1..n /\ n \in Nat
        /\ DOMAIN mls_log' = 1..(n + 1)
        /\ \A i \in DOMAIN mls_log : mls_log'[i] = mls_log[i]
        /\ mls_log'[n + 1].epoch = e
        /\ \/ current_epoch < e /\ current_epoch' = e
           \/ current_epoch' = current_epoch
    BY <1>2, LogAppends DEF TypeOK
  <2> HIDE DEF n
  <2>2. n + 1 \in DOMAIN mls_log' /\ \A i \in DOMAIN mls_log : i \in DOMAIN mls_log'
    BY <2>1
  <2>3. current_epoch \in Nat /\ current_epoch' \in Nat /\ current_epoch <= current_epoch'
    BY <2>1, BoundsAssumption DEF TypeOK, StoreTypeOK, Epochs
  <2>4. ASSUME NEW x \in Epochs, Reached(x) PROVE Reached(x)'
    <3>1. x <= current_epoch'
      BY <2>3, <2>4, BoundsAssumption DEF Reached, Epochs
    <3> QED
      BY <2>1, <2>2, <2>4, <3>1 DEF Reached
  <2>5. Reached(current_epoch)'
    BY <2>1, <2>2, <2>3 DEF Reached
  <2> QED
    BY <2>4, <2>5
<1> QED
  BY <1>1, <1>2, ServerStepIsStoreStep, LogSteps DEF TypeOK, storeVars, groupRow

\* The two steps of a message handler after the group row is loaded.
LEMMA SenderSteps ==
  ASSUME TypeOK, NEW t \in Threads, req[t] # NoRequest,
         req[t].op \in {"message", "group_message"}
  PROVE  \/ pc[t] = 1 /\ Steps(req[t].op)[pc[t]] = "sender"
         \/ pc[t] = 2 /\ Steps(req[t].op)[pc[t]] = "act"
<1>1. Steps(req[t].op) = <<"sender", "act">>
  BY DEF Steps, Direct
<1>2. pc[t] \in 1..MaxSteps /\ pc[t] <= Len(Steps(req[t].op))
  BY DEF TypeOK
<1> QED
  BY <1>1, <1>2 DEF MaxSteps

\* A check of the handlers: the only one that brings a goroutine to the
\* append compares the request's epoch with the one it read.
LEMMA LoadKeepsEpochs ==
  ASSUME TypeOK, EpochInv, NEW t \in Threads, Load(t)
  PROVE  EpochInv'
<1>1. UNCHANGED <<mls_log, current_epoch, messages, req>> /\ Advance(t)
  BY DEF Load, groupCheck, memberCheck, ownerCheck, hasGroupRole, epochCheck,
         targetCheck, maxSeqCheck, loadActiveGroupMember, Advance, storeVars, groupRow
<1>2. UNCHANGED seen \/ loadActiveGroup(t)
  BY DEF Load, groupCheck, memberCheck, ownerCheck, hasGroupRole, epochCheck,
         targetCheck, maxSeqCheck, loadActiveGroupMember
<1>3. ASSUME NEW u \in Threads PROVE Reached(seen[u].epoch)'
  <2>1. seen'[u].epoch \in {seen[u].epoch, current_epoch}
    <3>1. seen \in [Threads -> [epoch : Epochs, min_seq : 0..MaxSeq]]
      BY DEF TypeOK
    <3> QED
      BY <1>2, <3>1 DEF loadActiveGroup
  <2>2. Reached(seen[u].epoch) /\ Reached(current_epoch)
    BY DEF EpochInv
  <2> QED
    BY <1>1, <2>1, <2>2 DEF Reached
<1>4. ASSUME NEW u \in Threads, Sending(u)' PROVE Reached(req[u].epoch)'
  <2>1. CASE u = t
    <3>1. /\ req[t] # NoRequest /\ req[t].op \in {"message", "group_message"}
          /\ pc'[t] = 2
      BY <1>1, <1>4, <2>1 DEF Sending
    <3>2. pc'[t] = pc[t] + 1
      BY <1>1 DEF Advance, TypeOK
    <3>3. Steps(req[t].op)[pc[t]] = "sender"
      BY <3>1, <3>2, SenderSteps
    <3>4. epochCheck(t)
      BY <3>3 DEF Load, groupCheck, memberCheck, ownerCheck, hasGroupRole, targetCheck,
                  maxSeqCheck, At
    <3> QED
      BY <1>1, <2>1, <3>4 DEF epochCheck, EpochInv, Reached
  <2>2. CASE u # t
    BY <1>1, <1>4, <2>2 DEF Sending, EpochInv, Reached, Advance, TypeOK
  <2> QED
    BY <2>1, <2>2
<1> QED
  BY <1>1, <1>3, <1>4 DEF EpochInv, Reached, MessageEpochReached

\* A request that ends forgets what it read.
LEMMA FinishKeepsEpochs ==
  ASSUME TypeOK, EpochInv, [Next]_vars, NEW t \in Threads, Finish(t)
  PROVE  /\ \A u \in Threads : Reached(seen[u].epoch)'
         /\ \A u \in Threads : Sending(u)' => Reached(req[u].epoch)'
<1>1. /\ \A x \in Epochs : Reached(x) => Reached(x)'
      /\ Reached(current_epoch)'
  BY ReachedStays DEF EpochInv
<1>2. Reached(0)'
  <2>1. current_epoch' \in Nat
    BY NextTypeOK, BoundsAssumption DEF TypeOK, StoreTypeOK, Epochs
  <2> QED
    BY <2>1 DEF Reached
<1>3. ASSUME NEW u \in Threads PROVE Reached(seen[u].epoch)'
  <2>1. CASE u = t
    BY <1>2, <2>1 DEF Finish, TypeOK, Reached
  <2>2. CASE u # t
    <3>1. seen'[u] = seen[u] /\ seen[u].epoch \in Epochs
      BY <2>2 DEF Finish, TypeOK
    <3>2. Reached(seen[u].epoch)
      BY DEF EpochInv
    <3> QED
      BY <1>1, <3>1, <3>2 DEF Reached
  <2> QED
    BY <2>1, <2>2
<1>4. ASSUME NEW u \in Threads, Sending(u)' PROVE Reached(req[u].epoch)'
  <2>1. u # t /\ req'[u] = req[u] /\ pc'[u] = pc[u]
    BY <1>4 DEF Sending, Finish, TypeOK
  <2>2. Reached(req[u].epoch) /\ req[u].epoch \in Epochs
    BY <1>4, <2>1, RequestTyping DEF Sending, EpochInv
  <2> QED
    BY <1>1, <2>1, <2>2 DEF Reached
<1> QED
  BY <1>3, <1>4

\* A request that starts is before its checks.
LEMMA ServeKeepsEpochs ==
  ASSUME TypeOK, EpochInv, NEW t \in Threads, NEW r \in Requests, serve(t, r)
  PROVE  EpochInv'
<1>1. UNCHANGED <<mls_log, current_epoch, messages, pc>> /\ req[t] = NoRequest /\ pc[t] = 1
  BY DEF serve, storeVars, groupRow, TypeOK
<1>2. ASSUME NEW u \in Threads PROVE Reached(seen[u].epoch)'
  <2>1. seen'[u].epoch \in {seen[u].epoch, current_epoch}
    <3>1. seen \in [Threads -> [epoch : Epochs, min_seq : 0..MaxSeq]]
      BY DEF TypeOK
    <3>2. UNCHANGED seen \/ loadActiveGroup(t)
      BY DEF serve
    <3> QED
      BY <3>1, <3>2 DEF loadActiveGroup
  <2>2. Reached(seen[u].epoch) /\ Reached(current_epoch)
    BY DEF EpochInv
  <2> QED
    BY <1>1, <2>1, <2>2 DEF Reached
<1>3. ASSUME NEW u \in Threads, Sending(u)' PROVE Reached(req[u].epoch)'
  <2>1. u # t /\ req'[u] = req[u]
    BY <1>1, <1>3 DEF Sending, serve, TypeOK
  <2>2. Reached(req[u].epoch)
    BY <1>1, <1>3, <2>1 DEF Sending, EpochInv
  <2> QED
    BY <1>1, <2>1, <2>2 DEF Reached
<1> QED
  BY <1>1, <1>2, <1>3 DEF EpochInv, Reached, MessageEpochReached

\* The rows of group_messages that a transaction may add are of an epoch
\* their handler has checked.
LEMMA ActAppends ==
  ASSUME TypeOK, NEW t \in Threads, Act(t)
  PROVE  \/ messages' = messages
         \/ Sending(t) /\ \A m \in messages' : m \in messages \/ m.epoch = req[t].epoch
<1>1. CASE sendMessage(t) \/ handleGroupMessage(t)
  <2>1. /\ req[t] # NoRequest /\ req[t].op \in {"message", "group_message"}
        /\ Steps(req[t].op)[pc[t]] = "act"
        /\ AppendGroupMessage(req[t].msg_id, req[t].epoch)
    BY <1>1 DEF sendMessage, handleGroupMessage, Acts, At
  <2>2. Sending(t)
    BY <2>1, SenderSteps DEF Sending
  <2> QED
    BY <2>1, <2>2 DEF AppendGroupMessage
<1>2. CASE createGroup(t) \/ dissolveGroup(t) \/ clearPendingRemovals(t) \/ createCommit(t)
           \/ createWelcome(t) \/ listMessages(t) \/ ackMessages(t) \/ kickMember(t)
           \/ startOwnerTransfer(t)
  BY <1>2 DEF createGroup, dissolveGroup, clearPendingRemovals, createCommit, createWelcome,
     listMessages, ackMessages, kickMember, startOwnerTransfer, CreateGroup, DissolveGroup,
     ClearPendingRemovals, AppendGroupCommit, AppendWelcome, UpsertGroupCursor,
     RemoveGroupMember, CreateOwnerTransfer, storeVars
<1>3. CASE leaveGroup(t)
  BY <1>3 DEF leaveGroup, LeaveGroup, LeaveNotMember, LeaveLastOwner, LeaveOwner, LeaveMember,
              storeVars
<1>4. CASE decideOwnerTransfer(t)
  BY <1>4 DEF decideOwnerTransfer, DecideOwnerTransfer, AcceptOwnerTransfer, DeclineOwnerTransfer
<1> QED
  BY <1>1, <1>2, <1>3, <1>4 DEF Act

\* Rows that are kept, or that are of a reached epoch, keep the property of
\* the queue.
LEMMA QueueKeepsEpochs ==
  ASSUME TypeOK, EpochInv, [Next]_vars,
         \A m \in messages' : m \in messages \/ (m.epoch \in Epochs /\ Reached(m.epoch))
  PROVE  MessageEpochReached'
<1>1. \A x \in Epochs : Reached(x) => Reached(x)'
  BY ReachedStays DEF EpochInv
<1>2. ASSUME NEW m \in messages' PROVE Reached(m.epoch)'
  <2>1. m.epoch \in Epochs
    BY DEF TypeOK, StoreTypeOK, GroupMessage
  <2>2. Reached(m.epoch)
    BY DEF EpochInv, MessageEpochReached, Reached
  <2> QED
    BY <1>1, <2>1, <2>2
<1> QED
  BY <1>2 DEF MessageEpochReached, Reached

\* EpochInv is inductive.
LEMMA NextEpochInv == TypeOK /\ EpochInv /\ [Next]_vars => EpochInv'
<1> SUFFICES ASSUME TypeOK, EpochInv, [Next]_vars PROVE EpochInv'
  OBVIOUS
<1>1. ASSUME NEW t \in Threads, NEW r \in Requests, serve(t, r) PROVE EpochInv'
  BY <1>1, ServeKeepsEpochs
<1>2. ASSUME NEW t \in Threads, Load(t) PROVE EpochInv'
  BY <1>2, LoadKeepsEpochs
<1>3. ASSUME NEW t \in Threads, Act(t) PROVE EpochInv'
  <2>1. Finish(t)
    BY <1>3 DEF Act, createGroup, dissolveGroup, leaveGroup, kickMember, clearPendingRemovals,
       startOwnerTransfer, decideOwnerTransfer, createCommit, createWelcome, sendMessage,
       handleGroupMessage, listMessages, ackMessages, Acts
  <2>2. \A m \in messages' : m \in messages \/ (m.epoch \in Epochs /\ Reached(m.epoch))
    <3>1. Sending(t) => req[t].epoch \in Epochs /\ Reached(req[t].epoch)
      BY RequestTyping DEF Sending, EpochInv
    <3> QED
      BY <1>3, <3>1, ActAppends
  <2>3. MessageEpochReached'
    BY <2>2, QueueKeepsEpochs
  <2>4. Reached(current_epoch)'
    BY ReachedStays DEF EpochInv
  <2> QED
    BY <2>1, <2>3, <2>4, FinishKeepsEpochs DEF EpochInv
<1>4. ASSUME NEW t \in Threads, Reject(t) PROVE EpochInv'
  <2>1. Finish(t) /\ UNCHANGED <<messages, mls_log, current_epoch>>
    BY <1>4 DEF Reject, storeVars, groupRow
  <2>2. MessageEpochReached' /\ Reached(current_epoch)'
    BY <2>1 DEF EpochInv, MessageEpochReached, Reached
  <2> QED
    BY <2>1, <2>2, FinishKeepsEpochs DEF EpochInv
<1>5. CASE Worker \/ UNCHANGED vars
  <2>1. /\ messages' \subseteq messages
        /\ UNCHANGED <<mls_log, current_epoch, reqVars>>
    <3>1. CASE ListActiveGroupIDsPage
      BY <3>1 DEF ListActiveGroupIDsPage, storeVars, groupRow
    <3>2. CASE cleanGroupQueuePage
      BY <3>2, ReclaimEffect DEF cleanGroupQueuePage, ReclaimGroupMessages, TypeOK
    <3>3. CASE UNCHANGED vars
      BY <3>3 DEF vars, storeVars, groupRow
    <3> QED
      BY <1>5, <3>1, <3>2, <3>3 DEF Worker
  <2> QED
    BY <2>1 DEF EpochInv, MessageEpochReached, Reached, Sending, reqVars
<1> QED
  BY <1>1, <1>2, <1>3, <1>4, <1>5 DEF Next

\* No message is ever queued for an epoch that the group has not reached,
\* although its handler compares with an epoch that may be stale when the
\* row is written: epochs are only ever added.
THEOREM SealedForReachedEpoch == Spec => []MessageEpochReached
<1>1. Init => EpochInv
  BY BoundsAssumption DEF Init, StoreInit, EpochInv, Reached, MessageEpochReached, Sending
<1>2. EpochInv => MessageEpochReached
  BY DEF EpochInv
<1> QED
  BY <1>1, <1>2, NextEpochInv, TypeCorrect, PTL DEF Spec
=============================================================================

# Verification of the etemsg server

TLA+ models of the end-to-end encrypted message server in `src/src`, TLC
configurations that check them on small instances, and TLAPS proofs of what
holds for every instance. `PROJECT.json` lists the components, the runs, the
mutants, the code lines behind every definition, the findings and the hazards.

## 1. The system

One Go process (the worker, kept alive by a watcher) serves HTTPS and
WebSocket. Its state is one SQLite database, opened with a single connection
(`store.go:41`), and a few maps in memory.

| Component | State | Operations | Module |
|---|---|---|---|
| Group membership and ownership (`store/group.go`, `handler/http_groups.go`) | `groups`, `group_members`, `group_pending_removals`, `group_owner_transfers` | create, welcome, leave, kick, dissolve, clear pending removals, start / accept / decline a transfer | `GroupStore`, `GroupServer` |
| MLS log (same files) | `group_mls_log`, `groups.current_epoch` | append commit, append welcome | `GroupStore`, `GroupServer` |
| Group queue (same files, `ws.go` handleGroupMessage, `group_cleanup.go`) | `group_messages`, `group_cursor`, `groups.min_seq` | send (HTTP, WebSocket), list, ack, reclaim | `GroupStore`, `GroupServer` |
| Session manager (`session/session.go`) | map of users to a generation and a buffered channel | SetOnline, SetOffline, IsOnline, OnlineSet, EnqueueMessage | `Session` |
| WebSocket handler (`handler/ws.go`) | per connection: bound user, generation, writer goroutine; replay cache | connect, send_message, heartbeat, group_message, deferred cleanup | `WSHandler` |
| Offline queue (`store/store.go`, `http_get_offline_msg.go`) | `offline_messages` | push, fetch and clear | `WSHandler` |
| Presence (`ws.go`) | the ticker's copy of the online set | broadcast on connect and cleanup, periodic snapshot | `WSHandler` |
| Contacts (`store.go`, `http_add_contact.go`) | `contacts` | add, notify | `WSHandler` |
| Key packages, join requests (`store/group.go`, `http_groups.go`) | `mls_key_packages`, `group_join_requests` | upload, apply, decide | `GroupJoin` |
| Registration (`http_register.go`) | `users` | check, insert | `Access` |
| Login (`http_login.go`) | `login_challenges`, `auth_tokens` | challenge, consume and verify, store the token | `Access` |
| Signed requests (`auth/signed_request.go`, `signed.go`) | the nonce map | verify, check the nonce, sweep, evict | `Access` |
| Files (`http_upload_file.go`, `http_download_file.go`, `cleanup.go`) | `files` table, a directory | upload, download, expiry and orphan sweep | `Files` |
| Watcher, shutdown (`main.go`) | worker process, signals | start, restart, stop, kill | `Watcher` |
| Group fan-out, cryptography, configuration, logging, types | | | not modelled |

How they interact. Every HTTP request and every WebSocket connection has its
own goroutine; the cleanup workers and the presence ticker are goroutines
too. They share the database and the session manager. A store call is atomic,
because there is one connection and every multi-statement call is a
transaction; a session call is atomic, because it holds the manager's lock.
Nothing else is: a handler is a *series* of such calls, and what it read may
be stale when it acts. Handlers reach clients only through `EnqueueMessage`,
which never blocks and drops what does not fit.

What is hard. Role, epoch and queue checks made before the transaction that
relies on them; two hand-overs of the same group at a time; committers racing
for an epoch; the cleanup deleting under readers and ackers; a connection's
teardown racing with the user's next connection; the recipient leaving
between the online check and the enqueue; retries after a lost answer;
presence updates that are dropped or overtake each other; two deciders of one
join request; two logins with one challenge; nonces that age or make room
while a copy of the request is on its way; uploads, downloads and the sweep
working on one path; a worker that dies between any two of these calls.
`PROJECT.json`
lists each under `hazards`, at its line, with the property that covers it.

What makes the parts correct. Groups: at most one owner, who agreed; nobody
disappears without the MLS removal being booked; a group that goes on has an
owner or a candidate. Log: no fork. Queue: seqs identify messages, an ack
does not run ahead of them, deletions are visible in the floor. Sessions: the
newest connection has the session, channels close exactly once. Messages: at
most once, and what was acknowledged is kept or arrives. Presence: only to
mutual contacts, and eventually right. Joining: one open application per
person, decided once, by someone who owned the group. Access: the first key
of an id stays, a challenge mints one token, a request is accepted once while
its nonce is remembered. Files: kept until delivered or expired, served as
described, reclaimed in the end. Processes: one worker, which comes back
after a crash and stops on a signal.

## 2. The models

### GroupStore

The tables of one group; all statements carry a `group_id`, so groups are
independent. One action per transaction, its first conjuncts being the
conditions under which the code commits; a refused or failed transaction
rolls back and is `Reject` in `GroupServer`. Data that no condition reads
(blobs, hashes, names, timestamps) is left out. A transfer row has one field
that is no column, `rightful`: whether it was inserted by the only owner
while no other was pending. It is written once and only the property
`OneOwnerUnlessOverlap` reads it.

### GroupServer

`Threads` goroutines serve `Requests`. `Steps(op)` is the series of store
calls a handler makes after loading the group: reads that check the caller or
the queue (`groupCheck`, `memberCheck`, `ownerCheck`, `hasGroupRole`,
`epochCheck`, `targetCheck`, `maxSeqCheck`) and, last, `act`, the
transaction. `pc` is the position in it and `seen` what the handler kept of
the group row. Requests interleave between any two calls. A request may end
at any call (`Reject`): a check failed, the database was unavailable, or the
process died; nothing is kept in memory, so a restart is no more than that.
The handlers for `accept` and `decline` go straight to their transaction, as
in the code. The cleanup worker lists the group (`ListActiveGroupIDsPage`)
and reclaims it later (`cleanGroupQueuePage`).

### Session and WSHandler

`Session` is the manager: a session is named by its generation, and so is its
channel. `WSHandler` composes it with the connections. `conn[c].pc` says
where the read loop of `c` is: at a read, inside `broadcastPresence`
(`lookup`, `announce`), inside `handleSendMessage` (`route`, `enqueue`,
`store`), or in the deferred cleanup. The writer goroutine, the ticker, the
HTTP requests and every other loop interleave between those calls. A frame is
an input once its token or signature is verified. A socket may be up, muted
(writes time out, reads still work) or down. `view`, `arrived`, `lost` and
`acks` record what clients see and are read by properties only; a client
applies a presence update to one entry and a snapshot to every entry it
lists. The store queries of one presence lookup, and of one user's snapshot,
are a single step: contacts are only added, so what the first query found
still holds at the last.

### GroupJoin

Extends `GroupServer` with the key packages and the join requests of the same
group: its goroutines serve either sort of request, and every other group
operation interleaves with them. `jpc[t]` names the next store call of a join
handler (`pending`, `owned`, `outsider`, `kp`, `insert` for an application;
`role`, `backlog`, `update` for a decision). `created_at` is compared by the
code between a request and a transfer, so a request remembers how many
transfers had been created before it (`after`); transfers of the same second,
which do not count, are a request that ends.

### Watcher and Access

`Watcher` is `watcherLoop` and the life of the worker: starting (no signal
handler yet), serving, draining, exited and not yet waited for. Times are
left out: a sleep or a timeout ends at some time. `Access` extends it with
one user id, the keys that hash to it, its login challenge, its token and its
nonces; time is a clock, because windows and expiry are what the checks are
about. When the worker ends, its goroutines and the nonce map are gone and the
tables stay. Random challenges are numbers in the order of issue; a signature
is known by its key and what it signs. The global nonce sweep depends on how
many users are known and is a free choice (`crowded`). `minted` and `accepted`
are histories.

### Files

The directory entry and the row of one `file_id`, and every goroutine that
touches them. A file is named by the upload that created it, so that the
model tells apart the file a path names, the file a handler has open and the
file a row describes: `os.Remove` works on the path, an open file outlives
its entry. Every file system and store call may fail, and `Crash` may come at
any time. Bytes count only as lengths. `exposed` is a history: the uploads
that began while something of an earlier file was left or in use, or that an
orphan sweep met before their row was saved; for these the code does not keep
the promise (section 4).

### Abstract specifications

`EpochChain` says what committers rely on: a head that moves one way, one
commit at a time. `GroupServer!Chain` maps the group row to the head and the
log's commits to the commits on record; `ImplementsChain` is checked in the
run Epoch and proved.

`Mailbox` says what senders rely on: a message is accepted once, with its
answer in the same step, is held, and leaves by being handed over once or by
a failing write. `WSHandler!Box` maps a message to its stage from the
channels, the offline table, what clients received and what was lost;
`ImplementsMailbox` is checked in the run Reach and proved for a replay cache
that need not forget.

`MCGroup`, `MCJoin`, `MCWS`, `MCSession`, `MCFiles` and `MCAccess` give the
constants their small values.

## 3. The runs

| Run | Question | Properties |
|---|---|---|
| Membership | two users, two requests at a time, two transfer rows, two join requests: create, admit, hand over, leave, kick, clear, apply, decide | TypeOK, JoinTypeOK, OneOwnerUnlessOverlap, OwnershipConfirmed, LeaverBooked, OnlyKickAbandons, OnePendingRequest, DeciderOwnedGroup, DecisionsAreFinal |
| Queue | two users, cap 1, seqs up to 2: send, ack, list, leave, kick, clear, reclaim | QueueGapless, AckWithinQueue, GapCoveredByFloor, FloorCoversDeletions |
| Epoch | two users, epochs up to 2, three log rows: the group is handed over between two committers, welcomes, messages, dissolving | CommitsAscend, MessageEpochReached, ImplementsChain |
| Session | three connections of two users, the recipient reconnecting, channel and offline queue of one; two messages or a retry between mutual contacts, or a one-way contact that is added back while the ticker pushes snapshots | TypeOK, SessionOfNewest, OpenChannelsAreMapped, PresenceOnlyMutual, AtMostOnce, QueuedIsKept |
| Reach | one message, sent twice, recipient reconnecting, its first socket may break | DeliveredArrives, ImplementsMailbox |
| Presence | mutual contacts, one reconnecting, ticker, channel of one | PresenceHeals |
| Files | two uploads and two downloads at a time of one id, the cleanup, failing calls, any number of crashes | TypeOK, UploadedIsKept, ServedAsDescribed, StorageReclaimed |
| Access | two goroutines, two keys of one id, two challenges, four signed requests with three nonces, a clock up to 4, the watcher | TypeOK, FirstKeyStays, OneTokenPerChallenge, RepeatedOnlyIfForgotten, NoncesBounded, OneWorker, SignalStops, WorkerComesBack |
| TwoOwners | three users handing over and leaving | AtMostOneOwner is violated |
| OwnerKicked | a hand-over, then a kick | OwnerNeverKicked is violated |
| SeqReuse | as Queue | RowsBelowFloorGone is violated |
| Retry | one message sent twice | DuplicateWasProcessed is violated |

Why the bounds are enough to be interesting. Two goroutines are what a stale
check needs; two transfer rows what overlapping hand-overs need, three users
what makes both of them succeed (TwoOwners); two join requests of one
applicant meet each other and two opposite deciders; the queue cap of 1 with
two seqs makes both deletion rules fire on the same queue; three log rows
hold two competing commits and a welcome; three connections are a session,
its replacement and a peer; channels of one envelope are full after one. Two
uploads of different sizes are an old and a new file under one id, two
downloads a retry and its late predecessor. A window of 2 in a clock of 4 lets
a nonce and a timestamp leave it separately, and three nonces are one more
than the cap. `MaxSeq`, `MaxLog`, `MaxTransfers`, `MaxEpoch`, `MaxGen`,
`MaxSends`, `Adds`, `MaxClock` and `MaxChallenges` bound what a run does and
stand in the guards of the actions that would exceed them. `Requests`,
`JoinRequests`, `Logins`, `Frames`, `Faults`, `FirstContacts` and
`SignedRequests` choose the inputs of a run. Logins and signed requests share
nothing but the users table, the clock and the worker: `MCAccess` checks the
sum of the two state spaces (`traffic`) and not their product. `MCSession`
does the same with messages, which need mutual contacts, and with contacts
that are being added under the ticker, where presence could leak (an action
constraint; in the second half a user reconnects after its first connection
and not over it). Two seqs are
too few for a hole inside the queue: that part of `QueueGapless` rests on the
theorem GaplessQueue, the run decides that no seq is used twice. In the WebSocket runs the sockets
are used up in the end, and in Access the watcher returns, so these runs do
not check for deadlock.

Goroutines and message ids are interchangeable in the group runs, users too
in TwoOwners and OwnerKicked, request ids in Membership, ids in Session: those
runs use symmetry. Runs with liveness do not.

Fairness, and why the code justifies it.

- `WSHandler!FairSpec`: weak fairness of each writer goroutine, a loop over a
  channel that Go schedules; weak fairness of the ticker, a loop over a
  timer; strong fairness of `pushPresenceSnapshot(u)`: its queries do not
  fail for ever for the same user. Nothing is assumed of clients, networks or
  handlers.
- `Files!Fairness`: time passes (`expire`), and each call of the hourly round
  succeeds in some rounds (strong fairness): neither an error nor a crash
  meets the same call for ever. Nothing is assumed of uploads and downloads,
  which may stall.
- `Watcher!ProcessFairness`: the watcher's loop goes on; `select`, which
  chooses at random, does not pass over a waiting signal for ever; `cmd.Start`
  does not fail for ever; the 15 seconds end; a killed process dies. A worker
  may hang or crash at every start.

Every property of a passing run has a mutant: a definition next to the real
one, changed as a plausible bug would change it, under which the run fails.

## 4. Where the code departs from what it says

Four runs show a comment or an answer of the code that the code does not keep
(`findings` in `PROJECT.json`): two owners after overlapping hand-overs, an
owner who is kicked, a message below the floor, and a retry refused as
processed. `OneOwnerUnlessOverlap` is the exact condition under which the
first cannot happen, and it is proved.

A fifth finding is two rules for one thing. `ws.go:392` has presence shared
both ways only; `store.go:311`, `ws.go:384` and the test at
`store_test.go:277` say that a one-way add is enough to see it (the test
exercises `ContactsOf` alone, so it passes). The handlers implement the first:
`PresenceOnlyMutual`, in the passing run Session and proved.

Others were met while modelling and are listed as hazards:

- an owner leaves naming b and b leaves as a member: the group stays active
  and empty, although `group.go:478` wants to dissolve it with its last
  member;
- a booked leaver can be admitted again while the booking stands;
- the floor in a listing's answer can be older than its rows
  (`GapCoveredByFloor` says what remains true);
- an ack in flight restores the cursor of a member who was just removed,
  which `group.go:571` wants to avoid;
- an offline update can be sent after the user's next session announced
  itself (`PresenceHeals` says that a snapshot corrects it);
- the pending removals are cleared as a whole, also those booked after the
  owner listed them;
- the offline rows are deleted before the answer that carries them is written;
- `http_upload_file.go` promises that after the answer the file is on disk. An
  orphan sweep that read the directory during the upload, or a failed upload
  or a late download of an earlier file with the same id, removes it by its
  path all the same. `UploadedIsKept` holds exactly without those (`exposed`);
- a download looks its row up first and opens the path later, so it can send
  the file of a new upload of the id under the length of the old one.
  `ServedAsDescribed` says when: the old file had been delivered, was over its
  TTL or was exposed itself, and the new upload began over its remains;
- a signed request can be accepted twice within its window: the nonce is kept
  from the time it was seen, the window runs from the timestamp. The
  disjuncts of `RepeatedOnlyIfForgotten` are all the ways it happens;
- the worker exits as soon as `Shutdown` begins, since `ListenAndServeTLS`
  returns then: requests in progress are cut off.

## 5. The proofs

Every safety property and both refinements that the passing runs check are
proved, for every set of users, goroutines, connections, requests and files
and every value of the bounds, windows and caps that satisfies the named
assumptions of the modules. They say no more than that the sets of inputs
have the right type, that the "none" values are no members, and that limits
are naturals (the capacities of the replay cache, the nonce cache, the session
channels and the offline queues are not zero). One hypothesis is stronger and
stands in the theorems that need it, `Fits` (below).

| Module | About | Theorems |
|---|---|---|
| `GroupProofs` | types, ownership, departures | TypeCorrect, OneOwner, OwnersAgreed, LeaversBooked, KicksAbandon |
| `EpochProofs` | the MLS log | NoFork, ChainRefinement, SealedForReachedEpoch |
| `QueueProofs` | the group queue | GaplessQueue, AcksWithinQueue, ListingGapsCovered, DeletionsCovered |
| `JoinProofs` | join requests | JoinKeepsServer, JoinTypeCorrect, OnePendingRequestHolds, DecisionsAreFinalHolds, DeciderOwnedGroupHolds |
| `SessionProofs` | sessions and presence | WSTypeCorrect, NewestHoldsSession, OpenAreMapped, PresenceToMutualContacts |
| `MailProofs` | direct messages | QueuedStays, MessagesOnce, MailboxRefinement |
| `FilesProofs` | files | FilesTypeCorrect, DownloadsServeRow, UploadsKept |
| `AccessProofs` | login, signed requests, watcher | AccessTypeCorrect, TokensOncePerChallenge, FirstKeyWins, NonceCacheBounded, RepeatsOnlyForgotten, WorkersOneAtATime |

### Groups

`ServerStep` reduces every step of the server to one transaction of the store
(`KickFreeNext`, or a kick's `RemoveGroupMember`) or to none. What follows
from transactions alone does not depend on what the handlers checked, which
may be stale; only the acks and the epochs of messages need the checks, and
with them invariants about what a handler remembers.

- **TypeCorrect**, `Spec => []TypeOK`. `TypeOK` is inductive. The work is in
  the arithmetic of the queue: `MinOfNats` and `MaxOfNats` show that `Min` and
  `Max` choose existing extremal elements, `ReclaimBounds` and
  `ReclaimEffect` that a retention pass stays in range and deletes only at or
  below the new floor; and in `StepsEndInAct`, that a handler never runs past
  its transaction.
- **OneOwner**, `Spec => []OneOwnerUnlessOverlap`, and **OwnersAgreed**,
  `Spec => []OwnershipConfirmed`. The inductive invariant `OwnershipInv` is
  their conjunction with `NothingYet` (before the group exists nobody has a
  role and no transfer is recorded): `CreateGroup` would otherwise meet an
  owner already there. The interesting case is an accept: all rows being
  rightful, the pending one is the only one and its `prev_owner` the only
  owner left, so demoting it is enough.
- **LeaversBooked**, **KicksAbandon** and **DeletionsCovered**: the action
  properties `LeaverBooked`, `OnlyKickAbandons` and `FloorCoversDeletions`,
  per transaction and from types alone. A leave adds a pending row or
  dissolves, a decline dissolves when no owner is left.
- **NoFork**, `Spec => []CommitsAscend`. Inductive with the types: a commit's
  epoch is above `current_epoch`, which no earlier commit exceeds.
- **ChainRefinement**, `Spec => ImplementsChain`: the group row and the log
  implement `EpochChain`. `LogSteps` and `LogAppends` say that a step leaves
  the log and the epoch alone or appends one entry, and `AppendIsCommit` that
  an entry which moves the epoch is a step of the chain and any other a
  stutter.
- **SealedForReachedEpoch**, `Spec => []MessageEpochReached`. The invariant
  `EpochInv` says that the present epoch, the epoch in every handler's copy
  of the group row and the epoch of every message past its check are reached;
  `ReachedStays` that this survives any step, since the log only grows.
- **GaplessQueue**, `Spec => []QueueGapless`. `QueueSteps` shows that a
  transaction leaves the queue alone, appends above its highest row or cuts a
  prefix below the new floor. `QueueInv` adds that nothing is missing between
  the floor and a queued row.
- **AcksWithinQueue**, `Spec => []AckWithinQueue`. `AckInv` is the property
  with the handler's position spelled out; `InReachStays` carries an ack over
  a reclaim between its check and its write.
- **ListingGapsCovered**, `Spec => []GapCoveredByFloor`. From `QueueInv` and
  `FloorInv`: no handler remembers a floor above the group's, so the row
  before a listing's first one is below the floor or would have been listed.

### Join requests

**JoinKeepsServer**, `JoinSpec => Spec`: `GroupJoin` only adds to the group
server, so that everything above holds of the composition and the proofs here
may use it. `JoinRowSteps` says that a step leaves the join requests alone,
inserts one (`Inserted`) or decides a pending one (`Decided`).

- **OnePendingRequestHolds** and **DecisionsAreFinalHolds** follow from those
  two transactions: the insert checks for a pending row itself, the update
  requires one. What the handlers checked before plays no role.
- **DeciderOwnedGroupHolds** does need the handlers. `HistoryInv` says that
  every owner, and everybody who started a transfer, created the group or
  accepted a transfer (nobody is ever an admin), and `DeciderInv` that a
  goroutine past its role or backlog check serves such a user. Having owned
  the group is never undone, so it is harmless that the role may be gone by
  the time the decision is written.

### Sessions, presence and direct messages

- **WSTypeCorrect**. `TypeOK` is not inductive: a handler reads a message and
  a generation that the types alone do not promise. `LoopInv` says what a
  read loop has where.
- **NewestHoldsSession** and **OpenAreMapped**, by one invariant `SessionInv`:
  both, and `GenInv` (no generation is ahead of the counter, no two
  connections have the same one). The interesting case is a cleanup of an
  older connection: its generation is not the one in the map, so
  `SetOffline` does nothing.
- **PresenceToMutualContacts**. `PresenceInv` says it of every channel of a
  connection, open or not, of the watchers a broadcast has looked up and of
  every client's view. Contacts only grow (`ContactsGrow`), so that a stale
  lookup stays right.
- **QueuedStays**, `Spec => []QueuedIsKept`, from the types: only a fetch
  takes from an offline queue, and it hands over what it takes.
- **MessagesOnce**, `Spec /\ Fits => []AtMostOnce`, and **MailboxRefinement**,
  `Spec /\ Fits => ImplementsMailbox`. `Fits` says that there are fewer users
  than `replayMax` and fewer message ids than `replayMaxPerUser`, so that
  `isReplay` never forgets. Without it both are false of the code, which
  evicts an id at random from a full cache: a retry of that message is
  delivered again (a hazard in `PROJECT.json`). The runs Session and Reach
  satisfy it. The invariant `MailInv` says for each message that it is in one
  place only, the hands of one handler, the offline queue, one channel, the
  recipient's client or lost, and that the replay cache knows it wherever it
  is; and that rows are in their addressee's queue and channels not made yet
  are empty. `MailStep` reduces every step to `Moves`: one message is taken
  in, refused, placed or sent (`Moved`), or some are `Fetched`, and the others
  are `Quiet`. `PlaceKept` and `StageMoves` then deal with a single message.

### Files

`DownInv` says what a download holds where. **DownloadsServeRow** and
**UploadsKept** share the invariant `FileInv`. Its core is `OwnerInv`: a file
that is behind the path and not exposed is `Undisturbed`, that is, no upload
or download of another file of the id is on its way, and whoever is about to
remove the path or the row has delivered this file or finds it expired.
`ReceivedInv`, `SizeInv`, `SavedInv` and `OpenInv` tie lengths, rows and open
files to the uploads they come from. `OpenInv` says that a download has
open the file its row describes or is `Misled`. The step is the opening:
`OwnerInv` says that another file behind the path is exposed, and
`UploadedIsKept` that the row's own file is gone from there for a reason, so
that DownloadsServeRow rests on both.

### Access and the watcher

- **TokensOncePerChallenge**. `ChallengeInv`: a challenge is not issued yet,
  stored, held by the one goroutine that consumed it, or used up, and only
  the last has minted a token.
- **FirstKeyWins**: the insert is the only write and fails on an existing row.
- **NonceCacheBounded** and **RepeatsOnlyForgotten**, by `NonceInv`: the bound,
  and `RememberInv`, that an accepted request has an entry no older than its
  acceptance until its window is over. `SweptKeepsFresh` says that the sweeps
  drop nothing that is fresh and leave a full cache only of fresh nonces,
  `RoomForOne` that there is room for one more afterwards.
- **WorkersOneAtATime**. `WatchInv`: where the watcher starts a worker, sleeps
  or has returned, there is none.

TLC finds the inductive invariants to hold on the instances of the runs, too.

Only model-checked: `DeliveredArrives`, `PresenceHeals`, `StorageReclaimed`,
`SignalStops` and `WorkerComesBack`, which are liveness under fairness and out
of the prover's reach. No proof uses a fairness assumption.

## 6. Plan

The system is modelled as far as section 7 says, and its safety properties
are proved. What may be added:

1. What holds of direct messages when the replay cache does forget: a message
   is duplicated only by an eviction or an expiry of its id.
2. An exact statement of what a late ack leaves behind after a removal, and
   of what clearing the pending removals loses (hazards without a property).

## 7. Not modelled

- Group fan-out (`notifyGroup`, `notifyUser`, `notifyGroupRoles`): best-effort
  hints through `EnqueueMessage`, without state; clients poll the listings.
- Signature formats, digests and key parsing: computations over bytes.
- The offset of the cleanup over pages of several groups: `GroupServer` models
  one group, for which a round may come late or not at all.
- `startWatcher` (detaching from the terminal) and the set-up of `runServer`.
- Configuration, logging, health, HTTP plumbing, JSON, the types. Rate and
  size limits that only refuse a request before its first store call.
- Requests that only read (listings, contacts_online, pending_incoming), apart
  from `list`, about whose answer there is a property.
- A fetch of offline messages whose answer is lost: the rows are handed over
  in the step that deletes them. The page limit of listings, which cuts the
  tail of the rows.

------------------------------ MODULE GroupJoin -------------------------------
(***************************************************************************)
(* Joining a group: key packages and join requests (store/group.go         *)
(* CreateKeyPackage to DecideJoinRequest, handler/http_groups.go           *)
(* uploadKeyPackage, createJoinRequest, decideJoinRequest), composed with  *)
(* the rest of the group API, whose roles and transfers they read.         *)
(*                                                                         *)
(* As there, a request is a series of atomic store calls that interleaves  *)
(* with the calls of other requests, and may end at any of them.  A        *)
(* decision only flips the request's status: membership begins with a      *)
(* Welcome (GroupServer).                                                  *)
(***************************************************************************)
EXTENDS GroupServer

CONSTANTS
  KPIds,          \* ids of key packages
  RequestIds,     \* ids of join requests
  JoinRequests    \* the requests clients send, see JoinRequest

\* user is the signer, who is also the applicant of a join.
JoinRequest ==
  [op : {"key_package"}, user : Users, kp_id : KPIds]
    \cup [op : {"join"}, user : Users, kp_id : KPIds, request_id : RequestIds]
    \cup [op : {"decide"}, user : Users, request_id : RequestIds,
          decision : {"allow", "deny"}]

ASSUME JoinRequestsAssumption == JoinRequests \subseteq JoinRequest

VARIABLES
  key_packages,    \* mls_key_packages: the owner of each id, or NoUser
  join_requests,   \* group_join_requests, see JoinRow
  jreq,            \* jreq[t] is the join request goroutine t serves, or NoRequest
  jpc              \* jpc[t] is its next store call

joinTabs == <<key_packages, join_requests>>
joinVars == <<joinTabs, jreq, jpc>>
allVars  == <<vars, joinVars>>

\* One row of group_join_requests; status is "none" without a row.  after is
\* how many transfers had been created before: created_at compares it with
\* theirs.
JoinRow ==
  [applicant : Users \cup {NoUser}, status : {"none", "pending", "approved", "denied"},
   decided_by : Users \cup {NoUser}, after : 0..MaxTransfers]

NoRow == [applicant |-> NoUser, status |-> "none", decided_by |-> NoUser, after |-> 0]

Calls == {"insert_kp", "pending", "owned", "outsider", "kp", "insert",
          "role", "backlog", "update"}

JoinTypeOK ==
  /\ key_packages \in [KPIds -> Users \cup {NoUser}]
  /\ join_requests \in [RequestIds -> JoinRow]
  /\ jreq \in [Threads -> JoinRequests \cup {NoRequest}]
  /\ jpc \in [Threads -> Calls \cup {"idle"}]

JoinInit ==
  /\ Init
  /\ key_packages = [k \in KPIds |-> NoUser]
  /\ join_requests = [q \in RequestIds |-> NoRow]
  /\ jreq = [t \in Threads |-> NoRequest]
  /\ jpc = [t \in Threads |-> "idle"]

-----------------------------------------------------------------------------
(* The life of a request *)

First(op) == CASE op = "key_package" -> "insert_kp"
               [] op = "join"        -> "pending"
               [] op = "decide"      -> "role"

\* Every join handler loads the group first; it must be active.
serveJoin(t, r) ==
  /\ req[t] = NoRequest
  /\ jreq[t] = NoRequest
  /\ gstate = "active"
  /\ jreq' = [jreq EXCEPT ![t] = r]
  /\ jpc' = [jpc EXCEPT ![t] = First(r.op)]
  /\ UNCHANGED <<vars, joinTabs>>

Goto(t, from, to) ==
  /\ jpc[t] = from
  /\ jpc' = [jpc EXCEPT ![t] = to]
  /\ UNCHANGED <<vars, joinTabs, jreq>>

FinishJoin(t) ==
  /\ jreq' = [jreq EXCEPT ![t] = NoRequest]
  /\ jpc' = [jpc EXCEPT ![t] = "idle"]
  /\ UNCHANGED vars

\* A check failed, the id is taken, or the database or the process failed.
rejectJoin(t) ==
  /\ jreq[t] # NoRequest
  /\ FinishJoin(t)
  /\ UNCHANGED joinTabs

-----------------------------------------------------------------------------
(* Key packages *)

\* Applicants publish before they join: membership is not needed.
CreateKeyPackage(t) ==
  /\ jpc[t] = "insert_kp"
  /\ key_packages[jreq[t].kp_id] = NoUser
  /\ key_packages' = [key_packages EXCEPT ![jreq[t].kp_id] = jreq[t].user]
  /\ FinishJoin(t)
  /\ UNCHANGED join_requests

-----------------------------------------------------------------------------
(* Join requests *)

\* PendingOwnerTransfer: with one pending, the group must still have an owner.
transferCheck(t) ==
  Goto(t, "pending", IF Pending = {} THEN "outsider" ELSE "owned")

GroupHasOwner(t) == Owners # {} /\ Goto(t, "owned", "outsider")

IsGroupMember(t) ==
  /\ jpc[t] = "outsider"
  /\ jreq[t].user \notin Members
  /\ Goto(t, "outsider", "kp")

\* The key package exists, for this group, and is the applicant's.
GetKeyPackage(t) ==
  /\ jpc[t] = "kp"
  /\ key_packages[jreq[t].kp_id] = jreq[t].user
  /\ Goto(t, "kp", "insert")

\* Mutant: the handler's checks are trusted to keep pending rows apart.
CreateJoinRequestUnchecked(t) ==
  /\ jpc[t] = "insert"
  /\ join_requests[jreq[t].request_id].status = "none"
  /\ join_requests' = [join_requests EXCEPT ![jreq[t].request_id] =
       [applicant |-> jreq[t].user, status |-> "pending", decided_by |-> NoUser,
        after |-> Len(transfers)]]
  /\ FinishJoin(t)
  /\ UNCHANGED key_packages

\* A transaction: the id is new and the applicant has no pending row.
CreateJoinRequest(t) ==
  /\ jpc[t] = "insert"
  /\ join_requests[jreq[t].request_id].status = "none"
  /\ \A q \in RequestIds :
       ~(join_requests[q].applicant = jreq[t].user /\ join_requests[q].status = "pending")
  /\ join_requests' = [join_requests EXCEPT ![jreq[t].request_id] =
       [applicant |-> jreq[t].user, status |-> "pending", decided_by |-> NoUser,
        after |-> Len(transfers)]]
  /\ FinishJoin(t)
  /\ UNCHANGED key_packages

\* The caller is a member; owners and admins may decide, others only what was
\* requested before they gave up the group.
decideCheck(t) ==
  /\ jpc[t] = "role"
  /\ role[jreq[t].user] # "none"
  /\ Goto(t, "role", IF role[jreq[t].user] \in {"owner", "admin"} THEN "update" ELSE "backlog")

\* Mutant: any transfer after the request will do.
AnyoneOwnsBacklog(t) ==
  /\ jpc[t] = "backlog"
  /\ LET row == join_requests[jreq[t].request_id]
     IN  row.status # "none" /\ Len(transfers) > row.after
  /\ Goto(t, "backlog", "update")

\* The caller started a transfer after the request was made, whatever came of
\* it.  A transfer of the same second does not count: then the request ends.
OwnsJoinRequestBacklog(t) ==
  /\ jpc[t] = "backlog"
  /\ LET row == join_requests[jreq[t].request_id]
     IN  /\ row.status # "none"
         /\ \E i \in DOMAIN transfers :
              i > row.after /\ transfers[i].prev_owner = jreq[t].user
  /\ Goto(t, "backlog", "update")

\* Mutant: the decision is stored as it came.
statusAsSent(decision) == decision

status(decision) == IF decision = "deny" THEN "denied" ELSE "approved"

\* Mutant: the last decision wins.
DecideJoinRequestAgain(t) ==
  /\ jpc[t] = "update"
  /\ join_requests[jreq[t].request_id].status # "none"
  /\ join_requests' = [join_requests EXCEPT
                          ![jreq[t].request_id].status = status(jreq[t].decision),
                          ![jreq[t].request_id].decided_by = jreq[t].user]
  /\ FinishJoin(t)
  /\ UNCHANGED key_packages

\* A transaction: the request must still be pending.
DecideJoinRequest(t) ==
  /\ jpc[t] = "update"
  /\ join_requests[jreq[t].request_id].status = "pending"
  /\ join_requests' = [join_requests EXCEPT
                          ![jreq[t].request_id].status = status(jreq[t].decision),
                          ![jreq[t].request_id].decided_by = jreq[t].user]
  /\ FinishJoin(t)
  /\ UNCHANGED key_packages

-----------------------------------------------------------------------------
JoinStep(t) ==
  \/ \E r \in JoinRequests : serveJoin(t, r)
  \/ rejectJoin(t)
  \/ CreateKeyPackage(t)
  \/ transferCheck(t)
  \/ GroupHasOwner(t)
  \/ IsGroupMember(t)
  \/ GetKeyPackage(t)
  \/ CreateJoinRequest(t)
  \/ decideCheck(t)
  \/ OwnsJoinRequestBacklog(t)
  \/ DecideJoinRequest(t)

\* The other requests of the group; a goroutine serves one request at a time.
GroupStep ==
  /\ Next
  /\ \A t \in Threads : jreq[t] # NoRequest => req'[t] = NoRequest
  /\ UNCHANGED joinVars

JoinNext == GroupStep \/ \E t \in Threads : JoinStep(t)

JoinSpec == JoinInit /\ [][JoinNext]_allVars

-----------------------------------------------------------------------------
\* An applicant has at most one request pending, also when it asks twice at
\* the same time, and a request keeps its applicant (CreateJoinRequest).
OnePendingRequest ==
  \A p, q \in RequestIds :
    /\ join_requests[p].status = "pending" /\ join_requests[q].status = "pending"
    /\ join_requests[p].applicant = join_requests[q].applicant
    => p = q

\* A decision is final: of two deciders who both passed their checks, the
\* second changes nothing (DecideJoinRequest).
DecisionsAreFinal ==
  [][\A q \in RequestIds :
       join_requests[q].status \in {"approved", "denied"} =>
         join_requests'[q] = join_requests[q]]_allVars

\* Applicants are decided on only by someone who agreed to own the group at
\* some time: its creator, or a designee who accepted.  The exception for a
\* former owner's backlog lets nobody else in, and neither does a role check
\* that is out of date when the decision is written (decideJoinRequest).
DeciderOwnedGroup ==
  \A q \in RequestIds :
    LET u == join_requests[q].decided_by
    IN  u # NoUser =>
          \/ u = creator
          \/ \E i \in DOMAIN transfers :
               transfers[i].designee = u /\ transfers[i].state = "accepted"
=============================================================================

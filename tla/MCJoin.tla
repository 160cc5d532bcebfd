-------------------------------- MODULE MCJoin --------------------------------
(* A small instance of GroupJoin for TLC. *)
EXTENDS GroupJoin, MCGroup

CONSTANTS k1, q1, q2

OnePackage == {k1}
TwoIds == {q1, q2}

\* a creates the group, admits b, hands the group to b, leaves it to b, or
\* kicks b; b applies, also twice at a time; a and b both decide, in opposite
\* ways.  Two hand-overs may overlap, and every call may be stale.
MembershipRequests ==
  By("create", {a})
  \cup Admissions({a}, {b}, {0})
  \cup Against("transfer", {a}, {b})
  \cup By("accept", {b}) \cup By("decline", {b})
  \cup Against("leave", {a}, {b}) \cup By("leave", {b})
  \cup Against("kick", {a}, {b})
  \cup By("clear", {a})

Applications ==
  [op : {"key_package"}, user : {b}, kp_id : KPIds]
    \cup [op : {"join"}, user : {b}, kp_id : KPIds, request_id : RequestIds]
    \cup [op : {"decide"}, user : {a}, request_id : RequestIds, decision : {"allow"}]
    \cup [op : {"decide"}, user : {b}, request_id : RequestIds, decision : {"deny"}]

JoinSymmetry == Permutations(Threads) \cup Permutations(RequestIds)
=============================================================================

------------------------------ MODULE EpochChain ------------------------------
(***************************************************************************)
(* What the server promises about the epochs of a group, without requests, *)
(* members or a log: the epoch moves one way, each move is one commit's,   *)
(* and no commit is ever replaced or added behind the head.  The head is a *)
(* register that racing committers can only move forward, one at a time.   *)
(***************************************************************************)
EXTENDS Naturals

CONSTANT Epoch

VARIABLES
  head,    \* the group's epoch
  commits  \* the epochs that a commit on record has opened

chainVars == <<head, commits>>

Init ==
  /\ head = 0
  /\ commits = {}

\* A commit whose sender labelled it 'welcome' moves the head and is not on
\* record as a commit.
Commit(e) ==
  /\ e > head
  /\ head' = e
  /\ commits' \in {commits, commits \cup {e}}

Next == \E e \in Epoch : Commit(e)

Spec == Init /\ [][Next]_chainVars
=============================================================================

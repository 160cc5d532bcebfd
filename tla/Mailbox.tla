------------------------------- MODULE Mailbox --------------------------------
(***************************************************************************)
(* What the server promises about direct messages, without channels,       *)
(* connections, sessions or the offline table: a message is accepted at    *)
(* most once, the sender is told so in the same step, and from then on the *)
(* server holds it until it hands it to the recipient, once, or loses it   *)
(* to a failing write.  Nothing held is forgotten, and nothing handed over *)
(* or lost comes back.                                                     *)
(***************************************************************************)
CONSTANT Messages

VARIABLES
  stage,    \* stage[m], how far message m has come
  promised  \* the messages whose sender was told "delivered" or "queued"

boxVars == <<stage, promised>>

Init ==
  /\ stage = [m \in Messages |-> "new"]
  /\ promised = {}

Accept(m) ==
  /\ stage[m] = "new"
  /\ stage' = [stage EXCEPT ![m] = "held"]
  /\ promised' = promised \cup {m}

\* One message from a channel, or the whole offline queue of a user.
Hand(batch) ==
  /\ batch # {}
  /\ \A m \in batch : stage[m] = "held"
  /\ stage' = [m \in Messages |-> IF m \in batch THEN "handed" ELSE stage[m]]
  /\ UNCHANGED promised

Lose(m) ==
  /\ stage[m] = "held"
  /\ stage' = [stage EXCEPT ![m] = "lost"]
  /\ UNCHANGED promised

Next ==
  \/ \E m \in Messages : Accept(m) \/ Lose(m)
  \/ \E batch \in SUBSET Messages : Hand(batch)

Spec == Init /\ [][Next]_boxVars
=============================================================================

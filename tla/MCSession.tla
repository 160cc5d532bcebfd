------------------------------ MODULE MCSession -------------------------------
(***************************************************************************)
(* A small instance of WSHandler for TLC, about what may never happen.     *)
(* Messages need mutual contacts, and presence is most exposed while       *)
(* contacts are being added: a behaviour has messages between mutual       *)
(* contacts, or the ticker and an add_contact but no messages.  The sum of *)
(* the two state spaces is checked and not their product.                  *)
(* Where there are messages, the second connection of b may come over the  *)
(* first; where there are none, it comes after it.                         *)
(***************************************************************************)
EXTENDS MCWS

\* The behaviours that begin with mutual contacts, to which none is added.
MessagesOnly == contacts = TwoWay /\ adds = AddBack

OneSortOfTraffic ==
  IF MessagesOnly THEN UNCHANGED <<adds, ticker>>
  ELSE UNCHANGED sends /\ (conn[c1].pc = "gone" \/ conn'[c2] = conn[c2])
=============================================================================

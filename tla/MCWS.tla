-------------------------------- MODULE MCWS ----------------------------------
(* Small instances of WSHandler for TLC. *)
EXTENDS WSHandler, TLC

CONSTANTS a, b, c1, c2, c3, m1, m2

Pair == {a, b}
ThreeConns == {c1, c2, c3}

\* The reconnecting user has two connections, one after or over the other.
SenderReturns == {<<c1, a>>, <<c2, a>>, <<c3, b>>}
RecipientReturns == {<<c1, b>>, <<c2, b>>, <<c3, a>>}

\* What fails: reads on the first connection, or reads and writes.
FirstRead == [c \in Conns |-> IF c = c1 THEN {"read"} ELSE {}]
FirstBreaks == [c \in Conns |-> IF c = c1 THEN {"read", "write"} ELSE {}]

OneId == {m1}
TwoIds == {m1, m2}
NoIds == {}

\* Everything that a can send to b.
FromA == {m \in Message : m.from = a /\ m.to = b}

\* Both users added each other, or a added b only.
TwoWay == {<<a, b>>, <<b, a>>}
OneWay == {<<a, b>>}

Mutual == {TwoWay}
MutualOrOneWay == {TwoWay, OneWay}

\* The add_contact requests: none, or b adds a back.
NoAdds == {}
AddBack == {<<b, a>>}

IdSymmetry == Permutations(TwoIds)
=============================================================================

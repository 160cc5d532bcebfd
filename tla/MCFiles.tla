------------------------------- MODULE MCFiles --------------------------------
(* A small instance of Files for TLC. *)
EXTENDS Files

CONSTANTS u1, u2, d1, d2

TwoUploads == {u1, u2}
TwoDownloads == {d1, d2}

\* Two files of different sizes under the same id.
Sizes == [u \in Uploads |-> IF u = u1 THEN 2 ELSE 1]
=============================================================================

------------------------------ MODULE MCTcpTunnel ------------------------------
(* Two users: the first only sends, the second only listens. *)
EXTENDS TcpTunnel

CONSTANTS u1, u2
SmallSends   == [u \in Users |-> IF u = u1 THEN 1 ELSE 0]
SmallAnswers == [u \in Users |-> IF u = u1 THEN 0 ELSE 2]
=============================================================================

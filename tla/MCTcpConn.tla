----------------------------- MODULE MCTcpConn -----------------------------
(* TcpConn on two socket addresses and two tasks: one map entry and one    *)
(* ring record, so that evictions and full rings happen.                   *)
EXTENDS TcpConn, TLC

Symmetry == Permutations(Socks) \cup Permutations(Tasks)
=============================================================================

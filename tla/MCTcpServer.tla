----------------------------- MODULE MCTcpServer -----------------------------
(* TcpServer with two connections that share a descriptor table. *)
EXTENDS TcpServer, TLC

MCSymmetry == Permutations(Conns)
==============================================================================

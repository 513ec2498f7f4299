----------------------------- MODULE MCTcpRelay -----------------------------
(* TcpRelay on a small instance: MCTcpRelay.cfg binds the other constants.  *)
EXTENDS TcpRelay

MCMaxBytes == [p \in Peers |-> 4]
=============================================================================

----------------------------- MODULE MCEchoConn -----------------------------
(* EchoConn on a small instance: MCEchoConn.cfg binds the constants.        *)
EXTENDS EchoConn
=============================================================================

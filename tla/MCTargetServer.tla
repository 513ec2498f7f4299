--------------------------- MODULE MCTargetServer ---------------------------
(* TargetServer with two clients for one or two entries of clients[]; "a"   *)
(* can send enough to get stuck with the server.                            *)
EXTENDS TargetServer

MCMaxBytes == [p \in Peers |-> IF p = "a" THEN 5 ELSE 1]

StreamA == INSTANCE ByteStream WITH written <- conn["a"].sent,
                                    got <- conn["a"].got,
                                    flowing <- Flowing("a")

StreamB == INSTANCE ByteStream WITH written <- conn["b"].sent,
                                    got <- conn["b"].got,
                                    flowing <- Flowing("b")

\* Each client is served as a byte stream back to itself: no byte is lost, doubled
\* or given to another client, and as long as the client goes on reading it gets
\* every one, whatever the other clients do, unless the thread is stuck
\* (handle_tcp_client, send_all, wait_fd, run_server).
EchoesEachClient == StreamA!Spec /\ StreamB!Spec
=============================================================================

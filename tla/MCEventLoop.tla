---------------------------- MODULE MCEventLoop ----------------------------
(* EventLoop on small instances: MCEventLoop.cfg checks the invariants with *)
(* more clients than descriptors, MCEventLoopLive.cfg the temporal          *)
(* properties, MCEventLoopProxy.cfg what becomes of a proxy client.         *)
EXTENDS EventLoop, TLC

CONSTANTS echo1, proxy1  \* an echo and a proxy listener

MCListeners == {echo1, proxy1}
MCService == [l \in MCListeners |-> IF l = echo1 THEN "echo" ELSE "proxy"]

\* Clients, and addresses, are interchangeable: no action tells them apart.
Symmetry == Permutations(Clients) \cup Permutations(Addrs)
=============================================================================

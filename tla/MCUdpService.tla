---------------------------- MODULE MCUdpService ----------------------------
(* UdpService on small instances: MCUdpService.cfg checks the invariants,    *)
(* MCUdpServiceLive.cfg the temporal properties, MCUdpServiceStop.cfg what   *)
(* the shutdown does to the sockets that are in use.                         *)
EXTENDS UdpService, TLC

CONSTANTS echo1, proxy1  \* an echo and a proxy listener

MCListeners == {echo1, proxy1}
MCService == [l \in MCListeners |-> IF l = echo1 THEN "echo" ELSE "proxy"]

\* Workers, addresses and ports are interchangeable: no action tells them apart.
Symmetry == Permutations(Workers) \cup Permutations(Tasks) \cup Permutations(Ports)
=============================================================================

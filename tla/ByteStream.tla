------------------------------ MODULE ByteStream ------------------------------
(***************************************************************************)
(* What a byte stream through the gateway or one of its tools promises:    *)
(* the reader gets the bytes the writer wrote, in order, none twice and    *)
(* none invented, and as long as the stream flows it gets every one.       *)
(*                                                                         *)
(* EchoConn implements it once, TcpRelay in both directions, TargetServer  *)
(* for each of its clients.  The bytes are the numbers 1, 2, 3, ...        *)
(***************************************************************************)
EXTENDS Naturals, Sequences

VARIABLES written,  \* how many bytes were written
          got,      \* what was read
          flowing   \* FALSE while nothing need be delivered: the stream was
                    \* cut, or its ends do not let it go on

vars == <<written, got, flowing>>

Init == written = 0 /\ got = <<>> /\ flowing \in BOOLEAN

Write == /\ written' = written + 1
         /\ flowing' \in BOOLEAN
         /\ UNCHANGED got

Read == /\ \E n \in (Len(got) + 1)..written : got' = [i \in 1..n |-> i]
        /\ flowing' \in BOOLEAN
        /\ UNCHANGED written

Change == /\ flowing' = ~flowing
          /\ UNCHANGED <<written, got>>

Next == Write \/ Read \/ Change

SafeSpec == Init /\ [][Next]_vars

\* A stream that goes on flowing delivers what was written.
Spec == SafeSpec /\ WF_vars(flowing /\ Read)
=============================================================================

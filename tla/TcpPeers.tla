------------------------------ MODULE TcpPeers ------------------------------
(***************************************************************************)
(* The other ends of the TCP connections of TcpRelay and TargetServer, and *)
(* the kernel between: for each peer its connection to the service and the *)
(* bytes that have not been taken from it.                                 *)
(*                                                                         *)
(* A peer is a single thread on a blocking socket, as tools/echo_test.c    *)
(* is: it sends a whole message (send_all) before it reads what comes back *)
(* (recv_exact).  The bytes a peer sends are the numbers 1, 2, 3, ...      *)
(***************************************************************************)
EXTENDS Naturals, Sequences

CONSTANTS Peers,     \* the other ends
          RcvBuf,    \* how much the kernel holds of what a peer sent
          SndBuf,    \* how much it holds of what a peer has not read
          MaxBytes   \* bound: MaxBytes[p] is how many bytes peer p sends

ASSUME PeerBufferAssumption == RcvBuf \in Nat \ {0} /\ SndBuf \in Nat \ {0}
ASSUME PeerBytesAssumption == MaxBytes \in [Peers -> Nat]

VARIABLE conn  \* conn[p]: the connection of peer p

Smaller(m, n) == IF m <= n THEN m ELSE n
FirstOf(s, n) == SubSeq(s, 1, n)
RestOf(s, n)  == SubSeq(s, n + 1, Len(s))

\* sent, owe: bytes sent, and left of the message being sent.  got: what the
\* peer has read.  rx, tx: what lies in the kernel to and from the service.
\* end: "away" before it connects, "fin" after it shut its sending side down.
\* up: the service has not closed its side.
Connection(end) ==
  [sent |-> 0, owe |-> 0, got |-> <<>>, rx |-> <<>>, tx |-> <<>>,
   end |-> end, up |-> TRUE]

ConnType ==
  [sent : Nat, owe : Nat, got : Seq(Nat), rx : Seq(Nat),
   tx : Seq(Nat), end : {"away", "open", "fin", "reset"}, up : BOOLEAN]

\* A reset throws away what the peer has not read; what the service has not
\* read can still be read.
Reset(c) == [c EXCEPT !.end = "reset", !.tx = <<>>, !.owe = 0]

-----------------------------------------------------------------------------
(* The peers.                                                              *)

PeerConnects(p) ==
  /\ conn[p].end = "away"
  /\ conn' = [conn EXCEPT ![p].end = "open"]

\* A message of any length is to be sent.
PeerBegins(p) ==
  /\ conn[p].end = "open" /\ conn[p].up /\ conn[p].owe = 0
  /\ \E n \in 1..(MaxBytes[p] - conn[p].sent) : conn' = [conn EXCEPT ![p].owe = n]

\* send_all of the peer; what it sends to a closed socket is answered by a reset.
PeerSends(p) ==
  LET c == conn[p] IN
  /\ c.owe > 0
  /\ \/ /\ c.up /\ Len(c.rx) < RcvBuf
        /\ conn' = [conn EXCEPT ![p] = [c EXCEPT !.sent = @ + 1, !.owe = @ - 1,
                                                 !.rx = Append(@, c.sent + 1)]]
     \/ ~c.up /\ conn' = [conn EXCEPT ![p] = Reset(c)]

PeerReads(p) ==
  LET c == conn[p] IN
  /\ c.owe = 0 /\ c.tx # <<>>
  /\ conn' = [conn EXCEPT ![p] = [c EXCEPT !.got = Append(@, Head(c.tx)), !.tx = Tail(@)]]

PeerFinishes(p) ==
  /\ conn[p].end = "open" /\ conn[p].owe = 0 /\ conn[p].up
  /\ conn' = [conn EXCEPT ![p].end = "fin"]

PeerResets(p) ==
  /\ conn[p].end \in {"open", "fin"} /\ conn[p].up
  /\ conn' = [conn EXCEPT ![p] = Reset(@)]

PeerStep(p) == \/ PeerBegins(p) \/ PeerSends(p) \/ PeerReads(p)
               \/ PeerFinishes(p) \/ PeerResets(p)

-----------------------------------------------------------------------------
(* The service's system calls.                                             *)

\* recv of n bytes.
Received(c, n) == [c EXCEPT !.rx = RestOf(@, n)]

\* send takes all of s.
SentTo(c, s) == [c EXCEPT !.tx = @ \o s]

Room(c) == SndBuf - Len(c.tx)

\* close: with unread input the kernel sends a reset.
Closed(c) == [(IF c.rx = <<>> THEN c ELSE Reset(c)) EXCEPT !.up = FALSE, !.rx = <<>>]

\* What poll reports: POLLIN for data, end of file and an error; POLLERR and
\* POLLHUP come together.
PollEvents(c) ==
  (IF c.rx # <<>> \/ c.end \in {"fin", "reset"} THEN {"IN"} ELSE {})
  \cup (IF c.end = "reset" THEN {"HUP"} ELSE {})

\* The peer is blocked in send, because the service does not receive, and so
\* does not read.
Blocked(c) == c.owe > 0 /\ c.up /\ Len(c.rx) = RcvBuf

\* A peer's kernel delivers what it sends, and a peer that is not sending reads.
PeerFairness == \A p \in Peers : WF_conn(PeerSends(p)) /\ WF_conn(PeerReads(p))
=============================================================================

---------------------------- MODULE TargetServer ----------------------------
(***************************************************************************)
(* tools/target_echo_server.c in mode "both": one thread that polls a TCP  *)
(* listener, a UDP socket and up to MAX_TCP_CLIENTS non-blocking clients,  *)
(* works through the events of each poll and echoes, waiting in wait_fd    *)
(* for a client whose socket takes no more.                                *)
(*                                                                         *)
(* One step is one system call and the code up to the next one.            *)
(***************************************************************************)
EXTENDS TcpPeers, Integers, Functions

CONSTANTS Limits,     \* the values of MAX_TCP_CLIENTS, the length of clients[]
          IoBufSize,  \* IO_BUF_SIZE: how much one recv takes
          Fds,        \* the descriptor numbers there are for clients
          Packets     \* bound: the datagrams that are sent to the UDP socket

ASSUME SlotsAssumption == Limits \subseteq Nat /\ IoBufSize \in Nat \ {0}
ASSUME FdsAssumption == Fds \subseteq Nat \ (0..4)

NoFd == -1    \* a free entry of clients[]
TcpFd == 3
UdpFd == 4

\* The places of the listening sockets in fds[], before that of client 0.
TcpSlot == -2
UdpSlot == -1

VARIABLES
  packet,   \* packet[k]: "unsent", "queued" or "done"
  slots,    \* clients[]
  fdOf,     \* fdOf[p]: the descriptor of the connection of p, or NoFd
  batch,    \* what is left of fds[] of the last poll, by TcpSlot, UdpSlot and the
            \* entries of client_index_for_poll; the lowest is being handled
  buf,      \* what handle_tcp_client received and send_all has not sent
  running   \* run_server has not returned

serverVars == <<packet, slots, fdOf, batch, buf, running>>
vars == <<conn, serverVars>>

Init == /\ conn = [p \in Peers |-> Connection("away")]
        /\ packet = [k \in Packets |-> "unsent"]
        /\ \E max \in Limits : slots = [i \in 0..(max - 1) |-> NoFd]
        /\ fdOf = [p \in Peers |-> NoFd]
        /\ batch = <<>> /\ buf = <<>> /\ running = TRUE

Slots == DOMAIN slots

\* The clients whose connection is established and not yet accepted.
Queued == {p \in Peers : conn[p].end # "away" /\ conn[p].up /\ fdOf[p] = NoFd}

QueuedPackets == {k \in Packets : packet[k] = "queued"}

FreeFds == Fds \ {fdOf[p] : p \in Peers}
FreeSlots == {i \in Slots : slots[i] = NoFd}
Lowest(S) == CHOOSE i \in S : \A j \in S : i <= j

\* The connection a descriptor belongs to.
OwnersOf(fd) == {p \in Peers : fdOf[p] = fd}

-----------------------------------------------------------------------------
\* The sockets in fds[].
Watched ==
  [i \in {TcpSlot, UdpSlot} \cup {j \in Slots : slots[j] # NoFd} |->
     IF i = TcpSlot THEN TcpFd ELSE IF i = UdpSlot THEN UdpFd ELSE slots[i]]

Revents(fd) ==
  IF fd = TcpFd THEN IF Queued # {} THEN {"IN"} ELSE {}
  ELSE IF fd = UdpFd THEN IF QueuedPackets # {} THEN {"IN"} ELSE {}
  ELSE UNION {PollEvents(conn[p]) : p \in OwnersOf(fd)}

\* poll(-1) returns as soon as one socket has an event.
PollReturns ==
  LET ready == {i \in DOMAIN Watched : Revents(Watched[i]) # {}} IN
  /\ running /\ batch = <<>> /\ ready # {}
  /\ batch' = [i \in ready |-> [fd |-> Watched[i], ev |-> Revents(Watched[i])]]
  /\ UNCHANGED <<conn, packet, slots, fdOf, buf, running>>

\* The loop ends, and run_server closes every socket.
PollFails ==
  /\ running /\ batch = <<>>
  /\ running' = FALSE
  /\ conn' = [p \in Peers |-> IF conn[p].up THEN Closed(conn[p]) ELSE conn[p]]
  /\ slots' = [i \in Slots |-> NoFd] /\ fdOf' = [p \in Peers |-> NoFd]
  /\ UNCHANGED <<packet, batch, buf>>

\* The loop goes through fds[] from the front.
Current == Lowest(DOMAIN batch)

\* The event of fd is the next one and is not handled as a hang-up.
Handles(fd) == /\ batch # <<>> /\ batch[Current].fd = fd
               /\ "HUP" \notin batch[Current].ev

EventDone == batch' = Restrict(batch, DOMAIN batch \ {Current})

\* Faulty: accept blocks while no client is waiting.
AcceptBlocks == FALSE

\* The listener is non-blocking: accept_tcp_clients ends when no client is waiting.
AcceptWouldBlock == Queued = {}

\* Faulty: a client that finds no free entry is kept open.
KeptOpen(c) == c

\* A client that finds no free entry is closed.
TurnedAway(c) == Closed(c)

\* accept returns a client: add_client enters it, or it is one too many.  (fcntl
\* does not fail for an open socket.)
AcceptClient ==
  /\ Handles(TcpFd) /\ FreeFds # {}
  /\ \E p \in Queued :
       IF FreeSlots # {}
       THEN /\ slots' = [slots EXCEPT ![Lowest(FreeSlots)] = Lowest(FreeFds)]
            /\ fdOf' = [fdOf EXCEPT ![p] = Lowest(FreeFds)]
            /\ UNCHANGED conn
       ELSE LET c == TurnedAway(conn[p]) IN
            /\ conn' = [conn EXCEPT ![p] = c]
            /\ fdOf' = [fdOf EXCEPT ![p] = IF c.up THEN Lowest(FreeFds) ELSE NoFd]
            /\ UNCHANGED slots
  /\ UNCHANGED <<packet, batch, buf, running>>

\* accept_tcp_clients returns: nobody waits, or accept fails for want of a descriptor
\* or of memory and leaves the client where it is.
AcceptEnds ==
  /\ Handles(TcpFd)
  /\ AcceptWouldBlock \/ Queued # {}
  /\ EventDone
  /\ UNCHANGED <<conn, packet, slots, fdOf, buf, running>>

\* handle_udp_packets: one datagram is received and sent back; while the socket
\* takes none, send_udp_reply waits.
EchoPacket ==
  /\ Handles(UdpFd)
  /\ \E k \in QueuedPackets : packet' = [packet EXCEPT ![k] = "done"]
  /\ UNCHANGED <<conn, slots, fdOf, batch, buf, running>>

\* sendto fails: handle_udp_packets returns and leaves the rest for the next poll.
EchoPacketFails ==
  /\ Handles(UdpFd)
  /\ \E k \in QueuedPackets : packet' = [packet EXCEPT ![k] = "done"]
  /\ EventDone
  /\ UNCHANGED <<conn, slots, fdOf, buf, running>>

PacketsDone ==
  /\ Handles(UdpFd) /\ QueuedPackets = {}
  /\ EventDone
  /\ UNCHANGED <<conn, packet, slots, fdOf, buf, running>>

\* Faulty: close without clearing the entry of clients[].
SlotKept(i) == slots

\* remove_client clears the entry of clients[].
SlotCleared(i) == [slots EXCEPT ![i] = NoFd]

\* remove_client(clients, client_index): closes the descriptor in the entry, if
\* there is one, and clears the entry.
RemoveClient ==
  LET removed == {p \in OwnersOf(slots[Current]) : slots[Current] # NoFd} IN
  /\ conn' = [p \in Peers |-> IF p \in removed THEN Closed(conn[p]) ELSE conn[p]]
  /\ fdOf' = [p \in Peers |-> IF p \in removed THEN NoFd ELSE fdOf[p]]
  /\ slots' = SlotCleared(Current)
  /\ EventDone /\ buf' = <<>>
  /\ UNCHANGED <<packet, running>>

\* (The listening sockets report no error or hang-up.)
HangUp == batch # <<>> /\ "HUP" \in batch[Current].ev /\ RemoveClient

\* The client p is in handle_tcp_client, which has sent all that it received.
Receives(p) == Handles(fdOf[p]) /\ buf = <<>>

RecvData(p) ==
  LET n == Smaller(IoBufSize, Len(conn[p].rx)) IN
  /\ Receives(p) /\ conn[p].rx # <<>>
  /\ buf' = FirstOf(conn[p].rx, n)
  /\ conn' = [conn EXCEPT ![p] = Received(@, n)]
  /\ UNCHANGED <<packet, slots, fdOf, batch, running>>

\* recv returns 0, or fails.
RecvEnds(p) ==
  /\ Receives(p) /\ conn[p].rx = <<>> /\ conn[p].end \in {"fin", "reset"}
  /\ RemoveClient

RecvWouldBlock(p) ==
  /\ Receives(p) /\ conn[p].rx = <<>> /\ conn[p].end = "open"
  /\ EventDone
  /\ UNCHANGED <<conn, packet, slots, fdOf, buf, running>>

\* Faulty: after EAGAIN send_all gives up, and the rest of the chunk is dropped.
RestAfterWait(s) == <<>>

\* After EAGAIN, and once wait_fd returns, send_all goes on with the same rest.
RestToSend(s) == s

Sends(p) == Handles(fdOf[p]) /\ buf # <<>>

\* send_all, one send that takes part of the chunk; while the kernel has no room,
\* wait_fd waits without a timeout.
SendData(p) ==
  /\ Sends(p) /\ conn[p].end # "reset"
  /\ \E n \in 1..Smaller(Len(buf), Room(conn[p])) :
        /\ conn' = [conn EXCEPT ![p] = SentTo(@, FirstOf(buf, n))]
        /\ buf' = RestToSend(RestOf(buf, n))
  /\ UNCHANGED <<packet, slots, fdOf, batch, running>>

SendFails(p) == Sends(p) /\ conn[p].end = "reset" /\ RemoveClient

-----------------------------------------------------------------------------
ServerStep == \/ PollReturns \/ PollFails \/ AcceptClient \/ AcceptEnds
              \/ EchoPacket \/ EchoPacketFails \/ PacketsDone \/ HangUp
              \/ \E p \in Peers : \/ RecvData(p) \/ RecvEnds(p) \/ RecvWouldBlock(p)
                                  \/ SendData(p) \/ SendFails(p)

\* A datagram reaches the UDP socket.
PacketArrives ==
  /\ running
  /\ \E k \in Packets : packet[k] = "unsent" /\ packet' = [packet EXCEPT ![k] = "queued"]
  /\ UNCHANGED <<conn, slots, fdOf, batch, buf, running>>

ClientStep ==
  /\ \E p \in Peers : PeerStep(p) \/ (running /\ PeerConnects(p))
  /\ UNCHANGED serverVars

Terminated == /\ ~running /\ \A p \in Peers : conn[p].tx = <<>> /\ conn[p].owe = 0
              /\ UNCHANGED vars

Next == ServerStep \/ PacketArrives \/ ClientStep \/ Terminated

SafeSpec == Init /\ [][Next]_vars

\* The server's one thread goes on, and so do the clients with what they have begun.
Spec == SafeSpec /\ WF_vars(ServerStep) /\ PeerFairness
-----------------------------------------------------------------------------
(* Properties.                                                             *)

\* Each entry of clients[] and each open connection name one another, and what is
\* left of the batch still means the connection it was polled for, although the
\* listener's and earlier events of the same batch add and remove clients
\* (add_client, remove_client, the event loop of run_server).
SlotsAgree ==
  /\ \A i \in Slots : slots[i] # NoFd => \E p \in Peers : OwnersOf(slots[i]) = {p}
  /\ \A p \in Peers : fdOf[p] # NoFd => /\ conn[p].up
                                       /\ \E i \in Slots : slots[i] = fdOf[p]
  /\ \A i, j \in Slots : slots[i] = slots[j] => i = j \/ slots[i] = NoFd
  /\ \A i \in DOMAIN batch : i \in Slots => slots[i] = batch[i].fd

\* The thread waits to send to a client that itself is blocked in send, as nobody
\* receives from it: neither goes on until the client resets, and no other client
\* is served.
Stuck == buf # <<>> /\ \E p \in Peers : /\ Sends(p) /\ Room(conn[p]) = 0
                                       /\ Blocked(conn[p])

\* Nothing stops the bytes of p: it was accepted, and neither side has reset.
Flowing(p) == /\ conn[p].end \in {"open", "fin"} /\ p \notin Queued
              /\ ~Stuck

\* Every datagram that reaches the UDP socket is taken and handled, however many
\* clients are served, come and go, unless the thread is stuck with one of them
\* (the order of handlers in run_server, the non-blocking sockets).
PacketsHandled ==
  \A k \in Packets : packet[k] = "queued" ~> (packet[k] # "queued" \/ Stuck \/ ~running)
=============================================================================

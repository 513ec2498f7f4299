------------------------------ MODULE TcpRelay ------------------------------
(***************************************************************************)
(* The TCP proxy of 02_tcp_udp_proxy/main_service.c: a worker that runs    *)
(* process_tcp_proxy_client for one accepted client connects to the target *)
(* and relays in both directions until one side ends                       *)
(* (relay_tcp_proxy_streams, relay_proxy_data, send_all_or_close).         *)
(*                                                                         *)
(* Both sockets are blocking.  One step is one system call and the code up *)
(* to the next one.  main_t never hands a client to this code (EventLoop,  *)
(* ProxyEvent): the module says what it does once it is called.            *)
(***************************************************************************)
EXTENDS TcpPeers

CONSTANTS Client, Target,  \* the two sides of the session
          IoBufSize        \* IO_BUF_SIZE: how much one recv takes

ASSUME SidesAssumption == Client # Target /\ Peers = {Client, Target}
ASSUME ChunkAssumption == IoBufSize \in Nat \ {0}

VARIABLES
  pc,    \* "connect", "poll", "recv", "send", "hangup" or "done"
  from,  \* the side whose POLLIN is being dealt with
  ev,    \* ev[p]: revents of side p, as the last poll returned them
  buf,   \* what relay_proxy_data received and has not sent
  why    \* how the session ended

vars == <<conn, pc, from, ev, buf, why>>

NoEvents == [p \in Peers |-> {}]

Init == /\ conn = [p \in Peers |-> Connection(IF p = Client THEN "open" ELSE "away")]
        /\ pc = "connect" /\ from = Client
        /\ ev = NoEvents /\ buf = <<>> /\ why = "none"

Other(p) == IF p = Client THEN Target ELSE Client

-----------------------------------------------------------------------------
\* connect succeeds, and with it the target has the connection.
Connects ==
  /\ pc = "connect" /\ PeerConnects(Target)
  /\ pc' = "poll"
  /\ UNCHANGED <<from, ev, buf, why>>

\* process_tcp_proxy_client closes both sockets when the relay returns.
End(reason) ==
  /\ pc' = "done" /\ why' = reason /\ ev' = NoEvents /\ buf' = <<>>
  /\ conn' = [p \in Peers |-> Closed(conn[p])]
  /\ UNCHANGED from

\* The target's address is not valid, there is no socket, or connect fails.
ConnectFails == pc = "connect" /\ End("refused")

\* poll(-1) returns as soon as one side has an event.
PollReturns ==
  /\ pc = "poll"
  /\ ev' = [p \in Peers |-> PollEvents(conn[p])]
  /\ ev' # NoEvents
  /\ pc' = "recv" /\ from' = Client
  /\ UNCHANGED <<conn, buf, why>>

PollFails == pc = "poll" /\ End("error")

\* The client's POLLIN is dealt with before the target's, and both before the
\* tests for POLLERR and POLLHUP.
NextTest == IF from = Client THEN pc' = "recv" /\ from' = Target
                             ELSE pc' = "hangup" /\ UNCHANGED from

NoInput ==
  /\ pc = "recv" /\ "IN" \notin ev[from]
  /\ NextTest
  /\ UNCHANGED <<conn, ev, buf, why>>

Input == pc = "recv" /\ "IN" \in ev[from]

\* Faulty: recv may return more than the buffer holds.
ChunkUnbounded == Len(conn[from].rx)

\* How much one recv returns.
Chunk == Smaller(IoBufSize, Len(conn[from].rx))

RecvData ==
  /\ Input /\ conn[from].rx # <<>>
  /\ buf' = FirstOf(conn[from].rx, Chunk)
  /\ conn' = [conn EXCEPT ![from] = Received(@, Chunk)]
  /\ pc' = "send"
  /\ UNCHANGED <<from, ev, why>>

\* Faulty: only an error ends the session.
EndsOnError(ret) == ret < 0

\* Which results of relay_proxy_data end the session.
Ends(ret) == ret <= 0

\* recv returns 0.
RecvEof ==
  /\ Input /\ conn[from].rx = <<>> /\ conn[from].end = "fin"
  /\ IF Ends(0) THEN End("eof") ELSE NextTest /\ UNCHANGED <<conn, ev, buf, why>>

RecvFails ==
  /\ Input /\ conn[from].rx = <<>> /\ conn[from].end = "reset"
  /\ End("error")

\* Faulty: send_all_or_close is done after one send.
SentAllAtOnce(rest) == TRUE

\* The loop condition of send_all_or_close, after a send.
SentAll(rest) == rest = <<>>

\* send_all_or_close, one send that takes part of the chunk; it blocks while the
\* kernel has no room.
Send ==
  LET to == Other(from) IN
  /\ pc = "send" /\ conn[to].end # "reset"
  /\ \E n \in 1..Smaller(Len(buf), Room(conn[to])) :
        /\ conn' = [conn EXCEPT ![to] = SentTo(@, FirstOf(buf, n))]
        /\ IF SentAll(RestOf(buf, n)) THEN buf' = <<>> /\ NextTest
                                      ELSE buf' = RestOf(buf, n) /\ UNCHANGED <<pc, from>>
  /\ UNCHANGED <<ev, why>>

SendFails == pc = "send" /\ conn[Other(from)].end = "reset" /\ End("error")

HungUp == \E p \in Peers : "HUP" \in ev[p]

Hangup == pc = "hangup" /\ HungUp /\ End("hup")

PollAgain ==
  /\ pc = "hangup" /\ ~HungUp
  /\ pc' = "poll" /\ ev' = NoEvents /\ from' = Client
  /\ UNCHANGED <<conn, buf, why>>

Terminated == /\ pc = "done" /\ \A p \in Peers : conn[p].tx = <<>> /\ conn[p].owe = 0
              /\ UNCHANGED vars

-----------------------------------------------------------------------------
RelayStep == \/ Connects \/ ConnectFails \/ PollReturns \/ PollFails
             \/ NoInput \/ RecvData \/ RecvEof \/ RecvFails
             \/ Send \/ SendFails \/ Hangup \/ PollAgain

OthersStep == /\ \E p \in Peers : PeerStep(p)
              /\ UNCHANGED <<pc, from, ev, buf, why>>

Next == RelayStep \/ OthersStep \/ Terminated

SafeSpec == Init /\ [][Next]_vars

\* The worker goes on, and so do the peers with what they have begun.  Nothing
\* makes a peer begin a message, finish or reset.
Spec == SafeSpec /\ WF_vars(RelayStep) /\ PeerFairness
-----------------------------------------------------------------------------
(* Properties.                                                             *)

\* Every variable has its type, and neither the kernel's buffers nor the buffer of
\* relay_proxy_data hold more than they can.
TypeOK ==
  /\ \A p \in Peers : /\ conn[p] \in ConnType
                      /\ Len(conn[p].rx) <= RcvBuf /\ Len(conn[p].tx) <= SndBuf
  /\ pc \in {"connect", "poll", "recv", "send", "hangup", "done"}
  /\ from \in Peers /\ ev \in [Peers -> SUBSET {"IN", "HUP"}]
  /\ buf \in Seq(Nat) /\ Len(buf) <= IoBufSize
  /\ why \in {"none", "refused", "eof", "error", "hup"}

\* The worker is blocked in send to a side that is itself blocked in send, as
\* nobody receives from it: neither can go on, until a side resets.
Clinch == /\ pc = "send" /\ Room(conn[Other(from)]) = 0
          /\ Blocked(conn[Other(from)])

\* Nothing stops the bytes of p: the session is open, or it was ended by p's end
\* of file and the other side was sent no reset with it.
Flowing(p) == /\ \A q \in Peers : conn[q].end \in {"open", "fin"}
              /\ pc = "done" => why = "eof" /\ from = p
              /\ ~Clinch

Up == INSTANCE ByteStream WITH written <- conn[Client].sent,
                               got <- conn[Target].got,
                               flowing <- Flowing(Client)

Down == INSTANCE ByteStream WITH written <- conn[Target].sent,
                                 got <- conn[Client].got,
                                 flowing <- Flowing(Target)

\* The relay is a byte stream in both directions: each side reads the other's bytes
\* in order, none twice or left out, and while the session lasts every byte is
\* delivered, whatever the other direction does, short of a mutual block
\* (relay_tcp_proxy_streams, relay_proxy_data, send_all_or_close).
RelaysBothWays == Up!Spec /\ Down!Spec

\* When one side's end of file ends the session, all it sent has been taken by the
\* other side's socket, if that side has not reset (relay_proxy_data returns 0 only
\* after recv has returned everything before it).
EofForwardsAll ==
  [][why' = "eof" /\ why # "eof" /\ conn[Other(from)].end # "reset" =>
       conn[from].sent = Len(conn[Other(from)].got) + Len(conn[Other(from)].tx)]_vars

\* Once a side has shut down or reset, the worker ends the session and is free for
\* other tasks, unless it is caught in a mutual block; poll, recv and send have no
\* timeout that would help (relay_tcp_proxy_streams).
SessionEnds == (\E p \in Peers : conn[p].end \in {"fin", "reset"}) ~> (pc = "done" \/ Clinch)
=============================================================================

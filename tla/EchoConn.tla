------------------------------ MODULE EchoConn ------------------------------
(***************************************************************************)
(* One TCP echo connection of 02_tcp_udp_proxy/main_service.c, from its    *)
(* registration with epoll to its close: the client, the two kernel        *)
(* buffers of the socket, and the main thread in handle_tcp_echo_event,    *)
(* flush_tcp_echo_output, handle_tcp_echo_read, send_or_buffer_tcp_echo    *)
(* and close_idle_tcp_conns.                                               *)
(*                                                                         *)
(* One step is one system call and the code up to the next one, so the     *)
(* client may send, read, shut down or reset between any two calls.  The   *)
(* bytes the client sends are the numbers 1, 2, 3, ...                     *)
(***************************************************************************)
EXTENDS Integers, Sequences

CONSTANTS IoBufSize,  \* IO_BUF_SIZE: the read chunk and conn->out_buf
          RcvBuf,     \* how much the kernel holds of what the client sent
          SndBuf,     \* how much it holds of what the client has not read
          IdleLimit,  \* TCP_CONN_IDLE_TIMEOUT_SEC
          MaxBytes    \* bound: how many bytes the client sends

ASSUME BufferAssumption ==
  /\ IoBufSize \in Nat \ {0} /\ RcvBuf \in Nat \ {0} /\ SndBuf \in Nat \ {0}
ASSUME IdleAssumption == IdleLimit \in Nat \ {0}
ASSUME BytesAssumption == MaxBytes \in Nat

VARIABLES
  sent,   \* how many bytes the client has sent
  peer,   \* "open", "fin" after its shutdown or close, "reset"
  rx,     \* received by the kernel, not yet by recv
  buf,    \* what handle_tcp_echo_read received and has not sent
  out,    \* out_buf[out_sent .. out_len): the pending output
  tx,     \* taken by send, not yet read by the client
  got,    \* what the client has read
  mask,   \* "IN" or "OUT": the events asked of epoll, beside ERR, HUP, RDHUP
  flags,  \* the event flags epoll_wait returned for this connection
  pc,     \* where the main thread is with this connection
  age,    \* seconds since conn->last_active, at most IdleLimit
  why     \* the reason given to close_tcp_conn

clientVars == <<sent, peer, got>>
vars == <<sent, peer, rx, buf, out, tx, got, mask, flags, pc, age, why>>

Stages == {"wait", "flush", "read", "send", "hangup", "sweep", "closed"}
Reasons == {"none", "eof", "peer", "error", "idle", "shutdown"}

\* accept_clients and add_tcp_echo_client have registered the connection.
Init == /\ sent = 0 /\ peer = "open" /\ got = <<>>
        /\ rx = <<>> /\ buf = <<>> /\ out = <<>> /\ tx = <<>>
        /\ mask = "IN" /\ flags = {} /\ pc = "wait"
        /\ age = 0 /\ why = "none"

Smaller(m, n) == IF m <= n THEN m ELSE n
FirstOf(s, n) == SubSeq(s, 1, n)
RestOf(s, n)  == SubSeq(s, n + 1, Len(s))

-----------------------------------------------------------------------------
(* The client and its network.                                             *)

ClientSends ==
  /\ peer = "open" /\ pc # "closed"
  /\ sent < MaxBytes /\ Len(rx) < RcvBuf
  /\ sent' = sent + 1
  /\ rx' = Append(rx, sent + 1)
  /\ UNCHANGED <<peer, buf, out, tx, got, mask, flags, pc, age, why>>

ClientReads ==
  /\ peer # "reset" /\ tx # <<>>
  /\ got' = Append(got, Head(tx))
  /\ tx' = Tail(tx)
  /\ UNCHANGED <<sent, peer, rx, buf, out, mask, flags, pc, age, why>>

\* The client shuts its sending side down, or closes having read everything.
ClientFinishes ==
  /\ peer = "open" /\ pc # "closed"
  /\ peer' = "fin"
  /\ UNCHANGED <<sent, rx, buf, out, tx, got, mask, flags, pc, age, why>>

ClientResets ==
  /\ peer # "reset" /\ pc # "closed"
  /\ peer' = "reset"
  /\ UNCHANGED <<sent, rx, buf, out, tx, got, mask, flags, pc, age, why>>

-----------------------------------------------------------------------------
(* The main thread.                                                        *)

HasPendingOutput(o) == o # <<>>

\* Faulty: the interest in EPOLLOUT, once needed, is kept.
EventsSticky(o) == IF HasPendingOutput(o) THEN "OUT" ELSE mask

\* tcp_conn_events, and update_tcp_conn_events that hands it to epoll.
Events(o) == IF HasPendingOutput(o) THEN "OUT" ELSE "IN"

Room == SndBuf - Len(tx)

\* What a level-triggered epoll_wait reports now.
Ready ==
  (IF peer = "reset" THEN {"ERR", "HUP", "RDHUP", mask} ELSE {})
  \cup (IF peer = "fin" THEN {"RDHUP"} ELSE {})
  \cup (IF mask = "IN" /\ (rx # <<>> \/ peer = "fin") THEN {"IN"} ELSE {})
  \cup (IF mask = "OUT" /\ Room > 0 THEN {"OUT"} ELSE {})

\* The stage of handle_tcp_echo_event that follows its EPOLLOUT part.
AfterFlush == IF "IN" \in flags' THEN "read" ELSE "hangup"

\* close_tcp_conn.  A close with unread input makes the kernel send a reset,
\* which may overtake what the client has not read.
Close(reason) ==
  /\ pc' = "closed" /\ why' = reason
  /\ \E n \in (IF rx = <<>> THEN {Len(tx)} ELSE 0..Len(tx)) : tx' = FirstOf(tx, n)
  /\ UNCHANGED <<clientVars, rx, buf, out, mask, flags, age>>

\* epoll_wait returns an event of this connection: handle_tcp_echo_event.
EpollEvent ==
  /\ pc = "wait" /\ Ready # {} /\ "ERR" \notin Ready
  /\ flags' = Ready
  /\ pc' = IF "OUT" \in Ready THEN "flush" ELSE AfterFlush
  /\ UNCHANGED <<clientVars, rx, buf, out, tx, mask, age, why>>

EpollError ==
  /\ pc = "wait" /\ "ERR" \in Ready
  /\ Close("error")

\* epoll_wait times out or returns events of other sockets only.
EpollNothing ==
  /\ pc = "wait" /\ Ready = {}
  /\ pc' = "sweep"
  /\ UNCHANGED <<clientVars, rx, buf, out, tx, mask, flags, age, why>>

\* flush_tcp_echo_output, one send that takes a part of the pending output.
FlushSend ==
  /\ pc = "flush" /\ HasPendingOutput(out) /\ peer # "reset"
  /\ \E n \in 1..Smaller(Len(out), Room) :
        /\ tx' = tx \o FirstOf(out, n)
        /\ out' = RestOf(out, n)
  /\ age' = 0
  /\ UNCHANGED <<clientVars, rx, buf, mask, flags, pc, why>>

\* flush_tcp_echo_output is through: everything is sent, or send would block.
Flushed == pc = "flush" /\ (HasPendingOutput(out) => peer # "reset" /\ Room = 0)

FlushDone ==
  /\ Flushed
  /\ mask' = Events(out)
  /\ UNCHANGED <<clientVars, rx, buf, out, tx, flags, age, why>>
  /\ pc' = AfterFlush

\* send fails in flush_tcp_echo_output or send_or_buffer_tcp_echo.
SendFails ==
  /\ \/ pc = "flush" /\ HasPendingOutput(out)
     \/ pc = "send"
  /\ peer = "reset"
  /\ Close("error")

\* Faulty: handle_tcp_echo_read goes on while output is pending.
MayReadAlways == TRUE

\* The loop condition of handle_tcp_echo_read.
MayRead == ~HasPendingOutput(out)

\* Faulty: recv may return more than the buffers hold.
ChunkUnbounded == Len(rx)

\* How much one recv returns.
Chunk == Smaller(IoBufSize, Len(rx))

\* recv in handle_tcp_echo_read returns data.
ReadData ==
  /\ pc = "read" /\ MayRead /\ rx # <<>>
  /\ buf' = FirstOf(rx, Chunk)
  /\ rx' = RestOf(rx, Chunk)
  /\ age' = 0
  /\ pc' = "send"
  /\ UNCHANGED <<clientVars, out, tx, mask, flags, why>>

\* recv returns 0.
ReadEof ==
  /\ pc = "read" /\ MayRead /\ rx = <<>> /\ peer = "fin"
  /\ Close("eof")

ReadFails ==
  /\ pc = "read" /\ MayRead /\ rx = <<>> /\ peer = "reset"
  /\ Close("error")

\* handle_tcp_echo_read is through: recv would block, or output is pending.
ReadOver == pc = "read" /\ (MayRead => rx = <<>> /\ peer = "open")

ReadDone ==
  /\ ReadOver
  /\ mask' = Events(out)
  /\ pc' = "hangup"
  /\ UNCHANGED <<clientVars, rx, buf, out, tx, flags, age, why>>

\* Faulty: after one chunk handle_tcp_echo_read does not call recv again.
StageAfterOneChunk(rest) == IF rest = <<>> THEN "hangup" ELSE "send"

\* The chunk is sent: handle_tcp_echo_read calls recv again.
StageAfterSend(rest) == IF rest = <<>> THEN "read" ELSE "send"

\* send_or_buffer_tcp_echo, one send that takes a part of the chunk.
EchoSend ==
  /\ pc = "send" /\ peer # "reset"
  /\ \E n \in 1..Smaller(Len(buf), Room) :
        /\ tx' = tx \o FirstOf(buf, n)
        /\ buf' = RestOf(buf, n)
  /\ age' = 0
  /\ pc' = StageAfterSend(buf')
  /\ UNCHANGED <<clientVars, rx, out, mask, flags, why>>

\* send in send_or_buffer_tcp_echo would block.
SendWouldBlock == pc = "send" /\ peer # "reset" /\ Room = 0

\* The rest of the chunk becomes pending output.
EchoBuffer ==
  /\ SendWouldBlock
  /\ out' = buf /\ buf' = <<>>
  /\ mask' = Events(out')
  /\ pc' = "read"
  /\ UNCHANGED <<clientVars, rx, tx, flags, age, why>>

\* update_tcp_conn_events fails at the end of one of the three functions, all of
\* which then return -1.
UpdateFails == (Flushed \/ ReadOver \/ SendWouldBlock) /\ Close("error")

HungUp == flags \cap {"RDHUP", "HUP"} # {}

\* The end of handle_tcp_echo_event.
Hangup == pc = "hangup" /\ HungUp /\ Close("peer")

EventDone ==
  /\ pc = "hangup" /\ ~HungUp
  /\ pc' = "sweep" /\ flags' = {}
  /\ UNCHANGED <<clientVars, rx, buf, out, tx, mask, age, why>>

\* now - conn->last_active >= TCP_CONN_IDLE_TIMEOUT_SEC
Idle == age >= IdleLimit

\* close_idle_tcp_conns, after the events of every epoll_wait.
SweepCloses == pc = "sweep" /\ Idle /\ Close("idle")

SweepKeeps ==
  /\ pc = "sweep" /\ ~Idle
  /\ pc' = "wait"
  /\ UNCHANGED <<clientVars, rx, buf, out, tx, mask, flags, age, why>>

\* close_all_tcp_conns, when the loop of main_t has ended.
Shutdown == pc = "wait" /\ Close("shutdown")

\* A second passes.  The main thread needs far less than a second for the
\* events that are ready.
Tick ==
  /\ pc \in {"wait", "sweep"} /\ Ready = {} /\ age < IdleLimit
  /\ age' = age + 1
  /\ UNCHANGED <<clientVars, rx, buf, out, tx, mask, flags, pc, why>>

Terminated == pc = "closed" /\ (tx = <<>> \/ peer = "reset") /\ UNCHANGED vars

-----------------------------------------------------------------------------
ClientStep == ClientSends \/ ClientReads \/ ClientFinishes \/ ClientResets

ServerStep == \/ EpollEvent \/ EpollError \/ EpollNothing
              \/ FlushSend \/ FlushDone \/ SendFails
              \/ ReadData \/ ReadEof \/ ReadFails \/ ReadDone
              \/ EchoSend \/ EchoBuffer \/ UpdateFails
              \/ Hangup \/ EventDone \/ SweepCloses \/ SweepKeeps

Next == ClientStep \/ ServerStep \/ Shutdown \/ Tick \/ Terminated

SafeSpec == Init /\ [][Next]_vars

\* The main thread goes on, the client reads what has arrived, and time passes.
\* Nothing makes the client send, finish or reset, or the service shut down.
Spec == /\ SafeSpec
        /\ WF_vars(ServerStep) /\ WF_vars(ClientReads) /\ WF_vars(Tick)
-----------------------------------------------------------------------------
(* Properties.                                                             *)

\* Every variable has its type, and no buffer holds more than it can: what
\* send_or_buffer_tcp_echo keeps always fits into conn->out_buf.
TypeOK ==
  /\ sent \in 0..MaxBytes /\ peer \in {"open", "fin", "reset"}
  /\ rx \in Seq(Nat) /\ Len(rx) <= RcvBuf
  /\ tx \in Seq(Nat) /\ Len(tx) <= SndBuf
  /\ buf \in Seq(Nat) /\ Len(buf) <= IoBufSize
  /\ out \in Seq(Nat) /\ Len(out) <= IoBufSize
  /\ got \in Seq(Nat)
  /\ mask \in {"IN", "OUT"}
  /\ flags \subseteq {"IN", "OUT", "RDHUP", "HUP", "ERR"}
  /\ pc \in Stages /\ age \in 0..IdleLimit /\ why \in Reasons

\* The bytes of s are the ones that follow the first n.
Follows(s, n) == \A i \in DOMAIN s : s[i] = n + i

Delivered == Len(got) + Len(tx)

\* The client reads back what it sent, in order; while the connection is open
\* the buffers hold each byte not yet read back exactly once (handle_tcp_echo_read,
\* send_or_buffer_tcp_echo, flush_tcp_echo_output).
EchoInOrder ==
  /\ Follows(got, 0) /\ Follows(tx, Len(got))
  /\ pc # "closed" =>
       /\ Follows(out, Delivered)
       /\ Follows(buf, Delivered + Len(out))
       /\ Follows(rx, Delivered + Len(out) + Len(buf))
       /\ sent = Delivered + Len(out) + Len(buf) + Len(rx)

\* While the main thread is in epoll_wait, it waits to send exactly when output
\* is pending and to receive otherwise: it can neither forget pending output
\* nor be woken for ever by a socket it has nothing to send to
\* (tcp_conn_events and its callers).
MaskMatchesPending == pc = "wait" => (mask = "OUT" <=> HasPendingOutput(out))

\* A connection closed because recv returned 0 has echoed everything
\* (handle_tcp_echo_read reads on only when nothing is pending).  A client that
\* half-closes while output is pending is closed by Hangup instead.
EofLosesNothing == why = "eof" => Delivered = sent

\* What a hang-up costs (the order of the tests in handle_tcp_echo_event): the
\* output the client has not taken, or, when the event was for EPOLLOUT alone, the
\* input that the handler never read, and that also of a client which goes on
\* reading.  In an event for EPOLLIN only pending output can be lost: otherwise
\* everything went back before the close.
HangupCutsBehindOutput ==
  why = "peer" => \/ HasPendingOutput(out)
                  \/ rx # <<>> /\ flags \cap {"IN", "OUT"} = {"OUT"}
                  \/ Delivered = sent

\* The connection is a byte stream from the client back to itself, and every byte
\* comes back to a client that goes on reading, unless the connection is cut by
\* the client, a hang-up, an error, the shutdown, or for idleness
\* (handle_tcp_echo_event and all that it calls).
Stream == INSTANCE ByteStream
            WITH written <- sent,
                 flowing <- peer # "reset" /\ why \in {"none", "eof"}

StreamSpec == Stream!Spec
=============================================================================

--------------------------- MODULE EchoConnProofs ---------------------------
(***************************************************************************)
(* Proofs about EchoConn, for every size of the buffers, every number of   *)
(* bytes and every idle limit.  Inv is the inductive invariant.            *)
(***************************************************************************)
EXTENDS EchoConn, BasicFacts

\* What the position of the main thread says of the rest: a chunk is held only
\* between recv and its last send, and then nothing is pending; epoll's mask is
\* settled whenever the handler is through with it; a close has a reason; a
\* hang-up that is being handled finds output pending or came with EPOLLOUT alone.
Control ==
  /\ pc # "closed" => (pc = "send" <=> buf # <<>>)
  /\ pc = "send" => out = <<>>
  /\ pc \in {"wait", "sweep", "hangup"} => (mask = "OUT" <=> out # <<>>)
  /\ pc = "closed" <=> why # "none"
  /\ pc \in {"wait", "sweep"} => flags = {}
  /\ pc = "flush" => "OUT" \in flags
  /\ pc # "closed" /\ HungUp => peer # "open"
  /\ pc = "hangup" /\ HungUp => out # <<>> \/ flags \cap {"IN", "OUT"} = {"OUT"}

Inv == /\ TypeOK
       /\ EchoInOrder
       /\ EofLosesNothing
       /\ HangupCutsBehindOutput
       /\ Control

USE BufferAssumption, IdleAssumption, BytesAssumption

-----------------------------------------------------------------------------
(* Runs of consecutive numbers, as EchoConn names them.                    *)

\* Cutting a run in two leaves two runs.
LEMMA FollowsSplit ==
  ASSUME NEW s \in Seq(Nat), NEW n \in 0..Len(s), NEW m \in Nat, Follows(s, m)
  PROVE  Follows(FirstOf(s, n), m) /\ Follows(RestOf(s, n), m + n)
  BY RunSplit DEF Follows, Run, FirstOf, RestOf

\* The parts have the lengths one expects.
LEMMA FirstOfFacts ==
  ASSUME NEW s \in Seq(Nat), NEW n \in 0..Len(s)
  PROVE  FirstOf(s, n) \in Seq(Nat) /\ Len(FirstOf(s, n)) = n
  BY FirstFacts DEF FirstOf

LEMMA RestOfFacts ==
  ASSUME NEW s \in Seq(Nat), NEW n \in 0..Len(s)
  PROVE  RestOf(s, n) \in Seq(Nat) /\ Len(RestOf(s, n)) = Len(s) - n
  BY RestFacts DEF RestOf

\* A run and the run that follows it make one run.
LEMMA FollowsConcat ==
  ASSUME NEW s \in Seq(Nat), NEW t \in Seq(Nat), NEW m \in Nat,
         Follows(s, m), Follows(t, m + Len(s))
  PROVE  /\ Follows(s \o t, m) /\ s \o t \in Seq(Nat)
         /\ Len(s \o t) = Len(s) + Len(t)
  BY RunConcat DEF Follows, Run

\* A run grows by its next number.
LEMMA FollowsAppend ==
  ASSUME NEW s \in Seq(Nat), NEW m \in Nat, NEW x \in Nat,
         Follows(s, m), x = m + Len(s) + 1
  PROVE  /\ Follows(Append(s, x), m) /\ Append(s, x) \in Seq(Nat)
         /\ Len(Append(s, x)) = Len(s) + 1
  BY RunAppend DEF Follows, Run

\* The head of a run is its first number, its tail the run after that.
LEMMA FollowsTail ==
  ASSUME NEW s \in Seq(Nat), NEW m \in Nat, Follows(s, m), s # <<>>
  PROVE  /\ Head(s) = m + 1 /\ Follows(Tail(s), m + 1)
         /\ Tail(s) \in Seq(Nat) /\ Len(Tail(s)) = Len(s) - 1
  BY RunTail DEF Follows, Run

\* The empty sequence is a run from anywhere.
LEMMA FollowsEmpty == \A m : Follows(<<>>, m) /\ <<>> \in Seq(Nat) /\ Len(<<>>) = 0
  BY DEF Follows

-----------------------------------------------------------------------------
(* Init, and one lemma per step.                                           *)

\* What Inv says of the types, in the form the steps need.
LEMMA InvTypes ==
  ASSUME TypeOK
  PROVE  /\ rx \in Seq(Nat) /\ buf \in Seq(Nat) /\ out \in Seq(Nat)
         /\ tx \in Seq(Nat) /\ got \in Seq(Nat)
         /\ Len(rx) \in Nat /\ Len(buf) \in Nat /\ Len(out) \in Nat
         /\ Len(tx) \in Nat /\ Len(got) \in Nat /\ sent \in Nat
         /\ Room \in Int /\ Room >= 0
  BY LenFacts DEF TypeOK, Room

\* The initial states satisfy the invariant.
LEMMA InitInv == Init => Inv
<1> SUFFICES ASSUME Init PROVE Inv
  OBVIOUS
<1>1. TypeOK
  BY FollowsEmpty DEF Init, TypeOK, Stages, Reasons
<1>2. EchoInOrder
  BY FollowsEmpty DEF Init, EchoInOrder, Delivered
<1>3. EofLosesNothing /\ HangupCutsBehindOutput
  BY DEF Init, EofLosesNothing, HangupCutsBehindOutput
<1>4. Control
  BY DEF Init, Control, HungUp
<1> QED
  BY <1>1, <1>2, <1>3, <1>4 DEF Inv

\* EchoInOrder only speaks of the buffers.
LEMMA BuffersUntouched ==
  ASSUME EchoInOrder, UNCHANGED <<sent, rx, buf, out, tx, got>>,
         pc' = "closed" \/ pc # "closed"
  PROVE  EchoInOrder'
  BY DEF EchoInOrder, Delivered, Follows

\* A byte sent by the client is the next one of the stream.
LEMMA ClientSendsInv == ASSUME Inv, ClientSends PROVE Inv'
<1> USE DEF ClientSends, Inv
<1>1. /\ rx \in Seq(Nat) /\ Len(rx) \in Nat /\ sent + 1 \in Nat
      /\ Follows(rx, Delivered + Len(out) + Len(buf))
      /\ Delivered + Len(out) + Len(buf) \in Nat
      /\ sent = Delivered + Len(out) + Len(buf) + Len(rx)
  BY InvTypes DEF EchoInOrder, Delivered
<1>2. /\ Follows(rx', Delivered + Len(out) + Len(buf))
      /\ rx' \in Seq(Nat) /\ Len(rx') = Len(rx) + 1
  BY <1>1, FollowsAppend
<1>3. TypeOK'
  <2>1. sent' \in 0..MaxBytes
    BY DEF TypeOK
  <2>2. Len(rx) + 1 <= RcvBuf
    BY <1>1
  <2>3. Len(rx') <= RcvBuf
    BY <1>2, <2>2
  <2> QED
    BY <1>2, <2>1, <2>3 DEF TypeOK
<1>4. EchoInOrder'
  BY <1>1, <1>2, InvTypes DEF EchoInOrder, Delivered, Follows
<1>5. EofLosesNothing' /\ HangupCutsBehindOutput'
  BY DEF Control, EofLosesNothing, HangupCutsBehindOutput
<1>6. Control'
  BY DEF Control, HungUp
<1> QED
  BY <1>3, <1>4, <1>5, <1>6

\* The client reads the next byte of the stream.
LEMMA ClientReadsInv == ASSUME Inv, ClientReads PROVE Inv'
<1> USE DEF ClientReads, Inv
<1>1. /\ tx \in Seq(Nat) /\ got \in Seq(Nat)
      /\ Follows(got, 0) /\ Follows(tx, Len(got))
      /\ Len(got) \in Nat /\ Len(tx) \in Nat
  BY InvTypes DEF EchoInOrder
<1>2. /\ Head(tx) = Len(got) + 1 /\ Follows(tx', Len(got) + 1)
      /\ tx' \in Seq(Nat) /\ Len(tx') = Len(tx) - 1
  BY <1>1, FollowsTail
<1>3. /\ Follows(got', 0) /\ got' \in Seq(Nat) /\ Len(got') = Len(got) + 1
  BY <1>1, <1>2, FollowsAppend
<1>4. TypeOK'
  BY <1>1, <1>2, <1>3 DEF TypeOK
<1>5. Len(got') + Len(tx') = Len(got) + Len(tx)
  BY <1>1, <1>2, <1>3
<1>6. EchoInOrder'
  <2>1. Follows(tx', Len(got'))
    BY <1>2, <1>3
  <2> QED
    BY <1>3, <1>5, <2>1 DEF EchoInOrder, Delivered, Follows
<1>7. EofLosesNothing' /\ HangupCutsBehindOutput'
  BY <1>5 DEF EofLosesNothing, HangupCutsBehindOutput, Delivered
<1>8. Control'
  BY DEF Control, HungUp
<1> QED
  BY <1>4, <1>6, <1>7, <1>8

\* The client finishes or resets, a second passes, or epoll_wait times out.
LEMMA QuietStepInv ==
  ASSUME Inv, \/ ClientFinishes \/ ClientResets \/ Tick
              \/ EpollNothing \/ EventDone \/ SweepKeeps
  PROVE  Inv'
<1> USE DEF Inv, ClientFinishes, ClientResets, Tick, EpollNothing, EventDone,
            SweepKeeps, clientVars
<1>1. TypeOK'
  <2>1. age' \in 0..IdleLimit
    BY DEF TypeOK
  <2>2. pc' \in Stages /\ peer' \in {"open", "fin", "reset"}
    BY DEF TypeOK, Stages
  <2>3. flags' \subseteq {"IN", "OUT", "RDHUP", "HUP", "ERR"}
    BY DEF TypeOK, Ready
  <2> QED
    BY <2>1, <2>2, <2>3 DEF TypeOK
<1>2. EchoInOrder'
  BY BuffersUntouched
<1>3. EofLosesNothing' /\ HangupCutsBehindOutput'
  BY DEF EofLosesNothing, HangupCutsBehindOutput, Delivered, Control
<1>4. Control'
  BY DEF Control, HungUp
<1> QED
  BY <1>1, <1>2, <1>3, <1>4

\* epoll_wait returns an event: without EPOLLIN and EPOLLOUT it is a hang-up
\* that finds output pending.
LEMMA EpollEventInv == ASSUME Inv, EpollEvent PROVE Inv'
<1> USE DEF Inv, EpollEvent, clientVars
<1>1. pc' \in {"flush", "read", "hangup"}
  BY DEF AfterFlush
<1>2. TypeOK'
  BY <1>1 DEF TypeOK, Stages, Ready
<1>3. EchoInOrder'
  BY <1>1, BuffersUntouched
<1>4. EofLosesNothing' /\ HangupCutsBehindOutput'
  BY DEF EofLosesNothing, HangupCutsBehindOutput, Delivered, Control
<1>5. peer # "reset" /\ (HungUp' => peer = "fin")
  BY DEF Ready, HungUp, TypeOK
<1>6. pc' = "hangup" => out # <<>>
  <2> SUFFICES ASSUME pc' = "hangup" PROVE out # <<>>
    OBVIOUS
  <2>1. "OUT" \notin Ready /\ "IN" \notin Ready
    BY DEF AfterFlush
  <2>2. peer = "fin" /\ mask # "IN"
    BY <1>5, <2>1 DEF Ready, TypeOK
  <2> QED
    BY <2>2 DEF Control, TypeOK
<1>7. /\ pc' = "flush" => "OUT" \in flags'
      /\ pc' = "hangup" => mask' = "OUT" /\ out' # <<>>
      /\ pc' # "send" /\ buf' = <<>> /\ why' = "none"
  BY <1>1, <1>6 DEF AfterFlush, Control
<1>8. Control'
  BY <1>1, <1>5, <1>7 DEF Control
<1> QED
  BY <1>2, <1>3, <1>4, <1>8

\* Closing keeps the invariant, given what its reason promises.
LEMMA CloseInv ==
  ASSUME Inv, pc # "closed", NEW reason \in Reasons \ {"none"}, Close(reason),
         reason = "eof" => rx = <<>> /\ buf = <<>> /\ out = <<>>,
         reason = "peer" => /\ buf = <<>>
                            /\ HasPendingOutput(out) \/ flags \cap {"IN", "OUT"} = {"OUT"}
  PROVE  Inv'
<1> USE DEF Inv, Close, clientVars
<1>1. /\ tx \in Seq(Nat) /\ Len(tx) \in Nat /\ Len(tx) <= SndBuf
      /\ Len(got) \in Nat /\ Follows(tx, Len(got)) /\ Follows(got, 0)
  BY InvTypes DEF TypeOK, EchoInOrder
<1>2. PICK n \in 0..Len(tx) : tx' = FirstOf(tx, n) /\ (rx = <<>> => n = Len(tx))
  BY <1>1
<1>3. tx' \in Seq(Nat) /\ Len(tx') = n /\ Follows(tx', Len(got))
  BY <1>1, <1>2, FirstOfFacts, FollowsSplit
<1>4. TypeOK'
  <2>1. Len(tx') <= SndBuf
    BY <1>1, <1>3
  <2> QED
    BY <1>3, <2>1 DEF TypeOK, Stages
<1>5. EchoInOrder'
  BY <1>1, <1>3 DEF EchoInOrder, Follows
<1>6. ASSUME rx = <<>>, buf = <<>>, out = <<>> PROVE Delivered' = sent'
  <2>1. Len(tx') = Len(tx) /\ Len(out) = 0 /\ Len(buf) = 0 /\ Len(rx) = 0
    BY <1>2, <1>3, <1>6, FollowsEmpty
  <2> QED
    BY <1>1, <2>1 DEF Delivered, EchoInOrder
<1>7. EofLosesNothing'
  BY <1>6 DEF EofLosesNothing
<1>8. HangupCutsBehindOutput'
  BY <1>6 DEF HangupCutsBehindOutput, HasPendingOutput
<1>9. Control'
  BY DEF Control, HungUp
<1> QED
  BY <1>4, <1>5, <1>7, <1>8, <1>9

\* Every call of close_tcp_conn.
LEMMA ClosesInv ==
  ASSUME Inv, \/ EpollError \/ SendFails \/ ReadEof \/ ReadFails \/ UpdateFails
              \/ Hangup \/ SweepCloses \/ Shutdown
  PROVE  Inv'
<1>1. CASE EpollError \/ SendFails \/ ReadFails \/ SweepCloses \/ Shutdown
  BY <1>1, CloseInv DEF EpollError, SendFails, ReadFails, SweepCloses, Shutdown, Reasons
<1>2. CASE ReadEof
  <2>1. rx = <<>> /\ buf = <<>> /\ out = <<>>
    BY <1>2 DEF ReadEof, Inv, Control, MayRead, HasPendingOutput
  <2> QED
    BY <1>2, <2>1, CloseInv DEF ReadEof, Reasons
<1>3. CASE Hangup
  <2>1. buf = <<>> /\ (HasPendingOutput(out) \/ flags \cap {"IN", "OUT"} = {"OUT"})
    BY <1>3 DEF Hangup, Inv, Control, HasPendingOutput
  <2> QED
    BY <1>3, <2>1, CloseInv DEF Hangup, Reasons
<1>4. CASE UpdateFails
  BY <1>4, CloseInv DEF UpdateFails, Flushed, ReadOver, SendWouldBlock, Reasons
<1> QED
  BY <1>1, <1>2, <1>3, <1>4

\* A number of bytes send can take is within the bytes there are and the room.
LEMMA SmallerFacts ==
  ASSUME NEW a \in Nat, NEW b \in Int, NEW n \in 1..Smaller(a, b)
  PROVE  n \in 0..a /\ n <= b /\ n \in Nat /\ n >= 1
  BY DEF Smaller

\* send takes a part of the pending output.
LEMMA FlushSendInv == ASSUME Inv, FlushSend PROVE Inv'
<1> USE DEF Inv, FlushSend, clientVars
<1>1. PICK n \in 1..Smaller(Len(out), Room) :
         tx' = tx \o FirstOf(out, n) /\ out' = RestOf(out, n)
  OBVIOUS
<1>2. /\ out \in Seq(Nat) /\ tx \in Seq(Nat) /\ Len(out) \in Nat /\ Len(tx) \in Nat
      /\ Len(got) \in Nat /\ Len(out) <= IoBufSize
      /\ n \in 0..Len(out) /\ n <= Room /\ n \in Nat
  BY <1>1, InvTypes, SmallerFacts DEF TypeOK
<1>3. Follows(tx, Len(got)) /\ Follows(out, Len(got) + Len(tx)) /\ buf = <<>>
  BY DEF EchoInOrder, Delivered, Control
<1>4. /\ FirstOf(out, n) \in Seq(Nat) /\ Len(FirstOf(out, n)) = n
      /\ Follows(FirstOf(out, n), Len(got) + Len(tx))
      /\ out' \in Seq(Nat) /\ Len(out') = Len(out) - n
      /\ Follows(out', Len(got) + Len(tx) + n)
  <2>1. Len(got) + Len(tx) \in Nat
    BY <1>2
  <2>2. FirstOf(out, n) \in Seq(Nat) /\ Len(FirstOf(out, n)) = n
    BY <1>2, FirstOfFacts
  <2>3. RestOf(out, n) \in Seq(Nat) /\ Len(RestOf(out, n)) = Len(out) - n
    BY <1>2, RestOfFacts
  <2>4. /\ Follows(FirstOf(out, n), Len(got) + Len(tx))
        /\ Follows(RestOf(out, n), Len(got) + Len(tx) + n)
    BY <1>2, <1>3, <2>1, FollowsSplit
  <2> QED
    BY <1>1, <2>2, <2>3, <2>4
<1>5. /\ tx' \in Seq(Nat) /\ Len(tx') = Len(tx) + n /\ Follows(tx', Len(got))
  BY <1>1, <1>2, <1>3, <1>4, FollowsConcat
<1>6. TypeOK'
  <2>1. Len(tx') <= SndBuf /\ Len(out') <= IoBufSize /\ age' \in 0..IdleLimit
    BY <1>2, <1>4, <1>5 DEF Room
  <2> QED
    BY <1>4, <1>5, <2>1 DEF TypeOK
<1>7. EchoInOrder'
  <2>1. Delivered' = Delivered + n /\ Delivered' + Len(out') = Delivered + Len(out)
    BY <1>2, <1>4, <1>5 DEF Delivered
  <2>2. Follows(out', Delivered')
    BY <2>1, <1>4 DEF Delivered
  <2> QED
    BY <1>5, <2>1, <2>2 DEF EchoInOrder, Follows
<1>8. EofLosesNothing' /\ HangupCutsBehindOutput'
  BY DEF EofLosesNothing, HangupCutsBehindOutput, Control
<1>9. Control'
  BY <1>3 DEF Control, HungUp
<1> QED
  BY <1>6, <1>7, <1>8, <1>9

\* flush_tcp_echo_output ends, and the mask is what the output asks for.
LEMMA FlushDoneInv == ASSUME Inv, FlushDone PROVE Inv'
<1> USE DEF Inv, FlushDone, Flushed, clientVars
<1>1. pc' \in {"read", "hangup"}
  BY DEF AfterFlush
<1>2. TypeOK'
  BY <1>1 DEF TypeOK, Stages, Events
<1>3. EchoInOrder'
  BY BuffersUntouched
<1>4. EofLosesNothing' /\ HangupCutsBehindOutput'
  BY DEF EofLosesNothing, HangupCutsBehindOutput, Control
<1>5. pc' = "hangup" => flags \cap {"IN", "OUT"} = {"OUT"}
  BY DEF AfterFlush, Control
<1>6. Control'
  BY <1>1, <1>5 DEF Control, HungUp, Events, HasPendingOutput
<1> QED
  BY <1>2, <1>3, <1>4, <1>6

\* recv moves the next bytes of the stream into the chunk.
LEMMA ReadDataInv == ASSUME Inv, ReadData PROVE Inv'
<1> USE DEF Inv, ReadData, clientVars
<1>1. /\ rx \in Seq(Nat) /\ Len(rx) \in Nat /\ Len(rx) >= 1 /\ Len(rx) <= RcvBuf
      /\ Len(got) \in Nat /\ Len(tx) \in Nat
  BY InvTypes, LenFacts DEF TypeOK
<1>2. Chunk \in 0..Len(rx) /\ Chunk <= IoBufSize /\ Chunk >= 1 /\ Chunk \in Nat
  BY <1>1 DEF Chunk, Smaller
<1>3. out = <<>> /\ buf = <<>> /\ Len(out) = 0 /\ Len(buf) = 0
  BY FollowsEmpty DEF Control, MayRead, HasPendingOutput
<1>4. Follows(rx, Delivered) /\ sent = Delivered + Len(rx) /\ Delivered \in Nat
  BY <1>1, <1>3 DEF EchoInOrder, Delivered
<1>5. /\ buf' \in Seq(Nat) /\ Len(buf') = Chunk /\ Follows(buf', Delivered)
      /\ rx' \in Seq(Nat) /\ Len(rx') = Len(rx) - Chunk
      /\ Follows(rx', Delivered + Chunk)
  BY <1>1, <1>2, <1>4, FirstOfFacts, RestOfFacts, FollowsSplit
<1>6. TypeOK'
  <2>1. Len(rx') <= RcvBuf /\ Len(buf') <= IoBufSize /\ age' \in 0..IdleLimit
    BY <1>1, <1>2, <1>5
  <2> QED
    BY <1>5, <2>1 DEF TypeOK, Stages
<1>7. EchoInOrder'
  <2>1. Delivered' = Delivered /\ Len(out') = 0 /\ out' = <<>>
    BY <1>3 DEF Delivered
  <2>2. /\ Follows(buf', Delivered' + Len(out'))
        /\ Follows(rx', Delivered' + Len(out') + Len(buf'))
        /\ sent' = Delivered' + Len(out') + Len(buf') + Len(rx')
    BY <1>1, <1>2, <1>4, <1>5, <2>1
  <2> QED
    BY <2>1, <2>2, FollowsEmpty DEF EchoInOrder, Follows
<1>8. EofLosesNothing' /\ HangupCutsBehindOutput'
  BY DEF EofLosesNothing, HangupCutsBehindOutput, Control
<1>9. buf' # <<>>
  BY <1>2, <1>5, LenFacts
<1>10. Control'
  BY <1>3, <1>9 DEF Control, HungUp
<1> QED
  BY <1>6, <1>7, <1>8, <1>10

\* handle_tcp_echo_read ends with the mask its output asks for; without pending
\* output the client has not hung up.
LEMMA ReadDoneInv == ASSUME Inv, ReadDone PROVE Inv'
<1> USE DEF Inv, ReadDone, ReadOver, clientVars
<1>1. TypeOK'
  BY DEF TypeOK, Stages, Events
<1>2. EchoInOrder'
  BY BuffersUntouched
<1>3. EofLosesNothing' /\ HangupCutsBehindOutput'
  BY DEF EofLosesNothing, HangupCutsBehindOutput, Control
<1>4. Control'
  BY DEF Control, HungUp, Events, HasPendingOutput, MayRead
<1> QED
  BY <1>1, <1>2, <1>3, <1>4

\* send takes a part of the chunk.
LEMMA EchoSendInv == ASSUME Inv, EchoSend PROVE Inv'
<1> USE DEF Inv, EchoSend, clientVars
<1>1. PICK n \in 1..Smaller(Len(buf), Room) :
         tx' = tx \o FirstOf(buf, n) /\ buf' = RestOf(buf, n)
  OBVIOUS
<1>2. /\ buf \in Seq(Nat) /\ tx \in Seq(Nat) /\ Len(buf) \in Nat /\ Len(tx) \in Nat
      /\ Len(got) \in Nat /\ Len(buf) <= IoBufSize /\ Len(rx) \in Nat
      /\ n \in 0..Len(buf) /\ n <= Room /\ n \in Nat
  BY <1>1, InvTypes, SmallerFacts DEF TypeOK
<1>3. out = <<>> /\ Len(out) = 0
  BY FollowsEmpty DEF Control
<1>4. Follows(tx, Len(got)) /\ Follows(buf, Len(got) + Len(tx))
  BY <1>2, <1>3 DEF EchoInOrder, Delivered
<1>5. /\ FirstOf(buf, n) \in Seq(Nat) /\ Len(FirstOf(buf, n)) = n
      /\ Follows(FirstOf(buf, n), Len(got) + Len(tx))
      /\ buf' \in Seq(Nat) /\ Len(buf') = Len(buf) - n
      /\ Follows(buf', Len(got) + Len(tx) + n)
  <2>1. Len(got) + Len(tx) \in Nat
    BY <1>2
  <2>2. FirstOf(buf, n) \in Seq(Nat) /\ Len(FirstOf(buf, n)) = n
    BY <1>2, FirstOfFacts
  <2>3. RestOf(buf, n) \in Seq(Nat) /\ Len(RestOf(buf, n)) = Len(buf) - n
    BY <1>2, RestOfFacts
  <2>4. /\ Follows(FirstOf(buf, n), Len(got) + Len(tx))
        /\ Follows(RestOf(buf, n), Len(got) + Len(tx) + n)
    BY <1>2, <1>4, <2>1, FollowsSplit
  <2> QED
    BY <1>1, <2>2, <2>3, <2>4
<1>6. /\ tx' \in Seq(Nat) /\ Len(tx') = Len(tx) + n /\ Follows(tx', Len(got))
  BY <1>1, <1>2, <1>4, <1>5, FollowsConcat
<1>7. TypeOK'
  <2>1. Len(tx') <= SndBuf /\ Len(buf') <= IoBufSize /\ age' \in 0..IdleLimit
    BY <1>2, <1>5, <1>6 DEF Room
  <2>2. pc' \in Stages
    BY DEF StageAfterSend, Stages
  <2> QED
    BY <1>5, <1>6, <2>1, <2>2 DEF TypeOK
<1>8. EchoInOrder'
  <2>1. /\ Delivered' = Delivered + n /\ Len(out') = 0 /\ Delivered \in Nat
        /\ Delivered' + Len(buf') = Delivered + Len(buf)
    BY <1>2, <1>3, <1>5, <1>6 DEF Delivered
  <2>2. /\ Follows(buf', Delivered' + Len(out'))
        /\ Delivered' + Len(out') + Len(buf') = Delivered + Len(out) + Len(buf)
    BY <1>2, <1>3, <1>5, <2>1 DEF Delivered
  <2>3. Follows(out', Delivered')
    BY <1>3, FollowsEmpty
  <2> QED
    BY <1>6, <2>2, <2>3 DEF EchoInOrder, Follows
<1>9. EofLosesNothing' /\ HangupCutsBehindOutput'
  BY DEF EofLosesNothing, HangupCutsBehindOutput, Control
<1>10. Control'
  BY <1>3 DEF Control, HungUp, StageAfterSend
<1> QED
  BY <1>7, <1>8, <1>9, <1>10

\* What send does not take becomes the pending output.
LEMMA EchoBufferInv == ASSUME Inv, EchoBuffer PROVE Inv'
<1> USE DEF Inv, EchoBuffer, SendWouldBlock, clientVars
<1>1. out = <<>> /\ Len(out) = 0 /\ Len(buf') = 0 /\ buf' \in Seq(Nat)
  BY FollowsEmpty DEF Control
<1>2. TypeOK'
  <2>1. Len(buf') <= IoBufSize /\ Len(out') <= IoBufSize
    BY <1>1 DEF TypeOK
  <2> QED
    BY <1>1, <2>1 DEF TypeOK, Stages, Events
<1>3. EchoInOrder'
  <2>1. /\ Delivered' = Delivered /\ Delivered \in Nat /\ Len(buf) \in Nat
        /\ Delivered + Len(out) = Delivered
        /\ Delivered' + Len(out') + Len(buf') = Delivered + Len(out) + Len(buf)
    BY <1>1, InvTypes DEF Delivered
  <2>2. Follows(out', Delivered') /\ Follows(buf', Delivered' + Len(out'))
    BY <2>1, FollowsEmpty DEF EchoInOrder
  <2> QED
    BY <2>1, <2>2 DEF EchoInOrder, Follows
<1>4. EofLosesNothing' /\ HangupCutsBehindOutput'
  BY DEF EofLosesNothing, HangupCutsBehindOutput, Control
<1>5. Control'
  BY <1>1 DEF Control, HungUp
<1> QED
  BY <1>2, <1>3, <1>4, <1>5

\* A step that changes nothing keeps the invariant.
LEMMA StutterInv == ASSUME Inv, UNCHANGED vars PROVE Inv'
  BY DEF vars, Inv, TypeOK, EchoInOrder, Delivered, Follows, EofLosesNothing,
         HangupCutsBehindOutput, Control, HungUp

-----------------------------------------------------------------------------
(* The theorems.                                                           *)

\* The inductive invariant holds in every reachable state.
THEOREM Invariant == SafeSpec => []Inv
<1>1. Init => Inv
  BY InitInv
<1>2. Inv /\ [Next]_vars => Inv'
  <2> SUFFICES ASSUME Inv, [Next]_vars PROVE Inv'
    OBVIOUS
  <2>1. CASE ClientStep
    BY <2>1, ClientSendsInv, ClientReadsInv, QuietStepInv DEF ClientStep
  <2>2. CASE EpollNothing \/ EventDone \/ SweepKeeps \/ Tick
    BY <2>2, QuietStepInv
  <2>3. CASE \/ EpollError \/ SendFails \/ ReadEof \/ ReadFails \/ UpdateFails
             \/ Hangup \/ SweepCloses \/ Shutdown
    BY <2>3, ClosesInv
  <2>4. CASE \/ EpollEvent \/ FlushSend \/ FlushDone \/ ReadData \/ ReadDone
             \/ EchoSend \/ EchoBuffer
    BY <2>4, EpollEventInv, FlushSendInv, FlushDoneInv, ReadDataInv, ReadDoneInv,
       EchoSendInv, EchoBufferInv
  <2>5. CASE UNCHANGED vars
    BY <2>5, StutterInv
  <2> QED
    BY <2>1, <2>2, <2>3, <2>4, <2>5 DEF Next, ServerStep, Terminated
<1> QED
  BY <1>1, <1>2, PTL DEF SafeSpec

\* No buffer ever overflows, so the "output buffer too small" branch of
\* send_or_buffer_tcp_echo is dead.
THEOREM BuffersBounded == SafeSpec => []TypeOK
  BY Invariant, PTL DEF Inv

\* The echo is the client's stream, in order, nothing lost or doubled while the
\* connection is open (the three functions of the echo path).
THEOREM EchoCorrect == SafeSpec => []EchoInOrder
  BY Invariant, PTL DEF Inv

\* epoll is asked for EPOLLOUT exactly while output is pending (tcp_conn_events).
THEOREM MaskCorrect == SafeSpec => []MaskMatchesPending
<1>1. Inv => MaskMatchesPending
  BY DEF Inv, Control, MaskMatchesPending, HasPendingOutput
<1> QED
  BY <1>1, Invariant, PTL

\* A connection closed because recv returned 0 has lost no byte
\* (handle_tcp_echo_read).
THEOREM OrderlyCloseCorrect == SafeSpec => []EofLosesNothing
  BY Invariant, PTL DEF Inv

\* A hang-up loses only output that was still pending, or the input that an event
\* for EPOLLOUT alone left unread (the order of the tests in handle_tcp_echo_event).
THEOREM HangupCorrect == SafeSpec => []HangupCutsBehindOutput
  BY Invariant, PTL DEF Inv

-----------------------------------------------------------------------------
(* The connection is a byte stream.                                        *)

\* No more comes back than was sent, also once the connection is closed.
Bounded == Delivered <= sent

LEMMA LengthFacts ==
  ASSUME Inv
  PROVE  /\ got \in Seq(Nat) /\ tx \in Seq(Nat) /\ sent \in Nat
         /\ Len(got) \in Nat /\ Len(tx) \in Nat /\ Len(rx) \in Nat
         /\ Len(buf) \in Nat /\ Len(out) \in Nat
  BY LenFacts DEF Inv, TypeOK

\* A close gives up what is not read, and nothing else is sent.
LEMMA CloseBounded ==
  ASSUME Inv, NEW reason, Close(reason)
  PROVE  Len(tx') \in Nat /\ Len(tx') <= Len(tx) /\ UNCHANGED <<sent, got>>
<1>1. UNCHANGED <<sent, got>>
  BY DEF Close, clientVars
<1>2. PICK n \in 0..Len(tx) : tx' = FirstOf(tx, n)
  BY LengthFacts DEF Close
<1> QED
  BY <1>1, <1>2, FirstOfFacts, LengthFacts

\* While the connection is open, EchoInOrder accounts for every byte.
LEMMA OpenBounded == ASSUME Inv, pc # "closed" PROVE Bounded
  BY LengthFacts DEF Inv, EchoInOrder, Bounded, Delivered

LEMMA BoundedStep == ASSUME Inv, Inv', Bounded, [Next]_vars PROVE Bounded'
<1>1. CASE pc' # "closed"
  <2>1. sent' = Delivered' + Len(out') + Len(buf') + Len(rx')
    BY <1>1 DEF Inv, EchoInOrder
  <2>2. /\ got' \in Seq(Nat) /\ tx' \in Seq(Nat) /\ out' \in Seq(Nat)
        /\ buf' \in Seq(Nat) /\ rx' \in Seq(Nat)
    BY DEF Inv, TypeOK
  <2> QED
    BY <2>1, <2>2, LenFacts DEF Bounded, Delivered
<1>2. CASE pc' = "closed" /\ pc # "closed"
  <2>1. \/ EpollError \/ SendFails \/ ReadEof \/ ReadFails \/ UpdateFails
        \/ Hangup \/ SweepCloses \/ Shutdown
    BY <1>2 DEF Next, ClientStep, ServerStep, ClientSends, ClientReads, ClientFinishes,
       ClientResets, EpollEvent, EpollNothing, FlushSend, FlushDone, ReadData, ReadDone,
       EchoSend, EchoBuffer, EventDone, SweepKeeps, Tick, Terminated, vars,
       AfterFlush, StageAfterSend
  <2>2. \E reason : Close(reason)
    BY <2>1 DEF EpollError, SendFails, ReadEof, ReadFails, UpdateFails, Hangup, SweepCloses,
       Shutdown
  <2> QED
    BY <2>2, CloseBounded, LengthFacts DEF Bounded, Delivered
<1>3. CASE pc' = "closed" /\ pc = "closed"
  <2>1. ClientReads \/ UNCHANGED vars
    BY <1>3 DEF Next, ClientStep, ServerStep, ClientSends, ClientFinishes,
       ClientResets, EpollEvent, EpollNothing, FlushSend, FlushDone, ReadData, ReadDone,
       EchoSend, EchoBuffer, EventDone, SweepKeeps, Tick, Terminated,
       EpollError, SendFails, ReadEof, ReadFails, UpdateFails, Hangup, SweepCloses, Shutdown,
       Flushed, ReadOver, SendWouldBlock
  <2>2. CASE ClientReads
    <3>1. Len(got') = Len(got) + 1 /\ Len(tx') = Len(tx) - 1 /\ sent' = sent
      BY <2>2, LengthFacts, HeadTailProperties, AppendProperties DEF ClientReads
    <3> QED
      BY <3>1, LengthFacts DEF Bounded, Delivered
  <2>3. CASE UNCHANGED vars
    BY <2>3 DEF vars, Bounded, Delivered
  <2> QED
    BY <2>1, <2>2, <2>3
<1> QED
  BY <1>1, <1>2, <1>3

\* Every step is a write, a read or a change of flow, or does not concern the stream.
LEMMA StepIsStream ==
  ASSUME Inv, Inv', Bounded', [Next]_vars
  PROVE  [Stream!Next]_(Stream!vars)
<1> DEFINE Flow == peer # "reset" /\ why \in {"none", "eof"}
<1>1. Flow' \in BOOLEAN /\ (Flow' = Flow \/ Flow' = ~Flow)
  OBVIOUS
<1>2. CASE ClientSends
  <2>1. sent' = sent + 1 /\ got' = got
    BY <1>2 DEF ClientSends
  <2> QED
    BY <2>1, <1>1 DEF Stream!Next, Stream!Write
<1>3. CASE ClientReads
  <2>1. Len(got') = Len(got) + 1 /\ sent' = sent /\ Len(got') \in Nat /\ Len(tx') \in Nat
    BY <1>3, LengthFacts, HeadTailProperties, AppendProperties DEF ClientReads
  <2>2. Len(got') \in (Len(got) + 1)..sent
    BY <2>1, LengthFacts DEF Bounded, Delivered
  <2>3. got' = [i \in 1..Len(got') |-> i]
    BY FirstNumbers DEF Inv, TypeOK, EchoInOrder, Follows, Run
  <2> QED
    BY <2>1, <2>2, <2>3, <1>1 DEF Stream!Next, Stream!Read
<1>4. CASE UNCHANGED <<sent, got>>
  BY <1>4, <1>1 DEF Stream!Next, Stream!Change, Stream!vars
<1>5. ClientSends \/ ClientReads \/ UNCHANGED <<sent, got>>
  BY DEF Next, ClientStep, ServerStep, ClientFinishes,
     ClientResets, EpollEvent, EpollNothing, FlushSend, FlushDone, ReadData, ReadDone,
     EchoSend, EchoBuffer, EventDone, SweepKeeps, Tick, Terminated, vars, clientVars,
     EpollError, SendFails, ReadEof, ReadFails, UpdateFails, Hangup, SweepCloses, Shutdown, Close
<1> QED
  BY <1>2, <1>3, <1>4, <1>5

\* The connection implements the abstract byte stream, as far as safety goes: the
\* client reads back the bytes it sent, in order, before and after the close
\* (handle_tcp_echo_event and all that it calls).
THEOREM EchoIsStream == SafeSpec => Stream!SafeSpec
<1>1. Init => Stream!Init
  BY DEF Init, Stream!Init
<1>2. Init => Bounded
  <2> SUFFICES ASSUME Init PROVE Bounded
    OBVIOUS
  <2>1. Inv /\ pc # "closed"
    BY InitInv DEF Init
  <2> QED
    BY <2>1, OpenBounded
<1>3. Inv /\ Inv' /\ Bounded /\ [Next]_vars => Bounded'
  BY BoundedStep
<1>4. Inv /\ Inv' /\ Bounded' /\ [Next]_vars => [Stream!Next]_(Stream!vars)
  BY StepIsStream
<1> QED
  BY <1>1, <1>2, <1>3, <1>4, Invariant, PTL DEF SafeSpec, Stream!SafeSpec
=============================================================================

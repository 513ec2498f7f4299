--------------------------- MODULE TcpRelayProofs ---------------------------
(***************************************************************************)
(* Proofs about TcpRelay, for every size of the buffers and every number   *)
(* of bytes.  Inv is the inductive invariant.                              *)
(***************************************************************************)
EXTENDS TcpRelay, BasicFacts

\* What relay_proxy_data holds of the bytes of p, between recv and the last send.
Held(p) == IF from = p THEN buf ELSE <<>>

\* The bytes of p on their way: q has read the first of them, the next ones lie in
\* q's socket.  Until the session ends or q resets, those after that are held, the
\* next ones lie in p's socket, and these are all that p has sent.
Delivered(p) == Len(conn[Other(p)].got) + Len(conn[Other(p)].tx)

Direction(p) ==
  LET q == Other(p) IN
  /\ Run(conn[q].got, 0) /\ Run(conn[q].tx, Len(conn[q].got))
  /\ Delivered(p) <= conn[p].sent
  /\ pc # "done" /\ conn[q].end # "reset" =>
       /\ Run(Held(p), Delivered(p))
       /\ Run(conn[p].rx, Delivered(p) + Len(Held(p)))
       /\ conn[p].sent = Delivered(p) + Len(Held(p)) + Len(conn[p].rx)

\* A chunk is held only in send_all_or_close; the session has a reason when it ended.
Control == /\ pc # "send" => buf = <<>>
           /\ why = "none" <=> pc # "done"

Shape == conn \in [Peers -> ConnType]

Inv == /\ TypeOK /\ Shape
       /\ Control
       /\ \A p \in Peers : Direction(p)

-----------------------------------------------------------------------------
(* The two sides.                                                          *)

\* Each side has the other one.
LEMMA SideFacts ==
  ASSUME NEW p \in Peers
  PROVE  /\ Other(p) \in Peers /\ Other(p) # p /\ Other(Other(p)) = p
         /\ \A r \in Peers : r = p \/ r = Other(p)
  BY SidesAssumption DEF Other

-----------------------------------------------------------------------------
(* What the operations make of one connection.                             *)

\* The parts of a connection.
LEMMA ConnParts ==
  ASSUME NEW c \in ConnType
  PROVE  /\ c.sent \in Nat /\ c.owe \in Nat /\ c.got \in Seq(Nat) /\ c.rx \in Seq(Nat)
         /\ c.tx \in Seq(Nat) /\ c.end \in {"away", "open", "fin", "reset"} /\ c.up \in BOOLEAN
         /\ Len(c.got) \in Nat /\ Len(c.rx) \in Nat /\ Len(c.tx) \in Nat
<1>1. /\ c.sent \in Nat /\ c.owe \in Nat /\ c.got \in Seq(Nat) /\ c.rx \in Seq(Nat)
      /\ c.tx \in Seq(Nat) /\ c.end \in {"away", "open", "fin", "reset"} /\ c.up \in BOOLEAN
  BY DEF ConnType
<1> QED
  BY <1>1, LenFacts

\* A reset loses what the peer has not read.
LEMMA ResetFacts ==
  ASSUME NEW c \in ConnType
  PROVE  /\ Reset(c) \in ConnType /\ Reset(c).sent = c.sent /\ Reset(c).got = c.got
         /\ Reset(c).rx = c.rx /\ Reset(c).tx = <<>> /\ Reset(c).end = "reset"
         /\ Reset(c).up = c.up
<1> DEFINE none == <<>>
           d == [c EXCEPT !.end = "reset", !.tx = none, !.owe = 0]
<1>1. Reset(c) = d
  BY DEF Reset
<1>2. none \in Seq(Nat)
  OBVIOUS
<1> HIDE DEF none
<1>3. /\ d \in ConnType /\ d.sent = c.sent /\ d.got = c.got
      /\ d.rx = c.rx /\ d.tx = none /\ d.end = "reset" /\ d.up = c.up
  BY <1>2 DEF ConnType
<1> QED
  BY <1>1, <1>3 DEF none

\* close loses what the service has not received, and then also what the peer has
\* not read.
LEMMA ClosedFacts ==
  ASSUME NEW c \in ConnType
  PROVE  /\ Closed(c) \in ConnType /\ Closed(c).sent = c.sent /\ Closed(c).got = c.got
         /\ Closed(c).rx = <<>> /\ Closed(c).up = FALSE
         /\ \/ Closed(c).tx = c.tx /\ Closed(c).end = c.end
            \/ Closed(c).tx = <<>> /\ Closed(c).end = "reset"
<1> DEFINE none == <<>>
           d == IF c.rx = none THEN c ELSE Reset(c)
           e == [d EXCEPT !.up = FALSE, !.rx = none]
<1>1. /\ d \in ConnType /\ d.sent = c.sent /\ d.got = c.got
      /\ \/ d.tx = c.tx /\ d.end = c.end
         \/ d.tx = none /\ d.end = "reset"
  BY ResetFacts
<1>2. Closed(c) = e /\ none \in Seq(Nat)
  BY DEF Closed
<1> HIDE DEF d, none
<1>3. /\ e \in ConnType /\ e.sent = d.sent /\ e.got = d.got
      /\ e.rx = none /\ e.up = FALSE /\ e.tx = d.tx /\ e.end = d.end
  BY <1>1, <1>2 DEF ConnType
<1> HIDE DEF e
<1> QED
  BY <1>1, <1>2, <1>3 DEF none

\* recv takes from the front.
LEMMA ReceivedFacts ==
  ASSUME NEW c \in ConnType, NEW n \in 0..Len(c.rx)
  PROVE  /\ Received(c, n) \in ConnType
         /\ Received(c, n) = [c EXCEPT !.rx = RestOf(c.rx, n)]
         /\ Received(c, n).sent = c.sent /\ Received(c, n).got = c.got
         /\ Received(c, n).rx = RestOf(c.rx, n)
         /\ Received(c, n).tx = c.tx /\ Received(c, n).end = c.end
<1> DEFINE r == RestOf(c.rx, n)
<1>1. r \in Seq(Nat)
  BY ConnParts, RestFacts DEF RestOf
<1>2. Received(c, n) = [c EXCEPT !.rx = r]
  BY DEF Received
<1> HIDE DEF r
<1>3. [c EXCEPT !.rx = r] \in ConnType
  BY <1>1 DEF ConnType
<1>4. /\ [c EXCEPT !.rx = r].sent = c.sent /\ [c EXCEPT !.rx = r].got = c.got
      /\ [c EXCEPT !.rx = r].rx = r
      /\ [c EXCEPT !.rx = r].tx = c.tx /\ [c EXCEPT !.rx = r].end = c.end
  BY DEF ConnType
<1> QED
  BY <1>2, <1>3, <1>4 DEF r

\* send puts at the end.
LEMMA SentToFacts ==
  ASSUME NEW c \in ConnType, NEW s \in Seq(Nat)
  PROVE  /\ SentTo(c, s) \in ConnType
         /\ SentTo(c, s).sent = c.sent /\ SentTo(c, s).got = c.got
         /\ SentTo(c, s).rx = c.rx
         /\ SentTo(c, s).tx = c.tx \o s /\ SentTo(c, s).end = c.end
<1> DEFINE t == c.tx \o s
<1>1. t \in Seq(Nat)
  BY ConnParts, ConcatProperties
<1>2. SentTo(c, s) = [c EXCEPT !.tx = t]
  BY DEF SentTo
<1> HIDE DEF t
<1>3. [c EXCEPT !.tx = t] \in ConnType
  BY <1>1 DEF ConnType
<1>4. /\ [c EXCEPT !.tx = t].sent = c.sent /\ [c EXCEPT !.tx = t].got = c.got
      /\ [c EXCEPT !.tx = t].rx = c.rx
      /\ [c EXCEPT !.tx = t].tx = t /\ [c EXCEPT !.tx = t].end = c.end
  BY DEF ConnType
<1> QED
  BY <1>2, <1>3, <1>4 DEF t

-----------------------------------------------------------------------------
(* What a step makes of the connections.                                   *)

\* Only the connection of r changes.
Becomes(r, c) == conn' = [conn EXCEPT ![r] = c]

LEMMA BecomesFacts ==
  ASSUME Shape, NEW r \in Peers, NEW c \in ConnType, Becomes(r, c)
  PROVE  Shape' /\ conn'[r] = c /\ \A s \in Peers : s # r => conn'[s] = conn[s]
  BY DEF Shape, Becomes

\* Nothing that the bytes depend on.
Alike(c, d) == c.sent = d.sent /\ c.got = d.got /\ c.rx = d.rx /\ c.tx = d.tx

\* The four things a peer can do to its connection.
LEMMA PeerStepFacts ==
  ASSUME Shape, NEW r \in Peers, PeerStep(r)
  PROVE  \E c \in ConnType :
           LET b == conn[r] IN
           /\ Becomes(r, c)
           /\ \/ Alike(c, b) /\ c.end # "reset" /\ b.end # "reset"
              \/ /\ Len(b.rx) < RcvBuf /\ c.sent = b.sent + 1 /\ c.rx = Append(b.rx, b.sent + 1)
                 /\ c.got = b.got /\ c.tx = b.tx /\ c.end = b.end
              \/ /\ b.tx # <<>> /\ c.got = Append(b.got, Head(b.tx)) /\ c.tx = Tail(b.tx)
                 /\ c.sent = b.sent /\ c.rx = b.rx /\ c.end = b.end
              \/ /\ c.tx = <<>> /\ c.end = "reset"
                 /\ c.sent = b.sent /\ c.got = b.got /\ c.rx = b.rx
<1> DEFINE b == conn[r]
<1>1. b \in ConnType
  BY DEF Shape
<1>2. CASE PeerBegins(r)
  <2>1. PICK n \in 1..(MaxBytes[r] - b.sent) : conn' = [conn EXCEPT ![r].owe = n]
    BY <1>2 DEF PeerBegins
  <2>2. n \in Nat /\ b.end = "open"
    BY <1>1, <1>2, PeerBytesAssumption DEF PeerBegins, ConnType
  <2> DEFINE c == [b EXCEPT !.owe = n]
  <2>3. Becomes(r, c)
    BY <2>1 DEF Becomes
  <2>4. c \in ConnType /\ Alike(c, b) /\ c.end = b.end
    <3> HIDE DEF b
    <3> QED
      BY <1>1, <2>2 DEF ConnType, Alike
  <2> QED
    BY <2>2, <2>3, <2>4
<1>3. CASE PeerFinishes(r)
  <2> DEFINE c == [b EXCEPT !.end = "fin"]
  <2>1. Becomes(r, c) /\ b.end = "open"
    BY <1>3 DEF Becomes, PeerFinishes
  <2>2. c \in ConnType /\ Alike(c, b) /\ c.end = "fin"
    <3> HIDE DEF b
    <3> QED
      BY <1>1 DEF ConnType, Alike
  <2> QED
    BY <2>1, <2>2
<1>4. ASSUME Becomes(r, Reset(b))
      PROVE  \E c \in ConnType : /\ Becomes(r, c) /\ c.tx = <<>> /\ c.end = "reset"
                                 /\ c.sent = b.sent /\ c.got = b.got /\ c.rx = b.rx
  <2> HIDE DEF b
  <2> QED
    BY <1>1, <1>4, ResetFacts
<1>5. CASE PeerResets(r)
  <2>1. Becomes(r, Reset(b))
    BY <1>5 DEF PeerResets, Becomes
  <2> QED
    BY <1>4, <2>1
<1>6. CASE PeerSends(r)
  <2>1. CASE Becomes(r, Reset(b))
    BY <1>4, <2>1
  <2> DEFINE x == b.sent + 1
             s == Append(b.rx, x)
             w == b.owe - 1
             c == [b EXCEPT !.sent = x, !.owe = w, !.rx = s]
  <2>2. CASE b.owe > 0 /\ Len(b.rx) < RcvBuf /\ Becomes(r, c)
    <3>1. x \in Nat /\ s \in Seq(Nat) /\ w \in Nat
      <4>1. b.sent \in Nat /\ b.owe \in Nat /\ b.rx \in Seq(Nat)
        BY <1>1, ConnParts
      <4> HIDE DEF b
      <4> QED
        BY <2>2, <4>1, AppendProperties
    <3>2. c \in ConnType /\ c.sent = x /\ c.rx = s /\ c.got = b.got /\ c.tx = b.tx /\ c.end = b.end
      <4> HIDE DEF b, x, s, w
      <4> QED
        BY <1>1, <3>1 DEF ConnType
    <3> HIDE DEF c
    <3> QED
      BY <2>2, <3>2
  <2> QED
    BY <1>6, <2>1, <2>2 DEF PeerSends, Becomes
<1>7. CASE PeerReads(r)
  <2> DEFINE g == Append(b.got, Head(b.tx))
             t == Tail(b.tx)
             c == [b EXCEPT !.got = g, !.tx = t]
  <2>1. Becomes(r, c) /\ b.tx # <<>>
    BY <1>7 DEF PeerReads, Becomes
  <2>2. g \in Seq(Nat) /\ t \in Seq(Nat)
    <3>1. b.got \in Seq(Nat) /\ b.tx \in Seq(Nat)
      BY <1>1, ConnParts
    <3> HIDE DEF b
    <3> QED
      BY <2>1, <3>1, AppendProperties, HeadTailProperties
  <2>3. c \in ConnType /\ c.got = g /\ c.tx = t /\ c.sent = b.sent /\ c.rx = b.rx /\ c.end = b.end
    <3> HIDE DEF b, g, t
    <3> QED
      BY <1>1, <2>2 DEF ConnType
  <2> HIDE DEF c
  <2> QED
    BY <2>1, <2>3
<1> QED
  BY <1>2, <1>3, <1>5, <1>6, <1>7 DEF PeerStep

-----------------------------------------------------------------------------
(* What a step makes of one direction.                                     *)

\* The types behind a direction.
LEMMA DirectionTypes ==
  ASSUME Inv, NEW p \in Peers
  PROVE  /\ conn[p] \in ConnType /\ conn[Other(p)] \in ConnType
         /\ conn[p].sent \in Nat /\ conn[p].rx \in Seq(Nat) /\ Len(conn[p].rx) \in Nat
         /\ conn[Other(p)].got \in Seq(Nat) /\ Len(conn[Other(p)].got) \in Nat
         /\ conn[Other(p)].tx \in Seq(Nat) /\ Len(conn[Other(p)].tx) \in Nat
         /\ buf \in Seq(Nat) /\ Held(p) \in Seq(Nat) /\ Len(Held(p)) \in Nat
         /\ Delivered(p) \in Nat
<1>1. conn[p] \in ConnType /\ conn[Other(p)] \in ConnType
  BY SideFacts DEF Inv, Shape
<1>2. /\ conn[p].sent \in Nat /\ conn[p].rx \in Seq(Nat) /\ Len(conn[p].rx) \in Nat
      /\ conn[Other(p)].got \in Seq(Nat) /\ Len(conn[Other(p)].got) \in Nat
      /\ conn[Other(p)].tx \in Seq(Nat) /\ Len(conn[Other(p)].tx) \in Nat
  BY <1>1, ConnParts
<1>3. Held(p) \in Seq(Nat) /\ buf \in Seq(Nat)
  BY RunEmpty DEF Inv, TypeOK, Held
<1>4. Len(Held(p)) \in Nat
  BY <1>3, LenFacts
<1>5. Delivered(p) \in Nat
  <2> DEFINE g == Len(conn[Other(p)].got)
             t == Len(conn[Other(p)].tx)
  <2>1. g \in Nat /\ t \in Nat /\ Delivered(p) = g + t
    BY <1>2 DEF Delivered
  <2> HIDE DEF g, t
  <2> QED
    BY <2>1
<1> QED
  BY <1>1, <1>2, <1>3, <1>4, <1>5

\* A step that leaves the bytes where they are.
LEMMA DirectionKept ==
  ASSUME NEW p \in Peers, Direction(p),
         conn'[p].sent = conn[p].sent, conn'[p].rx = conn[p].rx,
         conn'[Other(p)].got = conn[Other(p)].got, conn'[Other(p)].tx = conn[Other(p)].tx,
         conn'[Other(p)].end # "reset" => conn[Other(p)].end # "reset",
         pc' # "done" => pc # "done",
         Held(p)' = Held(p)
  PROVE  Direction(p)'
  BY DEF Direction, Delivered

\* A step that ends the session or resets the reader: bytes may be lost, but what
\* is left can only be the first ones.
LEMMA DirectionCut ==
  ASSUME Inv, NEW p \in Peers,
         conn'[p].sent = conn[p].sent, conn'[Other(p)].got = conn[Other(p)].got,
         conn'[Other(p)].tx = conn[Other(p)].tx \/ conn'[Other(p)].tx = <<>>,
         pc' = "done" \/ conn'[Other(p)].end = "reset"
  PROVE  Direction(p)'
<1>1. /\ Run(conn[Other(p)].got, 0) /\ Run(conn[Other(p)].tx, Len(conn[Other(p)].got))
      /\ Delivered(p) <= conn[p].sent
  BY DEF Inv, Direction
<1>2. Run(conn'[Other(p)].tx, Len(conn[Other(p)].got))
  BY <1>1, RunEmpty
<1>3. Len(conn'[Other(p)].tx) <= Len(conn[Other(p)].tx) /\ Len(conn'[Other(p)].tx) \in Nat
  BY DirectionTypes, RunEmpty
<1>4. Delivered(p)' <= conn[p].sent
  <2>1. Delivered(p)' = Len(conn[Other(p)].got) + Len(conn'[Other(p)].tx)
    BY DEF Delivered
  <2>2. Delivered(p) = Len(conn[Other(p)].got) + Len(conn[Other(p)].tx)
    BY DEF Delivered
  <2>3. /\ Len(conn[Other(p)].got) \in Nat /\ Len(conn[Other(p)].tx) \in Nat
        /\ conn[p].sent \in Nat
    BY DirectionTypes
  <2>4. Len(conn'[Other(p)].tx) <= Len(conn[Other(p)].tx) /\ Len(conn'[Other(p)].tx) \in Nat
    BY <1>3
  <2>5. Delivered(p) <= conn[p].sent
    BY <1>1
  <2> DEFINE g == Len(conn[Other(p)].got)
             t == Len(conn[Other(p)].tx)
             u == Len(conn'[Other(p)].tx)
             sent == conn[p].sent
             d == Delivered(p)
             e == Delivered(p)'
  <2>6. /\ e = g + u /\ d = g + t /\ g \in Nat /\ t \in Nat /\ u \in Nat /\ u <= t
        /\ sent \in Nat /\ d <= sent
    BY <2>1, <2>2, <2>3, <2>4, <2>5
  <2> HIDE DEF g, t, u, sent, d, e
  <2>7. e <= sent
    BY <2>6
  <2> QED
    BY <2>7 DEF e, sent
<1> QED
  BY <1>1, <1>2, <1>4 DEF Direction

\* p sends the next byte.
LEMMA DirectionSent ==
  ASSUME Inv, NEW p \in Peers, UNCHANGED <<pc, from, buf>>,
         conn'[p].sent = conn[p].sent + 1, conn'[p].rx = Append(conn[p].rx, conn[p].sent + 1),
         conn'[Other(p)] = conn[Other(p)]
  PROVE  Direction(p)'
<1> DEFINE q == Other(p)
           n == Delivered(p) + Len(Held(p))
<1>1. Held(p)' = Held(p) /\ Delivered(p)' = Delivered(p)
  BY DEF Held, Delivered
<1>2. /\ Run(conn[q].got, 0) /\ Run(conn[q].tx, Len(conn[q].got))
      /\ Delivered(p) <= conn[p].sent + 1
  BY DirectionTypes DEF Inv, Direction
<1>3. ASSUME pc # "done", conn[q].end # "reset"
      PROVE  /\ Run(Held(p), Delivered(p)) /\ Run(conn'[p].rx, n)
             /\ conn'[p].sent = n + Len(conn'[p].rx)
  <2>1. Run(Held(p), Delivered(p)) /\ Run(conn[p].rx, n) /\ conn[p].sent = n + Len(conn[p].rx)
    BY <1>3 DEF Inv, Direction
  <2>4. /\ Delivered(p) \in Nat /\ Len(Held(p)) \in Nat /\ conn[p].sent \in Nat
        /\ conn[p].rx \in Seq(Nat) /\ Len(conn[p].rx) \in Nat
    BY DirectionTypes
  <2>2. n \in Nat /\ conn[p].sent + 1 \in Nat /\ conn[p].rx \in Seq(Nat) /\ Len(conn[p].rx) \in Nat
    BY <2>4
  <2> HIDE DEF n
  <2>3. Run(conn'[p].rx, n) /\ Len(conn'[p].rx) = Len(conn[p].rx) + 1
    BY <2>1, <2>2, RunAppend
  <2> QED
    BY <2>1, <2>2, <2>3
<1> QED
  BY <1>1, <1>2, <1>3 DEF Direction

\* The other side reads the next byte of p.
LEMMA DirectionRead ==
  ASSUME Inv, NEW p \in Peers, UNCHANGED <<pc, from, buf>>, conn'[p] = conn[p],
         LET q == Other(p)
         IN  /\ conn[q].tx # <<>> /\ conn'[q].got = Append(conn[q].got, Head(conn[q].tx))
             /\ conn'[q].tx = Tail(conn[q].tx) /\ conn'[q].end = conn[q].end
  PROVE  Direction(p)'
<1> DEFINE q == Other(p)
           got == conn[q].got
           tx == conn[q].tx
<1>1. Run(got, 0) /\ Run(tx, Len(got)) /\ got \in Seq(Nat) /\ tx \in Seq(Nat) /\ Len(got) \in Nat
  BY DirectionTypes DEF Inv, Direction
<1>2. tx # <<>> /\ conn'[q].got = Append(got, Head(tx)) /\ conn'[q].tx = Tail(tx)
  OBVIOUS
<1> HIDE DEF got, tx
<1>3. /\ Head(tx) = Len(got) + 1 /\ Run(Tail(tx), Len(got) + 1)
      /\ Tail(tx) \in Seq(Nat) /\ Len(Tail(tx)) = Len(tx) - 1
  BY <1>1, <1>2, RunTail
<1>4. /\ Run(Append(got, Head(tx)), 0) /\ Len(Append(got, Head(tx))) = Len(got) + 1
  BY <1>1, <1>3, RunAppend
<1>5. Delivered(p)' = Delivered(p)
  <2>1. Len(tx) \in Nat
    BY <1>1, LenFacts
  <2>2. Delivered(p) = Len(got) + Len(tx) /\ Delivered(p)' = (Len(got) + 1) + (Len(tx) - 1)
    BY <1>2, <1>3, <1>4 DEF Delivered, got, tx
  <2> QED
    BY <1>1, <2>1, <2>2
<1>6. Run(conn'[q].got, 0) /\ Run(conn'[q].tx, Len(conn'[q].got))
  BY <1>2, <1>3, <1>4
<1>7. Held(p)' = Held(p)
  BY DEF Held
<1> QED
  BY <1>5, <1>6, <1>7 DEF Inv, Direction

\* recv takes the first of what lies in the socket of p.
LEMMA DirectionReceived ==
  ASSUME Inv, NEW p \in Peers, NEW n \in 0..Len(conn[p].rx), pc = "recv", pc' = "send",
         from = p, from' = p, buf' = FirstOf(conn[p].rx, n), conn'[p].sent = conn[p].sent,
         conn'[p].rx = RestOf(conn[p].rx, n), conn'[Other(p)] = conn[Other(p)]
  PROVE  Direction(p)'
<1> DEFINE q == Other(p)
           rx == conn[p].rx
           m == Delivered(p)
<1>1. m \in Nat /\ rx \in Seq(Nat) /\ Len(rx) \in Nat
  BY DirectionTypes
<1>2. Held(p) = <<>> /\ Held(p)' = FirstOf(rx, n) /\ Delivered(p)' = m
  BY DEF Inv, Control, Held, Delivered
<1>3. /\ Run(conn[q].got, 0) /\ Run(conn[q].tx, Len(conn[q].got)) /\ m <= conn[p].sent
  BY DEF Inv, Direction
<1>4. ASSUME conn[q].end # "reset"
      PROVE  /\ Run(FirstOf(rx, n), m) /\ Run(RestOf(rx, n), m + Len(FirstOf(rx, n)))
             /\ conn[p].sent = m + Len(FirstOf(rx, n)) + Len(RestOf(rx, n))
  <2>1. Run(rx, m) /\ conn[p].sent = m + Len(rx)
    BY <1>1, <1>2, <1>4, RunEmpty DEF Inv, Direction
  <2>2. n \in 0..Len(rx)
    OBVIOUS
  <2> HIDE DEF rx, m
  <2>3. /\ Run(FirstOf(rx, n), m) /\ Run(RestOf(rx, n), m + n)
        /\ Len(FirstOf(rx, n)) = n /\ Len(RestOf(rx, n)) = Len(rx) - n
    BY <1>1, <2>1, <2>2, RunSplit, FirstFacts, RestFacts DEF FirstOf, RestOf
  <2> QED
    BY <1>1, <2>1, <2>2, <2>3
<1> HIDE DEF rx
<1>5. conn'[p].rx = RestOf(rx, n)
  BY DEF rx
<1> QED
  BY <1>2, <1>3, <1>4, <1>5 DEF Direction

\* send moves the first n of the held bytes to the other side's socket.
LEMMA DirectionMoved ==
  ASSUME Inv, NEW p \in Peers, NEW n \in 0..Len(buf), pc = "send", from = p,
         Held(p)' = RestOf(buf, n), conn'[p] = conn[p],
         LET q == Other(p)
         IN  /\ conn[q].end # "reset" /\ conn'[q].got = conn[q].got
             /\ conn'[q].tx = conn[q].tx \o FirstOf(buf, n)
  PROVE  Direction(p)'
<1> DEFINE q == Other(p)
           got == conn[q].got
           tx == conn[q].tx
           first == FirstOf(buf, n)
           rest == RestOf(buf, n)
<1>1. /\ Len(got) \in Nat /\ tx \in Seq(Nat) /\ Len(tx) \in Nat /\ buf \in Seq(Nat)
      /\ Len(buf) \in Nat /\ Len(conn[p].rx) \in Nat
  BY DirectionTypes, LenFacts
<1>2. /\ Run(got, 0) /\ Run(tx, Len(got)) /\ Run(buf, Len(got) + Len(tx))
      /\ Run(conn[p].rx, Len(got) + Len(tx) + Len(buf))
      /\ conn[p].sent = Len(got) + Len(tx) + Len(buf) + Len(conn[p].rx)
  BY DEF Inv, Direction, Delivered, Held
<1>3. conn'[q].got = got /\ conn'[q].tx = tx \o first
  OBVIOUS
<1> HIDE DEF got, tx
<1>4. /\ first \in Seq(Nat) /\ rest \in Seq(Nat)
      /\ Len(first) = n /\ Len(rest) = Len(buf) - n /\ n \in Nat
      /\ Run(first, Len(got) + Len(tx)) /\ Run(rest, Len(got) + Len(tx) + n)
  BY <1>1, <1>2, RunSplit, FirstFacts, RestFacts DEF FirstOf, RestOf
<1> HIDE DEF first, rest
<1>5. Run(tx \o first, Len(got)) /\ Len(tx \o first) = Len(tx) + n
  BY <1>1, <1>2, <1>4, RunConcat
<1>6. Delivered(p)' = Len(got) + Len(tx) + n
  BY <1>1, <1>3, <1>4, <1>5 DEF Delivered
<1>7. Held(p)' = rest
  BY DEF rest
<1>8. /\ Delivered(p)' + Len(rest) = Len(got) + Len(tx) + Len(buf)
      /\ Delivered(p)' <= conn[p].sent
  <2> DEFINE g == Len(got)  t == Len(tx)  b == Len(buf)  r == Len(conn[p].rx)
             d == Delivered(p)'
             sent == conn[p].sent
             left == Len(rest)
  <2>1. /\ g \in Nat /\ t \in Nat /\ b \in Nat /\ r \in Nat /\ n \in 0..b
        /\ sent = g + t + b + r /\ d = g + t + n /\ left = b - n
    BY <1>1, <1>2, <1>4, <1>6
  <2> HIDE DEF g, t, b, r, d, sent, left
  <2>2. d + left = g + t + b /\ d <= sent
    BY <2>1
  <2> QED
    BY <2>2 DEF g, t, b, d, sent, left
<1> QED
  BY <1>2, <1>3, <1>4, <1>5, <1>6, <1>7, <1>8 DEF Direction

-----------------------------------------------------------------------------
(* Init, and one lemma per kind of step.                                   *)

\* Nothing has been sent, and the target is not connected.
LEMMA InitInv == Init => Inv
<1> SUFFICES ASSUME Init PROVE Inv
  OBVIOUS
<1>1. ASSUME NEW p \in Peers
      PROVE  /\ conn[p] \in ConnType /\ conn[p].sent = 0 /\ conn[p].got = <<>>
             /\ conn[p].rx = <<>> /\ conn[p].tx = <<>>
  <2> DEFINE e == IF p = Client THEN "open" ELSE "away"
             c == [sent |-> 0, owe |-> 0, got |-> <<>>, rx |-> <<>>, tx |-> <<>>,
                   end |-> e, up |-> TRUE]
  <2>1. conn[p] = c
    BY DEF Init, Connection
  <2>2. e \in {"away", "open"} /\ <<>> \in Seq(Nat)
    OBVIOUS
  <2> HIDE DEF e
  <2>3. /\ c \in ConnType /\ c.sent = 0 /\ c.got = <<>> /\ c.rx = <<>> /\ c.tx = <<>>
    BY <2>2 DEF ConnType
  <2> QED
    BY <2>1, <2>3
<1>2. Shape
  BY <1>1 DEF Init, Shape
<1>3. ASSUME NEW p \in Peers
      PROVE  Direction(p)
  <2>1. Held(p) = <<>>
    BY DEF Init, Held
  <2>2. /\ conn[p].sent = 0 /\ conn[p].rx = <<>>
        /\ conn[Other(p)].got = <<>> /\ conn[Other(p)].tx = <<>>
    BY <1>1, SideFacts
  <2>3. Delivered(p) = 0
    BY <2>2, RunEmpty DEF Delivered
  <2> QED
    BY <2>1, <2>2, <2>3, RunEmpty DEF Direction
<1>4. TypeOK
  <2>1. \A p \in Peers : Len(conn[p].rx) = 0 /\ Len(conn[p].tx) = 0
    BY <1>1, RunEmpty
  <2>2. buf \in Seq(Nat) /\ Len(buf) = 0 /\ from \in Peers
    BY RunEmpty, SidesAssumption DEF Init
  <2>3. ev \in [Peers -> SUBSET {"IN", "HUP"}]
    BY DEF Init, NoEvents
  <2> QED
    BY <1>1, <2>1, <2>2, <2>3, PeerBufferAssumption, ChunkAssumption DEF TypeOK, Init
<1> QED
  BY <1>2, <1>3, <1>4 DEF Inv, Control, Init

\* A peer sends, reads, finishes or resets while the worker is anywhere.
LEMMA PeerStepInv ==
  ASSUME Inv, NEW r \in Peers, PeerStep(r), UNCHANGED <<pc, from, ev, buf, why>>
  PROVE  Inv'
<1> DEFINE b == conn[r]
<1>1. PICK c \in ConnType :
         /\ Becomes(r, c)
         /\ \/ Alike(c, b) /\ c.end # "reset" /\ b.end # "reset"
            \/ /\ Len(b.rx) < RcvBuf /\ c.sent = b.sent + 1 /\ c.rx = Append(b.rx, b.sent + 1)
               /\ c.got = b.got /\ c.tx = b.tx /\ c.end = b.end
            \/ /\ b.tx # <<>> /\ c.got = Append(b.got, Head(b.tx)) /\ c.tx = Tail(b.tx)
               /\ c.sent = b.sent /\ c.rx = b.rx /\ c.end = b.end
            \/ /\ c.tx = <<>> /\ c.end = "reset"
               /\ c.sent = b.sent /\ c.got = b.got /\ c.rx = b.rx
  BY PeerStepFacts DEF Inv
<1>2. Shape' /\ conn'[r] = c /\ \A s \in Peers : s # r => conn'[s] = conn[s]
  BY <1>1, BecomesFacts DEF Inv
<1>3. /\ b.sent \in Nat /\ b.rx \in Seq(Nat) /\ Len(b.rx) \in Nat
      /\ b.tx \in Seq(Nat) /\ Len(b.tx) \in Nat /\ Len(b.rx) <= RcvBuf /\ Len(b.tx) <= SndBuf
  BY DirectionTypes, ConnParts DEF Inv, TypeOK
<1>4. Len(c.rx) <= RcvBuf /\ Len(c.tx) <= SndBuf
  <2> HIDE DEF b
  <2>1. Len(Append(b.rx, b.sent + 1)) = Len(b.rx) + 1
    BY <1>3, AppendProperties
  <2>2. b.tx # <<>> => Len(Tail(b.tx)) = Len(b.tx) - 1
    BY <1>3, HeadTailProperties
  <2>3. Len(c.rx) <= RcvBuf
    BY <1>1, <1>3, <2>1, PeerBufferAssumption DEF Alike
  <2>4. Len(c.tx) <= SndBuf
    <3>1. c.tx = b.tx \/ (b.tx # <<>> /\ c.tx = Tail(b.tx)) \/ c.tx = <<>>
      BY <1>1 DEF Alike
    <3>2. Len(<<>>) <= SndBuf
      BY RunEmpty, PeerBufferAssumption
    <3>3. b.tx # <<>> => Len(Tail(b.tx)) <= SndBuf
      BY <1>3, <2>2, PeerBufferAssumption
    <3> QED
      BY <1>3, <3>1, <3>2, <3>3
  <2> QED
    BY <2>3, <2>4
<1>5. TypeOK'
  BY <1>2, <1>4 DEF Inv, TypeOK
<1>6. Control'
  BY DEF Inv, Control
<1>7. ASSUME NEW p \in Peers
      PROVE  Direction(p)'
  <2> DEFINE q == Other(p)
  <2>1. q \in Peers /\ q # p /\ (r = p \/ r = q)
    BY SideFacts
  <2>2. Held(p)' = Held(p) /\ Direction(p)
    BY DEF Held, Inv
  <2>3. CASE r = p
    <3>1. conn'[q] = conn[q]
      BY <1>2, <2>1, <2>3
    <3>2. \/ conn'[p].sent = conn[p].sent /\ conn'[p].rx = conn[p].rx
          \/ /\ conn'[p].sent = conn[p].sent + 1
             /\ conn'[p].rx = Append(conn[p].rx, conn[p].sent + 1)
      BY <1>1, <1>2, <2>3 DEF Alike
    <3> QED
      BY <2>2, <3>1, <3>2, DirectionKept, DirectionSent
  <2>4. CASE r = q
    <3>1. conn'[p] = conn[p]
      BY <1>2, <2>1, <2>4
    <3>2. CASE c.got = b.got /\ c.tx = b.tx /\ (c.end = b.end \/ (c.end # "reset" /\ b.end # "reset"))
      BY <1>2, <2>2, <2>4, <3>1, <3>2, DirectionKept
    <3>3. CASE /\ b.tx # <<>> /\ c.got = Append(b.got, Head(b.tx)) /\ c.tx = Tail(b.tx)
               /\ c.end = b.end
      BY <1>2, <2>4, <3>1, <3>3, DirectionRead
    <3>4. CASE c.tx = <<>> /\ c.end = "reset" /\ c.got = b.got
      BY <1>2, <2>4, <3>1, <3>4, DirectionCut
    <3>5. \/ c.got = b.got /\ c.tx = b.tx /\ (c.end = b.end \/ (c.end # "reset" /\ b.end # "reset"))
          \/ /\ b.tx # <<>> /\ c.got = Append(b.got, Head(b.tx)) /\ c.tx = Tail(b.tx)
             /\ c.end = b.end
          \/ c.tx = <<>> /\ c.end = "reset" /\ c.got = b.got
      <4>1. CASE Alike(c, b) /\ c.end # "reset" /\ b.end # "reset"
        BY <4>1 DEF Alike
      <4> QED
        BY <1>1, <4>1
    <3> QED
      BY <3>2, <3>3, <3>4, <3>5
  <2> QED
    BY <2>1, <2>3, <2>4
<1> QED
  BY <1>2, <1>5, <1>6, <1>7 DEF Inv

\* The end of the session, for whatever reason.
LEMMA EndInv ==
  ASSUME Inv, NEW reason \in {"refused", "eof", "error", "hup"}, End(reason)
  PROVE  Inv'
<1>1. ASSUME NEW p \in Peers
      PROVE  /\ conn'[p] \in ConnType /\ conn'[p].sent = conn[p].sent
             /\ conn'[p].got = conn[p].got /\ conn'[p].rx = <<>>
             /\ conn'[p].tx = conn[p].tx \/ conn'[p].tx = <<>>
  <2>1. conn'[p] = Closed(conn[p]) /\ conn[p] \in ConnType
    BY DEF End, Inv, Shape
  <2> QED
    BY <2>1, ClosedFacts
<1>2. Shape'
  BY <1>1 DEF Shape, End
<1>3. TypeOK'
  <2>1. \A p \in Peers : Len(conn'[p].rx) <= RcvBuf /\ Len(conn'[p].tx) <= SndBuf
    BY <1>1, RunEmpty, PeerBufferAssumption DEF Inv, TypeOK
  <2>2. buf' \in Seq(Nat) /\ Len(buf') <= IoBufSize
    BY RunEmpty, ChunkAssumption DEF End
  <2>3. ev' \in [Peers -> SUBSET {"IN", "HUP"}]
    BY DEF End, NoEvents
  <2> QED
    BY <1>1, <2>1, <2>2, <2>3 DEF Inv, TypeOK, End
<1>4. Control'
  BY DEF Control, End
<1>5. ASSUME NEW p \in Peers
      PROVE  Direction(p)'
  <2>1. Other(p) \in Peers /\ pc' = "done"
    BY SideFacts DEF End
  <2> QED
    BY <1>1, <2>1, DirectionCut
<1> QED
  BY <1>2, <1>3, <1>4, <1>5 DEF Inv

\* A step that touches no byte: connect succeeds, poll returns, no input.
LEMMA QuietInv ==
  ASSUME Inv, Connects \/ PollReturns \/ NoInput \/ PollAgain
  PROVE  Inv'
<1>1. UNCHANGED <<buf, why>> /\ pc \in {"connect", "poll", "recv", "hangup"} /\ buf = <<>>
      /\ pc' \in {"poll", "recv", "hangup"} /\ from' \in Peers
  BY SidesAssumption DEF Inv, TypeOK, Control, Connects, PollReturns, NoInput, NextTest, PollAgain
<1>2. /\ Shape'
      /\ \A p \in Peers : Alike(conn'[p], conn[p]) /\ (conn'[p].end = conn[p].end \/ conn[p].end # "reset")
  <2>1. CASE UNCHANGED conn
    BY <2>1 DEF Inv, Shape, Alike
  <2>2. CASE Connects
    <3> DEFINE b == conn[Target]
               c == [b EXCEPT !.end = "open"]
    <3>1. Becomes(Target, c) /\ Target \in Peers /\ b.end = "away"
      BY <2>2, SidesAssumption DEF Connects, PeerConnects, Becomes
    <3>2. b \in ConnType
      BY <3>1 DEF Inv, Shape
    <3>3. c \in ConnType /\ Alike(c, b) /\ c.end = "open"
      <4> HIDE DEF b
      <4> QED
        BY <3>2 DEF ConnType, Alike
    <3>4. Shape' /\ conn'[Target] = c /\ \A s \in Peers : s # Target => conn'[s] = conn[s]
      <4> HIDE DEF c
      <4> QED
        BY <3>1, <3>3, BecomesFacts DEF Inv
    <3> QED
      BY <3>1, <3>3, <3>4 DEF Alike
  <2> QED
    BY <2>1, <2>2 DEF PollReturns, NoInput, PollAgain
<1>3. TypeOK'
  <2>1. ev' \in [Peers -> SUBSET {"IN", "HUP"}]
    BY DEF Inv, TypeOK, Connects, PollReturns, NoInput, PollAgain, PollEvents, NoEvents
  <2> QED
    BY <1>1, <1>2, <2>1 DEF Inv, TypeOK, Shape, Alike
<1>4. Control'
  BY <1>1 DEF Inv, Control
<1>5. ASSUME NEW p \in Peers
      PROVE  Direction(p)'
  <2>1. Held(p) = <<>> /\ Held(p)' = <<>>
    BY <1>1 DEF Held
  <2>2. Other(p) \in Peers /\ Direction(p)
    BY SideFacts DEF Inv
  <2>3. /\ conn'[p].sent = conn[p].sent /\ conn'[p].rx = conn[p].rx
        /\ conn'[Other(p)].got = conn[Other(p)].got /\ conn'[Other(p)].tx = conn[Other(p)].tx
        /\ conn'[Other(p)].end # "reset" => conn[Other(p)].end # "reset"
        /\ pc' # "done" => pc # "done"
    <3>1. Alike(conn'[p], conn[p]) /\ Alike(conn'[Other(p)], conn[Other(p)])
      BY <1>2, <2>2
    <3>2. conn'[Other(p)].end = conn[Other(p)].end \/ conn[Other(p)].end # "reset"
      BY <1>2, <2>2
    <3>3. pc # "done"
      BY <1>1
    <3>4. /\ conn'[p].sent = conn[p].sent /\ conn'[p].rx = conn[p].rx
          /\ conn'[Other(p)].got = conn[Other(p)].got /\ conn'[Other(p)].tx = conn[Other(p)].tx
      BY <3>1 DEF Alike
    <3> QED
      BY <3>2, <3>3, <3>4
  <2> QED
    BY <2>1, <2>2, <2>3, DirectionKept
<1> QED
  BY <1>2, <1>3, <1>4, <1>5 DEF Inv

\* A number within the smaller of two is within both.
LEMMA SmallerFacts ==
  ASSUME NEW a \in Nat, NEW b \in Int
  PROVE  Smaller(a, b) <= a /\ Smaller(a, b) <= b /\ Smaller(a, b) \in Int
         /\ (b >= 0 => Smaller(a, b) \in Nat)
  BY DEF Smaller

\* recv returns a chunk.
LEMMA RecvDataInv == ASSUME Inv, RecvData PROVE Inv'
<1> DEFINE b == conn[from]
           n == Chunk
           c == Received(b, n)
<1>1. from \in Peers /\ b \in ConnType /\ pc = "recv" /\ b.rx \in Seq(Nat) /\ Len(b.rx) \in Nat
  BY ConnParts DEF Inv, TypeOK, RecvData, Input
<1>2. n \in 0..Len(b.rx) /\ n <= IoBufSize
  <2> DEFINE m == Len(b.rx)
  <2>1. n = Smaller(IoBufSize, m) /\ m \in Nat
    BY <1>1 DEF Chunk
  <2> HIDE DEF m, n
  <2>2. n \in 0..m /\ n <= IoBufSize
    BY <2>1, ChunkAssumption DEF Smaller
  <2> QED
    BY <2>2 DEF m
<1>3. /\ buf' = FirstOf(b.rx, n) /\ Becomes(from, c)
      /\ pc' = "send" /\ from' = from /\ UNCHANGED <<ev, why>>
  BY DEF RecvData, Becomes
<1>4. /\ c \in ConnType /\ c.sent = b.sent /\ c.got = b.got /\ c.rx = RestOf(b.rx, n)
      /\ c.tx = b.tx /\ c.end = b.end
  <2> HIDE DEF b, n
  <2> QED
    BY <1>1, <1>2, ReceivedFacts
<1>5. Shape' /\ conn'[from] = c /\ \A s \in Peers : s # from => conn'[s] = conn[s]
  <2> HIDE DEF c
  <2> QED
    BY <1>1, <1>3, <1>4, BecomesFacts DEF Inv
<1>6. /\ buf' \in Seq(Nat) /\ Len(buf') = n /\ Len(c.rx) = Len(b.rx) - n
  <2> HIDE DEF b, n
  <2> QED
    BY <1>1, <1>2, <1>3, <1>4, FirstFacts, RestFacts DEF FirstOf, RestOf
<1>7. TypeOK'
  <2>1. Len(c.rx) <= RcvBuf /\ Len(c.tx) <= SndBuf
    <3>1. Len(b.rx) <= RcvBuf /\ Len(b.tx) <= SndBuf
      BY <1>1 DEF Inv, TypeOK
    <3> HIDE DEF b, c, n
    <3> QED
      BY <1>1, <1>2, <1>4, <1>6, <3>1, PeerBufferAssumption
  <2> HIDE DEF b, c, n
  <2>2. Len(buf') <= IoBufSize
    BY <1>2, <1>6
  <2> QED
    BY <1>1, <1>3, <1>4, <1>5, <1>6, <2>1, <2>2 DEF Inv, TypeOK
<1>8. Control'
  BY <1>1, <1>3 DEF Inv, Control
<1>9. ASSUME NEW p \in Peers
      PROVE  Direction(p)'
  <2>1. Other(p) \in Peers /\ Other(p) # p /\ (from = p \/ from = Other(p)) /\ Direction(p)
    BY <1>1, SideFacts DEF Inv
  <2> HIDE DEF n
  <2>2. CASE from = p
    <3>1. conn'[Other(p)] = conn[Other(p)]
      BY <1>5, <2>1, <2>2
    <3> QED
      BY <1>1, <1>2, <1>3, <1>4, <1>5, <2>2, <3>1, DirectionReceived
  <2>3. CASE from = Other(p)
    <3>1. conn'[p] = conn[p] /\ conn'[Other(p)] = c
      BY <1>5, <2>1, <2>3
    <3>2. Held(p) = <<>> /\ Held(p)' = <<>>
      BY <1>3, <2>1, <2>3 DEF Held
    <3> HIDE DEF c
    <3> QED
      BY <1>1, <1>4, <2>1, <2>3, <3>1, <3>2, DirectionKept
  <2> QED
    BY <2>1, <2>2, <2>3
<1> QED
  BY <1>5, <1>7, <1>8, <1>9 DEF Inv

\* send takes a part of the chunk, and with the last one the next test follows.
LEMMA SendInv == ASSUME Inv, Send PROVE Inv'
<1> DEFINE to == Other(from)
           b == conn[to]
<1>1. /\ from \in Peers /\ to \in Peers /\ to # from /\ Other(to) = from
      /\ b \in ConnType /\ pc = "send" /\ buf \in Seq(Nat) /\ Len(buf) \in Nat
      /\ b.end # "reset" /\ b.tx \in Seq(Nat) /\ Len(b.tx) \in Nat
      /\ Len(b.tx) <= SndBuf /\ Len(b.rx) <= RcvBuf /\ Len(buf) <= IoBufSize
  <2>1. from \in Peers /\ to \in Peers /\ to # from /\ Other(to) = from
    BY SideFacts DEF Inv, TypeOK
  <2>2. /\ b \in ConnType /\ buf \in Seq(Nat) /\ Len(buf) <= IoBufSize
        /\ Len(b.tx) <= SndBuf /\ Len(b.rx) <= RcvBuf
    BY <2>1 DEF Inv, TypeOK
  <2>3. Len(buf) \in Nat /\ b.tx \in Seq(Nat) /\ Len(b.tx) \in Nat
    BY <2>2, ConnParts, LenFacts
  <2> QED
    BY <2>1, <2>2, <2>3 DEF Send
<1>2. PICK n \in 1..Smaller(Len(buf), Room(b)) :
         /\ conn' = [conn EXCEPT ![to] = SentTo(@, FirstOf(buf, n))]
         /\ IF SentAll(RestOf(buf, n)) THEN buf' = <<>> /\ NextTest
                                       ELSE buf' = RestOf(buf, n) /\ UNCHANGED <<pc, from>>
  BY DEF Send
<1> DEFINE first == FirstOf(buf, n)
           rest == RestOf(buf, n)
           c == SentTo(b, first)
<1>3. n \in 0..Len(buf) /\ n <= Room(b) /\ Room(b) = SndBuf - Len(b.tx)
  <2>1. Room(b) = SndBuf - Len(b.tx) /\ Room(b) \in Int
    BY <1>1, PeerBufferAssumption DEF Room
  <2> DEFINE l == Len(buf)
             m == Room(b)
             w == Smaller(l, m)
  <2>2. n \in 1..w /\ l \in Nat /\ m \in Int
    BY <1>1, <1>2, <2>1
  <2>3. w \in Int /\ w <= l /\ w <= m
    <3> HIDE DEF l, m
    <3> QED
      BY <2>2, SmallerFacts
  <2> HIDE DEF l, m, w
  <2>4. n \in 0..l /\ n <= m
    BY <2>2, <2>3
  <2> QED
    BY <2>1, <2>4 DEF l, m
<1>4. first \in Seq(Nat) /\ rest \in Seq(Nat) /\ Len(first) = n /\ Len(rest) = Len(buf) - n
  BY <1>1, <1>3, FirstFacts, RestFacts DEF FirstOf, RestOf
<1>5. Becomes(to, c)
  BY <1>2 DEF Becomes
<1> HIDE DEF first
<1>6. /\ c \in ConnType /\ c.sent = b.sent /\ c.got = b.got /\ c.rx = b.rx
      /\ c.tx = b.tx \o first /\ c.end = b.end
  <2> HIDE DEF b
  <2> QED
    BY <1>1, <1>4, SentToFacts
<1>7. Shape' /\ conn'[to] = c /\ \A s \in Peers : s # to => conn'[s] = conn[s]
  <2> HIDE DEF c, to
  <2> QED
    BY <1>1, <1>5, <1>6, BecomesFacts DEF Inv
<1>8. /\ \/ buf' = <<>> /\ rest = <<>> /\ pc' \in {"recv", "hangup"}
         \/ buf' = rest /\ pc' = "send" /\ from' = from
      /\ from' \in Peers /\ UNCHANGED <<ev, why>>
  BY <1>1, <1>2, SidesAssumption DEF Send, SentAll, NextTest
<1> HIDE DEF rest
<1>9. TypeOK'
  <2>1. Len(c.tx) <= SndBuf /\ Len(c.rx) <= RcvBuf
    <3>1. Len(b.tx \o first) = Len(b.tx) + n
      <4> HIDE DEF b
      <4> QED
        BY <1>1, <1>4, ConcatProperties
    <3> HIDE DEF b, c
    <3> QED
      BY <1>1, <1>3, <1>6, <3>1, PeerBufferAssumption
  <2>2. buf' \in Seq(Nat) /\ Len(buf') <= IoBufSize
    BY <1>1, <1>3, <1>4, <1>8, RunEmpty, ChunkAssumption
  <2> HIDE DEF b, c, to
  <2> QED
    BY <1>1, <1>6, <1>7, <1>8, <2>1, <2>2 DEF Inv, TypeOK
<1>10. Control'
  BY <1>1, <1>8 DEF Inv, Control
<1>11. ASSUME NEW p \in Peers
       PROVE  Direction(p)'
  <2>1. (from = p \/ to = p) /\ Direction(p)
    BY <1>1, SideFacts DEF Inv
  <2>2. CASE from = p
    <3>1. conn'[p] = conn[p] /\ conn'[Other(p)] = c /\ conn[Other(p)] = b
      BY <1>1, <1>7, <2>2
    <3>2. Held(p)' = rest
      BY <1>8, <2>2 DEF Held
    <3> HIDE DEF c, b, to
    <3> QED
      BY <1>1, <1>3, <1>6, <2>2, <3>1, <3>2, DirectionMoved DEF first, rest
  <2>3. CASE to = p
    <3>1. conn'[Other(p)] = conn[Other(p)] /\ conn'[p] = c /\ conn[p] = b
      BY <1>1, <1>7, <2>3
    <3>2. Held(p) = <<>> /\ Held(p)' = <<>>
      BY <1>1, <1>8, <2>3 DEF Held
    <3> HIDE DEF c, b, to
    <3> QED
      BY <1>1, <1>6, <2>1, <3>1, <3>2, DirectionKept
  <2> QED
    BY <2>1, <2>2, <2>3
<1> QED
  BY <1>7, <1>9, <1>10, <1>11 DEF Inv

-----------------------------------------------------------------------------
(* The theorems.                                                           *)

\* Which steps there are, as the lemmas above group them.
LEMMA StepKinds ==
  ASSUME [Next]_vars
  PROVE  \/ Connects \/ PollReturns \/ NoInput \/ PollAgain
         \/ RecvData
         \/ Send
         \/ \E reason \in {"refused", "error", "hup"} : End(reason)
         \/ RecvEof
         \/ \E r \in Peers : PeerStep(r) /\ UNCHANGED <<pc, from, ev, buf, why>>
         \/ UNCHANGED vars
<1>1. ConnectFails \/ PollFails \/ RecvFails \/ SendFails \/ Hangup
        => \E reason \in {"refused", "error", "hup"} : End(reason)
  BY DEF ConnectFails, PollFails, RecvFails, SendFails, Hangup
<1> QED
  BY <1>1 DEF Next, RelayStep, OthersStep, Terminated

\* The inductive invariant holds in every reachable state.
THEOREM Invariant == SafeSpec => []Inv
<1>1. Init => Inv
  BY InitInv
<1>2. Inv /\ [Next]_vars => Inv'
  <2> SUFFICES ASSUME Inv, [Next]_vars PROVE Inv'
    OBVIOUS
  <2>1. CASE Connects \/ PollReturns \/ NoInput \/ PollAgain
    BY <2>1, QuietInv
  <2>2. CASE RecvData \/ Send
    BY <2>2, RecvDataInv, SendInv
  <2>3. CASE \E reason \in {"refused", "error", "hup"} : End(reason)
    BY <2>3, EndInv
  <2>4. CASE RecvEof
    <3>1. End("eof")
      BY <2>4 DEF RecvEof, Ends
    <3> QED
      BY <3>1, EndInv
  <2>5. CASE \E r \in Peers : PeerStep(r) /\ UNCHANGED <<pc, from, ev, buf, why>>
    BY <2>5, PeerStepInv
  <2>6. CASE UNCHANGED vars
    <3>1. \A p \in Peers : Direction(p)' = Direction(p)
      BY <2>6 DEF vars, Direction, Delivered, Held
    <3> QED
      BY <2>6, <3>1 DEF vars, Inv, TypeOK, Shape, Control
  <2> QED
    BY <2>1, <2>2, <2>3, <2>4, <2>5, <2>6, StepKinds
<1> QED
  BY <1>1, <1>2, PTL DEF SafeSpec

\* Neither the buffer of relay_proxy_data nor those of the kernel overflow.
THEOREM TypeCorrect == SafeSpec => []TypeOK
  BY Invariant, PTL DEF Inv

\* An end of file ends the session only after all that the side sent has been taken
\* by the other side's socket (relay_proxy_data, send_all_or_close).
THEOREM EofForwardsAllCorrect == SafeSpec => EofForwardsAll
<1> DEFINE Ended == why' = "eof" /\ why # "eof" /\ conn[Other(from)].end # "reset"
           All == conn[from].sent = Len(conn[Other(from)].got) + Len(conn[Other(from)].tx)
<1>1. Inv /\ [Next]_vars => [Ended => All]_vars
  <2> SUFFICES ASSUME Inv, [Next]_vars, Ended
               PROVE  All
    OBVIOUS
  <2>1. RecvEof
    BY StepKinds DEF Connects, PollReturns, NoInput, PollAgain, RecvData, Send, End, vars
  <2>2. from \in Peers /\ pc = "recv" /\ conn[from].rx = <<>> /\ buf = <<>>
    BY <2>1 DEF RecvEof, Input, Inv, TypeOK, Control
  <2>3. Held(from) = <<>> /\ Len(Held(from)) = 0 /\ Len(conn[from].rx) = 0
    BY <2>2, RunEmpty DEF Held
  <2>4. conn[from].sent = Delivered(from) + Len(Held(from)) + Len(conn[from].rx)
    BY <2>2 DEF Inv, Direction
  <2>5. Delivered(from) \in Nat
    BY <2>2, DirectionTypes
  <2> QED
    BY <2>3, <2>4, <2>5 DEF Delivered
<1> QED
  BY <1>1, Invariant, PTL DEF SafeSpec, EofForwardsAll

-----------------------------------------------------------------------------
(* Both directions are byte streams.                                       *)

\* Every step is a write or a read of the direction from p to q, changes whether it
\* flows, or does not concern it.
Writes(p) == conn'[p].sent = conn[p].sent + 1 /\ conn'[Other(p)].got = conn[Other(p)].got

Reads(p) == /\ conn'[p].sent = conn[p].sent
            /\ \E n \in (Len(conn[Other(p)].got) + 1)..conn[p].sent :
                 conn'[Other(p)].got = [i \in 1..n |-> i]

Rests(p) == conn'[p].sent = conn[p].sent /\ conn'[Other(p)].got = conn[Other(p)].got

LEMMA PeerStepIsStream ==
  ASSUME Inv, Inv', NEW p \in Peers, NEW r \in Peers, PeerStep(r)
  PROVE  Writes(p) \/ Reads(p) \/ Rests(p)
<1> DEFINE b == conn[r]
           q == Other(p)
<1>1. PICK c \in ConnType :
         /\ Becomes(r, c)
         /\ \/ c.sent = b.sent /\ c.got = b.got
            \/ c.sent = b.sent + 1 /\ c.got = b.got
            \/ b.tx # <<>> /\ c.got = Append(b.got, Head(b.tx)) /\ c.sent = b.sent
  <2>1. PICK c \in ConnType :
         /\ Becomes(r, c)
         /\ \/ Alike(c, b) /\ c.end # "reset" /\ b.end # "reset"
            \/ /\ Len(b.rx) < RcvBuf /\ c.sent = b.sent + 1 /\ c.rx = Append(b.rx, b.sent + 1)
               /\ c.got = b.got /\ c.tx = b.tx /\ c.end = b.end
            \/ /\ b.tx # <<>> /\ c.got = Append(b.got, Head(b.tx)) /\ c.tx = Tail(b.tx)
               /\ c.sent = b.sent /\ c.rx = b.rx /\ c.end = b.end
            \/ /\ c.tx = <<>> /\ c.end = "reset"
               /\ c.sent = b.sent /\ c.got = b.got /\ c.rx = b.rx
    BY PeerStepFacts DEF Inv
  <2> QED
    BY <2>1 DEF Alike
<1>2. conn'[r] = c /\ \A s \in Peers : s # r => conn'[s] = conn[s]
  BY <1>1, BecomesFacts DEF Inv
<1>3. q \in Peers /\ q # p /\ (r = p \/ r = q)
  BY SideFacts
<1>4. CASE r = p
  <2>1. conn'[q] = conn[q]
    BY <1>2, <1>3, <1>4
  <2>2. c.sent = b.sent \/ c.sent = b.sent + 1
    BY <1>1
  <2> QED
    BY <1>2, <1>4, <2>1, <2>2 DEF Writes, Rests
<1>5. CASE r = q
  <2>1. conn'[p] = conn[p]
    BY <1>2, <1>3, <1>5
  <2>2. CASE c.got = b.got
    BY <1>2, <1>5, <2>1, <2>2 DEF Rests
  <2>3. CASE b.tx # <<>> /\ c.got = Append(b.got, Head(b.tx))
    <3>1. /\ b.got \in Seq(Nat) /\ b.tx \in Seq(Nat) /\ c.got \in Seq(Nat)
          /\ Len(b.got) \in Nat /\ Len(c.got) \in Nat
      BY <1>3, <1>5, ConnParts DEF Inv, Shape
    <3>2. Len(c.got) = Len(b.got) + 1
      <4> HIDE DEF b
      <4>1. Head(b.tx) \in Nat
        BY <2>3, <3>1, HeadTailProperties
      <4> QED
        BY <2>3, <3>1, <4>1, AppendProperties
    <3>3. Run(c.got, 0) /\ Delivered(p)' <= conn[p].sent
      BY <1>2, <1>5, <2>1 DEF Inv, Direction
    <3>4. Len(c.got) <= conn[p].sent
      <4>1. Delivered(p)' = Len(c.got) + Len(c.tx) /\ Len(c.tx) \in Nat /\ conn[p].sent \in Nat
        BY <1>2, <1>5, ConnParts, DirectionTypes DEF Delivered
      <4> DEFINE g == Len(c.got)  t == Len(c.tx)  d == Delivered(p)'  sent == conn[p].sent
      <4>2. d = g + t /\ d <= sent /\ g \in Nat /\ t \in Nat /\ sent \in Nat
        BY <3>1, <3>3, <4>1
      <4> HIDE DEF g, t, d, sent
      <4>3. g <= sent
        BY <4>2
      <4> QED
        BY <4>3 DEF g, sent
    <3>5. c.got = [i \in 1..Len(c.got) |-> i]
      BY <3>1, <3>3, FirstNumbers
    <3>6. Len(c.got) \in (Len(b.got) + 1)..conn[p].sent
      <4>1. conn[p].sent \in Nat
        BY DirectionTypes
      <4> HIDE DEF b
      <4> QED
        BY <3>1, <3>2, <3>4, <4>1
    <3> QED
      BY <1>2, <1>5, <2>1, <3>5, <3>6 DEF Reads
  <2> QED
    BY <1>1, <2>2, <2>3
<1> QED
  BY <1>3, <1>4, <1>5

LEMMA StepIsStream ==
  ASSUME Inv, Inv', NEW p \in Peers, [Next]_vars
  PROVE  Writes(p) \/ Reads(p) \/ Rests(p)
<1>1. from \in Peers /\ Other(p) \in Peers
  BY SideFacts DEF Inv, TypeOK
<1>2. CASE UNCHANGED conn
  BY <1>2 DEF Rests
<1>3. CASE \E r \in Peers : PeerStep(r)
  BY <1>3, PeerStepIsStream
<1>4. ASSUME NEW r \in Peers, NEW c \in ConnType, Becomes(r, c),
             c.sent = conn[r].sent, c.got = conn[r].got
      PROVE  Rests(p)
  BY <1>1, <1>4, BecomesFacts DEF Rests, Inv
<1>5. CASE Connects
  <2> DEFINE b == conn[Target]
             c == [b EXCEPT !.end = "open"]
  <2>1. Becomes(Target, c) /\ Target \in Peers
    BY <1>5, SidesAssumption DEF Connects, PeerConnects, Becomes
  <2>2. b \in ConnType
    BY <2>1 DEF Inv, Shape
  <2>3. c \in ConnType /\ c.sent = b.sent /\ c.got = b.got
    <3> HIDE DEF b
    <3> QED
      BY <2>2 DEF ConnType
  <2> HIDE DEF c
  <2> QED
    BY <1>4, <2>1, <2>3
<1>6. CASE RecvData
  <2> DEFINE b == conn[from]
             n == Chunk
             c == Received(b, n)
  <2>1. Becomes(from, c) /\ b \in ConnType /\ n \in 0..Len(b.rx)
    <3>1. Becomes(from, c) /\ b \in ConnType
      BY <1>1, <1>6 DEF RecvData, Becomes, Inv, Shape
    <3> DEFINE m == Len(b.rx)
    <3>2. n = Smaller(IoBufSize, m) /\ m \in Nat
      BY <3>1, ConnParts DEF Chunk
    <3> HIDE DEF m, n
    <3>3. n \in 0..m
      BY <3>2, ChunkAssumption DEF Smaller
    <3> QED
      BY <3>1, <3>3 DEF m, n
  <2>2. c \in ConnType /\ c.sent = b.sent /\ c.got = b.got
    <3> HIDE DEF b, n
    <3> QED
      BY <2>1, ReceivedFacts
  <2> HIDE DEF c
  <2> QED
    BY <1>1, <1>4, <2>1, <2>2
<1>7. CASE Send
  <2> DEFINE to == Other(from)
             b == conn[to]
  <2>1. PICK n \in 1..Smaller(Len(buf), Room(b)) :
           conn' = [conn EXCEPT ![to] = SentTo(@, FirstOf(buf, n))]
    BY <1>7 DEF Send
  <2> DEFINE first == FirstOf(buf, n)
             c == SentTo(b, first)
  <2>2. /\ to \in Peers /\ b \in ConnType /\ buf \in Seq(Nat) /\ Len(buf) \in Nat
        /\ Len(b.tx) \in Nat
    BY <1>1, SideFacts, DirectionTypes, LenFacts, ConnParts
  <2>3. n \in 0..Len(buf)
    <3> DEFINE l == Len(buf)
               m == Room(b)
               w == Smaller(l, m)
    <3>1. n \in 1..w /\ l \in Nat /\ m \in Int
      BY <2>1, <2>2, PeerBufferAssumption DEF Room
    <3>2. w \in Int /\ w <= l
      <4> HIDE DEF l, m
      <4> QED
        BY <3>1, SmallerFacts
    <3> HIDE DEF l, m, w
    <3>3. n \in 0..l
      BY <3>1, <3>2
    <3> QED
      BY <3>3 DEF l
  <2>4. first \in Seq(Nat)
    BY <2>2, <2>3, FirstFacts DEF FirstOf
  <2>5. Becomes(to, c)
    BY <2>1 DEF Becomes
  <2> HIDE DEF first
  <2>6. c \in ConnType /\ c.sent = b.sent /\ c.got = b.got
    <3> HIDE DEF b
    <3> QED
      BY <2>2, <2>4, SentToFacts
  <2> HIDE DEF c, to
  <2> QED
    BY <1>4, <2>2, <2>5, <2>6
<1>8. CASE \E reason \in {"refused", "error", "hup", "eof"} : End(reason)
  <2>1. \A s \in Peers : conn'[s] = Closed(conn[s]) /\ conn[s] \in ConnType
    BY <1>8 DEF End, Inv, Shape
  <2> QED
    BY <1>1, <2>1, ClosedFacts DEF Rests
<1>9. RecvEof => End("eof")
  BY DEF RecvEof, Ends
<1> QED
  BY <1>2, <1>3, <1>5, <1>6, <1>7, <1>8, <1>9, StepKinds DEF PollReturns, NoInput, PollAgain, vars

\* The relay implements the abstract byte stream in both directions, as far as safety
\* goes: each side reads the other's bytes in order, none twice and none left out,
\* however the directions and the ends of the session interleave
\* (relay_tcp_proxy_streams, relay_proxy_data, send_all_or_close).
THEOREM RelayIsStream == SafeSpec => Up!SafeSpec /\ Down!SafeSpec
<1>1. Client \in Peers /\ Target \in Peers /\ Other(Client) = Target /\ Other(Target) = Client
  BY SidesAssumption DEF Other
<1>2. Flowing(Client) \in BOOLEAN /\ Flowing(Target) \in BOOLEAN
  BY DEF Flowing
<1>3. Flowing(Client)' \in BOOLEAN /\ Flowing(Target)' \in BOOLEAN
  BY DEF Flowing
<1>4. Init => Up!Init /\ Down!Init
  <2> SUFFICES ASSUME Init PROVE Up!Init /\ Down!Init
    OBVIOUS
  <2>1. \A p \in Peers : conn[p].sent = 0 /\ conn[p].got = <<>>
    BY DEF Init, Connection
  <2> QED
    BY <1>1, <1>2, <2>1 DEF Up!Init, Down!Init
<1>5. Inv /\ Inv' /\ [Next]_vars => [Up!Next]_(Up!vars)
  <2> SUFFICES ASSUME Writes(Client) \/ Reads(Client) \/ Rests(Client)
               PROVE  [Up!Next]_(Up!vars)
    BY <1>1, StepIsStream
  <2> QED
    BY <1>1, <1>2, <1>3 DEF Writes, Reads, Rests, Up!Next, Up!Write, Up!Read, Up!Change, Up!vars
<1>6. Inv /\ Inv' /\ [Next]_vars => [Down!Next]_(Down!vars)
  <2> SUFFICES ASSUME Writes(Target) \/ Reads(Target) \/ Rests(Target)
               PROVE  [Down!Next]_(Down!vars)
    BY <1>1, StepIsStream
  <2> QED
    BY <1>1, <1>2, <1>3
       DEF Writes, Reads, Rests, Down!Next, Down!Write, Down!Read, Down!Change, Down!vars
<1> QED
  BY <1>4, <1>5, <1>6, Invariant, PTL DEF SafeSpec, Up!SafeSpec, Down!SafeSpec
=============================================================================

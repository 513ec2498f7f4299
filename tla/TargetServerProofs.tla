------------------------- MODULE TargetServerProofs -------------------------
(***************************************************************************)
(* Proofs about TargetServer, for every number of clients and descriptors, *)
(* every MAX_TCP_CLIENTS and every size of the buffers.  Inv is the        *)
(* inductive invariant; Bytes, inductive given Inv, says where the bytes   *)
(* of each client are.                                                     *)
(***************************************************************************)
EXTENDS TargetServer, BasicFacts

\* clients[] and the descriptors.
Entries == /\ Slots \subseteq Nat
           /\ slots = [i \in Slots |-> slots[i]]
           /\ fdOf \in [Peers -> Fds \cup {NoFd}]

\* The records of conn keep their fields.
Records == /\ DOMAIN conn = Peers
           /\ \A p \in Peers : DOMAIN conn[p] = DOMAIN Connection("away")

\* An event in the batch is one of a client that was in clients[], or one of a
\* listening socket, which does not hang up.
Events ==
  /\ batch = [i \in DOMAIN batch |-> batch[i]]
  /\ \A i \in DOMAIN batch :
        \/ i \in Slots /\ batch[i].fd # NoFd
        \/ /\ i \in {TcpSlot, UdpSlot} /\ batch[i].fd \in {TcpFd, UdpFd}
           /\ "HUP" \notin batch[i].ev

Inv == Entries /\ Records /\ Events /\ SlotsAgree

-----------------------------------------------------------------------------
(* Numbers and entries.                                                    *)

\* The lowest number of a set.
LEMMA LowestFacts ==
  ASSUME NEW S, S \subseteq Nat \cup {TcpSlot, UdpSlot}, S # {}
  PROVE  Lowest(S) \in S /\ \A j \in S : Lowest(S) <= j
<1>1. \E i \in S : \A j \in S : i <= j
  <2>1. CASE TcpSlot \in S
    BY <2>1 DEF TcpSlot, UdpSlot
  <2>2. CASE TcpSlot \notin S /\ UdpSlot \in S
    BY <2>2 DEF TcpSlot, UdpSlot
  <2>3. CASE TcpSlot \notin S /\ UdpSlot \notin S
    <3>1. S \subseteq Nat
      BY <2>3
    <3> QED
      BY <3>1, LeastElement
  <2> QED
    BY <2>1, <2>2, <2>3
<1> QED
  BY <1>1 DEF Lowest

\* The numbers of the sockets.
LEMMA FdFacts == /\ TcpFd \notin Fds /\ UdpFd \notin Fds /\ NoFd \notin Fds
                 /\ NoFd \notin {TcpFd, UdpFd} /\ Fds \subseteq Nat
                 /\ TcpSlot \notin Nat /\ UdpSlot \notin Nat
  BY FdsAssumption DEF TcpFd, UdpFd, NoFd, TcpSlot, UdpSlot

\* The event being handled.
LEMMA CurrentFacts ==
  ASSUME Inv, batch # <<>>
  PROVE  /\ Current \in DOMAIN batch
         /\ Current \in Slots => slots[Current] = batch[Current].fd /\ slots[Current] # NoFd
<1>1. DOMAIN batch # {}
  <2>1. SUFFICES ASSUME DOMAIN batch = {} PROVE FALSE
    OBVIOUS
  <2>2. batch = [i \in {} |-> batch[i]]
    BY <2>1 DEF Inv, Events
  <2>3. batch = <<>>
    BY <2>2
  <2> QED
    BY <2>3
<1>2. DOMAIN batch \subseteq Nat \cup {TcpSlot, UdpSlot}
  BY DEF Inv, Events, Entries
<1>3. Current \in DOMAIN batch
  BY <1>1, <1>2, LowestFacts DEF Current
<1>4. Current \in Slots => batch[Current].fd # NoFd
  BY <1>3, FdFacts DEF Inv, Events, Entries
<1> QED
  BY <1>3, <1>4 DEF Inv, SlotsAgree

\* An event that is over leaves the others as they are.
LEMMA EventDoneFacts ==
  ASSUME Inv, EventDone, Slots' = Slots
  PROVE  /\ Events' /\ DOMAIN batch' = DOMAIN batch \ {Current}
         /\ \A i \in DOMAIN batch' : batch'[i] = batch[i]
<1>1. batch' = [i \in DOMAIN batch \ {Current} |-> batch[i]]
  BY DEF EventDone, Restrict
<1> QED
  BY <1>1 DEF Inv, Events

-----------------------------------------------------------------------------
(* The steps.                                                              *)

\* A step that changes neither clients[] nor the descriptors, and opens and closes
\* no connection.
LEMMA AgreeKept ==
  ASSUME Inv, UNCHANGED <<slots, fdOf>>,
         \A p \in Peers : conn'[p].up = conn[p].up,
         \A i \in DOMAIN batch' : i \in Slots => i \in DOMAIN batch /\ batch'[i] = batch[i]
  PROVE  Entries' /\ SlotsAgree'
  BY DEF Inv, Entries, SlotsAgree, Slots, OwnersOf

\* A step that changes one connection keeps its fields.
LEMMA RecordsKept ==
  ASSUME Inv, NEW p \in Peers, NEW c, conn' = [conn EXCEPT ![p] = c],
         DOMAIN c = DOMAIN conn[p]
  PROVE  Records' /\ conn'[p] = c /\ \A r \in Peers : r # p => conn'[r] = conn[r]
  BY DEF Inv, Records

LEMMA InitInv == Init => Inv
<1> SUFFICES ASSUME Init PROVE Inv
  OBVIOUS
<1>1. PICK max \in Limits : slots = [i \in 0..(max - 1) |-> NoFd]
  BY DEF Init
<1>2. Slots \subseteq Nat
  BY <1>1, SlotsAssumption DEF Slots
<1>3. Entries
  BY <1>1, <1>2 DEF Entries, Slots, Init
<1>4. Records
  BY DEF Records, Init
<1>5. Events
  BY DEF Events, Init
<1>6. SlotsAgree
  BY <1>1 DEF SlotsAgree, Slots, Init
<1> QED
  BY <1>3, <1>4, <1>5, <1>6 DEF Inv

\* poll fills the batch with what is in clients[] now.
LEMMA PollReturnsInv == Inv /\ PollReturns => Inv'
<1> SUFFICES ASSUME Inv, PollReturns PROVE Inv'
  OBVIOUS
<1>1. UNCHANGED <<conn, slots, fdOf>>
  BY DEF PollReturns
<1>2. PICK ready \in SUBSET DOMAIN Watched :
        batch' = [i \in ready |-> [fd |-> Watched[i], ev |-> Revents(Watched[i])]]
  BY DEF PollReturns
<1>3. ASSUME NEW i \in ready
      PROVE  \/ i \in Slots /\ Watched[i] = slots[i] /\ slots[i] # NoFd
             \/ /\ i \in {TcpSlot, UdpSlot} /\ Watched[i] \in {TcpFd, UdpFd}
                /\ "HUP" \notin Revents(Watched[i])
  <2>1. CASE i = TcpSlot
    <3>1. Watched[i] = TcpFd
      BY <2>1 DEF Watched
    <3> QED
      BY <2>1, <3>1 DEF Revents
  <2>2. CASE i = UdpSlot
    <3>1. Watched[i] = UdpFd /\ UdpFd # TcpFd
      BY <2>2 DEF Watched, TcpSlot, UdpSlot, TcpFd, UdpFd
    <3> QED
      BY <2>2, <3>1 DEF Revents
  <2>3. CASE i \notin {TcpSlot, UdpSlot}
    BY <2>3 DEF Watched
  <2> QED
    BY <2>1, <2>2, <2>3
<1>4. Slots' = Slots
  BY <1>1 DEF Slots
<1>5. DOMAIN batch' = ready
      /\ \A i \in ready : batch'[i].fd = Watched[i] /\ batch'[i].ev = Revents(Watched[i])
  BY <1>2
<1>6. Events'
  <2>1. batch' = [i \in DOMAIN batch' |-> batch'[i]]
    BY <1>2
  <2>2. ASSUME NEW i \in DOMAIN batch'
        PROVE  \/ i \in Slots' /\ batch'[i].fd # NoFd
               \/ /\ i \in {TcpSlot, UdpSlot} /\ batch'[i].fd \in {TcpFd, UdpFd}
                  /\ "HUP" \notin batch'[i].ev
    BY <1>3, <1>4, <1>5
  <2> QED
    BY <2>1, <2>2 DEF Events
<1>7. Entries' /\ Records'
  BY <1>1 DEF Inv, Entries, Records, Slots
<1>8. \A i \in DOMAIN batch' : i \in Slots => slots[i] = batch'[i].fd
  BY <1>3, <1>5, FdFacts DEF Inv, Entries
<1>9. SlotsAgree'
  BY <1>1, <1>4, <1>8 DEF Inv, SlotsAgree, OwnersOf
<1> QED
  BY <1>6, <1>7, <1>9 DEF Inv

\* poll fails, and everything is closed.
LEMMA PollFailsInv == Inv /\ PollFails => Inv'
<1> SUFFICES ASSUME Inv, PollFails PROVE Inv'
  OBVIOUS
<1>1. /\ conn' = [p \in Peers |-> IF conn[p].up THEN Closed(conn[p]) ELSE conn[p]]
      /\ slots' = [i \in Slots |-> NoFd] /\ fdOf' = [p \in Peers |-> NoFd]
      /\ batch = <<>> /\ batch' = batch
  BY DEF PollFails
<1>2. Slots' = Slots
  BY <1>1 DEF Slots
<1>3. Entries'
  BY <1>1, <1>2 DEF Inv, Entries
<1>4. Records'
  BY <1>1 DEF Inv, Records, Closed, Reset
<1>5. Events' /\ SlotsAgree'
  BY <1>1, <1>2 DEF Inv, Events, SlotsAgree
<1> QED
  BY <1>3, <1>4, <1>5 DEF Inv

\* A new client gets an entry and a descriptor that are free, or is turned away.
LEMMA AcceptClientInv == Inv /\ AcceptClient => Inv'
<1> SUFFICES ASSUME Inv, AcceptClient PROVE Inv'
  OBVIOUS
<1> DEFINE i == Lowest(FreeSlots)
           fd == Lowest(FreeFds)
<1>1. PICK p \in Queued :
        IF FreeSlots # {}
        THEN slots' = [slots EXCEPT ![i] = fd] /\ fdOf' = [fdOf EXCEPT ![p] = fd] /\ UNCHANGED conn
        ELSE LET c == TurnedAway(conn[p]) IN
             /\ conn' = [conn EXCEPT ![p] = c]
             /\ fdOf' = [fdOf EXCEPT ![p] = IF c.up THEN fd ELSE NoFd]
             /\ UNCHANGED slots
  BY DEF AcceptClient
<1>2. p \in Peers /\ conn[p].up /\ fdOf[p] = NoFd /\ batch' = batch
  BY <1>1 DEF AcceptClient, Queued
<1>3. CASE FreeSlots = {}
  <2> DEFINE c == TurnedAway(conn[p])
  <2>1. conn' = [conn EXCEPT ![p] = c] /\ UNCHANGED slots
    BY <1>1, <1>3
  <2>2. c.up = FALSE /\ DOMAIN c = DOMAIN conn[p]
    BY <1>2 DEF TurnedAway, Closed, Reset, Inv, Records, Connection
  <2>3. fdOf' = fdOf
    BY <1>1, <1>2, <1>3, <2>2 DEF Inv, Entries
  <2> HIDE DEF c
  <2>4. Records' /\ \A r \in Peers : r # p => conn'[r] = conn[r]
    BY <1>2, <2>1, <2>2, RecordsKept
  <2>5. Entries' /\ Events'
    BY <1>2, <2>1, <2>3 DEF Inv, Entries, Events, Slots
  <2>6. SlotsAgree'
    BY <1>2, <2>1, <2>3, <2>4 DEF Inv, SlotsAgree, Slots, OwnersOf
  <2> QED
    BY <2>4, <2>5, <2>6 DEF Inv
<1>4. CASE FreeSlots # {}
  <2>1. /\ slots' = [slots EXCEPT ![i] = fd] /\ fdOf' = [fdOf EXCEPT ![p] = fd]
        /\ UNCHANGED conn
    BY <1>1, <1>4
  <2>2. i \in Slots /\ slots[i] = NoFd
    <3>1. FreeSlots \subseteq Nat
      BY DEF FreeSlots, Inv, Entries
    <3>2. i \in FreeSlots
      BY <1>4, <3>1, LowestFacts
    <3> QED
      BY <3>2 DEF FreeSlots
  <2>3. fd \in Fds /\ \A r \in Peers : fdOf[r] # fd
    <3>1. FreeFds \subseteq Nat /\ FreeFds # {}
      BY FdFacts DEF FreeFds, AcceptClient
    <3>2. fd \in FreeFds
      BY <3>1, LowestFacts
    <3> QED
      BY <3>2 DEF FreeFds
  <2>4. fd # NoFd
    BY <2>3, FdFacts
  <2> HIDE DEF i, fd
  <2>5. Slots' = Slots
    BY <2>1 DEF Slots
  <2>6. /\ fdOf'[p] = fd /\ \A r \in Peers : r # p => fdOf'[r] = fdOf[r]
        /\ slots'[i] = fd /\ \A j \in Slots : j # i => slots'[j] = slots[j]
    BY <1>2, <2>1, <2>2 DEF Inv, Entries, Slots
  <2>7. Entries' /\ Records' /\ Events'
    <3>1. slots' = [j \in Slots |-> slots'[j]] /\ fdOf' \in [Peers -> Fds \cup {NoFd}]
      BY <2>1, <2>3 DEF Inv, Entries
    <3> QED
      BY <1>2, <2>1, <2>5, <3>1 DEF Inv, Entries, Records, Events
  <2>8. \A j \in Slots : slots[j] # NoFd => slots[j] # fd
    BY <2>3 DEF Inv, SlotsAgree, OwnersOf
  <2>9. \A j \in Slots : slots'[j] # NoFd => \E r \in Peers : OwnersOf(slots[j])' = {r}
    <3> SUFFICES ASSUME NEW j \in Slots, slots'[j] # NoFd
                 PROVE  \E r \in Peers : OwnersOf(slots[j])' = {r}
      OBVIOUS
    <3>1. CASE j = i
      BY <1>2, <2>3, <2>6, <3>1 DEF OwnersOf
    <3>2. CASE j # i
      <4>1. slots'[j] = slots[j] /\ slots[j] # fd
        BY <2>6, <2>8, <3>2
      <4>2. PICK r \in Peers : OwnersOf(slots[j]) = {r}
        BY <4>1 DEF Inv, SlotsAgree
      <4>3. OwnersOf(slots[j])' = OwnersOf(slots[j])
        <5>1. OwnersOf(slots[j])' = {s \in Peers : fdOf'[s] = slots[j]}
          BY <4>1 DEF OwnersOf
        <5> QED
          BY <1>2, <2>6, <4>1, <5>1 DEF OwnersOf
      <4> QED
        BY <4>1, <4>2, <4>3
    <3> QED
      BY <3>1, <3>2
  <2>10. \A r \in Peers : fdOf'[r] # NoFd => conn'[r].up /\ \E j \in Slots : slots'[j] = fdOf'[r]
    BY <1>2, <2>1, <2>2, <2>6 DEF Inv, SlotsAgree
  <2>11. \A j, k \in Slots : slots'[j] = slots'[k] => j = k \/ slots'[j] = NoFd
    BY <2>6, <2>8 DEF Inv, SlotsAgree
  <2>12. \A j \in DOMAIN batch' : j \in Slots => slots'[j] = batch'[j].fd
    BY <1>2, <2>2, <2>6, FdFacts DEF Inv, SlotsAgree, Events, Entries
  <2> QED
    BY <2>5, <2>7, <2>9, <2>10, <2>11, <2>12 DEF Inv, SlotsAgree
<1> QED
  BY <1>3, <1>4

\* The entry remove_client is called for still holds the descriptor of the event.
LEMMA RemovedFacts ==
  ASSUME Inv, batch # <<>>,
         "HUP" \in batch[Current].ev \/ \E p \in Peers : batch[Current].fd = fdOf[p]
  PROVE  Current \in Slots /\ slots[Current] = batch[Current].fd /\ slots[Current] # NoFd
<1>1. Current \in DOMAIN batch
  BY CurrentFacts
<1>2. Current \in Slots
  <2>1. SUFFICES ASSUME Current \notin Slots PROVE FALSE
    OBVIOUS
  <2>2. batch[Current].fd \in {TcpFd, UdpFd} /\ "HUP" \notin batch[Current].ev
    BY <1>1, <2>1 DEF Inv, Events
  <2> QED
    BY <2>2, FdFacts DEF Inv, Entries
<1> QED
  BY <1>2, CurrentFacts

\* The client whose event is being handled is removed: its entry, its descriptor and
\* its connection, and no others.
LEMMA RemoveClientInv ==
  ASSUME Inv, batch # <<>>, RemoveClient,
         "HUP" \in batch[Current].ev \/ \E p \in Peers : batch[Current].fd = fdOf[p]
  PROVE  Inv'
<1> DEFINE k == Current
           fd == batch[Current].fd
<1>1. k \in Slots /\ slots[k] = fd /\ fd # NoFd
  BY RemovedFacts
<1>2. PICK p \in Peers : OwnersOf(fd) = {p}
  BY <1>1 DEF Inv, SlotsAgree
<1>3. /\ conn' = [r \in Peers |-> IF r \in OwnersOf(fd) THEN Closed(conn[r]) ELSE conn[r]]
      /\ fdOf' = [r \in Peers |-> IF r \in OwnersOf(fd) THEN NoFd ELSE fdOf[r]]
      /\ slots' = [slots EXCEPT ![k] = NoFd]
      /\ EventDone
  <2>1. {r \in OwnersOf(slots[Current]) : slots[Current] # NoFd} = OwnersOf(fd)
    BY <1>1 DEF OwnersOf
  <2> QED
    BY <2>1 DEF RemoveClient, SlotCleared
<1>4. Slots' = Slots
  BY <1>3 DEF Slots
<1>5. Events' /\ DOMAIN batch' = DOMAIN batch \ {k} /\ \A i \in DOMAIN batch' : batch'[i] = batch[i]
  BY <1>3, <1>4, EventDoneFacts
<1> HIDE DEF k, fd
<1>6. /\ fdOf[p] = fd /\ fdOf'[p] = NoFd
      /\ \A r \in Peers : r # p => fdOf[r] # fd /\ fdOf'[r] = fdOf[r] /\ conn'[r] = conn[r]
      /\ slots'[k] = NoFd /\ \A j \in Slots : j # k => slots[j] # fd /\ slots'[j] = slots[j]
  <2>1. \A r \in Peers : fdOf[r] = fd <=> r = p
    BY <1>2 DEF OwnersOf
  <2>2. \A j \in Slots : j # k => slots[j] # fd
    BY <1>1 DEF Inv, SlotsAgree
  <2>3. slots'[k] = NoFd /\ \A j \in Slots : j # k => slots'[j] = slots[j]
    BY <1>1, <1>3 DEF Inv, Entries, Slots
  <2> QED
    BY <1>2, <1>3, <2>1, <2>2, <2>3
<1>7. Entries'
  <2>1. slots' = [j \in Slots |-> slots'[j]]
    BY <1>3 DEF Inv, Entries, Slots
  <2>2. fdOf' \in [Peers -> Fds \cup {NoFd}]
    BY <1>3 DEF Inv, Entries
  <2> QED
    BY <1>4, <2>1, <2>2 DEF Inv, Entries
<1>8. Records'
  BY <1>3 DEF Inv, Records, Closed, Reset
<1>9. \A j \in Slots : slots'[j] # NoFd => \E r \in Peers : OwnersOf(slots[j])' = {r}
  <2> SUFFICES ASSUME NEW j \in Slots, slots'[j] # NoFd
               PROVE  \E r \in Peers : OwnersOf(slots[j])' = {r}
    OBVIOUS
  <2>1. slots'[j] = slots[j] /\ slots[j] # fd /\ slots[j] # NoFd
    BY <1>6
  <2>2. PICK r \in Peers : OwnersOf(slots[j]) = {r}
    BY <2>1 DEF Inv, SlotsAgree
  <2>3. OwnersOf(slots[j])' = {s \in Peers : fdOf'[s] = slots[j]}
    BY <2>1 DEF OwnersOf
  <2> QED
    BY <1>6, <2>1, <2>2, <2>3 DEF OwnersOf
<1>10. \A r \in Peers : fdOf'[r] # NoFd => conn'[r].up /\ \E j \in Slots : slots'[j] = fdOf'[r]
  <2> SUFFICES ASSUME NEW r \in Peers, fdOf'[r] # NoFd
               PROVE  conn'[r].up /\ \E j \in Slots : slots'[j] = fdOf'[r]
    OBVIOUS
  <2>1. fdOf'[r] = fdOf[r] /\ conn'[r] = conn[r] /\ fdOf[r] # fd
    BY <1>6
  <2>2. conn[r].up /\ \E j \in Slots : slots[j] = fdOf[r]
    BY <2>1 DEF Inv, SlotsAgree
  <2> QED
    BY <1>1, <1>6, <2>1, <2>2
<1>11. \A j, l \in Slots : slots'[j] = slots'[l] => j = l \/ slots'[j] = NoFd
  BY <1>6 DEF Inv, SlotsAgree
<1>12. \A j \in DOMAIN batch' : j \in Slots => slots'[j] = batch'[j].fd
  BY <1>5, <1>6 DEF Inv, SlotsAgree
<1> QED
  BY <1>4, <1>5, <1>7, <1>8, <1>9, <1>10, <1>11, <1>12 DEF Inv, SlotsAgree

LEMMA HangUpInv == Inv /\ HangUp => Inv'
  BY RemoveClientInv DEF HangUp

\* recv and send fail, or the client has sent all: it is removed.
LEMMA EndsInv ==
  ASSUME Inv, NEW p \in Peers, RecvEnds(p) \/ SendFails(p)
  PROVE  Inv'
<1>1. batch # <<>> /\ RemoveClient /\ batch[Current].fd = fdOf[p]
  BY DEF RecvEnds, SendFails, Receives, Sends, Handles
<1> QED
  BY <1>1, RemoveClientInv

\* An event is over and no client was removed.
LEMMA EventDoneInv ==
  ASSUME Inv, EventDone, UNCHANGED <<conn, slots, fdOf>>
  PROVE  Inv'
<1>1. Slots' = Slots
  BY DEF Slots
<1>2. Events' /\ DOMAIN batch' \subseteq DOMAIN batch /\ \A i \in DOMAIN batch' : batch'[i] = batch[i]
  BY <1>1, EventDoneFacts
<1>3. Entries' /\ SlotsAgree'
  BY <1>2, AgreeKept
<1> QED
  BY <1>2, <1>3 DEF Inv, Records

\* One connection changes and stays open or closed.
LEMMA ConnInv ==
  ASSUME Inv, UNCHANGED <<slots, fdOf, batch>>, NEW p \in Peers, NEW c,
         conn' = [conn EXCEPT ![p] = c], DOMAIN c = DOMAIN conn[p], c.up = conn[p].up
  PROVE  Inv'
<1>1. Records' /\ conn'[p] = c /\ \A r \in Peers : r # p => conn'[r] = conn[r]
  BY RecordsKept
<1>2. Entries' /\ SlotsAgree'
  BY <1>1, AgreeKept
<1>3. Events'
  BY DEF Inv, Events, Slots
<1> QED
  BY <1>1, <1>2, <1>3 DEF Inv

\* Bytes are received or sent.
LEMMA BytesInv ==
  ASSUME Inv, NEW p \in Peers, RecvData(p) \/ SendData(p)
  PROVE  Inv'
<1>1. DOMAIN conn[p] = DOMAIN Connection("away") /\ DOMAIN conn = Peers
  BY DEF Inv, Records
<1>2. ASSUME NEW n PROVE /\ DOMAIN Received(conn[p], n) = DOMAIN conn[p]
                         /\ Received(conn[p], n).up = conn[p].up
                         /\ DOMAIN SentTo(conn[p], n) = DOMAIN conn[p]
                         /\ SentTo(conn[p], n).up = conn[p].up
  BY <1>1 DEF Received, SentTo, Connection
<1>3. CASE RecvData(p)
  <2>1. PICK n : conn' = [conn EXCEPT ![p] = Received(conn[p], n)]
    BY <1>1, <1>3 DEF RecvData
  <2> QED
    BY <1>2, <1>3, <2>1, ConnInv DEF RecvData
<1>4. CASE SendData(p)
  <2>1. PICK s : conn' = [conn EXCEPT ![p] = SentTo(conn[p], s)]
    BY <1>1, <1>4 DEF SendData
  <2> QED
    BY <1>2, <1>4, <2>1, ConnInv DEF SendData
<1> QED
  BY <1>3, <1>4

\* A peer connects, begins a message, sends, reads, finishes or resets.
LEMMA ClientStepInv == Inv /\ ClientStep => Inv'
<1> SUFFICES ASSUME Inv, ClientStep PROVE Inv'
  OBVIOUS
<1>1. PICK p \in Peers : PeerStep(p) \/ PeerConnects(p)
  BY DEF ClientStep
<1> DEFINE b == conn[p]
<1>2. UNCHANGED <<slots, fdOf, batch>> /\ DOMAIN b = DOMAIN Connection("away") /\ DOMAIN conn = Peers
  BY DEF Inv, Records, ClientStep, serverVars
<1> DEFINE Alike(c) == conn' = [conn EXCEPT ![p] = c] /\ DOMAIN c = DOMAIN b /\ c.up = b.up
<1>3. \E c : Alike(c)
  <2>1. CASE PeerConnects(p)
    <3>1. Alike([b EXCEPT !.end = "open"])
      BY <1>2, <2>1 DEF PeerConnects, Connection
    <3> QED
      BY <3>1
  <2>2. CASE PeerBegins(p)
    <3>1. PICK n : Alike([b EXCEPT !.owe = n])
      BY <1>2, <2>2 DEF PeerBegins, Connection
    <3> QED
      BY <3>1
  <2>3. CASE PeerSends(p)
    <3>1. \/ Alike([b EXCEPT !.sent = @ + 1, !.owe = @ - 1, !.rx = Append(@, b.sent + 1)])
          \/ Alike(Reset(b))
      BY <1>2, <2>3 DEF PeerSends, Reset, Connection
    <3> QED
      BY <3>1
  <2>4. CASE PeerReads(p)
    <3>1. Alike([b EXCEPT !.got = Append(@, Head(b.tx)), !.tx = Tail(@)])
      BY <1>2, <2>4 DEF PeerReads, Connection
    <3> QED
      BY <3>1
  <2>5. CASE PeerFinishes(p)
    <3>1. Alike([b EXCEPT !.end = "fin"])
      BY <1>2, <2>5 DEF PeerFinishes, Connection
    <3> QED
      BY <3>1
  <2>6. CASE PeerResets(p)
    <3>1. Alike(Reset(b))
      BY <1>2, <2>6 DEF PeerResets, Reset, Connection
    <3> QED
      BY <3>1
  <2> QED
    BY <1>1, <2>1, <2>2, <2>3, <2>4, <2>5, <2>6 DEF PeerStep
<1> QED
  BY <1>2, <1>3, ConnInv

-----------------------------------------------------------------------------
(* The theorems.                                                           *)

\* The invariant holds in every reachable state.
THEOREM Invariant == SafeSpec => []Inv
<1>1. Inv /\ [Next]_vars => Inv'
  <2> SUFFICES ASSUME Inv, [Next]_vars PROVE Inv'
    OBVIOUS
  <2>1. CASE UNCHANGED <<conn, slots, fdOf, batch>>
    BY <2>1 DEF Inv, Entries, Records, Events, SlotsAgree, Slots, OwnersOf
  <2>2. CASE UNCHANGED vars \/ Terminated \/ PacketArrives \/ EchoPacket
    BY <2>1, <2>2 DEF vars, serverVars, Terminated, PacketArrives, EchoPacket
  <2>3. CASE AcceptEnds \/ EchoPacketFails \/ PacketsDone \/ \E p \in Peers : RecvWouldBlock(p)
    BY <2>3, EventDoneInv DEF AcceptEnds, EchoPacketFails, PacketsDone, RecvWouldBlock
  <2>4. CASE ServerStep
    BY <2>2, <2>3, <2>4, PollReturnsInv, PollFailsInv, AcceptClientInv, HangUpInv, EndsInv,
       BytesInv DEF ServerStep
  <2> QED
    BY <2>2, <2>4, ClientStepInv DEF Next
<1> QED
  BY <1>1, InitInv, PTL DEF SafeSpec

\* clients[], the open connections and what is left of the batch name one another,
\* whatever clients come and go while the batch is handled (add_client,
\* remove_client, run_server).
THEOREM SlotsAgreeCorrect == SafeSpec => []SlotsAgree
  BY Invariant, PTL DEF Inv

-----------------------------------------------------------------------------
(* The bytes of one client.                                                *)

\* How far the bytes of the client have come back.
Delivered(c) == Len(c.got) + Len(c.tx)

\* What the client has read, what lies in its socket on the way back, what the
\* server holds and what it has not received are consecutive runs of the bytes that
\* were sent, the first to the last.  After a reset or a close only the first two
\* are left.
Flows(c, held) ==
  /\ Run(c.got, 0) /\ Run(c.tx, Len(c.got)) /\ Delivered(c) <= c.sent
  /\ c.up /\ c.end # "reset" =>
       /\ Run(held, Delivered(c))
       /\ Run(c.rx, Delivered(c) + Len(held))
       /\ c.sent = Delivered(c) + Len(held) + Len(c.rx)

\* What send_all has in hand is the current client's.
Held(p) == IF batch[Current].fd = fdOf[p] THEN buf ELSE <<>>

Bytes == /\ conn \in [Peers -> ConnType] /\ buf \in Seq(Nat)
         /\ buf # <<>> => batch # <<>> /\ batch[Current].fd \in Fds
         /\ \A p \in Peers : Flows(conn[p], Held(p))

\* The client has neither sent nor read.
Rests(c, d) == d.sent = c.sent /\ d.got = c.got

\* It has rested, sent one byte or read some.
Goes(c, d) == \/ Rests(c, d)
              \/ d.sent = c.sent + 1 /\ d.got = c.got
              \/ d.sent = c.sent /\ Len(d.got) = Len(c.got) + 1

\* The parts of a connection.
LEMMA ConnParts ==
  ASSUME NEW c \in ConnType
  PROVE  /\ c.sent \in Nat /\ c.owe \in Nat /\ c.got \in Seq(Nat) /\ c.rx \in Seq(Nat)
         /\ c.tx \in Seq(Nat) /\ c.end \in {"away", "open", "fin", "reset"} /\ c.up \in BOOLEAN
         /\ Len(c.got) \in Nat /\ Len(c.rx) \in Nat /\ Len(c.tx) \in Nat /\ Delivered(c) \in Nat
<1>1. /\ c.sent \in Nat /\ c.owe \in Nat /\ c.got \in Seq(Nat) /\ c.rx \in Seq(Nat)
      /\ c.tx \in Seq(Nat) /\ c.end \in {"away", "open", "fin", "reset"} /\ c.up \in BOOLEAN
  BY DEF ConnType
<1>2. Len(c.got) \in Nat /\ Len(c.rx) \in Nat /\ Len(c.tx) \in Nat
  BY <1>1, LenFacts
<1> DEFINE g == Len(c.got)
           t == Len(c.tx)
<1>3. Delivered(c) = g + t /\ g \in Nat /\ t \in Nat
  BY <1>2 DEF Delivered
<1> HIDE DEF g, t
<1>4. Delivered(c) \in Nat
  BY <1>3
<1> QED
  BY <1>1, <1>2, <1>4

\* What is lost by a reset or a close may be some of the last bytes.
LEMMA FlowsCut ==
  ASSUME NEW c \in ConnType, NEW d \in ConnType, NEW h \in Seq(Nat), NEW k \in Seq(Nat),
         Flows(c, h), Rests(c, d), d.tx = c.tx \/ d.tx = <<>>, ~d.up \/ d.end = "reset"
  PROVE  Flows(d, k)
<1>1. Run(d.got, 0) /\ Run(d.tx, Len(d.got))
  BY RunEmpty DEF Flows, Rests
<1>2. Delivered(d) <= d.sent
  <2> DEFINE g == Len(c.got)
             t == Len(c.tx)
             u == Len(d.tx)
             sent == c.sent
  <2>1. /\ g \in Nat /\ t \in Nat /\ u \in Nat /\ sent \in Nat
        /\ g + t <= sent /\ (u = t \/ u = 0)
    BY ConnParts, RunEmpty DEF Flows, Delivered
  <2>2. Delivered(d) = g + u /\ d.sent = sent
    BY DEF Delivered, Rests
  <2> HIDE DEF g, t, u, sent
  <2> QED
    BY <2>1, <2>2
<1> QED
  BY <1>1, <1>2 DEF Flows

\* A reset.
LEMMA ResetFacts ==
  ASSUME NEW c \in ConnType, NEW h \in Seq(Nat), Flows(c, h)
  PROVE  /\ Reset(c) \in ConnType /\ Rests(c, Reset(c)) /\ Reset(c).tx = <<>>
         /\ \A k \in Seq(Nat) : Flows(Reset(c), k)
<1> DEFINE none == <<>>
           d == [c EXCEPT !.end = "reset", !.tx = none, !.owe = 0]
<1>1. Reset(c) = d /\ none \in Seq(Nat)
  BY DEF Reset
<1> HIDE DEF none
<1>2. d \in ConnType /\ Rests(c, d) /\ d.tx = none /\ d.end = "reset"
  BY <1>1 DEF ConnType, Rests
<1> HIDE DEF d
<1>3. \A k \in Seq(Nat) : Flows(d, k)
  BY <1>2, FlowsCut DEF none
<1> QED
  BY <1>1, <1>2, <1>3 DEF none

\* close.
LEMMA ClosedFacts ==
  ASSUME NEW c \in ConnType, NEW h \in Seq(Nat), Flows(c, h)
  PROVE  /\ Closed(c) \in ConnType /\ Rests(c, Closed(c))
         /\ \A k \in Seq(Nat) : Flows(Closed(c), k)
<1> DEFINE none == <<>>
           b == IF c.rx = none THEN c ELSE Reset(c)
           d == [b EXCEPT !.up = FALSE, !.rx = none]
<1>1. b \in ConnType /\ Rests(c, b) /\ (b.tx = c.tx \/ b.tx = none)
  <2>1. Reset(c) \in ConnType /\ Rests(c, Reset(c)) /\ Reset(c).tx = none
    BY ResetFacts
  <2> QED
    BY <2>1 DEF Rests
<1>2. Closed(c) = d /\ none \in Seq(Nat)
  BY DEF Closed
<1> HIDE DEF b, none
<1>3. d \in ConnType /\ Rests(b, d) /\ d.tx = b.tx /\ d.up = FALSE
  BY <1>1, <1>2 DEF ConnType, Rests
<1> HIDE DEF d
<1>4. \A k \in Seq(Nat) : Flows(d, k)
  BY <1>1, <1>3, FlowsCut DEF Rests, none
<1> QED
  BY <1>1, <1>2, <1>3, <1>4 DEF Rests

\* recv moves the first n bytes from the socket to the chunk.
LEMMA ReceivedFacts ==
  ASSUME NEW c \in ConnType, NEW n \in 0..Len(c.rx), Flows(c, <<>>)
  PROVE  /\ Received(c, n) \in ConnType /\ Rests(c, Received(c, n))
         /\ FirstOf(c.rx, n) \in Seq(Nat)
         /\ Flows(Received(c, n), FirstOf(c.rx, n))
<1> DEFINE f == FirstOf(c.rx, n)
           r == RestOf(c.rx, n)
           d == [c EXCEPT !.rx = r]
           m == Delivered(c)
           x == Len(c.rx)
<1>1. /\ f \in Seq(Nat) /\ Len(f) = n /\ r \in Seq(Nat) /\ Len(r) = x - n
      /\ x \in Nat /\ m \in Nat
  BY ConnParts, FirstFacts, RestFacts DEF FirstOf, RestOf
<1>2. Received(c, n) = d
  BY DEF Received
<1>3. ASSUME c.up, c.end # "reset"
      PROVE  Run(f, m) /\ Run(r, m + n) /\ c.sent = m + n + Len(r)
  <2>1. Run(c.rx, m) /\ c.sent = m + x
    <3>1. Run(c.rx, m + 0) /\ c.sent = m + 0 + x
      BY <1>3, RunEmpty DEF Flows
    <3> HIDE DEF m, x
    <3> QED
      BY <1>1, <3>1
  <2>2. Run(f, m) /\ Run(r, m + n)
    BY <1>1, <2>1, ConnParts, RunSplit DEF FirstOf, RestOf
  <2> DEFINE l == Len(r)
  <2>3. l = x - n /\ x \in Nat /\ m \in Nat /\ n \in 0..x
    BY <1>1
  <2> HIDE DEF f, r, m, x, l
  <2>4. m + n + l = m + x
    BY <2>3
  <2> QED
    BY <2>1, <2>2, <2>4 DEF l
<1> HIDE DEF r, f
<1>4. /\ d \in ConnType /\ Rests(c, d) /\ d.rx = r /\ d.tx = c.tx
      /\ d.end = c.end /\ d.up = c.up
  BY <1>1 DEF ConnType, Rests
<1> HIDE DEF d
<1>5. Delivered(d) = Delivered(c) /\ d.sent = c.sent /\ d.got = c.got
  BY <1>4 DEF Delivered, Rests
<1>6. Flows(d, f)
  BY <1>1, <1>3, <1>4, <1>5 DEF Flows
<1> QED
  BY <1>1, <1>2, <1>4, <1>6 DEF f

\* send moves the first n bytes of the chunk to the socket.
LEMMA SentToFacts ==
  ASSUME NEW c \in ConnType, NEW h \in Seq(Nat), NEW n \in 0..Len(h), Flows(c, h),
         c.up, c.end # "reset"
  PROVE  /\ SentTo(c, FirstOf(h, n)) \in ConnType /\ Rests(c, SentTo(c, FirstOf(h, n)))
         /\ RestOf(h, n) \in Seq(Nat)
         /\ Flows(SentTo(c, FirstOf(h, n)), RestOf(h, n))
<1> DEFINE f == FirstOf(h, n)
           r == RestOf(h, n)
           s == c.tx \o f
           d == [c EXCEPT !.tx = s]
           m == Delivered(c)
           g == Len(c.got)
           t == Len(c.tx)
           l == Len(h)
           x == Len(c.rx)
           sent == c.sent
<1>1. /\ f \in Seq(Nat) /\ Len(f) = n /\ r \in Seq(Nat) /\ Len(r) = l - n
      /\ l \in Nat /\ x \in Nat /\ g \in Nat /\ t \in Nat /\ m = g + t /\ sent \in Nat
  BY ConnParts, FirstFacts, RestFacts, LenFacts DEF FirstOf, RestOf, Delivered
<1>2. Run(f, m) /\ Run(r, m + n) /\ Run(c.rx, m + l) /\ sent = m + l + x
  BY ConnParts, RunSplit DEF Flows, FirstOf, RestOf
<1>3. Run(s, g) /\ s \in Seq(Nat) /\ Len(s) = t + n
  <2>1. Run(c.tx, g) /\ c.tx \in Seq(Nat)
    BY ConnParts DEF Flows
  <2>2. Run(f, g + t)
    BY <1>1, <1>2
  <2> HIDE DEF f, g
  <2> QED
    BY <1>1, <2>1, <2>2, RunConcat
<1>4. SentTo(c, f) = d
  BY DEF SentTo
<1> HIDE DEF s
<1>5. /\ d \in ConnType /\ Rests(c, d) /\ d.rx = c.rx /\ d.tx = s
      /\ d.end = c.end /\ d.up = c.up
  BY <1>3 DEF ConnType, Rests
<1> HIDE DEF d
<1>6. Delivered(d) = g + Len(s) /\ d.sent = sent /\ d.got = c.got
  BY <1>5 DEF Delivered, Rests
<1>9. Run(c.got, 0)
  BY DEF Flows
<1> HIDE DEF f, r, m, g, t, l, x, sent
<1>7. /\ Delivered(d) = m + n /\ m + n <= sent /\ m + n + Len(r) = m + l
      /\ sent = m + n + Len(r) + x
  BY <1>1, <1>2, <1>3, <1>6
<1>8. Flows(d, r)
  BY <1>1, <1>2, <1>3, <1>5, <1>6, <1>7, <1>9 DEF Flows, g, x
<1> QED
  BY <1>1, <1>4, <1>5, <1>8 DEF f, r

\* A step after which everything lies where it was.
LEMMA FlowsKept ==
  ASSUME NEW c \in ConnType, NEW d \in ConnType, NEW h, Flows(c, h), Rests(c, d),
         d.rx = c.rx, d.tx = c.tx, d.up = c.up, d.end # "reset" => c.end # "reset"
  PROVE  Flows(d, h)
  BY DEF Flows, Rests, Delivered

\* The client sends the next byte.
LEMMA ClientSendsFacts ==
  ASSUME NEW c \in ConnType, NEW h \in Seq(Nat), Flows(c, h), c.owe > 0
  PROVE  LET d == [c EXCEPT !.sent = @ + 1, !.owe = @ - 1, !.rx = Append(@, c.sent + 1)]
         IN  d \in ConnType /\ Goes(c, d) /\ Flows(d, h)
<1> DEFINE sent == c.sent
           y == sent + 1
           w == c.owe - 1
           r == Append(c.rx, y)
           d == [c EXCEPT !.sent = y, !.owe = w, !.rx = r]
           m == Delivered(c)
           l == Len(h)
           x == Len(c.rx)
<1>1. /\ sent \in Nat /\ y \in Nat /\ w \in Nat /\ r \in Seq(Nat)
      /\ m \in Nat /\ l \in Nat /\ x \in Nat /\ m <= sent /\ Run(c.got, 0)
  <2>1. sent \in Nat /\ c.owe \in Nat /\ c.rx \in Seq(Nat) /\ m \in Nat /\ l \in Nat /\ x \in Nat
    BY ConnParts, LenFacts
  <2>2. m <= sent /\ Run(c.got, 0)
    BY DEF Flows
  <2> HIDE DEF m, l, x
  <2> QED
    BY <2>1, <2>2, AppendProperties
<1>2. ASSUME c.up, c.end # "reset"
      PROVE  Run(h, m) /\ Run(r, m + l) /\ y = m + l + Len(r)
  <2>1. Run(h, m) /\ Run(c.rx, m + l) /\ sent = m + l + x /\ c.rx \in Seq(Nat)
    BY <1>2, ConnParts DEF Flows
  <2> DEFINE k == m + l
  <2>2. k \in Nat /\ y = k + x + 1
    <3> HIDE DEF m, l, x, sent
    <3> QED
      BY <1>1, <2>1
  <2> HIDE DEF y, k
  <2>3. Run(r, k) /\ Len(r) = x + 1
    BY <1>1, <2>1, <2>2, RunAppend DEF k
  <2> HIDE DEF x, r
  <2> QED
    BY <1>1, <2>1, <2>2, <2>3 DEF k
<1> HIDE DEF r, w, y
<1>3. /\ d \in ConnType /\ d.sent = y /\ d.got = c.got /\ d.rx = r /\ d.tx = c.tx
      /\ d.end = c.end /\ d.up = c.up
  BY <1>1 DEF ConnType
<1> HIDE DEF d
<1>4. Goes(c, d)
  BY <1>3 DEF Goes, y
<1>5. Delivered(d) = m /\ m <= y
  <2>1. Delivered(d) = m
    BY <1>3 DEF Delivered
  <2> HIDE DEF m, sent
  <2> QED
    BY <1>1, <2>1 DEF y
<1>6. Flows(d, h)
  BY <1>1, <1>2, <1>3, <1>5 DEF Flows
<1> QED
  BY <1>3, <1>4, <1>6 DEF d, r, w, y

\* It reads the next one.
LEMMA ClientReadsFacts ==
  ASSUME NEW c \in ConnType, NEW h \in Seq(Nat), Flows(c, h), c.tx # <<>>
  PROVE  LET d == [c EXCEPT !.got = Append(@, Head(c.tx)), !.tx = Tail(@)]
         IN  d \in ConnType /\ Goes(c, d) /\ Flows(d, h)
<1> DEFINE y == Head(c.tx)
           g == Append(c.got, y)
           t == Tail(c.tx)
           d == [c EXCEPT !.got = g, !.tx = t]
           n == Len(c.got)
<1>1. /\ n \in Nat /\ c.got \in Seq(Nat) /\ c.tx \in Seq(Nat) /\ Len(c.tx) \in Nat
      /\ Run(c.got, 0) /\ Run(c.tx, n) /\ Delivered(c) = n + Len(c.tx)
  BY ConnParts DEF Flows, Delivered
<1>2. /\ y = n + 1 /\ Run(t, n + 1) /\ t \in Seq(Nat) /\ Len(t) = Len(c.tx) - 1
  BY <1>1, RunTail
<1>3. Run(g, 0) /\ g \in Seq(Nat) /\ Len(g) = n + 1
  <2>1. y \in Nat /\ y = 0 + n + 1
    <3> HIDE DEF y, n
    <3> QED
      BY <1>1, <1>2
  <2> HIDE DEF y
  <2> QED
    BY <1>1, <2>1, RunAppend
<1> HIDE DEF g, t, y
<1>4. /\ d \in ConnType /\ d.sent = c.sent /\ d.got = g /\ d.rx = c.rx /\ d.tx = t
      /\ d.end = c.end /\ d.up = c.up
  BY <1>2, <1>3 DEF ConnType
<1> HIDE DEF d
<1>5. Goes(c, d)
  BY <1>3, <1>4 DEF Goes
<1>6. Delivered(d) = Delivered(c)
  <2> DEFINE u == Len(c.tx)
             m == Delivered(c)
  <2>1. Delivered(d) = Len(g) + Len(t)
    BY <1>4 DEF Delivered
  <2>2. Len(g) = n + 1 /\ Len(t) = u - 1 /\ m = n + u /\ n \in Nat /\ u \in Nat
    BY <1>1, <1>2, <1>3
  <2> HIDE DEF u, m, n
  <2>3. (n + 1) + (u - 1) = m
    BY <2>2
  <2> QED
    BY <2>1, <2>2, <2>3 DEF m
<1>7. Flows(d, h)
  BY <1>2, <1>3, <1>4, <1>6 DEF Flows
<1> QED
  BY <1>4, <1>5, <1>7 DEF d, g, t, y

\* What a peer can do to its connection.
LEMMA PeerFacts ==
  ASSUME NEW p \in Peers, conn \in [Peers -> ConnType], PeerStep(p) \/ PeerConnects(p),
         NEW h \in Seq(Nat), Flows(conn[p], h)
  PROVE  \E d \in ConnType : conn' = [conn EXCEPT ![p] = d] /\ Goes(conn[p], d) /\ Flows(d, h)
<1> DEFINE c == conn[p]
           Can(d) == d \in ConnType /\ conn' = [conn EXCEPT ![p] = d] /\ Goes(c, d) /\ Flows(d, h)
<1>1. c \in ConnType
  OBVIOUS
<1>2. ASSUME NEW d \in ConnType, conn' = [conn EXCEPT ![p] = d],
             Rests(c, d), d.rx = c.rx, d.tx = c.tx, d.up = c.up, c.end # "reset"
      PROVE  Can(d)
  BY <1>1, <1>2, FlowsKept DEF Goes
<1>3. ASSUME conn' = [conn EXCEPT ![p] = Reset(c)] PROVE Can(Reset(c))
  BY <1>1, <1>3, ResetFacts DEF Goes
<1>4. CASE PeerConnects(p)
  <2> DEFINE d == [c EXCEPT !.end = "open"]
  <2>1. conn' = [conn EXCEPT ![p] = d] /\ c.end = "away"
    BY <1>4 DEF PeerConnects
  <2>2. d \in ConnType /\ Rests(c, d) /\ d.rx = c.rx /\ d.tx = c.tx /\ d.up = c.up
    <3> HIDE DEF c
    <3> QED
      BY <1>1 DEF ConnType, Rests
  <2> QED
    BY <1>2, <2>1, <2>2
<1>5. CASE PeerBegins(p)
  <2>1. PICK n \in 1..(MaxBytes[p] - c.sent) : conn' = [conn EXCEPT ![p].owe = n]
    BY <1>5 DEF PeerBegins
  <2>2. n \in Nat /\ c.end = "open"
    BY <1>1, <1>5, PeerBytesAssumption DEF PeerBegins, ConnType
  <2> DEFINE d == [c EXCEPT !.owe = n]
  <2>3. conn' = [conn EXCEPT ![p] = d]
    BY <2>1
  <2>4. d \in ConnType /\ Rests(c, d) /\ d.rx = c.rx /\ d.tx = c.tx /\ d.up = c.up
    <3> HIDE DEF c
    <3> QED
      BY <1>1, <2>2 DEF ConnType, Rests
  <2> QED
    BY <1>2, <2>2, <2>3, <2>4
<1>6. CASE PeerFinishes(p)
  <2> DEFINE d == [c EXCEPT !.end = "fin"]
  <2>1. conn' = [conn EXCEPT ![p] = d] /\ c.end = "open"
    BY <1>6 DEF PeerFinishes
  <2>2. d \in ConnType /\ Rests(c, d) /\ d.rx = c.rx /\ d.tx = c.tx /\ d.up = c.up
    <3> HIDE DEF c
    <3> QED
      BY <1>1 DEF ConnType, Rests
  <2> QED
    BY <1>2, <2>1, <2>2
<1>7. CASE PeerResets(p)
  BY <1>3, <1>7 DEF PeerResets
<1>8. CASE PeerSends(p)
  <2> DEFINE d == [c EXCEPT !.sent = @ + 1, !.owe = @ - 1, !.rx = Append(@, c.sent + 1)]
  <2>1. c.owe > 0 /\ (conn' = [conn EXCEPT ![p] = d] \/ conn' = [conn EXCEPT ![p] = Reset(c)])
    BY <1>8 DEF PeerSends
  <2>2. d \in ConnType /\ Goes(c, d) /\ Flows(d, h)
    <3> HIDE DEF c
    <3> QED
      BY <1>1, <2>1, ClientSendsFacts DEF c
  <2> QED
    BY <1>3, <2>1, <2>2
<1>9. CASE PeerReads(p)
  <2> DEFINE d == [c EXCEPT !.got = Append(@, Head(c.tx)), !.tx = Tail(@)]
  <2>1. c.tx # <<>> /\ conn' = [conn EXCEPT ![p] = d]
    BY <1>9 DEF PeerReads
  <2>2. d \in ConnType /\ Goes(c, d) /\ Flows(d, h)
    BY <1>1, <2>1, ClientReadsFacts
  <2> QED
    BY <2>1, <2>2
<1> QED
  BY <1>4, <1>5, <1>6, <1>7, <1>8, <1>9 DEF PeerStep

-----------------------------------------------------------------------------
(* The steps and the bytes.                                                *)

\* A chunk that is held.
LEMMA HeldFacts ==
  ASSUME Inv, Bytes
  PROVE  /\ \A p \in Peers : Held(p) \in Seq(Nat) /\ (buf = <<>> => Held(p) = <<>>)
         /\ \A fd : Handles(fd) /\ fd \in {TcpFd, UdpFd} => buf = <<>>
<1>1. \A p \in Peers : Held(p) \in Seq(Nat) /\ (buf = <<>> => Held(p) = <<>>)
  BY RunEmpty DEF Held, Bytes
<1>2. \A fd : Handles(fd) /\ fd \in {TcpFd, UdpFd} => buf = <<>>
  BY FdFacts DEF Handles, Bytes
<1> QED
  BY <1>1, <1>2

\* The client whose event is handled: it alone has the descriptor.
LEMMA CurrentClient ==
  ASSUME Inv, NEW p \in Peers, Handles(fdOf[p])
  PROVE  fdOf[p] \in Fds /\ conn[p].up /\ \A r \in Peers : fdOf[r] = fdOf[p] => r = p
<1>1. fdOf[p] = batch[Current].fd /\ Current \in DOMAIN batch
  BY CurrentFacts DEF Handles
<1>2. fdOf[p] # NoFd
  BY <1>1, FdFacts DEF Inv, Events
<1>3. PICK i \in Slots : slots[i] = fdOf[p]
  BY <1>2 DEF Inv, SlotsAgree
<1>4. PICK q \in Peers : OwnersOf(fdOf[p]) = {q}
  BY <1>2, <1>3 DEF Inv, SlotsAgree
<1>5. \A x \in Peers : fdOf[x] = fdOf[p] => x = q
  BY <1>4 DEF OwnersOf
<1> QED
  BY <1>2, <1>5 DEF Inv, Entries, SlotsAgree

\* A step that leaves the connections alone.
LEMMA BytesKept ==
  ASSUME Inv, Bytes, UNCHANGED conn,
         (buf = <<>> /\ buf' = <<>>) \/ UNCHANGED <<batch, fdOf, buf>>
  PROVE  Bytes' /\ \A p \in Peers : Goes(conn[p], conn'[p])
<1>1. \A p \in Peers : Held(p)' = Held(p)
  <2>1. CASE buf = <<>> /\ buf' = <<>>
    BY <2>1 DEF Held
  <2>2. CASE UNCHANGED <<batch, fdOf, buf>>
    BY <2>2 DEF Held, Current
  <2> QED
    BY <2>1, <2>2
<1>2. \A p \in Peers : Flows(conn[p], Held(p))'
  BY <1>1 DEF Bytes, Flows, Delivered
<1>3. buf' \in Seq(Nat) /\ (buf' # <<>> => batch' # <<>> /\ batch'[Current'].fd \in Fds)
  BY DEF Bytes, Current
<1> QED
  BY <1>2, <1>3 DEF Bytes, Goes, Rests

\* A step that ends with nothing held, and closes every connection for which
\* something was.
LEMMA BytesCut ==
  ASSUME Inv, Bytes, buf' = <<>>, DOMAIN conn' = Peers, conn' = [p \in Peers |-> conn'[p]],
         \A p \in Peers : conn'[p] = Closed(conn[p]) \/ (conn'[p] = conn[p] /\ Held(p) = <<>>)
  PROVE  Bytes' /\ \A p \in Peers : Goes(conn[p], conn'[p])
<1>1. \A p \in Peers : Held(p)' = <<>>
  BY DEF Held
<1>2. ASSUME NEW p \in Peers
      PROVE  conn'[p] \in ConnType /\ Goes(conn[p], conn'[p]) /\ Flows(conn'[p], <<>>)
  <2>1. conn[p] \in ConnType /\ Flows(conn[p], Held(p)) /\ Held(p) \in Seq(Nat)
    BY HeldFacts DEF Bytes
  <2>2. CASE conn'[p] = Closed(conn[p])
    BY <2>1, <2>2, ClosedFacts, RunEmpty DEF Goes
  <2>3. CASE conn'[p] = conn[p] /\ Held(p) = <<>>
    BY <2>1, <2>3 DEF Goes, Rests
  <2> QED
    BY <2>2, <2>3
<1>3. \A p \in Peers : Flows(conn[p], Held(p))'
  BY <1>1, <1>2 DEF Flows, Delivered
<1>4. conn' \in [Peers -> ConnType] /\ buf' \in Seq(Nat)
  BY <1>2, RunEmpty
<1> QED
  BY <1>2, <1>3, <1>4 DEF Bytes

\* A step of one connection: the client's, or the server's recv or send.
LEMMA BytesOfOne ==
  ASSUME Inv, Bytes, NEW p \in Peers, NEW d \in ConnType, conn' = [conn EXCEPT ![p] = d],
         UNCHANGED <<batch, fdOf>>, buf' = buf \/ (Handles(fdOf[p]) /\ buf' \in Seq(Nat)),
         Goes(conn[p], d), Flows(d, Held(p)')
  PROVE  Bytes' /\ \A r \in Peers : Goes(conn[r], conn'[r])
<1>1. conn' \in [Peers -> ConnType] /\ conn'[p] = d /\ \A r \in Peers : r # p => conn'[r] = conn[r]
  BY DEF Bytes
<1>2. \A r \in Peers : r # p => Held(r)' = Held(r)
  <2>1. CASE buf' = buf
    BY <2>1 DEF Held, Current
  <2>2. CASE Handles(fdOf[p])
    <3>1. \A r \in Peers : fdOf[r] = fdOf[p] => r = p
      BY <2>2, CurrentClient
    <3>2. \A r \in Peers : r # p => batch[Current].fd # fdOf[r]
      BY <2>2, <3>1 DEF Handles
    <3> QED
      BY <3>2 DEF Held, Current
  <2> QED
    BY <2>1, <2>2
<1>3. ASSUME NEW r \in Peers PROVE Flows(conn[r], Held(r))' /\ Goes(conn[r], conn'[r])
  <2>1. CASE r = p
    BY <1>1, <2>1 DEF Flows, Delivered
  <2>2. CASE r # p
    <3>1. conn'[r] = conn[r] /\ Held(r)' = Held(r) /\ Flows(conn[r], Held(r))
      BY <1>1, <1>2, <2>2 DEF Bytes
    <3> QED
      BY <3>1 DEF Flows, Delivered, Goes, Rests
  <2> QED
    BY <2>1, <2>2
<1>4. buf' \in Seq(Nat) /\ (buf' # <<>> => batch' # <<>> /\ batch'[Current'].fd \in Fds)
  <2>1. CASE buf' = buf
    BY <2>1 DEF Bytes, Current
  <2>2. CASE Handles(fdOf[p]) /\ buf' \in Seq(Nat)
    <3>1. fdOf[p] \in Fds
      BY <2>2, CurrentClient
    <3> QED
      BY <2>2, <3>1 DEF Handles, Current
  <2> QED
    BY <2>1, <2>2
<1> QED
  BY <1>1, <1>3, <1>4 DEF Bytes

\* recv and send for the current client.
LEMMA ServesInv ==
  ASSUME Inv, Bytes, NEW p \in Peers, RecvData(p) \/ SendData(p)
  PROVE  Bytes' /\ \A r \in Peers : Goes(conn[r], conn'[r])
<1> DEFINE c == conn[p]
<1>1. /\ Handles(fdOf[p]) /\ UNCHANGED <<batch, fdOf>> /\ Held(p) = buf /\ Held(p)' = buf'
      /\ buf \in Seq(Nat) /\ c \in ConnType /\ Flows(c, buf) /\ c.up
  <2>1. Handles(fdOf[p]) /\ UNCHANGED <<batch, fdOf>>
    BY DEF RecvData, SendData, Receives, Sends
  <2>2. Held(p) = buf /\ Held(p)' = buf'
    BY <2>1 DEF Held, Handles, Current
  <2>3. c.up
    BY <2>1, CurrentClient
  <2>4. buf \in Seq(Nat) /\ c \in ConnType /\ Flows(c, buf)
    BY <2>2 DEF Bytes
  <2> QED
    BY <2>1, <2>2, <2>3, <2>4
<1>2. CASE RecvData(p)
  <2> DEFINE n == Smaller(IoBufSize, Len(c.rx))
             d == Received(c, n)
             f == FirstOf(c.rx, n)
  <2>1. buf = <<>> /\ buf' = f /\ conn' = [conn EXCEPT ![p] = d]
    BY <1>2 DEF RecvData, Receives
  <2>2. n \in 0..Len(c.rx)
    <3> DEFINE x == Len(c.rx)
    <3>1. x \in Nat
      BY <1>1, ConnParts
    <3> HIDE DEF x
    <3>2. Smaller(IoBufSize, x) \in 0..x
      BY <3>1, SlotsAssumption DEF Smaller
    <3> QED
      BY <3>2 DEF x
  <2> HIDE DEF n, c
  <2>3. d \in ConnType /\ Goes(c, d) /\ Flows(d, f) /\ f \in Seq(Nat)
    BY <1>1, <2>1, <2>2, ReceivedFacts DEF Goes
  <2> HIDE DEF d, f
  <2> QED
    BY <1>1, <2>1, <2>3, BytesOfOne DEF c
<1>3. CASE SendData(p)
  <2>1. PICK n \in 1..Smaller(Len(buf), Room(c)) :
          conn' = [conn EXCEPT ![p] = SentTo(c, FirstOf(buf, n))] /\ buf' = RestOf(buf, n)
    BY <1>3 DEF SendData, RestToSend
  <2>2. n \in 0..Len(buf)
    <3> DEFINE x == Len(buf)
               y == Room(c)
    <3>1. x \in Nat /\ y \in Int
      <4>1. x \in Nat /\ Len(c.tx) \in Nat
        BY <1>1, ConnParts, LenFacts
      <4> QED
        BY <4>1, PeerBufferAssumption DEF Room
    <3> HIDE DEF x, y
    <3>2. n \in 1..Smaller(x, y)
      BY DEF x, y
    <3>3. n \in 0..x
      BY <3>1, <3>2 DEF Smaller
    <3> QED
      BY <3>3 DEF x
  <2> DEFINE d == SentTo(c, FirstOf(buf, n))
             f == RestOf(buf, n)
  <2>3. c.end # "reset"
    BY <1>3 DEF SendData
  <2> HIDE DEF c
  <2>4. d \in ConnType /\ Goes(c, d) /\ Flows(d, f) /\ f \in Seq(Nat)
    BY <1>1, <2>2, <2>3, SentToFacts DEF Goes
  <2>5. conn' = [conn EXCEPT ![p] = d] /\ buf' = f
    BY <2>1
  <2> HIDE DEF d, f
  <2> QED
    BY <1>1, <2>4, <2>5, BytesOfOne DEF c
<1> QED
  BY <1>2, <1>3

\* The current client is removed.
LEMMA RemovesInv ==
  ASSUME Inv, Bytes, RemoveClient
  PROVE  Bytes' /\ \A p \in Peers : Goes(conn[p], conn'[p])
<1> DEFINE removed == {p \in OwnersOf(slots[Current]) : slots[Current] # NoFd}
<1>1. /\ buf' = <<>>
      /\ conn' = [p \in Peers |-> IF p \in removed THEN Closed(conn[p]) ELSE conn[p]]
  BY DEF RemoveClient
<1>2. \A p \in Peers : p \notin removed => Held(p) = <<>>
  <2> SUFFICES ASSUME NEW p \in Peers, Held(p) # <<>> PROVE p \in removed
    OBVIOUS
  <2>1. batch # <<>> /\ batch[Current].fd = fdOf[p]
    BY DEF Held, Bytes
  <2> QED
    BY <2>1, RemovedFacts DEF OwnersOf
<1> HIDE DEF removed
<1> QED
  BY <1>1, <1>2, BytesCut

\* A client is accepted or turned away.
LEMMA AcceptsInv ==
  ASSUME Inv, Bytes, AcceptClient
  PROVE  Bytes' /\ \A p \in Peers : Goes(conn[p], conn'[p])
<1>1. buf = <<>> /\ buf' = <<>>
  BY HeldFacts DEF AcceptClient
<1>2. CASE UNCHANGED conn
  BY <1>1, <1>2, BytesKept
<1>3. CASE \E p \in Queued : conn' = [conn EXCEPT ![p] = Closed(conn[p])]
  <2>1. PICK p \in Queued : conn' = [conn EXCEPT ![p] = Closed(conn[p])]
    BY <1>3
  <2>2. DOMAIN conn = Peers /\ \A r \in Peers : Held(r) = <<>>
    BY <1>1, HeldFacts DEF Inv, Records
  <2>3. \A r \in Peers : conn'[r] = Closed(conn[r]) \/ conn'[r] = conn[r]
    BY <2>1, <2>2
  <2> QED
    BY <1>1, <2>1, <2>2, <2>3, BytesCut
<1> QED
  BY <1>2, <1>3 DEF AcceptClient, TurnedAway

\* The loop ends.
LEMMA EndsWithNothing ==
  ASSUME Inv, Bytes, PollFails
  PROVE  Bytes' /\ \A p \in Peers : Goes(conn[p], conn'[p])
<1>1. buf = <<>> /\ buf' = <<>>
  BY DEF PollFails, Bytes
<1>2. conn' = [p \in Peers |-> IF conn[p].up THEN Closed(conn[p]) ELSE conn[p]]
  BY DEF PollFails
<1>3. \A p \in Peers : Held(p) = <<>>
  BY <1>1, HeldFacts
<1> QED
  BY <1>1, <1>2, <1>3, BytesCut

\* A client acts.
LEMMA ClientsInv ==
  ASSUME Inv, Bytes, ClientStep
  PROVE  Bytes' /\ \A p \in Peers : Goes(conn[p], conn'[p])
<1>1. PICK p \in Peers : PeerStep(p) \/ PeerConnects(p)
  BY DEF ClientStep
<1>2. UNCHANGED <<batch, fdOf, buf>> /\ Held(p)' = Held(p)
  BY DEF ClientStep, serverVars, Held, Current
<1>3. conn \in [Peers -> ConnType] /\ Held(p) \in Seq(Nat) /\ Flows(conn[p], Held(p))
  BY HeldFacts DEF Bytes
<1>4. PICK d \in ConnType : conn' = [conn EXCEPT ![p] = d] /\ Goes(conn[p], d) /\ Flows(d, Held(p))
  BY <1>1, <1>3, PeerFacts
<1> QED
  BY <1>2, <1>4, BytesOfOne

\* Every step keeps the order of the bytes, and each client has at most sent one
\* byte or read some.
LEMMA BytesStep ==
  ASSUME Inv, Bytes, [Next]_vars
  PROVE  Bytes' /\ \A p \in Peers : Goes(conn[p], conn'[p])
<1>1. CASE PollReturns
  <2>1. buf = <<>> /\ buf' = <<>> /\ UNCHANGED conn
    BY <1>1 DEF PollReturns, Bytes
  <2> QED
    BY <2>1, BytesKept
<1>2. CASE AcceptEnds \/ EchoPacketFails \/ PacketsDone \/ \E p \in Peers : RecvWouldBlock(p)
  <2>1. buf = <<>> /\ buf' = <<>> /\ UNCHANGED conn
    BY <1>2, HeldFacts DEF AcceptEnds, EchoPacketFails, PacketsDone, RecvWouldBlock, Receives
  <2> QED
    BY <2>1, BytesKept
<1>3. CASE UNCHANGED vars \/ Terminated \/ PacketArrives \/ EchoPacket
  <2>1. UNCHANGED <<conn, batch, fdOf, buf>>
    BY <1>3 DEF vars, serverVars, Terminated, PacketArrives, EchoPacket
  <2> QED
    BY <2>1, BytesKept
<1>4. CASE HangUp \/ \E p \in Peers : RecvEnds(p) \/ SendFails(p)
  BY <1>4, RemovesInv DEF HangUp, RecvEnds, SendFails
<1> QED
  BY <1>1, <1>2, <1>3, <1>4, AcceptsInv, EndsWithNothing, ServesInv, ClientsInv
     DEF Next, ServerStep

-----------------------------------------------------------------------------
(* Each client is served as a byte stream.                                 *)

Stream(p) == INSTANCE ByteStream WITH written <- conn[p].sent,
                                      got <- conn[p].got,
                                      flowing <- Flowing(p)

\* A connection that goes on is a byte stream that goes on.
LEMMA GoesAsStream ==
  ASSUME NEW p \in Peers, Inv, Bytes, [Next]_vars
  PROVE  [Stream(p)!Next]_(Stream(p)!vars)
<1> DEFINE c == conn[p]
           d == conn'[p]
<1>1. Bytes' /\ Goes(c, d)
  BY BytesStep
<1>2. Flowing(p) \in BOOLEAN /\ Flowing(p)' \in BOOLEAN
  BY DEF Flowing
<1>3. d \in ConnType /\ Run(d.got, 0) /\ Delivered(d) <= d.sent
  <2>1. d \in ConnType /\ Flows(d, Held(p)')
    <3>1. d \in ConnType /\ Flows(conn[p], Held(p))'
      BY <1>1 DEF Bytes
    <3> QED
      BY <3>1 DEF Flows, Delivered
  <2> QED
    BY <2>1 DEF Flows
<1>4. CASE Rests(c, d)
  BY <1>2, <1>4 DEF Rests, Stream!Next, Stream!Change, Stream!vars
<1>5. CASE d.sent = c.sent + 1 /\ d.got = c.got
  BY <1>2, <1>5 DEF Stream!Next, Stream!Write
<1>6. CASE d.sent = c.sent /\ Len(d.got) = Len(c.got) + 1
  <2>1. d.got = [i \in 1..Len(d.got) |-> i]
    BY <1>3, ConnParts, FirstNumbers
  <2>2. Len(d.got) \in (Len(c.got) + 1)..c.sent
    <3> DEFINE g == Len(d.got)
               t == Len(d.tx)
               n == Len(c.got)
               sent == d.sent
    <3>1. g \in Nat /\ t \in Nat /\ sent \in Nat /\ g + t <= sent
      BY <1>3, ConnParts DEF Delivered
    <3>2. c.sent = sent /\ g = n + 1
      BY <1>6
    <3> HIDE DEF g, t, sent, n
    <3>3. g \in g..sent
      BY <3>1
    <3> QED
      BY <3>2, <3>3 DEF g, n
  <2> QED
    BY <1>2, <1>6, <2>1, <2>2 DEF Stream!Next, Stream!Read
<1> QED
  BY <1>1, <1>4, <1>5, <1>6 DEF Goes

\* Whatever the other clients do, each client gets back what it sent: every byte at
\* most once, in order, and never more than it has sent (handle_tcp_client, send_all,
\* add_client, remove_client).
THEOREM ClientIsStream ==
  ASSUME NEW p \in Peers
  PROVE  SafeSpec => Stream(p)!SafeSpec
<1>1. Init => Bytes
  <2> SUFFICES ASSUME Init PROVE Bytes
    OBVIOUS
  <2> DEFINE none == <<>>
             c == [sent |-> 0, owe |-> 0, got |-> none, rx |-> none, tx |-> none,
                   end |-> "away", up |-> TRUE]
  <2>1. conn = [r \in Peers |-> c] /\ buf = none
    BY DEF Init, Connection
  <2>2. none \in Seq(Nat) /\ Len(none) = 0 /\ \A m : Run(none, m)
    BY RunEmpty
  <2>3. \A r \in Peers : Held(r) = none
    BY <2>1 DEF Held
  <2> HIDE DEF none
  <2>4. c \in ConnType
    BY <2>2 DEF ConnType
  <2>5. Flows(c, none)
    BY <2>2 DEF Flows, Delivered
  <2> HIDE DEF c
  <2> QED
    BY <2>1, <2>2, <2>3, <2>4, <2>5 DEF Bytes, none
<1>2. Inv /\ Bytes /\ [Next]_vars => Bytes'
  BY BytesStep
<1>3. Init => Stream(p)!Init
  BY DEF Init, Connection, Stream!Init, Flowing
<1>4. Inv /\ Bytes /\ [Next]_vars => [Stream(p)!Next]_(Stream(p)!vars)
  BY GoesAsStream
<1> QED
  BY <1>1, <1>2, <1>3, <1>4, Invariant, PTL DEF SafeSpec, Stream!SafeSpec
=============================================================================

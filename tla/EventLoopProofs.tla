--------------------------- MODULE EventLoopProofs ---------------------------
(***************************************************************************)
(* Proofs about EventLoop, for every set of listeners, clients and         *)
(* addresses, every limit of descriptors and every idle limit.  Inv is the *)
(* inductive invariant.                                                    *)
(***************************************************************************)
EXTENDS EventLoop, BasicFacts

\* The listeners and epoll have the descriptors the main thread has noted.
Descriptors ==
  /\ \A l \in Listeners : listenFd[l] # NoFd => sock[listenFd[l]] = l
  /\ epollfd # NoFd => sock[epollfd] = "epoll"

\* The list holds the registered connections, each once.
Listed == Elements(conns) = live \ {newConn} /\ Distinct(conns)

\* The epoll set holds the registered listeners and connections.
Watched == {l \in Listeners : listenFd[l] \notin {NoFd, newFd}}
Registered ==
  phase # "done" =>
    interest = {<<listenFd[l], l>> : l \in Watched}
               \cup {<<conn[a].fd, a>> : a \in live \ {newConn}}

\* What the position of the main thread says of the rest.
Accepting == {"accept", "accepted", "allocated"}
Control ==
  /\ batch # {} => phase \in Accepting \cup {"batch"}
  /\ phase \in Accepting \cup {"opened", "noted"} => channel \in Listeners
  /\ phase = "create" => epollfd = NoFd

\* Between accept or socket and addfd, the new descriptor refers to the new
\* socket and has no other owner; at other times there is none.
SettingUp == {"opened", "noted", "accepted", "allocated"}
NewSocket ==
  /\ (newFd # NoFd) = (phase \in SettingUp)
  /\ (newConn # NULL) = (phase = "allocated")
  /\ phase \in {"opened", "noted"} => sock[newFd] = channel
  /\ phase = "opened" => listenFd[channel] = NoFd
  /\ phase = "noted" => listenFd[channel] = newFd
  /\ phase \in {"accepted", "allocated"} => sock[newFd] \in Clients
  /\ phase = "accepted" => \A a \in live : conn[a].fd # newFd
  /\ phase = "allocated" => newConn \in live \ batch /\ conn[newConn].fd = newFd

Inv == /\ TypeOK
       /\ NoStaleEvent
       /\ Control
       /\ NewSocket
       /\ Descriptors
       /\ Listed
       /\ Registered
       /\ OwnDescriptor
       /\ NoDescriptorLeak

USE ServiceAssumption, LimitAssumption, DistinctAssumption

-----------------------------------------------------------------------------
(* The operators.                                                          *)

\* The kernel's choice is a free descriptor.
LEMMA LowestIsFree == FreeFds # {} => LowestFd \in FreeFds
<1> SUFFICES ASSUME FreeFds # {} PROVE LowestFd \in FreeFds
  OBVIOUS
<1>1. FreeFds \subseteq Nat
  BY DEF FreeFds, Fds
<1>2. \E fd \in FreeFds : \A other \in FreeFds : fd <= other
  BY <1>1, LeastElement
<1> QED
  BY <1>2 DEF LowestFd

\* A free descriptor is nobody's.
LEMMA FreeIsUnused ==
  ASSUME Inv, NEW fd \in FreeFds
  PROVE  /\ fd \in Fds /\ sock[fd] = NULL /\ fd # epollfd
         /\ \A l \in Listeners : fd # listenFd[l]
         /\ fd # newFd /\ \A a \in live : fd # conn[a].fd
<1> USE DEF Inv, FreeFds, Fds, NoFd
<1>1. fd \in Fds /\ sock[fd] = NULL
  OBVIOUS
<1>2. fd # epollfd /\ (\A l \in Listeners : fd # listenFd[l]) /\ (\A a \in live : fd # conn[a].fd)
  BY <1>1 DEF Descriptors, OwnDescriptor, ClientOf
<1>3. fd # newFd
  BY <1>1 DEF NewSocket, SettingUp, Control
<1> QED
  BY <1>1, <1>2, <1>3

\* tcp_conn_list_remove takes exactly its connection out of the list.
LEMMA ListAfterRemoveFacts ==
  ASSUME Inv, NEW a \in live, newConn = NULL
  PROVE  /\ ListAfterRemove(a) \in Seq(Addrs)
         /\ Elements(ListAfterRemove(a)) = live \ {a}
         /\ Distinct(ListAfterRemove(a))
<1>1. conns \in Seq(Addrs) /\ Elements(conns) = live /\ Distinct(conns)
  BY DEF Inv, TypeOK, Listed, Elements
<1> DEFINE k == CHOOSE i \in DOMAIN conns : conns[i] = a
<1>2. \E i \in DOMAIN conns : conns[i] = a
  BY <1>1 DEF Elements
<1>3. k \in DOMAIN conns /\ conns[k] = a
  BY <1>2
<1>4. ListAfterRemove(a) = RemoveAt(conns, k)
  BY <1>2 DEF ListAfterRemove
<1> HIDE DEF k
<1> QED
  BY <1>1, <1>3, <1>4, RemoveFacts

-----------------------------------------------------------------------------
(* Init, and one lemma per kind of step.                                   *)

\* The initial states satisfy the invariant.
LEMMA InitInv == Init => Inv
<1> SUFFICES ASSUME Init PROVE Inv
  OBVIOUS
<1>1. TypeOK
  <2>1. phase \in Phases /\ {gStop, gReload, hup} \subseteq BOOLEAN
    BY DEF Init, Phases
  <2>2. /\ DOMAIN sock = Fds
        /\ \A fd \in Fds : sock[fd] \in Listeners \cup Clients \cup {NULL} \/ sock[fd] = "epoll"
    BY DEF Init
  <2>3. conn \in [Addrs -> [fd : Fds \cup {-1}, channel : Listeners \cup {NULL},
                            age : 0..IdleLimit]]
    BY DEF Init, NoConn, NoFd
  <2>4. conns \in Seq(Addrs) /\ live \subseteq Addrs
    BY DEF Init
  <2> QED
    BY <2>1, <2>2, <2>3, <2>4 DEF Init, TypeOK, NoFd
<1>2. NoStaleEvent /\ Control /\ NewSocket /\ Descriptors
  BY DEF Init, NoStaleEvent, Control, NewSocket, SettingUp, Accepting, Descriptors
<1>3. Listed /\ Registered
  BY DEF Init, Listed, Elements, Distinct, Registered, Watched
<1>4. OwnDescriptor /\ NoDescriptorLeak
  BY DEF Init, OwnDescriptor, NoDescriptorLeak
<1> QED
  BY <1>1, <1>2, <1>3, <1>4 DEF Inv

\* Closing an allocated connection keeps list, heap, epoll set and descriptor
\* table in step: it closes the descriptor of no other.
LEMMA CloseConnAgrees ==
  ASSUME Inv, NEW a \in live, newConn = NULL, newFd = NoFd, phase # "done", phase' # "done",
         CloseConn(a), UNCHANGED <<epollfd, listenFd, newVars>>
  PROVE  /\ Descriptors' /\ Listed' /\ Registered' /\ OwnDescriptor' /\ NoDescriptorLeak'
         /\ live' = live \ {a}
<1> USE DEF Inv, newVars
<1>1. live' = live \ {a} /\ conns' = ListAfterRemove(a) /\ NULL \notin live
  BY DEF CloseConn, LiveAfterClose, TypeOK
<1>2. \A b \in live' : conn'[b] = conn[b] /\ b \in live /\ b # a
  BY <1>1 DEF CloseConn, TypeOK
<1>3. \A b \in live' : conn[b].fd # conn[a].fd
  BY <1>1 DEF OwnDescriptor
<1>4. \A fd \in Fds : sock'[fd] = IF fd = conn[a].fd THEN NULL ELSE sock[fd]
  BY DEF CloseConn
<1>5. /\ conn[a].fd \in Fds /\ sock[conn[a].fd] \in Clients
      /\ epollfd # conn[a].fd /\ \A l \in Listeners : listenFd[l] # conn[a].fd
  BY DEF OwnDescriptor, ClientOf, Descriptors, Fds, NoFd
<1>6. Descriptors'
  <2>1. \A l \in Listeners : listenFd[l] # NoFd => listenFd[l] \in Fds
    BY DEF TypeOK, NoFd
  <2>2. epollfd # NoFd => epollfd \in Fds
    BY DEF TypeOK, NoFd
  <2> QED
    BY <1>4, <1>5, <2>1, <2>2 DEF Descriptors
<1>7. Listed'
  BY <1>1, ListAfterRemoveFacts DEF Listed
<1>8. Registered'
  <2>1. live \ {newConn} = live /\ live' \ {newConn'} = live' /\ Watched' = Watched
    BY <1>1 DEF Watched
  <2>2. interest = {<<listenFd[l], l>> : l \in Watched} \cup {<<conn[b].fd, b>> : b \in live}
    BY <2>1 DEF Registered
  <2>3. interest' = {i \in interest : i[1] # conn[a].fd}
    BY DEF CloseConn
  <2>4. {<<conn'[b].fd, b>> : b \in live'} = {<<conn[b].fd, b>> : b \in live'}
    BY <1>2
  <2>5. \A l \in Watched : listenFd[l] # conn[a].fd
    BY <1>5 DEF Watched
  <2>6. interest' = {<<listenFd[l], l>> : l \in Watched} \cup {<<conn[b].fd, b>> : b \in live'}
    BY <1>1, <1>3, <2>2, <2>3, <2>5
  <2> QED
    BY <2>1, <2>4, <2>6 DEF Registered
<1>9. OwnDescriptor'
  <2>1. \A b \in live' : sock'[conn'[b].fd] = sock[conn[b].fd]
    BY <1>2, <1>3, <1>4 DEF OwnDescriptor
  <2> QED
    BY <1>2, <2>1 DEF OwnDescriptor, ClientOf
<1>10. NoDescriptorLeak'
  <2> SUFFICES ASSUME NEW fd \in Fds, sock'[fd] # NULL
               PROVE  \/ fd = epollfd' \/ fd = newFd'
                      \/ \E l \in Listeners : fd = listenFd'[l]
                      \/ \E b \in live' : fd = conn'[b].fd
    BY DEF NoDescriptorLeak
  <2>1. fd # conn[a].fd /\ sock[fd] # NULL
    BY <1>4
  <2>2. CASE \E b \in live : fd = conn[b].fd
    BY <1>1, <1>2, <2>1, <2>2
  <2> QED
    BY <2>1, <2>2 DEF NoDescriptorLeak
<1> QED
  BY <1>1, <1>6, <1>7, <1>8, <1>9, <1>10

\* And it keeps the types.
LEMMA CloseConnType ==
  ASSUME Inv, NEW a \in live, newConn = NULL, CloseConn(a), phase' \in Phases,
         batch' \subseteq batch,
         UNCHANGED <<signalVars, epollfd, listenFd, channel, newVars, clientVars>>
  PROVE  TypeOK'
<1> USE DEF Inv, newVars
<1>1. conns' \in Seq(Addrs)
  BY ListAfterRemoveFacts DEF CloseConn
<1>2. /\ DOMAIN sock' = Fds
      /\ \A fd \in Fds : sock'[fd] \in {sock[fd], NULL}
  BY DEF CloseConn
<1>3. /\ interest' \subseteq interest /\ live' \subseteq live
      /\ conn' \in [Addrs -> [fd : Fds \cup {-1}, channel : Listeners \cup {NULL},
                              age : 0..IdleLimit]]
  BY DEF CloseConn, LiveAfterClose, TypeOK, NoConn, NoFd
<1> QED
  BY <1>1, <1>2, <1>3 DEF TypeOK, signalVars, clientVars

\* Steps that touch neither descriptors nor connections but for the time they have
\* been idle.
LEMMA QuietAgrees ==
  ASSUME Inv, UNCHANGED <<fdVars, newVars, conns, live>>, phase # "done", phase' # "done",
         \A a \in live : conn'[a].fd = conn[a].fd
  PROVE  Descriptors' /\ Listed' /\ Registered' /\ OwnDescriptor' /\ NoDescriptorLeak'
<1> USE DEF Inv, fdVars, newVars
<1>1. Descriptors' /\ Listed'
  BY DEF Descriptors, Listed
<1>2. Registered'
  <2>1. {<<conn'[b].fd, b>> : b \in live \ {newConn}} = {<<conn[b].fd, b>> : b \in live \ {newConn}}
    OBVIOUS
  <2> QED
    BY <2>1 DEF Registered, Watched
<1>3. OwnDescriptor' /\ NoDescriptorLeak'
  BY DEF OwnDescriptor, ClientOf, NoDescriptorLeak
<1> QED
  BY <1>1, <1>2, <1>3

\* A step that changes neither descriptors nor connections, nor the main thread's place.
LEMMA EnvironmentInv ==
  ASSUME Inv, \/ StopSignal \/ ReloadSignal \/ Tick
              \/ \E k \in Clients : \/ ClientSends(k) \/ ClientCloses(k)
                                    \/ \E l \in Listeners : ClientConnects(k, l)
  PROVE  Inv'
<1> USE DEF Inv, signalVars, clientVars, StopSignal, ReloadSignal, ClientSends, ClientCloses,
            ClientConnects
<1>1. /\ UNCHANGED <<phase, fdVars, newVars, conns, live, batch, channel>>
      /\ \A a \in live : conn'[a].fd = conn[a].fd
  BY DEF Tick, connVars, TypeOK
<1>2. conn' \in [Addrs -> [fd : Fds \cup {-1}, channel : Listeners \cup {NULL},
                           age : 0..IdleLimit]]
  <2>1. CASE Tick
    <3> DEFINE Type == [fd : Fds \cup {-1}, channel : Listeners \cup {NULL}, age : 0..IdleLimit]
    <3>1. ASSUME NEW a \in Addrs, conn[a].age < IdleLimit
          PROVE  [conn[a] EXCEPT !.age = @ + 1] \in Type
      <4>1. conn[a] \in Type /\ conn[a].age + 1 \in 0..IdleLimit
        BY <3>1 DEF TypeOK
      <4> QED
        BY <4>1
    <3>2. \A a \in Addrs : conn[a] \in Type
      BY DEF TypeOK
    <3> HIDE DEF Type
    <3>3. conn' \in [Addrs -> Type]
      BY <2>1, <3>1, <3>2 DEF Tick
    <3> QED
      BY <3>3 DEF Type
  <2>2. CASE UNCHANGED conn
    BY <2>2 DEF TypeOK
  <2> QED
    BY <2>1, <2>2 DEF connVars
<1>3. {gStop', gReload', hup'} \subseteq BOOLEAN
  BY DEF TypeOK, Tick
<1>4. backlog' \in [Listeners -> SUBSET Clients] /\ unread' \subseteq Clients /\ gone' \subseteq Clients
  BY DEF TypeOK, Tick
<1>5. TypeOK'
  BY <1>1, <1>2, <1>3, <1>4 DEF TypeOK, fdVars, newVars
<1>6. NoStaleEvent' /\ Control' /\ NewSocket'
  BY <1>1 DEF NoStaleEvent, Control, NewSocket, fdVars, newVars
<1>7. Descriptors' /\ Listed' /\ Registered' /\ OwnDescriptor' /\ NoDescriptorLeak'
  <2>1. CASE phase # "done"
    BY <1>1, <2>1, QuietAgrees
  <2>2. CASE phase = "done"
    BY <1>1, <2>2 DEF fdVars, newVars, Descriptors, Listed, Registered, OwnDescriptor,
       ClientOf, NoDescriptorLeak
  <2> QED
    BY <2>1, <2>2
<1> QED
  BY <1>5, <1>6, <1>7

\* The main thread goes on, reads a signal flag or takes the next event.
LEMMA QuietStepInv ==
  ASSUME Inv, \/ NoListener \/ EnterLoop \/ LoopTest \/ ReadConfig \/ ReloadEnds
              \/ EpollReturns \/ EpollTimesOut \/ EpollInterrupted \/ EpollFails
              \/ BatchDone \/ AcceptEnds \/ AcceptFails \/ SweepEnds
              \/ \E l \in Listeners : ListenerEvent(l) \/ ListenerError(l)
              \/ \E a \in Addrs : EchoReads(a) \/ ProxyEvent(a)
  PROVE  Inv'
<1> USE DEF Inv, signalVars, clientVars, connVars, NoListener, EnterLoop, LoopTest, ReadConfig, ReloadEnds,
            EpollReturns, EpollTimesOut, EpollInterrupted, EpollFails, BatchDone, AcceptEnds,
            AcceptFails, EndAccept, SweepEnds, ListenerEvent, ListenerError, EchoReads,
            ProxyEvent, IsConnEvent
<1> DEFINE Places == Phases \ ({"done", "create"} \cup SettingUp)
<1>1. /\ UNCHANGED <<fdVars, newVars, conns, live>> /\ phase \in Places /\ phase' \in Places
      /\ \A a \in live : conn'[a].fd = conn[a].fd
  <2>1. UNCHANGED <<fdVars, newVars, conns, live>>
    OBVIOUS
  <2>2. phase \in Places /\ phase' \in Places
    BY DEF Phases, SettingUp
  <2>3. conn' = conn \/ \E a \in Addrs : conn' = [conn EXCEPT ![a].age = 0]
    OBVIOUS
  <2> QED
    BY <2>1, <2>2, <2>3 DEF TypeOK
<1>2. conn' \in [Addrs -> [fd : Fds \cup {-1}, channel : Listeners \cup {NULL},
                           age : 0..IdleLimit]]
  <2>1. conn' = conn \/ \E a \in Addrs : conn' = [conn EXCEPT ![a].age = 0]
    OBVIOUS
  <2> DEFINE Type == [fd : Fds \cup {-1}, channel : Listeners \cup {NULL}, age : 0..IdleLimit]
  <2>2. conn \in [Addrs -> Type]
    BY DEF TypeOK
  <2>3. \A r \in Type : [r EXCEPT !.age = 0] \in Type
    OBVIOUS
  <2> HIDE DEF Type
  <2>4. conn' \in [Addrs -> Type]
    BY <2>1, <2>2, <2>3
  <2> QED
    BY <2>4 DEF Type
<1>3. {gStop', gReload', hup'} \subseteq BOOLEAN
  <2>1. gReload' \in BOOLEAN
    BY DEF TypeOK
  <2>2. {gStop', hup'} \subseteq BOOLEAN
    BY DEF TypeOK
  <2> QED
    BY <2>1, <2>2
<1>4. backlog' \in [Listeners -> SUBSET Clients] /\ unread' \subseteq Clients /\ gone' \subseteq Clients
  BY DEF TypeOK
<1>5. \A p \in batch' : p \in Listeners \/ p \in live
  <2>1. \A p \in Ready : p \in Listeners \/ p \in live
    <3>1. interest = {<<listenFd[l], l>> : l \in Watched} \cup {<<conn[a].fd, a>> : a \in live \ {newConn}}
      BY <1>1 DEF Registered
    <3>2. \A i \in interest : i[2] \in Listeners \/ i[2] \in live
      BY <3>1 DEF Watched
    <3> QED
      BY <3>2 DEF Ready
  <2> QED
    BY <2>1 DEF NoStaleEvent
<1>6. TypeOK'
  <2>1. batch' \subseteq Listeners \cup Addrs /\ channel' \in Listeners \cup {NULL}
    BY <1>5 DEF TypeOK
  <2> QED
    BY <1>1, <1>2, <1>3, <1>4, <2>1 DEF TypeOK, fdVars, newVars
<1>7. NoStaleEvent'
  BY <1>1, <1>5 DEF NoStaleEvent
<1>8. Control'
  BY <1>1 DEF Control, Accepting
<1>9. NewSocket'
  BY <1>1 DEF NewSocket, SettingUp, newVars
<1> QED
  BY <1>1, <1>6, <1>7, <1>8, <1>9, QuietAgrees

\* epoll_create1 takes a descriptor, or the main thread gives up.
LEMMA EpollCreateInv == Inv /\ EpollCreate => Inv'
<1> SUFFICES ASSUME Inv, EpollCreate PROVE Inv'
  OBVIOUS
<1> USE DEF EpollCreate, signalVars, newVars, connVars, clientVars
<1>1. CASE UNCHANGED <<epollfd, sock>> /\ phase' = "quit"
  <2>1. TypeOK' /\ NoStaleEvent' /\ Control' /\ NewSocket'
    BY <1>1 DEF Inv, TypeOK, Phases, NoStaleEvent, Control, NewSocket, SettingUp, Accepting
  <2> QED
    BY <1>1, <2>1, QuietAgrees DEF Inv, fdVars
<1>2. CASE /\ FreeFds # {} /\ epollfd' = LowestFd /\ phase' = "listen"
           /\ sock' = [sock EXCEPT ![LowestFd] = "epoll"]
  <2> DEFINE fd == LowestFd
  <2>1. /\ fd \in Fds /\ sock[fd] = NULL
        /\ \A l \in Listeners : fd # listenFd[l]
        /\ \A a \in live : fd # conn[a].fd
    BY <1>2, LowestIsFree, FreeIsUnused
  <2>2. sock' = [sock EXCEPT ![fd] = "epoll"] /\ epollfd' = fd
    BY <1>2
  <2> HIDE DEF fd
  <2>3. TypeOK' /\ NoStaleEvent' /\ Control' /\ NewSocket'
    BY <1>2, <2>1, <2>2 DEF Inv, TypeOK, Phases, NoStaleEvent, Control, NewSocket, SettingUp, Accepting
  <2>4. Descriptors' /\ Listed' /\ Registered'
    BY <1>2, <2>1, <2>2 DEF Inv, TypeOK, NoFd, Descriptors, Listed, Registered, Watched
  <2>5. OwnDescriptor'
    BY <2>1, <2>2 DEF Inv, TypeOK, OwnDescriptor, ClientOf
  <2>6. NoDescriptorLeak'
    BY <1>2, <2>1, <2>2 DEF Inv, TypeOK, Control, NoDescriptorLeak, NoFd, Fds
  <2> QED
    BY <2>3, <2>4, <2>5, <2>6 DEF Inv
<1> QED
  BY <1>1, <1>2

\* A new listener or an accepted client takes a free descriptor, which is
\* nobody's yet.
LEMMA NewSocketInv ==
  ASSUME Inv, \/ \E l \in Listeners : OpenListener(l)
              \/ \E k \in Clients : Accept(k)
  PROVE  Inv'
<1> DEFINE fd == LowestFd
<1>1. FreeFds # {}
  BY DEF OpenListener, Accept
<1>2. /\ fd \in Fds /\ sock[fd] = NULL /\ fd # epollfd /\ fd # newFd
      /\ \A l \in Listeners : fd # listenFd[l]
      /\ \A a \in live : fd # conn[a].fd
  BY <1>1, LowestIsFree, FreeIsUnused
<1>3. /\ newFd' = fd /\ newFd = NoFd /\ newConn = NULL
      /\ UNCHANGED <<epollfd, listenFd, interest, batch, newConn, connVars, signalVars>>
      /\ unread' \subseteq Clients /\ gone' \subseteq Clients
      /\ backlog' \in [Listeners -> SUBSET Clients]
  BY DEF OpenListener, Accept, Inv, TypeOK, NewSocket, SettingUp, clientVars
<1>4. \/ /\ phase = "listen" /\ phase' = "opened" /\ channel' \in Listeners
         /\ listenFd[channel'] = NoFd /\ sock' = [sock EXCEPT ![fd] = channel']
      \/ /\ phase = "accept" /\ phase' = "accepted" /\ channel' = channel
         /\ \E k \in Clients : sock' = [sock EXCEPT ![fd] = k]
  BY DEF OpenListener, Accept
<1> HIDE DEF fd
<1> USE DEF signalVars, connVars
<1>5. \A other \in Fds : other # fd => sock'[other] = sock[other]
  BY <1>4 DEF Inv, TypeOK
<1>6. sock'[fd] # NULL /\ sock'[fd] \in Listeners \cup Clients
  BY <1>2, <1>4 DEF Inv, TypeOK
<1>7. TypeOK'
  <2>1. phase' \in Phases /\ channel' \in Listeners \cup {NULL}
    BY <1>4 DEF Phases, Inv, TypeOK
  <2>2. DOMAIN sock' = Fds
    BY <1>4 DEF Inv, TypeOK
  <2>3. \A f \in Fds : sock'[f] \in Listeners \cup Clients \cup {NULL} \/ sock'[f] = "epoll"
    BY <1>5, <1>6 DEF Inv, TypeOK
  <2> QED
    BY <1>2, <1>3, <2>1, <2>2, <2>3 DEF Inv, TypeOK
<1>8. NoStaleEvent' /\ Control'
  BY <1>3, <1>4 DEF Inv, NoStaleEvent, Control, Accepting
<1>9. NewSocket'
  <2>1. newFd' # NoFd
    BY <1>2, <1>3 DEF Fds, NoFd
  <2>2. CASE phase' = "opened"
    BY <1>2, <1>3, <1>4, <2>1, <2>2 DEF Inv, TypeOK, NewSocket, SettingUp
  <2>3. CASE phase' = "accepted"
    BY <1>2, <1>3, <1>4, <2>1, <2>3 DEF Inv, TypeOK, NewSocket, SettingUp
  <2> QED
    BY <1>4, <2>2, <2>3
<1>10. Descriptors'
  <2>1. \A l \in Listeners : listenFd[l] # NoFd => sock'[listenFd[l]] = l
    BY <1>2, <1>5 DEF Inv, TypeOK, Descriptors, NoFd
  <2>2. epollfd # NoFd => sock'[epollfd] = "epoll"
    BY <1>2, <1>5 DEF Inv, TypeOK, Descriptors, NoFd
  <2> QED
    BY <1>3, <2>1, <2>2 DEF Descriptors
<1>11. Listed' /\ Registered'
  <2>1. Watched' = Watched
    BY <1>2, <1>3 DEF Watched
  <2> QED
    BY <1>3, <1>4, <2>1 DEF Inv, Listed, Registered
<1>12. OwnDescriptor'
  BY <1>2, <1>3, <1>5 DEF Inv, OwnDescriptor, ClientOf
<1>13. NoDescriptorLeak'
  BY <1>3, <1>4, <1>5 DEF Inv, NoDescriptorLeak, NoFd, Fds
<1> QED
  BY <1>7, <1>8, <1>9, <1>10, <1>11, <1>12, <1>13 DEF Inv

\* The descriptor of a listener is noted before it is registered.
LEMMA BindInv == Inv /\ Bind => Inv'
<1> SUFFICES ASSUME Inv, Bind PROVE Inv'
  OBVIOUS
<1> USE DEF Bind, signalVars, newVars, connVars, clientVars
<1>1. /\ channel \in Listeners /\ newFd \in Fds /\ newFd # NoFd /\ sock[newFd] = channel
      /\ listenFd[channel] = NoFd /\ newConn = NULL
  BY DEF Inv, TypeOK, Control, NewSocket, SettingUp, NoFd
<1>2. /\ listenFd'[channel] = newFd
      /\ \A l \in Listeners : l # channel => listenFd'[l] = listenFd[l]
  BY <1>1 DEF Inv, TypeOK
<1>3. TypeOK' /\ NoStaleEvent' /\ Control'
  BY <1>1 DEF Inv, TypeOK, Phases, NoStaleEvent, Control, Accepting
<1>4. NewSocket'
  BY <1>1, <1>2 DEF Inv, NewSocket, SettingUp
<1>5. Descriptors'
  BY <1>1, <1>2 DEF Inv, Descriptors
<1>6. Listed' /\ OwnDescriptor'
  BY DEF Inv, Listed, OwnDescriptor, ClientOf
<1>7. Registered'
  <2>1. Watched' = Watched
    BY <1>1, <1>2 DEF Watched
  <2>2. \A l \in Watched : listenFd'[l] = listenFd[l]
    BY <1>1, <1>2 DEF Watched
  <2>3. {<<listenFd'[l], l>> : l \in Watched} = {<<listenFd[l], l>> : l \in Watched}
    BY <2>2
  <2> QED
    BY <2>1, <2>3 DEF Inv, Registered
<1>8. NoDescriptorLeak'
  BY <1>1, <1>2 DEF Inv, NoDescriptorLeak, Fds, NoFd
<1> QED
  BY <1>3, <1>4, <1>5, <1>6, <1>7, <1>8 DEF Inv

\* A connection that is not on the list yet owns the new descriptor.
LEMMA AllocateInv ==
  ASSUME Inv, NEW a \in Addrs, Allocate(a)
  PROVE  Inv'
<1> USE DEF Allocate, signalVars, fdVars, clientVars
<1> DEFINE Type == [fd : Fds \cup {-1}, channel : Listeners \cup {NULL}, age : 0..IdleLimit]
<1>1. /\ newFd \in Fds /\ newFd # NoFd /\ newConn = NULL /\ sock[newFd] \in Clients
      /\ channel \in Listeners /\ \A b \in live : conn[b].fd # newFd
  BY DEF Inv, TypeOK, Control, Accepting, NewSocket, SettingUp, NoFd
<1>2. /\ a \notin live /\ a # NULL /\ conn'[a].fd = newFd
      /\ \A b \in live : conn'[b] = conn[b] /\ b # a
  BY DEF Inv, TypeOK
<1>3. conn' \in [Addrs -> Type]
  <2>1. conn \in [Addrs -> Type] /\ [fd |-> newFd, channel |-> channel, age |-> 0] \in Type
    BY <1>1 DEF Inv, TypeOK
  <2> HIDE DEF Type
  <2> QED
    BY <2>1
<1>4. TypeOK'
  BY <1>3 DEF Inv, TypeOK, Phases
<1>5. NoStaleEvent' /\ Control' /\ Descriptors'
  BY DEF Inv, NoStaleEvent, Control, Accepting, Descriptors
<1>6. NewSocket'
  <2>1. a \notin batch
    BY DEF Inv, NoStaleEvent
  <2> QED
    BY <1>1, <1>2, <2>1 DEF Inv, NewSocket, SettingUp
<1>7. live' \ {newConn'} = live \ {newConn}
  BY <1>1, <1>2 DEF Inv, TypeOK
<1>8. Listed'
  BY <1>7 DEF Inv, Listed
<1>9. Registered'
  <2>1. {<<conn'[b].fd, b>> : b \in live \ {newConn}} = {<<conn[b].fd, b>> : b \in live \ {newConn}}
    BY <1>2
  <2> QED
    BY <1>7, <2>1 DEF Inv, Registered, Watched
<1>10. OwnDescriptor'
  BY <1>1, <1>2 DEF Inv, OwnDescriptor, ClientOf
<1>11. NoDescriptorLeak'
  BY <1>2 DEF Inv, NoDescriptorLeak
<1> QED
  BY <1>4, <1>5, <1>6, <1>8, <1>9, <1>10, <1>11 DEF Inv

\* What was set up is registered: a listener, or a connection, which is also put
\* on the list.
LEMMA RegisteredInv ==
  ASSUME Inv, AddListener \/ Register
  PROVE  Inv'
<1> USE DEF AddListener, Register, signalVars, connVars, clientVars
<1>1. /\ newFd' = NoFd /\ newConn' = NULL /\ newFd \in Fds /\ newFd # NoFd
      /\ phase \in {"noted", "allocated"} /\ phase' \in {"listen", "accept"}
      /\ UNCHANGED <<signalVars, sock, epollfd, listenFd, batch, live, conn, clientVars>>
  BY DEF Inv, TypeOK, NewSocket, SettingUp, NoFd
<1>2. NULL \notin live
  BY DEF Inv, TypeOK
<1>3. conns' \in Seq(Addrs) /\ Listed'
  <2>1. CASE Register
    <3>1. /\ conns \in Seq(Addrs) /\ Distinct(conns) /\ newConn \in Addrs \ Elements(conns)
          /\ Elements(conns) = live \ {newConn} /\ newConn \in live
      BY <2>1 DEF Inv, TypeOK, Listed, NewSocket
    <3> QED
      BY <1>1, <1>2, <2>1, <3>1, ConsFacts DEF Listed
  <2>2. CASE AddListener
    BY <1>2, <2>2 DEF Inv, TypeOK, Listed, NewSocket
  <2> QED
    BY <2>1, <2>2
<1>4. TypeOK'
  <2>1. interest' \subseteq Fds \X (Listeners \cup Addrs)
    BY <1>1 DEF Inv, TypeOK, Control, NewSocket
  <2>2. phase' \in Phases /\ channel' \in Listeners \cup {NULL}
    BY <1>1 DEF Inv, TypeOK, Phases
  <2> QED
    BY <1>1, <1>3, <2>1, <2>2 DEF Inv, TypeOK, NoFd
<1>5. NoStaleEvent' /\ Control' /\ NewSocket'
  BY <1>1 DEF Inv, NoStaleEvent, Control, Accepting, NewSocket, SettingUp
<1>6. Descriptors' /\ OwnDescriptor'
  BY <1>1 DEF Inv, Descriptors, OwnDescriptor, ClientOf
<1>7. Registered'
  <2>1. interest = {<<listenFd[l], l>> : l \in Watched} \cup {<<conn[b].fd, b>> : b \in live \ {newConn}}
    BY <1>1 DEF Inv, Registered
  <2>2. live' \ {newConn'} = live
    BY <1>1, <1>2
  <2>3. CASE AddListener
    <3>1. /\ channel \in Listeners /\ listenFd[channel] = newFd /\ sock[newFd] = channel
          /\ newConn = NULL
      BY <2>3 DEF Inv, Control, NewSocket
    <3>2. Watched' = Watched \cup {channel}
      BY <1>1, <2>3, <3>1 DEF Watched, Inv, Descriptors
    <3>3. {<<listenFd[l], l>> : l \in Watched \cup {channel}}
            = {<<listenFd[l], l>> : l \in Watched} \cup {<<newFd, channel>>}
      BY <3>1
    <3> QED
      BY <1>1, <1>2, <2>1, <2>2, <2>3, <3>1, <3>2, <3>3 DEF Registered
  <2>4. CASE Register
    <3>1. newConn \in live /\ conn[newConn].fd = newFd /\ sock[newFd] \in Clients
      BY <2>4 DEF Inv, NewSocket
    <3>2. Watched' = Watched
      BY <1>1, <3>1 DEF Watched, Inv, Descriptors
    <3>3. {<<conn[b].fd, b>> : b \in live}
            = {<<conn[b].fd, b>> : b \in live \ {newConn}} \cup {<<newFd, newConn>>}
      BY <3>1
    <3> QED
      BY <1>1, <2>1, <2>2, <2>4, <3>2, <3>3 DEF Registered
  <2> QED
    BY <2>3, <2>4
<1>8. NoDescriptorLeak'
  <2>1. CASE phase = "noted"
    <3>1. channel \in Listeners /\ listenFd[channel] = newFd
      BY <2>1 DEF Inv, Control, NewSocket
    <3> QED
      BY <1>1, <3>1 DEF Inv, NoDescriptorLeak
  <2>2. CASE phase = "allocated"
    <3>1. newConn \in live /\ conn[newConn].fd = newFd
      BY <2>2 DEF Inv, NewSocket
    <3> QED
      BY <1>1, <3>1 DEF Inv, NoDescriptorLeak
  <2> QED
    BY <1>1, <2>1, <2>2
<1> QED
  BY <1>3, <1>4, <1>5, <1>6, <1>7, <1>8 DEF Inv

\* Whatever failed, the new descriptor is closed, and what was noted of it is
\* freed or reset.
LEMMA UndoneInv ==
  ASSUME Inv, BindFails \/ AddListenerFails \/ SetUpFails \/ RegisterFails
  PROVE  Inv'
<1> USE DEF CloseNew, Undo, signalVars, connVars, clientVars
<1>1. /\ phase \in SettingUp /\ phase' \in {"quit", "accept"}
      /\ newFd \in Fds /\ newFd # NoFd /\ newFd' = NoFd
      /\ sock' = [sock EXCEPT ![newFd] = NULL]
      /\ UNCHANGED <<signalVars, epollfd, interest, batch, conns, unread, gone>>
  BY DEF BindFails, AddListenerFails, SetUpFails, RegisterFails, SettingUp, Inv, TypeOK,
     NewSocket, NoFd
<1>2. /\ newConn' = NULL /\ live' = live \ {newConn} /\ NULL \notin live
      /\ \/ newConn = NULL /\ conn' = conn
         \/ newConn \in live /\ conn' = [conn EXCEPT ![newConn] = NoConn]
  BY DEF BindFails, AddListenerFails, SetUpFails, RegisterFails, Inv, TypeOK, NewSocket
<1>3. \A a \in live' : conn'[a] = conn[a] /\ a \in live /\ a # newConn
  BY <1>2 DEF Inv, TypeOK
<1>4. \A a \in live' : conn[a].fd # newFd
  BY <1>1, <1>2 DEF Inv, NewSocket, SettingUp, OwnDescriptor, ClientOf, Control
<1>5. \A l \in Listeners : listenFd'[l] = IF listenFd[l] = newFd THEN NoFd ELSE listenFd[l]
  <2>1. CASE AddListenerFails
    <3>1. channel \in Listeners /\ listenFd[channel] = newFd /\ sock[newFd] = channel
      BY <2>1 DEF AddListenerFails, Inv, Control, NewSocket
    <3> QED
      BY <1>1, <2>1, <3>1 DEF AddListenerFails, Inv, TypeOK, Descriptors
  <2>2. CASE BindFails
    <3>1. channel \in Listeners /\ listenFd[channel] = NoFd /\ sock[newFd] = channel
      BY <2>2 DEF BindFails, Inv, Control, NewSocket
    <3> QED
      BY <1>1, <2>2, <3>1 DEF BindFails, Inv, Descriptors
  <2>3. CASE SetUpFails \/ RegisterFails
    <3>1. sock[newFd] \in Clients
      BY <2>3 DEF SetUpFails, RegisterFails, Inv, NewSocket
    <3> QED
      BY <1>1, <2>3, <3>1 DEF SetUpFails, RegisterFails, Inv, Descriptors
  <2> QED
    BY <2>1, <2>2, <2>3
<1>6. \A fd \in Fds : sock'[fd] = IF fd = newFd THEN NULL ELSE sock[fd]
  BY <1>1 DEF Inv, TypeOK
<1>7. TypeOK'
  <2> DEFINE Type == [fd : Fds \cup {-1}, channel : Listeners \cup {NULL}, age : 0..IdleLimit]
  <2>1. conn' \in [Addrs -> Type]
    <3>1. conn \in [Addrs -> Type] /\ NoConn \in Type
      BY DEF Inv, TypeOK, NoConn, NoFd
    <3> HIDE DEF Type
    <3> QED
      BY <1>2, <3>1
  <2>2. /\ phase' \in Phases /\ channel' \in Listeners \cup {NULL}
        /\ listenFd' \in [Listeners -> Fds \cup {-1}]
        /\ backlog' \in [Listeners -> SUBSET Clients]
    BY <1>1 DEF BindFails, AddListenerFails, SetUpFails, RegisterFails, Inv, TypeOK, Phases, NoFd
  <2>3. DOMAIN sock' = Fds
    BY <1>1 DEF Inv, TypeOK
  <2> QED
    BY <1>1, <1>2, <1>6, <2>1, <2>2, <2>3 DEF Inv, TypeOK, NoFd
<1>8. NoStaleEvent'
  <2>1. newConn \notin batch \/ newConn = NULL
    BY DEF Inv, NewSocket
  <2> QED
    BY <1>1, <1>2, <2>1 DEF Inv, TypeOK, NoStaleEvent
<1>9. Control'
  BY <1>1 DEF BindFails, AddListenerFails, SetUpFails, RegisterFails, Inv, Control, Accepting
<1>10. NewSocket'
  BY <1>1, <1>2 DEF NewSocket, SettingUp
<1>11. Descriptors'
  <2>1. epollfd # NoFd => sock'[epollfd] = "epoll"
    <3>1. sock[newFd] \in Listeners \cup Clients
      BY <1>1 DEF Inv, NewSocket, SettingUp, Control
    <3> QED
      BY <1>6, <3>1 DEF Inv, TypeOK, Descriptors, NoFd
  <2>2. \A l \in Listeners : listenFd'[l] # NoFd => sock'[listenFd'[l]] = l
    BY <1>5, <1>6 DEF Inv, TypeOK, Descriptors, NoFd
  <2> QED
    BY <1>1, <2>1, <2>2 DEF Descriptors
<1>12. Listed'
  BY <1>1, <1>2 DEF Inv, Listed
<1>13. Registered'
  <2>1. Watched' = Watched /\ \A l \in Watched : listenFd'[l] = listenFd[l]
    BY <1>1, <1>5 DEF Watched
  <2>2. {<<listenFd'[l], l>> : l \in Watched} = {<<listenFd[l], l>> : l \in Watched}
    BY <2>1
  <2>3. live' \ {newConn'} = live \ {newConn}
    BY <1>2
  <2>4. {<<conn'[a].fd, a>> : a \in live \ {newConn}} = {<<conn[a].fd, a>> : a \in live \ {newConn}}
    BY <1>2, <1>3
  <2>5. phase # "done"
    BY <1>1 DEF SettingUp
  <2> QED
    BY <1>1, <2>1, <2>2, <2>3, <2>4, <2>5 DEF Inv, Registered
<1>14. OwnDescriptor'
  <2>1. \A a \in live' : sock'[conn'[a].fd] = sock[conn[a].fd]
    BY <1>3, <1>4, <1>6 DEF Inv, OwnDescriptor
  <2> QED
    BY <1>3, <2>1 DEF Inv, OwnDescriptor, ClientOf
<1>15. NoDescriptorLeak'
  <2> SUFFICES ASSUME NEW f \in Fds, sock'[f] # NULL
               PROVE  \/ f = epollfd' \/ f = newFd'
                      \/ \E l \in Listeners : f = listenFd'[l]
                      \/ \E b \in live' : f = conn'[b].fd
    BY <1>1 DEF NoDescriptorLeak
  <2>1. f # newFd /\ sock[f] # NULL
    BY <1>6
  <2>2. CASE \E a \in live : f = conn[a].fd
    <3>1. PICK a \in live : f = conn[a].fd
      BY <2>2
    <3>2. a # newConn
      BY <2>1, <3>1, <1>1, <1>2 DEF Inv, NewSocket
    <3> QED
      BY <1>2, <1>3, <3>1, <3>2
  <2> QED
    BY <1>1, <1>5, <2>1, <2>2 DEF Inv, NoDescriptorLeak
<1> QED
  BY <1>7, <1>8, <1>9, <1>10, <1>11, <1>12, <1>13, <1>14, <1>15 DEF Inv

\* A connection is closed: by its event, by the sweep, at the end.
LEMMA ClosingInv ==
  ASSUME Inv, \/ \E a \in Addrs : EchoCloses(a)
              \/ SweepCloses \/ QuitClosesConn
  PROVE  Inv'
<1> DEFINE Places == {"batch", "sweep", "quit"}
<1>1. ASSUME NEW a \in live, CloseConn(a), phase \in Places, batch' = batch \ {a},
             UNCHANGED <<phase, signalVars, epollfd, listenFd, channel, newVars, clientVars>>
      PROVE  Inv'
  <2> USE <1>1
  <2>0. newConn = NULL /\ newFd = NoFd
    BY DEF Inv, NewSocket, SettingUp
  <2>1. /\ Descriptors' /\ Listed' /\ Registered' /\ OwnDescriptor' /\ NoDescriptorLeak'
        /\ live' = live \ {a}
    BY <2>0, CloseConnAgrees
  <2>2. TypeOK'
    <3>1. phase' \in Phases /\ batch' \subseteq batch
      BY DEF Inv, TypeOK
    <3> QED
      BY <2>0, <3>1, CloseConnType
  <2>3. NoStaleEvent' /\ Control' /\ NewSocket'
    BY <2>0, <2>1 DEF Inv, NoStaleEvent, Control, Accepting, NewSocket, SettingUp, newVars
  <2> QED
    BY <2>1, <2>2, <2>3 DEF Inv
<1>2. Elements(conns) \subseteq live
  BY DEF Inv, Listed
<1>3. CASE \E a \in Addrs : EchoCloses(a)
  <2>1. PICK a \in Addrs : EchoCloses(a)
    BY <1>3
  <2>2. a \in live /\ phase \in Places
    BY <2>1 DEF EchoCloses, IsConnEvent, Inv, NoStaleEvent
  <2> QED
    BY <1>1, <2>1, <2>2 DEF EchoCloses, IsConnEvent
<1>4. CASE SweepCloses
  <2>1. PICK i \in DOMAIN conns : CloseConn(conns[i])
    BY <1>4 DEF SweepCloses
  <2>2. conns[i] \in live /\ phase = "sweep" /\ batch = {}
    BY <1>2, <1>4, <2>1 DEF SweepCloses, MaySweep, Elements, Inv, Control, Accepting
  <2> QED
    BY <1>1, <1>4, <2>1, <2>2 DEF SweepCloses
<1>5. CASE QuitClosesConn
  <2>1. conns \in Seq(Addrs) /\ conns # <<>> /\ phase = "quit" /\ batch = {}
    BY <1>5 DEF QuitClosesConn, Inv, TypeOK, Control, Accepting
  <2>2. 1 \in DOMAIN conns /\ Head(conns) = conns[1]
    BY <2>1
  <2>3. Head(conns) \in live
    BY <1>2, <2>2 DEF Elements
  <2> QED
    BY <1>1, <1>5, <2>1, <2>3 DEF QuitClosesConn
<1> QED
  BY <1>3, <1>4, <1>5

\* At the end the main thread closes what it still has.
LEMMA QuitInv == Inv /\ Quit => Inv'
<1> SUFFICES ASSUME Inv, Quit PROVE Inv'
  OBVIOUS
<1> USE DEF Quit, NoConnLeft, signalVars, newVars, connVars
<1>0. newFd = NoFd /\ newConn = NULL
  BY DEF Inv, NewSocket, SettingUp
<1>1. live = {}
  BY <1>0 DEF Inv, TypeOK, Listed, Elements
<1>2. \A fd \in Fds : sock'[fd] = NULL
  BY <1>0, <1>1 DEF Inv, NoDescriptorLeak, Fds, NoFd
<1>3. TypeOK'
  BY <1>2 DEF Inv, TypeOK, Phases, NoFd
<1>4. NoStaleEvent' /\ Control' /\ NewSocket' /\ Descriptors' /\ Listed'
  BY <1>0 DEF Inv, NoStaleEvent, Control, Accepting, NewSocket, SettingUp, Descriptors, Listed
<1>5. Registered' /\ OwnDescriptor' /\ NoDescriptorLeak'
  BY <1>1, <1>2 DEF Registered, OwnDescriptor, NoDescriptorLeak
<1> QED
  BY <1>3, <1>4, <1>5 DEF Inv

\* A step that changes nothing.
LEMMA StutterInv == Inv /\ UNCHANGED vars => Inv'
<1> SUFFICES ASSUME Inv, UNCHANGED vars PROVE Inv'
  OBVIOUS
<1> USE DEF vars, signalVars, fdVars, newVars, connVars, clientVars
<1>1. TypeOK' /\ NoStaleEvent' /\ Control' /\ NewSocket' /\ Descriptors'
  BY DEF Inv, TypeOK, NoStaleEvent, Control, NewSocket, Descriptors
<1>2. Listed' /\ Registered' /\ OwnDescriptor' /\ NoDescriptorLeak'
  BY DEF Inv, Listed, Registered, Watched, OwnDescriptor, ClientOf, NoDescriptorLeak
<1> QED
  BY <1>1, <1>2 DEF Inv

-----------------------------------------------------------------------------
(* The theorems.                                                           *)

\* The invariant holds in every reachable state.
THEOREM Invariant == SafeSpec => []Inv
<1>1. Inv /\ [Next]_vars => Inv'
  <2> SUFFICES ASSUME Inv, [Next]_vars PROVE Inv'
    OBVIOUS
  <2>1. CASE Environment
    BY <2>1, EnvironmentInv DEF Environment
  <2>2. CASE LoopStep
    BY <2>2, QuietStepInv, EpollCreateInv, NewSocketInv, BindInv, AllocateInv, RegisteredInv,
       UndoneInv, ClosingInv, QuitInv
    DEF LoopStep, ListenStep, EventStep
  <2>3. CASE EpollReturns \/ EpollTimesOut \/ EpollInterrupted \/ EpollFails \/ AcceptFails
    BY <2>3, QuietStepInv
  <2>4. CASE Terminated \/ UNCHANGED vars
    BY <2>4, StutterInv DEF Terminated
  <2> QED
    BY <2>1, <2>2, <2>3, <2>4 DEF Next
<1> QED
  BY <1>1, InitInv, PTL DEF SafeSpec

\* Every variable keeps its type: in particular no descriptor number ever leaves
\* the process's limit.
THEOREM TypeCorrect == SafeSpec => []TypeOK
  BY Invariant, PTL DEF Inv

\* No event refers to a freed connection, for batches of any size.
THEOREM NoStaleEventCorrect == SafeSpec => []NoStaleEvent
  BY Invariant, PTL DEF Inv

\* However often descriptor numbers are used again, a connection never closes or
\* answers another's socket.
THEOREM OwnDescriptorCorrect == SafeSpec => []OwnDescriptor
  BY Invariant, PTL DEF Inv

\* Whatever fails while a listener is opened or a client accepted leaves nothing
\* open, and every path to the end closes every descriptor and frees every
\* connection.
THEOREM NoDescriptorLeakCorrect == SafeSpec => []NoDescriptorLeak
  BY Invariant, PTL DEF Inv

\* List, heap and epoll set hold the same connections, whatever fails half way.
THEOREM ConnsAgreeCorrect == SafeSpec => []ConnsAgree
<1>1. Inv => ConnsAgree
  <2> SUFFICES ASSUME Inv PROVE ConnsAgree
    OBVIOUS
  <2>1. conns \in Seq(Addrs) /\ Elements(conns) = live \ {newConn} /\ Distinct(conns)
    BY DEF Inv, TypeOK, Listed
  <2>2. Len(conns) = Cardinality(live \ {newConn})
    BY <2>1, DistinctLength
  <2> QED
    BY <2>1, <2>2 DEF Inv, Registered, Watched, ConnsAgree, Elements
<1> QED
  BY <1>1, Invariant, PTL
=============================================================================

------------------------------ MODULE EventLoop ------------------------------
(***************************************************************************)
(* The main thread of 02_tcp_udp_proxy/main_service.c: it opens the TCP    *)
(* listeners, reacts to SIGHUP and SIGTERM, waits in epoll_wait, accepts   *)
(* clients, hands their events to the echo handler, closes idle            *)
(* connections and releases everything at the end.                         *)
(*                                                                         *)
(* What the echo handler does with one connection is EchoConn's subject:   *)
(* here it reads what there is, or closes the connection.  The UDP         *)
(* listeners are UdpService's.  Descriptors are numbers, handed out lowest *)
(* first, and the epoll set, the connection list and the heap are apart,   *)
(* so that they can disagree.                                              *)
(***************************************************************************)
EXTENDS Integers, Sequences, FiniteSets, SequencesExt

CONSTANTS Listeners,  \* the TCP listeners, each at an address &channels[i]
          Service,    \* Service[l]: "echo" or "proxy"
          Clients,    \* the clients there are
          Addrs,      \* the addresses malloc can return for a tcp_conn_t
          MaxFd,      \* the descriptors are 1..MaxFd, the process's limit
          IdleLimit,  \* TCP_CONN_IDLE_TIMEOUT_SEC
          NULL        \* the null pointer, and "no client"

ASSUME ServiceAssumption == Service \in [Listeners -> {"echo", "proxy"}]
ASSUME LimitAssumption == MaxFd \in Nat /\ IdleLimit \in Nat \ {0}
ASSUME DistinctAssumption ==
  /\ NULL \notin Listeners \cup Clients \cup Addrs
  /\ "epoll" \notin Listeners \cup Clients \cup {NULL}
  /\ Listeners \cap Addrs = {} /\ Listeners \cap Clients = {}

Fds == 1..MaxFd
ZeroFd == 0  \* Faulty: memset alone, without event.fd = -1.
NoFd == -1

VARIABLES
  phase,      \* where the main thread is
  gStop,      \* g_stop
  gReload,    \* g_reload
  hup,        \* history: a SIGHUP came and the file was not read since
  sock,       \* what each open descriptor refers to: a listener, a client,
              \* "epoll", or NULL
  epollfd,    \* epollfd, or NoFd
  listenFd,   \* channels[].event.fd of each listener
  interest,   \* epoll's interest list: pairs of a descriptor and its data.ptr
  batch,      \* events[j .. num_events): the pointers not handled yet
  channel,    \* the listener that is being opened or that accept_clients
              \* serves, or NULL
  newFd,      \* listen_fd or client_fd until it is registered, or NoFd
  newConn,    \* the connection allocated for it, or NULL
  conns,      \* the list that starts at g_tcp_conn_head
  live,       \* the connections that are allocated
  conn,       \* fd, channel_config and seconds since last_active of each
  backlog,    \* the clients each listener's accept queue holds
  unread,     \* the clients that sent something the service has not read
  gone        \* the clients that closed their end

signalVars == <<gStop, gReload, hup>>
fdVars     == <<sock, epollfd, listenFd, interest>>
connVars   == <<conns, live, conn>>
clientVars == <<backlog, unread, gone>>
newVars    == <<newFd, newConn>>
vars == <<phase, signalVars, fdVars, batch, channel, newVars, connVars, clientVars>>

Phases == {"create", "listen", "opened", "noted", "test", "reload", "reloaded", "poll",
           "batch", "accept", "accepted", "allocated", "sweep", "quit", "done"}

NoConn == [fd |-> NoFd, channel |-> NULL, age |-> 0]

Init == /\ phase = "create"
        /\ gStop = FALSE /\ gReload = FALSE /\ hup = FALSE
        /\ sock = [fd \in Fds |-> NULL] /\ epollfd = NoFd
        /\ listenFd = [l \in Listeners |-> NoFd] /\ interest = {}
        /\ batch = {} /\ channel = NULL /\ newFd = NoFd /\ newConn = NULL
        /\ conns = <<>> /\ live = {} /\ conn = [a \in Addrs |-> NoConn]
        /\ backlog = [l \in Listeners |-> {}] /\ unread = {} /\ gone = {}

FreeFds == {fd \in Fds : sock[fd] = NULL}
\* The kernel hands out the lowest free descriptor.
LowestFd == CHOOSE fd \in FreeFds : \A other \in FreeFds : fd <= other

-----------------------------------------------------------------------------
(* Signals and clients.                                                    *)

\* SIGTERM or SIGINT, in whatever thread runs the handler.
StopSignal ==
  /\ phase # "done" /\ gStop' = TRUE
  /\ UNCHANGED <<phase, gReload, hup, fdVars, batch, channel, newVars, connVars, clientVars>>

ReloadSignal ==
  /\ phase # "done" /\ gReload' = TRUE /\ hup' = TRUE
  /\ UNCHANGED <<phase, gStop, fdVars, batch, channel, newVars, connVars, clientVars>>

Connected(k) == \E fd \in Fds : sock[fd] = k
Away(k) == ~Connected(k) /\ \A l \in Listeners : k \notin backlog[l]

ClientConnects(k, l) ==
  /\ Away(k) /\ listenFd[l] # NoFd
  /\ backlog' = [backlog EXCEPT ![l] = @ \cup {k}]
  /\ unread' = unread \ {k} /\ gone' = gone \ {k}
  /\ UNCHANGED <<phase, signalVars, fdVars, batch, channel, newVars, connVars>>

ClientSends(k) ==
  /\ Connected(k) /\ k \notin gone
  /\ unread' = unread \cup {k}
  /\ UNCHANGED <<phase, signalVars, fdVars, batch, channel, newVars, connVars, backlog, gone>>

ClientCloses(k) ==
  /\ Connected(k) /\ k \notin gone
  /\ gone' = gone \cup {k}
  /\ UNCHANGED <<phase, signalVars, fdVars, batch, channel, newVars, connVars, backlog, unread>>

\* Time passes while the main thread is in epoll_wait.
Tick ==
  /\ phase = "poll"
  /\ \E a \in live : conn[a].age < IdleLimit
  /\ conn' = [a \in Addrs |->
                IF a \in live /\ conn[a].age < IdleLimit
                THEN [conn[a] EXCEPT !.age = @ + 1] ELSE conn[a]]
  /\ UNCHANGED <<phase, signalVars, fdVars, batch, channel, newVars, conns, live, clientVars>>

-----------------------------------------------------------------------------
(* From epoll_create1 to the loop.                                         *)

EpollCreate ==
  /\ phase = "create"
  /\ \/ /\ FreeFds # {}
        /\ epollfd' = LowestFd
        /\ sock' = [sock EXCEPT ![LowestFd] = "epoll"]
        /\ phase' = "listen"
     \/ /\ UNCHANGED <<epollfd, sock>>
        /\ phase' = "quit"
  /\ UNCHANGED <<signalVars, listenFd, interest, batch, channel, newVars, connVars, clientVars>>

\* createListenSocket gets a socket from the kernel,
OpenListener(l) ==
  /\ phase = "listen" /\ listenFd[l] = NoFd /\ FreeFds # {}
  /\ sock' = [sock EXCEPT ![LowestFd] = l]
  /\ newFd' = LowestFd /\ channel' = l /\ phase' = "opened"
  /\ UNCHANGED <<signalVars, epollfd, listenFd, interest, batch, newConn, connVars, clientVars>>

\* or socket fails and main_t jumps to quit.
NoListener ==
  /\ phase = "listen" /\ \E l \in Listeners : listenFd[l] = NoFd
  /\ phase' = "quit"
  /\ UNCHANGED <<signalVars, fdVars, batch, channel, newVars, connVars, clientVars>>

\* close(listen_fd) or close(client_fd)
CloseNew == sock' = [sock EXCEPT ![newFd] = NULL] /\ newFd' = NoFd

\* setsockopt, fcntl, inet_pton, bind or listen fails: createListenSocket closes it.
BindFails ==
  /\ phase = "opened"
  /\ CloseNew
  /\ channel' = NULL /\ phase' = "quit"
  /\ UNCHANGED <<signalVars, epollfd, listenFd, interest, batch, newConn, connVars, clientVars>>

\* It listens, and its descriptor is noted in channels[listen_count];
Bind ==
  /\ phase = "opened"
  /\ listenFd' = [listenFd EXCEPT ![channel] = newFd] /\ phase' = "noted"
  /\ UNCHANGED <<signalVars, sock, epollfd, interest, batch, channel, newVars, connVars, clientVars>>

\* addfd registers it,
AddListener ==
  /\ phase = "noted"
  /\ interest' = interest \cup {<<newFd, channel>>}
  /\ newFd' = NoFd /\ channel' = NULL /\ phase' = "listen"
  /\ UNCHANGED <<signalVars, sock, epollfd, listenFd, batch, newConn, connVars, clientVars>>

\* or fails: the descriptor is closed and forgotten, with the clients that have
\* connected to it since, and main_t jumps to quit.
AddListenerFails ==
  /\ phase = "noted"
  /\ CloseNew
  /\ listenFd' = [listenFd EXCEPT ![channel] = NoFd]
  /\ backlog' = [backlog EXCEPT ![channel] = {}]
  /\ channel' = NULL /\ phase' = "quit"
  /\ UNCHANGED <<signalVars, epollfd, interest, batch, newConn, connVars, unread, gone>>

EnterLoop ==
  /\ phase = "listen" /\ \A l \in Listeners : listenFd[l] # NoFd
  /\ phase' = IF Listeners = {} THEN "quit" ELSE "test"
  /\ UNCHANGED <<signalVars, fdVars, batch, channel, newVars, connVars, clientVars>>

-----------------------------------------------------------------------------
(* One turn of the loop.                                                   *)

\* Faulty: g_reload is reset when the reload is over.
ResetsReloadLate(where) == where = "reloaded"

\* g_reload is reset as soon as it was seen, before the file is read.
ResetsReload(where) == where = "test"

\* while (!g_stop) and if (g_reload)
LoopTest ==
  /\ phase = "test"
  /\ phase' = IF gStop THEN "quit" ELSE IF gReload THEN "reload" ELSE "poll"
  /\ gReload' = (gReload /\ ~(phase' = "reload" /\ ResetsReload("test")))
  /\ UNCHANGED <<gStop, hup, fdVars, batch, channel, newVars, connVars, clientVars>>

\* reload_config reads the file.
ReadConfig ==
  /\ phase = "reload"
  /\ hup' = FALSE
  /\ phase' = "reloaded"
  /\ UNCHANGED <<gStop, gReload, fdVars, batch, channel, newVars, connVars, clientVars>>

\* The snapshot is taken and the log is opened again, or either fails.
ReloadEnds ==
  /\ phase = "reloaded"
  /\ gReload' = (gReload /\ ~ResetsReload("reloaded"))
  /\ phase' = "poll"
  /\ UNCHANGED <<gStop, hup, fdVars, batch, channel, newVars, connVars, clientVars>>

\* What a level-triggered epoll_wait reports: the pointers registered for the
\* descriptors something has happened to.
Readable(s) == \/ s \in Listeners /\ backlog[s] # {}
               \/ s \in unread \cup gone
Ready == {e[2] : e \in {i \in interest : Readable(sock[i[1]])}}

\* epoll_wait returns every ready descriptor (there are fewer than MAX_EVENTS).
EpollReturns ==
  /\ phase = "poll" /\ Ready # {}
  /\ batch' = Ready /\ phase' = "batch"
  /\ UNCHANGED <<signalVars, fdVars, channel, newVars, connVars, clientVars>>

MayNotTimeOut == FALSE  \* Faulty: epoll_wait is called with no timeout.
MayTimeOut == TRUE

EpollTimesOut ==
  /\ phase = "poll" /\ Ready = {} /\ MayTimeOut
  /\ phase' = "sweep"
  /\ UNCHANGED <<signalVars, fdVars, batch, channel, newVars, connVars, clientVars>>

\* A signal ends epoll_wait with EINTR: continue, without the sweep.
EpollInterrupted ==
  /\ phase = "poll" /\ (gStop \/ gReload)
  /\ phase' = "test"
  /\ UNCHANGED <<signalVars, fdVars, batch, channel, newVars, connVars, clientVars>>

EpollFails ==
  /\ phase = "poll"
  /\ phase' = "quit"
  /\ UNCHANGED <<signalVars, fdVars, batch, channel, newVars, connVars, clientVars>>

BatchDone ==
  /\ phase = "batch" /\ batch = {}
  /\ phase' = "sweep"
  /\ UNCHANGED <<signalVars, fdVars, batch, channel, newVars, connVars, clientVars>>

\* The next event is EPOLLIN of a TCP listener: accept_clients.
ListenerEvent(l) ==
  /\ phase = "batch" /\ l \in batch
  /\ batch' = batch \ {l}
  /\ channel' = l /\ phase' = "accept"
  /\ UNCHANGED <<signalVars, fdVars, newVars, connVars, clientVars>>

\* It is EPOLLERR or EPOLLHUP of a listener: the rest of the batch is dropped.
ListenerError(l) ==
  /\ phase = "batch" /\ l \in batch
  /\ gStop' = TRUE
  /\ batch' = {} /\ phase' = "sweep"
  /\ UNCHANGED <<gReload, hup, fdVars, channel, newVars, connVars, clientVars>>

\* accept returns a client.
Accept(k) ==
  /\ phase = "accept" /\ k \in backlog[channel] /\ FreeFds # {}
  /\ backlog' = [backlog EXCEPT ![channel] = @ \ {k}]
  /\ sock' = [sock EXCEPT ![LowestFd] = k]
  /\ newFd' = LowestFd /\ phase' = "accepted"
  /\ UNCHANGED <<signalVars, epollfd, listenFd, interest, batch, channel, newConn, connVars,
                 unread, gone>>

\* add_tcp_echo_client or dispatch_tcp_proxy_client sets the socket's mode and
\* allocates a connection for it,
Allocate(a) ==
  /\ phase = "accepted" /\ a \notin live
  /\ live' = live \cup {a} /\ newConn' = a
  /\ conn' = [conn EXCEPT ![a] = [fd |-> newFd, channel |-> channel, age |-> 0]]
  /\ phase' = "allocated"
  /\ UNCHANGED <<signalVars, fdVars, batch, channel, newFd, conns, clientVars>>

\* or fcntl or malloc fails: the client is closed.
SetUpFails ==
  /\ phase = "accepted"
  /\ CloseNew
  /\ phase' = "accept"
  /\ UNCHANGED <<signalVars, epollfd, listenFd, interest, batch, channel, newConn, connVars,
                 clientVars>>

\* addfd(epoll_fd, client_fd, tcp_conn_events(conn), conn) registers it and
\* tcp_conn_list_add puts it on the list.
Register ==
  /\ phase = "allocated"
  /\ interest' = interest \cup {<<newFd, newConn>>}
  /\ conns' = <<newConn>> \o conns
  /\ newFd' = NoFd /\ newConn' = NULL /\ phase' = "accept"
  /\ UNCHANGED <<signalVars, sock, epollfd, listenFd, batch, channel, live, conn, clientVars>>

\* Faulty: the connection is freed and its descriptor stays open.
UndoLeavesOpen ==
  /\ sock' = sock /\ newFd' = NoFd
  /\ live' = live \ {newConn} /\ newConn' = NULL
  /\ conn' = [conn EXCEPT ![newConn] = NoConn]

\* Faulty: the descriptor is closed and the connection stays allocated.
UndoLeavesAllocated == CloseNew /\ newConn' = NULL /\ UNCHANGED <<live, conn>>

\* If addfd fails, both functions undo what they did: close(client_fd) and
\* free(conn).
Undo ==
  /\ CloseNew
  /\ live' = live \ {newConn} /\ newConn' = NULL
  /\ conn' = [conn EXCEPT ![newConn] = NoConn]

RegisterFails ==
  /\ phase = "allocated"
  /\ Undo
  /\ phase' = "accept"
  /\ UNCHANGED <<signalVars, epollfd, listenFd, interest, batch, channel, conns, clientVars>>

EndAccept ==
  /\ channel' = NULL /\ phase' = "batch"
  /\ UNCHANGED <<signalVars, fdVars, batch, newVars, connVars, clientVars>>

\* accept finds no client (EAGAIN) or no free descriptor (EMFILE),
AcceptEnds == phase = "accept" /\ (backlog[channel] = {} \/ FreeFds = {}) /\ EndAccept

\* or fails in another way.
AcceptFails == phase = "accept" /\ EndAccept

\* Faulty: a closed connection stays in the list.
ListUnchanged(a) == conns

\* tcp_conn_list_remove
ListAfterRemove(a) ==
  IF \E i \in DOMAIN conns : conns[i] = a
  THEN RemoveAt(conns, CHOOSE i \in DOMAIN conns : conns[i] = a) ELSE conns

LiveAndClosed(a) == live  \* Faulty: the context is neither freed nor forgotten.
LiveAfterClose(a) == live \ {a}

\* close_tcp_conn
CloseConn(a) ==
  /\ conns' = ListAfterRemove(a)
  /\ interest' = {i \in interest : i[1] # conn[a].fd}
  /\ sock' = [fd \in Fds |-> IF fd = conn[a].fd THEN NULL ELSE sock[fd]]
  /\ live' = LiveAfterClose(a)
  /\ conn' = [conn EXCEPT ![a] = NoConn]

ClientOf(a) == sock[conn[a].fd]
IsConnEvent(a, service) ==
  phase = "batch" /\ a \in batch \cap Addrs /\ Service[conn[a].channel] = service

\* handle_tcp_echo_event reads what there is and the connection stays open.
EchoReads(a) ==
  /\ IsConnEvent(a, "echo") /\ ClientOf(a) \notin gone
  /\ unread' = unread \ {ClientOf(a)}
  /\ conn' = [conn EXCEPT ![a].age = 0]
  /\ batch' = batch \ {a}
  /\ UNCHANGED <<phase, signalVars, fdVars, channel, newVars, conns, live, backlog, gone>>

\* It closes the connection: the client has closed its end, or a call fails.
EchoCloses(a) ==
  /\ IsConnEvent(a, "echo")
  /\ CloseConn(a)
  /\ batch' = batch \ {a}
  /\ UNCHANGED <<phase, signalVars, epollfd, listenFd, channel, newVars, clientVars>>

\* An event of a proxy connection: the branch is empty.
ProxyEvent(a) ==
  /\ IsConnEvent(a, "proxy")
  /\ batch' = batch \ {a}
  /\ UNCHANGED <<phase, signalVars, fdVars, channel, newVars, connVars, clientVars>>

SweepInBatch == phase \in {"batch", "sweep"}  \* Faulty: the sweep may come early.
MaySweep == phase = "sweep"

Idle(i) == conn[conns[i]].age >= IdleLimit

\* close_idle_tcp_conns walks the list and closes the idle connections,
SweepCloses ==
  /\ MaySweep
  /\ \E i \in DOMAIN conns : Idle(i) /\ CloseConn(conns[i])
  /\ UNCHANGED <<phase, signalVars, epollfd, listenFd, batch, channel, newVars, clientVars>>

\* and the next turn of the loop begins.
SweepEnds ==
  /\ phase = "sweep" /\ \A i \in DOMAIN conns : ~Idle(i)
  /\ phase' = "test"
  /\ UNCHANGED <<signalVars, fdVars, batch, channel, newVars, connVars, clientVars>>

\* quit: close_all_tcp_conns closes the head of the list while there is one.
QuitClosesConn ==
  /\ phase = "quit" /\ conns # <<>>
  /\ CloseConn(Head(conns))
  /\ UNCHANGED <<phase, signalVars, epollfd, listenFd, batch, channel, newVars, clientVars>>

LastConnLeft == Len(conns) <= 1  \* Faulty: it ends one connection early.
NoConnLeft == conns = <<>>

\* The listeners and epollfd are closed.
Quit ==
  /\ phase = "quit" /\ NoConnLeft
  /\ LET closed == {listenFd[l] : l \in Listeners} \cup {epollfd}
     IN  sock' = [fd \in Fds |-> IF fd \in closed THEN NULL ELSE sock[fd]]
  /\ listenFd' = [l \in Listeners |-> NoFd]
  /\ epollfd' = NoFd /\ interest' = {}
  /\ backlog' = [l \in Listeners |-> {}]
  /\ phase' = "done"
  /\ UNCHANGED <<signalVars, batch, channel, newVars, connVars, unread, gone>>

Terminated == phase = "done" /\ UNCHANGED vars
-----------------------------------------------------------------------------
Environment ==
  \/ StopSignal \/ ReloadSignal \/ Tick
  \/ \E k \in Clients : \/ ClientSends(k) \/ ClientCloses(k)
                        \/ \E l \in Listeners : ClientConnects(k, l)

EventStep ==
  \/ \E l \in Listeners : ListenerEvent(l) \/ ListenerError(l)
  \/ \E k \in Clients : Accept(k)
  \/ \E a \in Addrs : Allocate(a) \/ EchoReads(a) \/ EchoCloses(a) \/ ProxyEvent(a)
  \/ SetUpFails \/ Register \/ RegisterFails \/ AcceptEnds \/ BatchDone

ListenStep == \/ \E l \in Listeners : OpenListener(l)
              \/ NoListener \/ Bind \/ BindFails \/ AddListener \/ AddListenerFails

LoopStep == \/ EpollCreate \/ ListenStep \/ EnterLoop
            \/ LoopTest \/ ReadConfig \/ ReloadEnds
            \/ EventStep \/ SweepCloses \/ SweepEnds \/ QuitClosesConn \/ Quit

Next == \/ Environment \/ LoopStep
        \/ EpollReturns \/ EpollTimesOut \/ EpollInterrupted \/ EpollFails \/ AcceptFails
        \/ Terminated

SafeSpec == Init /\ [][Next]_vars

\* The main thread goes on; signals do not interrupt every epoll_wait; clients
\* do not for ever connect faster than accept takes them, for accept_clients only
\* returns when none is left; time passes.  No client and no signal has to come.
Spec == /\ SafeSpec
        /\ WF_vars(LoopStep)
        /\ SF_vars(AcceptEnds)
        /\ SF_vars(EpollReturns \/ EpollTimesOut)
        /\ SF_vars(Tick)
-----------------------------------------------------------------------------
(* Properties.                                                             *)

\* Every variable has its type.
TypeOK ==
  /\ phase \in Phases /\ {gStop, gReload, hup} \subseteq BOOLEAN
  /\ DOMAIN sock = Fds
  /\ \A fd \in Fds : sock[fd] \in Listeners \cup Clients \cup {NULL} \/ sock[fd] = "epoll"
  /\ epollfd \in Fds \cup {-1} /\ listenFd \in [Listeners -> Fds \cup {-1}]
  /\ interest \subseteq Fds \X (Listeners \cup Addrs)
  /\ batch \subseteq Listeners \cup Addrs /\ channel \in Listeners \cup {NULL}
  /\ newFd \in Fds \cup {-1} /\ newConn \in Addrs \cup {NULL}
  /\ conns \in Seq(Addrs) /\ live \subseteq Addrs
  /\ conn \in [Addrs -> [fd : Fds \cup {-1}, channel : Listeners \cup {NULL},
                         age : 0..IdleLimit]]
  /\ backlog \in [Listeners -> SUBSET Clients]
  /\ unread \subseteq Clients /\ gone \subseteq Clients

\* No event of a batch refers to a freed connection, whatever the events before
\* it did (the batch holds raw pointers while handlers free connections and
\* accept_clients allocates new ones).
NoStaleEvent == \A p \in batch : p \in Listeners \/ p \in live

\* The list, the heap and the epoll set hold the same connections, but for the
\* one accept_clients has allocated and not registered: none is leaked, linked
\* twice, or deaf because it is not registered, also when addfd or malloc fails
\* (add_tcp_echo_client, dispatch_tcp_proxy_client and close_tcp_conn).
ConnsAgree ==
  /\ {conns[i] : i \in DOMAIN conns} = live \ {newConn}
  /\ Len(conns) = Cardinality(live \ {newConn})
  /\ phase # "done" =>
       interest = {<<listenFd[l], l>> : l \in {m \in Listeners : listenFd[m] \notin {NoFd, newFd}}}
                  \cup {<<conn[a].fd, a>> : a \in live \ {newConn}}

\* Each connection is the only one with its descriptor, and the descriptor still
\* is its client's: none closes or answers another's socket after a descriptor
\* number was used again.
OwnDescriptor ==
  \A a \in live : /\ conn[a].fd \in Fds /\ ClientOf(a) \in Clients
                  /\ \A b \in live : conn[a].fd = conn[b].fd => a = b

\* Each open descriptor is epoll's, a listener's or a connection's, or the one
\* being set up; at the end none is open and no connection allocated (what is
\* undone when opening or accepting fails half way, and the quit path).
NoDescriptorLeak ==
  /\ \A fd \in Fds : sock[fd] # NULL =>
        \/ fd = epollfd \/ fd = newFd \/ \E l \in Listeners : fd = listenFd[l]
        \/ \E a \in live : fd = conn[a].fd
  /\ phase = "done" => live = {} /\ \A fd \in Fds : sock[fd] = NULL

\* A SIGHUP is followed by a read of the configuration file that starts after
\* it, even if it arrives while an earlier one is being handled (g_reload).
ReloadNotLost == hup ~> ~hup \/ phase \in {"quit", "done"}

\* A stop request ends the loop.
StopEndsLoop == gStop ~> phase = "done"

\* What a client of a proxy listener sends is handed on, as the comment of the
\* proxy branch of the loop says, until the client leaves or the service stops.
ProxyInputHandled ==
  \A k \in Clients :
     (/\ k \in unread
      /\ \E a \in live \ {newConn} : ClientOf(a) = k /\ Service[conn[a].channel] = "proxy")
       ~> k \notin unread \/ k \in gone \/ phase \in {"quit", "done"}

\* A connection that stays silent for the limit is closed (close_idle_tcp_conns
\* runs at least once a second).
IdleConnClosed ==
  \A a \in Addrs : a \in live /\ conn[a].age = IdleLimit
                     ~> a \notin live \/ conn[a].age < IdleLimit
=============================================================================

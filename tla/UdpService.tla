------------------------------ MODULE UdpService ------------------------------
(***************************************************************************)
(* The UDP side of 02_tcp_udp_proxy/main_service.c: the main thread reads   *)
(* datagrams from the UDP listeners and gives each to the worker pool; a    *)
(* worker sends it back (echo), or sends it to the target from a socket of  *)
(* its own and returns the first answer (proxy); at the end main_t closes   *)
(* the listeners, stops the pool and joins the workers.                     *)
(*                                                                         *)
(* The pool is TaskPool, which TaskQueue implements.  A request stands for  *)
(* its sender and its content, both of which dispatch_udp_packets copies    *)
(* into the task.  Main thread and workers share one descriptor table.      *)
(***************************************************************************)
EXTENDS Integers, Sequences, FiniteSets

CONSTANTS Listeners,  \* the UDP listeners
          Service,    \* Service[l]: "echo" or "proxy"
          Workers,    \* the worker threads
          Tasks,      \* the addresses malloc can return for a task_t
          Ports,      \* the local ports connect can give an upstream socket
          MaxFd,      \* the descriptors are 1..MaxFd, the process's limit
          MaxReqs,    \* bound: how many datagrams the clients send
          NULL        \* the null pointer, and "nothing"

ASSUME ServiceAssumption == Service \in [Listeners -> {"echo", "proxy"}]
ASSUME LimitAssumption == MaxFd \in Nat /\ MaxReqs \in Nat
ASSUME DistinctAssumption ==
  NULL \notin Workers \cup Listeners \cup Tasks /\ Workers \cap Listeners = {}

Fds == 1..MaxFd
Reqs == 1..MaxReqs
ZeroFd == 0  \* Faulty: memset alone, without event.fd = -1.
NoFd == -1

VARIABLES
  phase,      \* where the main thread is
  gStop,      \* g_stop
  listenFd,   \* channels[].event.fd of each listener
  batch,      \* events[j .. num_events): the listeners not served yet
  channel,    \* the listener dispatch_udp_packets serves, or NULL
  file,       \* what each open descriptor refers to: a listener, the worker
              \* whose upstream socket it is, or NULL
  sent,       \* history: the listener each request was sent to
  sockq,      \* the requests in the receive buffer of each listener
  task,       \* the request and client_fd of the task at each address
  pending, running, accepting,  \* the pool
  stage,      \* where each worker is in process_task
  up,         \* upstream_fd of each worker and the port connect gave it
  buf,        \* the request whose answer each worker has received, or NULL
  toTarget,   \* history: the requests sent to the target, with their ports
  sendtos,    \* history: the calls of sendto for the sender of each request
  handled     \* history: the requests whose task has ended

poolVars == <<pending, running, accepting>>
mainVars == <<phase, gStop, listenFd, batch, channel>>
workVars == <<stage, up, buf, toTarget, sendtos, handled>>
vars == <<mainVars, file, sent, sockq, task, poolVars, workVars>>

Pool == INSTANCE TaskPool

Phases == {"open", "test", "batch", "recv", "quit", "join", "done"}
WorkStages == {"idle", "start", "connect", "send", "poll", "reply", "close", "free"}
Sockets == Listeners \cup Workers
NoUpstream == [fd |-> NoFd, port |-> NULL]
NoTask == [req |-> NULL, fd |-> NoFd]

Init == /\ phase = "open" /\ gStop = FALSE /\ batch = {} /\ channel = NULL
        /\ listenFd = [l \in Listeners |-> NoFd] /\ file = [fd \in Fds |-> NULL]
        /\ sent = <<>> /\ sockq = [l \in Listeners |-> {}]
        /\ task = [t \in Tasks |-> NoTask] /\ Pool!Init
        /\ stage = [w \in Workers |-> "idle"] /\ up = [w \in Workers |-> NoUpstream]
        /\ buf = [w \in Workers |-> NULL] /\ toTarget = {}
        /\ sendtos = [r \in Reqs |-> <<>>] /\ handled = {}

FreeFds == {fd \in Fds : file[fd] = NULL}
\* The kernel hands out the lowest free descriptor.
LowestFd == CHOOSE fd \in FreeFds : \A other \in FreeFds : fd <= other

-----------------------------------------------------------------------------
(* Signals and clients.                                                    *)

\* SIGTERM or SIGINT.
StopRequested ==
  /\ phase # "done" /\ gStop' = TRUE
  /\ UNCHANGED <<phase, listenFd, batch, channel, file, sent, sockq, task, poolVars, workVars>>

\* A datagram reaches the receive buffer of a listener.
Arrive(l) ==
  /\ listenFd[l] # NoFd /\ Len(sent) < MaxReqs
  /\ sent' = Append(sent, l)
  /\ sockq' = [sockq EXCEPT ![l] = @ \cup {Len(sent) + 1}]
  /\ UNCHANGED <<mainVars, file, task, poolVars, workVars>>

-----------------------------------------------------------------------------
(* The main thread.                                                        *)

\* createUdpSocket and addfd, or a failure after which main_t jumps to quit.
OpenListener(l) ==
  /\ phase = "open" /\ listenFd[l] = NoFd
  /\ \/ /\ FreeFds # {}
        /\ file' = [file EXCEPT ![LowestFd] = l]
        /\ listenFd' = [listenFd EXCEPT ![l] = LowestFd]
        /\ UNCHANGED phase
     \/ /\ phase' = "quit"
        /\ UNCHANGED <<file, listenFd>>
  /\ UNCHANGED <<gStop, batch, channel, sent, sockq, task, poolVars, workVars>>

EnterLoop ==
  /\ phase = "open" /\ \A l \in Listeners : listenFd[l] # NoFd
  /\ phase' = "test"
  /\ UNCHANGED <<gStop, listenFd, batch, channel, file, sent, sockq, task, poolVars, workVars>>

\* while (!g_stop) and epoll_wait, which reports every listener that is ready,
\* none after a second, or fails.
LoopTest ==
  /\ phase = "test"
  /\ \/ /\ ~gStop
        /\ batch' = {l \in Listeners : sockq[l] # {}}
        /\ phase' = "batch"
     \/ /\ phase' = "quit"
        /\ UNCHANGED batch
  /\ UNCHANGED <<gStop, listenFd, channel, file, sent, sockq, task, poolVars, workVars>>

\* An EPOLLIN event of a UDP listener: dispatch_udp_packets.
ListenerEvent(l) ==
  /\ phase = "batch" /\ l \in batch
  /\ batch' = batch \ {l} /\ channel' = l /\ phase' = "recv"
  /\ UNCHANGED <<gStop, listenFd, file, sent, sockq, task, poolVars, workVars>>

\* EPOLLERR or EPOLLHUP of a listener: the rest of the batch is dropped.
ListenerError ==
  /\ phase = "batch"
  /\ gStop' = TRUE /\ batch' = {}
  /\ UNCHANGED <<phase, listenFd, channel, file, sent, sockq, task, poolVars, workVars>>

EndBatch ==
  /\ phase = "batch" /\ batch = {}
  /\ phase' = "test"
  /\ UNCHANGED <<gStop, listenFd, batch, channel, file, sent, sockq, task, poolVars, workVars>>

\* One turn of dispatch_udp_packets: malloc, recvfrom and task_queue_push.
Dispatch(r, t) ==
  /\ phase = "recv" /\ r \in sockq[channel]
  /\ sockq' = [sockq EXCEPT ![channel] = @ \ {r}]
  /\ task' = [task EXCEPT ![t] = [req |-> r, fd |-> listenFd[channel]]]
  /\ Pool!Submit(t)
  /\ UNCHANGED <<mainVars, file, sent, workVars>>

\* recvfrom finds nothing or fails, or malloc fails.
DispatchEnds ==
  /\ phase = "recv"
  /\ channel' = NULL /\ phase' = "batch"
  /\ UNCHANGED <<gStop, listenFd, batch, file, sent, sockq, task, poolVars, workVars>>

\* quit: one listener is closed, what its buffer holds is lost.
CloseListener(l) ==
  /\ phase = "quit" /\ listenFd[l] # NoFd
  /\ file' = [file EXCEPT ![listenFd[l]] = NULL]
  /\ listenFd' = [listenFd EXCEPT ![l] = NoFd]
  /\ sockq' = [sockq EXCEPT ![l] = {}]
  /\ UNCHANGED <<phase, gStop, batch, channel, sent, task, poolVars, workVars>>

\* task_queue_stop, once the listeners are closed.
StopPool ==
  /\ phase = "quit" /\ \A l \in Listeners : listenFd[l] = NoFd
  /\ Pool!Close
  /\ phase' = "join"
  /\ UNCHANGED <<gStop, listenFd, batch, channel, file, sent, sockq, task, workVars>>

\* The last pthread_join returns: every task was run.
Join ==
  /\ phase = "join" /\ pending = <<>> /\ \A w \in Workers : running[w] = NULL
  /\ phase' = "done"
  /\ UNCHANGED <<gStop, listenFd, batch, channel, file, sent, sockq, task, poolVars, workVars>>

-----------------------------------------------------------------------------
(* A worker: task_queue_pop, process_task, free.                           *)

ReqOf(w) == task[running[w]].req
ServiceOf(w) == Service[sent[ReqOf(w)]]

TakeTask(w) ==
  /\ Pool!Start(w)
  /\ stage' = [stage EXCEPT ![w] = "start"]
  /\ UNCHANGED <<mainVars, file, sent, sockq, task, up, buf, toTarget, sendtos, handled>>

\* sendto(client_fd) to the sender of the request, attempted once: nothing the
\* worker does next depends on what comes of it.  The descriptor is a number, so
\* the socket is the one that has that number now.
SendTo(w, answer) ==
  sendtos' = [sendtos EXCEPT ![ReqOf(w)] =
                Append(@, [answer |-> answer, socket |-> file[task[running[w]].fd]])]

\* process_task of an echo listener.
EchoReply(w) ==
  /\ stage[w] = "start" /\ ServiceOf(w) = "echo"
  /\ SendTo(w, ReqOf(w))
  /\ stage' = [stage EXCEPT ![w] = "free"]
  /\ UNCHANGED <<mainVars, file, sent, sockq, task, poolVars, up, buf, toTarget, handled>>

\* process_udp_proxy_packet: socket.
OpenUpstream(w) ==
  /\ stage[w] = "start" /\ ServiceOf(w) = "proxy" /\ FreeFds # {}
  /\ file' = [file EXCEPT ![LowestFd] = w]
  /\ up' = [up EXCEPT ![w] = [fd |-> LowestFd, port |-> NULL]]
  /\ stage' = [stage EXCEPT ![w] = "connect"]
  /\ UNCHANGED <<mainVars, sent, sockq, task, poolVars, buf, toTarget, sendtos, handled>>

\* The target's address is no address, or there is no socket: nothing to close.
NoSocket(w) ==
  /\ stage[w] = "start" /\ ServiceOf(w) = "proxy"
  /\ stage' = [stage EXCEPT ![w] = "free"]
  /\ UNCHANGED <<mainVars, file, sent, sockq, task, poolVars, up, buf, toTarget, sendtos, handled>>

AllPorts == Ports  \* Faulty: the workers share their upstream sockets.

\* Each request has a socket of its own, so no two open ones have the same port;
\* connect may give it the port that a closed one had.
FreePorts == Ports \ {up[w].port : w \in Workers}

\* connect, which gives the socket its port.
ConnectTarget(w, p) ==
  /\ stage[w] = "connect" /\ p \in FreePorts
  /\ up' = [up EXCEPT ![w].port = p]
  /\ stage' = [stage EXCEPT ![w] = "send"]
  /\ UNCHANGED <<mainVars, file, sent, sockq, task, poolVars, buf, toTarget, sendtos, handled>>

\* send.
SendToTarget(w) ==
  /\ stage[w] = "send"
  /\ toTarget' = toTarget \cup {[port |-> up[w].port, req |-> ReqOf(w)]}
  /\ stage' = [stage EXCEPT ![w] = "poll"]
  /\ UNCHANGED <<mainVars, file, sent, sockq, task, poolVars, up, buf, sendtos, handled>>

\* poll and recv.  The target may answer whatever it was sent, late or more than
\* once; a connected socket gets what comes to its own port.
RecvAnswer(w, m) ==
  /\ stage[w] = "poll" /\ m \in toTarget /\ m.port = up[w].port
  /\ buf' = [buf EXCEPT ![w] = m.req]
  /\ stage' = [stage EXCEPT ![w] = "reply"]
  /\ UNCHANGED <<mainVars, file, sent, sockq, task, poolVars, up, toTarget, sendtos, handled>>

PollAgain == "poll"  \* Faulty: the worker goes on to wait for further answers.
AfterReply == "close"

\* sendto(task->client_fd, buf).
ProxyReply(w) ==
  /\ stage[w] = "reply"
  /\ SendTo(w, buf[w])
  /\ buf' = [buf EXCEPT ![w] = NULL]
  /\ stage' = [stage EXCEPT ![w] = AfterReply]
  /\ UNCHANGED <<mainVars, file, sent, sockq, task, poolVars, up, toTarget, handled>>

\* Faulty: the client's descriptor is closed too, as process_task does for TCP.
CloseBoth(w) == [fd \in Fds |-> IF fd \in {up[w].fd, task[running[w]].fd}
                                THEN NULL ELSE file[fd]]

CloseUpstream(w) == [fd \in Fds |-> IF fd = up[w].fd THEN NULL ELSE file[fd]]

\* close(upstream_fd) and return, which each of the next seven actions does.
Leave(w) ==
  /\ file' = CloseUpstream(w)
  /\ up' = [up EXCEPT ![w] = NoUpstream]
  /\ stage' = [stage EXCEPT ![w] = "free"]
  /\ UNCHANGED <<mainVars, sent, sockq, task, poolVars, buf, toTarget, sendtos, handled>>

ConnectFails(w) == stage[w] = "connect" /\ Leave(w)

\* Faulty: upstream_fd is not closed on this one way out.
SendFailsLeavesOpen(w) ==
  /\ stage[w] = "send"
  /\ up' = [up EXCEPT ![w] = NoUpstream]
  /\ stage' = [stage EXCEPT ![w] = "free"]
  /\ UNCHANGED <<mainVars, file, sent, sockq, task, poolVars, buf, toTarget, sendtos, handled>>

SendFails(w) == stage[w] = "send" /\ Leave(w)

MayNotTimeOut == FALSE  \* Faulty: poll waits for ever.
MayTimeOut == TRUE

\* poll returns 0 after UDP_PROXY_TIMEOUT_MS.
TimesOut(w) == stage[w] = "poll" /\ MayTimeOut /\ Leave(w)

\* poll fails; or reports an error or a hang-up without input; or recv fails.
PollFails(w) == stage[w] = "poll" /\ Leave(w)
NoInput(w) == stage[w] = "poll" /\ Leave(w)
RecvFails(w) == stage[w] = "poll" /\ Leave(w)

\* The last close, after the sendto.
CloseAfterReply(w) == stage[w] = "close" /\ Leave(w)

\* process_task has returned: free(task).
EndTask(w) ==
  /\ stage[w] = "free"
  /\ handled' = handled \cup {ReqOf(w)}
  /\ task' = [task EXCEPT ![running[w]] = NoTask]
  /\ stage' = [stage EXCEPT ![w] = "idle"]
  /\ Pool!Finish(w)
  /\ UNCHANGED <<mainVars, file, sent, sockq, up, buf, toTarget, sendtos>>

Terminated == phase = "done" /\ UNCHANGED vars
-----------------------------------------------------------------------------
WorkerStep(w) ==
  \/ TakeTask(w) \/ EchoReply(w)
  \/ OpenUpstream(w) \/ NoSocket(w)
  \/ (\E p \in Ports : ConnectTarget(w, p)) \/ ConnectFails(w)
  \/ SendToTarget(w) \/ SendFails(w)
  \/ TimesOut(w) \/ ProxyReply(w) \/ CloseAfterReply(w) \/ EndTask(w)

MainStep ==
  \/ \E l \in Listeners : OpenListener(l) \/ ListenerEvent(l) \/ CloseListener(l)
  \/ \E r \in Reqs, t \in Tasks : Dispatch(r, t)
  \/ EnterLoop \/ LoopTest \/ ListenerError \/ EndBatch \/ DispatchEnds \/ StopPool \/ Join

Environment ==
  \/ StopRequested
  \/ \E l \in Listeners : Arrive(l)
  \/ \E w \in Workers, m \in toTarget : RecvAnswer(w, m)
  \/ \E w \in Workers : PollFails(w) \/ NoInput(w) \/ RecvFails(w)

Next == Environment \/ MainStep \/ (\E w \in Workers : WorkerStep(w)) \/ Terminated

SafeSpec == Init /\ [][Next]_vars

\* Every thread goes on; poll returns after five seconds at the latest.  No
\* datagram, answer, error or signal has to come.  The datagrams of the model are
\* finitely many: dispatch_udp_packets only returns when its buffer is empty.
Spec == /\ SafeSpec
        /\ WF_vars(MainStep)
        /\ \A w \in Workers : WF_vars(WorkerStep(w))
-----------------------------------------------------------------------------
(* Properties.                                                             *)

\* Every variable has its type.
TypeOK ==
  /\ phase \in Phases /\ gStop \in BOOLEAN
  /\ batch \subseteq Listeners /\ channel \in Listeners \cup {NULL}
  /\ listenFd \in [Listeners -> Fds \cup {-1}]
  /\ file \in [Fds -> Sockets \cup {NULL}]
  /\ sent \in Seq(Listeners) /\ Len(sent) <= MaxReqs
  /\ sockq \in [Listeners -> SUBSET Reqs]
  /\ task \in [Tasks -> [req : Reqs \cup {NULL}, fd : Fds \cup {-1}]]
  /\ pending \in Seq(Tasks) /\ running \in [Workers -> Tasks \cup {NULL}]
  /\ accepting \in BOOLEAN
  /\ stage \in [Workers -> WorkStages]
  /\ up \in [Workers -> [fd : Fds \cup {-1}, port : Ports \cup {NULL}]]
  /\ buf \in [Workers -> Reqs \cup {NULL}]
  /\ toTarget \subseteq [port : Ports, req : Reqs]
  /\ sendtos \in [Reqs -> Seq([answer : Reqs, socket : Sockets \cup {NULL}])]
  /\ handled \subseteq Reqs

\* Each open descriptor belongs to exactly one listener or worker, which has its
\* number: the upstream socket is not leaked on any of the seven ways out that have
\* one, and no thread closes or uses the socket that another got under the same
\* number (process_udp_proxy_packet).
DescriptorsOwned ==
  /\ \A l \in Listeners : listenFd[l] # NoFd => file[listenFd[l]] = l
  /\ \A w \in Workers : up[w].fd # NoFd => file[up[w].fd] = w
  /\ \A fd \in Fds : file[fd] # NULL => \/ \E l \in Listeners : listenFd[l] = fd
                                        \/ \E w \in Workers : up[w].fd = fd

\* For a request sendto is called at most once, even if the target answers twice;
\* for an echo request that was taken it is called exactly once, with the content
\* of the request.  Whether the call succeeds is not said: shutdown may have closed
\* the socket (process_task, process_udp_proxy_packet).
AnsweredOnce ==
  \A r \in Reqs :
     /\ Len(sendtos[r]) <= 1
     /\ r \in handled /\ Service[sent[r]] = "echo" =>
          Len(sendtos[r]) = 1 /\ sendtos[r][1].answer = r

\* The requests process_task has returned from.
Returned == handled \cup {ReqOf(w) : w \in {v \in Workers : stage[v] = "free"}}

\* The answer a worker passes on is the one to its own request, or a late one to a
\* request that was given up and whose port it got: never that of another request
\* in progress, however the answers are delayed and doubled (one connected socket
\* per request, process_udp_proxy_packet).
NoCrossTalk ==
  \A w \in Workers : buf[w] # NULL => buf[w] = ReqOf(w) \/ buf[w] \in Returned

\* What a worker will use for its reply is the socket the request came to.
ReplySocketOpen ==
  \A t \in Tasks : Pool!InUse(t) => file[task[t].fd] = sent[task[t].req]

\* While the service runs that is so for every task, in the queue or being run,
\* whatever sockets the other workers open and close (task->client_fd is a number).
ServedFromListener == phase \in {"open", "test", "batch", "recv"} => ReplySocketOpen

\* Every sendto of a worker went through the socket the request had come to.
SentFromListener ==
  \A r \in Reqs : \A i \in 1..Len(sendtos[r]) : sendtos[r][i].socket = sent[r]

\* A datagram that was taken is done with, even if the target never answers.
EveryDatagramHandled ==
  \A r \in Reqs : (\E t \in Tasks : task[t].req = r) ~> r \in handled

\* A stop request ends the process, whatever the target does.
ShutdownCompletes == gStop ~> phase = "done"
=============================================================================

-------------------------- MODULE UdpServiceProofs --------------------------
(***************************************************************************)
(* Proofs about UdpService, for every set of listeners, workers, addresses *)
(* and ports, every limit of descriptors and every number of datagrams.    *)
(* Inv is the inductive invariant; its parts say where a request can be,   *)
(* what a worker holds at each stage, and which answers there can be.      *)
(***************************************************************************)
EXTENDS UdpService, BasicFacts

\* The datagrams that were sent.
Known == 1..Len(sent)

\* A task is in the queue once, or in the hands of one worker.
OneHolder ==
  /\ Distinct(pending)
  /\ \A v, w \in Workers : running[v] # NULL /\ running[v] = running[w] => v = w
  /\ \A w \in Workers : running[w] \notin Elements(pending)

\* The tasks in use.
Used == Elements(pending) \cup {running[w] : w \in {v \in Workers : running[v] # NULL}}

\* A request is in a receive buffer, in one task, or done with: never in two
\* of them.
OnePlace ==
  /\ \A l \in Listeners : \A r \in sockq[l] : r \in Known /\ sent[r] = l /\ r \notin handled
  /\ \A t \in Used : /\ task[t].req \in Known /\ task[t].req \notin handled
                     /\ \A l \in Listeners : task[t].req \notin sockq[l]
                     /\ \A u \in Used : task[t].req = task[u].req => t = u
  /\ handled \subseteq Known

\* What a worker holds follows from where it is.
Stages ==
  \A w \in Workers :
    /\ stage[w] = "idle" <=> running[w] = NULL
    /\ stage[w] \in {"idle", "start", "free"} => up[w] = NoUpstream
    /\ stage[w] \in {"idle", "start", "connect", "free"} => up[w].port = NULL
    /\ stage[w] \in {"connect", "send", "poll", "reply", "close"} => ServiceOf(w) = "proxy"
    /\ stage[w] \in {"send", "poll", "reply"} => up[w].port # NULL
    /\ stage[w] = "reply" => buf[w] \in Reqs
    /\ stage[w] # "reply" => buf[w] = NULL

\* Two sockets that are open never have the same port, and what reached the
\* target from a port belongs to a request that was returned from or to the worker
\* that has the port.
PortsOwned ==
  /\ \A v, w \in Workers : up[v].port # NULL /\ up[v].port = up[w].port => v = w
  /\ \A m \in toTarget :
        \/ m.req \in Returned
        \/ \E w \in Workers : up[w].port # NULL /\ up[w].port = m.port /\ ReqOf(w) = m.req

\* sendto was called with the content of the request.
Echoed(r) == Len(sendtos[r]) = 1 /\ sendtos[r][1].answer = r

\* The worker that has answered a request is the one that has its task.
RepliesOwned ==
  /\ \A r \in Reqs : sendtos[r] # <<>> =>
        r \in handled \/ \E w \in Workers : stage[w] \in {"close", "free"} /\ ReqOf(w) = r
  /\ \A w \in Workers : stage[w] = "free" /\ ServiceOf(w) = "echo" => Echoed(ReqOf(w))

Serving == {"open", "test", "batch", "recv"}

\* What the position of the main thread says of the listeners and the tasks.
Control ==
  /\ phase \in {"test", "batch", "recv"} => \A l \in Listeners : listenFd[l] # NoFd
  /\ phase = "recv" => channel \in Listeners
  /\ \A t \in Used : task[t].fd # NoFd
  /\ phase \in Serving =>
       \A t \in Used : /\ task[t].fd = listenFd[sent[task[t].req]]
                       /\ listenFd[sent[task[t].req]] # NoFd

Inv == /\ TypeOK
       /\ DescriptorsOwned
       /\ OneHolder
       /\ OnePlace
       /\ Stages
       /\ PortsOwned
       /\ RepliesOwned
       /\ AnsweredOnce
       /\ NoCrossTalk
       /\ Control

USE ServiceAssumption, LimitAssumption, DistinctAssumption

-----------------------------------------------------------------------------
(* The operators.                                                          *)

\* The kernel's choice is a free descriptor, which no listener and no worker has.
LEMMA LowestIsFree ==
  ASSUME Inv, FreeFds # {}
  PROVE  /\ LowestFd \in Fds /\ file[LowestFd] = NULL
         /\ \A l \in Listeners : listenFd[l] # LowestFd
         /\ \A w \in Workers : up[w].fd # LowestFd
<1>1. FreeFds \subseteq Nat
  BY DEF FreeFds, Fds
<1>2. \E fd \in FreeFds : \A other \in FreeFds : fd <= other
  BY <1>1, LeastElement
<1>3. LowestFd \in FreeFds
  BY <1>2 DEF LowestFd
<1> DEFINE fd == LowestFd
<1>4. fd \in 1..MaxFd /\ file[fd] = NULL
  BY <1>3 DEF FreeFds, Fds
<1> HIDE DEF fd
<1>5. fd # NoFd
  BY <1>4 DEF NoFd
<1>6. \A l \in Listeners : listenFd[l] # fd
  BY <1>4, <1>5 DEF Inv, DescriptorsOwned
<1>7. \A w \in Workers : up[w].fd # fd
  BY <1>4, <1>5 DEF Inv, DescriptorsOwned
<1> QED
  BY <1>4, <1>6, <1>7 DEF fd, Fds

\* The tasks in use are those of the pool.
LEMMA UsedFacts ==
  ASSUME TypeOK
  PROVE  /\ Used \subseteq Tasks
         /\ \A t \in Tasks : t \in Used <=> Pool!InUse(t)
<1>1. /\ pending \in Seq(Tasks) /\ running \in [Workers -> Tasks \cup {NULL}]
      /\ NULL \notin Tasks
  BY DEF TypeOK
<1>2. Elements(pending) \subseteq Tasks
  BY <1>1, ElementOfSeq, LenProperties DEF Elements
<1> QED
  BY <1>1, <1>2 DEF Used, Elements, Pool!InUse

\* What a worker that is not idle has.
LEMMA WorkerHolds ==
  ASSUME Inv, NEW w \in Workers, stage[w] # "idle"
  PROVE  /\ running[w] \in Tasks \cap Used
         /\ ReqOf(w) \in Reqs /\ ReqOf(w) \in Known \ handled
         /\ sent[ReqOf(w)] \in Listeners
         /\ \A v \in Workers : stage[v] # "idle" /\ ReqOf(v) = ReqOf(w) => v = w
<1>1. \A v \in Workers : stage[v] # "idle" => running[v] # NULL /\ running[v] \in Used
  BY DEF Inv, Stages, Used
<1>2. running[w] \in Tasks
  BY <1>1, UsedFacts DEF Inv
<1>3. ReqOf(w) \in Known \ handled
  BY <1>1 DEF Inv, OnePlace, ReqOf
<1>4. ReqOf(w) \in Reqs /\ sent[ReqOf(w)] \in Listeners
  <2>1. sent \in Seq(Listeners) /\ Len(sent) <= MaxReqs
    BY DEF Inv, TypeOK
  <2>2. Len(sent) \in Nat /\ \A i \in 1..Len(sent) : sent[i] \in Listeners
    BY <2>1, LenProperties, ElementOfSeq
  <2> QED
    BY <1>3, <2>1, <2>2 DEF Known, Reqs
<1>5. \A v \in Workers : stage[v] # "idle" /\ ReqOf(v) = ReqOf(w) => v = w
  BY <1>1 DEF Inv, OnePlace, OneHolder, ReqOf
<1> QED
  BY <1>1, <1>2, <1>3, <1>4, <1>5

-----------------------------------------------------------------------------
(* Init, and one lemma per kind of step.                                   *)

\* The initial states satisfy the invariant.
LEMMA InitInv == Init => Inv
<1> SUFFICES ASSUME Init PROVE Inv
  OBVIOUS
<1> USE DEF Init, Pool!Init
<1>1. Used = {} /\ Elements(pending) = {} /\ Distinct(pending) /\ Len(sent) = 0
  BY DEF Used, Elements, Distinct
<1>2. TypeOK
  <2>1. phase \in Phases /\ gStop \in BOOLEAN /\ accepting \in BOOLEAN
    BY DEF Phases
  <2>2. sent \in Seq(Listeners) /\ Len(sent) <= MaxReqs /\ pending \in Seq(Tasks)
    BY <1>1
  <2>3. sendtos \in [Reqs -> Seq([answer : Reqs, socket : Sockets \cup {NULL}])]
    OBVIOUS
  <2>4. task \in [Tasks -> [req : Reqs \cup {NULL}, fd : Fds \cup {-1}]]
    BY DEF NoTask, NoFd
  <2>5. up \in [Workers -> [fd : Fds \cup {-1}, port : Ports \cup {NULL}]]
    BY DEF NoUpstream, NoFd
  <2>6. stage \in [Workers -> WorkStages]
    BY DEF WorkStages
  <2> QED
    BY <2>1, <2>2, <2>3, <2>4, <2>5, <2>6 DEF TypeOK, NoFd
<1>3. DescriptorsOwned /\ OneHolder /\ OnePlace
  BY <1>1 DEF DescriptorsOwned, NoUpstream, OneHolder, OnePlace
<1>4. Stages /\ PortsOwned
  BY DEF Stages, PortsOwned, NoUpstream, Returned
<1>5. RepliesOwned /\ AnsweredOnce /\ NoCrossTalk /\ Control
  BY <1>1 DEF RepliesOwned, AnsweredOnce, NoCrossTalk, Control
<1> QED
  BY <1>2, <1>3, <1>4, <1>5 DEF Inv

\* Only the main thread's position or a flag changes.
LEMMA MainQuietInv ==
  ASSUME Inv,
         \/ StopRequested \/ EnterLoop \/ LoopTest \/ ListenerError \/ EndBatch \/ DispatchEnds
         \/ StopPool \/ Join \/ UNCHANGED vars
         \/ \E l \in Listeners : ListenerEvent(l)
  PROVE  Inv'
<1> USE DEF StopRequested, EnterLoop, LoopTest, ListenerError, EndBatch, DispatchEnds,
            StopPool, Join, ListenerEvent, Pool!Close, vars, mainVars, workVars, poolVars
<1>1. UNCHANGED <<listenFd, file, sent, sockq, task, pending, running>> /\ UNCHANGED workVars
  OBVIOUS
<1>2. TypeOK'
  <2>1. phase' \in Phases
    BY DEF Inv, TypeOK, Phases
  <2>2. gStop' \in BOOLEAN
    BY DEF Inv, TypeOK
  <2>3. accepting' \in BOOLEAN
    BY DEF Inv, TypeOK
  <2>4. batch' \subseteq Listeners /\ channel' \in Listeners \cup {NULL}
    BY DEF Inv, TypeOK
  <2> QED
    BY <1>1, <2>1, <2>2, <2>3, <2>4 DEF Inv, TypeOK
<1>3. Control'
  <2>1. Used' = Used
    BY <1>1 DEF Used, Elements
  <2>2. phase' \in {"test", "batch", "recv"} => \A l \in Listeners : listenFd'[l] # NoFd
    BY <1>1 DEF Inv, Control
  <2>3. phase' = "recv" => channel' \in Listeners
    BY DEF Inv, Control
  <2>4. phase' \in Serving => phase \in Serving
    BY DEF Serving
  <2> QED
    BY <1>1, <2>1, <2>2, <2>3, <2>4 DEF Inv, Control
<1>4. /\ DescriptorsOwned' /\ OneHolder' /\ OnePlace' /\ Stages'
  BY <1>1 DEF Inv, DescriptorsOwned, OneHolder, OnePlace, Stages, Known, Used, Elements,
              Distinct, ServiceOf, ReqOf
<1>5. PortsOwned' /\ RepliesOwned' /\ AnsweredOnce' /\ NoCrossTalk'
  BY <1>1 DEF Inv, PortsOwned, RepliesOwned, AnsweredOnce, NoCrossTalk, ServiceOf, ReqOf,
              Returned, Echoed
<1> QED
  BY <1>2, <1>3, <1>4, <1>5 DEF Inv

\* A datagram arrives: its number is new.
LEMMA ArriveInv ==
  ASSUME Inv, NEW l \in Listeners, Arrive(l)
  PROVE  Inv'
<1> USE DEF Arrive, mainVars, workVars, poolVars
<1> DEFINE r == Len(sent) + 1
<1>1. /\ sent \in Seq(Listeners) /\ Len(sent) \in Nat /\ Len(sent) < MaxReqs
      /\ sent' = Append(sent, l) /\ sent' \in Seq(Listeners) /\ Len(sent') = r
      /\ sent'[r] = l /\ \A i \in Known : sent'[i] = sent[i]
  BY AppendProperties, LenProperties DEF Inv, TypeOK, Known
<1>2. Known' = Known \cup {r} /\ r \notin Known /\ r \in Reqs /\ Known \subseteq Reqs
  BY <1>1 DEF Known, Reqs
<1>3. sockq' = [sockq EXCEPT ![l] = @ \cup {r}]
  OBVIOUS
<1> HIDE DEF r
<1>4. Used' = Used /\ UNCHANGED <<task, pending, running>>
  BY DEF Used, Elements
<1>5. TypeOK'
  <2>1. sent' \in Seq(Listeners) /\ Len(sent') <= MaxReqs
    BY <1>1 DEF r
  <2>2. sockq' \in [Listeners -> SUBSET Reqs]
    BY <1>2, <1>3 DEF Inv, TypeOK
  <2> QED
    BY <2>1, <2>2 DEF Inv, TypeOK
<1>6. OnePlace'
  <2>1. \A m \in Listeners : \A q \in sockq'[m] : q \in sockq[m] \/ (q = r /\ m = l)
    BY <1>3 DEF Inv, TypeOK
  <2>2. \A m \in Listeners : \A q \in sockq[m] : q \in Known /\ sent[q] = m /\ q \notin handled
    BY DEF Inv, OnePlace
  <2>7. handled' = handled /\ handled \subseteq Known
    BY <1>2 DEF Inv, OnePlace
  <2>3. \A m \in Listeners : \A q \in sockq'[m] : q \in Known' /\ sent'[q] = m /\ q \notin handled'
    <3> HIDE DEF Arrive
    <3> SUFFICES ASSUME NEW m \in Listeners, NEW q \in sockq'[m]
                 PROVE  q \in Known' /\ sent'[q] = m /\ q \notin handled
      BY <2>7
    <3>1. CASE q \in sockq[m]
      BY <1>1, <1>2, <2>2, <3>1
    <3>2. CASE q = r /\ m = l
      BY <1>1, <1>2, <2>7, <3>2
    <3> QED
      BY <2>1, <3>1, <3>2
  <2>4. \A t \in Used : task[t].req \in Known /\ task[t].req # r /\ task[t].req \notin handled
    BY <1>2 DEF Inv, OnePlace
  <2>5. \A t \in Used : \A m \in Listeners : task[t].req \notin sockq'[m]
    BY <2>1, <2>4 DEF Inv, OnePlace
  <2>6. \A t, u \in Used : task[t].req = task[u].req => t = u
    BY DEF Inv, OnePlace
  <2> HIDE DEF Arrive
  <2> QED
    BY <1>2, <1>4, <2>3, <2>4, <2>5, <2>6, <2>7 DEF OnePlace
<1>7. \A w \in Workers : stage[w] # "idle" => sent'[ReqOf(w)] = sent[ReqOf(w)]
  BY <1>1, WorkerHolds
<1>8. Stages'
  BY <1>7 DEF Inv, Stages, ServiceOf, ReqOf
<1>9. DescriptorsOwned' /\ OneHolder' /\ PortsOwned'
  BY DEF Inv, DescriptorsOwned, OneHolder, PortsOwned, Elements, Distinct, ReqOf, Returned
<1>10. RepliesOwned'
  <2>1. \A w \in Workers : stage[w] = "free" => ServiceOf(w)' = ServiceOf(w)
    BY <1>7 DEF ServiceOf, ReqOf
  <2>2. \A w \in Workers : ReqOf(w)' = ReqOf(w)
    BY DEF ReqOf
  <2> QED
    BY <2>1, <2>2 DEF Inv, RepliesOwned, Echoed
<1>11. AnsweredOnce'
  <2>1. \A q \in handled : sent'[q] = sent[q]
    BY <1>1 DEF Inv, OnePlace
  <2> QED
    BY <2>1 DEF Inv, AnsweredOnce
<1>12. NoCrossTalk'
  BY DEF Inv, NoCrossTalk, ReqOf, Returned
<1>13. Control'
  <2>1. \A t \in Used : sent'[task[t].req] = sent[task[t].req]
    BY <1>1 DEF Inv, OnePlace
  <2> QED
    BY <1>4, <2>1 DEF Inv, Control
<1> QED
  BY <1>5, <1>6, <1>8, <1>9, <1>10, <1>11, <1>12, <1>13 DEF Inv

\* What speaks of tasks, requests and workers does not depend on the descriptors,
\* and closing a listener empties its buffer.
LEMMA ListenerStepAgrees ==
  ASSUME Inv, UNCHANGED <<sent, task, poolVars, workVars>>, sockq' \in [Listeners -> SUBSET Reqs],
         \A l \in Listeners : sockq'[l] \subseteq sockq[l]
  PROVE  /\ OneHolder' /\ OnePlace' /\ Stages' /\ PortsOwned' /\ RepliesOwned'
         /\ AnsweredOnce' /\ NoCrossTalk' /\ Used' = Used
<1> USE DEF poolVars, workVars
<1>1. Used' = Used /\ Known' = Known
  BY DEF Used, Elements, Known
<1>2. OneHolder' /\ Stages'
  BY DEF Inv, OneHolder, Stages, Elements, Distinct, ServiceOf, ReqOf
<1>3. OnePlace'
  BY <1>1 DEF Inv, OnePlace
<1>4. PortsOwned' /\ RepliesOwned' /\ AnsweredOnce' /\ NoCrossTalk'
  BY DEF Inv, PortsOwned, RepliesOwned, AnsweredOnce, NoCrossTalk, ServiceOf, ReqOf, Returned,
         Echoed
<1> QED
  BY <1>1, <1>2, <1>3, <1>4

\* A listener takes a descriptor, or the main thread gives up.
LEMMA OpenListenerInv ==
  ASSUME Inv, NEW l \in Listeners, OpenListener(l)
  PROVE  Inv'
<1>1. /\ OneHolder' /\ OnePlace' /\ Stages' /\ PortsOwned' /\ RepliesOwned'
      /\ AnsweredOnce' /\ NoCrossTalk' /\ Used' = Used
  <2>1. /\ UNCHANGED <<sent, task, poolVars, workVars>> /\ sockq' \in [Listeners -> SUBSET Reqs]
        /\ \A m \in Listeners : sockq'[m] \subseteq sockq[m]
    BY DEF OpenListener, Inv, TypeOK
  <2> QED
    BY <2>1, ListenerStepAgrees
<1> USE DEF OpenListener, workVars, poolVars
<1>2. CASE UNCHANGED <<file, listenFd>> /\ phase' = "quit"
  <2>1. TypeOK' /\ DescriptorsOwned'
    BY <1>2 DEF Inv, TypeOK, Phases, DescriptorsOwned
  <2>2. Control'
    BY <1>1, <1>2 DEF Inv, Control, Serving
  <2> QED
    BY <1>1, <2>1, <2>2 DEF Inv
<1>3. CASE /\ FreeFds # {} /\ file' = [file EXCEPT ![LowestFd] = l]
           /\ listenFd' = [listenFd EXCEPT ![l] = LowestFd] /\ UNCHANGED phase
  <2> DEFINE fd == LowestFd
  <2>1. /\ fd \in Fds /\ file[fd] = NULL
        /\ \A m \in Listeners : listenFd[m] # fd
        /\ \A w \in Workers : up[w].fd # fd
    BY <1>3, LowestIsFree
  <2>2. file' = [file EXCEPT ![fd] = l] /\ listenFd' = [listenFd EXCEPT ![l] = fd]
    BY <1>3
  <2> HIDE DEF fd
  <2>3. TypeOK'
    <3>1. file' \in [Fds -> Sockets \cup {NULL}] /\ listenFd' \in [Listeners -> Fds \cup {-1}]
      BY <2>1, <2>2 DEF Inv, TypeOK, Sockets
    <3>2. sockq' = sockq /\ phase' = phase
      BY <1>3
    <3> QED
      BY <3>1, <3>2 DEF Inv, TypeOK
  <2>4. DescriptorsOwned'
    <3>1. \A m \in Listeners : listenFd'[m] # NoFd => file'[listenFd'[m]] = m
      BY <2>1, <2>2 DEF Inv, TypeOK, DescriptorsOwned, NoFd
    <3>2. \A w \in Workers : up'[w].fd # NoFd => file'[up'[w].fd] = w
      BY <2>1, <2>2 DEF Inv, TypeOK, DescriptorsOwned, NoFd
    <3>3. ASSUME NEW f \in Fds, file'[f] # NULL
          PROVE  (\E m \in Listeners : listenFd'[m] = f) \/ \E w \in Workers : up'[w].fd = f
      <4>1. CASE f = fd
        BY <2>2, <4>1 DEF Inv, TypeOK
      <4>2. CASE f # fd
        <5>1. file[f] # NULL
          BY <2>2, <3>3, <4>2 DEF Inv, TypeOK
        <5>2. \A m \in Listeners : listenFd[m] = f => m # l
          BY DEF NoFd, Fds
        <5> QED
          BY <2>2, <5>1, <5>2 DEF Inv, TypeOK, DescriptorsOwned
      <4> QED
        BY <4>1, <4>2
    <3> QED
      BY <3>1, <3>2, <3>3 DEF DescriptorsOwned
  <2>5. Control'
    <3>1. \A t \in Used : /\ task[t].fd = listenFd[sent[task[t].req]]
                          /\ listenFd[sent[task[t].req]] # NoFd
      BY DEF Inv, Control, Serving
    <3>2. \A t \in Used : /\ sent[task[t].req] # l
                          /\ listenFd'[sent[task[t].req]] = listenFd[sent[task[t].req]]
      BY <2>2, <3>1 DEF Inv, TypeOK
    <3> QED
      BY <1>1, <1>3, <3>1, <3>2 DEF Inv, Control
  <2> QED
    BY <1>1, <2>3, <2>4, <2>5 DEF Inv
<1> QED
  BY <1>2, <1>3

\* A listener is closed, and nobody else's descriptor.
LEMMA CloseListenerInv ==
  ASSUME Inv, NEW l \in Listeners, CloseListener(l)
  PROVE  Inv'
<1> DEFINE fd == listenFd[l]
<1>1. /\ file' = [file EXCEPT ![fd] = NULL] /\ listenFd' = [listenFd EXCEPT ![l] = NoFd]
      /\ sockq' = [sockq EXCEPT ![l] = {}] /\ fd # NoFd /\ fd \in Fds /\ phase = "quit"
      /\ UNCHANGED <<phase, gStop, batch, channel, sent, task, poolVars, workVars>>
  BY DEF CloseListener, Inv, TypeOK, NoFd
<1> HIDE DEF fd
<1>2. sockq' \in [Listeners -> SUBSET Reqs] /\ \A m \in Listeners : sockq'[m] \subseteq sockq[m]
  BY <1>1 DEF Inv, TypeOK
<1>3. /\ OneHolder' /\ OnePlace' /\ Stages' /\ PortsOwned' /\ RepliesOwned'
      /\ AnsweredOnce' /\ NoCrossTalk' /\ Used' = Used
  BY <1>1, <1>2, ListenerStepAgrees
<1>4. TypeOK'
  BY <1>1, <1>2 DEF Inv, TypeOK, NoFd, poolVars, workVars
<1>5. DescriptorsOwned'
  <2>1. file[fd] = l
    BY <1>1 DEF Inv, DescriptorsOwned, fd
  <2>2. \A m \in Listeners \ {l} : listenFd'[m] = listenFd[m] /\ listenFd[m] # fd
    BY <1>1, <2>1 DEF Inv, TypeOK, DescriptorsOwned
  <2>3. \A w \in Workers : up'[w] = up[w] /\ up[w].fd # fd
    BY <1>1, <2>1 DEF Inv, DescriptorsOwned, workVars
  <2>4. \A f \in Fds : f # fd => file'[f] = file[f]
    BY <1>1 DEF Inv, TypeOK
  <2>5. listenFd'[l] = NoFd /\ file'[fd] = NULL
    BY <1>1 DEF Inv, TypeOK
  <2>6. \A m \in Listeners : listenFd'[m] # NoFd => file'[listenFd'[m]] = m
    BY <2>2, <2>4, <2>5 DEF Inv, TypeOK, DescriptorsOwned, NoFd
  <2>7. \A w \in Workers : up'[w].fd # NoFd => file'[up'[w].fd] = w
    BY <2>3, <2>4 DEF Inv, TypeOK, DescriptorsOwned, NoFd
  <2>8. \A f \in Fds : file'[f] # NULL => f # fd /\ file[f] # NULL
    BY <2>4, <2>5
  <2>9. \A f \in Fds : f # fd /\ (\E m \in Listeners : listenFd[m] = f)
          => \E m \in Listeners : listenFd'[m] = f
    BY <2>2 DEF fd
  <2> QED
    BY <2>3, <2>6, <2>7, <2>8, <2>9 DEF Inv, DescriptorsOwned
<1>6. Control'
  BY <1>1, <1>3 DEF Inv, Control, Serving
<1> QED
  BY <1>3, <1>4, <1>5, <1>6 DEF Inv

\* A datagram becomes a task: its request leaves the buffer and is in this task only.
LEMMA DispatchInv ==
  ASSUME Inv, NEW r \in Reqs, NEW t \in Tasks, Dispatch(r, t)
  PROVE  Inv'
<1> USE DEF Dispatch, mainVars, workVars
<1>1. /\ phase = "recv" /\ channel \in Listeners /\ r \in sockq[channel]
      /\ listenFd[channel] # NoFd
  BY DEF Inv, Control
<1>2. /\ pending' = Append(pending, t) /\ UNCHANGED <<running, accepting>> /\ t \notin Used
  BY UsedFacts DEF Pool!Submit, Inv
<1>3. pending' \in Seq(Tasks) /\ Elements(pending') = Elements(pending) \cup {t} /\ Distinct(pending')
  <2>1. pending \in Seq(Tasks) /\ Distinct(pending) /\ t \notin Elements(pending)
    BY <1>2 DEF Inv, TypeOK, OneHolder, Used
  <2> QED
    BY <1>2, <2>1, AppendFacts
<1>4. Used' = Used \cup {t} /\ Known' = Known
  BY <1>2, <1>3 DEF Used, Known
<1>5. /\ r \in Known /\ sent[r] = channel /\ r \notin handled
      /\ \A u \in Used : task[u].req # r
  BY <1>1 DEF Inv, OnePlace
<1>6. /\ task'[t] = [req |-> r, fd |-> listenFd[channel]]
      /\ \A u \in Tasks : u # t => task'[u] = task[u]
  BY DEF Inv, TypeOK
<1>7. /\ \A l \in Listeners : sockq'[l] \subseteq sockq[l] /\ r \notin sockq'[l]
      /\ sockq' \in [Listeners -> SUBSET Reqs]
  BY <1>1, <1>5 DEF Inv, TypeOK, OnePlace
<1>8. Used \subseteq Tasks
  BY UsedFacts DEF Inv
<1>9. \A w \in Workers : running[w] # NULL => ReqOf(w)' = ReqOf(w)
  BY <1>2, <1>6, <1>8 DEF ReqOf, Used
<1>10. TypeOK'
  <2>1. task' \in [Tasks -> [req : Reqs \cup {NULL}, fd : Fds \cup {-1}]]
    <3> DEFINE Type == [req : Reqs \cup {NULL}, fd : Fds \cup {-1}]
    <3>1. task \in [Tasks -> Type] /\ [req |-> r, fd |-> listenFd[channel]] \in Type
      BY <1>1 DEF Inv, TypeOK
    <3> HIDE DEF Type
    <3>2. task' \in [Tasks -> Type]
      BY <3>1
    <3> QED
      BY <3>2 DEF Type
  <2> QED
    BY <1>2, <1>3, <1>7, <2>1 DEF Inv, TypeOK
<1>11. DescriptorsOwned'
  BY DEF Inv, DescriptorsOwned
<1>12. OneHolder'
  BY <1>2, <1>3 DEF Inv, OneHolder, Used
<1>13. OnePlace'
  <2>1. \A l \in Listeners : \A q \in sockq'[l] : q \in Known' /\ sent'[q] = l /\ q \notin handled'
    BY <1>4, <1>7 DEF Inv, OnePlace
  <2>2. \A u \in Used : u # t /\ task'[u] = task[u]
    BY <1>2, <1>6, <1>8
  <2>3. \A u \in Used' : task'[u].req \in Known' \ handled'
    BY <1>4, <1>5, <1>6, <2>2 DEF Inv, OnePlace
  <2>4. \A u \in Used' : \A l \in Listeners : task'[u].req \notin sockq'[l]
    BY <1>4, <1>6, <1>7, <2>2 DEF Inv, OnePlace
  <2>5. \A u, v \in Used' : task'[u].req = task'[v].req => u = v
    BY <1>4, <1>5, <1>6, <2>2 DEF Inv, OnePlace
  <2>6. handled' \subseteq Known'
    BY <1>4 DEF Inv, OnePlace
  <2> QED
    BY <2>1, <2>3, <2>4, <2>5, <2>6 DEF OnePlace
<1>14. Stages'
  BY <1>2, <1>9 DEF Inv, Stages, ServiceOf
<1>9a. Returned' = Returned
  <2>1. \A w \in Workers : stage[w] = "free" => running[w] # NULL
    BY DEF Inv, Stages
  <2> QED
    BY <1>9, <2>1 DEF Returned
<1>15. PortsOwned'
  <2>1. \A w \in Workers : up[w].port # NULL => running[w] # NULL
    BY DEF Inv, Stages
  <2> QED
    BY <1>9, <1>9a, <2>1 DEF Inv, PortsOwned
<1>16. RepliesOwned'
  <2>1. \A w \in Workers : stage[w] \in {"close", "free"} => running[w] # NULL
    BY DEF Inv, Stages
  <2> QED
    BY <1>9, <2>1 DEF Inv, RepliesOwned, ServiceOf, Echoed
<1>17. AnsweredOnce'
  BY DEF Inv, AnsweredOnce
<1>18. NoCrossTalk'
  <2>1. \A w \in Workers : buf[w] # NULL => running[w] # NULL
    BY DEF Inv, Stages
  <2> QED
    BY <1>9, <1>9a, <2>1 DEF Inv, NoCrossTalk
<1>19. Control'
  <2>1. \A u \in Used : u # t /\ task'[u] = task[u]
    BY <1>2, <1>6, <1>8
  <2>2. \A u \in Used' : /\ task'[u].fd = listenFd[sent[task'[u].req]]
                         /\ listenFd[sent[task'[u].req]] # NoFd
    BY <1>1, <1>4, <1>5, <1>6, <2>1 DEF Inv, Control, Serving
  <2>3. \A u \in Used' : task'[u].fd # NoFd
    BY <1>1, <1>4, <1>6, <2>1 DEF Inv, Control
  <2> QED
    BY <2>2, <2>3 DEF Inv, Control
<1> QED
  BY <1>10, <1>11, <1>12, <1>13, <1>14, <1>15, <1>16, <1>17, <1>18, <1>19 DEF Inv

\* A worker takes the oldest task.
LEMMA TakeTaskInv ==
  ASSUME Inv, NEW w \in Workers, TakeTask(w)
  PROVE  Inv'
<1> USE DEF TakeTask, mainVars
<1> DEFINE t == Head(pending)
<1>1. /\ running[w] = NULL /\ pending # <<>> /\ pending' = Tail(pending)
      /\ running' = [running EXCEPT ![w] = t] /\ UNCHANGED accepting
  BY DEF Pool!Start
<1>2. /\ t \in Elements(pending) /\ t \in Tasks /\ pending' \in Seq(Tasks)
      /\ Elements(pending') = Elements(pending) \ {t} /\ Distinct(pending')
  <2>1. pending \in Seq(Tasks) /\ Distinct(pending) /\ pending # <<>>
    BY <1>1 DEF Inv, TypeOK, OneHolder
  <2>2. t \in Tasks
    BY <2>1, HeadTailProperties
  <2> QED
    BY <1>1, <2>1, <2>2, TailFacts
<1> HIDE DEF t
<1>3. t # NULL /\ running'[w] = t /\ \A v \in Workers : v # w => running'[v] = running[v]
  BY <1>1, <1>2 DEF Inv, TypeOK
<1>4. Used' = Used /\ Known' = Known
  <2>1. {running'[v] : v \in {x \in Workers : running'[x] # NULL}}
          = {running[v] : v \in {x \in Workers : running[x] # NULL}} \cup {t}
    BY <1>1, <1>3
  <2> QED
    BY <1>2, <2>1 DEF Used, Known
<1>5. /\ stage[w] = "idle" /\ up[w] = NoUpstream /\ up[w].port = NULL
      /\ buf[w] = NULL
  BY <1>1 DEF Inv, Stages, NoUpstream
<1>6. stage' = [stage EXCEPT ![w] = "start"]
  OBVIOUS
<1>7. \A v \in Workers : v # w => ReqOf(v)' = ReqOf(v) /\ ServiceOf(v)' = ServiceOf(v)
  BY <1>3 DEF ReqOf, ServiceOf
<1>8. TypeOK'
  BY <1>1, <1>2, <1>6 DEF Inv, TypeOK, WorkStages
<1>9. DescriptorsOwned' /\ AnsweredOnce'
  BY DEF Inv, DescriptorsOwned, AnsweredOnce
<1>10. OneHolder'
  BY <1>2, <1>3 DEF Inv, OneHolder
<1>11. OnePlace' /\ Control'
  BY <1>4 DEF Inv, OnePlace, Control
<1>12. Stages'
  BY <1>3, <1>5, <1>6, <1>7 DEF Inv, TypeOK, Stages
<1>7a. Returned' = Returned
  <2>1. \A v \in Workers : stage'[v] = "free" <=> stage[v] = "free" /\ v # w
    BY <1>5, <1>6 DEF Inv, TypeOK
  <2>2. \A v \in Workers : stage[v] = "free" => v # w
    BY <1>5
  <2> QED
    BY <1>7, <2>1, <2>2 DEF Returned
<1>13. PortsOwned'
  <2>1. \A m \in toTarget : \/ m.req \in Returned
                            \/ \E v \in Workers : /\ v # w /\ up[v].port # NULL
                                                  /\ up[v].port = m.port /\ ReqOf(v) = m.req
    BY <1>5 DEF Inv, PortsOwned
  <2> QED
    BY <1>7, <1>7a, <2>1 DEF Inv, PortsOwned
<1>14. RepliesOwned'
  <2>1. \A v \in Workers : stage[v] \in {"close", "free"} => v # w /\ stage'[v] = stage[v]
    BY <1>5, <1>6 DEF Inv, TypeOK
  <2>2. \A v \in Workers : stage'[v] = "free" => v # w /\ stage[v] = "free"
    BY <1>5, <1>6 DEF Inv, TypeOK
  <2> QED
    BY <1>7, <2>1, <2>2 DEF Inv, RepliesOwned, Echoed
<1>15. NoCrossTalk'
  BY <1>5, <1>7, <1>7a DEF Inv, NoCrossTalk
<1> QED
  BY <1>8, <1>9, <1>10, <1>11, <1>12, <1>13, <1>14, <1>15 DEF Inv

\* Steps of a worker within its task that open or close nothing.
LEMMA WorkerStepAgrees ==
  ASSUME Inv, UNCHANGED <<mainVars, file, sent, sockq, task, poolVars, up, toTarget, handled>>,
         \A w \in Workers : stage[w] = "free" => stage'[w] = "free"
  PROVE  /\ DescriptorsOwned' /\ OneHolder' /\ OnePlace' /\ PortsOwned' /\ Control'
         /\ \A w \in Workers : ReqOf(w)' = ReqOf(w) /\ ServiceOf(w)' = ServiceOf(w)
<1> USE DEF mainVars, poolVars
<1>1. Used' = Used /\ Known' = Known
  BY DEF Used, Elements, Known
<1>2. \A w \in Workers : ReqOf(w)' = ReqOf(w) /\ ServiceOf(w)' = ServiceOf(w)
  BY DEF ReqOf, ServiceOf
<1>3. DescriptorsOwned' /\ OneHolder'
  BY DEF Inv, DescriptorsOwned, OneHolder, Elements, Distinct
<1>4. OnePlace' /\ Control'
  BY <1>1 DEF Inv, OnePlace, Control
<1>5. PortsOwned'
  <2>1. Returned \subseteq Returned'
    BY <1>2 DEF Returned
  <2> QED
    BY <1>2, <2>1 DEF Inv, PortsOwned
<1> QED
  BY <1>2, <1>3, <1>4, <1>5

\* sendto was not called for a request that is still being served.
LEMMA NotYetAnswered ==
  ASSUME Inv, NEW w \in Workers, stage[w] \notin {"idle", "close", "free"}
  PROVE  sendtos[ReqOf(w)] = <<>>
<1>1. ReqOf(w) \in Reqs /\ ReqOf(w) \notin handled
  BY WorkerHolds
<1>2. \A v \in Workers : stage[v] \in {"close", "free"} => ReqOf(v) # ReqOf(w)
  BY WorkerHolds
<1> QED
  BY <1>1, <1>2 DEF Inv, RepliesOwned

\* A worker has an answer for its client: it is its own, or that of a request
\* which was returned from.
LEMMA RecvAnswerInv ==
  ASSUME Inv, NEW w \in Workers, NEW m \in toTarget, RecvAnswer(w, m)
  PROVE  Inv'
<1>1. /\ stage[w] = "poll" /\ m.port = up[w].port /\ buf' = [buf EXCEPT ![w] = m.req]
      /\ stage' = [stage EXCEPT ![w] = "reply"]
      /\ UNCHANGED <<mainVars, file, sent, sockq, task, poolVars, up, toTarget, sendtos, handled>>
  BY DEF RecvAnswer
<1>2. \A v \in Workers : stage'[v] = IF v = w THEN "reply" ELSE stage[v]
  BY <1>1 DEF Inv, TypeOK
<1>3. /\ DescriptorsOwned' /\ OneHolder' /\ OnePlace' /\ PortsOwned' /\ Control'
      /\ \A v \in Workers : ReqOf(v)' = ReqOf(v) /\ ServiceOf(v)' = ServiceOf(v)
  <2>1. \A v \in Workers : stage[v] = "free" => stage'[v] = "free"
    BY <1>1, <1>2
  <2> QED
    BY <1>1, <2>1, WorkerStepAgrees
<1>4. m.req \in Reqs /\ up[w].port # NULL /\ ServiceOf(w) = "proxy"
  BY <1>1 DEF Inv, TypeOK, Stages
<1>5. m.req \in Returned \/ m.req = ReqOf(w)
  BY <1>1, <1>4 DEF Inv, PortsOwned
<1>6. TypeOK'
  <2>1. stage' \in [Workers -> WorkStages] /\ buf' \in [Workers -> Reqs \cup {NULL}]
    BY <1>1, <1>4 DEF Inv, TypeOK, WorkStages
  <2> QED
    BY <1>1, <2>1 DEF Inv, TypeOK, mainVars, poolVars
<1>7. \A v \in Workers : buf'[v] = IF v = w THEN m.req ELSE buf[v]
  BY <1>1 DEF Inv, TypeOK
<1>8. Stages'
  BY <1>1, <1>2, <1>3, <1>4, <1>7 DEF Inv, Stages, poolVars
<1>9. RepliesOwned' /\ AnsweredOnce'
  <2>1. \A v \in Workers : /\ stage'[v] = "free" <=> stage[v] = "free"
                           /\ stage'[v] = "close" <=> stage[v] = "close"
    BY <1>1, <1>2
  <2> QED
    BY <1>1, <1>3, <2>1 DEF Inv, RepliesOwned, AnsweredOnce, Echoed
<1>10. NoCrossTalk'
  <2>1. Returned' = Returned
    BY <1>1, <1>2, <1>3 DEF Returned
  <2> QED
    BY <1>3, <1>5, <1>7, <2>1 DEF Inv, NoCrossTalk
<1> QED
  BY <1>3, <1>6, <1>8, <1>9, <1>10 DEF Inv

\* A worker that gets no socket gives the request up.
LEMMA NoSocketInv ==
  ASSUME Inv, NEW w \in Workers, NoSocket(w)
  PROVE  Inv'
<1>1. /\ stage[w] = "start" /\ ServiceOf(w) = "proxy" /\ stage' = [stage EXCEPT ![w] = "free"]
      /\ UNCHANGED <<mainVars, file, sent, sockq, task, poolVars, up, buf, toTarget, sendtos, handled>>
  BY DEF NoSocket
<1>2. \A v \in Workers : stage'[v] = IF v = w THEN "free" ELSE stage[v]
  BY <1>1 DEF Inv, TypeOK
<1>3. /\ DescriptorsOwned' /\ OneHolder' /\ OnePlace' /\ PortsOwned' /\ Control'
      /\ \A v \in Workers : ReqOf(v)' = ReqOf(v) /\ ServiceOf(v)' = ServiceOf(v)
  <2>1. \A v \in Workers : stage[v] = "free" => stage'[v] = "free"
    BY <1>2
  <2> QED
    BY <1>1, <2>1, WorkerStepAgrees
<1>4. TypeOK'
  BY <1>1 DEF Inv, TypeOK, WorkStages, mainVars, poolVars
<1>5. Stages'
  BY <1>1, <1>2, <1>3 DEF Inv, Stages, poolVars
<1>6. RepliesOwned'
  <2>1. \A r \in Reqs : sendtos[r] # <<>> => \/ r \in handled
          \/ \E v \in Workers : stage'[v] \in {"close", "free"} /\ ReqOf(v) = r
    BY <1>2 DEF Inv, RepliesOwned
  <2>2. \A v \in Workers : stage'[v] = "free" /\ ServiceOf(v) = "echo" => Echoed(ReqOf(v))
    BY <1>1, <1>2 DEF Inv, RepliesOwned
  <2> QED
    BY <1>1, <1>3, <2>1, <2>2 DEF RepliesOwned, Echoed
<1>7. AnsweredOnce'
  BY <1>1 DEF Inv, AnsweredOnce
<1>8. NoCrossTalk'
  <2>1. Returned \subseteq Returned'
    BY <1>1, <1>2, <1>3 DEF Returned
  <2> QED
    BY <1>1, <1>3, <2>1 DEF Inv, NoCrossTalk
<1> QED
  BY <1>3, <1>4, <1>5, <1>6, <1>7, <1>8 DEF Inv

\* A worker calls sendto for its client: for the first time.
LEMMA ReplyInv ==
  ASSUME Inv, NEW w \in Workers, EchoReply(w) \/ ProxyReply(w)
  PROVE  Inv'
<1> DEFINE q == ReqOf(w)
           answer == IF stage[w] = "start" THEN q ELSE buf[w]
           call == [answer |-> answer, socket |-> file[task[running[w]].fd]]
           next == IF stage[w] = "start" THEN "free" ELSE "close"
<1>1. /\ stage[w] \in {"start", "reply"} /\ stage' = [stage EXCEPT ![w] = next]
      /\ buf' \in {buf, [buf EXCEPT ![w] = NULL]} /\ (stage[w] = "reply" => buf'[w] = NULL)
      /\ UNCHANGED <<mainVars, file, sent, sockq, task, poolVars, up, toTarget, handled>>
      /\ (stage[w] = "start" => ServiceOf(w) = "echo")
      /\ sendtos' = [sendtos EXCEPT ![q] = Append(@, call)]
  BY DEF EchoReply, ProxyReply, SendTo, AfterReply, Inv, TypeOK
<1>2. \A v \in Workers : stage'[v] = IF v = w THEN next ELSE stage[v]
  BY <1>1 DEF Inv, TypeOK
<1>3. /\ DescriptorsOwned' /\ OneHolder' /\ OnePlace' /\ PortsOwned' /\ Control'
      /\ \A v \in Workers : ReqOf(v)' = ReqOf(v) /\ ServiceOf(v)' = ServiceOf(v)
  <2>1. \A v \in Workers : stage[v] = "free" => stage'[v] = "free"
    BY <1>1, <1>2
  <2> QED
    BY <1>1, <2>1, WorkerStepAgrees
<1>4. /\ q \in Reqs /\ q \notin handled /\ sendtos[q] = <<>>
      /\ running[w] \in Tasks \cap Used
      /\ \A v \in Workers : stage[v] # "idle" /\ ReqOf(v) = q => v = w
  BY <1>1, WorkerHolds, NotYetAnswered
<1>5. answer \in Reqs /\ (ServiceOf(w) = "echo" => answer = q)
  BY <1>1, <1>4 DEF Inv, Stages
<1>6. call \in [answer : Reqs, socket : Sockets \cup {NULL}] /\ call.answer = answer
  <2>1. task[running[w]].fd \in Fds
    BY <1>4 DEF Inv, TypeOK, Control, NoFd
  <2> QED
    BY <1>5, <2>1 DEF Inv, TypeOK
<1>7. ServiceOf(w) = "echo" => stage[w] = "start"
  BY <1>1 DEF Inv, Stages
<1> HIDE DEF call, answer
<1>8. sendtos' = [sendtos EXCEPT ![q] = <<call>>]
  <2>1. sendtos' = [sendtos EXCEPT ![q] = Append(sendtos[q], call)]
    BY <1>1
  <2>2. Append(<<>>, call) = <<call>>
    OBVIOUS
  <2> QED
    BY <1>4, <2>1, <2>2
<1> HIDE DEF q
<1>9. /\ \A r \in Reqs \ {q} : sendtos'[r] = sendtos[r]
      /\ sendtos'[q] = <<call>>
  BY <1>4, <1>8 DEF Inv, TypeOK
<1>10. TypeOK'
  <2> DEFINE Calls == [answer : Reqs, socket : Sockets \cup {NULL}]
  <2>1. sendtos' \in [Reqs -> Seq(Calls)]
    <3>1. sendtos \in [Reqs -> Seq(Calls)]
      BY DEF Inv, TypeOK
    <3>2. call \in Calls
      BY <1>6
    <3> HIDE DEF Calls
    <3>3. <<call>> \in Seq(Calls)
      BY <3>2
    <3> QED
      BY <1>8, <3>1, <3>3
  <2>2. buf' \in [Workers -> Reqs \cup {NULL}]
    BY <1>1 DEF Inv, TypeOK
  <2>3. stage' \in [Workers -> WorkStages]
    BY <1>1 DEF Inv, TypeOK, WorkStages
  <2> QED
    BY <1>1, <2>1, <2>2, <2>3 DEF Inv, TypeOK, mainVars, poolVars
<1>11. Stages'
  <2>1. buf'[w] = NULL /\ \A v \in Workers : v # w => buf'[v] = buf[v]
    BY <1>1 DEF Inv, TypeOK, Stages
  <2> QED
    BY <1>1, <1>2, <1>3, <2>1 DEF Inv, Stages, poolVars
<1>12. Echoed(q)' \/ ServiceOf(w) # "echo"
  <2>1. Len(<<call>>) = 1 /\ <<call>>[1] = call
    OBVIOUS
  <2>2. Len(sendtos'[q]) = 1 /\ sendtos'[q][1].answer = answer
    BY <1>6, <1>9, <2>1
  <2> QED
    BY <1>3, <1>5, <2>2 DEF Echoed, q
<1>13. RepliesOwned'
  <2>1. ASSUME NEW r \in Reqs, sendtos'[r] # <<>>
        PROVE  r \in handled' \/ \E v \in Workers : stage'[v] \in {"close", "free"} /\ ReqOf(v)' = r
    <3>1. CASE r = q
      BY <1>2, <1>3, <3>1 DEF q
    <3>2. CASE r # q
      <4>1. r \in handled \/ \E v \in Workers : stage[v] \in {"close", "free"} /\ ReqOf(v) = r
        BY <1>9, <2>1, <3>2 DEF Inv, RepliesOwned
      <4> QED
        BY <1>1, <1>2, <1>3, <4>1
    <3> QED
      BY <3>1, <3>2
  <2>2. ASSUME NEW v \in Workers, stage'[v] = "free", ServiceOf(v)' = "echo"
        PROVE  Echoed(ReqOf(v))'
    <3>1. CASE v = w
      BY <1>3, <1>12, <2>2, <3>1 DEF q
    <3>2. CASE v # w
      <4>1. stage[v] = "free" /\ ReqOf(v) # q /\ ReqOf(v) \in Reqs
        BY <1>2, <1>4, <2>2, <3>2, WorkerHolds
      <4>2. Echoed(ReqOf(v))
        BY <1>3, <2>2, <4>1 DEF Inv, RepliesOwned
      <4> QED
        BY <1>3, <1>9, <4>1, <4>2 DEF Echoed
    <3> QED
      BY <3>1, <3>2
  <2> QED
    BY <2>1, <2>2 DEF RepliesOwned
<1>14. AnsweredOnce'
  <2>1. Len(<<call>>) = 1
    OBVIOUS
  <2>2. ASSUME NEW r \in Reqs PROVE Len(sendtos'[r]) <= 1
    <3>1. CASE r = q
      <4>1. Len(sendtos'[r]) = 1
        BY <1>9, <2>1, <3>1
      <4> QED
        BY <4>1
    <3>2. CASE r # q
      BY <1>9, <3>2 DEF Inv, AnsweredOnce
    <3> QED
      BY <3>1, <3>2
  <2>3. \A r \in Reqs : r \in handled => sendtos'[r] = sendtos[r]
    BY <1>4, <1>9
  <2> QED
    BY <1>1, <2>2, <2>3 DEF Inv, AnsweredOnce
<1>15. NoCrossTalk'
  <2>1. \A v \in Workers : buf'[v] # NULL => buf'[v] = buf[v]
    BY <1>1 DEF Inv, TypeOK
  <2>2. Returned \subseteq Returned'
    BY <1>1, <1>2, <1>3 DEF Returned
  <2> QED
    BY <1>3, <2>1, <2>2 DEF Inv, NoCrossTalk
<1> QED
  BY <1>3, <1>10, <1>11, <1>13, <1>14, <1>15 DEF Inv

\* What speaks of the requests does not change while a worker opens and connects
\* its socket.
LEMMA UpstreamStepAgrees ==
  ASSUME Inv, NEW w \in Workers, NEW next,
         stage[w] \notin {"close", "free"}, next \notin {"close", "free"},
         stage' = [stage EXCEPT ![w] = next],
         UNCHANGED <<mainVars, sent, sockq, task, poolVars, buf, sendtos, handled>>
  PROVE  /\ OneHolder' /\ OnePlace' /\ RepliesOwned' /\ AnsweredOnce' /\ NoCrossTalk' /\ Control'
         /\ Returned' = Returned
         /\ \A v \in Workers : /\ ReqOf(v)' = ReqOf(v) /\ ServiceOf(v)' = ServiceOf(v)
                               /\ stage'[v] = IF v = w THEN next ELSE stage[v]
<1> USE DEF mainVars, poolVars
<1>1. \A v \in Workers : stage'[v] = IF v = w THEN next ELSE stage[v]
  BY DEF Inv, TypeOK
<1>2. Used' = Used /\ Known' = Known
  BY DEF Used, Elements, Known
<1>3. \A v \in Workers : ReqOf(v)' = ReqOf(v) /\ ServiceOf(v)' = ServiceOf(v)
  BY DEF ReqOf, ServiceOf
<1>4. \A v \in Workers : /\ stage'[v] = "free" <=> stage[v] = "free"
                         /\ stage'[v] = "close" <=> stage[v] = "close"
  BY <1>1
<1>5. Returned' = Returned
  BY <1>3, <1>4 DEF Returned
<1>6. OneHolder'
  BY DEF Inv, OneHolder, Elements, Distinct
<1>7. OnePlace' /\ Control'
  BY <1>2 DEF Inv, OnePlace, Control
<1>8. RepliesOwned' /\ AnsweredOnce'
  BY <1>3, <1>4 DEF Inv, RepliesOwned, AnsweredOnce, Echoed
<1>9. NoCrossTalk'
  BY <1>3, <1>5 DEF Inv, NoCrossTalk
<1> QED
  BY <1>1, <1>3, <1>5, <1>6, <1>7, <1>8, <1>9

\* A worker opens a socket of its own for its request.
LEMMA OpenUpstreamInv ==
  ASSUME Inv, NEW w \in Workers, OpenUpstream(w)
  PROVE  Inv'
<1> DEFINE fd == LowestFd
<1>1. /\ stage[w] = "start" /\ ServiceOf(w) = "proxy" /\ stage' = [stage EXCEPT ![w] = "connect"]
      /\ file' = [file EXCEPT ![fd] = w] /\ up' = [up EXCEPT ![w] = [fd |-> fd, port |-> NULL]]
      /\ UNCHANGED <<mainVars, sent, sockq, task, poolVars, buf, toTarget, sendtos, handled>>
      /\ FreeFds # {}
  BY DEF OpenUpstream
<1>2. /\ fd \in Fds /\ file[fd] = NULL
      /\ \A l \in Listeners : listenFd[l] # fd
      /\ \A v \in Workers : up[v].fd # fd
  BY <1>1, LowestIsFree
<1> HIDE DEF fd
<1>3. up[w] = NoUpstream /\ up[w].port = NULL /\ up[w].fd = NoFd
  BY <1>1 DEF Inv, Stages, NoUpstream
<1>4. /\ OneHolder' /\ OnePlace' /\ RepliesOwned' /\ AnsweredOnce' /\ NoCrossTalk' /\ Control'
      /\ Returned' = Returned
      /\ \A v \in Workers : /\ ReqOf(v)' = ReqOf(v) /\ ServiceOf(v)' = ServiceOf(v)
                            /\ stage'[v] = IF v = w THEN "connect" ELSE stage[v]
  BY <1>1, UpstreamStepAgrees
<1>5. /\ up'[w] = [fd |-> fd, port |-> NULL] /\ \A v \in Workers : v # w => up'[v] = up[v]
      /\ up'[w].port = NULL /\ up'[w].fd = fd
  BY <1>1 DEF Inv, TypeOK
<1>6. file'[fd] = w /\ \A f \in Fds : f # fd => file'[f] = file[f]
  BY <1>1, <1>2 DEF Inv, TypeOK
<1>7. TypeOK'
  <2>1. up' \in [Workers -> [fd : Fds \cup {-1}, port : Ports \cup {NULL}]]
    BY <1>1, <1>2 DEF Inv, TypeOK
  <2>2. file' \in [Fds -> Sockets \cup {NULL}]
    BY <1>1, <1>2 DEF Inv, TypeOK, Sockets
  <2>3. stage' \in [Workers -> WorkStages]
    BY <1>1 DEF Inv, TypeOK, WorkStages
  <2> QED
    BY <1>1, <2>1, <2>2, <2>3 DEF Inv, TypeOK, mainVars, poolVars
<1>8. DescriptorsOwned'
  <2>0. UNCHANGED listenFd
    BY <1>1 DEF mainVars
  <2>1. \A l \in Listeners : listenFd'[l] # NoFd => file'[listenFd'[l]] = l
    BY <1>2, <1>6, <2>0 DEF Inv, TypeOK, DescriptorsOwned, NoFd
  <2>2. ASSUME NEW v \in Workers, up'[v].fd # NoFd PROVE file'[up'[v].fd] = v
    <3>1. CASE v = w
      BY <1>5, <1>6, <3>1
    <3>2. CASE v # w
      <4>1. up[v].fd \in Fds /\ up[v].fd # fd /\ up'[v].fd = up[v].fd /\ file[up[v].fd] = v
        BY <1>2, <1>5, <2>2, <3>2 DEF Inv, TypeOK, DescriptorsOwned, NoFd
      <4> QED
        BY <1>6, <4>1
    <3> QED
      BY <3>1, <3>2
  <2>3. ASSUME NEW f \in Fds, file'[f] # NULL
        PROVE  (\E l \in Listeners : listenFd'[l] = f) \/ \E v \in Workers : up'[v].fd = f
    <3>1. CASE f = fd
      BY <1>5, <3>1
    <3>2. CASE f # fd
      <4>1. \A v \in Workers : up[v].fd = f => v # w
        BY <1>3 DEF NoFd, Fds
      <4> QED
        BY <1>5, <1>6, <2>0, <2>3, <3>2, <4>1 DEF Inv, DescriptorsOwned
    <3> QED
      BY <3>1, <3>2
  <2> QED
    BY <2>1, <2>2, <2>3 DEF DescriptorsOwned
<1>9. Stages'
  BY <1>1, <1>3, <1>4, <1>5 DEF Inv, Stages, poolVars
<1>10. PortsOwned'
  <2>1. \A v, x \in Workers : up'[v].port # NULL /\ up'[v].port = up'[x].port => v = x
    BY <1>5 DEF Inv, PortsOwned
  <2>2. ASSUME NEW m \in toTarget
        PROVE  \/ m.req \in Returned
               \/ \E v \in Workers : up'[v].port # NULL /\ up'[v].port = m.port /\ ReqOf(v) = m.req
    <3>1. \A v \in Workers : up[v].port # NULL => v # w
      BY <1>3
    <3> QED
      BY <1>5, <3>1 DEF Inv, PortsOwned
  <2> QED
    BY <1>1, <1>4, <2>1, <2>2 DEF PortsOwned
<1> QED
  BY <1>4, <1>7, <1>8, <1>9, <1>10 DEF Inv

\* connect gives it a port that no open socket has.
LEMMA ConnectTargetInv ==
  ASSUME Inv, NEW w \in Workers, NEW p \in Ports, ConnectTarget(w, p)
  PROVE  Inv'
<1>1. /\ stage[w] = "connect" /\ stage' = [stage EXCEPT ![w] = "send"] /\ p \in FreePorts
      /\ up' = [up EXCEPT ![w].port = p]
      /\ UNCHANGED <<mainVars, file, sent, sockq, task, poolVars, buf, toTarget, sendtos, handled>>
  BY DEF ConnectTarget
<1>2. up[w].port = NULL
  BY <1>1 DEF Inv, Stages
<1>3. p # NULL /\ \A v \in Workers : up[v].port # p
  BY <1>1, <1>2 DEF FreePorts
<1>4. /\ OneHolder' /\ OnePlace' /\ RepliesOwned' /\ AnsweredOnce' /\ NoCrossTalk' /\ Control'
      /\ Returned' = Returned
      /\ \A v \in Workers : /\ ReqOf(v)' = ReqOf(v) /\ ServiceOf(v)' = ServiceOf(v)
                            /\ stage'[v] = IF v = w THEN "send" ELSE stage[v]
  BY <1>1, UpstreamStepAgrees
<1>5. /\ \A v \in Workers : up'[v].fd = up[v].fd /\ (v # w => up'[v] = up[v])
      /\ up'[w].port = p
  BY <1>1 DEF Inv, TypeOK
<1>6. TypeOK'
  <2>1. up' \in [Workers -> [fd : Fds \cup {-1}, port : Ports \cup {NULL}]]
    <3> DEFINE Type == [fd : Fds \cup {-1}, port : Ports \cup {NULL}]
    <3>1. up \in [Workers -> Type]
      BY DEF Inv, TypeOK
    <3>2. [up[w] EXCEPT !.port = p] \in Type
      BY <3>1
    <3> HIDE DEF Type
    <3>3. up' \in [Workers -> Type]
      BY <1>1, <3>1, <3>2
    <3> QED
      BY <3>3 DEF Type
  <2>2. stage' \in [Workers -> WorkStages]
    BY <1>1 DEF Inv, TypeOK, WorkStages
  <2> QED
    BY <1>1, <2>1, <2>2 DEF Inv, TypeOK, mainVars, poolVars
<1>7. DescriptorsOwned'
  BY <1>1, <1>5 DEF Inv, DescriptorsOwned, mainVars
<1>8. Stages'
  BY <1>1, <1>3, <1>4, <1>5 DEF Inv, Stages, poolVars
<1>9. PortsOwned'
  <2>1. \A v, x \in Workers : up'[v].port # NULL /\ up'[v].port = up'[x].port => v = x
    BY <1>3, <1>5 DEF Inv, PortsOwned
  <2>2. ASSUME NEW m \in toTarget
        PROVE  \/ m.req \in Returned
               \/ \E v \in Workers : up'[v].port # NULL /\ up'[v].port = m.port /\ ReqOf(v) = m.req
    <3>1. \A v \in Workers : up[v].port # NULL => v # w
      BY <1>2
    <3> QED
      BY <1>5, <3>1 DEF Inv, PortsOwned
  <2> QED
    BY <1>1, <1>4, <2>1, <2>2 DEF PortsOwned
<1> QED
  BY <1>4, <1>6, <1>7, <1>8, <1>9 DEF Inv

\* The request reaches the target from the port the worker has.
LEMMA SendToTargetInv ==
  ASSUME Inv, NEW w \in Workers, SendToTarget(w)
  PROVE  Inv'
<1> DEFINE q == ReqOf(w)
<1>1. /\ stage[w] = "send" /\ stage' = [stage EXCEPT ![w] = "poll"]
      /\ toTarget' = toTarget \cup {[port |-> up[w].port, req |-> q]}
      /\ UNCHANGED <<mainVars, file, sent, sockq, task, poolVars, up, buf, sendtos, handled>>
  BY DEF SendToTarget
<1>2. q \in Reqs
  BY <1>1, WorkerHolds
<1>3. up[w].port # NULL /\ up[w].port \in Ports
  BY <1>1 DEF Inv, Stages, TypeOK
<1>4. /\ OneHolder' /\ OnePlace' /\ RepliesOwned' /\ AnsweredOnce' /\ NoCrossTalk' /\ Control'
      /\ Returned' = Returned
      /\ \A v \in Workers : /\ ReqOf(v)' = ReqOf(v) /\ ServiceOf(v)' = ServiceOf(v)
                            /\ stage'[v] = IF v = w THEN "poll" ELSE stage[v]
  BY <1>1, UpstreamStepAgrees
<1>5. TypeOK'
  <2>1. toTarget' \subseteq [port : Ports, req : Reqs]
    BY <1>1, <1>2, <1>3 DEF Inv, TypeOK
  <2>2. stage' \in [Workers -> WorkStages]
    BY <1>1 DEF Inv, TypeOK, WorkStages
  <2> QED
    BY <1>1, <2>1, <2>2 DEF Inv, TypeOK, mainVars, poolVars
<1>6. DescriptorsOwned'
  BY <1>1 DEF Inv, DescriptorsOwned, mainVars
<1>7. Stages'
  BY <1>1, <1>4 DEF Inv, Stages, poolVars
<1>8. PortsOwned'
  <2>1. ASSUME NEW m \in toTarget'
        PROVE  \/ m.req \in Returned
               \/ \E v \in Workers : up[v].port # NULL /\ up[v].port = m.port /\ ReqOf(v) = m.req
    <3>1. CASE m \in toTarget
      BY <3>1 DEF Inv, PortsOwned
    <3>2. CASE m = [port |-> up[w].port, req |-> q]
      BY <1>3, <3>2
    <3> QED
      BY <1>1, <3>1, <3>2
  <2>2. \A v, x \in Workers : up[v].port # NULL /\ up[v].port = up[x].port => v = x
    BY DEF Inv, PortsOwned
  <2> QED
    BY <1>1, <1>4, <2>1, <2>2 DEF PortsOwned
<1> QED
  BY <1>4, <1>5, <1>6, <1>7, <1>8 DEF Inv

\* A worker leaves process_udp_proxy_packet: it closes its own socket and nobody
\* else's, and has one no more.
LEMMA LeaveInv ==
  ASSUME Inv, NEW w \in Workers, stage[w] \in {"connect", "send", "poll", "close"}, Leave(w)
  PROVE  Inv'
<1> DEFINE fd == up[w].fd
<1>1. /\ file' = [f \in Fds |-> IF f = fd THEN NULL ELSE file[f]]
      /\ up' = [up EXCEPT ![w] = NoUpstream] /\ stage' = [stage EXCEPT ![w] = "free"]
      /\ UNCHANGED <<mainVars, sent, sockq, task, poolVars, buf, toTarget, sendtos, handled>>
  BY DEF Leave, CloseUpstream
<1> HIDE DEF fd
<1>2. \A v \in Workers : ReqOf(v)' = ReqOf(v) /\ ServiceOf(v)' = ServiceOf(v)
  BY <1>1 DEF ReqOf, ServiceOf, poolVars
<1>3. \A v \in Workers : stage'[v] = IF v = w THEN "free" ELSE stage[v]
  BY <1>1 DEF Inv, TypeOK
<1>4. /\ up'[w] = NoUpstream /\ up'[w].fd = NoFd /\ up'[w].port = NULL
      /\ \A v \in Workers : v # w => up'[v] = up[v]
  BY <1>1 DEF Inv, TypeOK, NoUpstream
<1>5. Returned' = Returned \cup {ReqOf(w)}
  <2>1. {v \in Workers : stage'[v] = "free"} = {v \in Workers : stage[v] = "free"} \cup {w}
    BY <1>3
  <2> QED
    BY <1>1, <1>2, <2>1 DEF Returned
<1>6. TypeOK'
  <2>1. up' \in [Workers -> [fd : Fds \cup {-1}, port : Ports \cup {NULL}]]
    BY <1>1 DEF Inv, TypeOK, NoUpstream, NoFd
  <2>2. file' \in [Fds -> Sockets \cup {NULL}]
    BY <1>1 DEF Inv, TypeOK
  <2>3. stage' \in [Workers -> WorkStages]
    BY <1>1 DEF Inv, TypeOK, WorkStages
  <2> QED
    BY <1>1, <2>1, <2>2, <2>3 DEF Inv, TypeOK, mainVars, poolVars
<1>7. DescriptorsOwned'
  <2>1. (\A f \in Fds : file'[f] = IF f = fd THEN NULL ELSE file[f]) /\ UNCHANGED listenFd
    BY <1>1 DEF mainVars
  <2>2. fd # NoFd => file[fd] = w
    BY DEF Inv, DescriptorsOwned, fd
  <2>3. ASSUME NEW l \in Listeners, listenFd[l] # NoFd PROVE file'[listenFd[l]] = l
    <3>1. listenFd[l] \in Fds /\ file[listenFd[l]] = l /\ listenFd[l] # fd
      BY <2>2, <2>3 DEF Inv, TypeOK, DescriptorsOwned, NoFd
    <3> QED
      BY <2>1, <3>1
  <2>4. ASSUME NEW v \in Workers, up'[v].fd # NoFd PROVE file'[up'[v].fd] = v
    <3>1. v # w /\ up[v].fd \in Fds /\ file[up[v].fd] = v /\ up[v].fd # fd /\ up'[v] = up[v]
      BY <1>4, <2>2, <2>4 DEF Inv, TypeOK, DescriptorsOwned, NoFd
    <3> QED
      BY <2>1, <3>1
  <2>5. ASSUME NEW f \in Fds, file'[f] # NULL
        PROVE  (\E l \in Listeners : listenFd[l] = f) \/ \E v \in Workers : up'[v].fd = f
    <3>1. f # fd /\ file[f] # NULL
      BY <2>1, <2>5
    <3>2. \A v \in Workers : up[v].fd = f => v # w
      BY <3>1 DEF fd
    <3> QED
      BY <1>4, <3>1, <3>2 DEF Inv, DescriptorsOwned
  <2> QED
    BY <2>1, <2>3, <2>4, <2>5 DEF DescriptorsOwned
<1>8. OneHolder'
  BY <1>1 DEF Inv, OneHolder, Elements, Distinct, poolVars
<1>9. OnePlace' /\ Control'
  <2>1. Used' = Used /\ Known' = Known
    BY <1>1 DEF Used, Elements, Known, poolVars
  <2> QED
    BY <1>1, <2>1 DEF Inv, OnePlace, Control, mainVars
<1>10. Stages'
  <2>1. ServiceOf(w) = "proxy" /\ buf[w] = NULL /\ running[w] # NULL
    BY DEF Inv, Stages
  <2> QED
    BY <1>1, <1>2, <1>3, <1>4, <2>1 DEF Inv, Stages, poolVars
<1>11. PortsOwned'
  <2>1. \A v, x \in Workers : up'[v].port # NULL /\ up'[v].port = up'[x].port => v = x
    BY <1>4 DEF Inv, PortsOwned
  <2>2. ASSUME NEW m \in toTarget
        PROVE  \/ m.req \in Returned'
               \/ \E v \in Workers : up'[v].port # NULL /\ up'[v].port = m.port /\ ReqOf(v) = m.req
    <3>1. CASE m.req \in Returned
      BY <1>5, <3>1
    <3>2. CASE m.req \notin Returned
      <4>1. PICK v \in Workers : up[v].port # NULL /\ up[v].port = m.port /\ ReqOf(v) = m.req
        BY <3>2 DEF Inv, PortsOwned
      <4> QED
        BY <1>4, <1>5, <4>1
    <3> QED
      BY <3>1, <3>2
  <2> QED
    BY <1>1, <1>2, <2>1, <2>2 DEF PortsOwned
<1>12. RepliesOwned'
  <2>1. \A r \in Reqs : sendtos[r] # <<>> => \/ r \in handled
          \/ \E v \in Workers : stage'[v] \in {"close", "free"} /\ ReqOf(v) = r
    BY <1>3 DEF Inv, RepliesOwned
  <2>2. ServiceOf(w) = "proxy"
    BY DEF Inv, Stages
  <2>3. \A v \in Workers : stage'[v] = "free" /\ ServiceOf(v) = "echo" => Echoed(ReqOf(v))
    BY <1>3, <2>2 DEF Inv, RepliesOwned
  <2> QED
    BY <1>1, <1>2, <2>1, <2>3 DEF RepliesOwned, Echoed
<1>13. AnsweredOnce'
  BY <1>1 DEF Inv, AnsweredOnce
<1>14. NoCrossTalk'
  BY <1>1, <1>2, <1>5 DEF Inv, NoCrossTalk
<1> QED
  BY <1>6, <1>7, <1>8, <1>9, <1>10, <1>11, <1>12, <1>13, <1>14 DEF Inv

\* A worker frees its task: the request is done with.
LEMMA EndTaskInv ==
  ASSUME Inv, NEW w \in Workers, EndTask(w)
  PROVE  Inv'
<1> DEFINE t == running[w]
           q == ReqOf(w)
<1>1. /\ stage[w] = "free" /\ t \in Tasks \cap Used /\ q \in Reqs /\ q \in Known
      /\ \A v \in Workers : stage[v] # "idle" /\ ReqOf(v) = q => v = w
  BY WorkerHolds DEF EndTask
<1>2. /\ running' = [running EXCEPT ![w] = NULL] /\ t # NULL /\ UNCHANGED <<pending, accepting>>
      /\ task' = [task EXCEPT ![t] = NoTask] /\ handled' = handled \cup {q}
      /\ stage' = [stage EXCEPT ![w] = "idle"]
      /\ UNCHANGED <<mainVars, file, sent, sockq, up, buf, toTarget, sendtos>>
  BY DEF EndTask, Pool!Finish
<1>3. task[t].req = q /\ \A u \in Used : task[u].req = q => u = t
  BY <1>1 DEF Inv, OnePlace, ReqOf
<1> HIDE DEF t, q
<1>4. running'[w] = NULL /\ \A v \in Workers : v # w => running'[v] = running[v] /\ running[v] # t
  BY <1>2 DEF Inv, TypeOK, OneHolder, t
<1>5. Used' = Used \ {t} /\ Known' = Known
  <2>1. t \notin Elements(pending)
    BY DEF Inv, OneHolder, t
  <2>2. {running'[v] : v \in {x \in Workers : running'[x] # NULL}}
          = {running[v] : v \in {x \in Workers : running[x] # NULL}} \ {t}
    BY <1>4 DEF t
  <2> QED
    BY <1>2, <2>1, <2>2 DEF Used, Elements, Known
<1>6. \A u \in Tasks : u # t => task'[u] = task[u]
  BY <1>2 DEF Inv, TypeOK
<1>7. Used \subseteq Tasks
  BY UsedFacts DEF Inv
<1>8. \A v \in Workers : v # w /\ running[v] # NULL
        => ReqOf(v)' = ReqOf(v) /\ ServiceOf(v)' = ServiceOf(v)
  <2>1. \A v \in Workers : running[v] # NULL => running[v] \in Tasks
    BY DEF Inv, TypeOK
  <2> QED
    BY <1>2, <1>4, <1>6, <2>1 DEF ReqOf, ServiceOf
<1>9. up[w] = NoUpstream /\ up[w].port = NULL /\ buf[w] = NULL
  BY <1>1 DEF Inv, Stages
<1>10. stage'[w] = "idle" /\ \A v \in Workers : v # w => stage'[v] = stage[v]
  BY <1>2 DEF Inv, TypeOK
<1>11. Returned' = Returned
  <2>1. \A v \in Workers : stage'[v] = "free" <=> stage[v] = "free" /\ v # w
    BY <1>10
  <2>2. \A v \in Workers : stage[v] = "free" /\ v # w => ReqOf(v)' = ReqOf(v)
    BY <1>8 DEF Inv, Stages
  <2> QED
    BY <1>1, <1>2, <2>1, <2>2 DEF Returned, q
<1>12. TypeOK'
  <2>1. task' \in [Tasks -> [req : Reqs \cup {NULL}, fd : Fds \cup {-1}]]
    <3> DEFINE Type == [req : Reqs \cup {NULL}, fd : Fds \cup {-1}]
    <3>1. task \in [Tasks -> Type] /\ NoTask \in Type
      BY DEF Inv, TypeOK, NoTask, NoFd
    <3> HIDE DEF Type
    <3>2. task' \in [Tasks -> Type]
      BY <1>2, <3>1
    <3> QED
      BY <3>2 DEF Type
  <2>2. stage' \in [Workers -> WorkStages]
    BY <1>2 DEF Inv, TypeOK, WorkStages
  <2>3. handled' \subseteq Reqs /\ running' \in [Workers -> Tasks \cup {NULL}]
    BY <1>1, <1>2 DEF Inv, TypeOK
  <2> QED
    BY <1>2, <2>1, <2>2, <2>3 DEF Inv, TypeOK, mainVars
<1>13. DescriptorsOwned'
  BY <1>2 DEF Inv, DescriptorsOwned, mainVars
<1>14. OneHolder'
  <2>1. NULL \notin Elements(pending)
    BY <1>7 DEF Used
  <2>2. \A v \in Workers : running'[v] \notin Elements(pending)
    BY <1>4, <2>1 DEF Inv, OneHolder
  <2>3. \A v, x \in Workers : running'[v] # NULL /\ running'[v] = running'[x] => v = x
    BY <1>4 DEF Inv, OneHolder
  <2>4. UNCHANGED pending /\ Elements(pending') = Elements(pending) /\ Distinct(pending')
    BY <1>2 DEF Inv, OneHolder, Elements, Distinct
  <2> QED
    BY <2>2, <2>3, <2>4 DEF OneHolder
<1>15. \A u \in Used' : u \in Used /\ task'[u] = task[u] /\ task[u].req # q
  BY <1>3, <1>5, <1>6, <1>7
<1>16. OnePlace'
  <2>2. \A l \in Listeners : q \notin sockq[l]
    BY <1>1, <1>3 DEF Inv, OnePlace
  <2>3. \A l \in Listeners : \A r \in sockq'[l] : r \in Known' /\ sent'[r] = l /\ r \notin handled'
    BY <1>2, <1>5, <2>2 DEF Inv, OnePlace
  <2>4. \A u \in Used' : task'[u].req \in Known' /\ task'[u].req \notin handled'
    BY <1>2, <1>5, <1>15 DEF Inv, OnePlace
  <2>5. \A u \in Used' : \A l \in Listeners : task'[u].req \notin sockq'[l]
    BY <1>2, <1>15 DEF Inv, OnePlace
  <2>6. \A u, x \in Used' : task'[u].req = task'[x].req => u = x
    BY <1>15 DEF Inv, OnePlace
  <2>7. handled' \subseteq Known'
    BY <1>1, <1>2, <1>5 DEF Inv, OnePlace
  <2> QED
    BY <2>3, <2>4, <2>5, <2>6, <2>7 DEF OnePlace
<1>17. Stages'
  <2>1. UNCHANGED <<buf, up>>
    BY <1>2
  <2>2. \A v \in Workers : v # w /\ stage[v] # "idle" => running[v] # NULL
    BY DEF Inv, Stages
  <2> QED
    BY <1>4, <1>8, <1>9, <1>10, <2>1, <2>2 DEF Inv, Stages
<1>18. PortsOwned'
  <2>1. \A v \in Workers : up[v].port # NULL => v # w /\ running[v] # NULL
    BY <1>9 DEF Inv, Stages
  <2> QED
    BY <1>2, <1>8, <1>11, <2>1 DEF Inv, PortsOwned
<1>19. RepliesOwned'
  <2>1. \A v \in Workers : stage[v] \in {"close", "free"} => running[v] # NULL
    BY DEF Inv, Stages
  <2>2. ASSUME NEW r \in Reqs, sendtos[r] # <<>>
        PROVE  r \in handled' \/ \E v \in Workers : stage'[v] \in {"close", "free"} /\ ReqOf(v)' = r
    <3>1. r \in handled \/ \E v \in Workers : stage[v] \in {"close", "free"} /\ ReqOf(v) = r
      BY <2>2 DEF Inv, RepliesOwned
    <3>2. CASE r \in handled \/ r = q
      BY <1>2, <3>2
    <3>3. CASE r # q /\ \E v \in Workers : stage[v] \in {"close", "free"} /\ ReqOf(v) = r
      <4>1. PICK v \in Workers : stage[v] \in {"close", "free"} /\ ReqOf(v) = r
        BY <3>3
      <4>2. v # w
        BY <3>3, <4>1 DEF q
      <4> QED
        BY <1>8, <1>10, <2>1, <4>1, <4>2
    <3> QED
      BY <3>1, <3>2, <3>3
  <2>3. ASSUME NEW v \in Workers, stage'[v] = "free", ServiceOf(v)' = "echo"
        PROVE  Echoed(ReqOf(v))'
    <3>1. v # w /\ stage[v] = "free"
      BY <1>10, <2>3
    <3>2. ReqOf(v)' = ReqOf(v) /\ Echoed(ReqOf(v))
      BY <1>8, <2>1, <2>3, <3>1 DEF Inv, RepliesOwned
    <3> QED
      BY <1>2, <3>2 DEF Echoed
  <2> QED
    BY <1>2, <2>2, <2>3 DEF RepliesOwned
<1>20. AnsweredOnce'
  <2>1. Service[sent[q]] = "echo" => Echoed(q)
    BY <1>1 DEF Inv, RepliesOwned, ServiceOf, q
  <2> QED
    BY <1>2, <2>1 DEF Inv, AnsweredOnce, Echoed
<1>21. NoCrossTalk'
  <2>1. \A v \in Workers : buf[v] # NULL => v # w /\ running[v] # NULL
    BY <1>9 DEF Inv, Stages
  <2> QED
    BY <1>2, <1>8, <1>11, <2>1 DEF Inv, NoCrossTalk
<1>22. Control'
  BY <1>2, <1>15 DEF Inv, Control, mainVars
<1> QED
  BY <1>12, <1>13, <1>14, <1>16, <1>17, <1>18, <1>19, <1>20, <1>21, <1>22 DEF Inv

-----------------------------------------------------------------------------
(* The theorems.                                                           *)

\* The invariant holds in every reachable state.
THEOREM Invariant == SafeSpec => []Inv
<1>1. Inv /\ [Next]_vars => Inv'
  <2> SUFFICES ASSUME Inv, [Next]_vars PROVE Inv'
    OBVIOUS
  <2>1. CASE Environment
    <3>1. ASSUME NEW w \in Workers, PollFails(w) \/ NoInput(w) \/ RecvFails(w)
          PROVE  Inv'
      BY <3>1, LeaveInv DEF PollFails, NoInput, RecvFails
    <3> QED
      BY <2>1, <3>1, MainQuietInv, ArriveInv, RecvAnswerInv DEF Environment
  <2>2. CASE MainStep
    BY <2>2, MainQuietInv, OpenListenerInv, CloseListenerInv, DispatchInv DEF MainStep
  <2>3. CASE \E w \in Workers : WorkerStep(w)
    <3>1. ASSUME NEW w \in Workers,
                 ConnectFails(w) \/ SendFails(w) \/ TimesOut(w) \/ CloseAfterReply(w)
          PROVE  Inv'
      BY <3>1, LeaveInv DEF ConnectFails, SendFails, TimesOut, CloseAfterReply
    <3> QED
      BY <2>3, <3>1, TakeTaskInv, ReplyInv, OpenUpstreamInv, NoSocketInv, ConnectTargetInv,
         SendToTargetInv, EndTaskInv DEF WorkerStep
  <2>4. CASE Terminated \/ UNCHANGED vars
    BY <2>4, MainQuietInv DEF Terminated
  <2> QED
    BY <2>1, <2>2, <2>3, <2>4 DEF Next
<1> QED
  BY <1>1, InitInv, PTL DEF SafeSpec

\* Every variable keeps its type.
THEOREM TypeCorrect == SafeSpec => []TypeOK
  BY Invariant, PTL DEF Inv

\* Each open descriptor has one owner, which knows it, whichever of its seven ways
\* out a worker takes and whatever the other threads open and close (one descriptor
\* table for main_t and the workers).
THEOREM DescriptorsOwnedCorrect == SafeSpec => []DescriptorsOwned
  BY Invariant, PTL DEF Inv

\* sendto is called at most once for a request, and exactly once, with its own
\* content, for an echo request that was taken (process_task,
\* process_udp_proxy_packet).
THEOREM AnsweredOnceCorrect == SafeSpec => []AnsweredOnce
  BY Invariant, PTL DEF Inv

\* No worker passes on the answer to another request in progress, however late or
\* often the target answers (process_udp_proxy_packet).
THEOREM NoCrossTalkCorrect == SafeSpec => []NoCrossTalk
  BY Invariant, PTL DEF Inv

\* While the service runs, the descriptor number in every task is still the number
\* of the listener its request came to (task->client_fd).
THEOREM ServedFromListenerCorrect == SafeSpec => []ServedFromListener
<1>1. Inv => ServedFromListener
  <2> SUFFICES ASSUME Inv, phase \in Serving, NEW t \in Tasks, Pool!InUse(t)
               PROVE  file[task[t].fd] = sent[task[t].req]
    BY DEF ServedFromListener, ReplySocketOpen, Serving
  <2>1. t \in Used
    BY UsedFacts DEF Inv
  <2>2. /\ task[t].fd = listenFd[sent[task[t].req]] /\ listenFd[sent[task[t].req]] # NoFd
        /\ task[t].req \in Known
    BY <2>1 DEF Inv, Control, OnePlace
  <2>3. sent[task[t].req] \in Listeners
    <3>1. sent \in Seq(Listeners)
      BY DEF Inv, TypeOK
    <3> QED
      BY <2>2, <3>1, ElementOfSeq, LenProperties DEF Known
  <2> QED
    BY <2>2, <2>3 DEF Inv, DescriptorsOwned
<1> QED
  BY <1>1, Invariant, PTL
=============================================================================

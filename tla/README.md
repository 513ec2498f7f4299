# Verification of the Linux C security gateway

TLA+ models of the gateway in `src/02_tcp_udp_proxy/` and of the target server in
`src/tools/` (the code `CMakeLists.txt` builds), TLC runs on small instances, and
TLAPS proofs for any instance. One
process serves TCP and UDP listeners: an echo service, and a proxy to a target.
One thread runs an epoll loop, a pool of worker threads takes tasks from a
locked list, and the configuration and the log are reloaded on `SIGHUP`.

File names below are relative to `src/02_tcp_udp_proxy/` (those under `tools/` to
`src/`); `:n` is a line of `main_service.c` unless another file is named.

## 1. Inventory

| Component | State it keeps | Operations | Modelled by |
|---|---|---|---|
| Task queue, workers | `head`, `tail`, `next`, `stop`, mutex and condition; threads created and joined | `task_queue_init/push/pop/stop/destroy`, `worker_thread`, spawn and join in `main_t` | `TaskQueue`, abstractly `TaskPool` |
| TCP echo connection | `out_buf`, event mask, `last_active` | `handle_tcp_echo_event`, `_read`, `flush_tcp_echo_output`, `send_or_buffer_tcp_echo` | `EchoConn`, abstractly `ByteStream` |
| Event loop | epoll set, event batch, listeners, connection list, `g_stop`, `g_reload` | `main_t`, `accept_clients`, `add_tcp_echo_client`, `dispatch_tcp_proxy_client`, `close_tcp_conn`, `close_idle_tcp_conns`, quit path | `EventLoop` |
| UDP echo and proxy | tasks, upstream sockets, the shared descriptor table | `dispatch_udp_packets`, `process_task`, `process_udp_proxy_packet` | `UdpService` |
| Configuration | `g_config`, the snapshot `cfg` | `load_config`, `reload_config`, `get_config_snapshot`, `parse_config_file`, `free_config` | `ConfigStore` |
| Log | `g_log_fp`, `g_log_level` | `app_log_init`, `app_log_close`, `app_log_write` | `ConfigStore` |
| TCP proxy relay | two blocking sockets, the chunk in hand | `process_tcp_proxy_client`, `connect_tcp_proxy_target`, `relay_tcp_proxy_streams`, `relay_proxy_data`, `send_all_or_close` | `TcpRelay`, abstractly two `ByteStream`s; nothing reaches the code (finding 1) |
| Target echo server | `clients[]`, the batch of a `poll`, two listening sockets | `tools/target_echo_server.c`: `run_server`, `accept_tcp_clients`, `handle_tcp_client`, `handle_udp_packets`, `send_all`, `wait_fd` | `TargetServer`, abstractly a `ByteStream` per client |
| Test client | one socket, one message in flight | `tools/echo_test.c`: `run_tcp_test`, `send_all`, `recv_exact`, `run_udp_test` | TCP: the peers of `TcpPeers`; UDP: no |
| Start | arguments, daemon state | `main`, `daemonize`, `getopt`, `realpath` | no: sequential, before any thread exists |
| Stage 1 framework | a task queue, a counter | `src/01_service_framework/`, not built | no: its queue and log are the code of `TaskQueue` and `ConfigStore` |

How they interact. The main thread calls the handlers of the listeners and of
the TCP connections directly; it reads UDP datagrams itself and pushes a task
for each, with a *copy* of the listener's descriptor. Workers share with it the
queue (under the mutex), the descriptor table (through the kernel), the log (under
its mutex) and nothing else. Signal handlers only set `g_stop` and `g_reload`,
which the loop reads between two calls of `epoll_wait`. Clients, targets and
kernel buffers are the environment.

What is hard here: wake-ups of a condition variable with one signal per push;
raw pointers in a batch of epoll events while handlers free connections;
descriptor numbers that are reused at once; partial sends; signals between a
test and a wait; answers that are late, doubled or lost; blocking sends between
two single threads; a level tested outside its mutex; resources released in
an order that other threads notice; error paths half way through. The `hazards`
of `PROJECT.json` list each at its line, with the property that watches it or
the reason why none does.

What makes each part correct: the queue is a FIFO pool that neither loses nor
doubles a task nor sleeps on work, and shuts down; a connection echoes all bytes
in order; list, heap and epoll set agree and no event is stale; each UDP request
is answered at most once, with its own answer, through its own listener, and gives
back its upstream socket on every way out; relay and target server are byte streams for
each of their peers and end with them; `*g_config` and `cfg` hold all of one accepted
file and nothing of a refused one. (What *runs* is less than that: after a reload the
listeners in `channels[]`, their service types and the workers stay those of the start,
and only the log follows `cfg`.)

## 2. Modules and their correspondence to the code

**TaskPool** says what the queue promises: a sequence `pending`, at most one
`running` task per worker, `accepting` until closed; `Submit`, `Start`, `Finish`,
`Close`. It does not mention lists, conditions or threads.

**TaskQueue** is the code. A critical section under `q->mutex` is one step;
`pthread_cond_wait` releases the mutex, so waiting (`PopWait`) and what follows a
wake-up are separate steps. A worker in the wait set is `pc = "wait"`;
`SignalOne` moves any one of them, `Broadcast` all, `SpuriousWakeup` one without
a signal. `fifo` is a history variable. The main thread spawns
(possibly failing part way, `SpawnFails`), sets up, loops, stops, joins, destroys.
The tasks of the constant `Tasks` are heap addresses: `live` ones are allocated,
and freed ones can be allocated again, so executions are unbounded.

**EchoConn** is one connection and its client. One step is one system call with
the code up to the next one, so the client acts between any two. `send` takes any
positive part that fits the kernel's buffer; `recv` gives what there is, up to
`IO_BUF_SIZE`, and as the client may send between any two calls, that is any part of its
stream.
`buf` is `handle_tcp_echo_read`'s local chunk, `out` the pending output, `mask`
what epoll was asked for, `flags` the event in hand. `ReadData` comes back after
`EchoSend`, or ends with `EchoBuffer`, as the loop at :718 does. `UpdateFails` is the
`epoll_ctl` at the end of flush, buffer and read (:654, :667, :701, :740, :750) that fails
and closes the connection.

**ByteStream** says what any of the TCP paths promises: the reader gets the numbers
1, 2, 3, ... the writer wrote, in order, and, while the stream is `flowing`, all of
them. What stops the flow (a reset, an abandoned client, a mutual block) is said where
the module is instantiated.

**TcpPeers** is the other end of the connections of the next two modules: `conn[p]`
has what peer `p` has sent, still owes of its message, has read, and what the kernel
holds in each direction. A peer is a blocking single thread as `tools/echo_test.c` is:
it sends its whole message before it reads (`PeerSends`, `PeerReads`). `Closed`,
`Reset`, `PollEvents` say what the kernel does: a close with unread input resets, a
reset leaves what the service has not read readable and throws away what the peer has
not read.

**TcpRelay** is a worker in `process_tcp_proxy_client`: connect, `poll`, at most one
chunk of the client and one of the target per `poll`, then the tests for a hang-up
(:967-992). `ev` is the snapshot of `revents`, so a side may change between it and its
use. Both sockets are blocking (`set_blocking`, :1147), so `send` waits instead of
failing with `EAGAIN`, and the branch at :826 for that is not modelled.

**TargetServer** is `run_server` in mode both. `batch` is what is left of `fds[]`
after `poll`: a function from the place in it (`TcpSlot`, `UdpSlot`, or the index in
`clients[]`, which is what `client_index_for_poll` notes) to descriptor and events. The
lowest place is the event being handled (`Current`), and a client's event is over only
when `recv` would block. `slots` is `clients[]`;
`fdOf` is what the kernel knows, so that the two can disagree. The length of `clients[]`
is chosen in the initial state. With only one protocol the server behaves as here while
nothing of the other arrives.

**EventLoop** is `main_t` with all TCP connections. `batch` is what is left of
the events `epoll_wait` returned: *pointers* (listeners, or addresses of
connections), so a stale one is expressible. `conns` (the list), `live` (the
heap), `interest` (epoll) and `sock` (the descriptor table) are kept apart so
that they can disagree. Opening a listener is `OpenListener` (the socket), `Bind` (noted
in `channels[]`) and `AddListener` (registered); accepting a client is `Accept`, `Allocate`
and `Register`. Each of the steps can fail with what the earlier ones did still to be
undone (`BindFails`, `AddListenerFails`, `SetUpFails`, `RegisterFails`): `newFd` and
`newConn` are the local variables that hold the descriptor and the connection until then.
A freed address and a closed number can be reused, numbers
lowest first. `EchoReads` and `EchoCloses` stand for `handle_tcp_echo_event`,
whose detail is `EchoConn`. The idle sweep and the quit path close one connection per
step (`SweepCloses`, `QuitClosesConn`, both through `CloseConn`, which is
`close_tcp_conn`), until none is left to close. A read of the configuration is two steps
(`ReadConfig`, `ReloadEnds`), so that a signal can come in between.

**UdpService** composes the UDP listeners, `INSTANCE TaskPool` for the queue and
the workers in `process_udp_proxy_packet`. Requests are numbered; `sockq` is a set,
so datagrams are reordered; those sent to the target stay in `toTarget`, so that
answers come late, repeatedly or never. `file[fd]` says what an open number
refers to, `task[t].fd` is the copy a task holds. A proxy task is `OpenUpstream`,
`ConnectTarget`, `SendToTarget`, `RecvAnswer`, `ProxyReply`, `CloseAfterReply`, and each of
the other ways out of `process_udp_proxy_packet` is an action with the close that the code
has there: `NoSocket` (none yet, :1037, :1045), `ConnectFails` (:1054), `SendFails` (:1067),
`TimesOut` (:1084), `PollFails` (:1094), `NoInput` (:1104), `RecvFails` (:1115). `sendtos`
records that `sendto` was *called* for a request, with what content and through which
socket: the code only logs whether it succeeded (:383, :1125), so nothing later depends on it.

**ConfigStore** has `parse_config_file` as a recursive function over the lines of the
file (`After`, the loop over `fgets`) and the life of `g_config`, `cfg` and the log. A line is its key and its value cut
at commas; `Number` and `Addresses` say what `atoi` and `inet_pton` accept. `Means` says
without the order of reading what a file means, for `ServesOneFile` to compare with.
Every read may see another file of `Files`. `BeginLine` and `WriteLine` are the two
halves of `app_log_write` in a worker: the test of `g_log_level`, which takes no
mutex, and the write under it; `OpenLog` (`app_log_init`) may come between them.

Composition. `TaskQueue` implements `TaskPool`, and `UdpService` uses `TaskPool`:
what is shown of `UdpService` holds over the real queue as far as `UdpService`
uses what the pool promises. `EventLoop` leaves the bytes to `EchoConn` and the UDP
listeners to `UdpService`. `EchoConn`, `TcpRelay` (twice) and `TargetServer` (for each
client) implement `ByteStream`.

**TaskQueueProofs**, **EchoConnProofs**, **EventLoopProofs**, **UdpServiceProofs**,
**ConfigStoreProofs**, **TcpRelayProofs** and **TargetServerProofs** hold the theorems
about the module each is named after. **BasicFacts** has what several of them need: a
set of natural numbers has a least one, induction over the natural numbers, lists
without duplicates (`Elements`, `Distinct`), and runs of consecutive numbers in
sequences (`Run`), which is how the proofs speak of byte streams. The `MC...` modules bind
the constants. Operators with a comment `Faulty:` are plausible mistakes, kept
beside the definition they would replace; no specification uses one, and the
`mutants` of `PROJECT.json` say which property notices each.

## 3. Runs

All runs check for deadlock; the steps named `Terminated` are the ends that are meant.

| Run | Bounds | What it shows |
|---|---|---|
| `task_queue` | 3 workers, 4 task addresses | `ListIsFifo`, `OneOwner`, `WorkConserving`, `NoSleeperAfterStop`, `NoTaskDiscarded`, `NoWorkerOutlivesQueue`; `PoolSpec` (refinement with fairness) and `ShutdownCompletes` |
| `echo_conn` | chunk 2, receive buffer 3, send buffer 2, 6 bytes, idle limit 2 | `EchoInOrder`, `MaskMatchesPending`; what a close at `recv` = 0 (`EofLosesNothing`) and one on a hang-up (`HangupCutsBehindOutput`) may lose; `StreamSpec` (refinement of `ByteStream` with fairness) |
| `event_loop` | an echo and a proxy listener, 3 clients, 3 addresses, 5 descriptors, idle limit 1, symmetry | `NoStaleEvent`, `ConnsAgree`, `OwnDescriptor`, `NoDescriptorLeak` |
| `event_loop_live` | 1 client, 1 address, 4 descriptors, idle limit 2 | `ReloadNotLost`, `StopEndsLoop`, `IdleConnClosed` |
| `tcp_proxy` | as above | `ProxyInputHandled` is violated (finding 1) |
| `udp_service` | an echo and a proxy listener, 2 workers, 3 tasks, 2 ports, 4 descriptors, 3 requests, symmetry | `DescriptorsOwned`, `AnsweredOnce`, `NoCrossTalk`, `ServedFromListener` |
| `udp_service_live` | 2 tasks, 2 requests, 3 descriptors, no symmetry | `EveryDatagramHandled`, `ShutdownCompletes` |
| `udp_shutdown` | as `udp_service` | `SentFromListener` is violated (finding 2) |
| `config_store` | files of up to 2 of 17 kinds of lines and of 3 of 4 kinds, 2 listeners allowed, 2 workers that log at level info | `ServesOneFile`, `LogMatchesConfig`, `LevelTakesEffect` |
| `config_format` | the same with 1 worker | `FormatEnforced` is violated (finding 3) |
| `tcp_relay` | chunk 2, receive buffers 3, send buffers 2, 4 bytes in each direction | `RelaysBothWays` (refinement of `ByteStream` in both directions), `EofForwardsAll`, `SessionEnds` |
| `target_server` | 2 clients (5 bytes and 1), 1 or 2 entries in `clients[]`, chunk and receive buffer 2, send buffer 1, one datagram | `SlotsAgree`, `EchoesEachClient` (refinement of `ByteStream` for each client), `PacketsHandled` |

Why the bounds are enough to be interesting. With three workers one can be woken,
one be stealing and one asleep; four tasks make the list longer than the workers.
A chunk of two against a send buffer of two and a receive buffer of three gives
partial sends, several chunks in a row and blocked output. With three clients,
three addresses and five descriptors (epoll, two listeners, two clients) one client
is refused by the descriptor limit, and descriptors and addresses are reused
within one batch. Three requests on two workers with two
ports and four descriptors give a queue behind two proxies, reuse of a port and of
a number, and failures of `socket` when none is free. Two lines are enough for an
accepted line before a refused one and for two lines that overrule each other; the files of
three lines (two different listeners, a log file, a bad level) have two listeners in either
order, one too many, and a refusal after both. Four bytes against
three and two let a side fill the relay's input while the relay holds a chunk for its
full output, so the mutual block occurs; five bytes do the same to the target server.
The second client is then in `clients[]` with input waiting, or turned away from a table
of one.

Some properties are limited on purpose. `EofLosesNothing` speaks of closes because `recv`
returned 0. A client that half-closes while output is buffered is seen at an event for
EPOLLOUT and closed at :790 after the flush, whatever it had sent since: that is
`HangupCutsBehindOutput`, which says what such a close can cost, pending output or the input
that an event without EPOLLIN leaves unread, also to a client that reads on. `StreamSpec`
asks nothing of a connection closed by a hang-up, an error, the sweep or shutdown
(`flowing`), so neither that cut nor a sweep of a connection with bytes under way counts
against it. `AnsweredOnce` counts calls of `sendto`: whether one succeeds is not said, and
after shutdown has closed the listener it does not (finding 2). `ServesOneFile` is about
`*g_config` and `cfg`, not about what runs, and `LogMatchesConfig` about a log that is open:
when `app_log_init` cannot open the file there is none. `NoCrossTalk` excepts answers to requests
that were given up, because an answer that comes after the timeout can indeed reach a
later request whose socket was given the same port (:1048). `RelaysBothWays`,
`SessionEnds`, `EchoesEachClient` and `PacketsHandled` except `Clinch` and `Stuck`:
the thread is blocked in `send` (:817, `tools/target_echo_server.c:254`) to a peer that
is itself blocked in `send` to it. These states are reachable and nothing in the code
ends them: the properties say that nothing else stops a stream, and do not catch these
two deadlocks. `LevelTakesEffect`
allows each worker one line below a level that was just raised, which is what the
unlocked test costs.
`ServedFromListener` speaks of the time before shutdown, because of finding 2.

## 4. Fairness

- Workers and the main thread are scheduled (`WF` of each thread's steps). In
  `TaskQueue` a worker that can take the mutex takes it, and `process_task` ends: the
  UDP part polls for at most five seconds (:1076).
- `EventLoop`: `WF` for the loop's own steps; `SF` for `epoll_wait` returning by an
  event or by its one-second timeout (:1626), since signals may interrupt some waits but
  not all, for the end of `accept_clients` when no client or no descriptor is left
  (`AcceptEnds`), and for the clock. `accept` need not fail otherwise (`AcceptFails`).
- `EchoConn`: the client goes on reading, in addition to the server and the clock;
  the properties except those clients that do not.
- `TcpRelay`, `TargetServer`: `WF` for the worker or server thread, and for each peer
  that it goes on with what it has begun: a peer in `send` sends when there is room, a
  peer that is not sending reads. A peer that stops reading holds the code up for as
  long as it likes, since neither `send` nor `wait_fd` has a timeout.
- `ConfigStore` has no liveness property.
- No fairness on what may never happen: signals, clients, datagrams, the target's
  answers, spurious wake-ups, errors of `poll` and `recv`.

Safety runs with larger bounds use `SafeSpec`, without fairness.

## 5. Proofs

Every theorem has the form `SafeSpec => []P` (or `Spec`, where that has no fairness)
and holds for every value of the constants that satisfies the named `ASSUME`s. Each
component has one inductive invariant, `Inv`, with a lemma per action or per kind of
action; `Init => Inv` and `Inv /\ [Next]_vars => Inv'` give `Invariant`, from which the
properties follow. What follows says what has to be added to the properties to make
them inductive, since that is where the reasons are.

**`TaskQueueProofs`**, any number of workers and any set of tasks.

- `Inv` is `TypeOK`, `ListIsFifo`, `OneOwner`, `NoSleeperAfterStop` and `Sync`. `Sync`
  relates main thread and workers: which workers exist, that `stop` is set exactly in
  the late phases, that only exited workers were joined and that a worker exits only
  from an empty queue. That `task_queue_destroy` discards no task (`ShutdownSafe`) and
  meets no worker (`JoinedBeforeDestroy`) depends on it.
- `WorkIsConserved` has its own induction, relative to `Inv`, because it counts:
  a push adds one task and, if anyone waits, one awake worker; a pop removes
  one of each. It rests on the library's facts about cardinality.
- `QueueImplementsPool`: initial states map to initial states, and each action to
  `Submit`, `Start`, `Finish`, `Close` or a stutter of the pool.

**`EchoConnProofs`**, any buffer sizes, numbers of bytes and idle limits.

- `Inv` is `TypeOK`, `EchoInOrder`, `EofLosesNothing`, `HangupCutsBehindOutput` and
  `Control`, which ties the stage of the main thread to its buffers (output is pending
  only where the mask says so or will be set, `buf` is empty outside the read loop).
  `Control` is what shows that a chunk is never read while output is pending, on which
  both order and the size of `out_buf` depend. Theorems: `BuffersBounded`,
  `EchoCorrect`, `MaskCorrect`, `OrderlyCloseCorrect`, `HangupCorrect`.
- On top of `Inv`, `Bounded` (no more comes back than was sent, also after the close,
  where `EchoInOrder` says nothing of the sum) gives `EchoIsStream`: each step is a
  write, a read or a change of flow of `ByteStream`, or does not concern it.

**`EventLoopProofs`**, any listeners, clients, addresses, limit of descriptors and idle
limit: `TypeCorrect`, `NoStaleEventCorrect`, `OwnDescriptorCorrect`,
`NoDescriptorLeakCorrect`, `ConnsAgreeCorrect`.

- Added: `Descriptors` (what main_t has noted as `epollfd` and listeners is open and is
  that), `Listed` (the list holds the registered connections, each once), `Registered`
  (the epoll set is exactly the registered listeners and connections), `NewSocket` (from
  `socket` or `accept` to `addfd` the new descriptor has no owner but `main_t`'s local
  variable, and the new connection is in no batch) and `Control` (there is a batch only
  while it is worked through). `NewSocket` is why the undo of a failed `addfd` takes back
  exactly what was done. Why no event is stale:
  a batch holds registered pointers only, an event leaves it before its handler closes
  the connection, and the sweep runs when it is empty. Why no descriptor has two
  owners: the kernel gives out free numbers, and by `NoDescriptorLeak` a free number
  is noted nowhere, so the two properties need each other.

**`UdpServiceProofs`**, any listeners, workers, addresses, ports, limit of descriptors
and number of datagrams: `TypeCorrect`, `DescriptorsOwnedCorrect`,
`AnsweredOnceCorrect`, `NoCrossTalkCorrect`, `ServedFromListenerCorrect`.

- Added: `OneHolder` (a task is in the queue once or with one worker), `OnePlace` (a
  request is in a receive buffer, in one task, or done with), `Stages` (what a worker
  holds at each of its stages), `PortsOwned` (open upstream sockets differ in their port,
  and what the target got from a port in use is that worker's request, or one that is
  done with), `RepliesOwned` (a request for which `sendto` was called is done with, or its
  worker is past the reply; an echo task that is over has made its call) and `Control`
  (while the service runs, each task has its listener's descriptor). `NoCrossTalk` rests on `PortsOwned`, `AnsweredOnce` on `OnePlace`, and
  `DescriptorsOwned` on `Stages`: each of the seven actions that leave is one that has a
  socket, and it forgets the number only as it closes it.

**`ConfigStoreProofs`**, files of any number of lines, any limits, levels and workers:
`ServesOneFileCorrect`, `LogMatchesConfigCorrect`, `LevelTakesEffectCorrect`.

- `parse_config_file` is proved right by induction over the lines: `AfterFacts` shows
  that the recursive function has a value after every line, `SoFar` says what is known
  after the first `n` of them (the listeners are those of the `listener` lines among
  them, in order; each other key has the value of the last line with it), `ReadFacts`
  proves it for every `n`, and `ParseFacts` concludes that an accepted file yields a
  usable configuration that is what the file `Means`.
- `ConfigInv` adds that `cfg` is the configuration while the log is being opened too.
  `LateInv` is why one late line is all: after it, what the worker writes has passed
  the test against the present level.

**`TcpRelayProofs`**, any buffer sizes and numbers of bytes: `TypeCorrect`,
`EofForwardsAllCorrect`, and `RelayIsStream`, the safety part of `RelaysBothWays`.

- `Direction(p)` describes the bytes of one side: what the other has read, what lies in
  its socket, what the relay holds and what lies in `p`'s socket are consecutive runs
  that begin with the first byte and end with the last one sent. After the session has
  ended or the reader has reset, only the first two are kept, and that no more
  arrives than was sent. `PeerStepFacts` says once what a peer can do to its connection.
- The step into `"done"` at an end of file finds nothing in `p`'s socket and nothing held,
  so all that `p` sent has been delivered.

**`TargetServerProofs`**, any clients, descriptors and length of `clients[]`:
`SlotsAgreeCorrect`, and `ClientIsStream`, the safety part of `EchoesEachClient`.

- Added: `Events` (what is in the batch is an entry that was in use, or a listening socket,
  which never reports a hang-up) and the shape of the tables. The one interesting step is
  `AcceptClient`, while later events of the batch wait: the entry it fills was free and so
  has no event in the batch, and the descriptor it is given is in no other entry.
- `Bytes` says where the bytes of each client are: what it has read, what lies in its
  receive side, what `send_all` holds if its event is the one handled, and what the server
  has not received are consecutive runs, from the first byte to the last one sent; after
  a reset or close only the first two are kept. It needs `SlotsAgree`: `batch[Current]`
  names one connection, so that what was read from a client is sent to that client, and
  that `remove_client`, which closes what the entry of `clients[]` names, closes the client
  of the event (`RemovedFacts`). The
  theorem is about a client `p`; the run checks it, with the liveness, for each of two.

Assumptions are the named `ASSUME`s on the constants only: sizes are positive; `NULL` and
the unused numbers are none of the things they are compared with; the two sides of a relay
differ; `MaxWorkers` is at least the default of 4 (it is 128, `config.c:329`); a file is a
sequence of lines; every number `atoi` yields is an integer and it knows the two default
values. TLC evaluates them on the instances of the runs.

Model-checked only: all liveness (`ShutdownCompletes`, `ReloadNotLost`, `StopEndsLoop`,
`IdleConnClosed`, `EveryDatagramHandled`, `SessionEnds`, `PacketsHandled`) and the liveness
half of the refinements (`PoolSpec`, `StreamSpec`, `RelaysBothWays`, `EchoesEachClient`),
because fairness and `ENABLED` are outside what the prover handles.

## 6. Findings

1. `tcp_proxy`: the README says port 18080 tests TCP proxy forwarding (`README.md:144`)
   and the comment at :1653 that a proxy client is handed to a worker; the branch is
   empty. The client's input stays unread, epoll reports it again at once, and the
   connection ends by the idle sweep.
2. `udp_shutdown`: `README.md:282` gives the order stop, wake, join, release; the
   listeners are closed first (:1690), and workers still reply through the numbers
   they copied. In the trace main_t closes an echo listener while a worker is about to
   answer; its `sendto` names no open socket, and the request that was taken stays
   unanswered. (The loop ends there because `epoll_wait` fails; a stop signal takes the same
   path.)
3. `config_format`: `config.c:226` gives the format of a listener line; `strtok_r`
   skips empty parts and accepts lines outside it.

## 7. Not modelled, and why

Startup before the first thread, of the gateway and of the target server; the text of
log lines; lines longer than the 511 characters `fgets` takes; datagrams longer than
`IO_BUF_SIZE`, which `recvfrom` cuts; a wall clock that is set back; an endless stream of
clients, bytes or datagrams, with which the loops that run until `EAGAIN` would not
return; `malloc` failures, except where they share their outcome with a failure that
is modelled (`SetUpFails`, `DispatchEnds`, a refused file); errors of the target server's two
listening sockets, which report none (`tools/target_echo_server.c:519-525` would skip
them); the TCP client branch of `process_task` (:401-437), for which, as for the
relay, no task is ever made, and which repeats the echo with blocking sends; the
UDP part of `tools/echo_test.c`, one request at a time and then an end.

The stage 1 program is not built. Its `log.c` is the same file, its queue the same
functions, its configuration an earlier form of `config.c` without listeners, and its
loop, which pushes a task every two seconds and reloads between, is `TaskQueue`'s main thread
with a batch of one: a module for it would repeat what is here.

## 8. Plan

Done, in this order: `TaskPool` and `TaskQueue` with refinement and proofs; `EchoConn`
with proofs; `EventLoop`; `UdpService` on `TaskPool`; `ConfigStore`; `ByteStream` and its
refinement by `EchoConn`, checked and proved; `TcpPeers` with `TcpRelay` and
`TargetServer`; the workers' log lines in `ConfigStore`; the safety invariants of
`EventLoop`, `UdpService`, `ConfigStore`, `TcpRelay` and `TargetServer` proved, and the
safety half of the refinements by the relay and by the target server.

Next: for `UdpService`, that its steps on the queue are steps of `TaskPool`.

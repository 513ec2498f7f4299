------------------------------ MODULE TaskQueue ------------------------------
(***************************************************************************)
(* The task queue of 02_tcp_udp_proxy/main_service.c, its worker threads,  *)
(* and the main thread as far as it drives them: it creates the workers,   *)
(* pushes the tasks, stops the queue, joins the workers and destroys the   *)
(* queue.                                                                  *)
(*                                                                         *)
(* Everything the code does under q->mutex is one step: no other thread    *)
(* sees the middle of it, and pthread_cond_wait, which lets go of the      *)
(* mutex, ends a step.  A worker that was woken is back in the state "pop" *)
(* and tests the loop condition again when it gets the mutex, which may be *)
(* after another worker took the task it was woken for.                    *)
(***************************************************************************)
EXTENDS Naturals, Sequences, FiniteSets

CONSTANTS WorkerNum,  \* cfg.worker_num
          Tasks,      \* the addresses malloc can return for a task_t
          NULL        \* the null pointer

\* parse_config_file refuses a worker_num outside this range.
ASSUME WorkerNumAssumption == WorkerNum \in 1..128
ASSUME NullAssumption == NULL \notin Tasks

Workers == 1..WorkerNum

VARIABLES
  head, tail,   \* q->head, q->tail
  next,         \* task->next of every address
  stop,         \* q->stop
  live,         \* the addresses malloc has returned and free has not taken back
  pc,           \* where each worker is: "none" before pthread_create, "pop",
                \* "wait" in pthread_cond_wait, "work" in process_task, "exit"
  cur,          \* the task each worker holds, or NULL
  phase,        \* where the main thread is
  gStop,        \* g_stop, set by SIGTERM, SIGINT and by failures
  created,      \* created_workers
  joined,       \* how many workers pthread_join has returned for
  fifo          \* history: the tasks pushed and not popped, in order

queueVars  == <<head, tail, next, stop, fifo>>
workerVars == <<pc, cur>>
mainVars   == <<phase, gStop, created, joined>>
vars       == <<queueVars, live, workerVars, mainVars>>

Phases == {"spawn", "setup", "top", "batch", "quit", "join", "done"}

Init == /\ head = NULL /\ tail = NULL /\ stop = FALSE
        /\ next = [t \in Tasks |-> NULL]
        /\ live = {}
        /\ pc = [w \in Workers |-> "none"]
        /\ cur = [w \in Workers |-> NULL]
        /\ phase = "spawn" /\ gStop = FALSE
        /\ created = 0 /\ joined = 0
        /\ fifo = <<>>

Waiting == {w \in Workers : pc[w] = "wait"}

-----------------------------------------------------------------------------
(* The queue operations.                                                   *)

\* Faulty: a push to a queue that is not empty signals nobody.
SignalFirstOnly == IF Waiting = {} \/ tail # NULL
                   THEN UNCHANGED pc
                   ELSE \E w \in Waiting : pc' = [pc EXCEPT ![w] = "pop"]

\* pthread_cond_signal: one waiter, if there is any, goes on.
SignalOne == IF Waiting = {}
             THEN UNCHANGED pc
             ELSE \E w \in Waiting : pc' = [pc EXCEPT ![w] = "pop"]

\* pthread_cond_broadcast: every waiter goes on.
Broadcast == pc' = [w \in Workers |-> IF w \in Waiting THEN "pop" ELSE pc[w]]

\* Malloc of a task in dispatch_udp_packets and task_queue_push.  A push that
\* finds q->stop set frees the task at once, which changes nothing.
Push(t) ==
  /\ phase = "batch"
  /\ t \notin live
  /\ ~stop
  /\ head' = IF tail = NULL THEN t ELSE head
  /\ next' = [n \in Tasks |-> IF n = t THEN NULL ELSE IF n = tail THEN t ELSE next[n]]
  /\ tail' = t
  /\ live' = live \cup {t}
  /\ fifo' = Append(fifo, t)
  /\ SignalOne
  /\ UNCHANGED <<stop, cur, mainVars>>

QueueEmpty == head = NULL

\* The two conditions of task_queue_pop: wait, or return NULL.
MustWait == QueueEmpty /\ ~stop
StopOnly == stop  \* Faulty: the worker leaves as soon as the queue is stopped.
MustExit == QueueEmpty /\ stop

\* task_queue_pop, the loop condition holds: wait.
PopWait(w) ==
  /\ pc[w] = "pop"
  /\ MustWait
  /\ pc' = [pc EXCEPT ![w] = "wait"]
  /\ UNCHANGED <<queueVars, live, cur, mainVars>>

\* task_queue_pop returns NULL and worker_thread leaves its loop.
PopExit(w) ==
  /\ pc[w] = "pop"
  /\ MustExit
  /\ pc' = [pc EXCEPT ![w] = "exit"]
  /\ UNCHANGED <<queueVars, live, cur, mainVars>>

\* Faulty: q->tail is not reset when the last task is taken.
TailKept == tail

\* q->tail when the first task is unlinked.
TailAfterPop == IF next[head] = NULL THEN NULL ELSE tail

\* task_queue_pop unlinks the first task.
PopTake(w) ==
  /\ pc[w] = "pop"
  /\ head # NULL
  /\ cur' = [cur EXCEPT ![w] = head]
  /\ head' = next[head]
  /\ tail' = TailAfterPop
  /\ next' = [next EXCEPT ![head] = NULL]
  /\ fifo' = Tail(fifo)
  /\ pc' = [pc EXCEPT ![w] = "work"]
  /\ UNCHANGED <<stop, live, mainVars>>

Pop(w) == PopWait(w) \/ PopExit(w) \/ PopTake(w)

\* POSIX lets pthread_cond_wait return with no signal.
SpuriousWakeup(w) ==
  /\ pc[w] = "wait"
  /\ pc' = [pc EXCEPT ![w] = "pop"]
  /\ UNCHANGED <<queueVars, live, cur, mainVars>>

\* Faulty: the task of worker w is not freed.
LiveAfterLeak(w) == live

\* free(task) in worker_thread.
LiveAfterFree(w) == live \ {cur[w]}

\* process_task returns and worker_thread frees the task.
FinishTask(w) ==
  /\ pc[w] = "work"
  /\ live' = LiveAfterFree(w)
  /\ cur' = [cur EXCEPT ![w] = NULL]
  /\ pc' = [pc EXCEPT ![w] = "pop"]
  /\ UNCHANGED <<queueVars, mainVars>>

-----------------------------------------------------------------------------
(* The main thread.                                                        *)

\* Faulty: the loop runs to i <= worker_num.
MoreWorkersOffByOne == created <= WorkerNum

\* for (i = 0; i < worker_num; i++)
MoreWorkers == created < WorkerNum

SpawnWorker ==
  /\ phase = "spawn"
  /\ MoreWorkers
  /\ pc' = [pc EXCEPT ![created + 1] = "pop"]
  /\ created' = created + 1
  /\ UNCHANGED <<queueVars, live, cur, phase, gStop, joined>>

SpawnDone ==
  /\ phase = "spawn"
  /\ ~MoreWorkers
  /\ phase' = "setup"
  /\ UNCHANGED <<queueVars, live, workerVars, gStop, created, joined>>

\* pthread_create fails: the workers there are will be told to stop.
SpawnFails ==
  /\ phase = "spawn"
  /\ MoreWorkers
  /\ gStop' = TRUE
  /\ phase' = "setup"
  /\ UNCHANGED <<queueVars, live, workerVars, created, joined>>

\* epoll_create1 and the listeners succeed, or main jumps to quit.
Setup ==
  /\ phase = "setup"
  /\ phase' \in {"top", "quit"}
  /\ UNCHANGED <<queueVars, live, workerVars, gStop, created, joined>>

\* SIGTERM or SIGINT; a listener with an error sets g_stop too.
StopRequested ==
  /\ phase # "done"
  /\ gStop' = TRUE
  /\ UNCHANGED <<queueVars, live, workerVars, phase, created, joined>>

\* while (!g_stop): the flag is read here and nowhere inside an iteration.
LoopTest ==
  /\ phase = "top"
  /\ phase' = IF gStop THEN "quit" ELSE "batch"
  /\ UNCHANGED <<queueVars, live, workerVars, gStop, created, joined>>

\* The events of one epoll_wait are handled, or epoll_wait fails.
EndBatch ==
  /\ phase = "batch"
  /\ phase' \in {"top", "quit"}
  /\ UNCHANGED <<queueVars, live, workerVars, gStop, created, joined>>

\* task_queue_stop
StopQueue ==
  /\ phase = "quit"
  /\ stop' = TRUE
  /\ Broadcast
  /\ phase' = "join"
  /\ UNCHANGED <<head, tail, next, fifo, live, cur, gStop, created, joined>>

WorkersToJoin == joined < created

\* pthread_join(workers[i]) returns once that worker has returned.
CanJoin == WorkersToJoin /\ pc[joined + 1] = "exit"

JoinWorker ==
  /\ phase = "join"
  /\ CanJoin
  /\ joined' = joined + 1
  /\ UNCHANGED <<queueVars, live, workerVars, phase, gStop, created>>

\* One turn of the loop of task_queue_destroy, which closes and frees what is
\* still linked; after the last one the mutex and the condition variable go.
DestroyQueue ==
  /\ phase = "join"
  /\ ~WorkersToJoin
  /\ IF head # NULL
     THEN /\ live' = live \ {head}
          /\ head' = next[head]
          /\ fifo' = Tail(fifo)
          /\ UNCHANGED <<tail, phase>>
     ELSE /\ tail' = NULL
          /\ phase' = "done"
          /\ UNCHANGED <<live, head, fifo>>
  /\ UNCHANGED <<next, stop, workerVars, gStop, created, joined>>

Terminated == phase = "done" /\ UNCHANGED vars

-----------------------------------------------------------------------------
WorkerStep(w) == Pop(w) \/ SpuriousWakeup(w) \/ FinishTask(w)

MainStep == \/ SpawnWorker \/ SpawnDone \/ SpawnFails \/ Setup
            \/ \E t \in Tasks : Push(t)
            \/ LoopTest \/ EndBatch
            \/ StopQueue \/ JoinWorker \/ DestroyQueue

Next == \/ MainStep
        \/ StopRequested
        \/ \E w \in Workers : WorkerStep(w)
        \/ Terminated

SafeSpec == Init /\ [][Next]_vars

\* The scheduler runs every thread that can run, a worker that wants the mutex
\* gets it, and process_task ends (a UDP task waits for at most 5 seconds).
\* Nothing makes a packet arrive, a signal come or a wait end spuriously.
Fairness ==
  /\ WF_vars(SpawnWorker \/ SpawnDone \/ SpawnFails)
  /\ WF_vars(Setup) /\ WF_vars(LoopTest) /\ WF_vars(EndBatch)
  /\ WF_vars(StopQueue) /\ WF_vars(JoinWorker) /\ WF_vars(DestroyQueue)
  /\ \A w \in Workers : WF_vars(Pop(w)) /\ WF_vars(FinishTask(w))

Spec == SafeSpec /\ Fairness
-----------------------------------------------------------------------------
(* Properties.                                                             *)

\* Every variable has its type; the counters of the main thread are in order.
TypeOK ==
  /\ head \in Tasks \cup {NULL} /\ tail \in Tasks \cup {NULL}
  /\ next \in [Tasks -> Tasks \cup {NULL}]
  /\ stop \in BOOLEAN /\ gStop \in BOOLEAN
  /\ live \subseteq Tasks
  /\ pc \in [Workers -> {"none", "pop", "wait", "work", "exit"}]
  /\ cur \in [Workers -> Tasks \cup {NULL}]
  /\ phase \in Phases
  /\ created \in 0..WorkerNum /\ joined \in 0..created
  /\ fifo \in Seq(Tasks)

\* The pointers are a singly linked list of exactly the tasks pushed and not
\* popped, in order: tail is NULL when head is, the last task's next is NULL,
\* and no pointer dangles (task_queue_push and task_queue_pop).
ListIsFifo ==
  /\ fifo = <<>> => head = NULL /\ tail = NULL
  /\ fifo # <<>> => /\ head = fifo[1]
                   /\ tail = fifo[Len(fifo)]
                   /\ next[tail] = NULL
                   /\ \A i \in 1..(Len(fifo) - 1) : next[fifo[i]] = fifo[i + 1]

Held == {w \in Workers : cur[w] # NULL}

\* Every task that is allocated has exactly one owner, the queue or one worker
\* that is in process_task: no task is run twice, freed twice, used after free
\* or leaked (worker_thread, task_queue_pop).
OneOwner ==
  /\ \A i, j \in DOMAIN fifo : fifo[i] = fifo[j] => i = j
  /\ \A v, w \in Held : cur[v] = cur[w] => v = w
  /\ \A w \in Held, i \in DOMAIN fifo : cur[w] # fifo[i]
  /\ \A w \in Workers : w \in Held <=> pc[w] = "work"
  /\ live = {fifo[i] : i \in DOMAIN fifo} \cup {cur[w] : w \in Held}

Awake == {w \in Workers : pc[w] = "pop"}

\* No worker sleeps while there are more queued tasks than workers awake to
\* take them: one pthread_cond_signal per push is enough, whoever takes the
\* task it was sent for (task_queue_push, task_queue_pop).
WorkConserving == Waiting # {} => Len(fifo) <= Cardinality(Awake)

\* After task_queue_stop no worker is left in pthread_cond_wait, so none can
\* miss the last wake-up it will ever get (task_queue_stop).
NoSleeperAfterStop == stop => Waiting = {}

\* When the workers are joined the queue is empty: a task that was accepted is
\* never thrown away by task_queue_destroy, whatever the order of stop
\* requests, failures and pushes (the shutdown path of main_t).
NoTaskDiscarded == phase = "join" /\ joined = created => fifo = <<>>

\* When the mutex is destroyed no worker can still use it (main_t joins before
\* task_queue_destroy, and joins every worker it created).
NoWorkerOutlivesQueue ==
  phase = "done" => \A w \in Workers : pc[w] \in {"none", "exit"}

\* The queue implements the pool that TaskPool describes, its fairness included.
Pool == INSTANCE TaskPool
          WITH pending <- fifo, running <- cur, accepting <- ~stop

PoolSpec == Pool!Spec

\* A stop request ends the process: no worker and not the main thread waits for
\* ever (while (!g_stop), task_queue_stop, pthread_join).
ShutdownCompletes == gStop ~> phase = "done"
=============================================================================

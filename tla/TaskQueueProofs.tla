--------------------------- MODULE TaskQueueProofs ---------------------------
(***************************************************************************)
(* Proofs about TaskQueue, for every number of workers and every set of    *)
(* task addresses.  Inv is the inductive invariant: the invariants that    *)
(* the runs check, and what the main thread and the workers know about     *)
(* each other (Sync).                                                      *)
(***************************************************************************)
EXTENDS TaskQueue, FiniteSetTheorems, TLAPS

\* What relates the phase of the main thread to the workers and the queue:
\* the queue is stopped exactly when main is past task_queue_stop, workers
\* beyond created do not exist, the joined ones have returned, a worker that
\* returned left an empty queue behind, and a process without all its workers
\* never gets into the loop that pushes.
Sync ==
  /\ stop <=> phase \in {"join", "done"}
  /\ \A w \in Workers : pc[w] = "none" <=> w > created
  /\ \A w \in Workers : w <= joined => pc[w] = "exit"
  /\ \A w \in Workers : pc[w] = "exit" => stop /\ fifo = <<>>
  /\ phase = "spawn" => fifo = <<>>
  /\ phase # "spawn" /\ created < WorkerNum
       => gStop /\ fifo = <<>> /\ phase # "batch"
  /\ phase = "done" => joined = created

Inv == /\ TypeOK
       /\ ListIsFifo
       /\ OneOwner
       /\ NoSleeperAfterStop
       /\ Sync

USE WorkerNumAssumption, NullAssumption DEF Workers

\* With WorkerNum a natural number, worker numbers are integers.
LEMMA WorkersAreIntegers == WorkerNum \in Nat /\ Workers \subseteq Int
  OBVIOUS

\* The parts of Inv that speak of the queue alone survive every step that
\* leaves the queue, live and cur alone and starts or ends no task.
LEMMA QueueUntouched ==
  ASSUME ListIsFifo, OneOwner,
         UNCHANGED <<head, tail, next, fifo, live, cur>>,
         \A w \in Workers : pc[w] = "work" <=> pc'[w] = "work"
  PROVE  ListIsFifo' /\ OneOwner'
  BY DEF ListIsFifo, OneOwner, Held

\* The initial states satisfy the inductive invariant.
LEMMA InitInv == Init => Inv
<1> SUFFICES ASSUME Init PROVE Inv
  OBVIOUS
<1>1. TypeOK
  <2>1. fifo \in Seq(Tasks)
    BY DEF Init
  <2>2. created \in 0..WorkerNum /\ joined \in 0..created
    BY DEF Init
  <2>3. cur \in [Workers -> Tasks \cup {NULL}]
    BY DEF Init
  <2>4. pc \in [Workers -> {"none", "pop", "wait", "work", "exit"}]
    BY DEF Init
  <2>5. next \in [Tasks -> Tasks \cup {NULL}]
    BY DEF Init
  <2> QED
    BY <2>1, <2>2, <2>3, <2>4, <2>5 DEF Init, TypeOK, Phases
<1>2. ListIsFifo
  BY DEF Init, ListIsFifo
<1>3. OneOwner
  BY DEF Init, OneOwner, Held
<1>4. NoSleeperAfterStop
  BY DEF Init, NoSleeperAfterStop
<1>5. Sync
  BY DEF Init, Sync
<1> QED
  BY <1>1, <1>2, <1>3, <1>4, <1>5 DEF Inv

\* Appending to the history adds one element at the end.
LEMMA AppendFacts ==
  ASSUME NEW s \in Seq(Tasks), NEW t \in Tasks
  PROVE  /\ Append(s, t) \in Seq(Tasks)
         /\ Append(s, t) # <<>>
         /\ Len(Append(s, t)) = Len(s) + 1
         /\ DOMAIN Append(s, t) = 1..(Len(s) + 1)
         /\ \A i \in 1..Len(s) : Append(s, t)[i] = s[i]
         /\ Append(s, t)[Len(s) + 1] = t
  OBVIOUS

\* Taking the first element shifts the others by one.
LEMMA TailFacts ==
  ASSUME NEW s \in Seq(Tasks), s # <<>>
  PROVE  /\ Tail(s) \in Seq(Tasks)
         /\ Len(s) \in Nat /\ Len(s) >= 1
         /\ Len(Tail(s)) = Len(s) - 1
         /\ DOMAIN Tail(s) = 1..(Len(s) - 1)
         /\ \A i \in 1..(Len(s) - 1) : Tail(s)[i] = s[i + 1]
         /\ s[1] \in Tasks
  OBVIOUS

\* The elements of a sequence, and when it is empty.
LEMMA SeqFacts ==
  ASSUME NEW s \in Seq(Tasks)
  PROVE  /\ DOMAIN s = 1..Len(s)
         /\ Len(s) \in Nat
         /\ s = <<>> <=> Len(s) = 0
         /\ \A i \in 1..Len(s) : s[i] \in Tasks
  OBVIOUS

\* task_queue_push keeps the invariant.
LEMMA PushInv == ASSUME Inv, NEW t \in Tasks, Push(t) PROVE Inv'
<1> USE DEF Inv, Push
<1>1. /\ fifo \in Seq(Tasks) /\ fifo' = Append(fifo, t)
      /\ head \in Tasks \cup {NULL} /\ tail \in Tasks \cup {NULL}
      /\ next \in [Tasks -> Tasks \cup {NULL}]
      /\ pc \in [Workers -> {"none", "pop", "wait", "work", "exit"}]
      /\ t # NULL
  BY DEF TypeOK
<1>2. /\ pc' \in [Workers -> {"none", "pop", "wait", "work", "exit"}]
      /\ \A w \in Workers : \/ pc'[w] = pc[w]
                            \/ pc[w] = "wait" /\ pc'[w] = "pop"
  BY <1>1 DEF SignalOne, Waiting
<1>3. \A i \in 1..Len(fifo) : fifo[i] \in Tasks /\ fifo[i] # t
  BY <1>1, SeqFacts DEF OneOwner
<1>4. TypeOK'
  <2>1. fifo' \in Seq(Tasks)
    BY <1>1, AppendFacts
  <2>2. next' \in [Tasks -> Tasks \cup {NULL}]
    BY <1>1
  <2>3. head' \in Tasks \cup {NULL} /\ tail' \in Tasks \cup {NULL} /\ live' \subseteq Tasks
    BY <1>1 DEF TypeOK
  <2> QED
    BY <1>2, <2>1, <2>2, <2>3 DEF TypeOK, mainVars
<1>5. ListIsFifo'
  <2>1. fifo' # <<>> /\ Len(fifo') = Len(fifo) + 1 /\ fifo'[Len(fifo')] = t
    BY <1>1, AppendFacts, SeqFacts
  <2>2. tail' = t /\ next'[t] = NULL
    BY <1>1
  <2>3. head' = fifo'[1]
    BY <1>1, AppendFacts, SeqFacts DEF ListIsFifo
  <2>4. ASSUME NEW i \in 1..Len(fifo) PROVE next'[fifo'[i]] = fifo'[i + 1]
    <3>1. fifo'[i] = fifo[i] /\ fifo[i] \in Tasks /\ fifo[i] # t
      BY <1>1, <1>3, AppendFacts
    <3>2. tail = fifo[Len(fifo)] /\ fifo # <<>> /\ Len(fifo) \in Nat /\ i \in Nat
      BY <1>1, SeqFacts DEF ListIsFifo
    <3>3. CASE i = Len(fifo)
      <4>1. next'[fifo[i]] = t
        BY <1>1, <3>1, <3>2, <3>3
      <4> QED
        BY <4>1, <2>1, <3>1, <3>3
    <3>4. CASE i # Len(fifo)
      <4>1. i \in 1..(Len(fifo) - 1) /\ i + 1 \in 1..Len(fifo)
        BY <3>2, <3>4
      <4>2. fifo[i] # tail
        BY <3>2, <4>1, <1>1, SeqFacts DEF OneOwner
      <4>3. next'[fifo[i]] = next[fifo[i]]
        BY <1>1, <3>1, <4>2
      <4>4. next[fifo[i]] = fifo[i + 1]
        BY <3>2, <4>1 DEF ListIsFifo
      <4>5. fifo'[i + 1] = fifo[i + 1]
        BY <4>1, <1>1, AppendFacts
      <4> QED
        BY <3>1, <4>3, <4>4, <4>5
    <3> QED
      BY <3>3, <3>4
  <2>5. Len(fifo') - 1 = Len(fifo)
    BY <2>1, <1>1, SeqFacts
  <2>6. fifo' # <<>> /\ tail' = fifo'[Len(fifo')] /\ next'[tail'] = NULL
    BY <2>1, <2>2
  <2> HIDE DEF Push
  <2> QED
    BY <2>3, <2>4, <2>5, <2>6 DEF ListIsFifo
<1>6. OneOwner'
  <2>1. /\ DOMAIN fifo = 1..Len(fifo) /\ Len(fifo) \in Nat
        /\ DOMAIN fifo' = 1..(Len(fifo) + 1)
        /\ \A i \in DOMAIN fifo : fifo'[i] = fifo[i]
        /\ fifo'[Len(fifo) + 1] = t
    BY <1>1, SeqFacts, AppendFacts
  <2>2. \A i \in DOMAIN fifo' : i \in DOMAIN fifo \/ i = Len(fifo) + 1
    BY <2>1
  <2>3. Held' = Held /\ cur' = cur
    BY DEF Held
  <2>4. \A w \in Held : cur[w] # t
    BY DEF OneOwner
  <2>5. \A i, j \in DOMAIN fifo' : fifo'[i] = fifo'[j] => i = j
    BY <1>3, <2>1, <2>2 DEF OneOwner
  <2>6. \A w \in Held', i \in DOMAIN fifo' : cur'[w] # fifo'[i]
    BY <2>1, <2>2, <2>3, <2>4 DEF OneOwner
  <2>7. \A w \in Workers : w \in Held' <=> pc'[w] = "work"
    BY <1>2, <2>3 DEF OneOwner
  <2>8. {fifo'[i] : i \in DOMAIN fifo'} = {fifo[i] : i \in DOMAIN fifo} \cup {t}
    BY <2>1, <2>2
  <2> QED
    BY <2>3, <2>5, <2>6, <2>7, <2>8 DEF OneOwner
<1>7. NoSleeperAfterStop'
  BY DEF NoSleeperAfterStop
<1>8. Sync'
  BY <1>2 DEF Sync, mainVars, TypeOK
<1> QED
  BY <1>4, <1>5, <1>6, <1>7, <1>8

\* task_queue_pop, when it takes a task, keeps the invariant.
LEMMA PopTakeInv == ASSUME Inv, NEW w \in Workers, PopTake(w) PROVE Inv'
<1> USE DEF Inv, PopTake
<1>1. /\ fifo \in Seq(Tasks) /\ fifo' = Tail(fifo)
      /\ cur \in [Workers -> Tasks \cup {NULL}]
      /\ next \in [Tasks -> Tasks \cup {NULL}]
      /\ pc \in [Workers -> {"none", "pop", "wait", "work", "exit"}]
  BY DEF TypeOK
<1>2. fifo # <<>> /\ head = fifo[1] /\ head \in Tasks /\ head # NULL
  BY <1>1, TailFacts DEF ListIsFifo
<1>3. /\ DOMAIN fifo = 1..Len(fifo) /\ Len(fifo) \in Nat /\ Len(fifo) >= 1
      /\ \A i \in 1..Len(fifo) : fifo[i] \in Tasks
      /\ fifo' \in Seq(Tasks) /\ Len(fifo') = Len(fifo) - 1
      /\ DOMAIN fifo' = 1..(Len(fifo) - 1)
      /\ \A i \in 1..(Len(fifo) - 1) : fifo'[i] = fifo[i + 1]
      /\ fifo' = <<>> <=> Len(fifo') = 0
  BY <1>1, <1>2, SeqFacts, TailFacts
<1>4. /\ pc' \in [Workers -> {"none", "pop", "wait", "work", "exit"}]
      /\ pc'[w] = "work" /\ \A v \in Workers : v # w => pc'[v] = pc[v]
      /\ cur' \in [Workers -> Tasks \cup {NULL}]
      /\ cur'[w] = head /\ \A v \in Workers : v # w => cur'[v] = cur[v]
  BY <1>1, <1>2
<1>5. TypeOK'
  <2>1. next' \in [Tasks -> Tasks \cup {NULL}]
    BY <1>1, <1>2
  <2>2. head' \in Tasks \cup {NULL} /\ tail' \in Tasks \cup {NULL}
    BY <1>1, <1>2 DEF TypeOK, TailAfterPop
  <2> QED
    BY <1>3, <1>4, <2>1, <2>2 DEF TypeOK, mainVars
<1>6. ListIsFifo'
  <2>1. CASE Len(fifo) = 1
    <3>1. fifo' = <<>> /\ tail = head /\ next[head] = NULL
      BY <1>2, <1>3, <2>1, SeqFacts DEF ListIsFifo
    <3> QED
      BY <3>1 DEF ListIsFifo, TailAfterPop
  <2>2. CASE Len(fifo) # 1
    <3>1. fifo' # <<>> /\ 1 \in 1..(Len(fifo) - 1) /\ Len(fifo) - 1 \in 1..(Len(fifo) - 1)
      BY <1>3, <2>2
    <3>2. next[head] = fifo[2] /\ head' = fifo'[1]
      BY <1>2, <1>3, <3>1 DEF ListIsFifo
    <3>3. tail' = tail /\ tail = fifo[Len(fifo)] /\ tail = fifo'[Len(fifo')]
      BY <1>2, <1>3, <2>2, <3>1, <3>2 DEF ListIsFifo, TailAfterPop
    <3>4. ASSUME NEW i \in 1..Len(fifo), i # 1 PROVE fifo[i] # head
      <4>1. 1 \in DOMAIN fifo /\ i \in DOMAIN fifo
        BY <1>3
      <4> QED
        BY <4>1, <1>2, <3>4 DEF OneOwner
    <3>5. next'[tail'] = NULL
      BY <1>1, <1>2, <3>3, <1>3, <3>1 DEF ListIsFifo
    <3>6. ASSUME NEW i \in 1..(Len(fifo') - 1) PROVE next'[fifo'[i]] = fifo'[i + 1]
      <4>1. i + 1 \in 1..(Len(fifo) - 1) /\ i \in 1..(Len(fifo) - 1) /\ i + 1 # 1
        BY <1>3
      <4>2. fifo'[i] = fifo[i + 1] /\ fifo'[i + 1] = fifo[(i + 1) + 1]
        BY <1>3, <4>1
      <4>3. next[fifo[i + 1]] = fifo[(i + 1) + 1]
        BY <1>2, <4>1 DEF ListIsFifo
      <4>4. fifo[i + 1] # head /\ fifo[i + 1] \in Tasks
        BY <3>4, <4>1, <1>3
      <4> QED
        BY <1>1, <4>2, <4>3, <4>4
    <3> QED
      BY <3>1, <3>2, <3>3, <3>5, <3>6, <1>3 DEF ListIsFifo
  <2> QED
    BY <2>1, <2>2
<1>7. OneOwner'
  <2>1. w \notin Held /\ Held' = Held \cup {w}
    BY <1>1, <1>2, <1>4 DEF OneOwner, Held
  <2>2. \A v \in Held : cur[v] # head /\ v # w
    BY <1>2, <1>3, <2>1 DEF OneOwner
  <2>3. \A i \in DOMAIN fifo' : fifo'[i] = fifo[i + 1] /\ i + 1 \in DOMAIN fifo /\ i + 1 # 1
    BY <1>3
  <2>4. \A i \in DOMAIN fifo' : fifo'[i] # head
    BY <1>2, <1>3, <2>3 DEF OneOwner
  <2>5. \A i, j \in DOMAIN fifo' : fifo'[i] = fifo'[j] => i = j
    BY <1>3, <2>3 DEF OneOwner
  <2>6. \A u, v \in Held' : cur'[u] = cur'[v] => u = v
    BY <1>4, <2>1, <2>2 DEF OneOwner, Held
  <2>7. \A v \in Held', i \in DOMAIN fifo' : cur'[v] # fifo'[i]
    <3> SUFFICES ASSUME NEW v \in Held', NEW i \in DOMAIN fifo' PROVE cur'[v] # fifo'[i]
      OBVIOUS
    <3>1. CASE v = w
      BY <3>1, <1>4, <2>4
    <3>2. CASE v # w
      <4>1. v \in Held /\ v \in Workers /\ cur'[v] = cur[v]
        BY <3>2, <2>1, <1>4 DEF Held
      <4> QED
        BY <4>1, <2>3 DEF OneOwner
    <3> QED
      BY <3>1, <3>2
  <2>8. \A v \in Workers : v \in Held' <=> pc'[v] = "work"
    BY <1>4, <2>1 DEF OneOwner
  <2>9. {fifo[i] : i \in DOMAIN fifo} = {fifo'[i] : i \in DOMAIN fifo'} \cup {head}
    <3>1. ASSUME NEW i \in DOMAIN fifo, i # 1
          PROVE  fifo[i] \in {fifo'[j] : j \in DOMAIN fifo'}
      <4>1. i - 1 \in DOMAIN fifo' /\ (i - 1) + 1 = i
        BY <1>3, <3>1
      <4> QED
        BY <4>1, <2>3
    <3>2. \A j \in DOMAIN fifo' : fifo'[j] \in {fifo[i] : i \in DOMAIN fifo}
      BY <2>3
    <3>3. 1 \in DOMAIN fifo /\ fifo[1] = head
      BY <1>2, <1>3
    <3> QED
      BY <3>1, <3>2, <3>3
  <2>10. {cur'[v] : v \in Held'} = {cur[v] : v \in Held} \cup {head}
    BY <1>4, <2>1 DEF Held
  <2> QED
    BY <2>5, <2>6, <2>7, <2>8, <2>9, <2>10 DEF OneOwner
<1>8. NoSleeperAfterStop'
  BY <1>4 DEF NoSleeperAfterStop, Waiting
<1>9. Sync'
  BY <1>2, <1>3, <1>4, TailFacts DEF Sync, mainVars, TypeOK
<1> QED
  BY <1>5, <1>6, <1>7, <1>8, <1>9

\* A worker that waits keeps the invariant: the queue is not stopped.
LEMMA PopWaitInv == ASSUME Inv, NEW w \in Workers, PopWait(w) PROVE Inv'
<1> USE DEF Inv, PopWait
<1>1. /\ pc' \in [Workers -> {"none", "pop", "wait", "work", "exit"}]
      /\ pc'[w] = "wait" /\ \A v \in Workers : v # w => pc'[v] = pc[v]
  BY DEF TypeOK
<1>2. TypeOK'
  BY <1>1 DEF TypeOK, queueVars, mainVars
<1>3. ListIsFifo' /\ OneOwner'
  BY <1>1, QueueUntouched DEF queueVars
<1>4. NoSleeperAfterStop'
  BY DEF NoSleeperAfterStop, MustWait, queueVars
<1>5. Sync'
  BY <1>1 DEF Sync, queueVars, mainVars
<1> QED
  BY <1>2, <1>3, <1>4, <1>5

\* A worker that returns keeps the invariant: it leaves an empty queue.
LEMMA PopExitInv == ASSUME Inv, NEW w \in Workers, PopExit(w) PROVE Inv'
<1> USE DEF Inv, PopExit
<1>1. /\ pc' \in [Workers -> {"none", "pop", "wait", "work", "exit"}]
      /\ pc'[w] = "exit" /\ \A v \in Workers : v # w => pc'[v] = pc[v]
  BY DEF TypeOK
<1>2. TypeOK'
  BY <1>1 DEF TypeOK, queueVars, mainVars
<1>3. ListIsFifo' /\ OneOwner'
  BY <1>1, QueueUntouched DEF queueVars
<1>4. NoSleeperAfterStop'
  BY <1>1 DEF NoSleeperAfterStop, Waiting, queueVars
<1>5. stop /\ fifo = <<>>
  <2>1. head \in Tasks \/ fifo = <<>>
    BY TailFacts DEF ListIsFifo, TypeOK
  <2> QED
    BY <2>1 DEF MustExit, QueueEmpty
<1>6. Sync'
  BY <1>1, <1>5 DEF Sync, queueVars, mainVars
<1> QED
  BY <1>2, <1>3, <1>4, <1>6

\* A wait that ends without a signal keeps the invariant.
LEMMA SpuriousWakeupInv ==
  ASSUME Inv, NEW w \in Workers, SpuriousWakeup(w) PROVE Inv'
<1> USE DEF Inv, SpuriousWakeup
<1>1. /\ pc' \in [Workers -> {"none", "pop", "wait", "work", "exit"}]
      /\ pc'[w] = "pop" /\ \A v \in Workers : v # w => pc'[v] = pc[v]
  BY DEF TypeOK
<1>2. TypeOK'
  BY <1>1 DEF TypeOK, queueVars, mainVars
<1>3. ListIsFifo' /\ OneOwner'
  BY <1>1, QueueUntouched DEF queueVars
<1>4. NoSleeperAfterStop'
  BY <1>1 DEF NoSleeperAfterStop, Waiting, queueVars
<1>5. Sync'
  BY <1>1 DEF Sync, queueVars, mainVars
<1> QED
  BY <1>2, <1>3, <1>4, <1>5

\* Running and freeing a task keeps the invariant.
LEMMA FinishTaskInv == ASSUME Inv, NEW w \in Workers, FinishTask(w) PROVE Inv'
<1> USE DEF Inv, FinishTask
<1>1. /\ pc' \in [Workers -> {"none", "pop", "wait", "work", "exit"}]
      /\ pc'[w] = "pop" /\ \A v \in Workers : v # w => pc'[v] = pc[v]
      /\ cur' \in [Workers -> Tasks \cup {NULL}]
      /\ cur'[w] = NULL /\ \A v \in Workers : v # w => cur'[v] = cur[v]
      /\ live' = live \ {cur[w]} /\ fifo' = fifo
  BY DEF TypeOK, queueVars, LiveAfterFree
<1>2. TypeOK'
  BY <1>1 DEF TypeOK, queueVars, mainVars
<1>3. ListIsFifo'
  BY DEF ListIsFifo, queueVars
<1>4. OneOwner'
  <2>1. w \in Held /\ Held' = Held \ {w}
    BY <1>1 DEF OneOwner, Held
  <2>2. \A v \in Held' : cur'[v] = cur[v] /\ cur[v] # cur[w]
    BY <1>1, <2>1 DEF OneOwner, Held
  <2>3. {cur'[v] : v \in Held'} = {cur[v] : v \in Held} \ {cur[w]}
    BY <2>1, <2>2
  <2>4. \A i \in DOMAIN fifo : cur[w] # fifo[i]
    BY <2>1 DEF OneOwner
  <2>5. \A v \in Workers : v \in Held' <=> pc'[v] = "work"
    BY <1>1, <2>1 DEF OneOwner
  <2>6. live' = {fifo'[i] : i \in DOMAIN fifo'} \cup {cur'[v] : v \in Held'}
    <3>1. live = {fifo[i] : i \in DOMAIN fifo} \cup {cur[v] : v \in Held}
      BY DEF OneOwner
    <3>2. cur[w] \notin {fifo[i] : i \in DOMAIN fifo}
      BY <2>4
    <3>3. {fifo'[i] : i \in DOMAIN fifo'} = {fifo[i] : i \in DOMAIN fifo}
      BY <1>1
    <3>4. live' = live \ {cur[w]}
      BY <1>1
    <3> HIDE DEF Inv, FinishTask
    <3> QED
      BY <3>1, <3>2, <3>3, <3>4, <2>3
  <2>7. /\ \A i, j \in DOMAIN fifo' : fifo'[i] = fifo'[j] => i = j
        /\ \A u, v \in Held' : cur'[u] = cur'[v] => u = v
        /\ \A v \in Held', i \in DOMAIN fifo' : cur'[v] # fifo'[i]
    BY <1>1, <2>1, <2>2 DEF OneOwner
  <2> QED
    BY <2>5, <2>6, <2>7 DEF OneOwner
<1>5. NoSleeperAfterStop'
  BY <1>1 DEF NoSleeperAfterStop, Waiting, queueVars
<1>6. Sync'
  BY <1>1 DEF Sync, queueVars, mainVars
<1> QED
  BY <1>2, <1>3, <1>4, <1>5, <1>6

\* Starting the workers keeps the invariant.
LEMMA SpawnInv ==
  ASSUME Inv, SpawnWorker \/ SpawnDone \/ SpawnFails PROVE Inv'
<1> USE DEF Inv
<1>1. CASE SpawnWorker
  <2> USE <1>1 DEF SpawnWorker, MoreWorkers
  <2>1. created \in 0..WorkerNum /\ created + 1 \in Workers
    BY DEF TypeOK
  <2>2. /\ pc' \in [Workers -> {"none", "pop", "wait", "work", "exit"}]
        /\ pc'[created + 1] = "pop"
        /\ \A v \in Workers : v # created + 1 => pc'[v] = pc[v]
        /\ pc[created + 1] = "none"
    BY <2>1 DEF TypeOK, Sync
  <2>3. TypeOK'
    BY <2>1, <2>2 DEF TypeOK, queueVars
  <2>4. ListIsFifo' /\ OneOwner'
    BY <2>1, <2>2, QueueUntouched DEF queueVars
  <2>5. NoSleeperAfterStop'
    BY <2>1, <2>2 DEF NoSleeperAfterStop, Waiting, queueVars
  <2>6. \A v \in Workers : pc'[v] = "none" <=> v > created'
    BY <2>1, <2>2 DEF Sync
  <2>7. Sync'
    BY <2>1, <2>2, <2>6 DEF Sync, queueVars
  <2> QED
    BY <2>3, <2>4, <2>5, <2>7
<1>2. CASE SpawnDone
  <2> USE <1>2 DEF SpawnDone, MoreWorkers
  <2>1. TypeOK'
    BY DEF TypeOK, queueVars, workerVars, Phases
  <2>2. ListIsFifo' /\ OneOwner'
    BY QueueUntouched DEF queueVars, workerVars
  <2>3. NoSleeperAfterStop' /\ Sync'
    BY DEF NoSleeperAfterStop, Waiting, Sync, TypeOK, queueVars, workerVars
  <2> QED
    BY <2>1, <2>2, <2>3
<1>3. CASE SpawnFails
  <2> USE <1>3 DEF SpawnFails, MoreWorkers
  <2>1. TypeOK'
    BY DEF TypeOK, queueVars, workerVars, Phases
  <2>2. ListIsFifo' /\ OneOwner'
    BY QueueUntouched DEF queueVars, workerVars
  <2>3. NoSleeperAfterStop' /\ Sync'
    BY DEF NoSleeperAfterStop, Waiting, Sync, TypeOK, queueVars, workerVars
  <2> QED
    BY <2>1, <2>2, <2>3
<1> QED
  BY <1>1, <1>2, <1>3

\* When every worker there is has been joined, the queue is empty: a worker
\* that returned saw it so, and without workers nothing was ever pushed.
LEMMA JoinedMeansEmpty ==
  ASSUME Inv, phase = "join", joined = created
  PROVE  fifo = <<>> /\ head = NULL
<1>1. created \in 0..WorkerNum /\ 1 \in Workers
  BY DEF Inv, TypeOK
<1>2. CASE created < WorkerNum
  BY <1>2 DEF Inv, Sync, ListIsFifo
<1>3. CASE created = WorkerNum
  <2>1. pc[1] = "exit"
    BY <1>1, <1>3 DEF Inv, Sync
  <2> QED
    BY <2>1, <1>1 DEF Inv, Sync, ListIsFifo
<1> QED
  BY <1>1, <1>2, <1>3

\* The steps of the main thread from its set-up to the end of its loop, and a
\* stop request, keep the invariant.
LEMMA LoopInv ==
  ASSUME Inv, Setup \/ StopRequested \/ LoopTest \/ EndBatch PROVE Inv'
<1> USE DEF Inv, Setup, StopRequested, LoopTest, EndBatch
<1>1. UNCHANGED <<queueVars, live, workerVars, created, joined>>
  OBVIOUS
<1>2. phase' \in Phases /\ gStop' \in BOOLEAN
  BY DEF TypeOK, Phases
<1>3. TypeOK'
  BY <1>1, <1>2 DEF TypeOK, queueVars, workerVars
<1>4. ListIsFifo' /\ OneOwner'
  BY <1>1, QueueUntouched DEF queueVars, workerVars
<1>5. NoSleeperAfterStop'
  BY <1>1 DEF NoSleeperAfterStop, Waiting, queueVars, workerVars
<1>6. Sync'
  BY DEF Sync, TypeOK, queueVars, workerVars
<1> QED
  BY <1>3, <1>4, <1>5, <1>6

\* task_queue_stop keeps the invariant: its broadcast leaves no sleeper.
LEMMA StopQueueInv == ASSUME Inv, StopQueue PROVE Inv'
<1> USE DEF Inv, StopQueue
<1>1. /\ pc' \in [Workers -> {"none", "pop", "wait", "work", "exit"}]
      /\ \A w \in Workers : \/ pc'[w] = pc[w] /\ pc[w] # "wait"
                            \/ pc[w] = "wait" /\ pc'[w] = "pop"
  BY DEF Broadcast, Waiting, TypeOK
<1>2. TypeOK'
  BY <1>1 DEF TypeOK, Phases
<1>3. ListIsFifo' /\ OneOwner'
  BY <1>1, QueueUntouched
<1>4. NoSleeperAfterStop'
  BY <1>1 DEF NoSleeperAfterStop, Waiting
<1>5. Sync'
  BY <1>1 DEF Sync
<1> QED
  BY <1>2, <1>3, <1>4, <1>5

\* pthread_join keeps the invariant.
LEMMA JoinWorkerInv == ASSUME Inv, JoinWorker PROVE Inv'
<1> USE DEF Inv, JoinWorker
<1>1. UNCHANGED <<queueVars, live, workerVars, phase, gStop, created>>
  OBVIOUS
<1>2. /\ created \in 0..WorkerNum /\ joined \in 0..created
      /\ joined < created /\ joined' = joined + 1 /\ joined' \in Workers
      /\ pc[joined'] = "exit"
  BY DEF TypeOK, CanJoin, WorkersToJoin
<1>3. TypeOK'
  BY <1>1, <1>2 DEF TypeOK, queueVars, workerVars
<1>4. ListIsFifo' /\ OneOwner'
  BY <1>1, QueueUntouched DEF queueVars, workerVars
<1>5. NoSleeperAfterStop'
  BY <1>1 DEF NoSleeperAfterStop, Waiting, queueVars, workerVars
<1>6. ASSUME NEW w \in Workers, w <= joined' PROVE pc'[w] = "exit"
  <2>1. w <= joined \/ w = joined'
    BY <1>2, <1>6
  <2> QED
    BY <2>1, <1>1, <1>2 DEF Sync, workerVars
<1>7. Sync'
  BY <1>1, <1>6 DEF Sync, queueVars, workerVars
<1> QED
  BY <1>3, <1>4, <1>5, <1>7

\* task_queue_destroy keeps the invariant: its list is empty.
LEMMA DestroyQueueInv == ASSUME Inv, DestroyQueue PROVE Inv'
<1> USE DEF Inv, DestroyQueue
<1>1. phase = "join" /\ joined = created
  BY DEF TypeOK, WorkersToJoin
<1>2. fifo = <<>> /\ head = NULL /\ tail = NULL
  BY <1>1, JoinedMeansEmpty DEF ListIsFifo
<1>3. /\ UNCHANGED <<head, tail, next, stop, fifo, live, workerVars, gStop, created, joined>>
      /\ phase' = "done"
  BY <1>2
<1>4. TypeOK'
  BY <1>3 DEF TypeOK, Phases, workerVars
<1>5. ListIsFifo' /\ OneOwner'
  BY <1>3, QueueUntouched DEF workerVars
<1>6. NoSleeperAfterStop'
  BY <1>3 DEF NoSleeperAfterStop, Waiting, workerVars
<1>7. Sync'
  BY <1>1, <1>2, <1>3 DEF Sync, workerVars
<1> QED
  BY <1>4, <1>5, <1>6, <1>7

\* So does a step that changes nothing.
LEMMA StutterInv == ASSUME Inv, UNCHANGED vars PROVE Inv'
  BY DEF Inv, vars, queueVars, workerVars, mainVars, TypeOK, ListIsFifo,
         OneOwner, Held, NoSleeperAfterStop, Waiting, Sync

\* Inv is inductive.
LEMMA NextInv == Inv /\ [Next]_vars => Inv'
<1> SUFFICES ASSUME Inv, [Next]_vars PROVE Inv'
  OBVIOUS
<1>1. CASE SpawnWorker \/ SpawnDone \/ SpawnFails
  BY <1>1, SpawnInv
<1>2. CASE Setup \/ StopRequested \/ LoopTest \/ EndBatch
  BY <1>2, LoopInv
<1>3. ASSUME NEW t \in Tasks, Push(t) PROVE Inv'
  BY <1>3, PushInv
<1>4. CASE StopQueue
  BY <1>4, StopQueueInv
<1>5. CASE JoinWorker
  BY <1>5, JoinWorkerInv
<1>6. CASE DestroyQueue
  BY <1>6, DestroyQueueInv
<1>7. ASSUME NEW w \in Workers, WorkerStep(w) PROVE Inv'
  BY <1>7, PopWaitInv, PopExitInv, PopTakeInv, SpuriousWakeupInv, FinishTaskInv
     DEF WorkerStep, Pop
<1>8. CASE UNCHANGED vars
  BY <1>8, StutterInv
<1> QED
  BY <1>1, <1>2, <1>3, <1>4, <1>5, <1>6, <1>7, <1>8
     DEF Next, MainStep, Terminated

\* The inductive invariant holds in every reachable state.
THEOREM Invariant == SafeSpec => []Inv
<1>1. Init => Inv
  BY InitInv
<1>2. Inv /\ [Next]_vars => Inv'
  BY NextInv
<1> QED
  BY <1>1, <1>2, PTL DEF SafeSpec

\* Every variable keeps its type and the main thread never counts beyond its
\* workers (the loops of main_t over worker_num and created_workers).
THEOREM TypeCorrect == SafeSpec => []TypeOK
  BY Invariant, PTL DEF Inv

\* The head, tail and next pointers of task_queue_push and task_queue_pop
\* always are the list of the tasks pushed and not popped.
THEOREM ListCorrect == SafeSpec => []ListIsFifo
  BY Invariant, PTL DEF Inv

\* Every allocated task has one owner: no double run, double free, use after
\* free or leak (task_queue_pop, worker_thread).
THEOREM OwnershipCorrect == SafeSpec => []OneOwner
  BY Invariant, PTL DEF Inv

\* No worker sleeps once task_queue_stop has broadcast.
THEOREM NoLostStop == SafeSpec => []NoSleeperAfterStop
  BY Invariant, PTL DEF Inv

\* task_queue_destroy finds no task to throw away (main_t, quit).
THEOREM ShutdownSafe == SafeSpec => []NoTaskDiscarded
<1>1. Inv => NoTaskDiscarded
  BY JoinedMeansEmpty DEF NoTaskDiscarded
<1> QED
  BY <1>1, Invariant, PTL

\* No worker could still lock the mutex that task_queue_destroy destroys: every
\* one that was created has been joined (main_t, quit).
THEOREM JoinedBeforeDestroy == SafeSpec => []NoWorkerOutlivesQueue
<1>1. Inv => NoWorkerOutlivesQueue
  <2> SUFFICES ASSUME Inv, phase = "done", NEW w \in Workers
               PROVE  pc[w] \in {"none", "exit"}
    BY DEF NoWorkerOutlivesQueue
  <2>1. created \in 0..WorkerNum /\ joined = created
    BY DEF Inv, TypeOK, Sync
  <2> QED
    BY <2>1 DEF Inv, Sync
<1> QED
  BY <1>1, Invariant, PTL

\* The workers that can take a task are finitely many.
LEMMA AwakeFinite == IsFiniteSet(Awake) /\ Cardinality(Awake) \in Nat
<1>1. IsFiniteSet(Workers)
  BY FS_Interval, WorkersAreIntegers
<1>2. IsFiniteSet(Awake)
  BY <1>1, FS_Subset DEF Awake
<1> QED
  BY <1>2, FS_CardinalityType

\* A worker that starts to be awake adds one to them.
LEMMA OneMoreAwake ==
  ASSUME NEW w \in Workers, pc[w] # "pop",
         pc'[w] = "pop", \A v \in Workers : v # w => pc'[v] = pc[v]
  PROVE  Cardinality(Awake') = Cardinality(Awake) + 1
<1>1. w \notin Awake /\ Awake' = Awake \cup {w}
  BY DEF Awake
<1> QED
  BY <1>1, AwakeFinite, FS_AddElement

\* A worker that stops being awake takes one from them.
LEMMA OneLessAwake ==
  ASSUME NEW w \in Workers, pc[w] = "pop",
         pc'[w] # "pop", \A v \in Workers : v # w => pc'[v] = pc[v]
  PROVE  Cardinality(Awake') = Cardinality(Awake) - 1
<1>1. w \in Awake /\ Awake' = Awake \ {w}
  BY DEF Awake
<1> QED
  BY <1>1, AwakeFinite, FS_RemoveElement

\* One step never leaves more tasks than awake workers next to a sleeper.
LEMMA NextWorkConserving ==
  Inv /\ WorkConserving /\ [Next]_vars => WorkConserving'
<1> SUFFICES ASSUME Inv, WorkConserving, [Next]_vars, Waiting' # {}
             PROVE  Len(fifo') <= Cardinality(Awake')
  BY DEF WorkConserving
<1>1. /\ fifo \in Seq(Tasks) /\ Len(fifo) \in Nat
      /\ pc \in [Workers -> {"none", "pop", "wait", "work", "exit"}]
      /\ Cardinality(Awake) \in Nat
  BY AwakeFinite, SeqFacts DEF Inv, TypeOK
<1>2. ASSUME UNCHANGED <<fifo, pc>> PROVE Len(fifo') <= Cardinality(Awake')
  <2>1. Waiting' = Waiting /\ Awake' = Awake
    BY <1>2 DEF Waiting, Awake
  <2> QED
    BY <2>1, <1>2 DEF WorkConserving
<1>3. ASSUME NEW t \in Tasks, Push(t) PROVE Len(fifo') <= Cardinality(Awake')
  <2>1. Len(fifo') = Len(fifo) + 1
    BY <1>1, <1>3, AppendFacts DEF Push
  <2>2. CASE Waiting = {}
    BY <1>3, <2>2 DEF Push, SignalOne, Waiting
  <2>3. CASE Waiting # {}
    <3>1. PICK w \in Waiting : pc' = [pc EXCEPT ![w] = "pop"]
      BY <1>3, <2>3 DEF Push, SignalOne
    <3>2. Cardinality(Awake') = Cardinality(Awake) + 1
      BY <3>1, <1>1, OneMoreAwake DEF Waiting
    <3> QED
      BY <1>1, <2>1, <2>3, <3>2 DEF WorkConserving
  <2> QED
    BY <2>2, <2>3
<1>4. ASSUME NEW w \in Workers, PopWait(w) \/ PopExit(w)
      PROVE  Len(fifo') <= Cardinality(Awake')
  <2>1. fifo' = fifo /\ head = NULL
    BY <1>4 DEF PopWait, PopExit, MustWait, MustExit, QueueEmpty, queueVars
  <2>2. fifo = <<>>
    BY <1>1, <2>1, TailFacts DEF Inv, ListIsFifo
  <2>3. Cardinality(Awake') \in Nat
    <3>1. pc' = [pc EXCEPT ![w] = "wait"] \/ pc' = [pc EXCEPT ![w] = "exit"]
      BY <1>4 DEF PopWait, PopExit
    <3>2. pc[w] = "pop" /\ pc'[w] # "pop" /\ \A v \in Workers : v # w => pc'[v] = pc[v]
      BY <1>1, <1>4, <3>1 DEF PopWait, PopExit
    <3>3. w \in Awake /\ Awake' = Awake \ {w}
      BY <3>2 DEF Awake
    <3> QED
      BY <3>3, AwakeFinite, FS_RemoveElement, FS_CardinalityType
  <2> QED
    BY <2>1, <2>2, <2>3
<1>5. ASSUME NEW w \in Workers, PopTake(w) PROVE Len(fifo') <= Cardinality(Awake')
  <2>1. fifo # <<>> /\ Len(fifo') = Len(fifo) - 1
    BY <1>1, <1>5, TailFacts DEF PopTake, Inv, ListIsFifo
  <2>2. pc[w] = "pop" /\ pc'[w] = "work" /\ \A v \in Workers : v # w => pc'[v] = pc[v]
    BY <1>1, <1>5 DEF PopTake
  <2>3. Cardinality(Awake') = Cardinality(Awake) - 1
    BY <2>2, OneLessAwake
  <2>4. Waiting # {}
    BY <2>2 DEF Waiting
  <2> QED
    BY <1>1, <2>1, <2>3, <2>4 DEF WorkConserving
<1>6. ASSUME NEW w \in Workers, SpuriousWakeup(w) \/ FinishTask(w)
      PROVE  Len(fifo') <= Cardinality(Awake')
  <2>1. /\ pc[w] # "pop" /\ pc'[w] = "pop" /\ fifo' = fifo
        /\ \A v \in Workers : v # w => pc'[v] = pc[v]
    BY <1>1, <1>6 DEF SpuriousWakeup, FinishTask, queueVars
  <2>2. Cardinality(Awake') = Cardinality(Awake) + 1 /\ Waiting # {}
    BY <2>1, OneMoreAwake DEF Waiting
  <2> QED
    BY <1>1, <2>1, <2>2 DEF WorkConserving
<1>7. ASSUME SpawnWorker PROVE Len(fifo') <= Cardinality(Awake')
  <2>1. created + 1 \in Workers /\ pc[created + 1] = "none"
    BY <1>7 DEF SpawnWorker, MoreWorkers, Inv, TypeOK, Sync
  <2>2. /\ pc'[created + 1] = "pop" /\ fifo' = fifo
        /\ \A v \in Workers : v # created + 1 => pc'[v] = pc[v]
    BY <1>1, <1>7, <2>1 DEF SpawnWorker, queueVars
  <2>3. Cardinality(Awake') = Cardinality(Awake) + 1 /\ Waiting # {}
    BY <2>1, <2>2, OneMoreAwake DEF Waiting
  <2> QED
    BY <1>1, <2>2, <2>3 DEF WorkConserving
<1>8. ASSUME StopQueue PROVE Len(fifo') <= Cardinality(Awake')
  BY <1>1, <1>8 DEF StopQueue, Broadcast, Waiting
<1>9. CASE DestroyQueue
  <2>1. fifo = <<>> /\ head = NULL
    BY <1>9, JoinedMeansEmpty DEF DestroyQueue, WorkersToJoin, Inv, TypeOK
  <2> QED
    BY <1>2, <1>9, <2>1 DEF DestroyQueue, workerVars
<1>10. CASE \/ SpawnDone \/ SpawnFails \/ Setup \/ StopRequested
            \/ LoopTest \/ EndBatch \/ JoinWorker \/ UNCHANGED vars
  BY <1>2, <1>10 DEF SpawnDone, SpawnFails, Setup, StopRequested, LoopTest,
                     EndBatch, JoinWorker, vars, queueVars, workerVars
<1> QED
  BY <1>3, <1>4, <1>5, <1>6, <1>7, <1>8, <1>9, <1>10
     DEF Next, MainStep, WorkerStep, Pop, Terminated

\* One pthread_cond_signal per push is enough: a worker sleeps only while the
\* workers that are awake can take every queued task (task_queue_push,
\* task_queue_pop).
THEOREM WorkIsConserved == SafeSpec => []WorkConserving
<1>1. Init => WorkConserving
  BY DEF Init, WorkConserving, Waiting
<1>2. Inv /\ WorkConserving /\ [Next]_vars => WorkConserving'
  BY NextWorkConserving
<1> QED
  BY <1>1, <1>2, Invariant, PTL DEF SafeSpec

-----------------------------------------------------------------------------
(* TaskQueue implements TaskPool.                                          *)

\* The safety part of the pool's specification.
PoolSafe == Pool!SafeSpec

\* An address malloc may return is in no queue and in no worker's hands.
LEMMA FreeMeansUnused ==
  ASSUME Inv, NEW t \in Tasks, t \notin live PROVE ~Pool!InUse(t)
<1>1. \A i \in DOMAIN fifo : fifo[i] # t
  BY DEF Inv, OneOwner
<1>2. \A w \in Workers : cur[w] # t
  BY NullAssumption DEF Inv, OneOwner, Held
<1> QED
  BY <1>1, <1>2 DEF Pool!InUse

\* Every step of the queue is a step of the pool or changes nothing of it.
LEMMA StepImplementsPool == Inv /\ [Next]_vars => [Pool!Next]_(Pool!vars)
<1> SUFFICES ASSUME Inv, [Next]_vars
             PROVE  Pool!Next \/ UNCHANGED <<fifo, cur, stop>>
  BY DEF Pool!vars
<1>1. ASSUME NEW t \in Tasks, Push(t) PROVE Pool!Submit(t)
  BY <1>1, FreeMeansUnused DEF Push, Pool!Submit
<1>2. ASSUME NEW w \in Workers, PopTake(w) PROVE Pool!Start(w)
  <2>1. cur[w] = NULL
    BY <1>2 DEF PopTake, Inv, OneOwner, Held
  <2>2. fifo # <<>> /\ head = Head(fifo)
    BY <1>2 DEF PopTake, Inv, ListIsFifo, TypeOK
  <2> QED
    BY <1>2, <2>1, <2>2 DEF PopTake, Pool!Start
<1>3. ASSUME NEW w \in Workers, FinishTask(w) PROVE Pool!Finish(w)
  BY <1>3 DEF FinishTask, Pool!Finish, Inv, OneOwner, Held, queueVars
<1>4. ASSUME StopQueue PROVE Pool!Close
  BY <1>4 DEF StopQueue, Pool!Close, Inv, Sync
<1>5. CASE DestroyQueue
  <2>1. fifo = <<>> /\ head = NULL
    BY <1>5, JoinedMeansEmpty DEF DestroyQueue, WorkersToJoin, Inv, TypeOK
  <2> QED
    BY <1>5, <2>1 DEF DestroyQueue, workerVars
<1>6. ASSUME NEW w \in Workers, PopWait(w) \/ PopExit(w) \/ SpuriousWakeup(w)
      PROVE  UNCHANGED <<fifo, cur, stop>>
  BY <1>6 DEF PopWait, PopExit, SpuriousWakeup, queueVars
<1>7. CASE \/ SpawnWorker \/ SpawnDone \/ SpawnFails \/ Setup \/ StopRequested
           \/ LoopTest \/ EndBatch \/ JoinWorker \/ UNCHANGED vars
  BY <1>7 DEF SpawnWorker, SpawnDone, SpawnFails, Setup, StopRequested, LoopTest,
              EndBatch, JoinWorker, vars, queueVars, workerVars
<1> QED
  BY <1>1, <1>2, <1>3, <1>4, <1>5, <1>6, <1>7
     DEF Next, MainStep, WorkerStep, Pop, Terminated, Pool!Next

\* The linked list, the mutex and the condition variable implement the pool:
\* accepted tasks are run once, in order, and closing it loses none.
THEOREM QueueImplementsPool == SafeSpec => PoolSafe
<1>1. Init => Pool!Init
  BY DEF Init, Pool!Init
<1>2. Inv /\ [Next]_vars => [Pool!Next]_(Pool!vars)
  BY StepImplementsPool
<1> QED
  BY <1>1, <1>2, Invariant, PTL DEF SafeSpec, PoolSafe, Pool!SafeSpec
=============================================================================

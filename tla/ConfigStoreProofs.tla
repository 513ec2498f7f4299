------------------------- MODULE ConfigStoreProofs -------------------------
(***************************************************************************)
(* Proofs about ConfigStore: what parse_config_file makes of a file of any *)
(* length, by induction over its lines, and what the service then uses,    *)
(* for all limits, files and workers.                                      *)
(***************************************************************************)
EXTENDS ConfigStore, BasicFacts

-----------------------------------------------------------------------------
(* The loop over the lines.                                                *)

\* What is known after line i follows from what was known before it: the
\* function After defines exists, whatever the number of lines.
LEMMA AfterFacts ==
  ASSUME NEW lines, Len(lines) \in Nat
  PROVE  /\ After(lines)[0] = Default
         /\ \A i \in 1..Len(lines) : After(lines)[i] = ParseLine(After(lines)[i - 1], lines[i])
<1> DEFINE Next1(g, i) == IF i = 0 THEN Default ELSE ParseLine(g[i - 1], lines[i])
           P == {n \in Nat : \E g : g = [i \in 0..n |-> Next1(g, i)]}
<1>1. 0 \in P
  <2> DEFINE g == [i \in 0..0 |-> Default]
  <2>1. g = [i \in 0..0 |-> Next1(g, i)]
    OBVIOUS
  <2> HIDE DEF g, Next1
  <2>2. \E f : f = [i \in 0..0 |-> Next1(f, i)]
    BY <2>1
  <2> QED
    BY <2>2
<1>2. ASSUME NEW n \in Nat, n \in P PROVE n + 1 \in P
  <2>1. PICK g : g = [i \in 0..n |-> Next1(g, i)]
    BY <1>2
  <2> DEFINE h == [i \in 0..(n + 1) |-> IF i <= n THEN g[i] ELSE ParseLine(g[n], lines[n + 1])]
  <2>2. ASSUME NEW i \in 0..(n + 1) PROVE h[i] = Next1(h, i)
    <3>1. CASE i = 0
      BY <2>1, <3>1
    <3>2. CASE i # 0 /\ i <= n
      <4>1. i \in 0..n /\ i - 1 \in 0..(n + 1) /\ i - 1 <= n
        BY <3>2
      <4>2. g[i] = ParseLine(g[i - 1], lines[i])
        BY <2>1, <3>2, <4>1
      <4>3. h[i] = g[i] /\ h[i - 1] = g[i - 1]
        BY <3>2, <4>1
      <4> QED
        BY <3>2, <4>2, <4>3
    <3>3. CASE i = n + 1
      <4>1. n \in 0..(n + 1) /\ i - 1 = n /\ i # 0 /\ ~(i <= n)
        BY <3>3
      <4>2. h[i] = ParseLine(g[n], lines[n + 1]) /\ h[i - 1] = g[n]
        BY <4>1
      <4> QED
        BY <3>3, <4>1, <4>2
    <3> QED
      BY <3>1, <3>2, <3>3
  <2>3. h = [i \in 0..(n + 1) |-> h[i]]
    OBVIOUS
  <2> HIDE DEF h, Next1
  <2>4. h = [i \in 0..(n + 1) |-> Next1(h, i)]
    BY <2>2, <2>3
  <2>5. \E f : f = [i \in 0..(n + 1) |-> Next1(f, i)]
    BY <2>4
  <2> QED
    BY <2>5
<1> HIDE DEF P
<1>3. Len(lines) \in P
  BY <1>1, <1>2, SetInduction
<1> DEFINE IsAfter(g) == g = [i \in 0..Len(lines) |-> Next1(g, i)]
<1>4. After(lines) = CHOOSE g : IsAfter(g)
  BY DEF After
<1>5. \E g : IsAfter(g)
  BY <1>3 DEF P
<1>6. IsAfter(After(lines))
  <2> HIDE DEF IsAfter
  <2> QED
    BY <1>4, <1>5
<1> QED
  <2>1. \A i \in 1..Len(lines) : i \in 0..Len(lines) /\ i # 0
    OBVIOUS
  <2> QED
    BY <1>6, <2>1

-----------------------------------------------------------------------------
(* What the first n lines say.                                             *)

At(lines, n, key) == {i \in 1..n : lines[i].key = key}

LastIn(lines, n, key, default) ==
  IF At(lines, n, key) = {} THEN default ELSE lines[Max(At(lines, n, key))].value[1]

\* Before the first line nothing is known but the defaults.
LEMMA NoLines ==
  ASSUME NEW lines
  PROVE  /\ \A key : At(lines, 0, key) = {} /\ Cardinality(At(lines, 0, key)) = 0
         /\ \A key, default : LastIn(lines, 0, key, default) = default
<1>1. \A key : At(lines, 0, key) = {}
  BY DEF At
<1> QED
  BY <1>1, FS_EmptySet DEF LastIn

\* The last line with the key counts.
LEMMA LastInFacts ==
  ASSUME NEW lines, NEW n \in Nat, NEW key, NEW default
  PROVE  LastIn(lines, n + 1, key, default) =
              IF lines[n + 1].key = key THEN lines[n + 1].value[1] ELSE LastIn(lines, n, key, default)
<1>2. ASSUME lines[n + 1].key = key
      PROVE  LastIn(lines, n + 1, key, default) = lines[n + 1].value[1]
  <2> DEFINE S == At(lines, n + 1, key)
  <2>1. n + 1 \in S /\ \A j \in S : j \in Nat /\ j <= n + 1
    BY <1>2 DEF At
  <2> HIDE DEF S
  <2>2. Max(S) \in S /\ \A j \in S : Max(S) >= j
    BY <2>1 DEF Max
  <2>3. Max(S) = n + 1
    BY <2>1, <2>2
  <2>4. LastIn(lines, n + 1, key, default) = lines[Max(S)].value[1]
    BY <2>1 DEF LastIn, S
  <2> QED
    BY <2>3, <2>4
<1>3. ASSUME lines[n + 1].key # key
      PROVE  LastIn(lines, n + 1, key, default) = LastIn(lines, n, key, default)
  <2>1. At(lines, n + 1, key) = At(lines, n, key)
    BY <1>3 DEF At
  <2> QED
    BY <2>1 DEF LastIn
<1> QED
  BY <1>2, <1>3

\* How many of the first n lines have the key, and which of them each is.
LEMMA AtFacts ==
  ASSUME NEW lines, NEW n \in Nat, NEW key
  PROVE  /\ Cardinality(At(lines, n, key)) \in Nat
         /\ lines[n + 1].key # key => At(lines, n + 1, key) = At(lines, n, key)
         /\ lines[n + 1].key = key =>
              /\ At(lines, n + 1, key) = At(lines, n, key) \cup {n + 1}
              /\ Cardinality(At(lines, n + 1, key)) = Cardinality(At(lines, n, key)) + 1
              /\ Place(At(lines, n + 1, key), n + 1) = Cardinality(At(lines, n + 1, key))
         /\ \A i \in At(lines, n, key) :
              /\ Place(At(lines, n + 1, key), i) = Place(At(lines, n, key), i)
              /\ Place(At(lines, n, key), i) \in 1..Cardinality(At(lines, n, key))
<1> DEFINE S == At(lines, n, key)
<1>1. IsFiniteSet(S) /\ S \subseteq 1..n /\ Cardinality(S) \in Nat
  <2> DEFINE I == 1..n
  <2>1. S \in SUBSET I
    BY DEF At
  <2>2. IsFiniteSet(I)
    BY FS_Interval
  <2> HIDE DEF S, I
  <2>3. IsFiniteSet(S)
    BY <2>1, <2>2, FS_Subset
  <2> QED
    BY <2>1, <2>3, FS_CardinalityType DEF I
<1>3. lines[n + 1].key # key => At(lines, n + 1, key) = S
  BY DEF At
<1>4. ASSUME lines[n + 1].key = key
      PROVE  /\ At(lines, n + 1, key) = S \cup {n + 1}
             /\ Cardinality(At(lines, n + 1, key)) = Cardinality(S) + 1
             /\ Place(At(lines, n + 1, key), n + 1) = Cardinality(At(lines, n + 1, key))
  <2>1. At(lines, n + 1, key) = S \cup {n + 1}
    BY <1>4 DEF At
  <2>2. n + 1 \notin S
    BY <1>1
  <2>3. {j \in S \cup {n + 1} : j <= n + 1} = S \cup {n + 1}
    BY <1>1
  <2> HIDE DEF S
  <2>4. Cardinality(S \cup {n + 1}) = Cardinality(S) + 1
    <3> HIDE DEF At
    <3>1. IsFiniteSet(S)
      BY <1>1
    <3> QED
      BY <2>2, <3>1, FS_AddElement
  <2> QED
    BY <2>1, <2>3, <2>4 DEF Place
<1>5. ASSUME NEW i \in S
      PROVE  /\ Place(At(lines, n + 1, key), i) = Place(S, i)
             /\ Place(S, i) \in 1..Cardinality(S)
  <2> DEFINE T == {j \in S : j <= i}
  <2>1. \A j \in At(lines, n + 1, key) : j <= i => j \in S
    BY <1>1 DEF At
  <2>2. S \subseteq At(lines, n + 1, key)
    BY DEF At
  <2>3. T \in SUBSET S /\ i \in T
    BY <1>1
  <2> HIDE DEF S
  <2>4. {j \in At(lines, n + 1, key) : j <= i} = T
    BY <2>1, <2>2
  <2> HIDE DEF T
  <2>9. IsFiniteSet(S)
    BY <1>1
  <2>5. IsFiniteSet(T) /\ Cardinality(T) <= Cardinality(S)
    BY <2>9, <2>3, FS_Subset
  <2>6. Cardinality(T) \in Nat /\ Cardinality(T) # 0
    BY <2>3, <2>5, FS_CardinalityType, FS_EmptySet
  <2>7. Cardinality(T) \in 1..Cardinality(S)
    BY <1>1, <2>5, <2>6
  <2> QED
    BY <2>4, <2>7 DEF T, Place
<1> QED
  BY <1>1, <1>3, <1>4, <1>5

-----------------------------------------------------------------------------
(* parse_config_file.                                                      *)

\* A parser state, by its parts.
State(ok, listeners, workers, level, log, ip, port) ==
  [ok |-> ok, listeners |-> listeners, workers |-> workers, level |-> level, log |-> log,
   ip |-> ip, port |-> port]

IsState(c) ==
  c.ok \in BOOLEAN /\ c = State(c.ok, c.listeners, c.workers, c.level, c.log, c.ip, c.port)

\* Changing one part of a state.
LEMMA OkFacts ==
  ASSUME NEW c, IsState(c), NEW x
  PROVE  [c EXCEPT !.ok = x] = State(x, c.listeners, c.workers, c.level, c.log, c.ip, c.port)
<1> DEFINE ok == c.ok  ls == c.listeners  ws == c.workers  lv == c.level
           lg == c.log  ip == c.ip  pt == c.port
<1>1. c = State(ok, ls, ws, lv, lg, ip, pt)
  BY DEF IsState
<1> HIDE DEF ok, ls, ws, lv, lg, ip, pt
<1>2. [c EXCEPT !.ok = x] = State(x, ls, ws, lv, lg, ip, pt)
  BY <1>1 DEF State
<1> QED
  BY <1>2 DEF ls, ws, lv, lg, ip, pt

\* What an accepted line makes of a state, part by part.
LEMMA AcceptedFacts ==
  ASSUME NEW c, NEW line, IsState(c)
  PROVE  LET value == line.value[1]
         IN  Accepted(c, line) =
               State(c.ok,
                     IF line.key = "listener" THEN Append(c.listeners, ListenerOf(line.value))
                                              ELSE c.listeners,
                     IF line.key = "worker_num" THEN atoi(value) ELSE c.workers,
                     IF line.key = "log_level" THEN LevelOf(value) ELSE c.level,
                     IF line.key = "log_file" THEN value ELSE c.log,
                     IF line.key = "listen_ip" THEN value ELSE c.ip,
                     IF line.key = "listen_port" THEN atoi(value) ELSE c.port)
<1> DEFINE ok == c.ok  ls == c.listeners  ws == c.workers  lv == c.level
           lg == c.log  ip == c.ip  pt == c.port
<1>1. c = State(ok, ls, ws, lv, lg, ip, pt)
  BY DEF IsState
<1> HIDE DEF ok, ls, ws, lv, lg, ip, pt
<1>2. /\ c.ok = ok /\ c.listeners = ls /\ c.workers = ws /\ c.level = lv
      /\ c.log = lg /\ c.ip = ip /\ c.port = pt
  BY DEF ok, ls, ws, lv, lg, ip, pt
<1>3. \A x : /\ [c EXCEPT !.listeners = x] = State(ok, x, ws, lv, lg, ip, pt)
             /\ [c EXCEPT !.workers = x] = State(ok, ls, x, lv, lg, ip, pt)
             /\ [c EXCEPT !.level = x] = State(ok, ls, ws, x, lg, ip, pt)
             /\ [c EXCEPT !.log = x] = State(ok, ls, ws, lv, x, ip, pt)
             /\ [c EXCEPT !.ip = x] = State(ok, ls, ws, lv, lg, x, pt)
             /\ [c EXCEPT !.port = x] = State(ok, ls, ws, lv, lg, ip, x)
  BY <1>1 DEF State
<1>4. CASE line.key \notin {"listener", "listen_ip", "listen_port", "worker_num", "log_level", "log_file"}
  <2>1. Accepted(c, line) = c
    BY <1>4 DEF Accepted
  <2> QED
    BY <1>1, <1>2, <1>4, <2>1
<1>5. CASE line.key = "listener"
  <2> DEFINE longer == Append(c.listeners, ListenerOf(line.value))
  <2>1. Accepted(c, line) = [c EXCEPT !.listeners = longer]
    BY <1>5 DEF Accepted
  <2> HIDE DEF longer
  <2>2. Accepted(c, line) = State(ok, longer, ws, lv, lg, ip, pt)
    BY <1>3, <2>1
  <2> QED
    BY <1>2, <1>5, <2>2 DEF longer
<1>6. CASE line.key = "listen_ip"
  <2>1. Accepted(c, line) = [c EXCEPT !.ip = line.value[1]]
    BY <1>6 DEF Accepted
  <2> QED
    BY <1>2, <1>3, <1>6, <2>1
<1>7. CASE line.key = "listen_port"
  <2>1. Accepted(c, line) = [c EXCEPT !.port = atoi(line.value[1])]
    BY <1>7 DEF Accepted
  <2> QED
    BY <1>2, <1>3, <1>7, <2>1
<1>8. CASE line.key = "worker_num"
  <2>1. Accepted(c, line) = [c EXCEPT !.workers = atoi(line.value[1])]
    BY <1>8 DEF Accepted
  <2> QED
    BY <1>2, <1>3, <1>8, <2>1
<1>9. CASE line.key = "log_level"
  <2>1. Accepted(c, line) = [c EXCEPT !.level = LevelOf(line.value[1])]
    BY <1>9 DEF Accepted
  <2> QED
    BY <1>2, <1>3, <1>9, <2>1
<1>10. CASE line.key = "log_file"
  <2>1. Accepted(c, line) = [c EXCEPT !.log = line.value[1]]
    BY <1>10 DEF Accepted
  <2> QED
    BY <1>2, <1>3, <1>10, <2>1
<1> QED
  BY <1>4, <1>5, <1>6, <1>7, <1>8, <1>9, <1>10

\* An accepted line leaves a state, with its flag as it was.
LEMMA AcceptedIsState ==
  ASSUME NEW c, NEW line, IsState(c)
  PROVE  /\ IsState(Accepted(c, line)) /\ Accepted(c, line).ok = c.ok
         /\ Accepted(c, line).listeners =
              IF line.key = "listener" THEN Append(c.listeners, ListenerOf(line.value))
                                       ELSE c.listeners
<1> DEFINE value == line.value[1]
           ls == IF line.key = "listener" THEN Append(c.listeners, ListenerOf(line.value))
                                          ELSE c.listeners
           ws == IF line.key = "worker_num" THEN atoi(value) ELSE c.workers
           lv == IF line.key = "log_level" THEN LevelOf(value) ELSE c.level
           lg == IF line.key = "log_file" THEN value ELSE c.log
           ip == IF line.key = "listen_ip" THEN value ELSE c.ip
           pt == IF line.key = "listen_port" THEN atoi(value) ELSE c.port
           d == Accepted(c, line)
<1>1. d = State(c.ok, ls, ws, lv, lg, ip, pt) /\ c.ok \in BOOLEAN
  BY AcceptedFacts DEF IsState
<1> HIDE DEF d, ls, ws, lv, lg, ip, pt
<1>2. IsState(d) /\ d.ok = c.ok /\ d.listeners = ls
  BY <1>1 DEF IsState, State
<1> QED
  BY <1>2 DEF d, ls

\* The valid listeners that the lines describe.
Described(lines) ==
  {l \in {ListenerOf(lines[i].value) : i \in 1..Len(lines)} : ValidListener(l)}

\* The listeners are those of the first n lines, in their order.
ListenersSoFar(listeners, lines, n) ==
  LET at == At(lines, n, "listener")
  IN  /\ listeners \in Seq(Described(lines)) /\ Len(listeners) <= MaxListeners
      /\ Len(listeners) = Cardinality(at)
      /\ \A i \in at : listeners[Place(at, i)] = ListenerOf(lines[i].value)

\* The other parts are what the last of the first n lines with their key says.
ValuesSoFar(c, lines, n) ==
  /\ c.workers = atoi(LastIn(lines, n, "worker_num", "4")) /\ c.workers \in 1..MaxWorkers
  /\ c.level = LevelOf(LastIn(lines, n, "log_level", "info")) /\ c.level \in Levels
  /\ c.log = LastIn(lines, n, "log_file", DefaultLog)
  /\ c.ip = LastIn(lines, n, "listen_ip", "0.0.0.0")
  /\ c.port = atoi(LastIn(lines, n, "listen_port", "8080"))

\* A parser that has not refused a line knows what the first n lines say.
SoFar(c, lines, n) ==
  IsState(c) /\ (c.ok => ListenersSoFar(c.listeners, lines, n) /\ ValuesSoFar(c, lines, n))

\* A listener line that is not refused appends its listener.
LEMMA ListenersStep ==
  ASSUME NEW lines, Len(lines) \in Nat, NEW n \in 0..(Len(lines) - 1),
         NEW c, ListenersSoFar(c.listeners, lines, n), ~Refused(c, lines[n + 1])
  PROVE  ListenersSoFar(IF lines[n + 1].key = "listener"
                        THEN Append(c.listeners, ListenerOf(lines[n + 1].value))
                        ELSE c.listeners, lines, n + 1)
<1> DEFINE at == At(lines, n, "listener")
           next == At(lines, n + 1, "listener")
           ls == c.listeners
<1>1. n \in Nat /\ n + 1 \in 1..Len(lines)
  OBVIOUS
<1>2. /\ ls \in Seq(Described(lines)) /\ Len(ls) <= MaxListeners /\ Len(ls) = Cardinality(at)
      /\ \A i \in at : ls[Place(at, i)] = ListenerOf(lines[i].value)
  BY DEF ListenersSoFar
<1> DEFINE key == "listener"
<1> HIDE DEF key
<1>3. /\ lines[n + 1].key # key => At(lines, n + 1, key) = At(lines, n, key)
      /\ lines[n + 1].key = key =>
           /\ At(lines, n + 1, key) = At(lines, n, key) \cup {n + 1}
           /\ Cardinality(At(lines, n + 1, key)) = Cardinality(At(lines, n, key)) + 1
           /\ Place(At(lines, n + 1, key), n + 1) = Cardinality(At(lines, n + 1, key))
      /\ \A i \in At(lines, n, key) :
           /\ Place(At(lines, n + 1, key), i) = Place(At(lines, n, key), i)
           /\ Place(At(lines, n, key), i) \in 1..Cardinality(At(lines, n, key))
  BY <1>1, AtFacts
<1>9. /\ lines[n + 1].key # "listener" => next = at
      /\ lines[n + 1].key = "listener" =>
           /\ next = at \cup {n + 1} /\ Cardinality(next) = Cardinality(at) + 1
           /\ Place(next, n + 1) = Cardinality(next)
      /\ \A i \in at : Place(next, i) = Place(at, i) /\ Place(at, i) \in 1..Cardinality(at)
  BY <1>3 DEF key
<1>4. CASE lines[n + 1].key # "listener"
  <2>1. next = at
    BY <1>9, <1>4
  <2> HIDE DEF at, next
  <2>2. ListenersSoFar(ls, lines, n + 1)
    <3>1. At(lines, n + 1, "listener") = At(lines, n, "listener")
      BY <2>1 DEF at, next
    <3> QED
      BY <3>1 DEF ListenersSoFar
  <2> QED
    BY <1>4, <2>2
<1>5. CASE lines[n + 1].key = "listener"
  <2> DEFINE l == ListenerOf(lines[n + 1].value)
             longer == Append(ls, l)
  <2>1. ~(Len(ls) >= MaxListeners) /\ ValidListener(l)
    BY <1>5 DEF Refused
  <2>2. l \in Described(lines)
    BY <1>1, <2>1 DEF Described
  <2> HIDE DEF l, ls, at, next
  <2>3. /\ longer \in Seq(Described(lines)) /\ Len(longer) = Len(ls) + 1 /\ Len(ls) \in Nat
        /\ \A i \in 1..Len(ls) : longer[i] = ls[i]
        /\ longer[Len(ls) + 1] = l
    BY <1>2, <2>2, AppendProperties, LenProperties
  <2> HIDE DEF longer
  <2>4. Len(longer) <= MaxListeners /\ Len(longer) = Cardinality(next)
    BY <1>2, <1>9, <1>5, <2>1, <2>3, LimitAssumption
  <2>5. ASSUME NEW i \in next
        PROVE  longer[Place(next, i)] = ListenerOf(lines[i].value)
    <3>1. CASE i \in at
      BY <1>2, <1>9, <2>3, <3>1
    <3>2. CASE i = n + 1
      BY <1>2, <1>9, <1>5, <2>3, <3>2 DEF l
    <3> QED
      BY <1>9, <1>5, <3>1, <3>2
  <2>6. ListenersSoFar(longer, lines, n + 1)
    BY <2>3, <2>4, <2>5 DEF ListenersSoFar, next
  <2> QED
    BY <1>5, <2>6 DEF longer, l, ls
<1> QED
  BY <1>4, <1>5

\* Of the other keys the last line counts, and what is not refused is in range.
LEMMA ValuesStep ==
  ASSUME NEW lines, NEW n \in Nat, NEW c, IsState(c), ValuesSoFar(c, lines, n),
         ~Refused(c, lines[n + 1])
  PROVE  ValuesSoFar(Accepted(c, lines[n + 1]), lines, n + 1)
<1> DEFINE line == lines[n + 1]
           value == line.value[1]
           d == Accepted(c, line)
<1>1. /\ d.workers = IF line.key = "worker_num" THEN atoi(value) ELSE c.workers
      /\ d.level = IF line.key = "log_level" THEN LevelOf(value) ELSE c.level
      /\ d.log = IF line.key = "log_file" THEN value ELSE c.log
      /\ d.ip = IF line.key = "listen_ip" THEN value ELSE c.ip
      /\ d.port = IF line.key = "listen_port" THEN atoi(value) ELSE c.port
  BY AcceptedFacts DEF State
<1>2. /\ line.key = "worker_num" => atoi(value) \in 1..MaxWorkers
      /\ line.key = "log_level" => LevelOf(value) \in Levels
  <2>1. ~Refused(c, line)
    OBVIOUS
  <2> HIDE DEF line
  <2>2. line.key = "worker_num" => atoi(value) \in 1..MaxWorkers
    BY <2>1 DEF Refused
  <2>3. line.key = "log_level" => LevelOf(value) \in Levels
    BY <2>1 DEF Refused
  <2> QED
    BY <2>2, <2>3
<1>3. \A key, default : LastIn(lines, n + 1, key, default) =
        IF line.key = key THEN value ELSE LastIn(lines, n, key, default)
  BY LastInFacts
<1> HIDE DEF line, value, d
<1>4. d.workers = atoi(LastIn(lines, n + 1, "worker_num", "4")) /\ d.workers \in 1..MaxWorkers
  BY <1>1, <1>2, <1>3 DEF ValuesSoFar
<1>5. d.level = LevelOf(LastIn(lines, n + 1, "log_level", "info")) /\ d.level \in Levels
  BY <1>1, <1>2, <1>3 DEF ValuesSoFar
<1>6. /\ d.log = LastIn(lines, n + 1, "log_file", DefaultLog)
      /\ d.ip = LastIn(lines, n + 1, "listen_ip", "0.0.0.0")
      /\ d.port = atoi(LastIn(lines, n + 1, "listen_port", "8080"))
  BY <1>1, <1>3 DEF ValuesSoFar
<1> QED
  BY <1>4, <1>5, <1>6 DEF ValuesSoFar, d, line

\* After every line of a file of any length, by induction over its lines.
LEMMA ReadFacts ==
  ASSUME NEW lines, Len(lines) \in Nat
  PROVE  \A n \in 0..Len(lines) : SoFar(After(lines)[n], lines, n)
<1> DEFINE P == {n \in Nat : n <= Len(lines) => SoFar(After(lines)[n], lines, n)}
<1>1. 0 \in P
  <2>1. IsState(Default)
    BY DEF IsState, State, Default
  <2>2. ListenersSoFar(<<>>, lines, 0)
    <3>1. At(lines, 0, "listener") = {} /\ Cardinality(At(lines, 0, "listener")) = 0
      BY NoLines
    <3> QED
      BY <3>1, LimitAssumption DEF ListenersSoFar
  <2>3. ValuesSoFar(Default, lines, 0)
    <3>1. /\ LastIn(lines, 0, "worker_num", "4") = "4"
          /\ LastIn(lines, 0, "log_level", "info") = "info"
          /\ LastIn(lines, 0, "log_file", DefaultLog) = DefaultLog
          /\ LastIn(lines, 0, "listen_ip", "0.0.0.0") = "0.0.0.0"
          /\ LastIn(lines, 0, "listen_port", "8080") = "8080"
      BY NoLines
    <3>2. atoi("4") = 4 /\ atoi("8080") = 8080 /\ LevelOf("info") = "info"
      BY NumberAssumption DEF atoi, LevelOf
    <3> QED
      BY <3>1, <3>2, LimitAssumption DEF ValuesSoFar, Default, Levels
  <2>4. SoFar(Default, lines, 0)
    BY <2>1, <2>2, <2>3 DEF SoFar, Default
  <2> QED
    BY <2>4, AfterFacts
<1>2. ASSUME NEW n \in Nat, n \in P PROVE n + 1 \in P
  <2> SUFFICES ASSUME n + 1 <= Len(lines)
               PROVE  SoFar(After(lines)[n + 1], lines, n + 1)
    OBVIOUS
  <2> DEFINE c == After(lines)[n]
             line == lines[n + 1]
  <2>1. After(lines)[n + 1] = ParseLine(c, line)
    <3>1. n + 1 \in 1..Len(lines) /\ (n + 1) - 1 = n
      OBVIOUS
    <3> QED
      BY <3>1, AfterFacts
  <2>2. SoFar(c, lines, n)
    BY <1>2
  <2> HIDE DEF c
  <2>3. CASE ~c.ok
    BY <2>1, <2>2, <2>3 DEF ParseLine, SoFar
  <2>4. CASE c.ok /\ Refused(c, line)
    <3>1. After(lines)[n + 1] = [c EXCEPT !.ok = FALSE]
      BY <2>1, <2>4 DEF ParseLine
    <3>3. [c EXCEPT !.ok = FALSE]
            = State(FALSE, c.listeners, c.workers, c.level, c.log, c.ip, c.port)
      BY <2>2, OkFacts DEF SoFar
    <3> QED
      BY <3>1, <3>3 DEF SoFar, IsState, State
  <2>5. CASE c.ok /\ ~Refused(c, line)
    <3> DEFINE d == Accepted(c, line)
    <3>1. After(lines)[n + 1] = d
      BY <2>1, <2>5 DEF ParseLine
    <3>2. IsState(c)
      BY <2>2 DEF SoFar
    <3>6. /\ IsState(d) /\ d.ok
          /\ d.listeners = IF line.key = "listener" THEN Append(c.listeners, ListenerOf(line.value))
                                                    ELSE c.listeners
      BY <2>5, <3>2, AcceptedIsState
    <3>3. n \in 0..(Len(lines) - 1)
      OBVIOUS
    <3>4. ListenersSoFar(d.listeners, lines, n + 1)
      BY <2>2, <2>5, <3>3, <3>6, ListenersStep DEF SoFar
    <3>5. ValuesSoFar(d, lines, n + 1)
      BY <2>2, <2>5, ValuesStep DEF SoFar
    <3> QED
      BY <3>1, <3>4, <3>5, <3>6 DEF SoFar
  <2> QED
    BY <2>3, <2>4, <2>5
<1>3. Nat \subseteq P
  <2> HIDE DEF P
  <2> QED
    BY <1>1, <1>2, SetInduction
<1> QED
  BY <1>3

\* A file that is accepted gives a usable configuration that is what the file means.
LEMMA ParseFacts ==
  ASSUME NEW lines, Len(lines) \in Nat, DOMAIN lines = 1..Len(lines), Parse(lines).ok
  PROVE  Usable(ConfigOf(Parse(lines))) /\ Means(ConfigOf(Parse(lines)), lines)
<1> DEFINE n == Len(lines)
           c == After(lines)[n]
           at == At(lines, n, "listener")
           legacy == LegacyListener(c)
           parsed == Parse(lines)
<1>1. SoFar(c, lines, n) /\ parsed = Fallback(c)
  BY ReadFacts DEF Parse
<1>2. c = State(c.ok, c.listeners, c.workers, c.level, c.log, c.ip, c.port) /\ c.ok \in BOOLEAN
  BY <1>1 DEF SoFar, IsState
<1>3. \A key : LinesWith(lines, key) = At(lines, n, key)
  BY DEF LinesWith, At
<1>4. \A key, default : LastValue(lines, key, default) = LastIn(lines, n, key, default)
  BY <1>3 DEF LastValue, LastIn
<1> DEFINE ls == IF c.listeners # <<>> THEN c.listeners ELSE <<legacy>>
<1>5. /\ c.ok /\ (c.listeners = <<>> => ValidListener(legacy))
      /\ parsed.listeners = ls /\ parsed.workers = c.workers
      /\ parsed.level = c.level /\ parsed.log = c.log
  <2>1. CASE c.listeners # <<>>
    BY <1>1, <2>1 DEF Fallback
  <2>2. CASE c.listeners = <<>>
    <3> DEFINE one == <<legacy>>
               ok == c.ok /\ ValidListener(legacy)
               was == c.ok
               ws == c.workers
               lv == c.level
               lg == c.log
               ip == c.ip
               pt == c.port
    <3>1. parsed = [c EXCEPT !.listeners = one, !.ok = ok]
      BY <1>1, <2>2 DEF Fallback
    <3>2. c = State(was, <<>>, ws, lv, lg, ip, pt)
      BY <1>2, <2>2
    <3>8. parsed.ok
      OBVIOUS
    <3> HIDE DEF c, parsed, one, ok, was, ws, lv, lg, ip, pt
    <3>3. parsed = State(ok, one, ws, lv, lg, ip, pt)
      BY <3>1, <3>2 DEF State
    <3>4. /\ parsed.ok = ok /\ parsed.listeners = one /\ parsed.workers = ws
          /\ parsed.level = lv /\ parsed.log = lg
      BY <3>3 DEF State
    <3>5. c.ok /\ ValidListener(legacy)
      <4> DEFINE valid == ValidListener(legacy)
      <4> HIDE DEF valid
      <4>1. c.ok /\ valid
        BY <3>4, <3>8 DEF ok, valid
      <4> QED
        BY <4>1 DEF valid
    <3>6. ls = one
      BY <2>2 DEF one
    <3>7. parsed.workers = c.workers /\ parsed.level = c.level /\ parsed.log = c.log
      BY <3>4 DEF ws, lv, lg
    <3> QED
      BY <3>4, <3>5, <3>6, <3>7
  <2> QED
    BY <2>1, <2>2
<1>6. ListenersSoFar(c.listeners, lines, n) /\ ValuesSoFar(c, lines, n)
  BY <1>1, <1>5 DEF SoFar
<1>7. Usable(ConfigOf(parsed))
  <2>1. Len(ls) \in 1..MaxListeners /\ \A i \in DOMAIN ls : ValidListener(ls[i])
    <3>1. CASE c.listeners = <<>>
      BY <1>5, <3>1, LimitAssumption
    <3>2. CASE c.listeners # <<>>
      <4> DEFINE got == c.listeners
      <4>1. got \in Seq(Described(lines)) /\ Len(got) <= MaxListeners /\ got # <<>>
        BY <1>6, <3>2 DEF ListenersSoFar
      <4> HIDE DEF got, c
      <4>2. Len(got) \in Nat /\ Len(got) # 0 /\ \A i \in DOMAIN got : got[i] \in Described(lines)
        BY <4>1, LenProperties, EmptySeq, ElementOfSeq
      <4>3. Len(got) \in 1..MaxListeners /\ \A i \in DOMAIN got : ValidListener(got[i])
        BY <4>1, <4>2, LimitAssumption DEF Described
      <4> QED
        BY <3>2, <4>3 DEF got
    <3> QED
      BY <3>1, <3>2
  <2>2. c.workers \in 1..MaxWorkers /\ c.level \in Levels
    BY <1>6 DEF ValuesSoFar
  <2> HIDE DEF ls, c, parsed
  <2> QED
    BY <1>5, <2>1, <2>2 DEF Usable, ConfigOf
<1>8. Means(ConfigOf(parsed), lines)
  <2>1. Cardinality(at) \in Nat /\ (Cardinality(at) = 0 <=> at = {})
    <3> DEFINE I == 1..n
    <3>1. IsFiniteSet(I)
      BY FS_Interval
    <3>3. at \in SUBSET I
      BY DEF At
    <3> HIDE DEF at, I
    <3>2. IsFiniteSet(at)
      BY <3>1, <3>3, FS_Subset
    <3> QED
      BY <3>2, FS_CardinalityType, FS_EmptySet
  <2>2. Len(c.listeners) = Cardinality(at) /\ (c.listeners = <<>> <=> Len(c.listeners) = 0)
    <3> DEFINE got == c.listeners
    <3>1. got \in Seq(Described(lines)) /\ Len(got) = Cardinality(at)
      BY <1>6 DEF ListenersSoFar
    <3> HIDE DEF got, c, at
    <3>2. got = <<>> <=> Len(got) = 0
      BY <3>1, EmptySeq
    <3> QED
      BY <3>1, <3>2 DEF got
  <2>3. ASSUME at = {}
        PROVE  ls = <<[proto |-> "tcp", ip |-> LastValue(lines, "listen_ip", "0.0.0.0"),
                       port |-> atoi(LastValue(lines, "listen_port", "8080")),
                       type |-> "echo", target |-> "", targetPort |-> 0]>>
    <3>1. c.listeners = <<>>
      BY <2>1, <2>2, <2>3
    <3>2. /\ c.ip = LastValue(lines, "listen_ip", "0.0.0.0")
          /\ c.port = atoi(LastValue(lines, "listen_port", "8080"))
      BY <1>4, <1>6 DEF ValuesSoFar
    <3> QED
      BY <3>1, <3>2 DEF LegacyListener
  <2>4. ASSUME at # {}
        PROVE  Len(ls) = Cardinality(at)
               /\ \A i \in at : ls[Place(at, i)] = ListenerOf(lines[i].value)
    <3>1. ls = c.listeners
      BY <2>1, <2>2, <2>4
    <3>2. \A i \in at : c.listeners[Place(at, i)] = ListenerOf(lines[i].value)
      BY <1>6 DEF ListenersSoFar
    <3> QED
      BY <2>2, <3>1, <3>2
  <2>5. IF at = {}
        THEN ls = <<[proto |-> "tcp", ip |-> LastValue(lines, "listen_ip", "0.0.0.0"),
                     port |-> atoi(LastValue(lines, "listen_port", "8080")),
                     type |-> "echo", target |-> "", targetPort |-> 0]>>
        ELSE Len(ls) = Cardinality(at)
             /\ \A i \in at : ls[Place(at, i)] = ListenerOf(lines[i].value)
    <3> HIDE DEF at, ls
    <3> QED
      BY <2>3, <2>4
  <2>6. /\ c.workers = atoi(LastValue(lines, "worker_num", "4"))
        /\ c.level = LevelOf(LastValue(lines, "log_level", "info"))
        /\ c.log = LastValue(lines, "log_file", DefaultLog)
    BY <1>4, <1>6 DEF ValuesSoFar
  <2>7. LinesWith(lines, "listener") = at
    BY <1>3
  <2> HIDE DEF at, ls, c, parsed
  <2> QED
    BY <1>5, <2>5, <2>6, <2>7 DEF Means, ConfigOf
<1> QED
  BY <1>7, <1>8

-----------------------------------------------------------------------------
(* What the service then uses.                                             *)

\* The parser can be run on every content the file can have.
LEMMA FileFacts ==
  ASSUME NEW file \in Files, Parse(file).ok
  PROVE  Usable(ConfigOf(Parse(file))) /\ Means(ConfigOf(Parse(file)), file)
<1>1. file \in Seq([key : STRING, value : Seq(STRING)])
  BY FileAssumption
<1>2. Len(file) \in Nat /\ DOMAIN file = 1..Len(file)
  BY <1>1, LenProperties
<1> QED
  BY <1>2, ParseFacts

\* cfg is a copy of the configuration from the snapshot until the next reload,
\* also while the log is being opened.
CopyCurrent == phase \in {"serve", "open log", "reopen log"} => cfg = config

\* What is read into *g_config is what one file says.
OneFile == config # NULL => Usable(config) /\ Means(config, source)

\* The configuration in use, its copy and the log: each holds after every step.
ConfigInv == OneFile /\ CopyCurrent /\ LogMatchesConfig

\* A worker that has written one line below the level is not writing another one.
LateInv ==
  /\ late \in [Workers -> 0..1] /\ DOMAIN logging = Workers
  /\ \A w \in Workers : late[w] = 1 => logging[w] = NULL \/ Rank[logging[w]] >= Rank[logLevel]

LEMMA ConfigInvariant == Spec => []ConfigInv
<1>1. Init => ConfigInv
  BY DEF Init, ConfigInv, OneFile, CopyCurrent, LogMatchesConfig
<1>2. ConfigInv /\ [Next]_vars => ConfigInv'
  <2> SUFFICES ASSUME ConfigInv, [Next]_vars
               PROVE  ConfigInv'
    OBVIOUS
  <2> USE DEF ConfigInv
  <2>1. ASSUME NEW file \in Files, Load(file)
        PROVE  ConfigInv'
    <3> DEFINE parsed == Parse(file)
    <3>1. CASE parsed.ok
      <4>1. config' = ConfigOf(parsed) /\ cfg' = config' /\ source' = file /\ phase' = "open log"
        BY <2>1, <3>1 DEF Load
      <4>2. OneFile'
        BY <3>1, <4>1, FileFacts DEF OneFile
      <4> QED
        BY <4>1, <4>2 DEF CopyCurrent, LogMatchesConfig
    <3>2. CASE ~parsed.ok
      <4>1. phase' = "failed" /\ UNCHANGED <<config, cfg, source>>
        BY <2>1, <3>2 DEF Load
      <4> QED
        BY <4>1 DEF OneFile, CopyCurrent, LogMatchesConfig
    <3> QED
      BY <3>1, <3>2
  <2>2. ASSUME NEW file \in Files, Reload(file)
        PROVE  ConfigInv'
    <3> DEFINE parsed == Parse(file)
    <3>1. CASE parsed.ok
      <4>1. config' = ConfigOf(parsed) /\ source' = file /\ phase' = "snapshot"
        BY <2>2, <3>1 DEF Reload, AfterReload
      <4>2. OneFile'
        BY <3>1, <4>1, FileFacts DEF OneFile
      <4> QED
        BY <4>1, <4>2 DEF CopyCurrent, LogMatchesConfig
    <3>2. CASE ~parsed.ok
      <4>1. phase' = "serve" /\ phase = "serve" /\ UNCHANGED <<config, cfg, source, logFile, logLevel>>
        BY <2>2, <3>2 DEF Reload, AfterReload, logVars
      <4> QED
        BY <4>1 DEF OneFile, CopyCurrent, LogMatchesConfig
    <3> QED
      BY <3>1, <3>2
  <2>3. CASE Snapshot
    BY <2>3 DEF Snapshot, OneFile, CopyCurrent, LogMatchesConfig
  <2>4. CASE OpenLog
    BY <2>4 DEF OpenLog, FileIfNotOpened, OneFile, CopyCurrent, LogMatchesConfig
  <2>5. CASE Release
    BY <2>5 DEF Release, OneFile, CopyCurrent, LogMatchesConfig
  <2>6. CASE UNCHANGED <<phase, config, cfg, logVars, source>>
    BY <2>6 DEF logVars, OneFile, CopyCurrent, LogMatchesConfig
  <2>7. ASSUME NEW w \in Workers, WriteLine(w) \/ \E level \in LineLevels : BeginLine(w, level)
        PROVE  UNCHANGED <<phase, config, cfg, logVars, source>>
    BY <2>7 DEF WriteLine, BeginLine
  <2>8. Terminated \/ UNCHANGED vars => UNCHANGED <<phase, config, cfg, logVars, source>>
    BY DEF Terminated, vars
  <2> QED
    BY <2>1, <2>2, <2>3, <2>4, <2>5, <2>6, <2>7, <2>8 DEF Next
<1> QED
  BY <1>1, <1>2, PTL DEF Spec

\* *g_config and cfg are usable and the whole of what the last accepted file
\* says, for files of any number of lines.
THEOREM ServesOneFileCorrect == Spec => []ServesOneFile
<1>1. ConfigInv => ServesOneFile
  BY DEF ConfigInv, OneFile, CopyCurrent, ServesOneFile
<1> QED
  BY <1>1, ConfigInvariant, PTL

\* The open log is the one the configuration in use names, at its level.
THEOREM LogMatchesConfigCorrect == Spec => []LogMatchesConfig
<1>1. ConfigInv => LogMatchesConfig
  BY DEF ConfigInv
<1> QED
  BY <1>1, ConfigInvariant, PTL

\* After the level is set, each worker writes at most one more line below it,
\* however the workers and the reloads interleave.
THEOREM LevelTakesEffectCorrect == Spec => []LevelTakesEffect
<1>1. Init => LateInv
  BY DEF Init, LateInv
<1>2. LateInv /\ [Next]_vars => LateInv'
  <2> SUFFICES ASSUME LateInv, [Next]_vars
               PROVE  LateInv'
    OBVIOUS
  <2>1. CASE UNCHANGED <<logging, late, logLevel>>
    BY <2>1 DEF LateInv
  <2>2. CASE OpenLog
    <3>1. CASE late' = [w \in Workers |-> 0] /\ logging' = logging
      BY <3>1 DEF LateInv
    <3> QED
      BY <2>1, <2>2, <3>1 DEF OpenLog
  <2>3. ASSUME NEW w \in Workers, NEW level \in LineLevels, BeginLine(w, level)
        PROVE  LateInv'
    <3>1. /\ logging' = [logging EXCEPT ![w] = level] /\ Rank[level] >= Rank[logLevel]
          /\ UNCHANGED <<late, logLevel>>
      BY <2>3 DEF BeginLine, LevelEnabled, logVars
    <3> QED
      BY <3>1 DEF LateInv
  <2>4. ASSUME NEW w \in Workers, WriteLine(w)
        PROVE  LateInv'
    <3> DEFINE below == ~(logFile = NULL \/ Rank[logging[w]] >= Rank[logLevel])
    <3>1. /\ late' = [late EXCEPT ![w] = IF ~below THEN @ ELSE IF @ = 2 THEN 2 ELSE @ + 1]
          /\ logging[w] # NULL /\ logging' = [logging EXCEPT ![w] = NULL]
          /\ logLevel' = logLevel
      BY <2>4 DEF WriteLine, logVars
    <3>2. late[w] \in 0..1 /\ (below => late[w] = 0)
      BY <3>1 DEF LateInv
    <3> HIDE DEF below
    <3>3. late' \in [Workers -> 0..1] /\ DOMAIN logging' = Workers
      BY <3>1, <3>2 DEF LateInv
    <3>4. \A v \in Workers : v # w => late'[v] = late[v] /\ logging'[v] = logging[v]
      BY <3>1 DEF LateInv
    <3>5. logging'[w] = NULL
      BY <3>1 DEF LateInv
    <3> QED
      BY <3>1, <3>3, <3>4, <3>5 DEF LateInv
  <2>5. (Terminated \/ UNCHANGED vars \/ Snapshot \/ Release \/ \E file \in Files : Load(file) \/ Reload(file))
          => UNCHANGED <<logging, late, logLevel>>
    BY DEF Terminated, vars, Snapshot, Release, Load, Reload, lineVars, logVars
  <2> QED
    BY <2>1, <2>2, <2>3, <2>4, <2>5 DEF Next
<1>3. LateInv => LevelTakesEffect
  BY DEF LateInv, LevelTakesEffect
<1> QED
  BY <1>1, <1>2, <1>3, PTL DEF Spec
=============================================================================

----------------------------- MODULE ConfigStore -----------------------------
(***************************************************************************)
(* The configuration of 02_tcp_udp_proxy: parse_config_file and what it     *)
(* calls in config.c, the configuration in use (g_config and its copy cfg), *)
(* and the log of log.c, as main_t loads, reloads and releases them while   *)
(* the workers write to it.                                                *)
(*                                                                         *)
(* A line of the file is a record of its key, or the kind of a line without *)
(* one, and of its value, cut at the commas.  Texts are strings; Number and *)
(* Addresses say which of them atoi and inet_pton understand.  main_t is    *)
(* the only thread that uses g_config.  Between two reads the file may have *)
(* become any other (one that cannot be opened is like one with a bad line), *)
(* and each fopen of the log may fail.                                      *)
(***************************************************************************)
EXTENDS Integers, Sequences, FiniteSets, FiniteSetsExt

CONSTANTS MaxListeners,  \* MAX_LISTENERS
          MaxWorkers,    \* the largest worker_num, 128
          Number,        \* the numbers that texts are
          Addresses,     \* the texts inet_pton takes for an IPv4 address
          Files,         \* the contents the file can have: sequences of lines
          Workers,       \* the worker threads, as writers of log lines
          LineLevels,    \* the levels of the lines they write
          NULL           \* the null pointer, and "no file"

\* The default of four workers is one that the file could ask for.
ASSUME LimitAssumption == MaxListeners \in Nat \ {0} /\ MaxWorkers \in Nat /\ MaxWorkers >= 4
ASSUME NumberAssumption ==
  /\ \A text \in DOMAIN Number : Number[text] \in Int
  /\ {"4", "8080"} \subseteq DOMAIN Number /\ Number["4"] = 4 /\ Number["8080"] = 8080
ASSUME FileAssumption == Files \subseteq Seq([key : STRING, value : Seq(STRING)])
ASSUME LevelAssumption == LineLevels \subseteq {"debug", "info", "warn", "error"}

VARIABLES
  phase,     \* where main_t is
  config,    \* *g_config, or NULL
  cfg,       \* cfg, the snapshot main_t works with, or NULL
  logFile,   \* the file g_log_fp writes, or NULL
  logLevel,  \* g_log_level
  logging,   \* logging[w]: the level of the line worker w is writing, which passed the
             \* test of app_log_write, or NULL
  late,      \* history: how many lines below g_log_level each worker has written
             \* since app_log_init last set it, counted up to 2
  source     \* history: the last content that was read and accepted, or NULL

logVars == <<logFile, logLevel>>
lineVars == <<logging, late>>
vars == <<phase, config, cfg, logVars, lineVars, source>>

-----------------------------------------------------------------------------
(* parse_config_file.                                                      *)

Ports == 1..65535
Levels == {"debug", "info", "warn", "error"}
DefaultLog == "/tmp/myserver.log"

atoi(text) == IF text \in DOMAIN Number THEN Number[text] ELSE 0
trim(text) == IF text = " " THEN "" ELSE text

\* parse_log_level
LevelOf(text) == IF text = "warning" THEN "warn" ELSE text

\* The parts parse_listener_value gets from strtok_r, which skips the empty ones.
Parts(value) == SelectSeq(value, LAMBDA text : text # "")

\* What it hands to add_listener_config.
ListenerOf(value) ==
  LET part(i) == IF i <= Len(Parts(value)) THEN trim(Parts(value)[i]) ELSE ""
  IN  [proto |-> part(1), ip |-> part(2), port |-> atoi(part(3)), type |-> part(4),
       target |-> part(5), targetPort |-> atoi(part(6))]

\* The tests of add_listener_config, but for the number of listeners.
ValidListener(l) ==
  /\ l.proto \in {"tcp", "udp"}
  /\ l.ip \in Addresses /\ l.port \in Ports
  /\ \/ l.type = "proxy" /\ l.target \in Addresses /\ l.targetPort \in Ports
     \/ l.type = "echo" /\ l.target = "" /\ l.targetPort = 0

\* config_set_default and the legacy values.
Default == [ok |-> TRUE, listeners |-> <<>>, workers |-> 4, level |-> "info",
            log |-> DefaultLog, ip |-> "0.0.0.0", port |-> 8080]

\* The lines that make parse_config_file return -1.
Refused(c, line) ==
  \/ line.key \in {"no equals sign", "empty key or value"}
  \/ /\ line.key = "listener"
     /\ \/ Len(Parts(line.value)) \notin 4..6
        \/ Len(c.listeners) >= MaxListeners
        \/ ~ValidListener(ListenerOf(line.value))
  \/ line.key = "listen_port" /\ atoi(line.value[1]) \notin Ports
  \/ line.key = "worker_num" /\ atoi(line.value[1]) \notin 1..MaxWorkers
  \/ line.key = "log_level" /\ LevelOf(line.value[1]) \notin Levels

\* What an accepted line changes; a comment or an unknown key changes nothing.
Accepted(c, line) ==
  CASE line.key = "listener"    -> [c EXCEPT !.listeners = Append(@, ListenerOf(line.value))]
    [] line.key = "listen_ip"   -> [c EXCEPT !.ip = line.value[1]]
    [] line.key = "listen_port" -> [c EXCEPT !.port = atoi(line.value[1])]
    [] line.key = "worker_num"  -> [c EXCEPT !.workers = atoi(line.value[1])]
    [] line.key = "log_level"   -> [c EXCEPT !.level = LevelOf(line.value[1])]
    [] line.key = "log_file"    -> [c EXCEPT !.log = line.value[1]]
    [] OTHER                    -> c

ParseLine(c, line) ==
  IF ~c.ok THEN c ELSE IF Refused(c, line) THEN [c EXCEPT !.ok = FALSE] ELSE Accepted(c, line)

\* The listener of a file that names none.
LegacyListener(c) == [proto |-> "tcp", ip |-> c.ip, port |-> c.port, type |-> "echo",
                      target |-> "", targetPort |-> 0]

Fallback(c) ==
  IF c.listeners # <<>> THEN c
  ELSE [c EXCEPT !.listeners = <<LegacyListener(c)>>,
                 !.ok = @ /\ ValidListener(LegacyListener(c))]

\* The loop over fgets: what is known after each line.
After(lines) ==
  LET after[i \in 0..Len(lines)] ==
        IF i = 0 THEN Default ELSE ParseLine(after[i - 1], lines[i])
  IN  after

\* parse_config_file
Parse(lines) == Fallback(After(lines)[Len(lines)])

\* The server_config_t it leaves behind.
ConfigOf(c) == [listeners |-> c.listeners, workers |-> c.workers, level |-> c.level, log |-> c.log]

-----------------------------------------------------------------------------
(* main_t.                                                                 *)

Phases == {"start", "open log", "serve", "snapshot", "reopen log", "failed", "done"}

Init == /\ phase = "start"
        /\ config = NULL /\ cfg = NULL
        /\ logFile = NULL /\ logLevel = "info" /\ source = NULL
        /\ logging = [w \in Workers |-> NULL] /\ late = [w \in Workers |-> 0]

\* load_config and get_config_snapshot, before the loop.
Load(file) ==
  /\ phase = "start"
  /\ LET parsed == Parse(file)
     IN  IF parsed.ok
         THEN /\ config' = ConfigOf(parsed) /\ cfg' = config'
              /\ source' = file /\ phase' = "open log"
         ELSE /\ phase' = "failed"
              /\ UNCHANGED <<config, cfg, source>>
  /\ UNCHANGED <<logVars, lineVars>>

\* Faulty: reload_config parses into *g_config.
ParsedInPlace(parsed) == ConfigOf(parsed)

\* g_config is replaced when the whole file was accepted.
AfterReload(parsed) == IF parsed.ok THEN ConfigOf(parsed) ELSE config

\* SIGHUP: reload_config.
Reload(file) ==
  /\ phase = "serve"
  /\ LET parsed == Parse(file)
     IN  /\ config' = AfterReload(parsed)
         /\ source' = IF parsed.ok THEN file ELSE source
         /\ phase' = IF parsed.ok THEN "snapshot" ELSE "serve"
  /\ UNCHANGED <<cfg, logVars, lineVars>>

Snapshot ==
  /\ phase = "snapshot"
  /\ cfg' = config /\ phase' = "reopen log"
  /\ UNCHANGED <<config, logVars, lineVars, source>>

FileKept == logFile  \* Faulty: the old file is closed only for the new one.
FileIfNotOpened == NULL

\* app_log_init: the old file is closed, and fopen succeeds or fails.  It holds
\* g_log_mutex, so no line is written meanwhile.
OpenLog ==
  /\ phase \in {"open log", "reopen log"}
  /\ \/ /\ logFile' = cfg.log
        /\ logLevel' = cfg.level
        /\ late' = [w \in Workers |-> 0]
     \/ /\ logFile' = FileIfNotOpened
        /\ UNCHANGED <<logLevel, late>>
  /\ phase' = "serve"
  /\ UNCHANGED <<config, cfg, logging, source>>

\* After the loop the workers are joined, then app_log_close and free_config.
Release ==
  /\ phase = "serve" /\ \A w \in Workers : logging[w] = NULL
  /\ logFile' = NULL /\ config' = NULL
  /\ phase' = "done"
  /\ UNCHANGED <<cfg, logLevel, lineVars, source>>

-----------------------------------------------------------------------------
(* app_log_write, called by the workers while main_t serves and reloads.   *)

Rank == [debug |-> 0, info |-> 1, warn |-> 2, error |-> 3]

EveryLevel(level) == TRUE  \* Faulty: g_log_level is not looked at.

\* Not below g_log_level, which is read without the mutex.
LevelEnabled(level) == Rank[level] >= Rank[logLevel]

BeginLine(w, level) ==
  /\ phase \in {"serve", "snapshot", "reopen log"}
  /\ logging[w] = NULL /\ LevelEnabled(level)
  /\ logging' = [logging EXCEPT ![w] = level]
  /\ UNCHANGED <<phase, config, cfg, logVars, late, source>>

\* With the mutex: the line goes to the file, if one is open.
WriteLine(w) ==
  /\ logging[w] # NULL
  /\ late' = [late EXCEPT ![w] = IF logFile = NULL \/ Rank[logging[w]] >= Rank[logLevel]
                                 THEN @ ELSE IF @ = 2 THEN 2 ELSE @ + 1]
  /\ logging' = [logging EXCEPT ![w] = NULL]
  /\ UNCHANGED <<phase, config, cfg, logVars, source>>

Terminated == phase \in {"failed", "done"} /\ UNCHANGED vars

Next == \/ \E file \in Files : Load(file) \/ Reload(file)
        \/ Snapshot \/ OpenLog \/ Release
        \/ \E w \in Workers : WriteLine(w) \/ \E level \in LineLevels : BeginLine(w, level)
        \/ Terminated

Spec == Init /\ [][Next]_vars
-----------------------------------------------------------------------------
(* Properties.                                                             *)

LinesWith(lines, key) == {i \in DOMAIN lines : lines[i].key = key}

\* The value the last line with this key gives, or the default.
LastValue(lines, key, default) ==
  LET at == LinesWith(lines, key) IN IF at = {} THEN default ELSE lines[Max(at)].value[1]

\* Which of the lines at is line i: the first, the second and so on.
Place(at, i) == Cardinality({j \in at : j <= i})

\* What a file means, said without the order in which it is read: the listeners
\* are those of the listener lines, the first of the first line and so on, or the
\* legacy one if there is no such line, and of every other key the last line counts.
Means(c, lines) ==
  /\ LET at == LinesWith(lines, "listener")
     IN  IF at = {}
         THEN c.listeners = <<[proto |-> "tcp", ip |-> LastValue(lines, "listen_ip", "0.0.0.0"),
                               port |-> atoi(LastValue(lines, "listen_port", "8080")),
                               type |-> "echo", target |-> "", targetPort |-> 0]>>
         ELSE /\ Len(c.listeners) = Cardinality(at)
              /\ \A i \in at : c.listeners[Place(at, i)] = ListenerOf(lines[i].value)
  /\ c.workers = atoi(LastValue(lines, "worker_num", "4"))
  /\ c.level = LevelOf(LastValue(lines, "log_level", "info"))
  /\ c.log = LastValue(lines, "log_file", DefaultLog)

\* A configuration the rest of the service can work with: at least one listener,
\* no more than channels[] has room for, all well formed, and a number of workers
\* that worker_thread can be started for.
Usable(c) ==
  /\ Len(c.listeners) \in 1..MaxListeners
  /\ \A i \in DOMAIN c.listeners : ValidListener(c.listeners[i])
  /\ c.workers \in 1..MaxWorkers /\ c.level \in Levels

\* *g_config, and cfg while the loop runs, are usable and the whole of what the
\* last accepted file says: a refused file leaves no trace in them, however many
\* of its lines were read (parse_config_file, reload_config,
\* get_config_snapshot).  They are not what runs: after a reload the listeners
\* in channels[] and the workers are still those of the start.
ServesOneFile ==
  /\ config # NULL => Usable(config) /\ Means(config, source)
  /\ phase = "serve" => cfg = config

\* A log that is open while the loop runs is the one cfg names, at its level:
\* never the one of an earlier file (app_log_init).
LogMatchesConfig ==
  phase = "serve" /\ logFile # NULL => logFile = cfg.log /\ logLevel = cfg.level

\* A reload that raises the log level silences the workers: each writes at most one
\* more line below it, the one that had passed the test when app_log_init set the
\* level (app_log_write tests g_log_level outside the mutex).
LevelTakesEffect == \A w \in Workers : late[w] <= 1

\* A listener line is refused unless it has the four or six parts of the format
\* that the error message of parse_listener_value gives.
FormatEnforced ==
  phase = "serve" =>
    \A i \in DOMAIN source :
       source[i].key = "listener" =>
         /\ Len(source[i].value) \in {4, 6}
         /\ \A j \in DOMAIN source[i].value : trim(source[i].value[j]) # ""
=============================================================================

---------------------------- MODULE MCConfigStore ----------------------------
(* ConfigStore on a small instance: files of up to two lines, good and bad,   *)
(* and of three of a few kinds, with room for two listeners.                  *)
EXTENDS ConfigStore, SequencesExt

MCNumber == [text \in {"4", "8", "80", "8080", "200", "70000"} |->
               CASE text = "4" -> 4 [] text = "8" -> 8 [] text = "80" -> 80
                 [] text = "8080" -> 8080 [] text = "200" -> 200 [] text = "70000" -> 70000]

MCAddresses == {"0.0.0.0", "10.0.0.1"}

Line(key, value) == [key |-> key, value |-> value]

MCLines ==
  {Line("comment", <<"">>), Line("no equals sign", <<"">>),
   Line("listener", <<"tcp", "0.0.0.0", "80", "echo">>),
   Line("listener", <<"udp", "0.0.0.0", "80", "proxy", "10.0.0.1", "8080">>),
   Line("listener", <<"udp", "0.0.0.0", "80", "proxy", "10.0.0.1">>),
   Line("listener", <<"tcp", "0.0.0.0", "", "80", "echo", " ">>),
   Line("listener", <<"tcp", "0.0.0.0", "70000", "echo">>),
   Line("listen_ip", <<"here">>), Line("listen_ip", <<"10.0.0.1">>),
   Line("listen_port", <<"80">>), Line("listen_port", <<"x">>),
   Line("worker_num", <<"8">>), Line("worker_num", <<"200">>),
   Line("log_level", <<"warning">>), Line("log_level", <<"all">>),
   Line("log_file", <<"/tmp/other.log">>), Line("colour", <<"8">>)}

\* Two listeners in either order, with one too many or another key among them.
MCListenerLines ==
  {Line("listener", <<"tcp", "0.0.0.0", "80", "echo">>),
   Line("listener", <<"udp", "0.0.0.0", "80", "proxy", "10.0.0.1", "8080">>),
   Line("log_file", <<"/tmp/other.log">>), Line("log_level", <<"all">>)}

MCFiles == BoundedSeq(MCLines, 2) \cup [1..3 -> MCListenerLines]
=============================================================================

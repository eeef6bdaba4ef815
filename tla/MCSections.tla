----------------------------- MODULE MCSections -----------------------------
(***************************************************************************)
(* Instances of Sections: sections of two heights, filters of six bits,    *)
(* contracts and topics whose hashes overlap.                              *)
(***************************************************************************)
EXTENDS Sections

\* "e" is in no log, but its bits are in every filter
MCBits == [w \in {"c", "d", "e", "s", "t"} |->
  CASE w = "c" -> {0, 1} [] w = "d" -> {1, 2} [] w = "e" -> {1, 4} [] w = "s" -> {2, 4} [] w = "t" -> {3, 5}]

Log(a, topics) == [address |-> a, topics |-> topics]
MCBlockLogs == {<<Log("d", <<"s", "t">>)>>, <<Log("c", <<"s">>), Log("d", <<>>)>>}
MCQueries == {<<{"c", "e"}>>, <<{"c", "d"}, {"s"}>>, <<{"d"}, {"s"}, {}>>, <<{}>>}
==============================================================================

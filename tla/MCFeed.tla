------------------------------- MODULE MCFeed ------------------------------
(***************************************************************************)
(* Small instances of Feed: a list of two items with two subscriptions of  *)
(* one client, and a list of one item, where a listener loses its place    *)
(* with every block, with two clients. The counter of logs wraps round.    *)
(***************************************************************************)
EXTENDS Feed

MCScenes ==
  {[kind |-> k, conns |-> {"c"}, queueSize |-> 2, blocks |-> 3] : k \in {"blocks", "logs"}}
    \cup {[kind |-> k, conns |-> {"c", "d"}, queueSize |-> 1, blocks |-> 2] : k \in {"blocks", "logs"}}
==============================================================================

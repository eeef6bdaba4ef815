------------------------------- MODULE MCNet -------------------------------
(***************************************************************************)
(* Small networks for Net: a connection that meets every fault there is,   *)
(* a peer that is dialled again while its old connection is being closed,  *)
(* and a block that is relayed along a line, the last node of which is out *)
(* of its reach, and round a triangle.                                     *)
(***************************************************************************)
EXTENDS Net

Quiet == [dials |-> <<>>, up |-> {}, tree |-> FALSE, sends |-> {}, resets |-> 0, sweeps |-> 0,
          beats |-> 0, refuses |-> 0, relaySize |-> 2]
Single == [Quiet EXCEPT !.dials = <<<<"x", "y">>>>, !.sweeps = 1, !.beats = 1, !.refuses = 1]
Broken == [Quiet EXCEPT !.dials = <<<<"x", "y">>>>, !.resets = 1, !.sweeps = 1]
Redial == [Quiet EXCEPT !.dials = <<<<"x", "y">>, <<"x", "y">>>>, !.up = {1}, !.sweeps = 1]
Line == [Quiet EXCEPT !.dials = <<<<"v", "w">>, <<"w", "x">>, <<"x", "y">>, <<"y", "z">>>>,
                      !.up = 1..4, !.tree = TRUE, !.sends = {"v"}]
Ring == [Quiet EXCEPT !.dials = <<<<"w", "x">>, <<"x", "y">>, <<"y", "w">>>>, !.up = 1..3, !.sends = {"w"},
                      !.relaySize = 1]
MCScenes == {Single, Broken, Redial, Line, Ring}
==============================================================================

------------------------------- MODULE MCBpos -------------------------------
(***************************************************************************)
(* Instances of Bpos for TLC: three bookkeepers, whose order changes when  *)
(* the dynasty switches.                                                   *)
(***************************************************************************)
EXTENDS Bpos

CONSTANTS n1, n2, n3

OneDynasty == <<<<n1, n2, n3>>>>
TwoDynasties == <<<<n1, n2, n3>>, <<n2, n3, n1>>>>
=============================================================================

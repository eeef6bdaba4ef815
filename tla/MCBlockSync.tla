---------------------------- MODULE MCBlockSync ----------------------------
(* Chains of a few peers for BlockSync.                                    *)
EXTENDS BlockSync, TLC

CONSTANTS p1, p2, s1, s2

\* Two peers that agree on the first block only.
PairFork == (p1 :> <<1, 1>>) @@ (p2 :> <<1, 2>>)

\* The second block of p2 is refused.
BadBlock == {<<1, 2>>}

=============================================================================

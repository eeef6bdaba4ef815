------------------------------ MODULE MCChain ------------------------------
(* Small block trees for Chain. A tree is a set of pairs child |-> parent. *)
EXTENDS ChainChoice, TLC

CONSTANTS g, a1, a2, a3, b1, b2, b3, c2, c3, f1, f2

\* Genesis with a main branch a and a side branch b that outgrows it.
TreeFork == (g :> g) @@ (a1 :> g) @@ (a2 :> a1) @@ (b1 :> g) @@ (b2 :> b1) @@ (b3 :> b2)

\* Branch b has two children of b1, so that a side chain forks again.
TreeTwoSide == TreeFork @@ (c2 :> b1) @@ (c3 :> c2)

RECURSIVE Depth(_, _)
Depth(tree, b) == IF b = g THEN 0 ELSE 1 + Depth(tree, tree[b])

RECURSIVE AncIn(_, _, _)
AncIn(tree, b, h) == IF Depth(tree, b) = h THEN b ELSE AncIn(tree, tree[b], h)

HeightOf(tree) == [b \in DOMAIN tree |-> Depth(tree, b)]

ForkBlock == DOMAIN TreeFork
ForkHeight == HeightOf(TreeFork)
ForkAnc(b, h) == AncIn(TreeFork, b, h)

TwoSideBlock == DOMAIN TreeTwoSide
TwoSideHeight == HeightOf(TreeTwoSide)
TwoSideAnc(b, h) == AncIn(TreeTwoSide, b, h)

\* Every block has a time stamp of its own and the same book keeper.
OwnStamp == [b \in Block |-> b]
OneKeeper == [b \in Block |-> g]

=============================================================================

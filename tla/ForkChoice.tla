----------------------------- MODULE ForkChoice -----------------------------
(***************************************************************************)
(* What the block chain of module Chain promises to whoever reads its tail *)
(* between two blocks: the node is on one chain of the tree of blocks, it  *)
(* leaves that chain only for a higher one that contains the irreversible  *)
(* block, in one step, and the irreversible block only moves up along the  *)
(* chain the node is on.                                                   *)
(***************************************************************************)
EXTENDS Naturals

CONSTANTS Block, Genesis, Height, Anc(_, _)

VARIABLES
  head,         \* the last block of the chain the node is on
  final         \* the highest block that is irreversible

Choice == <<head, final>>

On(b) == {Anc(b, h) : h \in 0..Height[b]}

Start == head = Genesis /\ final = Genesis

\* One block more, or a switch to a side chain.
Grow(b) ==
  /\ Height[b] > Height[head] /\ final \in On(b)
  /\ head' = b
  /\ UNCHANGED final

Finalize(b) ==
  /\ b \in On(head) /\ Height[b] > Height[final]
  /\ final' = b
  /\ UNCHANGED head

Step == \E b \in Block : Grow(b) \/ Finalize(b)

Promise == Start /\ [][Step]_Choice

=============================================================================

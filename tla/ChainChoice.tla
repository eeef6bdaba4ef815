---------------------------- MODULE ChainChoice ----------------------------
(***************************************************************************)
(* Chain implements ForkChoice. A reorganisation, which Chain takes block  *)
(* by block and may have to roll back, is one step of ForkChoice or none:  *)
(* until it ends the node is on the chain it started from.                 *)
(***************************************************************************)
EXTENDS Chain

Reorganizing == pc \in {"detach", "attach", "undo", "redo"}
SettledTail == IF Reorganizing THEN old ELSE tail

Node == INSTANCE ForkChoice WITH head <- SettledTail, final <- eternal

\* Seen between two blocks the node leaves its chain only for a higher one that
\* contains the eternal block, all at once, and the eternal block only moves up the
\* chain the node is on: reorganize with its roll back, block by block, implements
\* ForkChoice if updateEternal waits for chainLock.
GrowsOnly == Node!Promise

=============================================================================

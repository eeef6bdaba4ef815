------------------------------ MODULE EvmWorlds ------------------------------
(***************************************************************************)
(* Evm implements Worlds. The mapping is a function of the state: the      *)
(* world is what the StateDB shows, the worlds put aside are what undoing  *)
(* the calls in progress would show. It is kept in two auxiliary variables *)
(* so that it is computed once for a state.                                *)
(***************************************************************************)
EXTENDS Evm

VARIABLES world, saved

Promise ==
  INSTANCE Worlds WITH
    Start <- {WorldOf(New(Build(x.accounts), x.codes)) : x \in Scenes}

InitW == Init /\ world = WorldOf(s) /\ saved = SavedOf(s, frames)
NextW == Next /\ world' = WorldOf(s') /\ saved' = SavedOf(s', frames')
SpecW == InitW /\ [][NextW]_<<vars, world, saved>>

\* The journal, the live objects and the tries implement the plain map of
\* accounts: a failed call leaves nothing behind, whatever was created, destroyed
\* or undone within it, the calls around it can still be undone, and what the next
\* block reads from the tries is what this one left (StateDB, journal).
Implements == Promise!Spec
==============================================================================

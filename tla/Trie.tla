-------------------------------- MODULE Trie --------------------------------
(***************************************************************************)
(* The Merkle Patricia trie of core/trie. A node is stored under the hash  *)
(* of its contents, so a hash stands for the whole tree below it: here a   *)
(* node is that tree, and a trie is its root. Nodes are never removed from *)
(* the database, so that an old root stays readable. A key is a sequence   *)
(* of nibbles (keyToHex); all keys of a trie have the same length. An      *)
(* operation that fails returns NotFound and leaves the trie alone.        *)
(***************************************************************************)
EXTENDS Integers, Sequences, SequencesExt, FiniteSets, FiniteSetsExt

CONSTANT Nibbles          \* the indexes of a branch: 0..15 in the code

Nil == [kind |-> "nil"]
NotFound == [kind |-> "notfound"]
leaf(path, value) == [kind |-> "leaf", path |-> path, value |-> value]
newExtensionNode(path, next) == [kind |-> "extension", path |-> path, next |-> next]
branch(kids) == [kind |-> "branch", kids |-> kids]
newEmptyBranchNode == branch([n \in Nibbles |-> Nil])

From(key, n) == SubSeq(key, n, Len(key))

\* the common prefix of the path of a node and a key, which is no shorter
commonPrefixes(old, key) ==
  SubSeq(key, 1, Max({i \in 0..Len(old) : \A j \in 1..i : old[j] = key[j]}))

\* the value under the key, or Nil: Get swallows ErrNodeNotFound
RECURSIVE get(_, _)
get(root, key) ==
  CASE root.kind = "nil" -> Nil
    [] root.kind = "branch" -> get(root.kids[Head(key)], From(key, 2))
    [] root.kind = "leaf" -> IF root.path = key THEN root.value ELSE Nil
    [] root.kind = "extension" ->
         get(root.next, From(key, Len(commonPrefixes(root.path, key)) + 1))

\* where the path of a leaf or an extension leaves the key: a branch of the rest
\* of the path and of a new leaf, below an extension for what they share
forked(path, rest, key, value, n) ==
  LET fork == branch([newEmptyBranchNode.kids EXCEPT ![path[n + 1]] = rest,
                        ![key[n + 1]] = leaf(From(key, n + 2), value)])
  IN IF n = 0 THEN fork ELSE newExtensionNode(SubSeq(key, 1, n), fork)

RECURSIVE update(_, _, _)
update(root, key, value) ==
  IF root.kind = "nil" THEN leaf(key, value)
  ELSE IF root.kind = "branch"
  THEN [root EXCEPT !.kids[Head(key)] = update(@, From(key, 2), value)]
  ELSE LET n == Len(commonPrefixes(root.path, key))
       IN CASE n = Len(root.path) /\ root.kind = "leaf" -> [root EXCEPT !.value = value]
            [] n = Len(root.path) /\ root.kind = "extension" ->
                 [root EXCEPT !.next = update(@, From(key, n + 1), value)]
            [] n < Len(root.path) /\ root.kind = "leaf" ->
                 forked(root.path, leaf(From(root.path, n + 2), root.value), key, value, n)
            [] n < Len(root.path) /\ root.kind = "extension" ->
                 forked(root.path,
                        IF n = Len(root.path) - 1 THEN root.next
                        ELSE newExtensionNode(From(root.path, n + 2), root.next),
                        key, value, n)

BranchLen(kids) == Cardinality({n \in Nibbles : kids[n] /= Nil})
FirstSubNodeInBranch(kids) == Min({n \in Nibbles : kids[n] /= Nil})

\* a mistake: a branch with one child left stays a branch
collapsedNot(kids) == branch(kids)

\* a branch with one child left becomes a leaf or an extension
collapsed(kids) ==
  IF BranchLen(kids) /= 1 THEN branch(kids)
  ELSE LET i == FirstSubNodeInBranch(kids)
           sub == kids[i]
       IN IF sub.kind = "branch" THEN newExtensionNode(<<i>>, sub)
          ELSE [sub EXCEPT !.path = <<i>> \o @]

RECURSIVE delete(_, _)
delete(root, key) ==
  CASE root.kind = "nil" -> NotFound
    [] root.kind = "leaf" -> IF root.path = key THEN Nil ELSE NotFound
    [] root.kind = "branch" ->
         LET sub == delete(root.kids[Head(key)], From(key, 2))
         IN IF sub = NotFound THEN NotFound
            ELSE collapsed([root.kids EXCEPT ![Head(key)] = sub])
    [] root.kind = "extension" ->
         LET sub == delete(root.next, From(key, Len(commonPrefixes(root.path, key)) + 1))
         IN CASE sub \in {NotFound, Nil} -> sub
              [] sub.kind = "branch" -> [root EXCEPT !.next = sub]
              [] sub.kind \in {"leaf", "extension"} ->
                   [sub EXCEPT !.path = root.path \o @]

------------------------------------------------------------------------------
(* What a trie stands for, and the one trie that should stand for a map.     *)

Contents(root, keys) == [k \in {k \in keys : get(root, k) /= Nil} |-> get(root, k)]

RECURSIVE Build(_)
Build(map) ==
  LET keys == DOMAIN map
      some == CHOOSE k \in keys : TRUE
      shared == Max({i \in 0..Len(some) : \A k \in keys : SubSeq(k, 1, i) = SubSeq(some, 1, i)})
      below(n) == {k \in keys : k[shared + 1] = n}
      sub(n) == [k \in {From(k, shared + 2) : k \in below(n)} |->
                   map[SubSeq(some, 1, shared) \o <<n>> \o k]]
      fork == branch([n \in Nibbles |-> IF below(n) = {} THEN Nil ELSE Build(sub(n))])
  IN CASE keys = {} -> Nil
       [] Cardinality(keys) = 1 -> leaf(some, map[some])
       [] Cardinality(keys) > 1 ->
            IF shared = 0 THEN fork ELSE newExtensionNode(SubSeq(some, 1, shared), fork)
==============================================================================

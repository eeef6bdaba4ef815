----------------------------- MODULE BposProofs -----------------------------
(***************************************************************************)
(* The theorems about Bpos, for any number of nodes, any dynasties and     *)
(* switches, votes lost or late, reorganisations and restarts: a commit    *)
(* vote follows enough prepare votes, an eternal block enough commit       *)
(* votes, and so does what a miner writes into its block.                  *)
(*                                                                         *)
(* All of it rests on one argument. Votes are never taken back (sent only  *)
(* grows) and blocks never change, so that what was backed by votes stays  *)
(* backed; and the caches of a node hold votes that were really sent. The  *)
(* invariant is stated of a state nd of the nodes and bl of the blocks, so *)
(* that both states of a step can be compared.                             *)
(***************************************************************************)
EXTENDS Bpos, FiniteSetTheorems, WellFoundedInduction, TLAPS

-----------------------------------------------------------------------------
(* Induction over the natural numbers, stated for a set, which the facts   *)
(* about the loops over a chain instantiate with the set of the heights    *)
(* for which a loop is right.                                              *)

Before == {pair \in Nat \X Nat : pair[1] < pair[2]}

\* A set of natural numbers that is not empty has a least element.
LEMMA LeastNumber ==
  ASSUME NEW T \in SUBSET Nat, T # {}
  PROVE  \E x \in T : \A y \in T : x <= y
<1>1. IsWellFoundedOn(Before, Nat)
  BY NatLessThanWellFounded DEF OpToRel, Before
<1>2. PICK x \in T : \A y \in T : ~(<<y, x>> \in Before)
  BY Zenon, <1>1, WFMin
<1>3. \A y \in Nat : y < x => <<y, x>> \in Before
  <2> SUFFICES ASSUME NEW y \in Nat, y < x PROVE <<y, x>> \in Before
    OBVIOUS
  <2>1. <<y, x>> \in Nat \X Nat
    OBVIOUS
  <2> QED  BY <2>1 DEF Before
<1>4. \A y \in T : ~(y < x) /\ y \in Nat /\ x \in Nat
  BY Zenon, <1>2, <1>3
<1> QED  BY <1>4

\* A set of natural numbers that has a bound and is not empty has a greatest one.
LEMMA GreatestNumber ==
  ASSUME NEW n \in Nat, NEW S \in SUBSET (0..n), S # {}
  PROVE  \E x \in S : \A y \in S : y <= x
<1> DEFINE T == {n - x : x \in S}
<1>1. T \in SUBSET Nat /\ T # {}
  <2>1. \A x \in S : n - x \in Nat
    OBVIOUS
  <2>2. PICK x \in S : TRUE
    BY Zenon
  <2> QED  BY <2>1, <2>2
<1>2. PICK z \in T : \A y \in T : z <= y
  BY Zenon, <1>1, LeastNumber
<1>3. PICK x \in S : z = n - x
  OBVIOUS
<1>4. ASSUME NEW y \in S PROVE y <= x
  <2>1. n - x <= n - y /\ x \in 0..n /\ y \in 0..n
    BY <1>2, <1>3
  <2> QED  BY <2>1
<1> QED  BY <1>4

\* A set that has 0 and with each number the next one has every number.
LEMMA Induction ==
  ASSUME NEW S, 0 \in S, \A n \in Nat : n \in S => n + 1 \in S
  PROVE  Nat \subseteq S
<1> DEFINE T == Nat \ S
<1> SUFFICES ASSUME T # {} PROVE FALSE
  OBVIOUS
<1>1. PICK x \in T : \A y \in T : x <= y
  BY Zenon, LeastNumber
<1>2. x \in Nat /\ x # 0
  OBVIOUS
<1>3. x - 1 \in Nat /\ x - 1 \notin T
  BY <1>1, <1>2
<1>4. x - 1 \in S /\ x = (x - 1) + 1
  BY <1>3
<1> QED  BY <1>3, <1>4

-----------------------------------------------------------------------------
(* The invariant.                                                          *)

Fields == {"stored", "tail", "eternal", "dyn", "vdyn", "prep", "prepKey", "com",
           "comKey", "finals", "sent"}

HeightIn(bl, b) == Len(bl[b].chain)
QuorumIn(bl, b) == (2 * Len(DynastyAt(HeightIn(bl, b)))) \div 3
BookkeepersIn(bl, b) == Members(DynastyAt(HeightIn(bl, b)))
VotersIn(nd, kind, b) ==
  {m \in Node : \E v \in nd[m].sent : v.kind = kind /\ v.block = b}

\* Enough bookkeepers of b have sent their prepare vote, not counting n, and their
\* commit vote.
Prepared(nd, bl, n, b) ==
  Cardinality(VotersIn(nd, "prepare", b) \ {n}) >= QuorumIn(bl, b)
Committed(nd, bl, b) ==
  Cardinality(VotersIn(nd, "commit", b) \cap BookkeepersIn(bl, b)) >= QuorumIn(bl, b)

\* Blocks that can be voted for.
Votable(bl) == DOMAIN bl \ {Genesis}

\* The blocks form a tree: the chain of a block lists its ancestors by height.
BlocksOK(bl) ==
  /\ Genesis \in DOMAIN bl /\ bl[Genesis].chain = <<>> /\ bl[Genesis].info = None
  /\ \A b \in DOMAIN bl :
       /\ bl[b].chain \in Seq(Votable(bl))
       /\ b # Genesis => HeightIn(bl, b) >= 1
       /\ \A h \in 1..HeightIn(bl, b) : HeightIn(bl, bl[b].chain[h]) = h

\* Irreversible info is about a lower block of the same chain and has the votes of
\* enough of its bookkeepers.
InfoOK(nd, bl, b, i) ==
  /\ i.block \in Votable(bl) /\ i.block # b
  /\ HeightIn(bl, i.block) \in 1..HeightIn(bl, b)
  /\ bl[b].chain[HeightIn(bl, i.block)] = i.block
  /\ i.from \subseteq VotersIn(nd, "commit", i.block) \cap BookkeepersIn(bl, i.block)
  /\ Cardinality(i.from) >= QuorumIn(bl, i.block)

\* What node n, in state s, has received, concluded and sent.
StateOK(nd, bl, n, s) ==
  /\ DOMAIN s = Fields
  /\ s.tail \in DOMAIN bl
  /\ s.eternal \in DOMAIN bl /\ (s.eternal # Genesis => Committed(nd, bl, s.eternal))
  /\ \A v \in s.prep : v \in Votable(bl) \X (VotersIn(nd, "prepare", v[1]) \ {n})
  /\ \A v \in s.com :
       v \in Votable(bl) \X (VotersIn(nd, "commit", v[1]) \cap BookkeepersIn(bl, v[1]))
  /\ \A p \in s.finals : p \in DOMAIN bl /\ bl[p].info # None
  /\ \A v \in s.sent : /\ v.block \in Votable(bl)
                       /\ v.kind = "commit" => Prepared(nd, bl, n, v.block)

IInv ==
  /\ now \in Nat \ {0}
  /\ DOMAIN node = Node
  /\ BlocksOK(block)
  /\ \A b \in DOMAIN block :
       block[b].info # None => InfoOK(node, block, b, block[b].info)
  /\ \A n \in Node : StateOK(node, block, n, node[n])

-----------------------------------------------------------------------------
(* More votes and more blocks: nothing that was backed loses its backing.  *)

MoreVotes(nd, nd2) == \A m \in Node : nd[m].sent \subseteq nd2[m].sent
MoreBlocks(bl, bl2) == \A b \in DOMAIN bl : b \in DOMAIN bl2 /\ bl2[b] = bl[b]

\* There is a dynasty at every height.
LEMMA DynastySeq ==
  ASSUME NEW h \in Nat
  PROVE  DynastyAt(h) \in Seq(Node)
<1>1. (h + 1) \div Switch \in Nat
  BY BposAssumption
<1> QED  BY <1>1, BposAssumption DEF DynastyAt

\* The votes that are needed for a block are a number.
LEMMA QuorumNat ==
  ASSUME NEW bl, BlocksOK(bl), NEW b \in DOMAIN bl
  PROVE  HeightIn(bl, b) \in Nat /\ QuorumIn(bl, b) \in Nat
<1>1. HeightIn(bl, b) \in Nat
  BY DEF BlocksOK, HeightIn
<1>2. DynastyAt(HeightIn(bl, b)) \in Seq(Node)
  BY <1>1, DynastySeq
<1>3. Len(DynastyAt(HeightIn(bl, b))) \in Nat
  BY <1>2
<1> QED  BY <1>1, <1>3 DEF QuorumIn

\* Sets of nodes are finite, and a larger one has at least as many nodes.
LEMMA CardMore ==
  ASSUME NEW A, NEW B \in SUBSET Node, A \subseteq B, NEW q \in Nat, Cardinality(A) >= q
  PROVE  Cardinality(B) >= q
<1>1. IsFiniteSet(B) /\ IsFiniteSet(A)
  BY BposAssumption, FS_Subset
<1>2. Cardinality(A) <= Cardinality(B) /\ Cardinality(A) \in Nat /\ Cardinality(B) \in Nat
  BY <1>1, FS_Subset, FS_CardinalityType
<1> QED  BY <1>2

\* What is prepared or committed stays so.
LEMMA BackedMore ==
  ASSUME NEW nd, NEW nd2, NEW bl, NEW bl2, MoreVotes(nd, nd2), MoreBlocks(bl, bl2),
         BlocksOK(bl), NEW b \in DOMAIN bl
  PROVE  /\ HeightIn(bl2, b) = HeightIn(bl, b) /\ BookkeepersIn(bl2, b) = BookkeepersIn(bl, b)
         /\ QuorumIn(bl2, b) = QuorumIn(bl, b)
         /\ \A kind : VotersIn(nd, kind, b) \subseteq VotersIn(nd2, kind, b)
         /\ \A n : Prepared(nd, bl, n, b) => Prepared(nd2, bl2, n, b)
         /\ Committed(nd, bl, b) => Committed(nd2, bl2, b)
<1>1. HeightIn(bl2, b) = HeightIn(bl, b)
  BY DEF MoreBlocks, HeightIn
<1>2. BookkeepersIn(bl2, b) = BookkeepersIn(bl, b) /\ QuorumIn(bl2, b) = QuorumIn(bl, b)
  BY <1>1 DEF BookkeepersIn, QuorumIn
<1>3. \A kind : VotersIn(nd, kind, b) \subseteq VotersIn(nd2, kind, b)
                /\ VotersIn(nd2, kind, b) \subseteq Node
  BY DEF MoreVotes, VotersIn
<1>4. QuorumIn(bl, b) \in Nat
  BY QuorumNat
<1>5. ASSUME NEW n, Prepared(nd, bl, n, b)
      PROVE  Prepared(nd2, bl2, n, b)
  BY ZenonT(60), <1>2, <1>3, <1>4, <1>5, CardMore DEF Prepared
<1>6. ASSUME Committed(nd, bl, b)
      PROVE  Committed(nd2, bl2, b)
  BY ZenonT(60), <1>2, <1>3, <1>4, <1>6, CardMore DEF Committed
<1> QED  BY <1>1, <1>2, <1>3, <1>5, <1>6

\* The state of a node stays right when other nodes vote and blocks are minted.
LEMMA StateKept ==
  ASSUME NEW nd, NEW nd2, NEW bl, NEW bl2, MoreVotes(nd, nd2), MoreBlocks(bl, bl2),
         BlocksOK(bl), NEW n, NEW s, StateOK(nd, bl, n, s)
  PROVE  StateOK(nd2, bl2, n, s)
<1>1. Votable(bl) \subseteq Votable(bl2) /\ DOMAIN bl \subseteq DOMAIN bl2
      /\ Votable(bl) \subseteq DOMAIN bl
  BY DEF Votable, MoreBlocks
<1>2. DOMAIN s = Fields /\ s.tail \in DOMAIN bl2 /\ s.eternal \in DOMAIN bl2
      /\ \A p \in s.finals : p \in DOMAIN bl2 /\ bl2[p].info # None
  BY ZenonT(60), <1>1 DEF StateOK, MoreBlocks
<1>3. s.eternal # Genesis => Committed(nd2, bl2, s.eternal)
  BY BackedMore DEF StateOK
<1>4. ASSUME NEW v \in s.prep
      PROVE  v \in Votable(bl2) \X (VotersIn(nd2, "prepare", v[1]) \ {n})
  <2>1. v \in Votable(bl) \X (VotersIn(nd, "prepare", v[1]) \ {n})
    BY DEF StateOK
  <2>2. v[1] \in DOMAIN bl
    BY <1>1, <2>1
  <2>3. VotersIn(nd, "prepare", v[1]) \subseteq VotersIn(nd2, "prepare", v[1])
    BY <2>2, BackedMore
  <2> QED  BY <1>1, <2>1, <2>3
<1>5. ASSUME NEW v \in s.com
      PROVE  v \in Votable(bl2) \X (VotersIn(nd2, "commit", v[1]) \cap BookkeepersIn(bl2, v[1]))
  <2>1. v \in Votable(bl) \X (VotersIn(nd, "commit", v[1]) \cap BookkeepersIn(bl, v[1]))
    BY DEF StateOK
  <2>2. v[1] \in DOMAIN bl
    BY <1>1, <2>1
  <2>3. VotersIn(nd, "commit", v[1]) \subseteq VotersIn(nd2, "commit", v[1])
        /\ BookkeepersIn(bl2, v[1]) = BookkeepersIn(bl, v[1])
    BY <2>2, BackedMore
  <2> QED  BY <1>1, <2>1, <2>3
<1>6. ASSUME NEW v \in s.sent
      PROVE  v.block \in Votable(bl2) /\ (v.kind = "commit" => Prepared(nd2, bl2, n, v.block))
  BY <1>1, BackedMore DEF StateOK
<1> QED  BY ZenonT(60), <1>2, <1>3, <1>4, <1>5, <1>6 DEF StateOK

\* So does irreversible info.
LEMMA InfoKept ==
  ASSUME NEW nd, NEW nd2, NEW bl, NEW bl2, MoreVotes(nd, nd2), MoreBlocks(bl, bl2),
         BlocksOK(bl), NEW b \in DOMAIN bl, NEW i, InfoOK(nd, bl, b, i)
  PROVE  InfoOK(nd2, bl2, b, i)
<1>1. i.block \in DOMAIN bl /\ i.block \in Votable(bl2) /\ bl2[b] = bl[b]
  BY DEF InfoOK, Votable, MoreBlocks
<1>2. /\ HeightIn(bl2, i.block) = HeightIn(bl, i.block) /\ HeightIn(bl2, b) = HeightIn(bl, b)
      /\ BookkeepersIn(bl2, i.block) = BookkeepersIn(bl, i.block)
      /\ QuorumIn(bl2, i.block) = QuorumIn(bl, i.block)
      /\ VotersIn(nd, "commit", i.block) \subseteq VotersIn(nd2, "commit", i.block)
  BY <1>1, BackedMore
<1> QED  BY <1>1, <1>2 DEF InfoOK

-----------------------------------------------------------------------------
(* ChangeNewTail and what calls it: the state t that a node in state s gets *)
(* into has a tail that exists, no vote of others that s did not have, and *)
(* new votes of its own that are prepare votes.                            *)

Moved(s, t) ==
  /\ DOMAIN t = Fields
  /\ t.tail \in DOMAIN block /\ t.eternal = s.eternal
  /\ t.prep \subseteq s.prep /\ t.com \subseteq s.com
  /\ \A p \in t.finals \ s.finals : p \in DOMAIN block /\ block[p].info # None
  /\ s.sent \subseteq t.sent
  /\ \A v \in t.sent \ s.sent : v.kind = "prepare" /\ v.block \in Votable(block)

\* A node that has a tail and the fields of a node.
Placed(s) == DOMAIN s = Fields /\ s.tail \in DOMAIN block

\* Nothing need happen.
LEMMA MovedSame ==
  ASSUME NEW s, Placed(s)
  PROVE  Moved(s, s)
BY DEF Moved, Placed

\* Two such moves make one.
LEMMA MovedOn ==
  ASSUME NEW s, NEW t, NEW u, Moved(s, t), Moved(t, u)
  PROVE  Moved(s, u) /\ Placed(u)
BY DEF Moved, Placed

\* A move keeps the state of a node right, with the votes it has sent.
LEMMA MovedOK ==
  ASSUME BlocksOK(block), NEW nd, NEW n, NEW s, StateOK(nd, block, n, s), NEW t, Moved(s, t)
  PROVE  StateOK(nd, block, n, t)
<1>1. /\ DOMAIN t = Fields /\ t.tail \in DOMAIN block /\ t.eternal = s.eternal
      /\ \A v \in t.prep : v \in s.prep
      /\ \A v \in t.com : v \in s.com
      /\ \A p \in t.finals : p \in s.finals \/ (p \in DOMAIN block /\ block[p].info # None)
      /\ \A v \in t.sent : v \in s.sent \/ (v.kind = "prepare" /\ v.block \in Votable(block))
  BY DEF Moved
<1> QED  BY <1>1 DEF StateOK

\* The parent of a block is a block.
LEMMA ParentKnown ==
  ASSUME BlocksOK(block), NEW b \in DOMAIN block
  PROVE  Parent(b) \in DOMAIN block
<1>1. CASE b = Genesis
  BY <1>1 DEF Parent, BlocksOK
<1>2. CASE b # Genesis
  <2>1. block[b].chain \in Seq(DOMAIN block) /\ Len(block[b].chain) >= 1
        /\ Genesis \in DOMAIN block
    BY <1>2 DEF BlocksOK, HeightIn, Votable
  <2>2. Len(block[b].chain) - 1 # 0 => block[b].chain[Len(block[b].chain) - 1] \in DOMAIN block
    <3> DEFINE c == block[b].chain
    <3> HIDE DEF c
    <3>1. c \in Seq(DOMAIN block) /\ Len(c) >= 1
      BY <2>1 DEF c
    <3>2. Len(c) - 1 # 0 => Len(c) - 1 \in 1..Len(c)
      <4>1. Len(c) \in Nat /\ Len(c) >= 1
        BY <3>1
      <4> QED  BY SMTT(60), <4>1
    <3>3. Len(c) - 1 # 0 => c[Len(c) - 1] \in DOMAIN block
      BY <3>1, <3>2
    <3> QED  BY <3>3 DEF c
  <2> QED  BY <1>2, <2>1, <2>2 DEF Parent, Anc, Height
<1> QED  BY <1>1, <1>2

\* Finalize votes for a block that exists and is younger than the genesis block.
LEMMA FinalizeMoves ==
  ASSUME IInv, NEW n, NEW s, Placed(s), NEW h, NEW p \in DOMAIN block
  PROVE  Moved(s, Finalize(n, s, h, p))
<1> DEFINE u == updateVerifyContext(s, h)
<1>1. DOMAIN u = Fields /\ u.tail = s.tail /\ u.eternal = s.eternal /\ u.prep = s.prep
      /\ u.com = s.com /\ u.finals = s.finals /\ u.sent = s.sent
  BY DEF Placed, Fields, updateVerifyContext
<1>2. now - Time(p) < MaxAge => p # Genesis
  BY BposAssumption DEF Genesis, Time, IInv
<1> DEFINE x == Vote(n, u, "prepare", p)
           t == Finalize(n, s, h, p)
<1>3. x.kind = "prepare" /\ x.block = p
  BY DEF Vote
<1> HIDE DEF u, x
<1>4. /\ DOMAIN t = Fields /\ t.tail = u.tail /\ t.eternal = u.eternal /\ t.prep = u.prep
      /\ t.com = u.com
      /\ t.sent = u.sent \cup (IF now - Time(p) < MaxAge THEN {x} ELSE {})
      /\ t.finals = u.finals \cup (IF block[p].info # None THEN {p} ELSE {})
  BY <1>1 DEF Finalize, Fields, u, x
<1> QED  BY <1>1, <1>2, <1>3, <1>4 DEF Moved, Placed, Votable

\* Connecting and disconnecting a block.
LEMMA ConnectMoves ==
  ASSUME IInv, NEW n, NEW s, Placed(s), NEW b \in DOMAIN block
  PROVE  Moved(s, Connect(n, s, b))
<1> DEFINE t == Finalize(n, s, Height(b), Parent(b))
<1>1. Moved(s, t)
  BY ParentKnown, FinalizeMoves DEF IInv
<1> HIDE DEF t
<1>2. Moved(s, [t EXCEPT !.tail = b, !.stored = @ \cup {b}])
  BY <1>1 DEF Moved, Fields
<1> QED  BY <1>2 DEF Connect, t

\* Disconnecting a block.
LEMMA DisconnectMoves ==
  ASSUME IInv, NEW n, NEW s, Placed(s), NEW b \in DOMAIN block
  PROVE  Moved(s, Disconnect(n, s, b))
<1> DEFINE t == Finalize(n, s, Height(b) - 1, Parent(Parent(b)))
<1>0. Parent(b) \in DOMAIN block /\ Parent(Parent(b)) \in DOMAIN block
  BY ParentKnown DEF IInv
<1>1. Moved(s, t)
  BY <1>0, FinalizeMoves
<1> HIDE DEF t
<1>2. Moved(s, [t EXCEPT !.tail = Parent(b)])
  BY <1>0, <1>1 DEF Moved, Fields
<1> QED  BY <1>2 DEF Disconnect, t

\* tryConnectBlockToMainChain, whether it accepts the block or not.
LEMMA TryConnectMoves ==
  ASSUME IInv, NEW n, NEW s, Placed(s), NEW b \in DOMAIN block
  PROVE  Moved(s, TryConnect(n, s, b).state)
<1> DEFINE v == Verify(s, b)
           u == IF SwitchesDynasty(Height(b)) THEN NotifyDynastyUpdate(v) ELSE v
<1>1. Moved(s, v)
  <2> DEFINE w == updateVerifyContext(s, Height(b))
  <2>1. Moved(s, w)
    BY DEF Placed, Fields, updateVerifyContext, Moved
  <2>2. Moved(s, [w EXCEPT !.dyn = None])
    BY <2>1 DEF Moved, Fields
  <2> QED  BY <2>1, <2>2 DEF Verify
<1> HIDE DEF v
<1>2. Moved(s, u)
  BY <1>1 DEF Moved, Fields, NotifyDynastyUpdate
<1> HIDE DEF u
<1>3. Placed(u)
  BY <1>2 DEF Moved, Placed
<1>4. Moved(s, Connect(n, u, b))
  BY <1>2, <1>3, ConnectMoves, MovedOn
<1>5. TryConnect(n, s, b) = IF Verified(v, b) THEN [state |-> Connect(n, u, b), ok |-> TRUE]
                                              ELSE [state |-> v, ok |-> FALSE]
  BY DEF TryConnect, u, v
<1> QED  BY <1>1, <1>4, <1>5

-----------------------------------------------------------------------------
(* The loops of reorganize. A loop over bs is a function of the number of  *)
(* blocks done; it exists by induction, and so does what it moves.         *)

\* The states that DisconnectAll goes through.
LEMMA DisconnectAllSteps ==
  ASSUME NEW n, NEW s, NEW bs, Len(bs) \in Nat
  PROVE  \E after :
           /\ after[0] = s /\ DisconnectAll(n, s, bs) = after[Len(bs)]
           /\ \A i \in 1..Len(bs) :
                after[i] = Disconnect(n, after[i - 1], bs[Len(bs) + 1 - i])
<1> DEFINE Loop(k, g) ==
             g = [i \in 0..k |-> IF i = 0 THEN s
                                 ELSE Disconnect(n, g[i - 1], bs[Len(bs) + 1 - i])]
           T == {k \in Nat : \E g : Loop(k, g)}
<1>1. \E g : Loop(0, g)
  <2> DEFINE h == [i \in 0..0 |-> s]
  <2>1. Loop(0, h)
    OBVIOUS
  <2> HIDE DEF h
  <2> QED  BY <2>1
<1>2. ASSUME NEW k \in Nat, NEW g, Loop(k, g) PROVE \E h : Loop(k + 1, h)
  <2> DEFINE h == [i \in 0..(k + 1) |->
                     IF i = k + 1 THEN Disconnect(n, g[k], bs[Len(bs) + 1 - i]) ELSE g[i]]
  <2>1. \A i \in 0..(k + 1) :
          h[i] = IF i = 0 THEN s ELSE Disconnect(n, h[i - 1], bs[Len(bs) + 1 - i])
    BY <1>2
  <2>2. Loop(k + 1, h)
    BY Zenon, <2>1
  <2> HIDE DEF h
  <2> QED  BY ZenonT(60), <2>2
<1> HIDE DEF Loop
<1>3. Nat \subseteq T
  <2>1. 0 \in T
    BY <1>1
  <2>2. \A k \in Nat : k \in T => k + 1 \in T
    BY <1>2
  <2> HIDE DEF T
  <2> QED  BY <2>1, <2>2, Induction
<1> DEFINE after == CHOOSE g : Loop(Len(bs), g)
<1>4. Loop(Len(bs), after)
  BY <1>3
<1>5. DisconnectAll(n, s, bs) = after[Len(bs)]
  BY DEF DisconnectAll, Loop
<1> HIDE DEF after
<1> QED  BY SMTT(60), <1>4, <1>5 DEF Loop

\* The states that ConnectAll goes through.
LEMMA ConnectAllSteps ==
  ASSUME NEW n, NEW s, NEW bs, Len(bs) \in Nat
  PROVE  \E after :
           /\ after[0].state = s
           /\ ConnectAll(n, s, bs) = after[Len(bs)]
           /\ \A i \in 1..Len(bs) :
                after[i] = ConnectNext(n, after[i - 1], bs[i])
<1> DEFINE start == [state |-> s, ok |-> TRUE]
           Loop(k, g) == g = [i \in 0..k |-> IF i = 0 THEN start
                                             ELSE ConnectNext(n, g[i - 1], bs[i])]
           T == {k \in Nat : \E g : Loop(k, g)}
<1> HIDE DEF start
<1>1. \E g : Loop(0, g)
  <2> DEFINE h == [i \in 0..0 |-> start]
  <2>1. Loop(0, h)
    OBVIOUS
  <2> HIDE DEF h
  <2> QED  BY <2>1
<1>2. ASSUME NEW k \in Nat, NEW g, Loop(k, g) PROVE \E h : Loop(k + 1, h)
  <2> DEFINE h == [i \in 0..(k + 1) |->
                     IF i = k + 1 THEN ConnectNext(n, g[k], bs[i]) ELSE g[i]]
  <2>1. \A i \in 0..(k + 1) :
          h[i] = IF i = 0 THEN start ELSE ConnectNext(n, h[i - 1], bs[i])
    BY <1>2
  <2>2. Loop(k + 1, h)
    BY ZenonT(60), <2>1
  <2> HIDE DEF h
  <2> QED  BY <2>2
<1> HIDE DEF Loop
<1>3. Nat \subseteq T
  <2>1. 0 \in T
    BY <1>1
  <2>2. \A k \in Nat : k \in T => k + 1 \in T
    BY <1>2
  <2> HIDE DEF T
  <2> QED  BY <2>1, <2>2, Induction
<1> DEFINE after == CHOOSE g : Loop(Len(bs), g)
<1>4. Loop(Len(bs), after)
  BY <1>3
<1>5. ConnectAll(n, s, bs) = after[Len(bs)]
  BY DEF ConnectAll, Loop, start
<1> HIDE DEF after
<1>6. /\ after[0] = start
      /\ \A i \in 1..Len(bs) : after[i] = ConnectNext(n, after[i - 1], bs[i])
  BY <1>4 DEF Loop
<1> QED  BY <1>5, <1>6 DEF start

\* DisconnectAll, however many blocks it takes off.
LEMMA DisconnectAllMoves ==
  ASSUME IInv, NEW n, NEW s, Placed(s), NEW bs \in Seq(DOMAIN block)
  PROVE  Moved(s, DisconnectAll(n, s, bs))
<1>1. Len(bs) \in Nat
  OBVIOUS
<1>2. PICK after : /\ after[0] = s /\ DisconnectAll(n, s, bs) = after[Len(bs)]
                   /\ \A i \in 1..Len(bs) :
                        after[i] = Disconnect(n, after[i - 1], bs[Len(bs) + 1 - i])
  BY <1>1, DisconnectAllSteps
<1> DEFINE T == {k \in Nat : k <= Len(bs) => Moved(s, after[k])}
<1>3. 0 \in T
  BY <1>2, MovedSame
<1>4. ASSUME NEW k \in Nat, k \in T PROVE k + 1 \in T
  <2> SUFFICES ASSUME k + 1 <= Len(bs) PROVE Moved(s, after[k + 1])
    OBVIOUS
  <2>1. Moved(s, after[k]) /\ Placed(after[k])
    BY <1>1, <1>4 DEF Moved, Placed
  <2>2. after[k + 1] = Disconnect(n, after[k], bs[Len(bs) - k])
        /\ bs[Len(bs) - k] \in DOMAIN block
    <3>1. k + 1 \in 1..Len(bs) /\ (k + 1) - 1 = k /\ Len(bs) + 1 - (k + 1) = Len(bs) - k
          /\ Len(bs) - k \in 1..Len(bs)
      BY <1>1
    <3> QED  BY SMTT(60), <1>2, <3>1
  <2> QED  BY <2>1, <2>2, DisconnectMoves, MovedOn
<1> HIDE DEF T
<1>5. Nat \subseteq T
  BY Zenon, <1>3, <1>4, Induction
<1> QED  BY <1>1, <1>2, <1>5 DEF T

\* ConnectAll, however many blocks it connects before one is refused.
LEMMA ConnectAllMoves ==
  ASSUME IInv, NEW n, NEW s, Placed(s), NEW bs \in Seq(DOMAIN block)
  PROVE  Moved(s, ConnectAll(n, s, bs).state)
<1>1. Len(bs) \in Nat
  OBVIOUS
<1>2. PICK after :
           /\ after[0].state = s
           /\ ConnectAll(n, s, bs) = after[Len(bs)]
           /\ \A i \in 1..Len(bs) :
                after[i] = ConnectNext(n, after[i - 1], bs[i])
  BY <1>1, ConnectAllSteps
<1> DEFINE T == {k \in Nat : k <= Len(bs) => Moved(s, after[k].state)}
<1>3. 0 \in T
  BY <1>2, MovedSame
<1>4. ASSUME NEW k \in Nat, k \in T PROVE k + 1 \in T
  <2> SUFFICES ASSUME k + 1 <= Len(bs) PROVE Moved(s, after[k + 1].state)
    OBVIOUS
  <2> DEFINE u == NotifyDynastyUpdate(after[k].state)
  <2>1. Moved(s, after[k].state)
    BY <1>1, <1>4
  <2>2. Moved(s, u) /\ Placed(u)
    BY <2>1 DEF NotifyDynastyUpdate, Moved, Placed, Fields
  <2>3. after[k + 1] = (IF after[k].ok THEN TryConnect(n, u, bs[k + 1]) ELSE after[k])
        /\ bs[k + 1] \in DOMAIN block
    <3>1. k + 1 \in 1..Len(bs) /\ (k + 1) - 1 = k
      BY <1>1
    <3> QED  BY <1>2, <3>1 DEF ConnectNext
  <2> HIDE DEF u
  <2>4. Moved(s, TryConnect(n, u, bs[k + 1]).state)
    BY ZenonT(60), <2>2, <2>3, TryConnectMoves, MovedOn
  <2> QED  BY <2>1, <2>3, <2>4
<1> HIDE DEF T
<1>5. Nat \subseteq T
  BY Zenon, <1>3, <1>4, Induction
<1> QED  BY <1>1, <1>2, <1>5 DEF T

\* The blocks of a branch exist.
LEMMA BranchKnown ==
  ASSUME BlocksOK(block), NEW b \in DOMAIN block, NEW f \in Nat
  PROVE  Branch(b, f) \in Seq(DOMAIN block)
<1>1. block[b].chain \in Seq(DOMAIN block)
  BY DEF BlocksOK, Votable
<1> QED  BY <1>1 DEF Branch, Height

\* There is a fork point.
LEMMA ForkNat ==
  ASSUME BlocksOK(block), NEW a \in DOMAIN block, NEW b \in DOMAIN block
  PROVE  Fork(a, b) \in Nat
<1> DEFINE S == {h \in 0..Height(a) : h <= Height(b) /\ Anc(a, h) = Anc(b, h)}
<1>1. Height(a) \in Nat /\ Height(b) \in Nat
  BY QuorumNat DEF Height, HeightIn
<1>2. 0 \in S
  BY <1>1 DEF Anc
<1>3. S \in SUBSET (0..Height(a)) /\ S # {}
  BY <1>2
<1> HIDE DEF S
<1>4. \E x \in S : \A y \in S : y <= x
  BY Zenon, <1>1, <1>3, GreatestNumber
<1>5. \A x, y \in S : y <= x <=> x >= y
  BY <1>1, <1>3
<1>6. Max(S) \in S
  BY ZenonT(60), <1>4, <1>5 DEF Max
<1> QED  BY <1>1, <1>3, <1>6 DEF Fork, S

\* reorganize, however it ends.
LEMMA ReorganizeMoves ==
  ASSUME IInv, NEW n, NEW s, Placed(s), NEW b \in DOMAIN block
  PROVE  Moved(s, reorganize(n, s, b))
<1> DEFINE f == Fork(s.tail, b)
           old == Branch(s.tail, f)
           down == DisconnectAll(n, s, old)
           try == ConnectAll(n, down, Branch(b, f))
           undone == DisconnectAll(n, try.state, Branch(try.state.tail, f))
           back == ConnectAll(n, undone, old)
<1> HIDE DEF f
<1>0. f \in Nat /\ BlocksOK(block)
  BY ForkNat DEF f, IInv, Placed
<1>1. Moved(s, s) /\ old \in Seq(DOMAIN block) /\ Branch(b, f) \in Seq(DOMAIN block)
  BY Zenon, <1>0, BranchKnown, MovedSame DEF Placed
<1> HIDE DEF old
<1>2. Moved(s, down) /\ Placed(down)
  BY <1>1, DisconnectAllMoves, MovedOn
<1> HIDE DEF down
<1>3. Moved(s, try.state) /\ Placed(try.state)
  BY <1>1, <1>2, ConnectAllMoves, MovedOn
<1> HIDE DEF try
<1>4. Branch(try.state.tail, f) \in Seq(DOMAIN block)
  BY ZenonT(60), <1>0, <1>3, BranchKnown DEF Placed
<1>5. Moved(s, undone) /\ Placed(undone)
  BY <1>3, <1>4, DisconnectAllMoves, MovedOn
<1> HIDE DEF undone
<1>6. Moved(s, back.state)
  BY <1>1, <1>5, ConnectAllMoves, MovedOn
<1> HIDE DEF back
<1>7. Moved(s, Forget(back.state))
  BY <1>6 DEF Forget, Moved, Fields
<1>8. Moved(s, [s EXCEPT !.stored = @ \ Range(Branch(b, f))])
  BY <1>1 DEF Moved, Fields
<1>9. reorganize(n, s, b) = CASE f < Height(s.eternal) -> [s EXCEPT !.stored = @ \ Range(Branch(b, f))]
       [] f >= Height(s.eternal) /\ try.ok -> try.state
       [] f >= Height(s.eternal) /\ ~try.ok /\ back.ok -> back.state
       [] OTHER -> Forget(back.state)
  BY DEF reorganize, f, old, down, try, undone, back
<1> QED  BY ZenonT(60), <1>3, <1>6, <1>7, <1>8, <1>9

-----------------------------------------------------------------------------
(* Every step keeps the invariant.                                         *)

\* A step of node n that adds no block.
LEMMA NodeStep ==
  ASSUME IInv, NEW n \in Node, NEW t, node' = [node EXCEPT ![n] = t],
         UNCHANGED <<now, block>>, node[n].sent \subseteq t.sent, StateOK(node', block, n, t)
  PROVE  IInv'
<1>1. DOMAIN node' = Node /\ \A m \in Node : node'[m] = IF m = n THEN t ELSE node[m]
  BY DEF IInv
<1>2. MoreVotes(node, node') /\ MoreBlocks(block, block)
  BY ZenonT(60), <1>1 DEF MoreVotes, MoreBlocks
<1>3. \A m \in Node : StateOK(node', block, m, node'[m])
  BY ZenonT(60), <1>1, <1>2, StateKept DEF IInv
<1>4. \A b \in DOMAIN block :
        block[b].info # None => InfoOK(node', block, b, block[b].info)
  BY <1>2, InfoKept DEF IInv
<1> QED  BY Zenon, <1>1, <1>3, <1>4 DEF IInv

\* A step of node n that moves it.
LEMMA MovedStep ==
  ASSUME IInv, NEW n \in Node, NEW t, node' = [node EXCEPT ![n] = t],
         UNCHANGED <<now, block>>, Moved(node[n], t)
  PROVE  IInv'
<1>1. node[n].sent \subseteq t.sent /\ DOMAIN node = Node
  BY DEF Moved, IInv
<1>2. MoreVotes(node, node') /\ MoreBlocks(block, block)
  BY <1>1 DEF MoreVotes, MoreBlocks
<1>3. StateOK(node', block, n, node[n])
  BY <1>2, StateKept DEF IInv
<1>4. StateOK(node', block, n, t)
  BY <1>3, MovedOK DEF IInv
<1> QED  BY <1>1, <1>4, NodeStep, ZenonT(40)

\* Blocks from others.
LEMMA AcceptStep ==
  ASSUME IInv, NEW n \in Node, NEW b \in DOMAIN block,
         Extend(n, b) \/ StoreSide(n, b) \/ Reorganize(n, b)
  PROVE  IInv'
<1>0. Placed(node[n]) /\ DOMAIN node = Node
  BY DEF IInv, StateOK, Placed
<1>1. CASE Extend(n, b)
  BY Zenon, <1>0, <1>1, TryConnectMoves, MovedStep DEF Extend, Arrives
<1>2. CASE StoreSide(n, b)
  <2> DEFINE t == [node[n] EXCEPT !.stored = @ \cup {b}]
  <2>1. Moved(node[n], t)
    BY <1>0 DEF Placed, Moved, Fields
  <2>2. node' = [node EXCEPT ![n] = t]
    BY <1>2 DEF StoreSide
  <2> HIDE DEF t
  <2> QED  BY Zenon, <1>2, <2>1, <2>2, MovedStep DEF StoreSide, Arrives
<1>3. CASE Reorganize(n, b)
  BY ZenonT(60), <1>0, <1>3, ReorganizeMoves, MovedStep DEF Reorganize, Arrives
<1> QED  BY ZenonT(60), <1>1, <1>2, <1>3

\* run refreshes the dynasty, and a restart forgets what is not in the database.
LEMMA QuietStep ==
  ASSUME IInv, NEW n \in Node, NotMyTurn(n) \/ Restart(n)
  PROVE  IInv'
<1>0. Placed(node[n])
  BY DEF IInv, StateOK, Placed
<1>1. Moved(node[n], RefreshDynasty(node[n])) /\ Moved(node[n], Forget(node[n]))
  BY <1>0 DEF Placed, Moved, Fields, RefreshDynasty, Forget
<1> QED  BY ZenonT(60), <1>1, MovedStep DEF NotMyTurn, Restart

\* Votes of others that make a set complete were sent by enough nodes.
LEMMA CompleteVotes ==
  ASSUME NEW votes, NEW b \in DOMAIN block, NEW m, NEW S \in SUBSET Node, BlocksOK(block),
         Completes(votes, b, m), m \in S, \A v \in votes : v[1] = b => v[2] \in S
  PROVE  Cardinality(S) >= QuorumIn(block, b)
<1> DEFINE A == {v[2] : v \in {w \in votes : w[1] = b}} \cup {m}
<1>1. A \subseteq S /\ Cardinality(A) >= QuorumIn(block, b)
  BY DEF Completes, Enough, QuorumIn, HeightIn, Height
<1> HIDE DEF A
<1> QED  BY ZenonT(60), <1>1, QuorumNat, CardMore

\* handleBlockPrepareMsg.
LEMMA PrepareStep ==
  ASSUME IInv, NEW n \in Node, NEW m \in Node \ {n}, NEW b \in DOMAIN block,
         handleBlockPrepareMsg(n, m, b)
  PROVE  IInv'
<1> DEFINE s == node[n]
<1>0. StateOK(node, block, n, s) /\ StateOK(node, block, m, node[m]) /\ Placed(s)
      /\ DOMAIN s = Fields /\ UNCHANGED <<now, block>> /\ BlocksOK(block)
  BY ZenonT(60) DEF IInv, StateOK, Placed, handleBlockPrepareMsg
<1>1. b \in Votable(block) /\ m \in VotersIn(node, "prepare", b) \ {n}
  <2>1. PICK v \in node[m].sent : v.kind = "prepare" /\ v.block = b
    BY DEF handleBlockPrepareMsg, Votes
  <2> QED  BY <1>0, <2>1 DEF StateOK, VotersIn
<1>2. CASE node' = [node EXCEPT ![n] = [s EXCEPT !.prep = @ \cup {<<b, m>>}]]
  <2> DEFINE t == [s EXCEPT !.prep = @ \cup {<<b, m>>}]
  <2>1. t.prep = s.prep \cup {<<b, m>>} /\ DOMAIN t = Fields
        /\ \A x \in Fields \ {"prep"} : t[x] = s[x]
    BY <1>0 DEF Fields
  <2>2. \A v \in t.prep : v \in Votable(block) \X (VotersIn(node, "prepare", v[1]) \ {n})
    BY <1>0, <1>1, <2>1 DEF StateOK
  <2>3. node' = [node EXCEPT ![n] = t]
    BY ZenonT(60), <1>2
  <2> HIDE DEF t
  <2>4. StateOK(node, block, n, t) /\ s.sent = t.sent
    BY ZenonT(60), <1>0, <2>1, <2>2 DEF StateOK, Fields
  <2>5. MoreVotes(node, node') /\ MoreBlocks(block, block)
    BY ZenonT(60), <2>3, <2>4 DEF MoreVotes, MoreBlocks, IInv
  <2>6. StateOK(node', block, n, t)
    BY ZenonT(60), <1>0, <2>4, <2>5, StateKept
  <2> QED  BY <1>0, <2>3, <2>4, <2>6, NodeStep, ZenonT(40)
<1>3. CASE node' = [node EXCEPT ![n] = Forget(s)]
  <2>1. Moved(s, Forget(s))
    BY <1>0 DEF Placed, Moved, Fields, Forget
  <2> QED  BY Zenon, <1>0, <1>3, <2>1, MovedStep
<1>4. CASE /\ Completes(s.prep, b, m)
           /\ node' = [node EXCEPT ![n] =
                [s EXCEPT !.prepKey = @ \cup {b}, !.prep = {v \in @ : v[1] # b},
                          !.sent = @ \cup {Vote(n, s, "commit", b)}]]
  <2> DEFINE t == [s EXCEPT !.prepKey = @ \cup {b}, !.prep = {v \in @ : v[1] # b},
                            !.sent = @ \cup {Vote(n, s, "commit", b)}]
             x == Vote(n, s, "commit", b)
  <2>1. x.kind = "commit" /\ x.block = b
    BY DEF Vote
  <2>2. t.prep \subseteq s.prep /\ t.sent = s.sent \cup {x} /\ DOMAIN t = Fields
        /\ \A y \in Fields \ {"prep", "prepKey", "sent"} : t[y] = s[y]
    BY Zenon, <1>0 DEF Fields
  <2>3. node' = [node EXCEPT ![n] = t]
    BY <1>4
  <2> HIDE DEF t, x
  <2>4. Prepared(node, block, n, b)
    <3>1. VotersIn(node, "prepare", b) \ {n} \in SUBSET Node
      BY Zenon DEF VotersIn
    <3>2. \A v \in s.prep : v[1] = b => v[2] \in VotersIn(node, "prepare", b) \ {n}
      BY ZenonT(60), <1>0 DEF StateOK
    <3> QED  BY ZenonT(60), <1>0, <1>1, <1>4, <3>1, <3>2, CompleteVotes DEF Prepared
  <2>5. StateOK(node, block, n, t)
    BY ZenonT(60), <1>0, <1>1, <2>1, <2>2, <2>4 DEF StateOK, Fields
  <2>6. MoreVotes(node, node') /\ MoreBlocks(block, block)
    BY ZenonT(60), <2>2, <2>3 DEF MoreVotes, MoreBlocks, IInv
  <2>7. StateOK(node', block, n, t)
    BY ZenonT(60), <1>0, <2>5, <2>6, StateKept
  <2> QED  BY <1>0, <2>2, <2>3, <2>7, NodeStep, ZenonT(40)
<1> QED  BY Zenon, <1>2, <1>3, <1>4 DEF handleBlockPrepareMsg

\* updateEternal, for a block with enough commit votes.
LEMMA EternalUpdate ==
  ASSUME BlocksOK(block), NEW nd, NEW n, NEW s, StateOK(nd, block, n, s),
         NEW b \in Votable(block), Committed(nd, block, b)
  PROVE  StateOK(nd, block, n, updateEternal(s, b)) /\ updateEternal(s, b).sent = s.sent
<1> DEFINE t == [s EXCEPT !.eternal = b]
<1>1. DOMAIN t = Fields /\ t.eternal = b /\ \A x \in Fields \ {"eternal"} : t[x] = s[x]
  BY DEF StateOK, Fields
<1>2. updateEternal(s, b) = s \/ updateEternal(s, b) = t
  BY ZenonT(60) DEF updateEternal
<1> HIDE DEF t
<1>3. StateOK(nd, block, n, t) /\ t.sent = s.sent
  BY <1>1 DEF StateOK, Fields, Votable
<1> QED  BY ZenonT(60), <1>2, <1>3

\* handleBlockCommitMsg.
LEMMA CommitStep ==
  ASSUME IInv, NEW n \in Node, NEW m \in Node \ {n}, NEW b \in DOMAIN block,
         handleBlockCommitMsg(n, m, b)
  PROVE  IInv'
<1> DEFINE s == node[n]
           c == [s EXCEPT !.com = @ \cup {<<b, m>>}]
           k == [c EXCEPT !.comKey = @ \cup {b}]
<1>0. StateOK(node, block, n, s) /\ StateOK(node, block, m, node[m])
      /\ DOMAIN s = Fields /\ UNCHANGED <<now, block>> /\ BlocksOK(block)
  BY ZenonT(60) DEF IInv, StateOK, handleBlockCommitMsg
<1>1. b \in Votable(block) /\ m \in VotersIn(node, "commit", b) \cap BookkeepersIn(block, b)
  <2>1. PICK v \in node[m].sent : v.kind = "commit" /\ v.block = b
    BY DEF handleBlockCommitMsg, Votes
  <2>2. m \in BookkeepersIn(block, b)
    BY ZenonT(60) DEF handleBlockCommitMsg, preCheck, BookkeepersIn, HeightIn, Height
  <2> QED  BY <1>0, <2>1, <2>2 DEF StateOK, VotersIn
<1>2. StateOK(node, block, n, c) /\ c.sent = s.sent
  <2>1. c.com = s.com \cup {<<b, m>>} /\ DOMAIN c = Fields
        /\ \A x \in Fields \ {"com"} : c[x] = s[x]
    BY <1>0 DEF Fields
  <2>2. \A v \in c.com :
          v \in Votable(block) \X (VotersIn(node, "commit", v[1]) \cap BookkeepersIn(block, v[1]))
    BY SMTT(60), <1>0, <1>1, <2>1 DEF StateOK
  <2> HIDE DEF c
  <2> QED  BY <1>0, <2>1, <2>2 DEF StateOK, Fields
<1>3. StateOK(node, block, n, k) /\ k.sent = s.sent
  <2> HIDE DEF c
  <2>1. DOMAIN k = Fields /\ \A x \in Fields \ {"comKey"} : k[x] = c[x]
    BY ZenonT(60), <1>2 DEF StateOK, Fields
  <2> HIDE DEF k
  <2> QED  BY <1>2, <2>1 DEF StateOK, Fields
<1>4. Completes(s.com, b, m) => Committed(node, block, b)
  <2>1. VotersIn(node, "commit", b) \cap BookkeepersIn(block, b) \in SUBSET Node
    BY ZenonT(60) DEF VotersIn
  <2>2. \A v \in s.com : v[1] = b => v[2] \in VotersIn(node, "commit", b) \cap BookkeepersIn(block, b)
    BY <1>0 DEF StateOK
  <2> QED  BY ZenonT(60), <1>0, <1>1, <2>1, <2>2, CompleteVotes DEF Committed
<1> DEFINE t == IF Completes(s.com, b, m) THEN updateEternal(k, b) ELSE c
<1>5. node' = [node EXCEPT ![n] = t]
  BY ZenonT(60) DEF handleBlockCommitMsg
<1> HIDE DEF c, k
<1>6. StateOK(node, block, n, t) /\ t.sent = s.sent
  BY <1>0, <1>1, <1>2, <1>3, <1>4, EternalUpdate
<1> HIDE DEF t
<1>7. MoreVotes(node, node') /\ MoreBlocks(block, block)
  BY ZenonT(60), <1>5, <1>6 DEF MoreVotes, MoreBlocks, IInv
<1>8. StateOK(node', block, n, t)
  BY <1>0, <1>6, <1>7, StateKept
<1> QED  BY ZenonT(60), <1>0, <1>5, <1>6, <1>8, NodeStep

\* TryToUpdateEternalBlock.
LEMMA FinalStep ==
  ASSUME IInv, NEW n \in Node, NEW p \in DOMAIN block, TryToUpdateEternalBlock(n, p)
  PROVE  IInv'
<1> DEFINE s == [node[n] EXCEPT !.finals = @ \ {p}]
           i == block[p].info
           t == IF Enough(i.from, s.vdyn) /\ i.block \in s.stored THEN updateEternal(s, i.block)
                ELSE s
<1>0. StateOK(node, block, n, node[n]) /\ DOMAIN node[n] = Fields
      /\ UNCHANGED <<now, block>> /\ BlocksOK(block)
  BY DEF IInv, StateOK, TryToUpdateEternalBlock
<1>1. InfoOK(node, block, p, i)
  BY ZenonT(60), <1>0 DEF TryToUpdateEternalBlock, StateOK, IInv
<1>2. i.block \in Votable(block) /\ Committed(node, block, i.block)
  <2>1. i.block \in Votable(block) /\ i.block \in DOMAIN block
        /\ i.from \subseteq VotersIn(node, "commit", i.block) \cap BookkeepersIn(block, i.block)
        /\ Cardinality(i.from) >= QuorumIn(block, i.block)
    BY <1>1 DEF InfoOK, Votable
  <2>2. VotersIn(node, "commit", i.block) \cap BookkeepersIn(block, i.block) \in SUBSET Node
    BY Zenon DEF VotersIn
  <2>3. QuorumIn(block, i.block) \in Nat
    BY ZenonT(60), <1>0, <2>1, QuorumNat
  <2> QED  BY SMTT(60), <2>1, <2>2, <2>3, CardMore DEF Committed
<1>3. StateOK(node, block, n, s) /\ s.sent = node[n].sent
  <2>1. s.finals \subseteq node[n].finals /\ DOMAIN s = Fields
        /\ \A x \in Fields \ {"finals"} : s[x] = node[n][x]
    BY <1>0 DEF Fields
  <2> HIDE DEF s
  <2> QED  BY <1>0, <2>1 DEF StateOK, Fields
<1>4. node' = [node EXCEPT ![n] = t]
  BY ZenonT(60) DEF TryToUpdateEternalBlock
<1> HIDE DEF s, i
<1>5. StateOK(node, block, n, t) /\ t.sent = node[n].sent
  BY ZenonT(60), <1>0, <1>2, <1>3, EternalUpdate
<1> HIDE DEF t
<1>6. MoreVotes(node, node') /\ MoreBlocks(block, block)
  BY <1>4, <1>5 DEF MoreVotes, MoreBlocks, IInv
<1>7. StateOK(node', block, n, t)
  BY ZenonT(60), <1>0, <1>5, <1>6, StateKept
<1> QED  BY Zenon, <1>0, <1>4, <1>5, <1>7, NodeStep

\* FetchIrreversibleInfo names a block of the main chain that has enough commit
\* votes in the cache.
LEMMA FetchOK ==
  ASSUME BlocksOK(block), NEW n, NEW s, StateOK(node, block, n, s),
         FetchIrreversibleInfo(s) # None
  PROVE  LET i == FetchIrreversibleInfo(s) IN
         /\ i.block \in Votable(block)
         /\ HeightIn(block, i.block) \in 1..HeightIn(block, s.tail)
         /\ block[s.tail].chain[HeightIn(block, i.block)] = i.block
         /\ i.from \subseteq VotersIn(node, "commit", i.block) \cap BookkeepersIn(block, i.block)
         /\ Cardinality(i.from) >= QuorumIn(block, i.block)
<1> DEFINE S == FinalHeights(s)
           h == Max(S)
           c == Anc(s.tail, h)
<1>0. s.tail \in DOMAIN block /\ Height(s.tail) \in Nat
      /\ Height(s.tail) = HeightIn(block, s.tail)
  BY QuorumNat DEF StateOK, Height, HeightIn
<1>1. S # {} /\ FetchIrreversibleInfo(s) = [block |-> c, from |-> Committers(s, c)]
  BY DEF FetchIrreversibleInfo
<1>2. h \in S
  <2>1. S \in SUBSET (0..Height(s.tail))
    BY <1>0 DEF FinalHeights
  <2> HIDE DEF S
  <2>2. \E x \in S : \A y \in S : y <= x
    BY <1>0, <1>1, <2>1, GreatestNumber, ZenonT(40)
  <2>3. \A x, y \in S : y <= x <=> x >= y
    BY <1>0, <2>1
  <2> QED  BY ZenonT(60), <2>2, <2>3 DEF Max
<1> HIDE DEF h
<1>3. h \in 1..Height(s.tail) /\ Enough(Committers(s, c), DynastyAt(h))
  BY ZenonT(60), <1>2 DEF FinalHeights
<1>4. h # 0 /\ c = block[s.tail].chain[h]
  BY <1>0, <1>3 DEF Anc
<1>5. c \in Votable(block) /\ HeightIn(block, c) = h
  BY <1>0, <1>3, <1>4 DEF BlocksOK, HeightIn, Height
<1> HIDE DEF c
<1>6. Committers(s, c) \subseteq VotersIn(node, "commit", c) \cap BookkeepersIn(block, c)
  <2> SUFFICES ASSUME NEW m \in Node, <<c, m>> \in s.com
               PROVE  m \in VotersIn(node, "commit", c) \cap BookkeepersIn(block, c)
    BY DEF Committers
  <2>1. <<c, m>>[1] = c /\ <<c, m>>[2] = m
    OBVIOUS
  <2> QED  BY ZenonT(60), <2>1 DEF StateOK
<1>7. Cardinality(Committers(s, c)) >= QuorumIn(block, c)
  BY <1>3, <1>5 DEF Enough, QuorumIn
<1> QED  BY <1>0, <1>1, <1>3, <1>4, <1>5, <1>6, <1>7

\* Mint.
LEMMA MintStep ==
  ASSUME IInv, NEW n \in Node, Mint(n)
  PROVE  IInv'
<1> DEFINE s == RefreshDynasty(node[n])
           b == <<now, n>>
           info == FetchIrreversibleInfo(s)
           chain == Append(block[s.tail].chain, b)
           minted == [chain |-> chain, info |-> info, dyn |-> s.dyn]
           e == IF SwitchesDynasty(Height(s.tail) + 1) THEN [s EXCEPT !.dyn = None] ELSE s
           d == DropInfo(e, info)
           u == Finalize(n, d, Height(s.tail) + 1, s.tail)
           t == [u EXCEPT !.tail = b, !.stored = @ \cup {b}]
<1>0. BlocksOK(block) /\ StateOK(node, block, n, node[n]) /\ Placed(node[n])
      /\ DOMAIN node = Node /\ Genesis \in DOMAIN block
  BY ZenonT(60) DEF IInv, StateOK, Placed, BlocksOK
<1>1. /\ b \notin DOMAIN block /\ now' = now
      /\ block' = [c \in DOMAIN block \cup {b} |-> IF c = b THEN minted ELSE block[c]]
      /\ node' = [node EXCEPT ![n] = t]
  BY DEF Mint
<1>2. Moved(node[n], s) /\ Placed(s)
  BY <1>0 DEF Placed, Moved, Fields, RefreshDynasty
<1>3. StateOK(node, block, n, s)
  BY Zenon, <1>0, <1>2, MovedOK
<1> HIDE DEF s
<1>4. s.tail \in DOMAIN block
  BY <1>3 DEF StateOK
<1>5. Moved(s, e) /\ Placed(e)
  BY <1>2 DEF Placed, Moved, Fields
<1> HIDE DEF e
<1>6. Moved(e, d) /\ Placed(d)
  BY <1>5 DEF Placed, Moved, Fields, DropInfo
<1> HIDE DEF d
<1>7. Moved(d, u)
  BY ZenonT(60), <1>4, <1>6, FinalizeMoves
<1> HIDE DEF u
<1>8. Moved(node[n], u)
  BY ZenonT(60), <1>2, <1>5, <1>6, <1>7, MovedOn
<1>9. StateOK(node, block, n, u)
  BY <1>0, <1>8, MovedOK
<1>10. t.tail = b /\ DOMAIN t = Fields /\ \A x \in Fields \ {"tail", "stored"} : t[x] = u[x]
  BY Zenon, <1>9 DEF StateOK, Fields
<1> HIDE DEF t
<1>11. MoreVotes(node, node') /\ MoreBlocks(block, block')
  <2>1. node[n].sent \subseteq t.sent
    BY <1>8, <1>10 DEF Moved, Fields
  <2> QED  BY Zenon, <1>0, <1>1, <2>1 DEF MoreVotes, MoreBlocks
<1>12. /\ DOMAIN block' = DOMAIN block \cup {b} /\ b # Genesis
       /\ block'[b].chain = chain /\ block'[b].info = info
       /\ \A c \in DOMAIN block : block'[c] = block[c]
  BY <1>0, <1>1, ZenonT(40)
<1> HIDE DEF info, b
<1>13. StateOK(node', block', n, t)
  <2>1. StateOK(node', block', n, u)
    BY Zenon, <1>0, <1>9, <1>11, StateKept
  <2> QED  BY <1>10, <1>12, <2>1 DEF StateOK, Fields
<1>14. \A m \in Node : StateOK(node', block', m, node'[m])
  <2>1. \A m \in Node \ {n} : StateOK(node', block', m, node[m])
    BY ZenonT(60), <1>0, <1>11, StateKept DEF IInv
  <2> QED  BY Zenon, <1>0, <1>1, <1>13, <2>1
<1>15. /\ block[s.tail].chain \in Seq(Votable(block)) /\ HeightIn(block, s.tail) \in Nat
       /\ Len(chain) = HeightIn(block, s.tail) + 1 /\ chain[Len(chain)] = b
       /\ \A h \in 1..HeightIn(block, s.tail) : chain[h] = block[s.tail].chain[h]
  BY <1>0, <1>4 DEF BlocksOK, HeightIn
<1>16. Votable(block) \subseteq Votable(block') /\ b \in Votable(block')
       /\ Votable(block) \subseteq DOMAIN block
  BY ZenonT(60), <1>12 DEF Votable
<1>17. chain \in Seq(Votable(block'))
  BY <1>15, <1>16
<1>18. HeightIn(block', b) = HeightIn(block, s.tail) + 1
       /\ \A c \in DOMAIN block : HeightIn(block', c) = HeightIn(block, c)
  BY Zenon, <1>12, <1>15 DEF HeightIn
<1> HIDE DEF chain
<1>19. BlocksOK(block')
  <2>1. ASSUME NEW c \in DOMAIN block
        PROVE  /\ block'[c].chain \in Seq(Votable(block'))
               /\ c # Genesis => HeightIn(block', c) >= 1
               /\ \A h \in 1..HeightIn(block', c) : HeightIn(block', block'[c].chain[h]) = h
    <3>1. block[c].chain \in Seq(Votable(block)) /\ (c # Genesis => HeightIn(block, c) >= 1)
          /\ \A h \in 1..HeightIn(block, c) : HeightIn(block, block[c].chain[h]) = h
      BY <1>0 DEF BlocksOK
    <3>2. \A h \in 1..HeightIn(block, c) : block[c].chain[h] \in DOMAIN block
      BY <1>16, <3>1 DEF HeightIn
    <3> QED  BY SMTT(60), <1>12, <1>16, <1>18, <3>1, <3>2
  <2>2. /\ block'[b].chain \in Seq(Votable(block')) /\ HeightIn(block', b) >= 1
        /\ \A h \in 1..HeightIn(block', b) : HeightIn(block', block'[b].chain[h]) = h
    <3>1. ASSUME NEW h \in 1..HeightIn(block', b)
          PROVE  HeightIn(block', chain[h]) = h
      <4>1. CASE h = Len(chain)
        BY ZenonT(60), <1>15, <1>18, <4>1
      <4>2. CASE h \in 1..HeightIn(block, s.tail)
        <5>1. block[s.tail].chain[h] \in DOMAIN block
          BY <1>15, <1>16, <4>2 DEF HeightIn
        <5>2. HeightIn(block, block[s.tail].chain[h]) = h
          BY Zenon, <1>0, <1>4, <4>2 DEF BlocksOK
        <5> QED  BY ZenonT(60), <1>15, <1>18, <4>2, <5>1, <5>2
      <4> QED  BY <1>15, <1>18, <4>1, <4>2
    <3> QED  BY <1>12, <1>15, <1>17, <1>18, <3>1
  <2> QED  BY ZenonT(60), <1>0, <1>12, <2>1, <2>2 DEF BlocksOK
<1>20. ASSUME info # None
       PROVE  InfoOK(node', block', b, info)
  <2>1. /\ info.block \in Votable(block)
        /\ HeightIn(block, info.block) \in 1..HeightIn(block, s.tail)
        /\ block[s.tail].chain[HeightIn(block, info.block)] = info.block
        /\ info.from \subseteq VotersIn(node, "commit", info.block) \cap BookkeepersIn(block, info.block)
        /\ Cardinality(info.from) >= QuorumIn(block, info.block)
    BY Zenon, <1>0, <1>3, <1>20, FetchOK DEF info
  <2>2. info.block \in DOMAIN block /\ info.block # b /\ info.block \in Votable(block')
    BY ZenonT(60), <1>1, <1>16, <2>1
  <2> DEFINE c == info.block
  <2> HIDE DEF c
  <2>3. /\ HeightIn(block', c) = HeightIn(block, c)
        /\ BookkeepersIn(block', c) = BookkeepersIn(block, c)
        /\ QuorumIn(block', c) = QuorumIn(block, c)
        /\ VotersIn(node, "commit", c) \subseteq VotersIn(node', "commit", c)
    <3>1. c \in DOMAIN block
      BY ZenonT(60), <2>2 DEF c
    <3> QED  BY ONLY <1>0, <1>11, <3>1, BackedMore
  <2> USE DEF c
  <2>4. HeightIn(block', info.block) \in 1..HeightIn(block', b)
        /\ block'[b].chain[HeightIn(block', info.block)] = info.block
    BY SMTT(60), <1>12, <1>15, <1>18, <2>1, <2>3
  <2> QED  BY Zenon, <2>1, <2>2, <2>3, <2>4 DEF InfoOK
<1>21. \A c \in DOMAIN block' :
         block'[c].info # None => InfoOK(node', block', c, block'[c].info)
  <2>1. \A c \in DOMAIN block :
          block[c].info # None => InfoOK(node', block', c, block[c].info)
    BY Zenon, <1>0, <1>11, InfoKept DEF IInv
  <2> QED  BY <1>12, <1>20, <2>1
<1> QED  BY <1>0, <1>1, <1>14, <1>19, <1>21, ZenonT(40) DEF IInv

\* At the start every node has the genesis block and the first one.
LEMMA InitIInv == Init => IInv
<1> SUFFICES ASSUME Init PROVE IInv
  OBVIOUS
<1>1. First # Genesis
  BY BposAssumption DEF First, Genesis
<1>2. /\ DOMAIN block = {Genesis, First} /\ block[Genesis].chain = <<>>
      /\ block[First].chain = <<First>> /\ \A b \in DOMAIN block : block[b].info = None
  BY Zenon, <1>1 DEF Init
<1>3. HeightIn(block, Genesis) = 0 /\ HeightIn(block, First) = 1
  BY <1>2 DEF HeightIn
<1> HIDE DEF First, Genesis
<1>4. BlocksOK(block)
  <2>1. First \in Votable(block)
    BY <1>1, <1>2 DEF Votable
  <2>2. <<>> \in Seq(Votable(block)) /\ <<First>> \in Seq(Votable(block)) /\ <<First>>[1] = First
    BY <2>1
  <2>3. \A h \in 1..HeightIn(block, First) : HeightIn(block, block[First].chain[h]) = h
    BY <1>2, <1>3, <2>2
  <2>4. \A h \in 1..HeightIn(block, Genesis) : HeightIn(block, block[Genesis].chain[h]) = h
    BY <1>3
  <2>5. HeightIn(block, First) >= 1
    BY <1>3
  <2>6. Genesis \in DOMAIN block /\ block[Genesis].info = None
    BY <1>2
  <2>7. \A b \in DOMAIN block : b = Genesis \/ b = First
    BY <1>2
  <2> QED  BY ZenonT(60), <1>2, <2>2, <2>3, <2>4, <2>5, <2>6, <2>7 DEF BlocksOK
<1>5. \A n \in Node : StateOK(node, block, n, node[n])
  BY Zenon, <1>1, <1>2 DEF Init, StateOK, Fields
<1>6. now \in Nat \ {0} /\ DOMAIN node = Node
  BY DEF Init
<1> QED  BY <1>2, <1>4, <1>5, <1>6 DEF IInv

\* The inductive invariant: the votes a node has received were sent, and a node
\* that has sent its commit vote, a block in force and the info in a block have
\* enough of them.
THEOREM Backed == Spec => []IInv
<1>1. IInv /\ [Next]_vars => IInv'
  <2> SUFFICES ASSUME IInv, [Next]_vars PROVE IInv'
    OBVIOUS
  <2>1. CASE Tick
    BY <2>1 DEF Tick, IInv
  <2>2. CASE UNCHANGED vars
    BY <2>2 DEF vars, IInv
  <2> QED  BY ZenonT(60), <2>1, <2>2, MintStep, QuietStep, AcceptStep, PrepareStep, CommitStep, FinalStep
           DEF Next
<1> QED  BY <1>1, InitIInv, PTL DEF Spec

\* A node sends its commit vote for a block only when two thirds of the block's
\* bookkeepers, not counting itself, have sent their prepare vote.
THEOREM CommitAfterPrepare == Spec => []CommitHasPrepares
<1>1. IInv => CommitHasPrepares
  <2> SUFFICES ASSUME IInv, NEW b \in DOMAIN block, NEW n \in Voters("commit", b)
               PROVE  Cardinality(Voters("prepare", b) \ {n}) >= Quorum(b)
    BY DEF CommitHasPrepares
  <2>1. n \in Node /\ \E v \in node[n].sent : v.kind = "commit" /\ v.block = b
    BY Zenon DEF Voters
  <2>2. Prepared(node, block, n, b)
    BY Zenon, <2>1 DEF IInv, StateOK
  <2> QED  BY <2>2 DEF Prepared, VotersIn, Voters, QuorumIn, Quorum, HeightIn, Height
<1> QED  BY <1>1, Backed, PTL

\* A block is eternal on a node only when two thirds of its bookkeepers have sent
\* their commit vote for it, whichever way the node got to know.
THEOREM EternalAfterCommit == Spec => []EternalHasCommits
<1>1. IInv => EternalHasCommits
  <2> SUFFICES ASSUME IInv, NEW n \in Node, node[n].eternal # Genesis
               PROVE  Committed(node, block, node[n].eternal)
    BY Zenon DEF EternalHasCommits, Committed, VotersIn, Voters, QuorumIn, Quorum, HeightIn, Height,
       BookkeepersIn
  <2> QED  BY Zenon DEF IInv, StateOK
<1> QED  BY <1>1, Backed, PTL

\* What a miner writes into its block as irreversible is an earlier block of the
\* same chain with the commit votes of two thirds of its bookkeepers.
THEOREM InfoAfterCommit == Spec => []InfoBacked
<1>1. IInv => InfoBacked
  <2> SUFFICES ASSUME IInv, NEW b \in DOMAIN block, block[b].info # None
               PROVE  LET i == block[b].info IN
                      /\ i.block # Genesis /\ i.block # b /\ OnChain(i.block, b)
                      /\ i.from \subseteq Voters("commit", i.block)
                      /\ Cardinality(i.from) >= Quorum(i.block)
    BY DEF InfoBacked
  <2> DEFINE i == block[b].info
  <2>1. InfoOK(node, block, b, i)
    BY Zenon DEF IInv
  <2>2. i.block # Genesis /\ i.block # b /\ i.block \in DOMAIN block
    BY Zenon, <2>1 DEF InfoOK, Votable
  <2>3. OnChain(i.block, b)
    <3>1. HeightIn(block, i.block) \in 1..HeightIn(block, b) /\ HeightIn(block, b) \in Nat
      BY Zenon, <2>1, QuorumNat DEF InfoOK, IInv
    <3>2. HeightIn(block, i.block) <= HeightIn(block, b) /\ HeightIn(block, i.block) # 0
      BY SMTT(60), <3>1
    <3> QED  BY ZenonT(60), <2>1, <3>2 DEF InfoOK, OnChain, Anc, Height, HeightIn
  <2>4. i.from \subseteq Voters("commit", i.block) /\ Cardinality(i.from) >= Quorum(i.block)
    BY <2>1 DEF InfoOK, VotersIn, Voters, QuorumIn, Quorum, HeightIn, Height
  <2> QED  BY Zenon, <2>2, <2>3, <2>4
<1> QED  BY <1>1, Backed, PTL

=============================================================================
